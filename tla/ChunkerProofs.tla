--------------------------- MODULE ChunkerProofs ---------------------------
(***************************************************************************)
(* Proofs about Chunker, for documents of any length and any limits.       *)
(* Every step either leaves the parts (the emitted chunks and the pending  *)
(* one) alone, opens a part with the next block, opens several equal ones  *)
(* with the pieces of an oversized block, or grows the last part by the    *)
(* next block; the invariants on blocks, pages, boxes and sections are     *)
(* then proved over these four shapes.                                     *)
(***************************************************************************)
EXTENDS Chunker, WellFoundedInduction, TLAPS

(* What the pending chunk is between two steps.                            *)
PendingOK ==
    /\ pending.blocks = <<>> =>
         pending.types = <<>> /\ pending.page = 0 /\ pending.boxes = <<>>
    /\ pending.blocks # <<>> => pending.page # 0
    /\ \/ pending.section = last_section
       \/ pending.section = <<>> /\ pending.blocks = <<>>
    /\ \A j \in 1 .. Len(pending.blocks) :
         /\ pending.blocks[j] \in 1 .. next - 1
         /\ source[pending.blocks[j]].type \notin Atomic
         /\ \/ source[pending.blocks[j]].type = "heading"
            \/ source[pending.blocks[j]].size <= ChunkChars

TypeInv == TypeOK /\ source \in Sources /\ PendingOK

-----------------------------------------------------------------------------
(* Types                                                                   *)

LEMMA FlushedType ==
  ASSUME TypeOK, PendingOK
  PROVE  Flushed \in Seq(Chunk)
<1>1. CASE pending.blocks = <<>>
  BY <1>1 DEF Flushed, TypeOK
<1>2. CASE pending.blocks # <<>>
  <2>1. pending \in Chunk
    BY <1>2 DEF TypeOK, PendingOK, Chunk
  <2> QED
    BY <1>2, <2>1 DEF Flushed, TypeOK
<1> QED
  BY <1>1, <1>2

LEMMA NextBlock ==
  ASSUME TypeOK, next <= Len(source)
  PROVE  /\ next \in Nat \ {0}
         /\ source[next] \in Block
         /\ BoxOf(next) \in Seq(Nat)
<1>1. Len(source) \in Nat /\ next \in 1 .. Len(source)
  BY DEF TypeOK
<1>2. source[next] \in Block
  BY <1>1 DEF TypeOK
<1> QED
  BY <1>1, <1>2 DEF BoxOf

LEMMA SingleType ==
  ASSUME TypeOK, next <= Len(source), NEW n \in Nat, NEW s \in Seq(Nat)
  PROVE  Single(next, n, s) \in Chunk
<1>1. /\ next \in Nat /\ BoxOf(next) \in Seq(Nat)
      /\ source[next].type \in BlockTypes
      /\ source[next].page \in Nat \ {0}
  BY NextBlock DEF Block
<1>2. <<next>> \in Seq(Nat) /\ <<source[next].type>> \in Seq(BlockTypes)
  BY <1>1
<1> QED
  BY <1>1, <1>2 DEF Single, Packing, Chunk

LEMMA ResetType ==
  ASSUME TypeOK
  PROVE  Reset \in Packing
BY DEF TypeOK, Reset, Packing

LEMMA TypeStep ==
  ASSUME TypeInv, [Next]_vars
  PROVE  TypeOK' /\ source' \in Sources
<1> USE DEF TypeInv
<1>0. /\ Len(source) \in Nat /\ next \in Nat /\ ChunkChars \in Nat
      /\ Flushed \in Seq(Chunk) /\ Reset \in Packing /\ last_section \in Seq(Nat)
      /\ pending \in Packing
  BY FlushedType, ResetType, BoundsAssumption DEF TypeOK
<1>p. /\ pending.blocks \in Seq(Nat) /\ pending.types \in Seq(BlockTypes)
      /\ pending.boxes \in Seq(Nat) /\ pending.section \in Seq(Nat)
      /\ pending.size \in Nat /\ pending.page \in Nat
  BY <1>0 DEF Packing
<1>c. ASSUME NEW b \in Seq(Nat) PROVE pending.boxes \o b \in Seq(Nat)
  BY <1>p
<1>1. ASSUME NEW types, Next_is(types)
      PROVE  /\ next <= Len(source)
             /\ source' \in Sources /\ source' \in Seq(Block)
             /\ next' \in 1 .. Len(source') + 1
             /\ source[next] \in Block /\ source[next].size \in Nat
             /\ BoxOf(next) \in Seq(Nat) /\ next \in Nat
             /\ \A n \in Nat, s \in Seq(Nat) :
                  Single(next, n, s) \in Chunk /\ Single(next, n, s) \in Packing
  <2>1. next <= Len(source) /\ next' = next + 1 /\ source' = source
    BY <1>1 DEF Next_is
  <2>2. source[next] \in Block /\ source[next].size \in Nat
    BY <2>1, NextBlock DEF Block
  <2> QED
    BY <1>0, <2>1, <2>2, NextBlock, SingleType DEF TypeOK, Chunk
<1>2. CASE EmitAtomic
  <2>1. chunks' \in Seq(Chunk)
    BY <1>0, <1>1, <1>2 DEF EmitAtomic
  <2> QED
    BY <1>0, <1>1, <1>2, <2>1 DEF EmitAtomic, TypeOK
<1>3. CASE MergeHeading
  <2>1. last_section' \in Seq(Nat)
    BY <1>0, <1>1, <1>3 DEF MergeHeading
  <2>2. /\ Append(pending.blocks, next) \in Seq(Nat)
        /\ pending.boxes \o BoxOf(next) \in Seq(Nat)
        /\ pending.size + 3 + source[next].size \in Nat
    <3>1. next \in Nat /\ BoxOf(next) \in Seq(Nat) /\ source[next].size \in Nat
      BY <1>1, <1>3 DEF MergeHeading
    <3> QED
      BY <1>p, <1>c, <3>1
  <2>3. pending' \in Packing
    BY <1>0, <1>3, <2>1, <2>2 DEF MergeHeading, Grown, Packing
  <2> QED
    BY <1>1, <1>3, <2>1, <2>3 DEF MergeHeading, TypeOK
<1>4. CASE StartHeading
  <2>1. last_section' = <<next>> /\ <<next>> \in Seq(Nat)
    BY <1>1, <1>4 DEF StartHeading
  <2> QED
    BY <1>0, <1>1, <1>4, <2>1 DEF StartHeading, TypeOK
<1>5. CASE SplitLong
  <2>1. chunks' \in Seq(Chunk)
    BY <1>0, <1>1, <1>5 DEF SplitLong
  <2> QED
    BY <1>0, <1>1, <1>5, <2>1 DEF SplitLong, TypeOK
<1>6. CASE Pack
  <2>1. /\ Append(pending.blocks, next) \in Seq(Nat)
        /\ Append(pending.types, source[next].type) \in Seq(BlockTypes)
        /\ pending.boxes \o BoxOf(next) \in Seq(Nat)
        /\ Joined \in Nat
        /\ (IF pending.section = <<>> THEN last_section ELSE pending.section) \in Seq(Nat)
    <3>1. /\ next \in Nat /\ BoxOf(next) \in Seq(Nat) /\ source[next].size \in Nat
          /\ source[next].type \in BlockTypes
      BY <1>1, <1>6 DEF Pack, Block
    <3>2. Joined \in Nat
      BY <1>p, <3>1 DEF Joined
    <3> QED
      BY <1>0, <1>p, <1>c, <3>1, <3>2
  <2>2. ASSUME NEW p \in Nat PROVE Packed(p) \in Packing
    BY <1>0, <2>1 DEF Packed, Grown, Packing
  <2>3. (IF pending.page = 0 THEN source[next].page ELSE pending.page) \in Nat
    BY <1>0, <1>1, <1>6 DEF Pack, Packing, Block
  <2>4. pending' \in Packing
    BY <1>6, <2>2, <2>3 DEF Pack
  <2> QED
    BY <1>1, <1>6, <2>4 DEF Pack, TypeOK
<1>7. CASE Overflow
  BY <1>0, <1>1, <1>7 DEF Overflow, TypeOK
<1>8. CASE Finish
  BY <1>0, <1>8 DEF Finish, TypeOK
<1>9. CASE UNCHANGED vars
  BY <1>9 DEF vars, TypeOK
<1> QED
  BY <1>2, <1>3, <1>4, <1>5, <1>6, <1>7, <1>8, <1>9 DEF Next

LEMMA PendingStep ==
  ASSUME TypeInv, [Next]_vars
  PROVE  PendingOK'
<1> USE DEF TypeInv
<1>0. /\ next \in Nat /\ next >= 1 /\ pending.blocks \in Seq(Nat)
      /\ Len(pending.blocks) \in Nat
  BY DEF TypeOK, Packing
<1>1. CASE EmitAtomic \/ SplitLong
  BY <1>1 DEF EmitAtomic, SplitLong, Reset, PendingOK
<1>2. CASE StartHeading \/ Overflow
  <2>1. /\ pending'.blocks = <<next>> /\ pending'.page = source[next].page
        /\ source[next].type \notin Atomic /\ next' = next + 1
        /\ source' = source /\ next <= Len(source)
        /\ source[next].type = "heading" \/ source[next].size <= ChunkChars
    BY <1>2 DEF StartHeading, Overflow, Single, Next_is, Text, Atomic
  <2>2. source[next].page # 0
    BY <2>1, NextBlock DEF Block
  <2>3. Len(<<next>>) = 1 /\ <<next>>[1] = next
    OBVIOUS
  <2>4. pending'.section = last_section'
    BY <1>2 DEF StartHeading, Overflow, Single
  <2> QED
    BY <1>0, <2>1, <2>2, <2>3, <2>4 DEF PendingOK
<1>3. CASE MergeHeading \/ Pack
  <2>1. /\ pending'.blocks = Append(pending.blocks, next)
        /\ source[next].type \notin Atomic /\ next' = next + 1
        /\ source' = source /\ next <= Len(source)
        /\ source[next].type = "heading" \/ source[next].size <= ChunkChars
    <3>1. CASE MergeHeading
      BY <3>1 DEF MergeHeading, Grown, Next_is, Atomic
    <3>2. CASE Pack
      BY <3>2 DEF Pack, Packed, Grown, Next_is, Text
    <3> QED
      BY <1>3, <3>1, <3>2
  <2>2. source[next].page # 0
    BY <2>1, NextBlock DEF Block
  <2>3. pending'.page # 0
    <3>1. CASE MergeHeading
      <4>1. pending'.page = pending.page /\ pending.types # <<>>
        BY <3>1 DEF MergeHeading, Grown
      <4> QED
        BY <4>1 DEF PendingOK
    <3>2. CASE Pack
      BY <2>2, <3>2 DEF Pack, Packed, Grown, PendingOK
    <3> QED
      BY <1>3, <3>1, <3>2
  <2>4. /\ Append(pending.blocks, next) # <<>>
        /\ Len(Append(pending.blocks, next)) = Len(pending.blocks) + 1
        /\ \A j \in 1 .. Len(pending.blocks) + 1 :
             Append(pending.blocks, next)[j] =
                IF j = Len(pending.blocks) + 1 THEN next ELSE pending.blocks[j]
    BY <1>0
  <2>5. ASSUME NEW j \in 1 .. Len(pending'.blocks)
        PROVE  /\ pending'.blocks[j] \in 1 .. next' - 1
               /\ source'[pending'.blocks[j]].type \notin Atomic
               /\ \/ source'[pending'.blocks[j]].type = "heading"
                  \/ source'[pending'.blocks[j]].size <= ChunkChars
    <3>1. CASE j = Len(pending.blocks) + 1
      BY <1>0, <2>1, <2>4, <3>1
    <3>2. CASE j \in 1 .. Len(pending.blocks)
      BY <1>0, <2>1, <2>4, <3>2 DEF PendingOK
    <3> QED
      BY <1>0, <2>1, <2>4, <2>5, <3>1, <3>2
  <2>6. pending'.section = last_section'
    BY <1>3 DEF MergeHeading, Pack, Packed, Grown, PendingOK
  <2> QED
    BY <2>1, <2>3, <2>4, <2>5, <2>6 DEF PendingOK
<1>4. CASE Finish
  BY <1>4 DEF Finish, Reset, PendingOK
<1>5. CASE UNCHANGED vars
  BY <1>5 DEF vars, PendingOK
<1> QED
  BY <1>1, <1>2, <1>3, <1>4, <1>5 DEF Next

LEMMA TypeInit == Init => TypeInv
<1> SUFFICES ASSUME Init PROVE TypeInv
  OBVIOUS
<1>1. source \in Seq(Block) /\ Len(source) \in Nat
  BY SourcesAssumption DEF Init
<1>2. pending \in Packing /\ <<>> \in Seq(Nat) /\ <<>> \in Seq(Chunk)
  BY DEF Init, Packing
<1>3. 1 \in 1 .. Len(source) + 1
  BY <1>1
<1> QED
  BY <1>1, <1>2, <1>3 DEF Init, TypeInv, TypeOK, PendingOK

(* Every variable keeps its type, and no chunk is emitted without the page *)
(* it is to be cited at.                                                   *)
THEOREM TypeInvHolds == Spec => []TypeInv
<1>1. TypeInv /\ [Next]_vars => TypeInv'
  BY TypeStep, PendingStep DEF TypeInv
<1> QED
  BY <1>1, TypeInit, PTL DEF Spec

THEOREM ChunkerTypeCorrect == Spec => []TypeOK
<1>1. TypeInv => TypeOK
  BY DEF TypeInv
<1> QED
  BY <1>1, TypeInvHolds, PTL

-----------------------------------------------------------------------------
(* The shape of a step                                                     *)

(* c is a part that starts with the next block.                            *)
Opened(c) ==
    /\ c.blocks = <<next>>
    /\ c.page = source[next].page
    /\ c.boxes = BoxOf(next)
    /\ c.section = last_section'
    /\ c.size <= ChunkChars \/ source[next].type \in Atomic \/ c.types = <<"heading">>

(* c is the part old with the next block appended.                         *)
Extended(c, old) ==
    /\ c.blocks = Append(old.blocks, next)
    /\ c.page = old.page
    /\ c.boxes = old.boxes \o BoxOf(next)
    /\ c.section = last_section'
    /\ c.size <= ChunkChars \/ c.types = <<"heading">>
    /\ source[next].type \notin Atomic
    /\ \A j \in 1 .. Len(old.blocks) :
         /\ source[old.blocks[j]].type \notin Atomic
         /\ \/ source[old.blocks[j]].type = "heading"
            \/ source[old.blocks[j]].size <= ChunkChars

Advances == /\ next <= Len(source)
            /\ next' = next + 1
            /\ source' = source

Opens ==
    /\ Advances
    /\ \E n \in Nat \ {0} :
         /\ Len(Parts') = Len(Parts) + n
         /\ \A k \in 1 .. Len(Parts) : Parts'[k] = Parts[k]
         /\ \A k \in Len(Parts) + 1 .. Len(Parts) + n : Opened(Parts'[k])
         /\ n > 1 => source[next].type \in Text /\ source[next].size > ChunkChars

Grows ==
    /\ Advances
    /\ Len(Parts) > 0
    /\ Len(Parts') = Len(Parts)
    /\ \A k \in 1 .. Len(Parts) - 1 : Parts'[k] = Parts[k]
    /\ Extended(Parts'[Len(Parts)], Parts[Len(Parts)])

Stays == UNCHANGED <<Parts, source, next>>

LEMMA OpensOne ==
  ASSUME TypeInv, Advances, NEW c, Opened(c), Parts' = Append(Parts, c)
  PROVE  Opens
<1>1. Parts \in Seq(Chunk) /\ Len(Parts) \in Nat
  BY FlushedType DEF TypeInv, Parts
<1>2. /\ Len(Parts') = Len(Parts) + 1
      /\ \A k \in 1 .. Len(Parts) : Parts'[k] = Parts[k]
      /\ Parts'[Len(Parts) + 1] = c
  BY <1>1
<1> QED
  BY <1>1, <1>2 DEF Opens

LEMMA GrowsLast ==
  ASSUME TypeInv, Advances, pending.blocks # <<>>, NEW c, Extended(c, pending),
         Parts' = Append(chunks, c)
  PROVE  Grows
<1>1. Parts = Append(chunks, pending) /\ Len(chunks) \in Nat
  BY DEF Parts, Flushed, TypeInv, TypeOK
<1>2. /\ Len(Parts) = Len(chunks) + 1 /\ Len(Parts') = Len(chunks) + 1
      /\ \A k \in 1 .. Len(chunks) : Parts'[k] = Parts[k]
      /\ Parts[Len(chunks) + 1] = pending /\ Parts'[Len(chunks) + 1] = c
  BY <1>1 DEF TypeInv, TypeOK
<1> QED
  BY <1>1, <1>2 DEF Grows

LEMMA AppendNonempty ==
  ASSUME NEW s \in Seq(Nat), NEW x \in Nat
  PROVE  Append(s, x) # <<>>
<1>1. Len(Append(s, x)) = Len(s) + 1 /\ Len(s) \in Nat
  OBVIOUS
<1> QED
  BY <1>1

LEMMA AppendCopies ==
  ASSUME NEW S, NEW p \in Seq(S), NEW q \in Seq(S)
  PROVE  /\ Len(p \o q) = Len(p) + Len(q)
         /\ \A k \in 1 .. Len(p) : (p \o q)[k] = p[k]
         /\ \A k \in Len(p) + 1 .. Len(p) + Len(q) : (p \o q)[k] = q[k - Len(p)]
OBVIOUS

LEMMA StepShape ==
  ASSUME TypeInv, [Next]_vars
  PROVE  Opens \/ Grows \/ Stays
<1>0. /\ Parts \in Seq(Chunk) /\ Len(Parts) \in Nat /\ Parts = Flushed
      /\ Parts' = IF pending'.blocks = <<>> THEN chunks' ELSE Append(chunks', pending')
      /\ ChunkChars \in Nat
  BY FlushedType, BoundsAssumption DEF TypeInv, Parts, Flushed
<1>1. ASSUME NEW types, Next_is(types) PROVE Advances
  BY <1>1 DEF Next_is, Advances
<1>2. CASE EmitAtomic
  <2>1. Parts' = Append(Parts, Single(next, source[next].size, last_section))
    BY <1>0, <1>2 DEF EmitAtomic, Reset
  <2>2. Opened(Single(next, source[next].size, last_section))
    BY <1>2 DEF EmitAtomic, Next_is, Opened, Single
  <2> QED
    BY <1>1, <1>2, <2>1, <2>2, OpensOne DEF EmitAtomic
<1>3. CASE MergeHeading
  <2>1. Extended(pending', pending)
    BY <1>3 DEF MergeHeading, Grown, Next_is, Extended, Atomic, TypeInv, PendingOK
  <2>2. pending.blocks # <<>>
    BY <1>3 DEF MergeHeading, TypeInv, PendingOK
  <2>3. pending'.blocks # <<>>
    <3>1. pending.blocks \in Seq(Nat) /\ next \in Nat
      BY DEF TypeInv, TypeOK, Packing
    <3> QED
      BY <1>3, <3>1, AppendNonempty DEF MergeHeading, Grown
  <2>4. Parts' = Append(chunks, pending')
    BY <1>0, <1>3, <2>3 DEF MergeHeading
  <2> QED
    BY <1>1, <1>3, <2>1, <2>2, <2>4, GrowsLast DEF MergeHeading
<1>4. CASE StartHeading
  <2>1. Opened(pending') /\ pending'.blocks # <<>>
    BY <1>4 DEF StartHeading, Next_is, Opened, Single
  <2>2. Parts' = Append(Parts, pending')
    BY <1>0, <1>4, <2>1 DEF StartHeading
  <2> QED
    BY <1>1, <1>4, <2>1, <2>2, OpensOne DEF StartHeading
<1>5. CASE SplitLong
  <2>1. PICK n \in 2 .. MaxPieces :
          chunks' = Flushed \o [k \in 1 .. n |-> Single(next, ChunkChars, last_section)]
    BY <1>5 DEF SplitLong
  <2> DEFINE c == Single(next, ChunkChars, last_section)
             pieces == [k \in 1 .. n |-> c]
  <2>2. /\ n \in Nat \ {0} /\ Len(pieces) = n
        /\ pieces \in Seq(Chunk \cup {c}) /\ Parts \in Seq(Chunk \cup {c})
    BY <1>0, BoundsAssumption
  <2>3. Parts' = Parts \o pieces
    BY <1>0, <1>5, <2>1 DEF SplitLong, Reset
  <2>4. Opened(c)
    BY <1>0, <1>5 DEF SplitLong, Opened, Single
  <2>5. Advances /\ source[next].type \in Text /\ source[next].size > ChunkChars
    BY <1>1, <1>5 DEF SplitLong, Next_is
  <2> HIDE DEF c
  <2>6. /\ Len(Parts') = Len(Parts) + n
        /\ \A k \in 1 .. Len(Parts) : Parts'[k] = Parts[k]
        /\ \A k \in Len(Parts) + 1 .. Len(Parts) + n : Parts'[k] = c
    <3>1. \A k \in Len(Parts) + 1 .. Len(Parts) + n : k - Len(Parts) \in 1 .. n
      BY <1>0, <2>2
    <3>2. \A k \in 1 .. n : pieces[k] = c
      OBVIOUS
    <3> HIDE DEF pieces
    <3>3. /\ Len(Parts \o pieces) = Len(Parts) + Len(pieces)
          /\ \A k \in 1 .. Len(Parts) : (Parts \o pieces)[k] = Parts[k]
          /\ \A k \in Len(Parts) + 1 .. Len(Parts) + Len(pieces) :
               (Parts \o pieces)[k] = pieces[k - Len(Parts)]
      BY <2>2, AppendCopies
    <3> QED
      BY <2>2, <2>3, <3>1, <3>2, <3>3
  <2> QED
    BY <2>2, <2>4, <2>5, <2>6 DEF Opens
<1>6. CASE Pack
  <2>1. pending'.blocks = Append(pending.blocks, next) /\ pending'.blocks # <<>>
    <3>1. pending.blocks \in Seq(Nat) /\ next \in Nat
      BY DEF TypeInv, TypeOK, Packing
    <3> QED
      BY <1>6, <3>1, AppendNonempty DEF Pack, Packed, Grown
  <2>2. Parts' = Append(chunks, pending')
    BY <1>0, <1>6, <2>1 DEF Pack
  <2>3. CASE pending.blocks = <<>>
    <3>1. pending.page = 0
      BY <2>3 DEF TypeInv, PendingOK
    <3>2. Append(pending.blocks, next) = <<next>>
      BY <2>3
    <3>3. pending.boxes \o BoxOf(next) = BoxOf(next)
      BY <1>1, <1>6, <2>3, NextBlock DEF Pack, Advances, TypeInv, PendingOK
    <3>4. pending'.section = last_section'
      BY <1>6 DEF Pack, Packed, Grown, TypeInv, PendingOK
    <3>5. Opened(pending')
      BY <1>6, <2>3, <3>1, <3>2, <3>3, <3>4 DEF Pack, Packed, Grown, Opened
    <3> QED
      BY <1>0, <1>1, <1>6, <2>2, <2>3, <3>5, OpensOne DEF Pack, Flushed
  <2>4. CASE pending.blocks # <<>>
    <3>1. pending.page # 0
      BY <2>4 DEF TypeInv, PendingOK
    <3>2. source[next].type \notin Atomic
      BY <1>6 DEF Pack, Next_is, Text
    <3>3. Extended(pending', pending)
      BY <1>6, <3>1, <3>2 DEF Pack, Packed, Grown, Extended, TypeInv, PendingOK
    <3> QED
      BY <1>1, <1>6, <2>2, <2>4, <3>3, GrowsLast DEF Pack
  <2> QED
    BY <2>3, <2>4
<1>7. CASE Overflow
  <2>1. Opened(pending') /\ pending'.blocks # <<>>
    BY <1>7 DEF Overflow, Next_is, Opened, Single
  <2>2. Parts' = Append(Parts, pending')
    BY <1>0, <1>7, <2>1 DEF Overflow
  <2> QED
    BY <1>1, <1>7, <2>1, <2>2, OpensOne DEF Overflow
<1>8. CASE Finish
  BY <1>0, <1>8 DEF Finish, Reset, Stays
<1>9. CASE UNCHANGED vars
  BY <1>0, <1>9 DEF vars, Stays, Flushed
<1> QED
  BY <1>2, <1>3, <1>4, <1>5, <1>6, <1>7, <1>8, <1>9 DEF Next

-----------------------------------------------------------------------------
(* Order and pages                                                         *)

(* The first block of every part has been taken.                           *)
StartsBelow == \A k \in 1 .. Len(Parts) : First(Parts[k]) \in 1 .. next - 1

OrderInv == BlocksInOrder /\ StartsBelow

LEMMA PartsType ==
  ASSUME TypeInv
  PROVE  /\ Parts \in Seq(Chunk) /\ Len(Parts) \in Nat
         /\ next \in Nat \ {0} /\ source \in Seq(Block) /\ Len(source) \in Nat
         /\ \A k \in 1 .. Len(Parts) : Parts[k].blocks \in Seq(Nat)
<1>1. Parts \in Seq(Chunk)
  BY FlushedType DEF TypeInv, Parts
<1>2. \A c \in Chunk : c.blocks \in Seq(Nat)
  BY DEF Chunk, Packing
<1> QED
  BY <1>1, <1>2 DEF TypeInv, TypeOK

LEMMA Singleton ==
  ASSUME NEW c, Opened(c)
  PROVE  First(c) = next /\ Final(c) = next /\ Len(c.blocks) = 1 /\ c.blocks # <<>>
BY DEF Opened, First, Final

LEMMA OrderOpens ==
  ASSUME TypeInv, OrderInv, Opens
  PROVE  OrderInv'
<1>0. /\ Len(Parts) \in Nat /\ next \in Nat \ {0}
      /\ next' = next + 1 /\ source' = source
      /\ (Parts = <<>> <=> Len(Parts) = 0)
  BY PartsType DEF Opens, Advances
<1>1. PICK n \in Nat \ {0} :
        /\ Len(Parts') = Len(Parts) + n
        /\ \A k \in 1 .. Len(Parts) : Parts'[k] = Parts[k]
        /\ \A k \in Len(Parts) + 1 .. Len(Parts) + n : Opened(Parts'[k])
        /\ n > 1 => source[next].type \in Text /\ source[next].size > ChunkChars
  BY DEF Opens
<1>2. ASSUME NEW k \in Len(Parts) + 1 .. Len(Parts) + n
      PROVE  /\ First(Parts'[k]) = next /\ Final(Parts'[k]) = next
             /\ Len(Parts'[k].blocks) = 1 /\ Parts'[k].blocks # <<>>
             /\ Parts'[k].blocks = <<next>>
  BY <1>1, Singleton DEF Opened
<1>3. ASSUME NEW k \in 1 .. Len(Parts')
      PROVE  /\ Parts'[k].blocks # <<>>
             /\ \A j \in 1 .. Len(Parts'[k].blocks) :
                  Parts'[k].blocks[j] = First(Parts'[k]) + j - 1
             /\ First(Parts'[k]) \in 1 .. next
  <2>1. CASE k \in 1 .. Len(Parts)
    BY <1>0, <1>1, <2>1 DEF OrderInv, BlocksInOrder, StartsBelow
  <2>2. CASE k \in Len(Parts) + 1 .. Len(Parts) + n
    <3>0. Len(Parts'[k].blocks) = 1
      BY <1>2, <2>2
    <3>1. \A j \in 1 .. Len(Parts'[k].blocks) : j = 1
      BY <3>0
    <3> QED
      BY <1>0, <1>2, <2>2, <3>1 DEF First
  <2> QED
    BY <1>0, <1>1, <2>1, <2>2
<1>4. ASSUME NEW k \in 1 .. Len(Parts') - 1
      PROVE  \/ First(Parts'[k + 1]) = Final(Parts'[k]) + 1
             \/ /\ First(Parts'[k + 1]) = Final(Parts'[k])
                /\ Parts'[k].blocks = Parts'[k + 1].blocks
                /\ source[Final(Parts'[k])].type \in Text
                /\ source[Final(Parts'[k])].size > ChunkChars
  <2>1. CASE k \in 1 .. Len(Parts) - 1
    <3>1. Parts'[k] = Parts[k] /\ Parts'[k + 1] = Parts[k + 1]
      BY <1>0, <1>1, <2>1
    <3> QED
      BY <2>1, <3>1 DEF OrderInv, BlocksInOrder
  <2>2. CASE k = Len(Parts)
    <3>1. Parts'[k] = Parts[k] /\ Final(Parts[k]) = next - 1
      BY <1>0, <1>1, <1>4, <2>2 DEF OrderInv, BlocksInOrder
    <3>2. First(Parts'[k + 1]) = next
      BY <1>0, <1>1, <1>2, <2>2
    <3> QED
      BY <1>0, <3>1, <3>2
  <2>3. CASE k \in Len(Parts) + 1 .. Len(Parts) + n - 1
    BY <1>0, <1>1, <1>2, <2>3
  <2> QED
    BY <1>0, <1>1, <2>1, <2>2, <2>3
<1>5. /\ Parts' # <<>>
      /\ First(Parts'[1]) = 1
      /\ Final(Parts'[Len(Parts')]) = next
  <2>1. Parts' # <<>>
    BY <1>0, <1>1
  <2>2. Final(Parts'[Len(Parts')]) = next
    BY <1>0, <1>1, <1>2
  <2>3. CASE Parts = <<>>
    BY <1>0, <1>1, <1>2, <2>1, <2>2, <2>3 DEF OrderInv, BlocksInOrder
  <2>4. CASE Parts # <<>>
    BY <1>0, <1>1, <2>1, <2>2, <2>4 DEF OrderInv, BlocksInOrder
  <2> QED
    BY <2>1, <2>2, <2>3, <2>4
<1> QED
  BY <1>0, <1>3, <1>4, <1>5 DEF OrderInv, BlocksInOrder, StartsBelow

LEMMA OrderGrows ==
  ASSUME TypeInv, OrderInv, Grows
  PROVE  OrderInv'
<1> DEFINE L == Len(Parts)
           old == Parts[L]
           new == Parts'[L]
<1>0. /\ L \in Nat /\ L > 0 /\ next \in Nat \ {0} /\ old.blocks \in Seq(Nat)
      /\ next' = next + 1 /\ source' = source
      /\ Parts # <<>> /\ Parts' # <<>>
  BY PartsType DEF Grows, Advances
<1>1. /\ Len(Parts') = L
      /\ \A k \in 1 .. L - 1 : Parts'[k] = Parts[k]
      /\ new.blocks = Append(old.blocks, next)
  BY DEF Grows, Extended
<1>2. /\ old.blocks # <<>> /\ Final(old) = next - 1
      /\ \A j \in 1 .. Len(old.blocks) : old.blocks[j] = First(old) + j - 1
      /\ First(old) \in 1 .. next - 1
  <2>1. L \in 1 .. Len(Parts)
    BY <1>0
  <2>2. Final(old) = next - 1
    BY <1>0 DEF OrderInv, BlocksInOrder
  <2> QED
    BY <2>1, <2>2 DEF OrderInv, BlocksInOrder, StartsBelow
<1>3. /\ Len(old.blocks) \in Nat /\ Len(old.blocks) > 0
      /\ Len(new.blocks) = Len(old.blocks) + 1
      /\ \A j \in 1 .. Len(old.blocks) : new.blocks[j] = old.blocks[j]
      /\ new.blocks[Len(old.blocks) + 1] = next
      /\ new.blocks # <<>>
  BY <1>0, <1>1, <1>2
<1>4. First(new) = First(old) /\ Final(new) = next
  BY <1>3 DEF First, Final
<1>5. next = First(old) + Len(old.blocks)
  <2>1. Len(old.blocks) \in 1 .. Len(old.blocks)
    BY <1>3
  <2>2. Final(old) = First(old) + Len(old.blocks) - 1
    BY <1>2, <2>1 DEF Final
  <2>3. First(old) \in Nat
    BY <1>0, <1>2
  <2>4. next - 1 = First(old) + Len(old.blocks) - 1
    BY <1>2, <2>2
  <2>5. ASSUME NEW n \in Nat, NEW f \in Nat, NEW l \in Nat, n - 1 = f + l - 1
        PROVE  n = f + l
    BY <2>5
  <2> QED
    BY <1>0, <1>3, <2>3, <2>4, <2>5
<1>6. ASSUME NEW j \in 1 .. Len(new.blocks)
      PROVE  new.blocks[j] = First(new) + j - 1
  <2>1. CASE j \in 1 .. Len(old.blocks)
    BY <1>2, <1>3, <1>4, <2>1
  <2>2. CASE j = Len(old.blocks) + 1
    BY <1>0, <1>2, <1>3, <1>4, <1>5, <2>2
  <2> QED
    BY <1>3, <2>1, <2>2
<1>7. ASSUME NEW k \in 1 .. L
      PROVE  /\ Parts'[k].blocks # <<>>
             /\ \A j \in 1 .. Len(Parts'[k].blocks) :
                  Parts'[k].blocks[j] = First(Parts'[k]) + j - 1
             /\ First(Parts'[k]) \in 1 .. next
             /\ First(Parts'[k]) = First(Parts[k])
  <2>1. CASE k = L
    BY <1>0, <1>2, <1>3, <1>4, <1>6, <2>1
  <2>2. CASE k \in 1 .. L - 1
    <3>1. Parts'[k] = Parts[k] /\ k \in 1 .. Len(Parts)
      BY <1>0, <1>1, <2>2
    <3>2. /\ Parts[k].blocks # <<>>
          /\ \A j \in 1 .. Len(Parts[k].blocks) :
               Parts[k].blocks[j] = First(Parts[k]) + j - 1
          /\ First(Parts[k]) \in 1 .. next - 1
      BY <3>1 DEF OrderInv, BlocksInOrder, StartsBelow
    <3>3. First(Parts[k]) \in 1 .. next
      BY <1>0, <3>2
    <3> QED
      BY <3>1, <3>2, <3>3
  <2> QED
    BY <1>0, <2>1, <2>2
<1>8. ASSUME NEW k \in 1 .. L - 1
      PROVE  \/ First(Parts'[k + 1]) = Final(Parts'[k]) + 1
             \/ /\ First(Parts'[k + 1]) = Final(Parts'[k])
                /\ Parts'[k].blocks = Parts'[k + 1].blocks
                /\ source[Final(Parts'[k])].type \in Text
                /\ source[Final(Parts'[k])].size > ChunkChars
  <2>1. Parts'[k] = Parts[k] /\ k + 1 \in 1 .. L
    BY <1>0, <1>1
  <2>2. CASE k + 1 \in 1 .. L - 1
    <3>1. Parts'[k + 1] = Parts[k + 1]
      BY <1>1, <2>2
    <3> QED
      BY <2>1, <3>1 DEF OrderInv, BlocksInOrder
  <2>3. CASE k + 1 = L
    <3>1. First(Parts'[k + 1]) = First(Parts[k + 1])
      BY <1>4, <2>3
    <3>2. CASE First(Parts[k + 1]) = Final(Parts[k]) + 1
      BY <2>1, <3>1, <3>2
    <3>3. CASE /\ Parts[k].blocks = Parts[k + 1].blocks
               /\ source[Final(Parts[k])].type \in Text
               /\ source[Final(Parts[k])].size > ChunkChars
      <4>1. Final(Parts[k]) = old.blocks[Len(old.blocks)]
        BY <2>3, <3>3 DEF Final
      <4>2. \A j \in 1 .. Len(old.blocks) :
              \/ source[old.blocks[j]].type = "heading"
              \/ source[old.blocks[j]].size <= ChunkChars
        BY DEF Grows, Extended
      <4>3. Len(old.blocks) \in 1 .. Len(old.blocks)
        BY <1>3
      <4>4. source[Final(Parts[k])].size \in Nat /\ ChunkChars \in Nat
        <5>1. Final(Parts[k]) \in 1 .. Len(source)
          <6>1. Final(Parts[k]) = next - 1 /\ First(old) \in 1 .. next - 1
            BY <1>2, <4>1 DEF Final
          <6>2. next - 1 \in 1 .. next - 1 /\ next <= Len(source)
            BY <1>0, <6>1 DEF Grows, Advances
          <6> QED
            BY <1>0, <6>1, <6>2, PartsType
        <5>2. source \in Seq(Block)
          BY PartsType
        <5>3. source[Final(Parts[k])] \in Block
          BY <5>1, <5>2
        <5> QED
          BY <5>3, BoundsAssumption DEF Block
      <4> QED
        BY <3>3, <4>1, <4>2, <4>3, <4>4 DEF Text
    <3> QED
      BY <3>2, <3>3 DEF OrderInv, BlocksInOrder
  <2> QED
    BY <1>0, <2>2, <2>3
<1>9. First(Parts'[1]) = 1 /\ Final(Parts'[Len(Parts')]) = next
  BY <1>0, <1>1, <1>4, <1>7 DEF OrderInv, BlocksInOrder
<1> QED
  BY <1>0, <1>1, <1>7, <1>8, <1>9 DEF OrderInv, BlocksInOrder, StartsBelow

LEMMA OrderInit == Init => OrderInv
<1>1. Init => Parts = <<>> /\ next = 1 /\ Len(Parts) = 0
  BY DEF Init, Parts, Flushed
<1> QED
  BY <1>1 DEF OrderInv, BlocksInOrder, StartsBelow

LEMMA OrderStep ==
  ASSUME TypeInv, OrderInv, [Next]_vars
  PROVE  OrderInv'
<1>1. CASE Stays
  BY <1>1 DEF Stays, OrderInv, BlocksInOrder, StartsBelow
<1> QED
  BY <1>1, StepShape, OrderOpens, OrderGrows

(* The chunks are consecutive runs of blocks that cover the document in    *)
(* order, whatever its length and whatever its blocks are.                 *)
THEOREM InOrder == Spec => []BlocksInOrder
<1>1. TypeInv /\ OrderInv /\ [Next]_vars => OrderInv'
  BY OrderStep
<1>2. OrderInv => BlocksInOrder
  BY DEF OrderInv
<1> QED
  BY <1>1, <1>2, OrderInit, TypeInvHolds, PTL DEF Spec

LEMMA PagesStep ==
  ASSUME TypeInv, OrderInv, PagesFollowOrder, [Next]_vars
  PROVE  PagesFollowOrder'
<1>0. /\ Len(Parts) \in Nat /\ next \in Nat \ {0}
      /\ \A i \in 1 .. Len(source) : source[i].page \in Nat
      /\ \A i, j \in 1 .. Len(source) : i <= j => source[i].page <= source[j].page
  <2>1. /\ Len(Parts) \in Nat /\ next \in Nat \ {0} /\ source \in Seq(Block)
        /\ source \in Sources
    BY PartsType DEF TypeInv
  <2>2. \A i \in 1 .. Len(source) : source[i] \in Block
    BY <2>1
  <2>3. \A i, j \in 1 .. Len(source) : i <= j => source[i].page <= source[j].page
    BY <2>1, SourcesAssumption
  <2> QED
    BY <2>1, <2>2, <2>3 DEF Block
<1>1. CASE Stays
  BY <1>1 DEF Stays, PagesFollowOrder
<1>2. CASE Opens
  <2>1. PICK n \in Nat \ {0} :
          /\ Len(Parts') = Len(Parts) + n
          /\ \A k \in 1 .. Len(Parts) : Parts'[k] = Parts[k]
          /\ \A k \in Len(Parts) + 1 .. Len(Parts) + n : Opened(Parts'[k])
    BY <1>2 DEF Opens
  <2>2. next \in 1 .. Len(source) /\ source' = source
    BY <1>0, <1>2, PartsType DEF Opens, Advances
  <2>3. ASSUME NEW k \in 1 .. Len(Parts')
        PROVE  /\ Parts'[k].page = source[First(Parts'[k])].page
               /\ First(Parts'[k]) \in 1 .. next
               /\ k > Len(Parts) => First(Parts'[k]) = next
    <3>1. CASE k \in 1 .. Len(Parts)
      <4>1. Parts'[k] = Parts[k] /\ First(Parts[k]) \in 1 .. next - 1
        BY <2>1, <3>1 DEF OrderInv, StartsBelow
      <4> QED
        BY <1>0, <3>1, <4>1 DEF PagesFollowOrder
    <3>2. CASE k \in Len(Parts) + 1 .. Len(Parts) + n
      <4>1. First(Parts'[k]) = next /\ Parts'[k].page = source[next].page
        BY <2>1, <3>2, Singleton DEF Opened
      <4> QED
        BY <1>0, <4>1
    <3> QED
      BY <1>0, <2>1, <3>1, <3>2
  <2>4. ASSUME NEW k \in 1 .. Len(Parts'), NEW l \in 1 .. Len(Parts'), k <= l
        PROVE  Parts'[k].page <= Parts'[l].page
    <3>1. CASE l \in 1 .. Len(Parts)
      <4>1. k \in 1 .. Len(Parts)
        BY <1>0, <2>1, <2>4, <3>1
      <4> QED
        BY <2>1, <2>4, <3>1, <4>1 DEF PagesFollowOrder
    <3>2. CASE l > Len(Parts)
      <4>1. /\ Parts'[l].page = source[next].page
            /\ Parts'[k].page = source[First(Parts'[k])].page
            /\ First(Parts'[k]) \in 1 .. next
        BY <2>3, <3>2
      <4>2. First(Parts'[k]) \in 1 .. Len(source) /\ First(Parts'[k]) <= next
        BY <2>2, <4>1, PartsType
      <4> QED
        BY <1>0, <2>2, <4>1, <4>2
    <3> QED
      BY <1>0, <2>1, <3>1, <3>2
  <2> QED
    BY <2>2, <2>3, <2>4 DEF PagesFollowOrder
<1>3. CASE Grows
  <2>1. /\ Len(Parts') = Len(Parts) /\ source' = source /\ Len(Parts) > 0
        /\ \A k \in 1 .. Len(Parts) - 1 : Parts'[k] = Parts[k]
        /\ Parts'[Len(Parts)].page = Parts[Len(Parts)].page
        /\ Parts'[Len(Parts)].blocks = Append(Parts[Len(Parts)].blocks, next)
    BY <1>3 DEF Grows, Advances, Extended
  <2>2. First(Parts'[Len(Parts)]) = First(Parts[Len(Parts)])
    <3>1. Len(Parts) \in 1 .. Len(Parts)
      BY <1>0, <2>1
    <3>2. /\ Parts[Len(Parts)].blocks \in Seq(Nat)
          /\ Parts[Len(Parts)].blocks # <<>>
      BY <3>1, PartsType DEF OrderInv, BlocksInOrder
    <3> QED
      BY <1>0, <2>1, <3>2 DEF First
  <2>3. ASSUME NEW k \in 1 .. Len(Parts)
        PROVE  /\ Parts'[k].page = Parts[k].page
               /\ First(Parts'[k]) = First(Parts[k])
    <3>1. CASE k = Len(Parts)
      BY <2>1, <2>2, <3>1
    <3>2. CASE k \in 1 .. Len(Parts) - 1
      BY <2>1, <3>2
    <3> QED
      BY <1>0, <3>1, <3>2
  <2> QED
    BY <2>1, <2>3 DEF PagesFollowOrder
<1> QED
  BY <1>1, <1>2, <1>3, StepShape

(* The page of a chunk is the page of its first block, and the order of    *)
(* the chunks by (page, index) is the order of the document.               *)
THEOREM PagesInOrder == Spec => []PagesFollowOrder
<1>1. Init => PagesFollowOrder
  <2>1. Init => Len(Parts) = 0
    BY DEF Init, Parts, Flushed
  <2> QED
    BY <2>1 DEF PagesFollowOrder
<1>2. TypeInv /\ OrderInv /\ PagesFollowOrder /\ [Next]_vars => PagesFollowOrder'
  BY PagesStep
<1>3. TypeInv /\ OrderInv /\ [Next]_vars => OrderInv'
  BY OrderStep
<1> QED
  BY <1>1, <1>2, <1>3, OrderInit, TypeInvHolds, PTL DEF Spec

LEMMA BoundedStep ==
  ASSUME TypeInv, OrderInv, ChunksAreBounded, [Next]_vars
  PROVE  ChunksAreBounded'
<1>0. Len(Parts) \in Nat /\ next \in Nat \ {0}
  BY PartsType
<1>1. CASE Stays
  BY <1>1 DEF Stays, ChunksAreBounded
<1>2. CASE Opens
  <2>1. PICK n \in Nat \ {0} :
          /\ Len(Parts') = Len(Parts) + n
          /\ \A k \in 1 .. Len(Parts) : Parts'[k] = Parts[k]
          /\ \A k \in Len(Parts) + 1 .. Len(Parts) + n : Opened(Parts'[k])
    BY <1>2 DEF Opens
  <2>2. source' = source
    BY <1>2 DEF Opens, Advances
  <2>3. ASSUME NEW k \in Len(Parts) + 1 .. Len(Parts) + n
        PROVE  /\ \/ Parts'[k].size <= ChunkChars
                  \/ source[First(Parts'[k])].type \in Atomic
                  \/ Parts'[k].types = <<"heading">>
               /\ Len(Parts'[k].blocks) = 1
    BY <2>1, Singleton DEF Opened
  <2> QED
    BY <1>0, <2>1, <2>2, <2>3 DEF ChunksAreBounded
<1>3. CASE Grows
  <2> DEFINE new == Parts'[Len(Parts)]
             old == Parts[Len(Parts)]
  <2>1. /\ Len(Parts') = Len(Parts) /\ source' = source /\ Len(Parts) > 0
        /\ \A k \in 1 .. Len(Parts) - 1 : Parts'[k] = Parts[k]
        /\ Extended(new, old)
    BY <1>3 DEF Grows, Advances
  <2>2. old.blocks \in Seq(Nat)
    BY <1>0, <2>1, PartsType
  <2>3. ASSUME NEW j \in 1 .. Len(new.blocks)
        PROVE  source[new.blocks[j]].type \notin Atomic
    <3>1. /\ Len(new.blocks) = Len(old.blocks) + 1
          /\ new.blocks[Len(old.blocks) + 1] = next
          /\ \A i \in 1 .. Len(old.blocks) : new.blocks[i] = old.blocks[i]
          /\ Len(old.blocks) \in Nat
      BY <1>0, <2>1, <2>2 DEF Extended
    <3>2. CASE j = Len(old.blocks) + 1
      BY <2>1, <3>1, <3>2 DEF Extended
    <3>3. CASE j \in 1 .. Len(old.blocks)
      BY <2>1, <3>1, <3>3 DEF Extended
    <3> QED
      BY <3>1, <3>2, <3>3
  <2>4. new.size <= ChunkChars \/ new.types = <<"heading">>
    BY <2>1 DEF Extended
  <2>5. ASSUME NEW k \in 1 .. Len(Parts)
        PROVE  /\ \/ Parts'[k].size <= ChunkChars
                  \/ source[First(Parts'[k])].type \in Atomic
                  \/ Parts'[k].types = <<"heading">>
               /\ \A j \in 1 .. Len(Parts'[k].blocks) :
                    source[Parts'[k].blocks[j]].type \in Atomic
                      => Len(Parts'[k].blocks) = 1
    <3>1. CASE k = Len(Parts)
      BY <2>3, <2>4, <3>1
    <3>2. CASE k \in 1 .. Len(Parts) - 1
      <4>1. Parts'[k] = Parts[k]
        BY <2>1, <3>2
      <4> QED
        BY <4>1 DEF ChunksAreBounded
    <3> QED
      BY <1>0, <3>1, <3>2
  <2> QED
    BY <2>1, <2>5 DEF ChunksAreBounded
<1> QED
  BY <1>1, <1>2, <1>3, StepShape

(* Only a table, figure or formula, alone in its chunk, and a run of       *)
(* headings exceed the size of a chunk.                                    *)
THEOREM Bounded == Spec => []ChunksAreBounded
<1>1. Init => ChunksAreBounded
  <2>1. Init => Len(Parts) = 0
    BY DEF Init, Parts, Flushed
  <2> QED
    BY <2>1 DEF ChunksAreBounded
<1>2. TypeInv /\ OrderInv /\ ChunksAreBounded /\ [Next]_vars => ChunksAreBounded'
  BY BoundedStep
<1>3. TypeInv /\ OrderInv /\ [Next]_vars => OrderInv'
  BY OrderStep
<1> QED
  BY <1>1, <1>2, <1>3, OrderInit, TypeInvHolds, PTL DEF Spec

-----------------------------------------------------------------------------
(* Boxes                                                                   *)

LEMMA Appended ==
  ASSUME NEW s \in Seq(Nat), NEW x \in Nat
  PROVE  ToSet(Append(s, x)) = ToSet(s) \cup {x}
<1>1. /\ Len(s) \in Nat
      /\ Append(s, x)[Len(s) + 1] = x
      /\ \A j \in 1 .. Len(s) : Append(s, x)[j] = s[j]
      /\ DOMAIN s = 1 .. Len(s) /\ DOMAIN Append(s, x) = 1 .. Len(s) + 1
  OBVIOUS
<1>2. \A j \in 1 .. Len(s) + 1 : j \in 1 .. Len(s) \/ j = Len(s) + 1
  BY <1>1
<1>3. /\ \A j \in 1 .. Len(s) : j \in 1 .. Len(s) + 1
      /\ Len(s) + 1 \in 1 .. Len(s) + 1
  BY <1>1
<1>4. ASSUME NEW y \in ToSet(Append(s, x)) PROVE y \in ToSet(s) \cup {x}
  BY <1>1, <1>2 DEF ToSet
<1>5. ASSUME NEW y \in ToSet(s) PROVE y \in ToSet(Append(s, x))
  BY <1>1, <1>3 DEF ToSet
<1>6. x \in ToSet(Append(s, x))
  BY <1>1, <1>3 DEF ToSet
<1> QED
  BY <1>4, <1>5, <1>6

LEMMA AppendRises ==
  ASSUME NEW s \in Seq(Nat), NEW x \in Nat, Rising(s),
         \A y \in ToSet(s) : y < x
  PROVE  /\ Rising(Append(s, x))
         /\ ToSet(Append(s, x)) = ToSet(s) \cup {x}
<1>1. /\ Len(Append(s, x)) = Len(s) + 1 /\ Len(s) \in Nat
      /\ Append(s, x)[Len(s) + 1] = x
      /\ \A j \in 1 .. Len(s) : Append(s, x)[j] = s[j]
      /\ DOMAIN s = 1 .. Len(s) /\ DOMAIN Append(s, x) = 1 .. Len(s) + 1
  OBVIOUS
<1>2. \A j \in 1 .. Len(s) : s[j] \in ToSet(s)
  BY <1>1 DEF ToSet
<1>3. Rising(Append(s, x))
  <2> SUFFICES ASSUME NEW i \in 1 .. Len(s) + 1, NEW j \in 1 .. Len(s) + 1, i < j
               PROVE  Append(s, x)[i] < Append(s, x)[j]
    BY <1>1 DEF Rising, IsSorted
  <2>1. i \in 1 .. Len(s)
    BY <1>1
  <2>2. CASE j = Len(s) + 1
    BY <1>1, <1>2, <2>1, <2>2
  <2>3. CASE j \in 1 .. Len(s)
    BY <1>1, <2>1, <2>3 DEF Rising, IsSorted
  <2> QED
    BY <1>1, <2>2, <2>3
<1> QED
  BY <1>3, Appended

LEMMA JustOne ==
  ASSUME NEW x
  PROVE  Rising(<<x>>) /\ ToSet(<<x>>) = {x}
BY DEF Rising, IsSorted, ToSet

LEMMA None == Rising(<<>>) /\ ToSet(<<>>) = {}
BY DEF Rising, IsSorted, ToSet

Cited(c) ==
    /\ ToSet(c.boxes) = {i \in ToSet(c.blocks) : source[i].boxed}
    /\ Rising(c.boxes)

LEMMA LastBelow ==
  ASSUME TypeInv, OrderInv, Len(Parts) > 0
  PROVE  \A i \in ToSet(Parts[Len(Parts)].blocks) : i \in 1 .. next - 1
<1> DEFINE last == Parts[Len(Parts)]
           n == Len(last.blocks)
<1>1. Len(Parts) \in 1 .. Len(Parts)
  BY PartsType
<1>2. last.blocks \in Seq(Nat) /\ last.blocks # <<>> /\ n \in Nat /\ n > 0
  BY <1>1, PartsType DEF OrderInv, BlocksInOrder
<1>3. \A j \in 1 .. n : last.blocks[j] = First(last) + j - 1
  BY <1>1 DEF OrderInv, BlocksInOrder
<1>4. First(last) \in Nat /\ First(last) >= 1 /\ next \in Nat
  BY <1>1, PartsType DEF OrderInv, StartsBelow
<1>5. First(last) + n - 1 = next - 1
  <2>1. Final(last) = next - 1
    BY <1>1 DEF OrderInv, BlocksInOrder
  <2>2. n \in 1 .. n
    BY <1>2
  <2> QED
    BY <1>3, <2>1, <2>2 DEF Final
<1>6. DOMAIN last.blocks = 1 .. n
  BY <1>2
<1> HIDE DEF last, n
<1>7. ASSUME NEW j \in 1 .. n PROVE last.blocks[j] \in 1 .. next - 1
  <2>1. last.blocks[j] = First(last) + j - 1
    BY <1>3
  <2> QED
    BY <1>2, <1>4, <1>5, <2>1
<1>8. \A i \in ToSet(last.blocks) : i \in 1 .. next - 1
  BY <1>6, <1>7 DEF ToSet
<1> QED
  BY <1>8 DEF last

LEMMA CitedStep ==
  ASSUME TypeInv, OrderInv, EveryBoxIsCited, [Next]_vars
  PROVE  EveryBoxIsCited'
<1>0. /\ Len(Parts) \in Nat /\ next \in Nat \ {0} /\ Parts \in Seq(Chunk)
      /\ \A k \in 1 .. Len(Parts) : Cited(Parts[k])
  BY PartsType DEF EveryBoxIsCited, Cited
<1>s. SUFFICES source' = source /\ \A k \in 1 .. Len(Parts') : Cited(Parts'[k])
  BY DEF EveryBoxIsCited, Cited
<1>1. CASE Stays
  BY <1>0, <1>1 DEF Stays
<1>2. CASE Opens
  <2>1. PICK n \in Nat \ {0} :
          /\ Len(Parts') = Len(Parts) + n
          /\ \A k \in 1 .. Len(Parts) : Parts'[k] = Parts[k]
          /\ \A k \in Len(Parts) + 1 .. Len(Parts) + n : Opened(Parts'[k])
    BY <1>2 DEF Opens
  <2>2. ASSUME NEW c, Opened(c) PROVE Cited(c)
    <3>1. c.blocks = <<next>> /\ c.boxes = IF source[next].boxed THEN <<next>> ELSE <<>>
      BY <2>2 DEF Opened, BoxOf
    <3> QED
      BY <3>1, JustOne, None DEF Cited
  <2> QED
    BY <1>0, <1>2, <2>1, <2>2 DEF Opens, Advances
<1>3. CASE Grows
  <2> DEFINE new == Parts'[Len(Parts)]
             old == Parts[Len(Parts)]
  <2>1. /\ Len(Parts') = Len(Parts) /\ source' = source /\ Len(Parts) > 0
        /\ \A k \in 1 .. Len(Parts) - 1 : Parts'[k] = Parts[k]
        /\ new.blocks = Append(old.blocks, next)
        /\ new.boxes = old.boxes \o BoxOf(next)
    BY <1>3 DEF Grows, Advances, Extended
  <2>2. Len(Parts) \in 1 .. Len(Parts)
    BY <1>0, <2>1
  <2>3. old.blocks \in Seq(Nat) /\ old.boxes \in Seq(Nat)
    <3>1. old \in Chunk
      BY <1>0, <2>2
    <3> QED
      BY <3>1 DEF Chunk, Packing
  <2>4. Cited(old)
    BY <1>0, <2>2
  <2>5. \A i \in ToSet(old.blocks) : i < next
    BY <1>0, <2>1, LastBelow
  <2>6. ToSet(new.blocks) = ToSet(old.blocks) \cup {next}
    BY <1>0, <2>1, <2>3, Appended
  <2>7. ASSUME source[next].boxed PROVE Cited(new)
    <3>1. new.boxes = Append(old.boxes, next)
      BY <1>0, <2>1, <2>3, <2>7 DEF BoxOf
    <3>2. \A i \in ToSet(old.boxes) : i < next
      BY <2>4, <2>5 DEF Cited
    <3>3. Rising(new.boxes) /\ ToSet(new.boxes) = ToSet(old.boxes) \cup {next}
      BY <1>0, <2>3, <2>4, <3>1, <3>2, AppendRises DEF Cited
    <3> QED
      BY <2>4, <2>6, <2>7, <3>3 DEF Cited
  <2>8. ASSUME ~ source[next].boxed PROVE Cited(new)
    <3>1. new.boxes = old.boxes
      BY <2>1, <2>3, <2>8 DEF BoxOf
    <3> QED
      BY <2>4, <2>6, <2>8, <3>1 DEF Cited
  <2>9. Cited(new)
    BY <2>7, <2>8
  <2> HIDE DEF new, old
  <2>10. ASSUME NEW k \in 1 .. Len(Parts) PROVE Cited(Parts'[k])
    <3>1. CASE k = Len(Parts)
      BY <2>9, <3>1 DEF new
    <3>2. CASE k \in 1 .. Len(Parts) - 1
      BY <1>0, <2>1, <3>2
    <3> QED
      BY <1>0, <3>1, <3>2
  <2> QED
    BY <2>1, <2>10
<1> QED
  BY <1>1, <1>2, <1>3, StepShape

(* Every boxed block of a chunk is cited by it, once and in order, also    *)
(* when headings are merged or a long text is cut.                         *)
THEOREM BoxesAreCited == Spec => []EveryBoxIsCited
<1>1. Init => EveryBoxIsCited
  <2>1. Init => Len(Parts) = 0
    BY DEF Init, Parts, Flushed
  <2> QED
    BY <2>1 DEF EveryBoxIsCited
<1>2. TypeInv /\ OrderInv /\ EveryBoxIsCited /\ [Next]_vars => EveryBoxIsCited'
  BY CitedStep
<1>3. TypeInv /\ OrderInv /\ [Next]_vars => OrderInv'
  BY OrderStep
<1> QED
  BY <1>1, <1>2, <1>3, OrderInit, TypeInvHolds, PTL DEF Spec

-----------------------------------------------------------------------------
(* Sections                                                                *)

(* Induction over the natural numbers, for a set.                          *)
LEMMA AllNumbers ==
  ASSUME NEW S, 0 \in S, \A n \in Nat : n \in S => n + 1 \in S
  PROVE  Nat \subseteq S
<1> DEFINE T == Nat \ S
           R == OpToRel(<, Nat)
<1>1. SUFFICES ASSUME T # {} PROVE FALSE
  OBVIOUS
<1>2. T \subseteq Nat
  OBVIOUS
<1>3. IsWellFoundedOn(R, Nat)
  BY NatLessThanWellFounded
<1> HIDE DEF T, R
<1>4. PICK x \in T : \A y \in T : ~ (<<y, x>> \in R)
  BY <1>1, <1>2, <1>3, WFMin
<1> USE DEF T
<1>5. x \in Nat /\ x # 0 /\ x \notin S
  BY <1>4
<1>6. x - 1 \in Nat /\ x - 1 \notin S /\ x - 1 < x
  BY <1>5
<1>7. <<x - 1, x>> \in R
  BY <1>5, <1>6 DEF R, OpToRel
<1> QED
  BY <1>4, <1>6, <1>7

(* The equations that define TitleBefore, for the first n blocks.          *)
Before(s, b, n) ==
    \A h \in 1 .. n :
        b[h] = IF h > 1 /\ s[h - 1].type = "heading"
               THEN b[h - 1] + s[h - 1].size + 3
               ELSE 0

LEMMA BlockSize ==
  ASSUME NEW s \in Seq(Block), NEW n \in 1 .. Len(s)
  PROVE  s[n].size \in Nat
<1>1. s[n] \in Block
  OBVIOUS
<1> QED
  BY <1>1 DEF Block

LEMMA BeforeExists ==
  ASSUME NEW s \in Seq(Block)
  PROVE  \E b \in [1 .. Len(s) -> Nat] : Before(s, b, Len(s))
<1> DEFINE S == {n \in Nat : n <= Len(s) => \E b \in [1 .. n -> Nat] : Before(s, b, n)}
<1>1. 0 \in S
  <2>1. [h \in 1 .. 0 |-> 0] \in [1 .. 0 -> Nat]
    OBVIOUS
  <2>2. Before(s, [h \in 1 .. 0 |-> 0], 0)
    BY DEF Before
  <2> QED
    BY <2>1, <2>2
<1>2. ASSUME NEW n \in Nat, n \in S PROVE n + 1 \in S
  <2> SUFFICES ASSUME n + 1 <= Len(s)
               PROVE  \E b \in [1 .. n + 1 -> Nat] : Before(s, b, n + 1)
    OBVIOUS
  <2>1. PICK b \in [1 .. n -> Nat] : Before(s, b, n)
    BY <1>2
  <2> DEFINE x == IF n > 0 /\ s[n].type = "heading" THEN b[n] + s[n].size + 3 ELSE 0
             f == [h \in 1 .. n + 1 |-> IF h = n + 1 THEN x ELSE b[h]]
  <2>2. x \in Nat
    <3>1. n > 0 => n \in 1 .. n /\ n \in 1 .. Len(s)
      OBVIOUS
    <3>2. n > 0 => s[n].size \in Nat /\ b[n] \in Nat
      BY <3>1, BlockSize
    <3> QED
      BY <3>2
  <2>3. f \in [1 .. n + 1 -> Nat]
    BY <2>2
  <2>4. Before(s, f, n + 1)
    BY <2>1 DEF Before
  <2> QED
    BY <2>3, <2>4
<1>3. Len(s) \in Nat
  OBVIOUS
<1> HIDE DEF S
<1>4. Len(s) \in S
  BY <1>1, <1>2, <1>3, AllNumbers
<1> QED
  BY <1>3, <1>4 DEF S

LEMMA TitleBeforeIs ==
  ASSUME NEW s \in Seq(Block)
  PROVE  \A h \in 1 .. Len(s) :
           /\ TitleBefore(s)[h] \in Nat
           /\ TitleBefore(s)[h] = IF h > 1 /\ s[h - 1].type = "heading"
                                  THEN TitleBefore(s)[h - 1] + s[h - 1].size + 3
                                  ELSE 0
<1> DEFINE t == TitleBefore(s)
           S == {n \in Nat : n \in 1 .. Len(s) => t[n] \in Nat}
<1>1. PICK b \in [1 .. Len(s) -> Nat] : Before(s, b, Len(s))
  BY BeforeExists
<1>2. b = [h \in 1 .. Len(s) |-> IF h > 1 /\ s[h - 1].type = "heading"
                                 THEN b[h - 1] + s[h - 1].size + 3
                                 ELSE 0]
  BY <1>1 DEF Before
<1>3. t = [h \in 1 .. Len(s) |-> IF h > 1 /\ s[h - 1].type = "heading"
                                 THEN t[h - 1] + s[h - 1].size + 3
                                 ELSE 0]
  BY <1>2 DEF TitleBefore
<1> HIDE DEF t
<1>4. 0 \in S
  OBVIOUS
<1>5. ASSUME NEW n \in Nat, n \in S PROVE n + 1 \in S
  <2> SUFFICES ASSUME n + 1 \in 1 .. Len(s) PROVE t[n + 1] \in Nat
    OBVIOUS
  <2>1. t[n + 1] = IF n > 0 /\ s[n].type = "heading" THEN t[n] + s[n].size + 3 ELSE 0
    BY <1>3
  <2>2. n > 0 => n \in 1 .. Len(s)
    OBVIOUS
  <2>3. n > 0 => t[n] \in Nat /\ s[n].size \in Nat
    BY <1>5, <2>2, BlockSize DEF S
  <2> QED
    BY <2>1, <2>3
<1> HIDE DEF S
<1>6. Nat \subseteq S
  BY <1>4, <1>5, AllNumbers
<1>7. \A h \in 1 .. Len(s) : h \in S
  BY <1>6
<1>8. \A h \in 1 .. Len(s) : t[h] \in Nat
  BY <1>7 DEF S
<1> QED
  BY <1>3, <1>8 DEF t

IsHeading(i) == source[i].type = "heading"

(* What the headings in force become at the next block.                    *)
LEMMA HeadingsAtBody ==
  ASSUME NEW i \in Nat, i > 0, ~ IsHeading(i)
  PROVE  HeadingsAt(i) = HeadingsAt(i - 1)
<1>1. ASSUME NEW h \in HeadingsAt(i) PROVE h \in HeadingsAt(i - 1)
  BY <1>1 DEF HeadingsAt, IsHeading
<1>2. ASSUME NEW h \in HeadingsAt(i - 1) PROVE h \in HeadingsAt(i)
  BY <1>2 DEF HeadingsAt, IsHeading
<1> QED
  BY <1>1, <1>2

LEMMA HeadingsAtFirst ==
  ASSUME TypeInv, NEW i \in 1 .. Len(source), IsHeading(i), i > 1 => ~ IsHeading(i - 1)
  PROVE  HeadingsAt(i) = {i} /\ TitleBefore(source)[i] = 0
<1>1. TitleBefore(source)[i] = 0
  BY TitleBeforeIs DEF IsHeading, TypeInv, TypeOK
<1>2. ASSUME NEW h \in HeadingsAt(i) PROVE h = i
  <2>1. SUFFICES ASSUME h \in 1 .. i - 1 PROVE FALSE
    BY <1>2 DEF HeadingsAt
  <2>2. i \in h .. i /\ i - 1 \in h .. i /\ i > 1
    BY <2>1
  <2>3. IsHeading(i - 1)
    BY <1>2, <2>2 DEF HeadingsAt, IsHeading
  <2> QED
    BY <2>2, <2>3
<1>3. i \in HeadingsAt(i)
  <2>1. i \in 1 .. i /\ \A g \in i .. i : g = i
    OBVIOUS
  <2>2. 0 < SectionChars
    BY BoundsAssumption
  <2> QED
    BY <1>1, <2>1, <2>2 DEF HeadingsAt, IsHeading
<1> QED
  BY <1>1, <1>2, <1>3

LEMMA HeadingsAtNext ==
  ASSUME TypeInv, NEW i \in 2 .. Len(source), IsHeading(i), IsHeading(i - 1)
  PROVE  /\ TitleBefore(source)[i] = TitleBefore(source)[i - 1] + source[i - 1].size + 3
         /\ HeadingsAt(i) = HeadingsAt(i - 1) \cup
              (IF TitleBefore(source)[i] < SectionChars THEN {i} ELSE {})
<1>0. i \in 1 .. Len(source) /\ i > 1 /\ i - 1 \in Nat
  OBVIOUS
<1>1. TitleBefore(source)[i] = TitleBefore(source)[i - 1] + source[i - 1].size + 3
  BY <1>0, TitleBeforeIs DEF IsHeading, TypeInv, TypeOK
<1>2. ASSUME NEW h \in HeadingsAt(i), h # i PROVE h \in HeadingsAt(i - 1)
  BY <1>0, <1>2 DEF HeadingsAt, IsHeading
<1>3. ASSUME NEW h \in HeadingsAt(i - 1) PROVE h \in HeadingsAt(i)
  <2>1. h \in 1 .. i - 1 /\ h \in 1 .. i /\ i - 1 \in h .. i - 1
    BY <1>0, <1>3 DEF HeadingsAt
  <2>2. ASSUME NEW f \in h .. i PROVE IsHeading(f)
    <3>1. CASE f = i
      BY <3>1
    <3>2. CASE f \in h .. i - 1
      BY <1>3, <2>1, <3>2 DEF HeadingsAt, IsHeading
    <3> QED
      BY <1>0, <2>1, <3>1, <3>2
  <2>3. \A g \in h .. i : \A f \in h .. g : f \in h .. i
    BY <2>1
  <2> QED
    BY <1>3, <2>1, <2>2, <2>3 DEF HeadingsAt, IsHeading
<1>4. i \in HeadingsAt(i) <=> TitleBefore(source)[i] < SectionChars
  <2>1. i \in 1 .. i /\ \A g \in i .. i : g = i
    BY <1>0
  <2> QED
    BY <1>0, <2>1 DEF HeadingsAt, IsHeading
<1> QED
  BY <1>1, <1>2, <1>3, <1>4

(* t is the title in force at block i.                                     *)
TitleOf(t, i) == ToSet(t) = HeadingsAt(i) /\ Rising(t)

(* With section title t, pending chunk p and next block n: the title is    *)
(* the one in force, and the pending chunk is a run of headings, with its  *)
(* joined text, exactly when the last block was a heading.                 *)
Running(t, p, n) ==
    /\ TitleOf(t, n - 1)
    /\ p.types = <<"heading">> =>
         /\ n > 1 /\ IsHeading(n - 1)
         /\ p.size = TitleBefore(source)[n - 1] + source[n - 1].size
    /\ n \in 2 .. Len(source) /\ IsHeading(n - 1) => p.types = <<"heading">>

RunningInv == Running(last_section, pending, next)

LEMMA NoHeadingYet == <<>> # <<"heading">>
<1>1. Len(<<>>) = 0 /\ Len(<<"heading">>) = 1
  OBVIOUS
<1> QED
  BY <1>1

LEMMA RunningStep ==
  ASSUME TypeInv, RunningInv, [Next]_vars
  PROVE  RunningInv'
<1>0. /\ next \in Nat \ {0} /\ Len(source) \in Nat /\ next <= Len(source) + 1
      /\ source \in Seq(Block) /\ last_section \in Seq(Nat)
      /\ pending.types \in Seq(BlockTypes)
  BY DEF TypeInv, TypeOK, Packing
<1>s. SUFFICES source' = source /\ Running(last_section', pending', next')
  BY DEF RunningInv, Running, TitleOf, HeadingsAt, IsHeading
<1>1. ASSUME NEW types, Next_is(types)
      PROVE  /\ source' = source /\ next' = next + 1 /\ next' - 1 = next
             /\ next \in 1 .. Len(source) /\ next' > 1
             /\ source[next].type \in types
             /\ next > 1 => next \in 2 .. Len(source)
  BY <1>0, <1>1 DEF Next_is
<1>2. CASE EmitAtomic \/ SplitLong \/ Pack \/ Overflow
  <2>1. /\ source' = source /\ next' - 1 = next /\ last_section' = last_section
        /\ source[next].type # "heading" /\ source[next].type \in BlockTypes
    <3>1. CASE EmitAtomic
      BY <1>1, <3>1 DEF EmitAtomic, Atomic, BlockTypes
    <3>2. CASE SplitLong \/ Pack \/ Overflow
      BY <1>1, <3>2 DEF SplitLong, Pack, Overflow, Text
    <3> QED
      BY <1>2, <3>1, <3>2
  <2>2. pending'.types # <<"heading">>
    <3>1. CASE EmitAtomic \/ SplitLong
      <4>1. pending'.types = <<>>
        BY <3>1 DEF EmitAtomic, SplitLong, Reset
      <4> QED
        BY <4>1, NoHeadingYet
    <3>2. CASE Pack
      <4>1. pending'.types = Append(pending.types, source[next].type)
        BY <3>2 DEF Pack, Packed, Grown
      <4>2. Append(pending.types, source[next].type)[Len(pending.types) + 1] = source[next].type
        BY <1>0, <2>1
      <4>3. Len(Append(pending.types, source[next].type)) = Len(pending.types) + 1
        BY <1>0, <2>1
      <4>4. SUFFICES ASSUME Append(pending.types, source[next].type) = <<"heading">>
                     PROVE  FALSE
        BY <4>1
      <4>5. Len(pending.types) + 1 = 1
        BY <4>3, <4>4
      <4> QED
        BY <2>1, <4>2, <4>4, <4>5
    <3>3. CASE Overflow
      <4>1. pending'.types = <<source[next].type>>
        BY <3>3 DEF Overflow, Single
      <4> QED
        BY <2>1, <4>1
    <3> QED
      BY <1>2, <3>1, <3>2, <3>3
  <2>3. HeadingsAt(next) = HeadingsAt(next - 1)
    BY <1>0, <2>1, HeadingsAtBody DEF IsHeading
  <2> QED
    BY <2>1, <2>2, <2>3 DEF RunningInv, Running, TitleOf, IsHeading
<1>3. CASE StartHeading
  <2>1. /\ source' = source /\ next' - 1 = next /\ next' > 1 /\ last_section' = <<next>>
        /\ IsHeading(next) /\ pending.types # <<"heading">>
        /\ pending'.types = <<source[next].type>> /\ pending'.size = source[next].size
        /\ next \in 1 .. Len(source) /\ (next > 1 => next \in 2 .. Len(source))
    <3>1. /\ Next_is({"heading"}) /\ last_section' = <<next>>
          /\ pending.types # <<"heading">>
          /\ pending' = Single(next, source[next].size, <<next>>)
      BY <1>3 DEF StartHeading
    <3>2. IsHeading(next)
      BY <1>1, <3>1 DEF IsHeading
    <3> QED
      BY <1>1, <3>1, <3>2 DEF Single
  <2>2. next > 1 => ~ IsHeading(next - 1)
    BY <2>1 DEF RunningInv, Running
  <2>3. HeadingsAt(next) = {next} /\ TitleBefore(source)[next] = 0
    BY <2>1, <2>2, HeadingsAtFirst
  <2>4. TitleOf(<<next>>, next)
    BY <2>3, JustOne DEF TitleOf
  <2>5. source[next].size \in Nat /\ source[next].size = 0 + source[next].size
    BY <1>0, <2>1, BlockSize
  <2> QED
    BY <2>1, <2>3, <2>4, <2>5 DEF Running, IsHeading
<1>4. CASE MergeHeading
  <2>1. /\ source' = source /\ next' - 1 = next /\ next' > 1
        /\ IsHeading(next) /\ pending.types = <<"heading">>
        /\ pending'.types = pending.types
        /\ pending'.size = pending.size + 3 + source[next].size
        /\ last_section' = IF pending.size + 3 < SectionChars
                           THEN Append(last_section, next)
                           ELSE last_section
        /\ next \in 1 .. Len(source) /\ (next > 1 => next \in 2 .. Len(source))
    <3>1. /\ Next_is({"heading"}) /\ pending.types = <<"heading">>
          /\ last_section' = IF pending.size + 3 < SectionChars
                             THEN Append(last_section, next)
                             ELSE last_section
          /\ pending' = Grown(pending.types, pending.size + 3 + source[next].size,
                              pending.page, last_section')
      BY <1>4 DEF MergeHeading
    <3>2. IsHeading(next)
      BY <1>1, <3>1 DEF IsHeading
    <3> QED
      BY <1>1, <3>1, <3>2 DEF Grown
  <2>2. /\ next > 1 /\ IsHeading(next - 1)
        /\ pending.size = TitleBefore(source)[next - 1] + source[next - 1].size
    BY <2>1 DEF RunningInv, Running
  <2>3. /\ TitleBefore(source)[next] = pending.size + 3
        /\ HeadingsAt(next) = HeadingsAt(next - 1) \cup
             (IF pending.size + 3 < SectionChars THEN {next} ELSE {})
    BY <2>1, <2>2, HeadingsAtNext
  <2>4. TitleOf(last_section, next - 1)
    BY DEF RunningInv, Running
  <2>5. ASSUME pending.size + 3 < SectionChars
        PROVE  TitleOf(Append(last_section, next), next)
    <3>1. \A h \in ToSet(last_section) : h < next
      BY <1>0, <2>4 DEF TitleOf, HeadingsAt
    <3>2. /\ Rising(Append(last_section, next))
          /\ ToSet(Append(last_section, next)) = ToSet(last_section) \cup {next}
      BY <1>0, <2>4, <3>1, AppendRises DEF TitleOf
    <3> QED
      BY <2>3, <2>4, <2>5, <3>2 DEF TitleOf
  <2>6. ASSUME ~ (pending.size + 3 < SectionChars)
        PROVE  TitleOf(last_section, next)
    BY <2>3, <2>4, <2>6 DEF TitleOf
  <2>7. TitleOf(last_section', next)
    BY <2>1, <2>5, <2>6
  <2> QED
    BY <2>1, <2>3, <2>7 DEF Running, IsHeading
<1>5. CASE Finish
  <2>1. /\ source' = source /\ next' = next /\ next > Len(source)
        /\ last_section' = last_section /\ pending'.types = <<>>
    BY <1>5 DEF Finish, Reset
  <2> QED
    BY <1>0, <2>1, NoHeadingYet DEF RunningInv, Running
<1>6. CASE UNCHANGED vars
  BY <1>6 DEF vars, RunningInv
<1> QED
  BY <1>2, <1>3, <1>4, <1>5, <1>6 DEF Next

LEMMA SectionStep ==
  ASSUME TypeInv, OrderInv, RunningInv, SectionIsEnclosingHeading, [Next]_vars
  PROVE  SectionIsEnclosingHeading'
<1>0. /\ Len(Parts) \in Nat /\ next \in Nat \ {0}
      /\ \A k \in 1 .. Len(Parts) : TitleOf(Parts[k].section, Final(Parts[k]))
  BY PartsType DEF SectionIsEnclosingHeading, TitleOf
<1>s. SUFFICES /\ source' = source
               /\ \A k \in 1 .. Len(Parts') : TitleOf(Parts'[k].section, Final(Parts'[k]))
  BY DEF SectionIsEnclosingHeading, TitleOf, HeadingsAt
<1>1. CASE Stays
  BY <1>0, <1>1 DEF Stays
<1>2. ASSUME Advances PROVE source' = source /\ TitleOf(last_section', next)
  <2>1. source' = source /\ next' = next + 1 /\ next' - 1 = next
    BY <1>0, <1>2 DEF Advances
  <2>2. ToSet(last_section') = HeadingsAt(next - 1)' /\ Rising(last_section')
    BY RunningStep DEF RunningInv, Running, TitleOf
  <2>3. HeadingsAt(next - 1)' = HeadingsAt(next)
    BY <2>1 DEF HeadingsAt
  <2> QED
    BY <2>1, <2>2, <2>3 DEF TitleOf
<1>3. CASE Opens
  <2>1. PICK n \in Nat \ {0} :
          /\ Len(Parts') = Len(Parts) + n
          /\ \A k \in 1 .. Len(Parts) : Parts'[k] = Parts[k]
          /\ \A k \in Len(Parts) + 1 .. Len(Parts) + n : Opened(Parts'[k])
    BY <1>3 DEF Opens
  <2>2. Advances
    BY <1>3 DEF Opens
  <2>3. ASSUME NEW c, Opened(c) PROVE TitleOf(c.section, Final(c))
    <3>1. Final(c) = next /\ c.section = last_section'
      BY <2>3, Singleton DEF Opened
    <3> QED
      BY <1>2, <2>2, <3>1
  <2> QED
    BY <1>0, <1>2, <2>1, <2>2, <2>3
<1>4. CASE Grows
  <2> DEFINE new == Parts'[Len(Parts)]
             old == Parts[Len(Parts)]
  <2>1. /\ Len(Parts') = Len(Parts) /\ Len(Parts) > 0
        /\ \A k \in 1 .. Len(Parts) - 1 : Parts'[k] = Parts[k]
        /\ new.blocks = Append(old.blocks, next)
        /\ new.section = last_section'
    BY <1>4 DEF Grows, Extended
  <2>2. Advances
    BY <1>4 DEF Grows
  <2>3. old.blocks \in Seq(Nat)
    <3>1. Len(Parts) \in 1 .. Len(Parts)
      BY <1>0, <2>1
    <3> QED
      BY <3>1, PartsType
  <2>4. Final(new) = next
    <3>1. /\ Len(Append(old.blocks, next)) = Len(old.blocks) + 1
          /\ Append(old.blocks, next)[Len(old.blocks) + 1] = next
      BY <1>0, <2>3
    <3> QED
      BY <2>1, <3>1 DEF Final
  <2>5. TitleOf(new.section, Final(new))
    BY <1>2, <2>1, <2>2, <2>4
  <2> HIDE DEF new, old
  <2>6. ASSUME NEW k \in 1 .. Len(Parts)
        PROVE  TitleOf(Parts'[k].section, Final(Parts'[k]))
    <3>1. CASE k = Len(Parts)
      BY <2>5, <3>1 DEF new
    <3>2. CASE k \in 1 .. Len(Parts) - 1
      BY <1>0, <2>1, <3>2
    <3> QED
      BY <1>0, <3>1, <3>2
  <2> QED
    BY <1>2, <2>1, <2>2, <2>6
<1> QED
  BY <1>1, <1>3, <1>4, StepShape

(* The section title of a chunk is the last unbroken run of headings at or *)
(* before its last block, in a document of any length.                     *)
THEOREM SectionsEnclose == Spec => []SectionIsEnclosingHeading
<1>1. Init => RunningInv
  <2> SUFFICES ASSUME Init PROVE RunningInv
    OBVIOUS
  <2>1. next = 1 /\ next - 1 = 0 /\ last_section = <<>> /\ pending.types = <<>>
    BY DEF Init
  <2>2. HeadingsAt(0) = {}
    BY DEF HeadingsAt
  <2>3. TitleOf(<<>>, 0)
    BY <2>2, None DEF TitleOf
  <2>4. Len(source) \in Nat
    BY TypeInit, PartsType
  <2>5. pending.types # <<"heading">> /\ ~ (1 \in 2 .. Len(source))
    BY <2>1, <2>4, NoHeadingYet
  <2> QED
    BY <2>1, <2>3, <2>5 DEF RunningInv, Running
<1>2. Init => SectionIsEnclosingHeading
  <2>1. Init => Len(Parts) = 0
    BY DEF Init, Parts, Flushed
  <2> QED
    BY <2>1 DEF SectionIsEnclosingHeading
<1>3. TypeInv /\ RunningInv /\ [Next]_vars => RunningInv'
  BY RunningStep
<1>4. /\ TypeInv /\ OrderInv /\ RunningInv /\ SectionIsEnclosingHeading /\ [Next]_vars
      => SectionIsEnclosingHeading'
  BY SectionStep
<1>5. TypeInv /\ OrderInv /\ [Next]_vars => OrderInv'
  BY OrderStep
<1> QED
  BY <1>1, <1>2, <1>3, <1>4, <1>5, OrderInit, TypeInvHolds, PTL DEF Spec
=============================================================================
