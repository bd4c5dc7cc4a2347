-------------------------- MODULE ExtractionProofs --------------------------
(***************************************************************************)
(* Proofs about Extraction, for PDFs of any length, any options and any    *)
(* cap: no region below the cap that Docling gave content to is dropped,   *)
(* blocks and pages come in reading order, and an engine goes without      *)
(* pixels only where PyMuPDF was asked for them.                           *)
(* About Regions, the way of one region's box to a crop, for every page,   *)
(* every box and every order of its corners: the engines are given the     *)
(* pixels of the region, and OCR those that were gated.  And about Tables, *)
(* for any cells and wherever the Markdown is cut: it reads back as they   *)
(* do.                                                                     *)
(***************************************************************************)
EXTENDS Extraction, Regions, FiniteSetTheorems, SequenceTheorems,
        WellFoundedInduction, TLAPS

(* Blocks of page p, in the order of their items.                          *)
InOrderOn(p, bs) ==
    /\ \A b \in DOMAIN bs : /\ bs[b].item \in RegionsOf(p)
                            /\ bs[b].order = ReadingOrder(bs[b].item)
    /\ \A b, c \in DOMAIN bs : b < c => bs[b].item < bs[c].item

(* What is left to do, and where.                                          *)
PlaceInv ==
    /\ todo \subseteq PagesWithRegions
    /\ pc = "region" => todo # {} /\ left \subseteq Capped(CurrentPage)
    /\ pc = "layout" => pages = <<>> /\ todo = {}
    /\ pc = "done" => todo = {}

(* What is finished precedes what is left, page by page and region by      *)
(* region.                                                                 *)
OrderInv ==
    /\ \A p, q \in DOMAIN pages : p < q => pages[p].number < pages[q].number
    /\ \A n \in DOMAIN pages : /\ \A q \in todo : pages[n].number < q
                               /\ InOrderOn(pages[n].number, pages[n].blocks)
    /\ pc = "region" =>
         /\ InOrderOn(CurrentPage, blocks)
         /\ \A b \in DOMAIN blocks, i \in left : blocks[b].item < i

(* What is neither left nor shown by a block had no content.               *)
ContentInv ==
    /\ pc \in {"page", "region", "done"} =>
         \A p \in PagesWithRegions \ todo : \A i \in Capped(p) :
             HasContent(It(i)) => Represented(p, i)
    /\ pc = "region" =>
         \A i \in Capped(CurrentPage) \ left :
             HasContent(It(i)) => ShownBy(blocks, i)
    /\ pc = "empty" => PagesWithRegions = {}

(* The rendering of a page is tried before its regions are processed.      *)
PixelInv ==
    /\ DeniedOnlyAfterTrying
    /\ pc = "region" /\ NeedsImage(Capped(CurrentPage)) => CurrentPage \in tried

(* The block of a table carries the Markdown of the cells of its item.     *)
OwnMarkdown(b) ==
    b.kind = "table" => /\ It(b.item).cells # <<>>
                        /\ b.markdown = TableMarkdown(It(b.item).cells)

MarkdownInv ==
    /\ \A b \in DOMAIN blocks : OwnMarkdown(blocks[b])
    /\ \A n \in DOMAIN pages : \A b \in DOMAIN pages[n].blocks :
         OwnMarkdown(pages[n].blocks[b])

IInv == TypeOK /\ PlaceInv /\ OrderInv /\ ContentInv /\ PixelInv /\ MarkdownInv

-----------------------------------------------------------------------------
(* Pages and regions                                                       *)

(* Induction on numbers.                                                   *)
LEMMA AllNumbers ==
  ASSUME NEW S, 0 \in S, \A n \in Nat : n \in S => n + 1 \in S
  PROVE  Nat \subseteq S
<1> DEFINE T == Nat \ S
           R == OpToRel(<, Nat)
<1>1. SUFFICES ASSUME T # {} PROVE FALSE
  OBVIOUS
<1>2. T \subseteq Nat
  OBVIOUS
<1>3. IsWellFoundedOn(R, Nat)
  BY NatLessThanWellFounded
<1> HIDE DEF T, R
<1>4. PICK x \in T : \A y \in T : ~ (<<y, x>> \in R)
  BY <1>1, <1>2, <1>3, WFMin
<1> USE DEF T
<1>5. x \in Nat /\ x # 0 /\ x \notin S
  BY <1>4
<1>6. x - 1 \in Nat /\ x - 1 \notin S /\ x - 1 < x
  BY <1>5
<1>7. <<x - 1, x>> \in R
  BY <1>5, <1>6 DEF R, OpToRel
<1> QED
  BY <1>4, <1>6, <1>7

(* A set of numbers has a least one.                                       *)
LEMMA LeastOne ==
  ASSUME NEW S, S \subseteq Nat, S # {}
  PROVE  Min(S) \in S /\ \A y \in S : Min(S) <= y
<1> DEFINE R == OpToRel(<, Nat)
<1>1. IsWellFoundedOn(R, Nat)
  BY NatLessThanWellFounded
<1> HIDE DEF R
<1>2. PICK x \in S : \A y \in S : ~ (<<y, x>> \in R)
  BY <1>1, WFMin
<1>3. \A y \in S : x <= y
  <2> SUFFICES ASSUME NEW y \in S, y < x PROVE FALSE
    OBVIOUS
  <2>1. <<y, x>> \in R
    BY DEF R, OpToRel
  <2> QED
    BY <1>2, <2>1
<1> QED
  BY <1>2, <1>3 DEF Min

LEMMA ItemsOf ==
  ASSUME TypeOK
  PROVE  /\ Len(file.items) \in Nat
         /\ DOMAIN file.items = 1 .. Len(file.items)
         /\ \A i \in DOMAIN file.items : It(i) \in Item
<1>1. file.items \in Seq(Item)
  BY DEF TypeOK, File
<1> QED
  BY <1>1 DEF It

LEMMA RegionsAreItems ==
  ASSUME TypeOK, NEW p
  PROVE  /\ RegionsOf(p) \subseteq 1 .. Len(file.items)
         /\ RegionsOf(p) \subseteq Nat
         /\ Capped(p) \subseteq RegionsOf(p)
         /\ IsFiniteSet(RegionsOf(p))
<1>1. Len(file.items) \in Nat /\ DOMAIN file.items = 1 .. Len(file.items)
  BY ItemsOf
<1>2. RegionsOf(p) \subseteq 1 .. Len(file.items)
  BY <1>1 DEF RegionsOf
<1>3. IsFiniteSet(1 .. Len(file.items))
  BY <1>1, FS_Interval
<1>4. IsFiniteSet(RegionsOf(p))
  BY <1>2, <1>3, FS_Subset
<1> QED
  BY <1>1, <1>2, <1>4 DEF Capped

LEMMA OrdinalIsNat ==
  ASSUME TypeOK, NEW i
  PROVE  ReadingOrder(i) \in Nat
<1> DEFINE before == {j \in RegionsOf(It(i).page) : j < i}
<1>1. IsFiniteSet(before)
  BY RegionsAreItems, FS_Subset
<1> QED
  BY <1>1, FS_CardinalityType DEF ReadingOrder

(* Ordinals rise with the items of a page.                                 *)
LEMMA OrdinalsRise ==
  ASSUME TypeOK, NEW p, NEW i \in RegionsOf(p), NEW j \in RegionsOf(p), i < j
  PROVE  ReadingOrder(i) < ReadingOrder(j)
<1> DEFINE before(k) == {h \in RegionsOf(p) : h < k}
<1>1. It(i).page = p /\ It(j).page = p
  BY DEF RegionsOf
<1>2. ReadingOrder(i) = Cardinality(before(i)) /\ ReadingOrder(j) = Cardinality(before(j))
  BY <1>1 DEF ReadingOrder
<1>3. RegionsOf(p) \subseteq Nat /\ IsFiniteSet(RegionsOf(p))
  BY RegionsAreItems
<1>4. IsFiniteSet(before(j))
  BY <1>3, FS_Subset
<1>5. before(i) \subseteq before(j) /\ i \in before(j) /\ i \notin before(i)
  BY <1>3
<1>6. before(i) # before(j)
  BY <1>5
<1> HIDE DEF before
<1>7. /\ Cardinality(before(i)) <= Cardinality(before(j))
      /\ Cardinality(before(i)) # Cardinality(before(j))
      /\ IsFiniteSet(before(i))
  BY <1>4, <1>5, <1>6, FS_Subset
<1>8. Cardinality(before(i)) \in Nat /\ Cardinality(before(j)) \in Nat
  BY <1>4, <1>7, FS_CardinalityType
<1> QED
  BY <1>2, <1>7, <1>8

LEMMA PageNumbers ==
  ASSUME TypeOK
  PROVE  PagesWithRegions \subseteq Nat
<1>1. \A i \in DOMAIN file.items : It(i).page \in Nat
  BY ItemsOf DEF Item
<1> QED
  BY <1>1 DEF PagesWithRegions

LEMMA PageAtHand ==
  ASSUME TypeOK, todo # {}
  PROVE  /\ CurrentPage \in todo
         /\ CurrentPage \in Nat
         /\ \A q \in todo \ {CurrentPage} : CurrentPage < q
<1>1. todo \subseteq Nat
  BY DEF TypeOK
<1>2. CurrentPage \in todo /\ \A q \in todo : CurrentPage <= q
  BY <1>1, LeastOne DEF CurrentPage
<1> QED
  BY <1>1, <1>2

LEMMA RegionAtHand ==
  ASSUME TypeOK, left # {}
  PROVE  /\ Current \in left
         /\ Current \in DOMAIN file.items
         /\ Current \in Nat
         /\ It(Current) \in Item
         /\ \A i \in left \ {Current} : Current < i
<1>1. left \subseteq DOMAIN file.items /\ left \subseteq Nat
  BY ItemsOf DEF TypeOK
<1>2. Current \in left /\ \A i \in left : Current <= i
  BY <1>1, LeastOne DEF Current
<1> QED
  BY <1>1, <1>2, ItemsOf

(* What is said about the file does not change with the rest.              *)
LEMMA SameFile ==
  ASSUME UNCHANGED <<file, options>>
  PROVE  /\ PagesWithRegions' = PagesWithRegions
         /\ \A p : RegionsOf(p)' = RegionsOf(p)
         /\ \A p : Capped(p)' = Capped(p)
         /\ \A i : ReadingOrder(i)' = ReadingOrder(i)
         /\ \A i : It(i)' = It(i)
         /\ \A i : HasContent(It(i))' <=> HasContent(It(i))
         /\ \A regions : NeedsImage(regions)' <=> NeedsImage(regions)
         /\ \A bs, i : ShownBy(bs, i)' <=> ShownBy(bs, i)
  BY DEF PagesWithRegions, Kept, RegionsOf, Capped, ReadingOrder, It, HasContent,
         NeedsImage, StandsFor, ShownBy

(* What is said about the pages done does not change with the rest.        *)
LEMMA SamePages ==
  ASSUME UNCHANGED <<file, options, pages>>
  PROVE  \A p, i : Represented(p, i)' <=> Represented(p, i)
  BY SameFile DEF Represented

LEMMA SamePage ==
  ASSUME UNCHANGED <<file, options, todo>>
  PROVE  CurrentPage' = CurrentPage
  BY DEF CurrentPage

LEMMA SameBlocks ==
  ASSUME UNCHANGED <<file, options>>
  PROVE  BlockOf' = BlockOf /\ Markdowns' = Markdowns
  BY DEF BlockOf, Markdowns

Response == [number : Nat, blocks : Seq(BlockOf)]

LEMMA TypesOf ==
  ASSUME TypeOK
  PROVE  /\ blocks \in Seq(BlockOf)
         /\ pages \in Seq(Response)
         /\ left \subseteq DOMAIN file.items
  BY DEF TypeOK, Response

LEMMA TypesKept ==
  ASSUME TypeOK, UNCHANGED <<file, options>>,
         pc' \in {"layout", "page", "region"} \cup Endings,
         todo' \subseteq Nat,
         image' \in BOOLEAN,
         left' \subseteq DOMAIN file.items,
         blocks' \in Seq(BlockOf),
         pages' \in Seq(Response),
         tried' \subseteq Nat,
         denied' \subseteq DOMAIN file.items
  PROVE  TypeOK'
<1>1. file' \in File /\ options' \in Option
  BY DEF TypeOK
<1>2. left' \subseteq DOMAIN file'.items /\ denied' \subseteq DOMAIN file'.items
  OBVIOUS
<1>3. blocks' \in Seq(BlockOf')
  BY SameBlocks
<1>4. pages' \in Seq([number : Nat, blocks : Seq(BlockOf')])
  <2>1. [number : Nat, blocks : Seq(BlockOf')] = Response
    BY SameBlocks, Zenon DEF Response
  <2> QED
    BY <2>1
<1> QED
  BY <1>1, <1>2, <1>3, <1>4 DEF TypeOK

(* The order on a page is about its blocks and the file.                   *)
LEMMA SameOrder ==
  ASSUME UNCHANGED <<file, options>>
  PROVE  \A p, bs : InOrderOn(p, bs)' <=> InOrderOn(p, bs)
  BY SameFile DEF InOrderOn

-----------------------------------------------------------------------------
(* A region is done                                                        *)

(* What an engine or Docling gives for the current region: one block that  *)
(* is about it, or none.                                                   *)
AboutCurrent(bs) ==
    \/ bs = <<>>
    \/ \E b \in BlockOf : /\ bs = <<b>>
                          /\ b.item = Current
                          /\ b.order = ReadingOrder(Current)
                          /\ OwnMarkdown(b)

LEMMA NewBlockIsAboutCurrent ==
  ASSUME TypeOK, left # {}, It(Current).kind \in Kinds,
         NEW text \in {"native", "ocr", "cells", "latex", "marker"},
         text = "cells" => It(Current).cells # <<>>,
         It(Current).kind = "table" => text = "cells",
         NEW caption \in BOOLEAN, NEW legend \in BOOLEAN
  PROVE  /\ AboutCurrent(NewBlock(text, caption, legend))
         /\ StandsFor(text, It(Current)) => ShownBy(NewBlock(text, caption, legend), Current)
<1> DEFINE md == IF text = "cells" THEN TableMarkdown(It(Current).cells) ELSE <<>>
           b  == [item |-> Current, order |-> ReadingOrder(Current),
                  kind |-> It(Current).kind, text |-> text, caption |-> caption,
                  legend |-> legend, markdown |-> md]
<1>1. Current \in DOMAIN file.items /\ ReadingOrder(Current) \in Nat
  BY RegionAtHand, OrdinalIsNat
<1>2. md \in Markdowns \cup {<<>>}
  BY <1>1 DEF Markdowns, It
<1>3. NewBlock(text, caption, legend) = <<b>>
  BY DEF NewBlock
<1> HIDE DEF md
<1>4. /\ b \in BlockOf /\ b.item = Current /\ b.order = ReadingOrder(Current)
      /\ b.text = text
  BY <1>1, <1>2 DEF BlockOf
<1>5. OwnMarkdown(b)
  <2>1. /\ b.item = Current /\ b.kind = It(Current).kind /\ b.markdown = md
        /\ text = "cells" => md = TableMarkdown(It(Current).cells)
    BY DEF md
  <2> HIDE DEF b
  <2> QED
    BY <2>1, Zenon DEF OwnMarkdown
<1> HIDE DEF b
<1>6. AboutCurrent(<<b>>)
  BY <1>4, <1>5 DEF AboutCurrent
<1>7. StandsFor(text, It(Current)) => ShownBy(<<b>>, Current)
  BY <1>4 DEF ShownBy
<1> QED
  BY <1>3, <1>6, <1>7

(* A region is done, and if an engine was wanted for it, its page was      *)
(* rendered on its account.                                                *)
LEMMA EmitStep ==
  ASSUME IInv, pc = "region", left # {}, NEW bs, AboutCurrent(bs),
         HasContent(It(Current)) => ShownBy(bs, Current),
         NEW wanted \in BOOLEAN, wanted => NeedsImage({Current}),
         Emit(bs, wanted)
  PROVE  IInv'
<1> USE DEF IInv
<1>1. /\ UNCHANGED <<file, options, pc, todo, image, pages, tried>>
      /\ left' = left \ {Current} /\ blocks' = blocks \o bs
      /\ denied' \subseteq denied \cup {i \in {Current} : wanted}
  BY DEF Emit
<1>2. /\ Current \in left /\ Current \in Nat
      /\ \A i \in left' : Current < i
  BY <1>1, RegionAtHand
<1>3. CurrentPage' = CurrentPage /\ BlockOf' = BlockOf
  BY <1>1, SamePage, SameBlocks
<1>4. blocks \in Seq(BlockOf) /\ bs \in Seq(BlockOf) /\ blocks' \in Seq(BlockOf)
  <2>1. blocks \in Seq(BlockOf)
    BY TypesOf
  <2>2. bs \in Seq(BlockOf)
    <3>1. CASE bs = <<>>
      BY <3>1
    <3>2. CASE bs # <<>>
      <4>1. PICK b \in BlockOf : bs = <<b>>
        BY <3>2 DEF AboutCurrent
      <4> QED
        BY <4>1
    <3> QED
      BY <3>1, <3>2
  <2> QED
    BY <1>1, <2>1, <2>2
<1>5. TypeOK'
  <2>1. denied' \subseteq DOMAIN file.items
    BY <1>1, RegionAtHand DEF TypeOK
  <2> QED
    BY <1>1, <1>4, <2>1, TypesOf, TypesKept DEF TypeOK
<1>6. PlaceInv'
  BY <1>1, <1>3, SameFile DEF PlaceInv
<1>7. /\ Current \in Capped(CurrentPage) /\ Current \in RegionsOf(CurrentPage)
  BY <1>2 DEF PlaceInv, Capped
<1>8. /\ \A b \in DOMAIN blocks : b \in DOMAIN blocks' /\ blocks'[b] = blocks[b]
      /\ \A b \in DOMAIN blocks' \ DOMAIN blocks :
           /\ blocks'[b].item = Current
           /\ blocks'[b].order = ReadingOrder(Current)
           /\ OwnMarkdown(blocks'[b])
           /\ \A c \in DOMAIN blocks' : b <= c => c = b
           /\ \A c \in DOMAIN blocks' : c < b => c \in DOMAIN blocks
      /\ \A i : ShownBy(bs, i) => ShownBy(blocks', i)
      /\ DOMAIN blocks \subseteq Nat /\ DOMAIN blocks' \subseteq Nat
      /\ \A b, c \in DOMAIN blocks' : b < c => b \in DOMAIN blocks
  <2>1. CASE bs = <<>>
    <3>1. blocks' = blocks
      BY <1>1, <1>4, <2>1
    <3>2. \A i : ~ ShownBy(bs, i)
      BY <2>1 DEF ShownBy
    <3> QED
      BY <1>4, <3>1, <3>2
  <2>2. CASE bs # <<>>
    <3>1. PICK x \in BlockOf : /\ bs = <<x>> /\ x.item = Current
                               /\ x.order = ReadingOrder(Current)
                               /\ OwnMarkdown(x)
      BY <2>2 DEF AboutCurrent
    <3>2. blocks' = Append(blocks, x)
      BY <1>1, <1>4, <3>1
    <3>3. /\ Len(blocks) \in Nat /\ DOMAIN blocks = 1 .. Len(blocks)
          /\ DOMAIN blocks' = 1 .. Len(blocks) + 1
          /\ \A b \in 1 .. Len(blocks) : blocks'[b] = blocks[b]
          /\ blocks'[Len(blocks) + 1] = x
      BY <1>4, <3>1, <3>2
    <3>4. \A i : ShownBy(bs, i) => ShownBy(blocks', i)
      BY <3>1, <3>3 DEF ShownBy
    <3> QED
      BY <3>1, <3>3, <3>4
  <2> QED
    BY <2>1, <2>2
<1>9. OrderInv'
  <2>1. /\ InOrderOn(CurrentPage, blocks)
        /\ \A b \in DOMAIN blocks, i \in left : blocks[b].item < i
    BY DEF OrderInv
  <2>2. InOrderOn(CurrentPage, blocks')
    BY <1>2, <1>7, <1>8, <2>1 DEF InOrderOn
  <2>3. \A b \in DOMAIN blocks', i \in left' : blocks'[b].item < i
    BY <1>1, <1>2, <1>8, <2>1
  <2>4. InOrderOn(CurrentPage, blocks)'
    BY <1>1, <1>3, <2>2, SameFile DEF InOrderOn
  <2> QED
    BY <1>1, <2>3, <2>4, SameOrder DEF OrderInv
<1>10. ContentInv'
  <2>1. \A p \in PagesWithRegions \ todo : \A i \in Capped(p) :
          HasContent(It(i)) => Represented(p, i)
    BY DEF ContentInv
  <2>2. \A i : ShownBy(blocks, i) => ShownBy(blocks', i)
    BY <1>8 DEF ShownBy
  <2>3. \A i \in Capped(CurrentPage) \ left' :
          HasContent(It(i)) => ShownBy(blocks', i)
    BY <1>1, <1>8, <2>2 DEF ContentInv
  <2>4. \A i : ShownBy(blocks, i)' <=> ShownBy(blocks', i)
    BY <1>1, SameFile
  <2> QED
    BY <1>1, <1>3, <2>1, <2>3, <2>4, SameFile, SamePages DEF ContentInv
<1>11. MarkdownInv'
  <2>1. \A b \in DOMAIN blocks' : OwnMarkdown(blocks'[b])
    BY <1>8 DEF MarkdownInv
  <2> QED
    BY <1>1, <2>1, SameFile DEF MarkdownInv, OwnMarkdown
<1>12. PixelInv'
  <2>1. It(Current).page = CurrentPage
    BY <1>7 DEF RegionsOf
  <2>2. wanted => CurrentPage \in tried
    BY <1>7 DEF NeedsImage, PixelInv
  <2>3. DeniedOnlyAfterTrying'
    BY <1>1, <2>1, <2>2, SameFile DEF PixelInv, DeniedOnlyAfterTrying
  <2> QED
    BY <1>1, <1>3, <2>3, SameFile DEF PixelInv
<1> QED
  BY <1>5, <1>6, <1>9, <1>10, <1>11, <1>12

-----------------------------------------------------------------------------
(* The other steps                                                         *)

LEMMA ExtractionInit == Init => IInv
<1> SUFFICES ASSUME Init PROVE IInv
  OBVIOUS
<1>1. file \in File /\ options \in Option
  BY ExtractionAssumption DEF Init
<1>2. TypeOK
  <2>1. blocks \in Seq(BlockOf) /\ pages \in Seq([number : Nat, blocks : Seq(BlockOf)])
    BY DEF Init
  <2>2. /\ pc \in {"layout", "page", "region"} \cup Endings /\ todo \subseteq Nat
        /\ image \in BOOLEAN /\ left \subseteq DOMAIN file.items
        /\ tried \subseteq Nat /\ denied \subseteq DOMAIN file.items
    BY DEF Init
  <2> QED
    BY <1>1, <2>1, <2>2 DEF TypeOK
<1>3. PlaceInv /\ OrderInv /\ ContentInv /\ PixelInv /\ MarkdownInv
  BY DEF Init, PlaceInv, OrderInv, ContentInv, PixelInv, DeniedOnlyAfterTrying,
         MarkdownInv
<1> QED
  BY <1>2, <1>3 DEF IInv

(* Only where the work stands changes.                                     *)
LEMMA EndStep ==
  ASSUME IInv, UNCHANGED <<file, options, todo, image, left, blocks, pages, tried, denied>>,
         \/ pc' \in {"invalid", "failed"}
         \/ pc = "page" /\ todo = {} /\ pc' = "done"
  PROVE  IInv'
<1> USE DEF IInv
<1>1. pc' \in {"invalid", "failed", "done"} /\ (pc' = "done" => pc = "page" /\ todo = {})
  OBVIOUS
<1>2. TypeOK'
  BY <1>1, TypesOf, TypesKept DEF TypeOK, Endings
<1>3. PlaceInv'
  BY <1>1, SameFile DEF PlaceInv
<1>4. OrderInv'
  BY <1>1, SameOrder DEF OrderInv
<1>5. ContentInv'
  BY <1>1, SameFile, SamePages DEF ContentInv
<1>6. PixelInv'
  BY <1>1, SameFile DEF PixelInv, DeniedOnlyAfterTrying
<1>7. MarkdownInv'
  BY SameFile DEF MarkdownInv, OwnMarkdown
<1> QED
  BY <1>2, <1>3, <1>4, <1>5, <1>6, <1>7

LEMMA AnalyzeStep ==
  ASSUME IInv, Analyze PROVE IInv'
<1> USE DEF IInv
<1>1. /\ UNCHANGED <<file, options, image, left, blocks, pages, tried, denied>>
      /\ pc = "layout" /\ todo' = PagesWithRegions
      /\ pc' \in {"empty", "page"} /\ (pc' = "empty" <=> PagesWithRegions = {})
  BY DEF Analyze
<1>2. TypeOK'
  BY <1>1, PageNumbers, TypesOf, TypesKept DEF TypeOK, Endings
<1>3. PlaceInv'
  BY <1>1, SameFile DEF PlaceInv
<1>4. pages' = <<>>
  BY <1>1 DEF PlaceInv
<1>5. OrderInv'
  BY <1>1, <1>4 DEF OrderInv
<1>6. ContentInv'
  BY <1>1, SameFile DEF ContentInv
<1>7. MarkdownInv'
  BY <1>1, SameFile DEF MarkdownInv, OwnMarkdown
<1>8. PixelInv'
  BY <1>1, SameFile DEF PixelInv, DeniedOnlyAfterTrying
<1> QED
  BY <1>2, <1>3, <1>5, <1>6, <1>7, <1>8

LEMMA StartPageStep ==
  ASSUME IInv, StartPage PROVE IInv'
<1> USE DEF IInv
<1>1. /\ UNCHANGED <<file, options, todo, pages, denied>>
      /\ pc = "page" /\ pc' = "region"
      /\ todo # {} /\ left' = Capped(CurrentPage) /\ blocks' = <<>>
      /\ image' \in BOOLEAN
      /\ tried' = tried \cup {p \in {CurrentPage} : NeedsImage(left')}
  BY DEF StartPage
<1>2. CurrentPage' = CurrentPage
  BY <1>1, SamePage
<1>3. left' \subseteq DOMAIN file.items
  BY <1>1, ItemsOf, RegionsAreItems
<1>4. TypeOK'
  <2>1. tried' \subseteq Nat /\ denied' \subseteq DOMAIN file.items
    BY <1>1, PageAtHand DEF TypeOK
  <2> QED
    BY <1>1, <1>3, <2>1, TypesOf, TypesKept DEF TypeOK
<1>5. PlaceInv'
  BY <1>1, <1>2, SameFile DEF PlaceInv
<1>6. OrderInv'
  BY <1>1, SameOrder DEF OrderInv, InOrderOn
<1>7. ContentInv'
  BY <1>1, <1>2, SameFile, SamePages DEF ContentInv
<1>8. PixelInv'
  <2>1. NeedsImage(Capped(CurrentPage)) => CurrentPage \in tried'
    BY <1>1
  <2>2. DeniedOnlyAfterTrying'
    BY <1>1, SameFile DEF PixelInv, DeniedOnlyAfterTrying
  <2> QED
    BY <1>1, <1>2, <2>1, <2>2, SameFile DEF PixelInv
<1>9. MarkdownInv'
  BY <1>1, SameFile DEF MarkdownInv, OwnMarkdown
<1> QED
  BY <1>4, <1>5, <1>6, <1>7, <1>8, <1>9

LEMMA FinishPageStep ==
  ASSUME IInv, FinishPage PROVE IInv'
<1> USE DEF IInv
<1> DEFINE response == [number |-> CurrentPage, blocks |-> blocks]
<1>1. /\ UNCHANGED <<file, options, left, tried, denied>>
      /\ pc = "region" /\ pc' = "page"
      /\ left = {} /\ pages' = Append(pages, response)
      /\ todo' = todo \ {CurrentPage} /\ image' = FALSE /\ blocks' = <<>>
  BY DEF FinishPage
<1>2. /\ todo # {} /\ CurrentPage \in todo /\ CurrentPage \in Nat
      /\ \A q \in todo' : CurrentPage < q
  BY <1>1, PageAtHand DEF PlaceInv
<1>3. /\ Len(pages) \in Nat /\ DOMAIN pages = 1 .. Len(pages)
      /\ DOMAIN pages' = 1 .. Len(pages) + 1
      /\ \A n \in 1 .. Len(pages) : pages'[n] = pages[n]
      /\ pages'[Len(pages) + 1].number = CurrentPage
      /\ pages'[Len(pages) + 1].blocks = blocks
  <2>1. pages \in Seq(Response)
    BY TypesOf
  <2> QED
    BY <1>1, <2>1
<1>4. TypeOK'
  <2>1. response \in Response
    BY <1>2, TypesOf DEF Response
  <2>2. pages' \in Seq(Response)
    BY <1>1, <2>1, TypesOf
  <2>3. /\ todo' \subseteq Nat /\ left' \subseteq DOMAIN file.items
        /\ tried' \subseteq Nat /\ denied' \subseteq DOMAIN file.items
    BY <1>1 DEF TypeOK
  <2>4. blocks' \in Seq(BlockOf)
    BY <1>1
  <2> HIDE DEF response
  <2> QED
    BY <1>1, <2>2, <2>3, <2>4, TypesKept
<1>5. PlaceInv'
  BY <1>1, SameFile DEF PlaceInv
<1>6. OrderInv'
  <2>1. \A n \in DOMAIN pages' : /\ \A q \in todo' : pages'[n].number < q
                                 /\ InOrderOn(pages'[n].number, pages'[n].blocks)
    BY <1>1, <1>2, <1>3 DEF OrderInv
  <2>2. \A p, q \in DOMAIN pages' : p < q => pages'[p].number < pages'[q].number
    BY <1>2, <1>3 DEF OrderInv
  <2> QED
    BY <1>1, <2>1, <2>2, SameFile DEF OrderInv, InOrderOn
<1>7. ContentInv'
  <2>1. \A p, i : Represented(p, i) => Represented(p, i)'
    BY <1>1, <1>3, SameFile DEF Represented
  <2>2. \A p, i : p = CurrentPage /\ ShownBy(blocks, i) => Represented(p, i)'
    <3> SUFFICES ASSUME NEW p, NEW i, p = CurrentPage, ShownBy(blocks, i)
                 PROVE  Represented(p, i)'
      OBVIOUS
    <3>1. PICK n \in DOMAIN pages' : pages'[n].number = p /\ pages'[n].blocks = blocks
      BY <1>3
    <3>2. ShownBy(pages[n].blocks, i)'
      BY <1>1, <3>1 DEF ShownBy, StandsFor, It
    <3> QED
      BY <3>1, <3>2 DEF Represented
  <2>3. ASSUME NEW p \in PagesWithRegions \ todo', NEW i \in Capped(p), HasContent(It(i))
        PROVE  Represented(p, i)'
    <3>1. CASE p \in todo
      <4>1. p = CurrentPage
        BY <1>1, <3>1
      <4>2. ShownBy(blocks, i)
        BY <1>1, <2>3, <4>1 DEF ContentInv
      <4> QED
        BY <2>2, <4>1, <4>2
    <3>2. CASE p \notin todo
      <4>1. Represented(p, i)
        BY <1>1, <2>3, <3>2 DEF ContentInv
      <4> QED
        BY <2>1, <4>1
    <3> QED
      BY <3>1, <3>2
  <2> QED
    BY <1>1, <2>3, SameFile DEF ContentInv
<1>8. MarkdownInv'
  BY <1>1, <1>3, SameFile DEF MarkdownInv, OwnMarkdown
<1>9. PixelInv'
  BY <1>1, SameFile DEF PixelInv, DeniedOnlyAfterTrying
<1> QED
  BY <1>4, <1>5, <1>6, <1>7, <1>8, <1>9

LEMMA ProcessTextStep ==
  ASSUME IInv, ProcessText PROVE IInv'
<1> DEFINE it == It(Current)
           wanted == options.ocr_fallback /\ it.text # "long"
           blocksOf(read) == TextBlocks(wanted /\ WorthOcring(it), read)
<1>1. pc = "region" /\ left # {} /\ it.kind \in TextKinds /\ it.kind \in Kinds
  BY DEF ProcessText, Kinds
<1>2. PICK read \in OcrReads(it) : Emit(blocksOf(read), wanted)
  BY DEF ProcessText
<1> DEFINE bs == blocksOf(read)
<1>3. \/ bs = <<>> /\ it.text = "none"
      \/ bs = NewBlock("ocr", FALSE, FALSE) /\ wanted
      \/ bs = NewBlock("native", FALSE, FALSE)
  BY DEF TextBlocks
<1>4. /\ wanted => StandsFor("ocr", it)
      /\ StandsFor("native", it)
  BY <1>1 DEF StandsFor
<1>5. wanted => NeedsImage({Current})
  BY <1>1 DEF NeedsImage
<1>6. it.kind # "table" /\ (HasContent(it) => it.text # "none")
  BY <1>1 DEF HasContent, TextKinds
<1>7. /\ AboutCurrent(NewBlock("ocr", FALSE, FALSE))
      /\ AboutCurrent(NewBlock("native", FALSE, FALSE))
      /\ StandsFor("ocr", it) => ShownBy(NewBlock("ocr", FALSE, FALSE), Current)
      /\ StandsFor("native", it) => ShownBy(NewBlock("native", FALSE, FALSE), Current)
  BY <1>1, <1>6, NewBlockIsAboutCurrent DEF IInv
<1>8. wanted \in BOOLEAN
  BY DEF IInv, TypeOK, Option
<1> HIDE DEF bs, wanted, it
<1>9. AboutCurrent(bs) /\ (it.text # "none" => ShownBy(bs, Current))
  BY <1>3, <1>4, <1>7 DEF AboutCurrent
<1>10. HasContent(It(Current)) => ShownBy(bs, Current)
  BY <1>6, <1>9 DEF it
<1>11. Emit(bs, wanted)
  BY <1>2 DEF bs
<1> QED
  BY <1>1, <1>5, <1>8, <1>9, <1>10, <1>11, EmitStep

LEMMA ProcessTableStep ==
  ASSUME IInv, ProcessTable PROVE IInv'
<1> DEFINE bs == IF options.tables /\ It(Current).cells # <<>>
                 THEN NewBlock("cells", FALSE, FALSE) ELSE <<>>
<1>1. pc = "region" /\ left # {} /\ It(Current).kind = "table" /\ Emit(bs, FALSE)
  BY DEF ProcessTable
<1>2. It(Current).kind \in Kinds /\ StandsFor("cells", It(Current))
  BY <1>1 DEF Kinds, StandsFor
<1>3. /\ AboutCurrent(bs)
      /\ options.tables /\ It(Current).cells # <<>> => ShownBy(bs, Current)
  BY <1>1, <1>2, NewBlockIsAboutCurrent DEF IInv, AboutCurrent
<1>4. HasContent(It(Current)) => ShownBy(bs, Current)
  BY <1>1, <1>3 DEF HasContent, TextKinds
<1> HIDE DEF bs
<1> QED
  BY <1>1, <1>3, <1>4, EmitStep

LEMMA ProcessFigureStep ==
  ASSUME IInv, ProcessFigure PROVE IInv'
<1>1. PICK caption \in Captions(It(Current)), legend \in OcrReads(It(Current)) :
        Emit(IF options.figures THEN NewBlock("marker", caption, legend) ELSE <<>>,
             options.figures)
  BY DEF ProcessFigure
<1> DEFINE bs == IF options.figures THEN NewBlock("marker", caption, legend) ELSE <<>>
<1>2. /\ pc = "region" /\ left # {} /\ It(Current).kind = "figure"
      /\ Emit(bs, options.figures)
  BY <1>1 DEF ProcessFigure
<1>3. caption \in BOOLEAN /\ legend \in BOOLEAN
  BY DEF Captions, OcrReads
<1>4. It(Current).kind \in Kinds /\ StandsFor("marker", It(Current))
  BY <1>2 DEF Kinds, StandsFor
<1>5. AboutCurrent(bs) /\ (options.figures => ShownBy(bs, Current))
  BY <1>2, <1>3, <1>4, NewBlockIsAboutCurrent DEF IInv, AboutCurrent
<1>6. HasContent(It(Current)) => ShownBy(bs, Current)
  BY <1>2, <1>5 DEF HasContent, TextKinds
<1>7. options.figures \in BOOLEAN /\ NeedsImage({Current})
  BY <1>2 DEF IInv, TypeOK, Option, NeedsImage
<1> HIDE DEF bs
<1> QED
  BY <1>2, <1>5, <1>6, <1>7, EmitStep

LEMMA ProcessFormulaStep ==
  ASSUME IInv, ProcessFormula PROVE IInv'
<1>1. PICK latex \in RecognizesLatex(It(Current)) :
        Emit(IF options.formulas /\ latex
             THEN NewBlock("latex", FALSE, FALSE) ELSE <<>>, options.formulas)
  BY DEF ProcessFormula
<1> DEFINE bs == IF options.formulas /\ latex
                 THEN NewBlock("latex", FALSE, FALSE) ELSE <<>>
<1>2. /\ pc = "region" /\ left # {} /\ It(Current).kind = "formula"
      /\ Emit(bs, options.formulas)
  BY <1>1 DEF ProcessFormula
<1>3. It(Current).kind \in Kinds
  BY <1>2 DEF Kinds
<1>4. AboutCurrent(bs)
  BY <1>2, <1>3, NewBlockIsAboutCurrent DEF IInv, AboutCurrent
<1>5. ~ HasContent(It(Current))
  BY <1>2 DEF HasContent, TextKinds
<1>6. options.formulas \in BOOLEAN /\ NeedsImage({Current})
  BY <1>2 DEF IInv, TypeOK, Option, NeedsImage
<1> HIDE DEF bs
<1> QED
  BY <1>2, <1>4, <1>5, <1>6, EmitStep

LEMMA ExtractionStep == IInv /\ [Next]_vars => IInv'
<1> SUFFICES ASSUME IInv, [Next]_vars PROVE IInv'
  OBVIOUS
<1>1. CASE Reject
  BY <1>1, EndStep DEF Reject
<1>2. CASE Fail
  BY <1>2, EndStep DEF Fail
<1>3. CASE Analyze
  BY <1>3, AnalyzeStep
<1>4. CASE StartPage
  BY <1>4, StartPageStep
<1>5. CASE ProcessText
  BY <1>5, ProcessTextStep
<1>6. CASE ProcessTable
  BY <1>6, ProcessTableStep
<1>7. CASE ProcessFigure
  BY <1>7, ProcessFigureStep
<1>8. CASE ProcessFormula
  BY <1>8, ProcessFormulaStep
<1>9. CASE FinishPage
  BY <1>9, FinishPageStep
<1>10. CASE Finish
  BY <1>10, EndStep DEF Finish
<1>11. CASE UNCHANGED vars
  <2>1. UNCHANGED <<file, options, pc, todo, image, left, blocks, pages, tried, denied>>
    BY <1>11 DEF vars
  <2>2. TypeOK'
    BY <2>1, TypesOf, TypesKept DEF IInv, TypeOK
  <2>3. ContentInv' /\ PixelInv'
    BY <2>1, SameFile, SamePage, SamePages
    DEF IInv, ContentInv, PixelInv, DeniedOnlyAfterTrying
  <2> QED
    BY <2>1, <2>2, <2>3, SameFile, SamePage, SameOrder
    DEF IInv, PlaceInv, OrderInv, InOrderOn, MarkdownInv, OwnMarkdown
<1> QED
  BY <1>1, <1>2, <1>3, <1>4, <1>5, <1>6, <1>7, <1>8, <1>9, <1>10, <1>11 DEF Next

LEMMA ExtractionInvariant == Spec => []IInv
  BY ExtractionInit, ExtractionStep, PTL DEF Spec

-----------------------------------------------------------------------------
(* A block is about an item of the file, and carries the Markdown of one   *)
(* of its tables or none.                                                  *)
THEOREM ExtractionTypeCorrect == Spec => []TypeOK
  BY ExtractionInvariant, PTL DEF IInv

(* The chunker gets pages in ascending order and blocks in Docling's       *)
(* reading order, with ordinals that agree.                                *)
THEOREM ReadingOrderIsKept == Spec => []InReadingOrder
<1>1. IInv => InReadingOrder
  <2> SUFFICES ASSUME IInv, NEW p \in DOMAIN pages,
                      NEW m \in DOMAIN pages[p].blocks, NEW n \in DOMAIN pages[p].blocks,
                      m < n
               PROVE  /\ pages[p].blocks[m].item < pages[p].blocks[n].item
                      /\ pages[p].blocks[m].order < pages[p].blocks[n].order
    BY DEF InReadingOrder, IInv, OrderInv
  <2>1. InOrderOn(pages[p].number, pages[p].blocks)
    BY DEF IInv, OrderInv
  <2> QED
    BY <2>1, OrdinalsRise DEF IInv, InOrderOn
<1> QED
  BY <1>1, ExtractionInvariant, PTL

(* A finished document shows every region below the cap that Docling gave  *)
(* content to, whatever failed to render or to be read: with its own text  *)
(* or cells, or what OCR read instead of a short text.                     *)
THEOREM NoContentIsDropped == Spec => []ContentIsShown
<1>1. IInv => ContentIsShown
  <2> SUFFICES ASSUME IInv, pc \in {"done", "empty"}, NEW p \in PagesWithRegions,
                      NEW i \in Capped(p), HasContent(It(i))
               PROVE  Represented(p, i)
    BY DEF ContentIsShown
  <2>1. pc = "done" /\ todo = {}
    BY DEF IInv, ContentInv, PlaceInv
  <2> QED
    BY <2>1 DEF IInv, ContentInv
<1> QED
  BY <1>1, ExtractionInvariant, PTL

(* A region that an engine was wanted for and that had no image is on a    *)
(* page PyMuPDF was asked for: the decision taken before the regions are   *)
(* processed foresees every engine.                                        *)
THEOREM NoEngineIsForgotten == Spec => []DeniedOnlyAfterTrying
  BY ExtractionInvariant, PTL DEF IInv, PixelInv

-----------------------------------------------------------------------------
(* The geometry of a region                                                *)

(* Rounding moves an edge by at most half a pixel.                         *)
LEMMA RoundIsNear ==
    ASSUME NEW v \in Int
    PROVE  /\ Round(v) \in Int
           /\ 12 * Round(v) - v <= 6
           /\ v - 12 * Round(v) <= 6
  BY DEF Round

(* Rounding keeps the order of two edges.                                  *)
LEMMA RoundIsMonotone ==
    ASSUME NEW u \in Int, NEW v \in Int, u <= v
    PROVE  Round(u) <= Round(v)
<1> DEFINE q == u \div 12  r == u % 12  s == v \div 12  t == v % 12
<1>1. /\ q \in Int /\ s \in Int /\ r \in 0 .. 11 /\ t \in 0 .. 11
      /\ u = 12 * q + r /\ v = 12 * s + t
    OBVIOUS
<1>2. q < s \/ (q = s /\ r <= t)
    BY <1>1
<1>3. Round(u) \in {q, q + 1} /\ Round(v) \in {s, s + 1}
    BY DEF Round
<1>4. CASE q < s
    BY <1>1, <1>3, <1>4
<1>5. CASE q = s /\ r <= t
    BY <1>1, <1>5 DEF Round
<1> QED
    BY <1>2, <1>4, <1>5

(* On one axis, edges lo and hi in twelfths of a pixel and a page of n     *)
(* points: a cut that is not empty starts and ends within a pixel of what  *)
(* the page shows of the edges, and an empty one misses a pixel at most.   *)
LEMMA AxisIsNear ==
    ASSUME NEW lo \in Int, NEW hi \in Int, NEW n \in Nat \ {0}, lo <= hi
    PROVE  LET a == Higher(0, Round(lo))
               b == Lower((25 * n + 11) \div 12, Round(hi))
           IN  IF b <= a THEN Within(hi, 25 * n) - Within(lo, 25 * n) <= 12
               ELSE /\ Near(a, Within(lo, 25 * n)) /\ Near(b, Within(hi, 25 * n))
                    /\ a \in 0 .. (25 * n + 11) \div 12
                    /\ b \in 0 .. (25 * n + 11) \div 12
<1>1. PICK i \in Int : i = Round(lo) /\ 12 * i - lo <= 6 /\ lo - 12 * i <= 6
    BY RoundIsNear
<1>2. PICK j \in Int : j = Round(hi) /\ 12 * j - hi <= 6 /\ hi - 12 * j <= 6
    BY RoundIsNear
<1>3. PICK m \in Int : /\ m = (25 * n + 11) \div 12
                       /\ 12 * m >= 25 * n /\ 12 * m <= 25 * n + 11
    OBVIOUS
<1> QED
    BY <1>1, <1>2, <1>3 DEF Higher, Lower, Within, Near

(* On one axis, the cut of the gate and the cut of an engine are the same  *)
(* one, when the first is not empty.                                       *)
LEMMA AxisAgrees ==
    ASSUME NEW i \in Int, NEW j \in Int, NEW m \in Int,
           Within(j, m) - Within(i, m) >= 4
    PROVE  Within(i, m) = Higher(0, i) /\ Within(j, m) = Lower(m, j)
  BY DEF Within, Higher, Lower

LEMMA WithinIsWithin ==
    ASSUME NEW i \in Int, NEW m \in Nat
    PROVE  Within(i, m) \in 0 .. m
  BY DEF Within, Higher, Lower

LEMMA SizeIsNat == ASSUME page \in Page PROVE Width \in Nat /\ Height \in Nat
  BY DEF Page, Width, Height

(* A resolved box is in order.                                             *)
LEMMA ResolvedIsOrdered ==
    ASSUME page \in Page, box \in Box
    PROVE  Resolved \in Rect /\ Resolved.x0 <= Resolved.x1 /\ Resolved.y0 <= Resolved.y1
<1>1. /\ box.l \in Int /\ box.r \in Int
      /\ Converted(box.t) \in Int /\ Converted(box.b) \in Int
    BY DEF Page, Box, Converted, FromTop
<1> QED
    BY <1>1 DEF Resolved, Rect, ToPixels, Lower, Higher

-----------------------------------------------------------------------------
(* How far the box has come.                                               *)
GeometryInv ==
    /\ stage = "found" => bbox = None
    /\ stage \in {"found", "resolved"} => gate = None
    /\ bbox \in {None, Resolved}
    /\ stage \in {"gated", "cropped"} /\ gate # None =>
         gate = GateCrop /\ gate.x1 - gate.x0 >= 4 /\ gate.y1 - gate.y0 >= 4
    /\ stage = "cropped" => crop = IF Empty(EngineCrop) THEN None ELSE EngineCrop

RegionsInv == RegionTypeOK /\ GeometryInv

LEMMA RegionsInit == RegionInit => RegionsInv
<1> SUFFICES ASSUME RegionInit PROVE RegionsInv
    OBVIOUS
<1>1. page \in Page /\ box \in Box
    BY RegionsAssumption DEF RegionInit
<1>2. Width \in Nat /\ Height \in Nat
    BY <1>1, SizeIsNat
<1> QED
    BY <1>1, <1>2 DEF RegionInit, RegionsInv, RegionTypeOK, GeometryInv, None, Rect

LEMMA RegionsStep == RegionsInv /\ [RegionNext]_regionVars => RegionsInv'
<1> SUFFICES ASSUME RegionsInv, [RegionNext]_regionVars PROVE RegionsInv'
    OBVIOUS
<1> USE DEF RegionsInv
<1>1. Width \in Nat /\ Height \in Nat
    BY SizeIsNat DEF RegionTypeOK
<1>2. CASE Resolve
  <2>1. Resolved' = Resolved /\ Width' = Width /\ Height' = Height
      BY <1>2 DEF Resolve, Resolved, Converted, FromTop, Width, Height
  <2>2. RegionTypeOK'
      BY <1>2, <2>1, ResolvedIsOrdered DEF Resolve, RegionTypeOK, None, Rect
  <2>3. GeometryInv'
      BY <1>2, <2>1 DEF Resolve, GeometryInv
  <2> QED
      BY <2>2, <2>3
<1>3. CASE Gate
  <2>1. /\ Resolved' = Resolved /\ Width' = Width /\ Height' = Height
        /\ GateCrop' = GateCrop
      BY <1>3 DEF Gate, Resolved, Converted, FromTop, Width, Height, GateCrop
  <2>2. /\ Round(bbox.x0) \in Int /\ Round(bbox.x1) \in Int
        /\ Round(bbox.y0) \in Int /\ Round(bbox.y1) \in Int
      BY RoundIsNear DEF RegionTypeOK, Rect
  <2>3. GateCrop \in [x0 : 0 .. Width, y0 : 0 .. Height, x1 : 0 .. Width, y1 : 0 .. Height]
      BY <1>1, <2>2, WithinIsWithin DEF GateCrop
  <2>4. RegionTypeOK'
      BY <1>3, <2>1, <2>3 DEF Gate, RegionTypeOK
  <2>5. GeometryInv'
      BY <1>3, <2>1 DEF Gate, GeometryInv
  <2> QED
      BY <2>4, <2>5
<1>4. CASE Crop
  <2>1. /\ Resolved' = Resolved /\ Width' = Width /\ Height' = Height
        /\ GateCrop' = GateCrop /\ EngineCrop' = EngineCrop
      BY <1>4 DEF Crop, Resolved, Converted, FromTop, Width, Height, GateCrop, EngineCrop
  <2>2. ~Empty(EngineCrop) =>
          EngineCrop \in [x0 : 0 .. Width, y0 : 0 .. Height, x1 : 0 .. Width, y1 : 0 .. Height]
    <3>1. bbox \in Rect /\ bbox.x0 <= bbox.x1 /\ bbox.y0 <= bbox.y1 /\ page \in Page
        BY DEF RegionTypeOK
    <3>2. /\ page.w \in Nat \ {0} /\ page.h \in Nat \ {0}
          /\ bbox.x0 \in Int /\ bbox.x1 \in Int /\ bbox.y0 \in Int /\ bbox.y1 \in Int
        BY <3>1 DEF Rect, Page
    <3>3. EngineCrop.x1 > EngineCrop.x0 =>
            EngineCrop.x0 \in 0 .. Width /\ EngineCrop.x1 \in 0 .. Width
      <4>1. /\ Round(bbox.x0) \in Int /\ Round(bbox.x1) \in Int
          BY <3>2, RoundIsNear
      <4> QED
          BY <1>1, <4>1 DEF EngineCrop, Higher, Lower
    <3>4. EngineCrop.y1 > EngineCrop.y0 =>
            EngineCrop.y0 \in 0 .. Height /\ EngineCrop.y1 \in 0 .. Height
      <4>1. /\ Round(bbox.y0) \in Int /\ Round(bbox.y1) \in Int
          BY <3>2, RoundIsNear
      <4> QED
          BY <1>1, <4>1 DEF EngineCrop, Higher, Lower
    <3>5. EngineCrop \in Rect
      <4>1. /\ Round(bbox.x0) \in Int /\ Round(bbox.x1) \in Int
            /\ Round(bbox.y0) \in Int /\ Round(bbox.y1) \in Int
          BY <3>2, RoundIsNear
      <4> QED
          BY <1>1, <4>1 DEF EngineCrop, Rect, Higher, Lower
    <3> QED
        BY <1>1, <3>3, <3>4, <3>5 DEF Empty, Rect
  <2>3. RegionTypeOK'
      BY <1>1, <1>4, <2>1, <2>2 DEF Crop, RegionTypeOK, None
  <2>4. GeometryInv'
      BY <1>4, <2>1 DEF Crop, GeometryInv, Empty
  <2> QED
      BY <2>3, <2>4
<1>5. CASE UNCHANGED regionVars
    BY <1>5 DEF regionVars, RegionTypeOK, GeometryInv, Resolved, Converted, FromTop, Width, Height,
       GateCrop, EngineCrop, Empty
<1> QED
    BY <1>2, <1>3, <1>4, <1>5 DEF RegionNext

LEMMA RegionsInvariant == RegionSpec => []RegionsInv
  BY RegionsInit, RegionsStep, PTL DEF RegionSpec

-----------------------------------------------------------------------------
(* Boxes resolve to rectangles in order, and every cut lies in the image.  *)
THEOREM RegionsTypeCorrect == RegionSpec => []RegionTypeOK
  BY RegionsInvariant, PTL DEF RegionsInv

(* What an engine is given shows the region of the page that Docling       *)
(* found, to the pixel, for every box and every page size.                 *)
THEOREM EnginesSeeTheRegion == RegionSpec => []CropShowsRegion
<1>1. RegionsInv => CropShowsRegion
  <2> SUFFICES ASSUME RegionsInv, stage = "cropped", bbox # None,
                      page.known \/ box.origin = "TOPLEFT"
               PROVE  IF crop = None THEN Right - Left <= 12 \/ Under - Top <= 12
                      ELSE Shows(crop)
      BY DEF CropShowsRegion
  <2>1. /\ page \in Page /\ box \in Box /\ bbox \in Rect
        /\ bbox.x0 <= bbox.x1 /\ bbox.y0 <= bbox.y1
        /\ page.w \in Nat \ {0} /\ page.h \in Nat \ {0}
        /\ bbox.x0 \in Int /\ bbox.x1 \in Int /\ bbox.y0 \in Int /\ bbox.y1 \in Int
      BY DEF RegionsInv, RegionTypeOK, Page, Rect
  <2>2. bbox = Resolved /\ crop = IF Empty(EngineCrop) THEN None ELSE EngineCrop
      BY DEF RegionsInv, GeometryInv
  <2>3. Left = Within(bbox.x0, 25 * page.w) /\ Right = Within(bbox.x1, 25 * page.w)
    <3>1. bbox.x0 = 25 * Lower(box.l, box.r) /\ bbox.x1 = 25 * Higher(box.l, box.r)
        BY <2>1, <2>2 DEF Resolved, ToPixels, Lower, Higher, Box
    <3> QED
        BY <3>1 DEF Left, Right
  <2>4. Top = Within(bbox.y0, 25 * page.h) /\ Under = Within(bbox.y1, 25 * page.h)
    <3>1. /\ Converted(box.t) = FromTop(box.t) /\ FromTop(box.t) \in Int
          /\ Converted(box.b) = FromTop(box.b) /\ FromTop(box.b) \in Int
        BY <2>1 DEF Converted, FromTop, Box
    <3>2. /\ bbox.y0 = 25 * Lower(FromTop(box.t), FromTop(box.b))
          /\ bbox.y1 = 25 * Higher(FromTop(box.t), FromTop(box.b))
        BY <2>2, <3>1 DEF Resolved, ToPixels, Lower, Higher
    <3> QED
        BY <3>2 DEF Top, Under
  <2>5. IF EngineCrop.x1 <= EngineCrop.x0 THEN Right - Left <= 12
        ELSE Near(EngineCrop.x0, Left) /\ Near(EngineCrop.x1, Right)
      BY <2>1, <2>3, AxisIsNear DEF EngineCrop, Width
  <2>6. IF EngineCrop.y1 <= EngineCrop.y0 THEN Under - Top <= 12
        ELSE Near(EngineCrop.y0, Top) /\ Near(EngineCrop.y1, Under)
      BY <2>1, <2>4, AxisIsNear DEF EngineCrop, Height
  <2>7. CASE Empty(EngineCrop)
      BY <2>2, <2>5, <2>6, <2>7 DEF Empty
  <2>8. CASE ~Empty(EngineCrop)
    <3>1. EngineCrop # None
      <4>1. Empty(None)
          BY DEF Empty, None
      <4> QED
          BY <2>8, <4>1
    <3> QED
        BY <2>2, <2>5, <2>6, <2>8, <3>1 DEF Empty, Shows
  <2> QED
      BY <2>7, <2>8
<1> QED
    BY <1>1, RegionsInvariant, PTL

(* OCR reads the pixels whose contrast was measured.                       *)
THEOREM OcrSeesWhatWasGated == RegionSpec => []OcrReadsWhatWasGated
<1>1. RegionsInv => OcrReadsWhatWasGated
  <2> SUFFICES ASSUME RegionsInv, stage = "cropped", gate # None
               PROVE  crop = gate /\ ~Empty(crop)
      BY DEF OcrReadsWhatWasGated
  <2>1. /\ gate = GateCrop /\ gate.x1 - gate.x0 >= 4 /\ gate.y1 - gate.y0 >= 4
        /\ crop = IF Empty(EngineCrop) THEN None ELSE EngineCrop
      BY DEF RegionsInv, GeometryInv
  <2>2. /\ Round(bbox.x0) \in Int /\ Round(bbox.x1) \in Int
        /\ Round(bbox.y0) \in Int /\ Round(bbox.y1) \in Int
      BY RoundIsNear DEF RegionsInv, RegionTypeOK, Rect
  <2>3. Width \in Nat /\ Height \in Nat
      BY SizeIsNat DEF RegionsInv, RegionTypeOK
  <2>4. GateCrop.x0 = EngineCrop.x0 /\ GateCrop.x1 = EngineCrop.x1
      BY <2>1, <2>2, <2>3, AxisAgrees DEF GateCrop, EngineCrop
  <2>5. GateCrop.y0 = EngineCrop.y0 /\ GateCrop.y1 = EngineCrop.y1
      BY <2>1, <2>2, <2>3, AxisAgrees DEF GateCrop, EngineCrop
  <2>6. GateCrop = EngineCrop
      BY <2>4, <2>5 DEF GateCrop, EngineCrop
  <2>7. ~Empty(gate)
    <3>1. gate.x0 \in Int /\ gate.x1 \in Int /\ gate.y0 \in Int /\ gate.y1 \in Int
        BY <2>3 DEF RegionsInv, RegionTypeOK
    <3> QED
        BY <2>1, <3>1 DEF Empty
  <2> QED
      BY <2>1, <2>6, <2>7
<1> QED
    BY <1>1, RegionsInvariant, PTL

-----------------------------------------------------------------------------
(* Joining                                                                 *)

(* The equations that define JoinedBy, for the first n parts.              *)
JoinSteps(j, mark, parts, n) ==
    \A i \in 1 .. n :
        j[i] = IF i = 1 THEN parts[1] ELSE j[i - 1] \o <<mark>> \o parts[i]

LEMMA JoinExists ==
  ASSUME NEW S, NEW mark \in S, NEW parts \in Seq(Seq(S)), parts # <<>>
  PROVE  \E j \in [1 .. Len(parts) -> Seq(S)] : JoinSteps(j, mark, parts, Len(parts))
<1> DEFINE N == {n \in Nat : n <= Len(parts) =>
                   \E j \in [1 .. n -> Seq(S)] : JoinSteps(j, mark, parts, n)}
<1>1. 0 \in N
  <2>1. [i \in 1 .. 0 |-> <<>>] \in [1 .. 0 -> Seq(S)]
    OBVIOUS
  <2>2. JoinSteps([i \in 1 .. 0 |-> <<>>], mark, parts, 0)
    BY DEF JoinSteps
  <2> QED
    BY <2>1, <2>2
<1>2. ASSUME NEW n \in Nat, n \in N PROVE n + 1 \in N
  <2> SUFFICES ASSUME n + 1 <= Len(parts)
               PROVE  \E j \in [1 .. n + 1 -> Seq(S)] : JoinSteps(j, mark, parts, n + 1)
    OBVIOUS
  <2>1. PICK j \in [1 .. n -> Seq(S)] : JoinSteps(j, mark, parts, n)
    BY <1>2
  <2> DEFINE x == IF n = 0 THEN parts[1] ELSE j[n] \o <<mark>> \o parts[n + 1]
             f == [i \in 1 .. n + 1 |-> IF i = n + 1 THEN x ELSE j[i]]
  <2>2. x \in Seq(S)
    <3>1. parts[n + 1] \in Seq(S) /\ parts[1] \in Seq(S) /\ <<mark>> \in Seq(S)
      OBVIOUS
    <3>2. n # 0 => j[n] \in Seq(S)
      OBVIOUS
    <3> QED
      BY <3>1, <3>2
  <2>3. f \in [1 .. n + 1 -> Seq(S)]
    BY <2>2
  <2>4. ASSUME NEW i \in 1 .. n + 1
        PROVE  f[i] = IF i = 1 THEN parts[1] ELSE f[i - 1] \o <<mark>> \o parts[i]
    <3>1. CASE i = n + 1
      <4>1. f[i] = x /\ i - 1 = n /\ (i = 1 <=> n = 0)
        BY <3>1
      <4>2. n # 0 => f[n] = j[n]
        OBVIOUS
      <4> QED
        BY <3>1, <4>1, <4>2
    <3>2. CASE i # n + 1
      <4>1. i \in 1 .. n /\ f[i] = j[i] /\ (i # 1 => f[i - 1] = j[i - 1])
        BY <3>2
      <4>2. j[i] = IF i = 1 THEN parts[1] ELSE j[i - 1] \o <<mark>> \o parts[i]
        BY <2>1, <4>1 DEF JoinSteps
      <4> HIDE DEF f
      <4> QED
        BY <4>1, <4>2
    <3> QED
      BY <3>1, <3>2
  <2>5. JoinSteps(f, mark, parts, n + 1)
    BY <2>4 DEF JoinSteps
  <2> QED
    BY <2>3, <2>5
<1>3. Len(parts) \in Nat
  OBVIOUS
<1> HIDE DEF N
<1>4. Len(parts) \in N
  BY <1>1, <1>2, <1>3, AllNumbers
<1> QED
  BY <1>3, <1>4 DEF N

(* How JoinedBy comes about, part by part.                                 *)
LEMMA JoinedIs ==
  ASSUME NEW S, NEW mark \in S, NEW parts \in Seq(Seq(S)), parts # <<>>
  PROVE  \E j \in [1 .. Len(parts) -> Seq(S)] :
            JoinSteps(j, mark, parts, Len(parts)) /\ JoinedBy(mark, parts) = j[Len(parts)]
<1> DEFINE t == CHOOSE f : f = [n \in 1 .. Len(parts) |->
                  IF n = 1 THEN parts[1] ELSE f[n - 1] \o <<mark>> \o parts[n]]
           N == {n \in Nat : n \in 1 .. Len(parts) => t[n] \in Seq(S)}
<1>1. PICK j \in [1 .. Len(parts) -> Seq(S)] : JoinSteps(j, mark, parts, Len(parts))
  BY JoinExists
<1>2. j = [n \in 1 .. Len(parts) |->
             IF n = 1 THEN parts[1] ELSE j[n - 1] \o <<mark>> \o parts[n]]
  BY <1>1 DEF JoinSteps
<1>3. t = [n \in 1 .. Len(parts) |->
             IF n = 1 THEN parts[1] ELSE t[n - 1] \o <<mark>> \o parts[n]]
  BY <1>2
<1>4. JoinedBy(mark, parts) = t[Len(parts)]
  BY DEF JoinedBy
<1> HIDE DEF t
<1>5. 0 \in N
  OBVIOUS
<1>6. ASSUME NEW n \in Nat, n \in N PROVE n + 1 \in N
  <2> SUFFICES ASSUME n + 1 \in 1 .. Len(parts) PROVE t[n + 1] \in Seq(S)
    OBVIOUS
  <2>1. t[n + 1] = IF n = 0 THEN parts[1] ELSE t[n] \o <<mark>> \o parts[n + 1]
    <3>1. PICK i \in 1 .. Len(parts) : i = n + 1 /\ i - 1 = n /\ (i = 1 <=> n = 0)
      OBVIOUS
    <3>2. t[i] = IF i = 1 THEN parts[1] ELSE t[i - 1] \o <<mark>> \o parts[i]
      BY <1>3
    <3> QED
      BY <3>1, <3>2
  <2>2. parts[n + 1] \in Seq(S) /\ parts[1] \in Seq(S) /\ <<mark>> \in Seq(S)
    OBVIOUS
  <2>3. n # 0 => t[n] \in Seq(S)
    BY <1>6
  <2> QED
    BY <2>1, <2>2, <2>3
<1> HIDE DEF N
<1>7. Nat \subseteq N
  BY <1>5, <1>6, AllNumbers
<1>8. \A n \in 1 .. Len(parts) : t[n] \in Seq(S)
  BY <1>7 DEF N
<1>9. t \in [1 .. Len(parts) -> Seq(S)]
  BY <1>3, <1>8
<1>10. JoinSteps(t, mark, parts, Len(parts))
  BY <1>3 DEF JoinSteps
<1> QED
  BY <1>4, <1>9, <1>10

LEMMA JoinedType ==
  ASSUME NEW S, NEW mark \in S, NEW parts \in Seq(Seq(S)), parts # <<>>
  PROVE  JoinedBy(mark, parts) \in Seq(S)
<1>1. Len(parts) \in 1 .. Len(parts)
  OBVIOUS
<1>2. PICK j \in [1 .. Len(parts) -> Seq(S)] : JoinedBy(mark, parts) = j[Len(parts)]
  BY JoinedIs
<1> QED
  BY <1>1, <1>2

-----------------------------------------------------------------------------
(* Splitting                                                               *)

PartsOf(S) == Seq(Seq(S)) \ {<<>>}

LEMMA TakeType ==
  ASSUME NEW S, NEW p \in PartsOf(S), NEW ch \in S, NEW mark
  PROVE  Take(p, ch, mark) \in PartsOf(S)
<1>1. p \in Seq(Seq(S)) /\ Len(p) \in 1 .. Len(p) /\ p[Len(p)] \in Seq(S)
  BY DEF PartsOf
<1>2. CASE ch = mark
  <2>1. Append(p, <<>>) \in Seq(Seq(S)) /\ Append(p, <<>>) # <<>>
    BY <1>1
  <2> QED
    BY <1>2, <2>1 DEF Take, PartsOf
<1>3. CASE ch # mark
  <2> DEFINE q == [p EXCEPT ![Len(p)] = Append(@, ch)]
  <2>1. Append(p[Len(p)], ch) \in Seq(S)
    BY <1>1
  <2>2. q \in Seq(Seq(S)) /\ q # <<>>
    BY <1>1, <2>1
  <2> QED
    BY <1>3, <2>2 DEF Take, PartsOf
<1> QED
  BY <1>2, <1>3

(* The equations that define Split, for the first n characters.            *)
SplitSteps(f, s, mark, n) ==
    /\ f[0] = <<<<>>>>
    /\ \A i \in 1 .. n : f[i] = Take(f[i - 1], s[i], mark)

LEMMA OnePart == ASSUME NEW S PROVE <<<<>>>> \in PartsOf(S)
  BY DEF PartsOf

LEMMA SplitExists ==
  ASSUME NEW S, NEW mark, NEW s \in Seq(S)
  PROVE  \E f \in [0 .. Len(s) -> PartsOf(S)] : SplitSteps(f, s, mark, Len(s))
<1> DEFINE N == {n \in Nat : n <= Len(s) =>
                   \E f \in [0 .. n -> PartsOf(S)] : SplitSteps(f, s, mark, n)}
<1>1. 0 \in N
  <2> DEFINE g == [i \in 0 .. 0 |-> <<<<>>>>]
  <2>1. g \in [0 .. 0 -> PartsOf(S)]
    BY OnePart
  <2>2. SplitSteps(g, s, mark, 0)
    BY DEF SplitSteps
  <2> QED
    BY <2>1, <2>2
<1>2. ASSUME NEW n \in Nat, n \in N PROVE n + 1 \in N
  <2> SUFFICES ASSUME n + 1 <= Len(s)
               PROVE  \E f \in [0 .. n + 1 -> PartsOf(S)] : SplitSteps(f, s, mark, n + 1)
    OBVIOUS
  <2>1. PICK f \in [0 .. n -> PartsOf(S)] : SplitSteps(f, s, mark, n)
    BY <1>2
  <2> DEFINE x == Take(f[n], s[n + 1], mark)
             g == [i \in 0 .. n + 1 |-> IF i = n + 1 THEN x ELSE f[i]]
  <2>2. x \in PartsOf(S)
    <3>1. s[n + 1] \in S /\ f[n] \in PartsOf(S)
      OBVIOUS
    <3> QED
      BY <3>1, TakeType
  <2>3. g \in [0 .. n + 1 -> PartsOf(S)]
    BY <2>2
  <2>4. g[0] = <<<<>>>>
    BY <2>1 DEF SplitSteps
  <2>5. ASSUME NEW i \in 1 .. n + 1
        PROVE  g[i] = Take(g[i - 1], s[i], mark)
    <3>1. CASE i = n + 1
      <4>1. g[i] = x /\ i - 1 = n /\ g[n] = f[n]
        BY <3>1
      <4> QED
        BY <3>1, <4>1
    <3>2. CASE i # n + 1
      <4>1. i \in 1 .. n /\ g[i] = f[i] /\ g[i - 1] = f[i - 1]
        BY <3>2
      <4> QED
        BY <2>1, <4>1 DEF SplitSteps
    <3> QED
      BY <3>1, <3>2
  <2> HIDE DEF g
  <2>6. SplitSteps(g, s, mark, n + 1)
    BY <2>4, <2>5 DEF SplitSteps
  <2> QED
    BY <2>3, <2>6
<1>3. Len(s) \in Nat
  OBVIOUS
<1> HIDE DEF N
<1>4. Len(s) \in N
  BY <1>1, <1>2, <1>3, AllNumbers
<1> QED
  BY <1>3, <1>4 DEF N

(* How Split comes about, character by character.                          *)
LEMMA SplitIs ==
  ASSUME NEW S, NEW mark, NEW s \in Seq(S)
  PROVE  \E f \in [0 .. Len(s) -> PartsOf(S)] :
            SplitSteps(f, s, mark, Len(s)) /\ Split(s, mark) = f[Len(s)]
<1> DEFINE t == CHOOSE g : g = [n \in 0 .. Len(s) |->
                  IF n = 0 THEN <<<<>>>> ELSE Take(g[n - 1], s[n], mark)]
           N == {n \in Nat : n \in 0 .. Len(s) => t[n] \in PartsOf(S)}
<1>1. PICK f \in [0 .. Len(s) -> PartsOf(S)] : SplitSteps(f, s, mark, Len(s))
  BY SplitExists
<1>2. f = [n \in 0 .. Len(s) |->
             IF n = 0 THEN <<<<>>>> ELSE Take(f[n - 1], s[n], mark)]
  <2>1. \A n \in 0 .. Len(s) :
          f[n] = IF n = 0 THEN <<<<>>>> ELSE Take(f[n - 1], s[n], mark)
    <3>1. \A n \in 0 .. Len(s) : n # 0 => n \in 1 .. Len(s)
      OBVIOUS
    <3> QED
      BY <1>1, <3>1 DEF SplitSteps
  <2> QED
    BY <2>1
<1>3. t = [n \in 0 .. Len(s) |->
             IF n = 0 THEN <<<<>>>> ELSE Take(t[n - 1], s[n], mark)]
  BY <1>2
<1>4. Split(s, mark) = t[Len(s)]
  BY DEF Split
<1> HIDE DEF t
<1>5. 0 \in N
  BY <1>3, OnePart
<1>6. ASSUME NEW n \in Nat, n \in N PROVE n + 1 \in N
  <2> SUFFICES ASSUME n + 1 \in 0 .. Len(s) PROVE t[n + 1] \in PartsOf(S)
    OBVIOUS
  <2>1. t[n + 1] = Take(t[n], s[n + 1], mark)
    <3>1. PICK i \in 0 .. Len(s) : i = n + 1 /\ i - 1 = n /\ i # 0
      OBVIOUS
    <3>2. t[i] = Take(t[i - 1], s[i], mark)
      BY <1>3, <3>1
    <3> QED
      BY <3>1, <3>2
  <2>2. t[n] \in PartsOf(S) /\ s[n + 1] \in S
    BY <1>6
  <2> QED
    BY <2>1, <2>2, TakeType
<1> HIDE DEF N
<1>7. Nat \subseteq N
  BY <1>5, <1>6, AllNumbers
<1>8. \A n \in 0 .. Len(s) : t[n] \in PartsOf(S)
  BY <1>7 DEF N
<1>9. t \in [0 .. Len(s) -> PartsOf(S)]
  BY <1>3, <1>8
<1>10. SplitSteps(t, s, mark, Len(s))
  BY <1>3 DEF SplitSteps
<1> QED
  BY <1>4, <1>9, <1>10

LEMMA SplitType ==
  ASSUME NEW S, NEW mark, NEW s \in Seq(S)
  PROVE  Split(s, mark) \in PartsOf(S)
<1>1. PICK f \in [0 .. Len(s) -> PartsOf(S)] : Split(s, mark) = f[Len(s)]
  BY SplitIs
<1> QED
  BY <1>1

LEMMA SplitEmpty ==
  ASSUME NEW S, NEW mark, NEW s \in Seq(S)
  PROVE  Len(s) = 0 => Split(s, mark) = <<<<>>>>
<1>1. PICK f \in [0 .. Len(s) -> PartsOf(S)] :
        SplitSteps(f, s, mark, Len(s)) /\ Split(s, mark) = f[Len(s)]
  BY SplitIs
<1> QED
  BY <1>1 DEF SplitSteps

LEMMA SplitNothing ==
  ASSUME NEW mark
  PROVE  Split(<<>>, mark) = <<<<>>>>
<1>1. <<>> \in Seq({}) /\ Len(<<>>) = 0
  OBVIOUS
<1> QED
  BY <1>1, SplitEmpty

(* The reader takes one more character.                                    *)
LEMMA SplitOneMore ==
  ASSUME NEW S, NEW mark, NEW s \in Seq(S), NEW c \in S
  PROVE  Split(Append(s, c), mark) = Take(Split(s, mark), c, mark)
<1> DEFINE t == Append(s, c)
<1>1. /\ t \in Seq(S) /\ Len(t) = Len(s) + 1 /\ t[Len(s) + 1] = c
      /\ \A i \in 1 .. Len(s) : t[i] = s[i]
      /\ Len(s) \in Nat
  OBVIOUS
<1> HIDE DEF t
<1>2. PICK f \in [0 .. Len(s) -> PartsOf(S)] :
        SplitSteps(f, s, mark, Len(s)) /\ Split(s, mark) = f[Len(s)]
  BY SplitIs
<1>3. PICK g \in [0 .. Len(t) -> PartsOf(S)] :
        SplitSteps(g, t, mark, Len(t)) /\ Split(t, mark) = g[Len(t)]
  BY <1>1, SplitIs
<1> DEFINE N == {n \in Nat : n \in 0 .. Len(s) => g[n] = f[n]}
<1>4. 0 \in N
  BY <1>2, <1>3 DEF SplitSteps
<1>5. ASSUME NEW n \in Nat, n \in N PROVE n + 1 \in N
  <2> SUFFICES ASSUME n + 1 \in 0 .. Len(s) PROVE g[n + 1] = f[n + 1]
    OBVIOUS
  <2>1. PICK i \in 1 .. Len(s) : i = n + 1 /\ i - 1 = n
    OBVIOUS
  <2>2. f[i] = Take(f[i - 1], s[i], mark)
    BY <1>2 DEF SplitSteps
  <2>3. g[i] = Take(g[i - 1], t[i], mark)
    BY <1>1, <1>3 DEF SplitSteps
  <2>4. g[n] = f[n]
    BY <1>5
  <2> QED
    BY <1>1, <2>1, <2>2, <2>3, <2>4
<1> HIDE DEF N
<1>6. Len(s) \in N
  BY <1>1, <1>4, <1>5, AllNumbers
<1>7. g[Len(s)] = f[Len(s)]
  BY <1>1, <1>6 DEF N
<1>8. g[Len(t)] = Take(g[Len(s)], c, mark)
  <2>1. PICK i \in 1 .. Len(t) : i = Len(t) /\ i - 1 = Len(s)
    BY <1>1
  <2>2. g[i] = Take(g[i - 1], t[i], mark)
    BY <1>3 DEF SplitSteps
  <2> QED
    BY <1>1, <2>1, <2>2
<1> QED
  BY <1>2, <1>3, <1>7, <1>8 DEF t

(* The prefixes of a sequence.                                             *)
LEMMA PrefixGrows ==
  ASSUME NEW S, NEW s \in Seq(S), NEW n \in Nat, n + 1 <= Len(s)
  PROVE  /\ SubSeq(s, 1, n) \in Seq(S)
         /\ SubSeq(s, 1, n + 1) = Append(SubSeq(s, 1, n), s[n + 1])
<1>1. Len(s) \in Nat /\ s[n + 1] \in S
  OBVIOUS
<1>2. \A i \in 1 .. n : s[i] \in S
  BY <1>1
<1>3. SubSeq(s, 1, n) \in Seq(S)
  BY <1>2, SubSeqProperties
<1>4. PICK m \in 1 .. Len(s) : m = n + 1 /\ m - 1 = n
  BY <1>1
<1>5. 1 \in 1 .. Len(s) /\ m \in 1 .. Len(s)
  BY <1>1, <1>4
<1>6. SubSeq(s, 1, m) = SubSeq(s, 1, m - 1) \o <<s[m]>>
  BY <1>5, SubSeqRecursiveSecond
<1> DEFINE u == SubSeq(s, 1, n)
<1>7. ASSUME NEW v \in Seq(S), NEW c \in S PROVE v \o <<c>> = Append(v, c)
  OBVIOUS
<1> QED
  BY <1>1, <1>3, <1>4, <1>6, <1>7

LEMMA ConcatAppend ==
  ASSUME NEW S, NEW s \in Seq(S), NEW t \in Seq(S), NEW c \in S
  PROVE  s \o Append(t, c) = Append(s \o t, c)
<1>1. ASSUME NEW v \in Seq(S) PROVE v \o <<c>> = Append(v, c)
  OBVIOUS
<1>2. s \o t \in Seq(S) /\ <<c>> \in Seq(S)
  OBVIOUS
<1>3. (s \o t) \o <<c>> = s \o (t \o <<c>>)
  BY <1>2, ConcatAssociative
<1> QED
  BY <1>1, <1>2, <1>3

(* The last part goes on with t.                                           *)
Extended(p, t) == [p EXCEPT ![Len(p)] = @ \o t]

LEMMA TakeExtends ==
  ASSUME NEW S, NEW p \in PartsOf(S), NEW t \in Seq(S), NEW c \in S, NEW mark, c # mark
  PROVE  Take(Extended(p, t), c, mark) = Extended(p, Append(t, c))
<1>1. p \in Seq(Seq(S)) /\ Len(p) \in 1 .. Len(p) /\ p[Len(p)] \in Seq(S)
  BY DEF PartsOf
<1> DEFINE q == [p EXCEPT ![Len(p)] = p[Len(p)] \o t]
<1>2. /\ Extended(p, t) = q
      /\ Extended(p, Append(t, c)) = [p EXCEPT ![Len(p)] = p[Len(p)] \o Append(t, c)]
  BY DEF Extended
<1>3. p[Len(p)] \o t \in Seq(S) /\ p[Len(p)] \o Append(t, c) = Append(p[Len(p)] \o t, c)
  <2>1. \A x \in Seq(S) : x \o t \in Seq(S) /\ x \o Append(t, c) = Append(x \o t, c)
    BY ConcatAppend
  <2> QED
    BY <1>1, <2>1
<1>4. /\ q \in Seq(Seq(S)) /\ Len(q) = Len(p) /\ q[Len(p)] = p[Len(p)] \o t
      /\ DOMAIN q = DOMAIN p
      /\ \A i \in DOMAIN p : i # Len(p) => q[i] = p[i]
  BY <1>1, <1>3
<1>5. Take(q, c, mark) = [q EXCEPT ![Len(p)] = Append(q[Len(p)], c)]
  BY <1>4 DEF Take
<1>6. Take(q, c, mark) = [p EXCEPT ![Len(p)] = Append(p[Len(p)] \o t, c)]
  BY <1>4, <1>5
<1> QED
  BY <1>2, <1>3, <1>6

LEMMA ExtendedByNothing ==
  ASSUME NEW S, NEW p \in PartsOf(S)
  PROVE  Extended(p, <<>>) = p
<1>1. p \in Seq(Seq(S)) /\ Len(p) \in 1 .. Len(p) /\ p[Len(p)] \in Seq(S)
  BY DEF PartsOf
<1>2. p[Len(p)] \o <<>> = p[Len(p)]
  BY <1>1, ConcatEmptySeq
<1> QED
  BY <1>1, <1>2 DEF Extended

(* Without a mark, nothing begins.                                         *)
LEMMA SplitGoesOn ==
  ASSUME NEW S, NEW mark, NEW s \in Seq(S), NEW t \in Seq(S \ {mark})
  PROVE  Split(s \o t, mark) = Extended(Split(s, mark), t)
<1>1. t \in Seq(S) /\ Len(t) \in Nat /\ \A i \in 1 .. Len(t) : t[i] \in S /\ t[i] # mark
  OBVIOUS
<1>2. Split(s, mark) \in PartsOf(S)
  BY SplitType
<1> DEFINE N == {n \in Nat : n <= Len(t) =>
                   Split(s \o SubSeq(t, 1, n), mark) = Extended(Split(s, mark), SubSeq(t, 1, n))}
<1>3. 0 \in N
  <2>1. SubSeq(t, 1, 0) = <<>>
    BY SubSeqEmpty
  <2>2. s \o <<>> = s
    BY ConcatEmptySeq
  <2> QED
    BY <1>2, <2>1, <2>2, ExtendedByNothing
<1>4. ASSUME NEW n \in Nat, n \in N PROVE n + 1 \in N
  <2> SUFFICES ASSUME n + 1 <= Len(t)
               PROVE  Split(s \o SubSeq(t, 1, n + 1), mark)
                        = Extended(Split(s, mark), SubSeq(t, 1, n + 1))
    OBVIOUS
  <2> DEFINE u == SubSeq(t, 1, n)
             c == t[n + 1]
  <2>1. n <= Len(t) /\ c \in S /\ c # mark
    BY <1>1
  <2>2. u \in Seq(S) /\ SubSeq(t, 1, n + 1) = Append(u, c)
    BY <1>1, PrefixGrows
  <2>3. Split(s \o u, mark) = Extended(Split(s, mark), u)
    BY <1>4, <2>1
  <2> HIDE DEF u, c
  <2>4. s \o Append(u, c) = Append(s \o u, c) /\ s \o u \in Seq(S)
    BY <2>1, <2>2, ConcatAppend
  <2>5. Split(Append(s \o u, c), mark) = Take(Split(s \o u, mark), c, mark)
    BY <2>1, <2>4, SplitOneMore
  <2>6. Take(Extended(Split(s, mark), u), c, mark) = Extended(Split(s, mark), Append(u, c))
    BY <1>2, <2>1, <2>2, TakeExtends
  <2> QED
    BY <2>2, <2>3, <2>4, <2>5, <2>6
<1> HIDE DEF N
<1>5. Len(t) \in N
  BY <1>1, <1>3, <1>4, AllNumbers
<1>6. SubSeq(t, 1, Len(t)) = t
  BY <1>1, SubSeqFull
<1>7. Split(s \o SubSeq(t, 1, Len(t)), mark) = Extended(Split(s, mark), SubSeq(t, 1, Len(t)))
  BY <1>1, <1>5 DEF N
<1> QED
  BY <1>6, <1>7, Zenon

(* A mark ends a part, and what follows up to the next one is a part.      *)
LEMMA SplitAtMark ==
  ASSUME NEW S, NEW mark \in S, NEW s \in Seq(S), NEW t \in Seq(S \ {mark})
  PROVE  Split(s \o <<mark>> \o t, mark) = Append(Split(s, mark), t)
<1> DEFINE p == Split(s, mark)
           q == Append(p, <<>>)
<1>1. p \in PartsOf(S) /\ t \in Seq(S)
  BY SplitType
<1>2. s \o <<mark>> = Append(s, mark) /\ Append(s, mark) \in Seq(S)
  OBVIOUS
<1>3. Split(s \o <<mark>>, mark) = q
  BY <1>2, SplitOneMore DEF Take
<1>4. Split((s \o <<mark>>) \o t, mark) = Extended(q, t)
  <2> DEFINE u == s \o <<mark>>
  <2>1. u \in Seq(S)
    BY <1>2
  <2> HIDE DEF u
  <2>2. Split(u \o t, mark) = Extended(Split(u, mark), t)
    BY <2>1, SplitGoesOn
  <2> USE DEF u
  <2> HIDE DEF q
  <2> QED
    BY <1>3, <2>2, Zenon
<1>5. Extended(q, t) = Append(p, t)
  <2> HIDE DEF p
  <2>1. p \in Seq(Seq(S)) /\ Len(p) \in Nat
    BY <1>1 DEF PartsOf
  <2>2. q \in Seq(Seq(S)) /\ Len(q) = Len(p) + 1 /\ q[Len(p) + 1] = <<>>
        /\ \A i \in 1 .. Len(p) : q[i] = p[i]
    BY <2>1
  <2>3. <<>> \o t = t
    BY <1>1, ConcatEmptySeq
  <2>4. Extended(q, t) = [q EXCEPT ![Len(p) + 1] = t]
    BY <2>2, <2>3 DEF Extended
  <2>5. Append(p, t) \in Seq(Seq(S)) /\ Len(Append(p, t)) = Len(p) + 1
        /\ Append(p, t)[Len(p) + 1] = t
        /\ \A i \in 1 .. Len(p) : Append(p, t)[i] = p[i]
    BY <1>1, <2>1
  <2> HIDE DEF q
  <2>6. /\ [q EXCEPT ![Len(p) + 1] = t] \in Seq(Seq(S))
        /\ Len([q EXCEPT ![Len(p) + 1] = t]) = Len(p) + 1
        /\ \A i \in 1 .. Len(p) + 1 :
             [q EXCEPT ![Len(p) + 1] = t][i] = Append(p, t)[i]
    BY <1>1, <2>1, <2>2, <2>5
  <2>7. [q EXCEPT ![Len(p) + 1] = t] = Append(p, t)
    BY <2>5, <2>6, SeqEqual
  <2> QED
    BY <2>4, <2>7
<1> HIDE DEF p, q
<1> QED
  BY <1>4, <1>5 DEF p

(* Splitting undoes joining, of parts that do not hold the mark.           *)
LEMMA SplitUndoesJoin ==
  ASSUME NEW S, NEW mark \in S, NEW parts \in Seq(Seq(S \ {mark})), parts # <<>>
  PROVE  Split(JoinedBy(mark, parts), mark) = parts
<1>1. /\ Len(parts) \in Nat /\ Len(parts) \in 1 .. Len(parts)
      /\ \A n \in 1 .. Len(parts) : parts[n] \in Seq(S \ {mark})
  OBVIOUS
<1>2. Seq(S \ {mark}) \subseteq Seq(S)
  OBVIOUS
<1>3. parts \in Seq(Seq(S))
  BY <1>2, SeqMonotonic
<1>4. PICK j \in [1 .. Len(parts) -> Seq(S)] :
        JoinSteps(j, mark, parts, Len(parts)) /\ JoinedBy(mark, parts) = j[Len(parts)]
  BY <1>3, JoinedIs
<1> DEFINE N == {n \in Nat : n \in 1 .. Len(parts) =>
                                Split(j[n], mark) = SubSeq(parts, 1, n)}
<1>5. 0 \in N
  OBVIOUS
<1>6. ASSUME NEW n \in Nat, n \in N PROVE n + 1 \in N
  <2> SUFFICES ASSUME n + 1 \in 1 .. Len(parts)
               PROVE  Split(j[n + 1], mark) = SubSeq(parts, 1, n + 1)
    OBVIOUS
  <2> DEFINE t == parts[n + 1]
  <2>1. t \in Seq(S \ {mark})
    BY <1>1
  <2>2. /\ SubSeq(parts, 1, n) \in Seq(Seq(S))
        /\ SubSeq(parts, 1, n + 1) = Append(SubSeq(parts, 1, n), t)
    <3>1. n + 1 <= Len(parts)
      OBVIOUS
    <3> QED
      BY <1>3, <3>1, PrefixGrows
  <2>3. j[n + 1] = IF n = 0 THEN t ELSE j[n] \o <<mark>> \o t
    <3>1. PICK i \in 1 .. Len(parts) : i = n + 1 /\ i - 1 = n /\ (i = 1 <=> n = 0)
      OBVIOUS
    <3>2. j[i] = IF i = 1 THEN parts[1] ELSE j[i - 1] \o <<mark>> \o parts[i]
      BY <1>4 DEF JoinSteps
    <3> QED
      BY <3>1, <3>2
  <2> HIDE DEF t
  <2>4. CASE n = 0
    <3>1. j[n + 1] = t
      BY <2>3, <2>4
    <3>2. <<>> \in Seq(S) /\ <<>> \o t = t
      BY <2>1, ConcatEmptySeq
    <3>3. \A z \in Seq(S) : Split(z \o t, mark) = Extended(Split(z, mark), t)
      BY <2>1, SplitGoesOn
    <3>4. Split(t, mark) = Extended(<<<<>>>>, t)
      BY <3>2, <3>3, SplitNothing, Zenon
    <3>5. Extended(<<<<>>>>, t) = <<t>>
      <4> DEFINE p == <<<<>>>>
      <4>1. Len(p) = 1 /\ p[1] = <<>> /\ DOMAIN p = {1}
        OBVIOUS
      <4> HIDE DEF p
      <4>2. Extended(p, t) = [p EXCEPT ![1] = t]
        BY <3>2, <4>1 DEF Extended
      <4>3. [p EXCEPT ![1] = t] = <<t>>
        BY DEF p
      <4> QED
        BY <4>2, <4>3 DEF p
    <3>6. SubSeq(parts, 1, n) = <<>>
      BY <2>4, SubSeqEmpty
    <3>7. Append(<<>>, t) = <<t>>
      OBVIOUS
    <3> QED
      BY <2>2, <3>1, <3>4, <3>5, <3>6, <3>7, Zenon
  <2>5. CASE n # 0
    <3>1. n \in 1 .. Len(parts)
      BY <2>5
    <3>2. Split(j[n], mark) = SubSeq(parts, 1, n) /\ j[n] \in Seq(S)
      BY <1>6, <3>1
    <3>3. j[n + 1] = j[n] \o <<mark>> \o t
      BY <2>3, <2>5
    <3>4. Split(j[n] \o <<mark>> \o t, mark) = Append(Split(j[n], mark), t)
      BY <2>1, <3>2, SplitAtMark
    <3> QED
      BY <2>2, <3>2, <3>3, <3>4, Zenon
  <2> QED
    BY <2>4, <2>5
<1> HIDE DEF N
<1>7. Len(parts) \in N
  BY <1>1, <1>5, <1>6, AllNumbers
<1>8. Split(j[Len(parts)], mark) = SubSeq(parts, 1, Len(parts))
  BY <1>1, <1>7 DEF N
<1>9. SubSeq(parts, 1, Len(parts)) = parts
  BY SubSeqFull
<1> QED
  BY <1>4, <1>8, <1>9, Zenon

(* Of a text that goes on, the parts that were complete stay.              *)
Keeps(p, q) == Len(p) <= Len(q) /\ \A k \in 1 .. Len(p) - 1 : q[k] = p[k]

LEMMA TakeKeeps ==
  ASSUME NEW S, NEW p \in PartsOf(S), NEW q \in PartsOf(S), Keeps(p, q),
         NEW c \in S, NEW mark
  PROVE  Keeps(p, Take(q, c, mark))
<1>1. /\ p \in Seq(Seq(S)) /\ Len(p) \in Nat
      /\ q \in Seq(Seq(S)) /\ Len(q) \in 1 .. Len(q)
  BY DEF PartsOf
<1>2. CASE c = mark
  <2>1. /\ Len(Append(q, <<>>)) = Len(q) + 1
        /\ \A k \in 1 .. Len(q) : Append(q, <<>>)[k] = q[k]
    BY <1>1
  <2> QED
    BY <1>1, <1>2, <2>1 DEF Keeps, Take
<1>3. CASE c # mark
  <2> DEFINE r == [q EXCEPT ![Len(q)] = Append(@, c)]
  <2>1. Len(r) = Len(q) /\ \A k \in 1 .. Len(q) - 1 : r[k] = q[k]
    <3>1. Append(q[Len(q)], c) \in Seq(S)
      BY <1>1
    <3> QED
      BY <1>1, <3>1, ExceptSeq
  <2> HIDE DEF r
  <2>2. Keeps(p, r)
    <3>1. Len(p) <= Len(q) /\ \A k \in 1 .. Len(p) - 1 : q[k] = p[k]
      BY DEF Keeps
    <3>2. Len(p) <= Len(r)
      BY <2>1, <3>1
    <3>3. ASSUME NEW k \in 1 .. Len(p) - 1 PROVE r[k] = p[k]
      <4>1. k \in 1 .. Len(q) - 1
        BY <1>1, <3>1
      <4> QED
        BY <2>1, <3>1, <4>1
    <3> QED
      BY <3>2, <3>3 DEF Keeps
  <2> QED
    BY <1>3, <2>2 DEF Take, r
<1> QED
  BY <1>2, <1>3

LEMMA PrefixKeeps ==
  ASSUME NEW S, NEW mark, NEW s \in Seq(S), NEW m \in Nat, m <= Len(s)
  PROVE  Keeps(Split(SubSeq(s, 1, m), mark), Split(s, mark))
<1> DEFINE p == Split(SubSeq(s, 1, m), mark)
           N == {n \in Nat : m + n <= Len(s) =>
                               Keeps(p, Split(SubSeq(s, 1, m + n), mark))}
<1>1. \A n \in Nat : n <= Len(s) => SubSeq(s, 1, n) \in Seq(S)
  <2> SUFFICES ASSUME NEW n \in Nat, n <= Len(s) PROVE SubSeq(s, 1, n) \in Seq(S)
    OBVIOUS
  <2>1. \A i \in 1 .. n : s[i] \in S
    OBVIOUS
  <2> QED
    BY <2>1, SubSeqProperties
<1>2. p \in PartsOf(S) /\ Keeps(p, p)
  <2>1. p \in PartsOf(S)
    BY <1>1, SplitType
  <2> HIDE DEF p
  <2>2. Len(p) \in Nat
    BY <2>1 DEF PartsOf
  <2> QED
    BY <2>1, <2>2 DEF Keeps
<1>3. 0 \in N
  BY <1>2
<1> HIDE DEF p
<1>4. ASSUME NEW n \in Nat, n \in N PROVE n + 1 \in N
  <2> SUFFICES ASSUME m + n + 1 <= Len(s)
               PROVE  Keeps(p, Split(SubSeq(s, 1, m + n + 1), mark))
    OBVIOUS
  <2> DEFINE u == SubSeq(s, 1, m + n)
             c == s[m + n + 1]
  <2>1. u \in Seq(S) /\ SubSeq(s, 1, m + n + 1) = Append(u, c) /\ c \in S
    <3>1. PICK k \in Nat : k = m + n /\ k + 1 <= Len(s) /\ m + n + 1 = k + 1
      OBVIOUS
    <3> QED
      BY <3>1, PrefixGrows
  <2>2. Keeps(p, Split(u, mark))
    BY <1>4
  <2> HIDE DEF u, c
  <2>3. Split(u, mark) \in PartsOf(S)
    BY <2>1, SplitType
  <2>4. Split(Append(u, c), mark) = Take(Split(u, mark), c, mark)
    BY <2>1, SplitOneMore
  <2> QED
    BY <1>2, <2>1, <2>2, <2>3, <2>4, TakeKeeps
<1>5. Len(s) - m \in Nat /\ m + (Len(s) - m) = Len(s)
  OBVIOUS
<1> HIDE DEF N
<1>6. Len(s) - m \in N
  BY <1>3, <1>4, <1>5, AllNumbers
<1>7. Keeps(p, Split(SubSeq(s, 1, m + (Len(s) - m)), mark))
  BY <1>5, <1>6 DEF N
<1>8. SubSeq(s, 1, m + (Len(s) - m)) = s
  BY <1>5, SubSeqFull
<1> QED
  BY <1>7, <1>8, Zenon DEF p

-----------------------------------------------------------------------------
(* The grid                                                                *)

LEMMA GreatestOne ==
  ASSUME NEW S, S \subseteq Nat, S # {}, NEW b \in Nat, \A y \in S : y <= b
  PROVE  Max(S) \in S /\ \A y \in S : y <= Max(S)
<1> DEFINE U == {u \in Nat : \A y \in S : y <= u}
           m == Min(U)
<1>1. U \subseteq Nat /\ U # {}
  OBVIOUS
<1> HIDE DEF U
<1>2. m \in U /\ \A u \in U : m <= u
  BY <1>1, LeastOne
<1> HIDE DEF m
<1> USE DEF U
<1>3. m \in Nat /\ \A y \in S : y <= m
  BY <1>2
<1>4. m \in S
  <2> SUFFICES ASSUME m \notin S PROVE FALSE
    OBVIOUS
  <2>1. \A y \in S : y <= m - 1 /\ m - 1 \in Nat
    BY <1>3
  <2>2. m - 1 \in U
    BY <2>1
  <2> QED
    BY <1>2, <1>3, <2>2
<1>5. \A y \in S : m >= y
  BY <1>3
<1> QED
  BY <1>3, <1>4, <1>5 DEF Max

LEMMA BoundExists ==
  ASSUME NEW n \in Nat, NEW f \in [1 .. n -> Nat]
  PROVE  \E b \in Nat : \A i \in 1 .. n : f[i] <= b
<1> DEFINE N == {k \in Nat : k <= n => \E b \in Nat : \A i \in 1 .. k : f[i] <= b}
<1>1. 0 \in N
  <2>1. \A i \in 1 .. 0 : f[i] <= 0
    OBVIOUS
  <2> QED
    BY <2>1
<1>2. ASSUME NEW k \in Nat, k \in N PROVE k + 1 \in N
  <2> SUFFICES ASSUME k + 1 <= n PROVE \E b \in Nat : \A i \in 1 .. k + 1 : f[i] <= b
    OBVIOUS
  <2>1. PICK b \in Nat : \A i \in 1 .. k : f[i] <= b
    BY <1>2
  <2>2. f[k + 1] \in Nat
    OBVIOUS
  <2> DEFINE d == IF f[k + 1] <= b THEN b ELSE f[k + 1]
  <2>3. d \in Nat /\ \A i \in 1 .. k + 1 : f[i] <= d
    BY <2>1, <2>2
  <2> QED
    BY <2>3
<1> HIDE DEF N
<1>3. n \in N
  BY <1>1, <1>2, AllNumbers
<1> QED
  BY <1>3 DEF N

LEMMA CellsOfTable ==
  ASSUME NEW cells \in Seq(Cell)
  PROVE  /\ Len(cells) \in Nat /\ DOMAIN cells = 1 .. Len(cells)
         /\ \A i \in 1 .. Len(cells) :
              /\ cells[i].top \in Nat /\ cells[i].bottom \in Nat \ {0}
              /\ cells[i].left \in Nat /\ cells[i].right \in Nat \ {0}
              /\ cells[i].text \in Seq(Char)
<1>1. \A i \in 1 .. Len(cells) : cells[i] \in Cell
  OBVIOUS
<1>2. ASSUME NEW c \in Cell
      PROVE  /\ c.top \in Nat /\ c.bottom \in Nat \ {0}
             /\ c.left \in Nat /\ c.right \in Nat \ {0}
             /\ c.text \in Seq(Char)
  BY DEF Cell
<1> QED
  BY <1>1, <1>2

LEMMA GridSize ==
  ASSUME NEW cells \in Seq(Cell), cells # <<>>
  PROVE  Rows(cells) \in Nat \ {0} /\ Columns(cells) \in Nat \ {0}
<1>1. /\ Len(cells) \in Nat /\ DOMAIN cells = 1 .. Len(cells)
      /\ \A i \in 1 .. Len(cells) : /\ cells[i].bottom \in Nat \ {0}
                                   /\ cells[i].right \in Nat \ {0}
      /\ 1 \in 1 .. Len(cells)
  BY CellsOfTable
<1> DEFINE f == [i \in 1 .. Len(cells) |-> cells[i].bottom]
           g == [i \in 1 .. Len(cells) |-> cells[i].right]
<1>2. f \in [1 .. Len(cells) -> Nat] /\ g \in [1 .. Len(cells) -> Nat]
  BY <1>1
<1>3. PICK b \in Nat : \A i \in 1 .. Len(cells) : f[i] <= b
  BY <1>1, <1>2, BoundExists
<1>4. PICK d \in Nat : \A i \in 1 .. Len(cells) : g[i] <= d
  BY <1>1, <1>2, BoundExists
<1> DEFINE S == {cells[i].bottom : i \in DOMAIN cells}
           T == {cells[i].right : i \in DOMAIN cells}
<1>5. /\ S \subseteq Nat \ {0} /\ S # {} /\ \A y \in S : y <= b
      /\ T \subseteq Nat \ {0} /\ T # {} /\ \A y \in T : y <= d
  BY <1>1, <1>3, <1>4
<1> HIDE DEF S, T
<1>6. Max(S) \in S /\ Max(T) \in T
  BY <1>5, GreatestOne
<1>7. Rows(cells) = Max(S) /\ Columns(cells) = Max(T)
  BY DEF Rows, Columns, S, T
<1> QED
  BY <1>5, <1>6, <1>7

(* The cell that is read in a slot is the last one that covers it.         *)
Over(cells, r, k, n) == {i \in 1 .. n : Covers(cells[i], r, k)}

TextIn(cells, r, k, n) ==
    IF Over(cells, r, k, n) = {} THEN <<>> ELSE cells[Max(Over(cells, r, k, n))].text

LEMMA TextInNext ==
  ASSUME NEW cells, NEW r, NEW k, NEW n \in Nat
  PROVE  /\ TextIn(cells, r, k, 0) = <<>>
         /\ TextIn(cells, r, k, n + 1) = IF Covers(cells[n + 1], r, k) THEN cells[n + 1].text
                                         ELSE TextIn(cells, r, k, n)
<1>1. TextIn(cells, r, k, 0) = <<>>
  BY DEF TextIn, Over
<1>2. CASE Covers(cells[n + 1], r, k)
  <2> DEFINE S == Over(cells, r, k, n + 1)
  <2>1. S \subseteq Nat /\ n + 1 \in S /\ \A y \in S : y <= n + 1
    BY <1>2 DEF Over
  <2> HIDE DEF S
  <2>2. Max(S) \in S /\ \A y \in S : y <= Max(S)
    <3>1. n + 1 \in Nat /\ S # {}
      BY <2>1
    <3> QED
      BY <2>1, <3>1, GreatestOne
  <2>3. Max(S) = n + 1
    <3> DEFINE m == Max(S)
    <3>1. m \in Nat /\ m <= n + 1 /\ n + 1 <= m
      BY <2>1, <2>2
    <3> HIDE DEF m
    <3>2. m = n + 1
      BY <3>1
    <3> QED
      BY <3>2 DEF m
  <2> QED
    BY <1>1, <1>2, <2>1, <2>3 DEF TextIn, S
<1>3. CASE ~ Covers(cells[n + 1], r, k)
  <2>1. Over(cells, r, k, n + 1) = Over(cells, r, k, n)
    BY <1>3 DEF Over
  <2> QED
    BY <1>1, <1>3, <2>1 DEF TextIn
<1> QED
  BY <1>2, <1>3

LEMMA SlotIs ==
  ASSUME NEW cells \in Seq(Cell), NEW r, NEW k
  PROVE  /\ Slot(cells, r, k) = TextIn(cells, r, k, Len(cells))
         /\ Slot(cells, r, k) \in Seq(Char)
<1> DEFINE w == [n \in 0 .. Len(cells) |-> TextIn(cells, r, k, n)]
           t == CHOOSE g : g = [n \in 0 .. Len(cells) |->
                  IF n = 0 THEN <<>>
                  ELSE IF Covers(cells[n], r, k) THEN cells[n].text ELSE g[n - 1]]
           N == {n \in Nat : n \in 0 .. Len(cells) =>
                              /\ t[n] = TextIn(cells, r, k, n)
                              /\ t[n] \in Seq(Char)}
<1>1. /\ Len(cells) \in Nat
      /\ \A i \in 1 .. Len(cells) : cells[i].text \in Seq(Char)
  BY CellsOfTable
<1>2. \A n \in 0 .. Len(cells) :
        w[n] = IF n = 0 THEN <<>>
               ELSE IF Covers(cells[n], r, k) THEN cells[n].text ELSE w[n - 1]
  <2> SUFFICES ASSUME NEW n \in 0 .. Len(cells)
               PROVE  w[n] = IF n = 0 THEN <<>>
                             ELSE IF Covers(cells[n], r, k) THEN cells[n].text ELSE w[n - 1]
    OBVIOUS
  <2>1. CASE n = 0
    BY <2>1, TextInNext
  <2>2. CASE n # 0
    <3>1. PICK m \in Nat : m = n - 1 /\ n = m + 1 /\ m \in 0 .. Len(cells)
      BY <1>1, <2>2
    <3>2. TextIn(cells, r, k, m + 1) = IF Covers(cells[m + 1], r, k) THEN cells[m + 1].text
                                       ELSE TextIn(cells, r, k, m)
      BY TextInNext
    <3>3. w[n] = TextIn(cells, r, k, n) /\ w[m] = TextIn(cells, r, k, m)
      BY <3>1
    <3> HIDE DEF w
    <3> QED
      BY <2>2, <3>1, <3>2, <3>3
  <2> QED
    BY <2>1, <2>2
<1>3. w = [n \in 0 .. Len(cells) |->
             IF n = 0 THEN <<>>
             ELSE IF Covers(cells[n], r, k) THEN cells[n].text ELSE w[n - 1]]
  BY <1>2
<1> HIDE DEF w
<1>4. t = [n \in 0 .. Len(cells) |->
             IF n = 0 THEN <<>>
             ELSE IF Covers(cells[n], r, k) THEN cells[n].text ELSE t[n - 1]]
  BY <1>3
<1>5. Slot(cells, r, k) = t[Len(cells)]
  BY DEF Slot
<1> HIDE DEF t
<1>6. 0 \in N
  <2>1. t[0] = <<>>
    BY <1>1, <1>4
  <2>2. TextIn(cells, r, k, 0) = <<>>
    BY TextInNext
  <2>3. t[0] \in Seq(Char)
    BY <2>1
  <2> QED
    BY <2>1, <2>2, <2>3
<1>7. ASSUME NEW n \in Nat, n \in N PROVE n + 1 \in N
  <2> SUFFICES ASSUME n + 1 \in 0 .. Len(cells)
               PROVE  /\ t[n + 1] = TextIn(cells, r, k, n + 1)
                      /\ t[n + 1] \in Seq(Char)
    OBVIOUS
  <2>1. t[n + 1] = IF Covers(cells[n + 1], r, k) THEN cells[n + 1].text ELSE t[n]
    <3>1. PICK i \in 0 .. Len(cells) : i = n + 1 /\ i - 1 = n /\ i # 0
      OBVIOUS
    <3>2. t[i] = IF Covers(cells[i], r, k) THEN cells[i].text ELSE t[i - 1]
      BY <1>4, <3>1
    <3> QED
      BY <3>1, <3>2
  <2>2. t[n] = TextIn(cells, r, k, n) /\ t[n] \in Seq(Char)
    BY <1>7
  <2>3. cells[n + 1].text \in Seq(Char)
    BY <1>1
  <2> QED
    BY <2>1, <2>2, <2>3, TextInNext
<1> HIDE DEF N
<1>8. Len(cells) \in N
  BY <1>1, <1>6, <1>7, AllNumbers
<1> QED
  BY <1>1, <1>5, <1>8 DEF N

-----------------------------------------------------------------------------
(* A line                                                                  *)

(* The characters of the Markdown of a table, and those that may be in one *)
(* of its cells.                                                           *)
MdChar == {"letter", "shaped", "wide", "bar", "newline", "escaped bar", "blank",
           "---", "truncated"}
Plain  == MdChar \ {"bar", "newline"}

Framed(row) == <<<<>>>> \o row \o <<<<>>>>

LEMMA FramedIs ==
  ASSUME NEW S, NEW row \in Seq(Seq(S))
  PROVE  /\ Framed(row) \in Seq(Seq(S)) /\ Framed(row) # <<>>
         /\ Len(Framed(row)) = Len(row) + 2
         /\ \A k \in 1 .. Len(row) : Framed(row)[k + 1] = row[k]
<1>1. <<>> \in Seq(S) /\ Len(row) \in Nat
  OBVIOUS
<1> DEFINE e == <<<<>>>>
<1>2. e \in Seq(Seq(S)) /\ Len(e) = 1
  BY <1>1
<1>3. Framed(row) = e \o row \o e
  BY DEF Framed
<1> HIDE DEF e
<1>4. /\ e \o row \in Seq(Seq(S)) /\ Len(e \o row) = Len(row) + 1
      /\ \A k \in 1 .. Len(row) : (e \o row)[k + 1] = row[k]
  <2> DEFINE one == Len(e)
  <2>0. /\ e \o row \in Seq(Seq(S)) /\ Len(e \o row) = one + Len(row)
        /\ \A i \in 1 .. one + Len(row) :
             (e \o row)[i] = IF i <= one THEN e[i] ELSE row[i - one]
    <3>1. e \in Seq(Seq(S))
      BY <1>2
    <3> QED
      BY <3>1, ConcatProperties
  <2> HIDE DEF one
  <2>1. /\ e \o row \in Seq(Seq(S)) /\ Len(e \o row) = 1 + Len(row)
        /\ \A i \in 1 .. 1 + Len(row) :
             (e \o row)[i] = IF i <= 1 THEN e[i] ELSE row[i - 1]
    <3>1. one = 1
      BY <1>2 DEF one
    <3> QED
      BY <2>0, <3>1
  <2>2. ASSUME NEW k \in 1 .. Len(row) PROVE (e \o row)[k + 1] = row[k]
    <3>1. PICK i \in 1 .. 1 + Len(row) : i = k + 1 /\ i - 1 = k /\ ~ (i <= 1)
      BY <1>1
    <3> QED
      BY <2>1, <3>1
  <2> QED
    BY <1>1, <2>1, <2>2
<1> DEFINE u == e \o row
<1> HIDE DEF u
<1>5. u \in Seq(Seq(S)) /\ Len(u) = Len(row) + 1
      /\ \A k \in 1 .. Len(row) : u[k + 1] = row[k]
  BY <1>4 DEF u
<1>6. /\ u \o e \in Seq(Seq(S)) /\ Len(u \o e) = Len(row) + 2
      /\ \A k \in 1 .. Len(u) : (u \o e)[k] = u[k]
  <2>1. /\ u \o e \in Seq(Seq(S)) /\ Len(u \o e) = Len(u) + 1
        /\ \A i \in 1 .. Len(u) + 1 :
             (u \o e)[i] = IF i <= Len(u) THEN u[i] ELSE e[i - Len(u)]
    <3>1. e \in Seq(Seq(S)) /\ u \in Seq(Seq(S))
      BY <1>2, <1>5
    <3>2. /\ u \o e \in Seq(Seq(S)) /\ Len(u \o e) = Len(u) + Len(e)
          /\ \A i \in 1 .. Len(u) + Len(e) :
               (u \o e)[i] = IF i <= Len(u) THEN u[i] ELSE e[i - Len(u)]
      BY <3>1, ConcatProperties
    <3>3. Len(e) = 1
      BY <1>2
    <3> QED
      BY <3>2, <3>3, Zenon
  <2>2. Len(u) \in Nat /\ \A k \in 1 .. Len(u) : k \in 1 .. Len(u) + 1 /\ k <= Len(u)
    BY <1>1, <1>5
  <2> QED
    BY <1>1, <1>5, <2>1, <2>2
<1>7. Framed(row) = u \o e
  BY <1>3 DEF u
<1>8. u \o e # <<>>
  <2>1. Len(u \o e) # 0
    BY <1>1, <1>6
  <2> QED
    BY <2>1
<1>9. \A k \in 1 .. Len(row) : (u \o e)[k + 1] = row[k]
  <2> SUFFICES ASSUME NEW k \in 1 .. Len(row) PROVE (u \o e)[k + 1] = row[k]
    OBVIOUS
  <2>1. k + 1 \in 1 .. Len(u)
    BY <1>1, <1>5
  <2> QED
    BY <1>5, <1>6, <2>1
<1> QED
  BY <1>6, <1>7, <1>8, <1>9, Zenon

(* A reader sees the cells that were written, and the line is one line.    *)
LEMMA LineReadsBack ==
  ASSUME NEW row \in Seq(Seq(Plain))
  PROVE  /\ Line(row) \in Seq(MdChar \ {"newline"})
         /\ CellsOf(Line(row)) = [k \in 1 .. Len(row) |-> Unescaped(row[k])]
<1> DEFINE S == MdChar \ {"newline"}
<1>1. Plain = S \ {"bar"} /\ "bar" \in S /\ Plain \subseteq S
  BY DEF Plain, MdChar
<1> HIDE DEF S
<1>2. Framed(row) \in Seq(Seq(Plain)) /\ Framed(row) # <<>>
  BY FramedIs
<1>3. Framed(row) \in Seq(Seq(S))
  <2>1. Seq(Plain) \subseteq Seq(S)
    BY <1>1
  <2> QED
    BY <1>2, <2>1, SeqMonotonic
<1>4. Line(row) = JoinedBy("bar", Framed(row))
  BY DEF Line, Framed
<1>5. Line(row) \in Seq(S)
  BY <1>1, <1>2, <1>3, <1>4, JoinedType
<1>6. Split(Line(row), "bar") = Framed(row)
  BY <1>1, <1>2, <1>4, SplitUndoesJoin
<1>7. CellsOf(Line(row)) =
        [k \in 1 .. Len(Framed(row)) - 2 |-> Unescaped(Framed(row)[k + 1])]
  BY <1>6 DEF CellsOf
<1>8. /\ Len(Framed(row)) - 2 = Len(row)
      /\ \A k \in 1 .. Len(row) : Framed(row)[k + 1] = row[k]
  <2>1. Len(row) \in Nat
    OBVIOUS
  <2> QED
    BY <2>1, FramedIs
<1> HIDE DEF Framed
<1> QED
  BY <1>5, <1>7, <1>8 DEF S

LEMMA LastLineIs ==
  /\ LastLine \in Seq(MdChar \ {"newline"})
  /\ CellsOf(LastLine) = <<<<"truncated">>>>
<1> DEFINE row == <<<<"truncated">>>>
<1>1. row \in Seq(Seq(Plain)) /\ Len(row) = 1 /\ row[1] = <<"truncated">>
  BY DEF Plain, MdChar
<1>2. Unescaped(<<"truncated">>) = <<"truncated">>
  <2> DEFINE t == <<"truncated">>
  <2>1. DOMAIN t = {1} /\ t[1] = "truncated" /\ t = [i \in {1} |-> "truncated"]
    OBVIOUS
  <2> HIDE DEF t
  <2>2. Unescaped(t) = [i \in {1} |-> "truncated"]
    BY <2>1 DEF Unescaped
  <2> QED
    BY <2>1, <2>2 DEF t
<1>3. LastLine = Line(row)
  BY DEF LastLine
<1> HIDE DEF row
<1>4. CellsOf(Line(row)) = [k \in 1 .. 1 |-> <<"truncated">>]
  <2>1. CellsOf(Line(row)) = [k \in 1 .. Len(row) |-> Unescaped(row[k])]
    BY <1>1, LineReadsBack
  <2> QED
    BY <1>1, <1>2, <2>1
<1>5. [k \in 1 .. 1 |-> <<"truncated">>] = <<<<"truncated">>>>
  OBVIOUS
<1> QED
  BY <1>1, <1>3, <1>4, <1>5, LineReadsBack

(* A cell of the grid, as it is written, and as it is read.                *)
LEMMA CellReadsBack ==
  ASSUME NEW text \in Seq(Char)
  PROVE  /\ Escape(Normalize(text)) \in Seq(Plain \ {"truncated"})
         /\ Unescaped(Escape(Normalize(text))) = Shown(text)
<1>1. Len(text) \in Nat /\ DOMAIN text = 1 .. Len(text)
      /\ \A i \in 1 .. Len(text) : text[i] \in Char
  OBVIOUS
<1>2. Escape(Normalize(text)) =
        [i \in 1 .. Len(text) |-> CASE NFKC(text[i]) = "bar" -> "escaped bar"
                                    [] NFKC(text[i]) = "newline" -> "blank"
                                    [] OTHER -> NFKC(text[i])]
  BY <1>1 DEF Escape, Normalize
<1>3. \A ch \in Char : NFKC(ch) \in {"letter", "bar", "newline"}
  BY DEF NFKC, Char
<1>4. Escape(Normalize(text)) \in Seq(Plain \ {"truncated"})
  <2>1. \A i \in 1 .. Len(text) :
          (CASE NFKC(text[i]) = "bar" -> "escaped bar"
             [] NFKC(text[i]) = "newline" -> "blank"
             [] OTHER -> NFKC(text[i])) \in Plain \ {"truncated"}
    BY <1>1, <1>3 DEF Plain, MdChar
  <2> DEFINE f == [i \in 1 .. Len(text) |-> CASE NFKC(text[i]) = "bar" -> "escaped bar"
                                    [] NFKC(text[i]) = "newline" -> "blank"
                                    [] OTHER -> NFKC(text[i])]
  <2>2. f \in [1 .. Len(text) -> Plain \ {"truncated"}]
    BY <2>1
  <2> HIDE DEF f
  <2>3. f \in Seq(Plain \ {"truncated"})
    BY <1>1, <2>2
  <2> QED
    BY <1>2, <2>3 DEF f
<1>5. Unescaped(Escape(Normalize(text))) = Shown(text)
  <2>1. \A i \in 1 .. Len(text) :
          (IF (CASE NFKC(text[i]) = "bar" -> "escaped bar"
                 [] NFKC(text[i]) = "newline" -> "blank"
                 [] OTHER -> NFKC(text[i])) = "escaped bar" THEN "bar"
           ELSE (CASE NFKC(text[i]) = "bar" -> "escaped bar"
                   [] NFKC(text[i]) = "newline" -> "blank"
                   [] OTHER -> NFKC(text[i])))
            = IF NFKC(text[i]) = "newline" THEN "blank" ELSE NFKC(text[i])
    BY <1>1, <1>3
  <2> QED
    BY <1>1, <1>2, <2>1 DEF Unescaped, Shown
<1> QED
  BY <1>4, <1>5

-----------------------------------------------------------------------------
(* The lines                                                               *)

(* Of the lines that were joined and cut, the reader sees the first ones,  *)
(* each as it was, and all of them unless the text was too long.           *)
LEMMA WholeLinesAre ==
  ASSUME NEW L \in Seq(Seq(MdChar \ {"newline"})), L # <<>>,
         \A k \in 1 .. Len(L) : CellsOf(L[k]) # <<<<"truncated">>>>,
         NEW md, md = Truncated(JoinedBy("newline", L))
  PROVE  \E m \in 0 .. Len(L) :
           /\ Len(WholeLines(md)) = m
           /\ \A k \in 1 .. m : WholeLines(md)[k] = L[k]
           /\ m = Len(L) \/ Len(md) > MaxTableChars
<1> DEFINE S == MdChar
           J == JoinedBy("newline", L)
           T == <<<<"truncated">>>>
<1>1. "newline" \in S
  BY DEF MdChar
<1>2. Len(L) \in Nat /\ Len(L) \in 1 .. Len(L)
  OBVIOUS
<1>3. L \in Seq(Seq(S))
  <2>1. Seq(S \ {"newline"}) \subseteq Seq(S)
    OBVIOUS
  <2> QED
    BY <2>1, SeqMonotonic
<1> HIDE DEF S
<1>4. J \in Seq(S)
  BY <1>1, <1>3, JoinedType
<1>5. Split(J, "newline") = L
  BY <1>1, SplitUndoesJoin DEF S
<1>6. MaxTableChars \in Nat
  BY TablesAssumption
<1> HIDE DEF J, T
<1>7. CASE Len(J) <= MaxTableChars
  <2>1. md = J
    BY <1>7 DEF Truncated, J
  <2>2. CellsOf(L[Len(L)]) # T
    BY <1>2 DEF T
  <2>3. WholeLines(md) = L
    BY <1>5, <2>1, <2>2 DEF WholeLines, T
  <2> DEFINE m == Len(L)
  <2>4. /\ Len(WholeLines(md)) = m
        /\ \A k \in 1 .. m : WholeLines(md)[k] = L[k]
        /\ m \in 0 .. m
    BY <1>2, <2>3
  <2> QED
    BY <2>4, Zenon
<1>8. CASE ~ (Len(J) <= MaxTableChars)
  <2> DEFINE P == SubSeq(J, 1, MaxTableChars)
             Q == Split(P, "newline")
  <2>1. Len(J) \in Nat /\ MaxTableChars < Len(J)
    BY <1>4, <1>6, <1>8
  <2>2. P \in Seq(S) /\ Len(P) = MaxTableChars
    <3>1. \A i \in 1 .. MaxTableChars : J[i] \in S
      BY <1>4, <1>6, <2>1
    <3> QED
      BY <1>6, <3>1, SubSeqProperties
  <2>3. md = P \o <<"newline">> \o LastLine
    BY <1>8 DEF Truncated, J
  <2>4. Q \in PartsOf(S)
    BY <2>2, SplitType
  <2>5. Keeps(Q, L)
    BY <1>4, <1>5, <1>6, <2>1, PrefixKeeps
  <2> HIDE DEF P
  <2>6. LastLine \in Seq(S \ {"newline"}) /\ LastLine \in Seq(S)
    <3>1. Seq(S \ {"newline"}) \subseteq Seq(S)
      OBVIOUS
    <3> QED
      BY <3>1, LastLineIs DEF S
  <2>7. Split(md, "newline") = Append(Q, LastLine)
    BY <1>1, <2>2, <2>3, <2>6, SplitAtMark
  <2> HIDE DEF Q
  <2> DEFINE n == Len(Q)
             lines == Append(Q, LastLine)
  <2>8. /\ Q \in Seq(Seq(S)) /\ n \in Nat /\ n >= 1
        /\ \A k \in 1 .. n : Q[k] \in Seq(S)
    BY <2>4 DEF PartsOf
  <2>9. /\ Len(lines) = n + 1 /\ lines[n + 1] = LastLine
        /\ \A k \in 1 .. n : lines[k] = Q[k]
    BY <2>6, <2>8
  <2> HIDE DEF lines, n
  <2>10. WholeLines(md) = SubSeq(lines, 1, n - 1)
    <3>1. CellsOf(lines[Len(lines)]) = T
      BY <2>9, LastLineIs DEF T
    <3>2. Len(lines) - 2 = n - 1
      BY <2>8, <2>9
    <3>3. WholeLines(md) = SubSeq(lines, 1, Len(lines) - 2)
      BY <2>7, <3>1 DEF WholeLines, T, lines
    <3> QED
      BY <3>2, <3>3, Zenon
  <2>11. /\ Len(SubSeq(lines, 1, n - 1)) = n - 1
         /\ \A k \in 1 .. n - 1 : SubSeq(lines, 1, n - 1)[k] = lines[k]
    <3>1. lines \in Seq(Seq(S))
      BY <2>6, <2>8 DEF lines
    <3>2. ASSUME NEW i \in 1 .. n - 1 PROVE lines[i] \in Seq(S)
      <4>1. i \in 1 .. n
        BY <2>8
      <4> QED
        BY <2>8, <2>9, <4>1, Zenon
    <3>3. PICK m \in Nat : m = n - 1
      BY <2>8
    <3>4. /\ Len(SubSeq(lines, 1, m)) = m
          /\ \A k \in 1 .. m : SubSeq(lines, 1, m)[k] = lines[k]
      BY <3>2, <3>3, SubSeqProperties
    <3> QED
      BY <3>3, <3>4
  <2>12. n <= Len(L) /\ \A k \in 1 .. n - 1 : L[k] = Q[k]
    BY <2>5 DEF Keeps, n
  <2>13. Len(md) > MaxTableChars
    <3> DEFINE b == <<"newline">>
    <3>1. b \in Seq(S) /\ Len(b) \in Nat \ {0}
      BY <1>1
    <3> HIDE DEF b
    <3>2. P \o b \in Seq(S) /\ Len(P \o b) = Len(P) + Len(b)
      BY <2>2, <3>1, ConcatProperties
    <3>3. Len((P \o b) \o LastLine) = Len(P \o b) + Len(LastLine)
      BY <2>6, <3>2, ConcatProperties
    <3>4. Len(LastLine) \in Nat
      BY <2>6
    <3> QED
      BY <1>6, <2>2, <2>3, <3>1, <3>2, <3>3, <3>4 DEF b
  <2>14. \A k \in 1 .. n - 1 : WholeLines(md)[k] = L[k]
    <3>1. \A k \in 1 .. n - 1 : k \in 1 .. n
      BY <2>8
    <3> QED
      BY <2>9, <2>10, <2>11, <2>12, <3>1
  <2>15. Len(WholeLines(md)) = n - 1 /\ n - 1 \in 0 .. Len(L)
    BY <1>2, <2>8, <2>10, <2>11, <2>12
  <2> QED
    BY <2>13, <2>14, <2>15
<1> QED
  BY <1>7, <1>8

-----------------------------------------------------------------------------
(* The table                                                               *)

EscapedRow(cells, r) ==
    [k \in 1 .. Columns(cells) |-> Escape(Normalize(Slot(cells, r, k)))]

ShownRow(cells, r) == [k \in 1 .. Columns(cells) |-> Shown(Slot(cells, r, k))]

LEMMA RowReadsBack ==
  ASSUME NEW cells \in Seq(Cell), cells # <<>>, NEW r
  PROVE  /\ Line(EscapedRow(cells, r)) \in Seq(MdChar \ {"newline"})
         /\ CellsOf(Line(EscapedRow(cells, r))) = ShownRow(cells, r)
<1> DEFINE n == Columns(cells)
           row == EscapedRow(cells, r)
<1>1. n \in Nat
  BY GridSize
<1>2. \A k \in 1 .. n : /\ Escape(Normalize(Slot(cells, r, k))) \in Seq(Plain)
                        /\ Unescaped(Escape(Normalize(Slot(cells, r, k)))) = Shown(Slot(cells, r, k))
  <2>1. Seq(Plain \ {"truncated"}) \subseteq Seq(Plain)
    OBVIOUS
  <2> QED
    BY <2>1, SlotIs, CellReadsBack
<1>3. row = [k \in 1 .. n |-> Escape(Normalize(Slot(cells, r, k)))]
  BY DEF EscapedRow
<1> HIDE DEF n, row
<1>4. row \in Seq(Seq(Plain)) /\ Len(row) = n
  BY <1>1, <1>2, <1>3
<1>5. CellsOf(Line(row)) = [k \in 1 .. Len(row) |-> Unescaped(row[k])]
  BY <1>4, LineReadsBack
<1>6. [k \in 1 .. n |-> Unescaped(row[k])] = [k \in 1 .. n |-> Shown(Slot(cells, r, k))]
  BY <1>2, <1>3
<1>7. CellsOf(Line(row)) = ShownRow(cells, r)
  BY <1>4, <1>5, <1>6 DEF ShownRow, n
<1>8. Line(row) \in Seq(MdChar \ {"newline"})
  BY <1>4, LineReadsBack
<1> QED
  BY <1>7, <1>8 DEF row

(* No row of the table, nor its rule, looks like the line that says the    *)
(* text was cut.                                                           *)
LEMMA RowIsNotLast ==
  ASSUME NEW cells \in Seq(Cell), cells # <<>>, NEW r
  PROVE  ShownRow(cells, r) # <<<<"truncated">>>>
<1> SUFFICES ASSUME ShownRow(cells, r) = <<<<"truncated">>>> PROVE FALSE
  OBVIOUS
<1> DEFINE text == Slot(cells, r, 1)
           t == <<"truncated">>
<1>1. Columns(cells) \in Nat \ {0}
  BY GridSize
<1>2. 1 \in 1 .. Columns(cells)
  BY <1>1
<1>3. <<t>>[1] = t
  OBVIOUS
<1> HIDE DEF t
<1>4. Shown(text) = t
  <2>1. ShownRow(cells, r)[1] = Shown(text)
    BY <1>2 DEF ShownRow
  <2> QED
    BY <1>3, <2>1 DEF t
<1>5. text \in Seq(Char)
  BY SlotIs
<1> HIDE DEF text
<1>6. DOMAIN t = {1} /\ t[1] = "truncated"
  BY DEF t
<1>7. DOMAIN text = {1}
  BY <1>4, <1>6 DEF Shown
<1>8. NFKC(text[1]) = "truncated"
  <2>1. Shown(text)[1] = IF NFKC(text[1]) = "newline" THEN "blank" ELSE NFKC(text[1])
    BY <1>7 DEF Shown
  <2> QED
    BY <1>4, <1>6, <2>1
<1>9. text[1] \in Char
  <2>1. \A i \in DOMAIN text : text[i] \in Char
    BY <1>5
  <2> QED
    BY <1>7, <2>1
<1> QED
  BY <1>8, <1>9 DEF NFKC, Char

Rule(cells) == Line([k \in 1 .. Columns(cells) |-> <<"---">>])

LEMMA RuleIs ==
  ASSUME NEW cells \in Seq(Cell), cells # <<>>
  PROVE  /\ Rule(cells) \in Seq(MdChar \ {"newline"})
         /\ CellsOf(Rule(cells)) # <<<<"truncated">>>>
<1> DEFINE n == Columns(cells)
           dash == <<"---">>
           row == [k \in 1 .. n |-> dash]
           t == <<"truncated">>
<1>1. n \in Nat \ {0}
  BY GridSize
<1>2. dash \in Seq(Plain)
  BY DEF Plain, MdChar
<1>3. Unescaped(dash) # t
  <2>1. DOMAIN dash = {1} /\ dash[1] = "---" /\ t[1] = "truncated"
    OBVIOUS
  <2> HIDE DEF dash, t
  <2>2. Unescaped(dash)[1] = "---"
    BY <2>1 DEF Unescaped
  <2> QED
    BY <2>1, <2>2
<1>4. <<t>>[1] = t
  OBVIOUS
<1>5. Rule(cells) = Line(row)
  BY DEF Rule
<1> HIDE DEF n, dash, t
<1>6. row \in Seq(Seq(Plain)) /\ Len(row) = n /\ row[1] = dash
  BY <1>1, <1>2
<1> HIDE DEF row
<1>7. CellsOf(Line(row)) = [k \in 1 .. Len(row) |-> Unescaped(row[k])]
  BY <1>6, LineReadsBack
<1>8. CellsOf(Line(row))[1] = Unescaped(dash)
  BY <1>1, <1>6, <1>7
<1>9. CellsOf(Line(row)) # <<t>>
  BY <1>3, <1>4, <1>8
<1> QED
  BY <1>5, <1>6, <1>9, LineReadsBack DEF t

(* The lines of a table: its first row, the rule, and the other rows.      *)
LEMMA LinesAre ==
  ASSUME NEW cells \in Seq(Cell), cells # <<>>
  PROVE  LET L == LinesOf(NormalizedGrid(cells)) IN
         /\ L \in Seq(Seq(MdChar \ {"newline"}))
         /\ Len(L) = Rows(cells) + 1
         /\ L[1] = Line(EscapedRow(cells, 1))
         /\ L[2] = Rule(cells)
         /\ \A n \in 2 .. Rows(cells) : L[n + 1] = Line(EscapedRow(cells, n))
<1> DEFINE R == Rows(cells)
           C == Columns(cells)
           G == NormalizedGrid(cells)
           S == Seq(MdChar \ {"newline"})
           lines == [r \in 1 .. R |-> Line(EscapedRow(cells, r))]
<1>1. R \in Nat \ {0} /\ C \in Nat \ {0}
  BY GridSize
<1>2. /\ DOMAIN G = 1 .. R
      /\ \A r \in 1 .. R : /\ DOMAIN G[r] = 1 .. C
                           /\ \A k \in 1 .. C : G[r][k] = Normalize(Slot(cells, r, k))
  BY DEF NormalizedGrid, Grid
<1> HIDE DEF R, C, G, S
<1>3. ASSUME NEW r \in 1 .. R
      PROVE  [k \in DOMAIN G[r] |-> Escape(G[r][k])] = EscapedRow(cells, r)
  BY <1>2 DEF EscapedRow, C
<1>4. [r \in DOMAIN G |-> Line([k \in DOMAIN G[r] |-> Escape(G[r][k])])] = lines
  BY <1>2, <1>3
<1>5. Line([k \in DOMAIN G[1] |-> <<"---">>]) = Rule(cells)
  <2>1. DOMAIN G[1] = 1 .. C
    BY <1>1, <1>2
  <2> QED
    BY <2>1, Zenon DEF Rule, C
<1>6. LinesOf(G) = <<lines[1], Rule(cells)>> \o Tail(lines)
  BY <1>4, <1>5 DEF LinesOf
<1>7. \A r \in 1 .. R : Line(EscapedRow(cells, r)) \in S
  BY RowReadsBack DEF S
<1>8. /\ lines \in Seq(S) /\ Len(lines) = R
      /\ \A r \in 1 .. R : lines[r] = Line(EscapedRow(cells, r))
  BY <1>1, <1>7
<1> HIDE DEF lines
<1>9. /\ Tail(lines) \in Seq(S) /\ Len(Tail(lines)) = R - 1
      /\ \A i \in 1 .. R - 1 : Tail(lines)[i] = lines[i + 1]
  <2>1. lines # <<>>
    BY <1>1, <1>8
  <2> QED
    BY <1>8, <2>1, HeadTailProperties
<1> DEFINE h == <<lines[1], Rule(cells)>>
           u == Tail(lines)
           two == Len(h)
<1>10. h \in Seq(S) /\ h[1] = lines[1] /\ h[2] = Rule(cells)
  BY <1>1, <1>8, RuleIs DEF S
<1>11. two = 2
  OBVIOUS
<1> HIDE DEF h, u
<1>12. /\ h \o u \in Seq(S) /\ Len(h \o u) = two + Len(u)
       /\ \A i \in 1 .. two + Len(u) : (h \o u)[i] = IF i <= two THEN h[i] ELSE u[i - two]
  <2>1. u \in Seq(S)
    BY <1>9 DEF u
  <2> QED
    BY <1>10, <2>1, ConcatProperties
<1> HIDE DEF two
<1>13. /\ h \o u \in Seq(S) /\ Len(h \o u) = R + 1
       /\ \A i \in 1 .. R + 1 : (h \o u)[i] = IF i <= 2 THEN h[i] ELSE u[i - 2]
  <2>1. Len(u) = R - 1
    BY <1>9 DEF u
  <2> QED
    BY <1>1, <1>11, <1>12, <2>1
<1>14. (h \o u)[1] = Line(EscapedRow(cells, 1)) /\ (h \o u)[2] = Rule(cells)
  BY <1>1, <1>8, <1>10, <1>13
<1>15. ASSUME NEW n \in 2 .. R PROVE (h \o u)[n + 1] = Line(EscapedRow(cells, n))
  <2>1. PICK i \in 1 .. R + 1 : i = n + 1 /\ ~ (i <= 2) /\ i - 2 = n - 1
    BY <1>1
  <2>2. PICK j \in 1 .. R - 1 : j = n - 1 /\ j + 1 = n
    BY <1>1
  <2>3. (h \o u)[i] = u[j]
    BY <1>13, <2>1, <2>2
  <2>4. u[j] = lines[n]
    BY <1>9, <2>2 DEF u
  <2> QED
    BY <1>8, <2>1, <2>3, <2>4
<1>16. LinesOf(NormalizedGrid(cells)) = h \o u
  BY <1>6 DEF h, u, G
<1> QED
  BY <1>13, <1>14, <1>15, <1>16, Zenon DEF S, R

(* Whatever cells TableFormer finds, and wherever the Markdown is cut, a   *)
(* reader of the Markdown sees in every row and column the text of the     *)
(* last cell that covers it.                                               *)
LEMMA MarkdownReadsBack ==
  ASSUME NEW cells \in Seq(Cell), cells # <<>>
  PROVE  ReadsBack(cells, TableMarkdown(cells))
<1> DEFINE R == Rows(cells)
           C == Columns(cells)
           L == LinesOf(NormalizedGrid(cells))
           md == TableMarkdown(cells)
           T == <<<<"truncated">>>>
<1>1. R \in Nat \ {0} /\ C \in Nat \ {0}
  BY GridSize
<1>2. md = Truncated(JoinedBy("newline", L))
  BY DEF TableMarkdown, GridToMarkdown
<1>3. /\ L \in Seq(Seq(MdChar \ {"newline"}))
      /\ Len(L) = R + 1
      /\ L[1] = Line(EscapedRow(cells, 1))
      /\ L[2] = Rule(cells)
      /\ \A n \in 2 .. R : L[n + 1] = Line(EscapedRow(cells, n))
  BY LinesAre
<1> HIDE DEF R, C, L, md, T
<1>4. L # <<>>
  BY <1>1, <1>3
<1>5. ASSUME NEW k \in 1 .. R + 1 PROVE CellsOf(L[k]) # T
  <2>1. \A r : CellsOf(Line(EscapedRow(cells, r))) # T
    BY RowReadsBack, RowIsNotLast DEF T
  <2>2. CASE k = 1
    BY <1>3, <2>1, <2>2
  <2>3. CASE k = 2
    BY <1>3, <2>3, RuleIs DEF T
  <2>4. CASE k > 2
    <3>1. PICK n \in 2 .. R : k = n + 1
      BY <1>1, <2>4
    <3> QED
      BY <1>3, <2>1, <3>1
  <2> QED
    BY <1>1, <2>2, <2>3, <2>4
<1>6. PICK m \in 0 .. R + 1 :
           /\ Len(WholeLines(md)) = m
           /\ \A k \in 1 .. m : WholeLines(md)[k] = L[k]
           /\ m = R + 1 \/ Len(md) > MaxTableChars
  <2>1. \A k \in 1 .. Len(L) : CellsOf(L[k]) # <<<<"truncated">>>>
    BY <1>3, <1>5 DEF T
  <2>2. \E m \in 0 .. Len(L) :
           /\ Len(WholeLines(md)) = m
           /\ \A k \in 1 .. m : WholeLines(md)[k] = L[k]
           /\ m = Len(L) \/ Len(md) > MaxTableChars
    BY <1>2, <1>3, <1>4, <2>1, WholeLinesAre
  <2> QED
    BY <1>3, <2>2, Zenon
<1> DEFINE whole == WholeLines(md)
           rows == RowsOf(md)
           x == m - (IF m < 2 THEN 0 ELSE 1)
<1>7. rows = [n \in 1 .. x |-> CellsOf(IF n = 1 THEN whole[1] ELSE whole[n + 1])]
  BY <1>6 DEF RowsOf
<1>8. x \in Nat /\ x <= R /\ (m = R + 1 => x = R) /\ (x >= 1 => m >= 1)
      /\ (x >= 2 => m = x + 1)
  BY <1>1, <1>6
<1> HIDE DEF rows, x
<1>9. DOMAIN rows = 1 .. x /\ Len(rows) = x
  BY <1>7, <1>8
<1>10. ASSUME NEW r \in 1 .. x PROVE rows[r] = ShownRow(cells, r)
  <2>1. CASE r = 1
    <3>1. rows[r] = CellsOf(whole[1])
      BY <1>7, <2>1
    <3>2. whole[1] = L[1]
      BY <1>6, <1>8
    <3> QED
      BY <1>3, <2>1, <3>1, <3>2, RowReadsBack
  <2>2. CASE r # 1
    <3>1. rows[r] = CellsOf(whole[r + 1])
      BY <1>7, <2>2
    <3>2. whole[r + 1] = L[r + 1] /\ r \in 2 .. R
      BY <1>1, <1>6, <1>8, <2>2
    <3> QED
      BY <1>3, <3>1, <3>2, RowReadsBack
  <2> QED
    BY <2>1, <2>2
<1>11. ASSUME NEW r \in 1 .. x
       PROVE  /\ Len(rows[r]) = C
              /\ DOMAIN rows[r] = 1 .. C
              /\ \A k \in 1 .. C : rows[r][k] = Shown(TextIn(cells, r, k, Len(cells)))
  <2>1. rows[r] = [k \in 1 .. C |-> Shown(Slot(cells, r, k))]
    BY <1>10 DEF ShownRow, C
  <2>2. \A k : Slot(cells, r, k) = TextIn(cells, r, k, Len(cells))
    BY SlotIs
  <2>3. rows[r] = [k \in 1 .. C |-> Shown(TextIn(cells, r, k, Len(cells)))]
    BY <2>1, <2>2
  <2> QED
    BY <1>1, <2>3
<1>12. ASSUME NEW r, NEW k
       PROVE  TextIn(cells, r, k, Len(cells)) =
                LET over == {i \in DOMAIN cells : Covers(cells[i], r, k)}
                IN  IF over = {} THEN <<>> ELSE cells[Max(over)].text
  <2>1. DOMAIN cells = 1 .. Len(cells)
    BY CellsOfTable
  <2> QED
    BY <2>1 DEF TextIn, Over
<1>13. Len(rows) = R \/ Len(md) > MaxTableChars
  BY <1>6, <1>8, <1>9
<1>14. \A r \in DOMAIN rows :
         /\ Len(rows[r]) = C
         /\ \A k \in DOMAIN rows[r] :
              LET over == {i \in DOMAIN cells : Covers(cells[i], r, k)}
                  text == IF over = {} THEN <<>> ELSE cells[Max(over)].text
              IN  rows[r][k] = Shown(text)
  <2> SUFFICES ASSUME NEW r \in DOMAIN rows
               PROVE  /\ Len(rows[r]) = C
                      /\ \A k \in DOMAIN rows[r] :
                           LET over == {i \in DOMAIN cells : Covers(cells[i], r, k)}
                               text == IF over = {} THEN <<>> ELSE cells[Max(over)].text
                           IN  rows[r][k] = Shown(text)
    OBVIOUS
  <2>1. r \in 1 .. x
    BY <1>9
  <2>2. /\ Len(rows[r]) = C /\ DOMAIN rows[r] = 1 .. C
        /\ \A k \in 1 .. C : rows[r][k] = Shown(TextIn(cells, r, k, Len(cells)))
    BY <1>11, <2>1
  <2>3. ASSUME NEW k \in DOMAIN rows[r]
        PROVE  LET over == {i \in DOMAIN cells : Covers(cells[i], r, k)}
                   text == IF over = {} THEN <<>> ELSE cells[Max(over)].text
               IN  rows[r][k] = Shown(text)
    <3>1. rows[r][k] = Shown(TextIn(cells, r, k, Len(cells)))
      BY <2>2
    <3> QED
      BY <1>12, <3>1, Zenon
  <2> QED
    BY <2>2, <2>3
<1> QED
  BY <1>13, <1>14 DEF ReadsBack, rows, md, R, C

(* Every table block of a page processed reads as the cells of its item    *)
(* do: no text is in another row or column, or lost before the place where *)
(* the Markdown was cut.                                                   *)
THEOREM TablesReadBack == Spec => []TablesKeepTheirShape
<1>1. IInv => TablesKeepTheirShape
  <2> SUFFICES ASSUME IInv, NEW p \in DOMAIN pages, NEW n \in DOMAIN pages[p].blocks,
                      pages[p].blocks[n].kind = "table"
               PROVE  ReadsBack(file.items[pages[p].blocks[n].item].cells,
                                pages[p].blocks[n].markdown)
    BY DEF TablesKeepTheirShape
  <2> DEFINE b == pages[p].blocks[n]
             cells == It(b.item).cells
  <2>1. cells # <<>> /\ b.markdown = TableMarkdown(cells)
    BY DEF IInv, MarkdownInv, OwnMarkdown
  <2>2. b.item \in DOMAIN file.items
    BY RegionsAreItems DEF IInv, OrderInv, InOrderOn
  <2>3. cells \in Seq(Cell)
    BY <2>2, ItemsOf DEF IInv, Item
  <2> HIDE DEF cells, b
  <2>4. ReadsBack(cells, TableMarkdown(cells))
    BY <2>1, <2>3, MarkdownReadsBack
  <2>5. ReadsBack(cells, b.markdown)
    BY <2>1, <2>4, Zenon
  <2> QED
    BY <2>5 DEF cells, b, It
<1> QED
  BY <1>1, ExtractionInvariant, PTL
=============================================================================
