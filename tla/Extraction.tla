----------------------------- MODULE Extraction -----------------------------
(***************************************************************************)
(* process_document (epsilon_rag/pipeline/orchestrator.py) with the layout *)
(* analysis it starts from (pipeline/layout.py): one PDF, page by page and *)
(* region by region.  Text is abstracted to its origin and to whether it   *)
(* reaches ocr_fallback_min_chars; a region's place on the page to what    *)
(* the gates on area and contrast make of it.  The engines (RapidOCR,      *)
(* BLIP, the formula model) return something or nothing: they swallow      *)
(* their own failures.  ingest passes no page_range.                       *)
(***************************************************************************)
EXTENDS Tables

CONSTANTS
    Files,     \* the PDFs that may be ingested
    Options,   \* the ExtractOptions that may be set
    MaxBlocks  \* settings.max_blocks_per_page

TextKinds == {"text", "heading", "footer"}
Kinds     == TextKinds \cup {"table", "figure", "formula"}

(* An item of Docling's document: its kind in _KIND_MAP ("other" if it has *)
(* none), its page (0 if it has no provenance), its text ("short" is below *)
(* ocr_fallback_min_chars), the cells TableFormer found, and its box:      *)
(* "empty" or "tiny" (too small for OCR), "plain" (one colour), "small"    *)
(* (not worth a caption) or "large".                                       *)
Item == [kind : Kinds \cup {"other"}, page : Nat, text : {"none", "short", "long"},
         cells : Seq(Cell), box : {"empty", "tiny", "plain", "small", "large"}]

(* What analyze_document makes of the bytes, the items, and the number of  *)
(* pages PyMuPDF finds.                                                    *)
File == [verdict : {"valid", "too small", "no header", "not valid"},
         items : Seq(Item), length : Nat]

Option == [tables : BOOLEAN, figures : BOOLEAN, formulas : BOOLEAN,
           ocr_fallback : BOOLEAN, captions : BOOLEAN]

ASSUME ExtractionAssumption == /\ \A f \in Files : f \in File
                               /\ Options \subseteq Option
                               /\ MaxBlocks \in Nat \ {0}

VARIABLES
    file,    \* pdf_bytes
    options, \* ExtractOptions of the call
    pc,      \* what comes next: "layout", "page", "region", or how it ended
    todo,    \* numbers of the pages that are not finished yet
    image,   \* page_img of the current page is an array, not None
    left,    \* items of the current page that are not processed yet
    blocks,  \* blocks of the current page
    pages    \* the responses of the pages processed

(* History, read by no action: the pages whose rendering was tried, and    *)
(* the items that were to be given to an engine and had no image.          *)
VARIABLES tried, denied

vars == <<file, options, pc, todo, image, left, blocks, pages, tried, denied>>

Endings == {"done", "empty", "invalid", "failed"}

(* A block remembers its item and the ordinal of that on the page, where   *)
(* its text is from, what was added to a figure, and the Markdown of a     *)
(* table.                                                                  *)
Markdowns == {TableMarkdown(file.items[i].cells) :
                i \in {j \in DOMAIN file.items : file.items[j].cells # <<>>}}

BlockOf == [item : DOMAIN file.items, order : Nat, kind : Kinds,
            text : {"native", "ocr", "cells", "latex", "marker"},
            caption : BOOLEAN, legend : BOOLEAN, markdown : Markdowns \cup {<<>>}]

TypeOK ==
    /\ file \in File
    /\ options \in Option
    /\ pc \in {"layout", "page", "region"} \cup Endings
    /\ todo \subseteq Nat
    /\ image \in BOOLEAN
    /\ left \subseteq DOMAIN file.items
    /\ blocks \in Seq(BlockOf)
    /\ pages \in Seq([number : Nat, blocks : Seq(BlockOf)])
    /\ tried \subseteq Nat
    /\ denied \subseteq DOMAIN file.items

-----------------------------------------------------------------------------
(* _bucket_regions_by_page: items of a known kind that have a page, each   *)
(* with its ordinal within the page.                                       *)
It(i) == file.items[i]

Kept(i) == It(i).kind \in Kinds /\ It(i).page # 0

RegionsOf(p) == {i \in DOMAIN file.items : Kept(i) /\ It(i).page = p}

ReadingOrder(i) == Cardinality({j \in RegionsOf(It(i).page) : j < i})

PagesWithRegions == {It(i).page : i \in {j \in DOMAIN file.items : Kept(j)}}

(* Pages in the order in which Docling first meets them.                   *)
CurrentPageAsMet ==
    CHOOSE p \in todo : \A q \in todo : Min(RegionsOf(p)) <= Min(RegionsOf(q))

(* Pages are processed in ascending order.                                 *)
CurrentPage == Min(todo)

(* Regions beyond the cap are cut.                                         *)
Capped(p) == {i \in RegionsOf(p) : ReadingOrder(i) < MaxBlocks}

(* The regions of a page are processed as Docling met them.                *)
Current == Min(left)

(* The rule of the docstring: pixels for text that came back empty, not    *)
(* for short text.                                                         *)
NeedsImageIfBlank(regions) ==
    \E i \in regions :
        \/ It(i).kind \in {"figure", "formula"}
        \/ It(i).kind \in TextKinds /\ options.ocr_fallback /\ It(i).text = "none"

(* _render_page_if_needed: does any region look at pixels?                 *)
NeedsImage(regions) ==
    \E i \in regions :
        \/ It(i).kind \in {"figure", "formula"}
        \/ It(i).kind \in TextKinds /\ options.ocr_fallback /\ It(i).text # "long"

(* _region_worth_ocring and the area gate of captions.                     *)
WorthOcring(it) == image /\ it.box \in {"small", "large"}
WorthCaption(it) == image /\ it.box \in {"plain", "large"}

(* Does an engine return something for a crop?  Each may return nothing:   *)
(* it is not loaded, runs out of memory, fails, finds no text, or finds it *)
(* with too little confidence.  The formula model takes crops of any size. *)
OcrReads(it) == IF WorthOcring(it) THEN BOOLEAN ELSE {FALSE}
Captions(it) == IF options.captions /\ WorthCaption(it) THEN BOOLEAN ELSE {FALSE}
RecognizesLatex(it) == IF image /\ it.box # "empty" THEN BOOLEAN ELSE {FALSE}

-----------------------------------------------------------------------------
Init ==
    /\ file \in Files
    /\ options \in Options
    /\ pc = "layout"
    /\ todo = {}
    /\ image = FALSE
    /\ left = {}
    /\ blocks = <<>>
    /\ pages = <<>>
    /\ tried = {}
    /\ denied = {}

(* analyze_document raises InvalidPdfError.                                *)
Reject ==
    /\ pc = "layout"
    /\ file.verdict # "valid"
    /\ pc' = "invalid"
    /\ UNCHANGED <<file, options, todo, image, left, blocks, pages, tried, denied>>

(* Docling, or PyMuPDF when it opens the file, fails in any other way:     *)
(* the exception leaves process_document.                                  *)
Fail ==
    /\ pc = "layout"
    /\ file.verdict = "valid"
    /\ pc' = "failed"
    /\ UNCHANGED <<file, options, todo, image, left, blocks, pages, tried, denied>>

(* Layout is done; a document without any region gets the empty response.  *)
Analyze ==
    /\ pc = "layout"
    /\ file.verdict = "valid"
    /\ todo' = PagesWithRegions
    /\ pc' = IF PagesWithRegions = {} THEN "empty" ELSE "page"
    /\ UNCHANGED <<file, options, image, left, blocks, pages, tried, denied>>

(* A page that PyMuPDF does not have, or cannot render, goes on without an *)
(* image.                                                                  *)
StartPage ==
    /\ pc = "page"
    /\ todo # {}
    /\ left' = Capped(CurrentPage)
    /\ tried' = tried \cup {p \in {CurrentPage} : NeedsImage(left')}
    /\ \E rendered \in BOOLEAN :
         image' = (CurrentPage \in tried' /\ CurrentPage <= file.length /\ rendered)
    /\ blocks' = <<>>
    /\ pc' = "region"
    /\ UNCHANGED <<file, options, todo, pages, denied>>

(* A region is done, with the blocks bs (none or one) to show for it.  An  *)
(* engine that is wanted for it is denied when there is no image.          *)
Emit(bs, wanted) ==
    /\ left' = left \ {Current}
    /\ blocks' = blocks \o bs
    /\ denied' = denied \cup {i \in {Current} : wanted /\ ~image}
    /\ UNCHANGED <<file, options, pc, todo, image, pages, tried>>

NewBlock(text, caption, legend) ==
    <<[item |-> Current, order |-> ReadingOrder(Current), kind |-> It(Current).kind,
       text |-> text, caption |-> caption, legend |-> legend,
       markdown |-> IF text = "cells" THEN TableMarkdown(It(Current).cells)
                    ELSE <<>>]>>

(* What OCR returned is taken without looking.                             *)
TextBlocksUnchecked(asked, read) ==
    IF asked THEN IF read THEN NewBlock("ocr", FALSE, FALSE) ELSE <<>>
    ELSE IF It(Current).text # "none" THEN NewBlock("native", FALSE, FALSE)
    ELSE <<>>

(* The text of a region when OCR was asked for it and read something, or   *)
(* not.                                                                    *)
TextBlocks(asked, read) ==
    IF asked /\ read THEN NewBlock("ocr", FALSE, FALSE)
    ELSE IF It(Current).text # "none" THEN NewBlock("native", FALSE, FALSE)
    ELSE <<>>

ProcessText ==
    /\ pc = "region"
    /\ left # {}
    /\ LET it == It(Current)
           wanted == options.ocr_fallback /\ it.text # "long"
       IN
       /\ it.kind \in TextKinds
       /\ \E read \in OcrReads(it) :
            Emit(TextBlocks(wanted /\ WorthOcring(it), read), wanted)

ProcessTable ==
    /\ pc = "region"
    /\ left # {}
    /\ It(Current).kind = "table"
    /\ Emit(IF options.tables /\ It(Current).cells # <<>>
            THEN NewBlock("cells", FALSE, FALSE) ELSE <<>>, FALSE)

(* A figure leaves a marker whatever the two engines return.               *)
ProcessFigure ==
    /\ pc = "region"
    /\ left # {}
    /\ LET it == It(Current) IN
       /\ it.kind = "figure"
       /\ \E caption \in Captions(it), legend \in OcrReads(it) :
            Emit(IF options.figures THEN NewBlock("marker", caption, legend) ELSE <<>>,
                 options.figures)

(* Without an image the crop raises, and the region is skipped as if the   *)
(* model had returned nothing.                                             *)
ProcessFormula ==
    /\ pc = "region"
    /\ left # {}
    /\ LET it == It(Current) IN
       /\ it.kind = "formula"
       /\ \E latex \in RecognizesLatex(it) :
            Emit(IF options.formulas /\ latex
                 THEN NewBlock("latex", FALSE, FALSE) ELSE <<>>, options.formulas)

(* The page is kept, with or without blocks.                               *)
FinishPage ==
    /\ pc = "region"
    /\ left = {}
    /\ pages' = Append(pages, [number |-> CurrentPage, blocks |-> blocks])
    /\ todo' = todo \ {CurrentPage}
    /\ image' = FALSE
    /\ blocks' = <<>>
    /\ pc' = "page"
    /\ UNCHANGED <<file, options, left, tried, denied>>

Finish ==
    /\ pc = "page"
    /\ todo = {}
    /\ pc' = "done"
    /\ UNCHANGED <<file, options, todo, image, left, blocks, pages, tried, denied>>

Next ==
    \/ Reject \/ Fail \/ Analyze \/ StartPage
    \/ ProcessText \/ ProcessTable \/ ProcessFigure \/ ProcessFormula
    \/ FinishPage \/ Finish

Spec == Init /\ [][Next]_vars

-----------------------------------------------------------------------------
(* The blocks of the whole document reach the chunker page by page, and    *)
(* within a page in Docling's reading order, with ordinals that agree,     *)
(* whatever pages and regions were cut, skipped or failed on the way, and  *)
(* in whatever order Docling met the pages.                                *)
InReadingOrder ==
    /\ \A p, q \in DOMAIN pages : p < q => pages[p].number < pages[q].number
    /\ \A p \in DOMAIN pages : \A m, n \in DOMAIN pages[p].blocks :
         m < n => /\ pages[p].blocks[m].item < pages[p].blocks[n].item
                  /\ pages[p].blocks[m].order < pages[p].blocks[n].order

(* When the document is done, every region below the cap that has text, or *)
(* cells, or is a figure, and whose kind is not switched off, is shown by  *)
(* a block of its page, whether the page could be rendered or not and      *)
(* whatever the engines returned for it and for its neighbours.  The block *)
(* has the region's own text or cells, but for a short text: what OCR      *)
(* reads may stand in its place.                                           *)
HasContent(it) ==
    \/ it.kind \in TextKinds /\ it.text # "none"
    \/ it.kind = "table" /\ it.cells # <<>> /\ options.tables
    \/ it.kind = "figure" /\ options.figures

StandsFor(text, it) ==
    \/ it.kind \in TextKinds /\ text = "native"
    \/ it.kind \in TextKinds /\ text = "ocr" /\ it.text # "long" /\ options.ocr_fallback
    \/ it.kind = "table" /\ text = "cells"
    \/ it.kind = "figure" /\ text = "marker"

ShownBy(bs, i) == \E b \in DOMAIN bs : bs[b].item = i /\ StandsFor(bs[b].text, It(i))

Represented(p, i) ==
    \E n \in DOMAIN pages : pages[n].number = p /\ ShownBy(pages[n].blocks, i)

ContentIsShown ==
    pc \in {"done", "empty"} =>
        \A p \in PagesWithRegions :
            \A i \in Capped(p) : HasContent(It(i)) => Represented(p, i)

(* "heading / footer -> keep text; never OCR" (orchestrator.py, top): a    *)
(* heading or footer with text of its own keeps it.                        *)
HeadingsKeepTheirText ==
    \A p \in DOMAIN pages : \A n \in DOMAIN pages[p].blocks :
        LET b == pages[p].blocks[n] IN
        b.kind \in {"heading", "footer"} /\ It(b.item).text # "none" => b.text = "native"

(* A table block reads as its cells do, merged ones and those with bars,   *)
(* line breaks or compatibility characters included: no text moves to      *)
(* another row or column, or is lost before the place of the cut.          *)
TablesKeepTheirShape ==
    \A p \in DOMAIN pages : \A n \in DOMAIN pages[p].blocks :
        LET b == pages[p].blocks[n] IN
        b.kind = "table" => ReadsBack(file.items[b.item].cells, b.markdown)

(* _render_page_if_needed and _process_region decide apart from each       *)
(* other: whenever a region that an engine was wanted for had no image,    *)
(* rendering its page was tried, so that only PyMuPDF can be the reason.   *)
DeniedOnlyAfterTrying == \A i \in denied : It(i).page \in tried

=============================================================================
