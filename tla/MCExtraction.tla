---------------------------- MODULE MCExtraction ----------------------------
(* PDFs for TLC: every sequence of up to MaxItems items of the kinds below *)
(* on two pages, of which PyMuPDF may lack the second; and every table of  *)
(* one or two cells.  Boxes inside, across and beyond the edges of two     *)
(* small pages, one of which does not fill its last row and column of      *)
(* pixels.  A behaviour is about a document, or about a box.               *)
EXTENDS Extraction, Regions

CONSTANT MaxItems

Thing(k, t, c, b) == [kind |-> k, text |-> t, cells |-> c, box |-> b]

(* The cells of a table of two rows and two columns.                       *)
Texts == {<<>>, <<"letter">>, <<"shaped", "bar">>, <<"wide">>, <<"letter", "newline", "bar">>}

Cells == {[top |-> a, bottom |-> b, left |-> l, right |-> r, text |-> t] :
            a \in {0, 1}, b \in {1, 2}, l \in {0, 1}, r \in {1, 2}, t \in Texts}
         \cap {c \in [top : 0 .. 2, bottom : 0 .. 2, left : 0 .. 2, right : 0 .. 2,
                      text : Texts] : c.top < c.bottom /\ c.left < c.right}

TwoCellTables == {<<c>> : c \in Cells} \cup (Cells \X Cells)

ATable == <<[top |-> 0, bottom |-> 1, left |-> 0, right |-> 2, text |-> <<"letter">>],
            [top |-> 1, bottom |-> 2, left |-> 1, right |-> 2, text |-> <<"wide">>]>>

(* Real text, a short heading, a scanned text, a decoration, a table that  *)
(* has cells or not, a photo, a logo, a formula, and a container.          *)
Things == {Thing("text", "long", <<>>, "large"),
           Thing("heading", "short", <<>>, "small"),
           Thing("text", "none", <<>>, "large"),
           Thing("footer", "short", <<>>, "plain"),
           Thing("table", "none", ATable, "large"),
           Thing("table", "none", <<>>, "large"),
           Thing("figure", "none", <<>>, "large"),
           Thing("figure", "none", <<>>, "tiny"),
           Thing("formula", "none", <<>>, "small"),
           Thing("other", "none", <<>>, "empty")}

OnPage(t, p) == [kind |-> t.kind, page |-> p, text |-> t.text,
                 cells |-> t.cells, box |-> t.box]

MCItems == {OnPage(t, p) : t \in Things, p \in {1, 2}}
           \cup {OnPage(Thing("text", "long", <<>>, "empty"), 0)}

NoPdf == [verdict |-> "no header", items |-> <<>>, length |-> 1]

MCFiles ==
    {[verdict |-> v, items |-> <<>>, length |-> 1] :
       v \in {"valid", "too small", "no header", "not valid"}}
    \cup
    {[verdict |-> "valid", items |-> s, length |-> n] :
       s \in UNION {[1 .. m -> MCItems] : m \in 1 .. MaxItems}, n \in {1, 2}}
    \cup
    {[verdict |-> "valid", items |-> <<OnPage(Thing("table", "none", t, "large"), 1)>>,
      length |-> 1] : t \in TwoCellTables}

AllOn == [tables |-> TRUE, figures |-> TRUE, formulas |-> TRUE,
          ocr_fallback |-> TRUE, captions |-> TRUE]

MCOptions == {AllOn, [AllOn EXCEPT !.ocr_fallback = FALSE],
              [AllOn EXCEPT !.figures = FALSE, !.tables = FALSE, !.formulas = FALSE,
                            !.captions = FALSE]}

-----------------------------------------------------------------------------
(* Beyond the edges, on them, one point and half a pixel off.              *)
Coordinates == {-5, 0, 1, 6, 13, 19, 40}

MCPages == {[w |-> 24, h |-> 30, known |-> k] : k \in BOOLEAN}
           \cup {[w |-> 19, h |-> 19, known |-> TRUE]}

MCBoxes == [l : Coordinates, t : Coordinates, r : Coordinates, b : Coordinates,
            origin : {"TOPLEFT", "BOTTOMLEFT"}]

-----------------------------------------------------------------------------
(* The other machine keeps still at one of its initial states.             *)
OneDocument == /\ page = [w |-> 24, h |-> 30, known |-> TRUE]
               /\ box = [l |-> 0, t |-> 0, r |-> 0, b |-> 0, origin |-> "TOPLEFT"]

OneBox == file = NoPdf /\ options = AllOn

MCInit == (OneDocument \/ OneBox) /\ Init /\ RegionInit

MCNext == \/ OneDocument /\ Next /\ UNCHANGED regionVars
          \/ OneBox /\ RegionNext /\ UNCHANGED vars

MCSpec == MCInit /\ [][MCNext]_<<vars, regionVars>>
=============================================================================
