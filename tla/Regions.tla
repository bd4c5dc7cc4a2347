------------------------------ MODULE Regions -------------------------------
(***************************************************************************)
(* The way of a region's box from Docling (pipeline/layout.py) to the      *)
(* pixels an engine is given (pipeline/orchestrator.py, ocr.py,            *)
(* figures.py, formulas.py).  Docling counts in points from the top or the *)
(* bottom of the page; the page is rendered at 150 dpi, 25 pixels for 12   *)
(* points, so that twelfths of a pixel represent every float exactly.      *)
(***************************************************************************)
EXTENDS Integers

CONSTANTS Pages, Boxes

(* A page of PyMuPDF in points, and whether doc.pages told its height.     *)
Page == [w : Nat \ {0}, h : Nat \ {0}, known : BOOLEAN]

(* A box of a Docling item; some PDFs have them transposed.                *)
Box == [l : Int, t : Int, r : Int, b : Int, origin : {"TOPLEFT", "BOTTOMLEFT"}]

ASSUME RegionsAssumption == Pages \subseteq Page /\ Boxes \subseteq Box

VARIABLES
    page,  \* the page
    box,   \* prov.bbox of the item
    stage, \* "found", "resolved" (a LayoutRegion), "gated" (worth OCR) or "cropped"
    bbox,  \* LayoutRegion.bbox, in twelfths of a pixel
    gate,  \* the crop whose contrast _region_worth_ocring measures
    crop   \* the crop handed to an engine, in pixels

regionVars == <<page, box, stage, bbox, gate, crop>>

Rect == [x0 : Int, y0 : Int, x1 : Int, y1 : Int]

None == [x0 |-> 0, y0 |-> 0, x1 |-> 0, y1 |-> 0]

(* The size of the image get_pixmap makes, in pixels.                      *)
Width  == (25 * page.w + 11) \div 12
Height == (25 * page.h + 11) \div 12

RegionTypeOK ==
    /\ page \in Page
    /\ box \in Box
    /\ stage \in {"found", "resolved", "gated", "skipped", "cropped"}
    /\ bbox \in Rect /\ bbox.x0 <= bbox.x1 /\ bbox.y0 <= bbox.y1
    /\ gate \in [x0 : 0 .. Width, y0 : 0 .. Height, x1 : 0 .. Width, y1 : 0 .. Height]
    /\ crop \in [x0 : 0 .. Width, y0 : 0 .. Height, x1 : 0 .. Width, y1 : 0 .. Height]

-----------------------------------------------------------------------------
Lower(a, b)  == IF a <= b THEN a ELSE b
Higher(a, b) == IF a <= b THEN b ELSE a

(* int(round(v)) of v twelfths, ties to the even number.                   *)
Round(v) ==
    LET q == v \div 12
        r == v % 12
    IN  IF r < 6 \/ (r = 6 /\ q % 2 = 0) THEN q ELSE q + 1

(* y from the top, for a box that counts from the bottom.                  *)
FromTop(y) == IF box.origin = "BOTTOMLEFT" THEN page.h - y ELSE y

(* The conversion is left out where the height of the page is not known.   *)
Converted(y) == IF page.known THEN FromTop(y) ELSE y

(* Points taken for pixels.                                                *)
ToPoints(p) == 12 * p

(* Points to pixels.                                                       *)
ToPixels(p) == 25 * p

(* The corners in order.                                                   *)
Resolved ==
    LET x == ToPixels(box.l)
        y == ToPixels(Converted(box.t))
        u == ToPixels(box.r)
        v == ToPixels(Converted(box.b))
    IN  [x0 |-> Lower(x, u), y0 |-> Lower(y, v), x1 |-> Higher(x, u), y1 |-> Higher(y, v)]

Within(v, n) == Higher(0, Lower(n, v))

(* A cut that rounds down.                                                 *)
GateCropRoundedDown ==
    [x0 |-> Within(bbox.x0 \div 12, Width), y0 |-> Within(bbox.y0 \div 12, Height),
     x1 |-> Within(bbox.x1 \div 12, Width), y1 |-> Within(bbox.y1 \div 12, Height)]

(* The crop of _region_worth_ocring.                                       *)
GateCrop ==
    [x0 |-> Within(Round(bbox.x0), Width), y0 |-> Within(Round(bbox.y0), Height),
     x1 |-> Within(Round(bbox.x1), Width), y1 |-> Within(Round(bbox.y1), Height)]

(* A cut that may start before the image: numpy counts from its end.       *)
EngineCropUnclamped ==
    [x0 |-> Round(bbox.x0), y0 |-> Round(bbox.y0),
     x1 |-> Lower(Width, Round(bbox.x1)), y1 |-> Lower(Height, Round(bbox.y1))]

(* The crop of ocr_crop, caption_crop and to_latex_crop.                   *)
EngineCrop ==
    [x0 |-> Higher(0, Round(bbox.x0)), y0 |-> Higher(0, Round(bbox.y0)),
     x1 |-> Lower(Width, Round(bbox.x1)), y1 |-> Lower(Height, Round(bbox.y1))]

Empty(c) == c.x1 <= c.x0 \/ c.y1 <= c.y0

(* ocr_min_region_area_ratio is 1 / 200, of areas in pixels; bbox has 144  *)
(* square twelfths to a pixel.                                             *)
LargeEnough ==
    200 * ((bbox.x1 - bbox.x0) * (bbox.y1 - bbox.y0)) >= 144 * (Width * Height)

-----------------------------------------------------------------------------
RegionInit ==
    /\ page \in Pages
    /\ box \in Boxes
    /\ stage = "found"
    /\ bbox = None
    /\ gate = None
    /\ crop = None

(* _resolve_bbox; an item without a box, or a failure, gives (0, 0, 0, 0). *)
Resolve ==
    /\ stage = "found"
    /\ bbox' \in {Resolved, None}
    /\ stage' = "resolved"
    /\ UNCHANGED <<page, box, gate, crop>>

(* _region_worth_ocring: a crop that has contrast is worth OCR.            *)
Gate ==
    /\ stage = "resolved"
    /\ gate' = GateCrop
    /\ \E contrast \in BOOLEAN :
         stage' = IF /\ LargeEnough
                     /\ GateCrop.x1 - GateCrop.x0 >= 4
                     /\ GateCrop.y1 - GateCrop.y0 >= 4
                     /\ contrast
                  THEN "gated" ELSE "skipped"
    /\ UNCHANGED <<page, box, bbox, crop>>

(* An engine cuts the region out of the page: OCR when the gate is passed, *)
(* the other two without it.  Nothing is read from an empty crop.          *)
Crop ==
    /\ stage \in {"resolved", "gated"}
    /\ crop' = IF Empty(EngineCrop) THEN None ELSE EngineCrop
    /\ stage' = "cropped"
    /\ UNCHANGED <<page, box, bbox, gate>>

RegionNext == Resolve \/ Gate \/ Crop

RegionSpec == RegionInit /\ [][RegionNext]_regionVars

-----------------------------------------------------------------------------
(* The pixels of a box, by its meaning: its edges as the page shows them,  *)
(* cut at the edges of the page, in twelfths of a pixel.                   *)
Left  == Within(25 * Lower(box.l, box.r), 25 * page.w)
Right == Within(25 * Higher(box.l, box.r), 25 * page.w)
Top   == Within(25 * Lower(FromTop(box.t), FromTop(box.b)), 25 * page.h)
Under == Within(25 * Higher(FromTop(box.t), FromTop(box.b)), 25 * page.h)

(* Within a pixel.                                                         *)
Near(pixel, v) == 12 * pixel - v <= 12 /\ v - 12 * pixel <= 12

Shows(c) == Near(c.x0, Left) /\ Near(c.x1, Right) /\ Near(c.y0, Top) /\ Near(c.y1, Under)

(* An engine is given the pixels of the region and no others, wherever the *)
(* box counts from, however its corners are ordered and however far it     *)
(* sticks out of the page, and it is given nothing only if a pixel or less *)
(* of the region shows; provided the box was resolved and the height was   *)
(* known where it is needed.                                               *)
CropShowsRegion ==
    stage = "cropped" /\ bbox # None /\ (page.known \/ box.origin = "TOPLEFT") =>
        IF crop = None THEN Right - Left <= 12 \/ Under - Top <= 12 ELSE Shows(crop)

(* The two cuts, made in two modules, agree: OCR reads exactly the pixels  *)
(* whose contrast was measured, inside the image and never an empty cut.   *)
OcrReadsWhatWasGated ==
    stage = "cropped" /\ gate # None => crop = gate /\ ~Empty(crop)
=============================================================================
