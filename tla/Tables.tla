------------------------------- MODULE Tables -------------------------------
(***************************************************************************)
(* From the cells TableFormer finds to the Markdown of a table block:      *)
(* _resolve_table (pipeline/layout.py), arabic_normalize.normalize and     *)
(* grid_to_markdown (pipeline/tables.py).  A text is a sequence of         *)
(* characters, of which only those matter that have a meaning in Markdown, *)
(* or get one by normalisation.                                            *)
(***************************************************************************)
EXTENDS Naturals, Sequences, SequencesExt

CONSTANT MaxTableChars \* settings.max_table_chars

ASSUME TablesAssumption == MaxTableChars \in Nat

Char == {"letter",
         "shaped",  \* an Arabic presentation form; NFKC makes it a letter
         "wide",    \* a full-width bar; NFKC makes it a bar
         "bar", "newline"}

(* Rows top .. bottom - 1 and columns left .. right - 1, counted from 0.   *)
(* Texts are stripped: none begins or ends with a line break.              *)
Cell == {c \in [top : Nat, bottom : Nat, left : Nat, right : Nat, text : Seq(Char)] :
           /\ c.top < c.bottom /\ c.left < c.right
           /\ c.text # <<>> => Head(c.text) # "newline" /\ Last(c.text) # "newline"}

Rows(cells)    == Max({cells[i].bottom : i \in DOMAIN cells})
Columns(cells) == Max({cells[i].right : i \in DOMAIN cells})

Covers(c, r, k) == r \in c.top + 1 .. c.bottom /\ k \in c.left + 1 .. c.right

(* _resolve_table: cells are written one after another, into every slot    *)
(* they span.                                                              *)
Slot(cells, r, k) ==
    LET written[n \in 0 .. Len(cells)] ==
          IF n = 0 THEN <<>>
          ELSE IF Covers(cells[n], r, k) THEN cells[n].text
          ELSE written[n - 1]
    IN  written[Len(cells)]

Grid(cells) ==
    [r \in 1 .. Rows(cells) |-> [k \in 1 .. Columns(cells) |-> Slot(cells, r, k)]]

NFKC(ch) == CASE ch = "shaped" -> "letter" [] ch = "wide" -> "bar" [] OTHER -> ch

Normalize(text) == [i \in DOMAIN text |-> NFKC(text[i])]

(* _escape_cell: no bar and no newline is left in a cell.                  *)
Escape(text) ==
    [i \in DOMAIN text |-> CASE text[i] = "bar" -> "escaped bar"
                             [] text[i] = "newline" -> "blank"
                             [] OTHER -> text[i]]

(* str.join: the parts, with the mark between them.                        *)
JoinedBy(mark, parts) ==
    LET joined[n \in 1 .. Len(parts)] ==
          IF n = 1 THEN parts[1] ELSE joined[n - 1] \o <<mark>> \o parts[n]
    IN  joined[Len(parts)]

(* A bar before, between and after the cells of a row.                     *)
Line(row) == JoinedBy("bar", <<<<>>>> \o row \o <<<<>>>>)

LastLine == Line(<<<<"truncated">>>>)

(* Cut at max_table_chars, with a last line that says so.                  *)
Truncated(md) ==
    IF Len(md) <= MaxTableChars THEN md
    ELSE SubSeq(md, 1, MaxTableChars) \o <<"newline">> \o LastLine

LinesOf(grid) ==
    LET lines == [r \in DOMAIN grid |->
                    Line([k \in DOMAIN grid[r] |-> Escape(grid[r][k])])]
        rule  == Line([k \in DOMAIN grid[1] |-> <<"---">>])
    IN  <<lines[1], rule>> \o Tail(lines)

GridToMarkdown(grid) == Truncated(JoinedBy("newline", LinesOf(grid)))

(* Mutated form of TableMarkdown: what is normalised is the Markdown.      *)
TableMarkdownThenNormalize(cells) == Normalize(GridToMarkdown(Grid(cells)))

NormalizedGrid(cells) ==
    [r \in 1 .. Rows(cells) |->
       [k \in 1 .. Columns(cells) |-> Normalize(Grid(cells)[r][k])]]

(* The table branch of _process_region.                                    *)
TableMarkdown(cells) == GridToMarkdown(NormalizedGrid(cells))

-----------------------------------------------------------------------------
(* What a reader of Markdown makes of it: it takes one character after     *)
(* another, and begins a new part after a mark.                            *)
Take(parts, ch, mark) ==
    IF ch = mark THEN Append(parts, <<>>)
    ELSE [parts EXCEPT ![Len(parts)] = Append(@, ch)]

Split(s, mark) ==
    LET parts[n \in 0 .. Len(s)] ==
          IF n = 0 THEN <<<<>>>> ELSE Take(parts[n - 1], s[n], mark)
    IN  parts[Len(s)]

Unescaped(text) ==
    [i \in DOMAIN text |-> IF text[i] = "escaped bar" THEN "bar" ELSE text[i]]

CellsOf(line) ==
    LET parts == Split(line, "bar")
    IN  [k \in 1 .. Len(parts) - 2 |-> Unescaped(parts[k + 1])]

(* The lines that truncation left whole.                                   *)
WholeLines(md) ==
    LET lines == Split(md, "newline")
    IN  IF CellsOf(lines[Len(lines)]) = <<<<"truncated">>>>
        THEN SubSeq(lines, 1, Len(lines) - 2) ELSE lines

(* The rows of these, without the rule.                                    *)
RowsOf(md) ==
    LET whole == WholeLines(md)
    IN  [n \in 1 .. Len(whole) - (IF Len(whole) < 2 THEN 0 ELSE 1) |->
           CellsOf(IF n = 1 THEN whole[1] ELSE whole[n + 1])]

(* The text of a cell on the page: a line break shows as a blank.          *)
Shown(text) == [i \in DOMAIN text |-> IF NFKC(text[i]) = "newline" THEN "blank"
                                      ELSE NFKC(text[i])]

(* In (r, k) one reads the last of the cells that cover it, with the       *)
(* characters normalisation gives it; a slot that no cell covers is empty; *)
(* no row has more or fewer columns than the table.                        *)
ReadsBack(cells, md) ==
    LET rows == RowsOf(md) IN
    /\ Len(rows) = Rows(cells) \/ Len(md) > MaxTableChars
    /\ \A r \in DOMAIN rows :
         /\ Len(rows[r]) = Columns(cells)
         /\ \A k \in DOMAIN rows[r] :
              LET over == {i \in DOMAIN cells : Covers(cells[i], r, k)}
                  text == IF over = {} THEN <<>> ELSE cells[Max(over)].text
              IN  rows[r][k] = Shown(text)
=============================================================================
