----------------------------- MODULE TableGrid -----------------------------
(***************************************************************************)
(* A recognized table on its way to Markdown: the HTML that a model writes *)
(* is read tag by tag (_TableParser in                                     *)
(* python/ocr-service/dolico_ocr/tables.py), laid out cell by cell as a    *)
(* grid of origins and shadows (parse_table_html), and written as a pipe   *)
(* table (writeTable in src/internal/render/markdown.go) or, by the vision *)
(* tier, as a column of paragraphs (_flatten_single_column in              *)
(* canonical.py).                                                          *)
(*                                                                         *)
(* The tags come in any order the model may write them.  The text of a     *)
(* cell is its number among the cells, in the order of the HTML; 0 is no   *)
(* text.                                                                   *)
(***************************************************************************)
EXTENDS Integers, Sequences, FiniteSetsExt

CONSTANTS MaxCells, \* how many cells the HTML starts
          MaxRows,  \* how many rows it starts
          CellTags  \* the cells it may start: <th> or not, rowspan, colspan

ASSUME TableGridAssumption ==
  /\ MaxCells \in Nat /\ MaxRows \in Nat
  /\ CellTags \subseteq BOOLEAN \X (Nat \ {0}) \X (Nat \ {0})

VARIABLES rows,   \* the rows that are complete
          row,    \* the row that is open, or Closed
          cell,   \* the cell that is open, or Closed
          inHead, \* between a <thead> and its end; a table may have several
          cells,  \* how many cells were started
          starts, \* how many rows were started
          tidy,   \* history: every tag was closed where it should be
          phase,  \* "html", "layout", "heads" or "done"
          grid,   \* what stands at the positions that are taken
          line, nth, \* the row, and the cell of it, that is laid out next
          col,    \* the column it may have at the earliest
          headerRows

htmlVars   == <<rows, row, cell, inHead, cells, starts, tidy>>
layoutVars == <<grid, line, nth, col, headerRows>>
tableVars  == <<htmlVars, phase, layoutVars>>

Closed == <<>>
NewRow == [cells |-> <<>>, inHead |-> inHead]

TableInit == /\ rows = <<>> /\ row = Closed /\ cell = Closed
             /\ inHead = FALSE
             /\ cells = 0 /\ starts = 0 /\ tidy = TRUE
             /\ phase = "html"
             /\ grid = <<>> /\ line = 1 /\ nth = 1 /\ col = 1 /\ headerRows = 0

-----------------------------------------------------------------------------
(* _TableParser: handle_starttag, handle_endtag, close. *)

Tidy(b) == tidy' = (tidy /\ b)

THead == /\ inHead' = ~inHead
         /\ UNCHANGED <<rows, row, cell, cells, starts, tidy>>

(* A row that is still open is dropped. *)
StartRow == /\ starts < MaxRows
            /\ starts' = starts + 1
            /\ row' = NewRow
            /\ Tidy(cell = Closed /\ (row = Closed \/ row.cells = <<>>))
            /\ UNCHANGED <<rows, cell, inHead, cells>>

EndRow == /\ row # Closed
          /\ rows' = Append(rows, row)
          /\ row' = Closed
          /\ Tidy(cell = Closed)
          /\ UNCHANGED <<cell, inHead, cells, starts>>

(* <td> or <th> and the text in it.  It opens a row where there is none, and *)
(* drops a cell that is still open.                                          *)
StartCell(tag) ==
  /\ cells < MaxCells
  /\ cells' = cells + 1
  /\ row' = IF row = Closed THEN NewRow ELSE row
  /\ cell' = [text |-> cells + 1, rows |-> tag[2], cols |-> tag[3], header |-> tag[1] \/ inHead]
  /\ Tidy(row # Closed /\ cell = Closed)
  /\ UNCHANGED <<rows, inHead, starts>>

EndCell == /\ cell # Closed
           /\ row' = IF row = Closed THEN row
                     ELSE [row EXCEPT !.cells = Append(@, cell)]
           /\ cell' = Closed
           /\ Tidy(row # Closed)
           /\ UNCHANGED <<rows, inHead, cells, starts>>

(* MUTANT of Kept: an unterminated row goes with the parser. *)
KeptTerminated == rows

(* close(): an unterminated row is kept with the cells it has. *)
Kept == IF row # Closed /\ row.cells # <<>> THEN Append(rows, row) ELSE rows

(* The HTML ends, anywhere; of the parser only its rows are used from here on. *)
EndOfHTML == /\ rows' = Kept
             /\ Tidy(cell = Closed)
             /\ row' = Closed /\ cell' = Closed /\ inHead' = FALSE /\ starts' = 0
             /\ phase' = "layout"
             /\ UNCHANGED <<cells, layoutVars>>

Tag == /\ StartRow \/ EndRow \/ EndCell \/ THead
          \/ \E tag \in CellTags : StartCell(tag)
       /\ UNCHANGED <<phase, layoutVars>>

-----------------------------------------------------------------------------
(* parse_table_html.  What stands at a position says where its origin is:    *)
(* `at` is the position itself for an origin, and "covered_by" for a shadow. *)

Origin(p, c) == [at |-> p, text |-> c.text, rows |-> c.rows, cols |-> c.cols]
Shadow(p)    == [at |-> p, text |-> 0, rows |-> 1, cols |-> 1]
EmptySlot(p) == [at |-> p, text |-> 0, rows |-> 1, cols |-> 1]
Area(p, c)   == (p[1]..(p[1] + c.rows - 1)) \X (p[2]..(p[2] + c.cols - 1))

(* MUTANT of Taken: what an earlier span has taken is not passed over. *)
TakenNever == FALSE

Taken == <<line, col>> \in DOMAIN grid

InRow == line <= Len(rows) /\ nth <= Len(rows[line].cells)

Skip == /\ InRow /\ Taken
        /\ col' = col + 1
        /\ UNCHANGED <<htmlVars, phase, grid, line, nth, headerRows>>

Place == /\ InRow /\ ~Taken
         /\ LET c == rows[line].cells[nth]
                p == <<line, col>>
            IN /\ grid' = [q \in DOMAIN grid \cup Area(p, c) |->
                             IF q = p THEN Origin(p, c)
                             ELSE IF q \in Area(p, c) THEN Shadow(p) ELSE grid[q]]
               /\ col' = col + c.cols
         /\ nth' = nth + 1
         /\ UNCHANGED <<htmlVars, phase, line, headerRows>>

PlaceRow == /\ line <= Len(rows) /\ nth > Len(rows[line].cells)
            /\ line' = line + 1 /\ nth' = 1 /\ col' = 1
            /\ UNCHANGED <<htmlVars, phase, grid, headerRows>>

LaidOut == /\ line > Len(rows)
           /\ phase' = "heads"
           /\ UNCHANGED <<htmlVars, layoutVars>>

IsHeader(w) == w.inHead \/ (w.cells # <<>> /\ \A c \in DOMAIN w.cells : w.cells[c].header)

MoreHeads == headerRows < Len(rows) /\ IsHeader(rows[headerRows + 1])

CountHead == /\ MoreHeads
             /\ headerRows' = headerRows + 1
             /\ UNCHANGED <<htmlVars, phase, grid, line, nth, col>>

HeadsCounted == /\ ~MoreHeads
                /\ phase' = "done"
                /\ UNCHANGED <<htmlVars, layoutVars>>

TableNext == \/ phase = "html" /\ (Tag \/ EndOfHTML)
             \/ phase = "layout" /\ (Skip \/ Place \/ PlaceRow \/ LaidOut)
             \/ phase = "heads" /\ (CountHead \/ HeadsCounted)

TableSpec == TableInit /\ [][TableNext]_tableVars

-----------------------------------------------------------------------------
(* What is returned: what no cell claims becomes an empty origin. *)

Width  == Max({0} \cup {p[2] : p \in DOMAIN grid})
Height == Max({Len(rows)} \cup {p[1] : p \in DOMAIN grid})

Positions == (1..Height) \X (1..Width)
Grid == [p \in Positions |-> IF p \in DOMAIN grid THEN grid[p] ELSE EmptySlot(p)]

(* Markdown.  writeTable writes every position, row by row, and              *)
(* _flatten_single_column the first one of every row.                        *)
Written(tier) == IF tier = "vision" /\ Width <= 1 THEN {p \in Positions : p[2] = 1}
                 ELSE Positions

Said(tier) == {p \in Written(tier) : Grid[p].text # 0}

(* How many rows writeTable puts above the separator: without a header the   *)
(* first one.                                                                *)
Above == IF Width = 0 THEN 0
         ELSE IF headerRows = 0 THEN 1 ELSE Min({headerRows, Height})

-----------------------------------------------------------------------------
Before(p, q) == p[1] < q[1] \/ (p[1] = q[1] /\ p[2] < q[2])

(* What stands above the separator is what the HTML says is a header, or the *)
(* first row of a table that has none; the row below it is no header.        *)
HeaderIsSaid ==
  /\ headerRows > 0 => \A i \in 1..Above : i \in DOMAIN rows /\ IsHeader(rows[i])
  /\ headerRows < Len(rows) => ~IsHeader(rows[headerRows + 1])

(* Of HTML whose tags are closed where they should be, an unterminated last  *)
(* row included, every cell is in the Markdown once, in the order of the     *)
(* HTML; of any other HTML no cell is there twice or out of order.  No row   *)
(* of the body becomes a header beside others ("guessing would put invented  *)
(* structure into the canonical model").  (parse_table_html, writeTable:     *)
(* spans push cells aside.)                                                  *)
TextSurvives ==
  phase = "done" =>
    /\ \A tier \in {"layout", "vision"} :
         /\ tidy => {Grid[p].text : p \in Said(tier)} = 1..cells
         /\ \A p, q \in Said(tier) : Before(p, q) => Grid[p].text < Grid[q].text
    /\ HeaderIsSaid

(* The grid can be read by its spans: a shadow points at an origin that      *)
(* spans into it, and no cell lies in the span of another.  (Cells that      *)
(* overlap in the HTML share shadows, and the later one has them.)           *)
SpansPointHome ==
  phase = "done" =>
    \A p \in Positions : LET o == Grid[p].at IN
      IF o # p
      THEN o \in Positions /\ Grid[o].at = o /\ p \in Area(o, Grid[o])
      ELSE \A q \in Area(p, Grid[p]) \ {p} : q \in Positions /\ Grid[q].at # q
=============================================================================
