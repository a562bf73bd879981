-------------------------- MODULE TableGrid_proofs --------------------------
(***************************************************************************)
(* Proofs about TableGrid, for any number of cells and rows, any spans and *)
(* any sequence of tags.                                                   *)
(***************************************************************************)
EXTENDS TableGrid, WellFoundedInduction, TLAPS

-----------------------------------------------------------------------------
(* What the parser has.                                                     *)

Pos == Nat \ {0}

CellT == [text : Pos, rows : Pos, cols : Pos, header : BOOLEAN]
RowT  == [cells : Seq(CellT), inHead : BOOLEAN]

(* The cells of the rows, and their texts.                                  *)
At(rs) == {x \in Pos \X Pos : x[1] <= Len(rs) /\ x[2] <= Len(rs[x[1]].cells)}
TextAt(rs, x) == rs[x[1]].cells[x[2]].text
Texts(rs) == {TextAt(rs, x) : x \in At(rs)}

(* The texts increase in the order that rows are written.                   *)
Ordered(rs) == \A x, y \in At(rs) : Before(x, y) => TextAt(rs, x) < TextAt(rs, y)

(* The rows, the one that is open included.                                 *)
All == IF row = Closed THEN rows ELSE Append(rows, row)

TypeInv ==
  /\ rows \in Seq(RowT)
  /\ row \in RowT \cup {Closed}
  /\ cell \in CellT \cup {Closed}
  /\ cells \in Nat /\ starts \in Nat /\ tidy \in BOOLEAN /\ inHead \in BOOLEAN
  /\ phase \in {"html", "layout", "heads", "done"}
  /\ line \in Pos /\ nth \in Pos /\ col \in Pos /\ headerRows \in Nat

(* Every cell has been read after those that stand before it; a cell that is *)
(* open comes after all of them; and no cell of tidy HTML is missing.        *)
ParsedInv ==
  /\ Ordered(All)
  /\ Texts(All) \subseteq 1..cells
  /\ cell # Closed => cell.text \in 1..cells /\ \A n \in Texts(All) : n < cell.text
  /\ tidy => \A n \in 1..cells : n \in Texts(All) \/ (cell # Closed /\ n = cell.text)
  /\ phase # "html" => row = Closed /\ cell = Closed

-----------------------------------------------------------------------------
(* What is laid out.                                                        *)

Origins == {p \in DOMAIN grid : grid[p].at = p}

(* The cells that have been placed.                                         *)
Placed == {x \in At(rows) : x[1] < line \/ (x[1] = line /\ x[2] < nth)}

(* An origin is a cell of its own row that has been placed.                 *)
Stands(p) == \E k \in Pos : <<p[1], k>> \in Placed /\ grid[p] = Origin(p, rows[p[1]].cells[k])

GridInv ==
  /\ \E n \in Nat : DOMAIN grid \subseteq (1..n) \X (1..n)
  /\ \A p \in Origins : Stands(p) /\ Before(p, <<line, col>>)
  /\ \A p \in DOMAIN grid \ Origins :
       /\ grid[p].text = 0
       /\ grid[p].at \in Origins
       /\ p \in Area(grid[p].at, grid[grid[p].at])
  /\ \A o \in Origins : \A q \in Area(o, grid[o]) \ {o} : q \in DOMAIN grid \ Origins
  /\ \A x \in Placed : \E o \in Origins : grid[o].text = TextAt(rows, x)
  /\ \A p, q \in Origins : Before(p, q) => grid[p].text < grid[q].text

(* Which part of the work is done in which phase.                           *)
PhaseInv ==
  /\ phase = "html" => DOMAIN grid = {} /\ line = 1 /\ nth = 1 /\ headerRows = 0
  /\ phase \in {"heads", "done"} => line > Len(rows)
  /\ headerRows <= Len(rows) /\ \A i \in 1..headerRows : IsHeader(rows[i])
  /\ phase = "done" => ~MoreHeads

TableInv == TypeInv /\ ParsedInv /\ GridInv /\ PhaseInv
-----------------------------------------------------------------------------
(* Rows and cells.                                                          *)

LEMMA RowIsNotClosed == ASSUME NEW w \in RowT PROVE w # Closed
  BY DEF RowT, Closed

LEMMA CellIsNotClosed == ASSUME NEW c \in CellT PROVE c # Closed
  BY DEF CellT, Closed

LEMMA NewRowIs == TypeInv => NewRow \in RowT /\ NewRow.cells = <<>>
  BY DEF TypeInv, NewRow, RowT

LEMMA CellAt ==
  ASSUME NEW rs \in Seq(RowT), NEW x \in At(rs)
  PROVE  /\ x[1] \in 1..Len(rs) /\ rs[x[1]] \in RowT
         /\ rs[x[1]].cells \in Seq(CellT) /\ x[2] \in 1..Len(rs[x[1]].cells)
         /\ rs[x[1]].cells[x[2]] \in CellT /\ TextAt(rs, x) \in Pos
  <1>1. x[1] \in 1..Len(rs) /\ rs[x[1]] \in RowT
    BY DEF At, Pos
  <1>2. rs[x[1]].cells \in Seq(CellT) /\ x[2] \in 1..Len(rs[x[1]].cells)
    BY <1>1 DEF At, RowT, Pos
  <1>3. rs[x[1]].cells[x[2]] \in CellT
    BY <1>2
  <1> QED BY <1>1, <1>2, <1>3 DEF TextAt, CellT

(* A row after the others changes nothing about them.                       *)
LEMMA RowAfter ==
  ASSUME NEW rs \in Seq(RowT), NEW w \in RowT
  PROVE  /\ Append(rs, w) \in Seq(RowT)
         /\ At(rs) \subseteq At(Append(rs, w))
         /\ \A x \in At(rs) : x[1] <= Len(rs) /\ TextAt(Append(rs, w), x) = TextAt(rs, x)
         /\ \A x \in At(Append(rs, w)) :
              x \in At(rs) \/ (x[1] = Len(rs) + 1 /\ x[2] \in 1..Len(w.cells))
  <1>1. Append(rs, w) \in Seq(RowT) /\ Len(Append(rs, w)) = Len(rs) + 1 /\ Len(rs) \in Nat
    OBVIOUS
  <1>2. \A r \in 1..Len(rs) : Append(rs, w)[r] = rs[r]
    OBVIOUS
  <1>3. Append(rs, w)[Len(rs) + 1] = w
    OBVIOUS
  <1>4. \A x \in At(rs) : x[1] \in 1..Len(rs)
    BY CellAt
  <1> QED BY <1>1, <1>2, <1>3, <1>4 DEF At, TextAt, Pos

LEMMA FewerRows ==
  ASSUME NEW rs \in Seq(RowT), NEW w \in RowT
  PROVE  /\ Texts(rs) \subseteq Texts(Append(rs, w))
         /\ Ordered(Append(rs, w)) => Ordered(rs)
  BY RowAfter DEF Texts, Ordered

LEMMA EmptyRow ==
  ASSUME NEW rs \in Seq(RowT), NEW w \in RowT, w.cells = <<>>
  PROVE  /\ Texts(Append(rs, w)) = Texts(rs)
         /\ Ordered(Append(rs, w)) <=> Ordered(rs)
  <1>1. \A k : k \notin 1..Len(w.cells)
    OBVIOUS
  <1>2. \A x : x \in At(Append(rs, w)) <=> x \in At(rs)
    BY <1>1, RowAfter
  <1>3. At(Append(rs, w)) = At(rs)
    BY <1>2
  <1> QED BY <1>3, RowAfter DEF Texts, Ordered

(* One more cell in the last row.                                           *)
LEMMA OneMoreCell ==
  ASSUME NEW rs \in Seq(RowT), NEW w \in RowT, NEW c \in CellT,
         Ordered(Append(rs, w)), \A n \in Texts(Append(rs, w)) : n < c.text
  PROVE  \E v \in RowT : /\ v = [w EXCEPT !.cells = Append(@, c)]
                         /\ Ordered(Append(rs, v))
                         /\ Texts(Append(rs, v)) = Texts(Append(rs, w)) \cup {c.text}
  <1> PICK v : v = [w EXCEPT !.cells = Append(@, c)]
    OBVIOUS
  <1> DEFINE old == Append(rs, w)
             new == Append(rs, v)
             y == <<Len(rs) + 1, Len(w.cells) + 1>>
  <1>1. v \in RowT /\ v.cells = Append(w.cells, c) /\ w.cells \in Seq(CellT)
    <2>1. w.cells \in Seq(CellT) /\ w.inHead \in BOOLEAN
      BY DEF RowT
    <2>2. Append(w.cells, c) \in Seq(CellT)
      BY <2>1
    <2>3. v = [cells |-> Append(w.cells, c), inHead |-> w.inHead]
      BY DEF RowT
    <2> QED BY <2>1, <2>2, <2>3 DEF RowT
  <1>2. /\ old \in Seq(RowT) /\ new \in Seq(RowT) /\ Len(rs) \in Nat
        /\ Len(old) = Len(rs) + 1 /\ Len(new) = Len(rs) + 1
        /\ \A r \in 1..Len(rs) : old[r] = rs[r] /\ new[r] = rs[r]
        /\ old[Len(rs) + 1] = w /\ new[Len(rs) + 1] = v
    BY <1>1
  <1>3. /\ Len(v.cells) = Len(w.cells) + 1 /\ Len(w.cells) \in Nat
        /\ \A k \in 1..Len(w.cells) : v.cells[k] = w.cells[k]
        /\ v.cells[Len(w.cells) + 1] = c
    BY <1>1
  <1> HIDE DEF old, new
  <1>4. \A x \in At(old) : x[1] \in 1..Len(rs) + 1 /\ x[2] \in Pos
    BY <1>2 DEF At, Pos
  <1>5. \A x \in At(old) : x \in At(new) /\ TextAt(new, x) = TextAt(old, x)
    <2> TAKE x \in At(old)
    <2>1. x \in Pos \X Pos /\ x[1] <= Len(old) /\ x[2] <= Len(old[x[1]].cells)
      BY DEF At
    <2>2. CASE x[1] \in 1..Len(rs)
      BY <2>1, <2>2, <1>2 DEF At, TextAt
    <2>3. CASE x[1] = Len(rs) + 1
      <3>1. x[2] \in 1..Len(w.cells)
        BY <2>1, <2>3, <1>2, <1>3 DEF Pos
      <3>2. x[1] <= Len(new) /\ x[2] <= Len(v.cells) /\ new[x[1]] = v /\ old[x[1]] = w
        BY <2>3, <3>1, <1>2, <1>3
      <3>3. v.cells[x[2]] = w.cells[x[2]]
        BY <3>1, <1>3
      <3>4. x \in At(new)
        BY <2>1, <3>2 DEF At
      <3> QED BY <3>2, <3>3, <3>4 DEF TextAt
    <2> QED BY <2>2, <2>3, <1>4, <1>2
  <1>6. y \in At(new) /\ TextAt(new, y) = c.text
    <2>1. y \in Pos \X Pos /\ y[1] = Len(rs) + 1 /\ y[2] = Len(w.cells) + 1
      BY <1>2, <1>3 DEF Pos
    <2> HIDE DEF y
    <2>2. new[y[1]] = v /\ y[1] <= Len(new) /\ y[2] <= Len(v.cells) /\ v.cells[y[2]] = c
      BY <2>1, <1>2, <1>3
    <2>3. y \in At(new)
      BY <2>1, <2>2 DEF At
    <2> QED BY <2>2, <2>3 DEF TextAt
  <1>7. \A x \in At(new) : x \in At(old) \/ x = y
    <2> TAKE x \in At(new)
    <2>1. x \in Pos \X Pos /\ x[1] <= Len(new) /\ x[2] <= Len(new[x[1]].cells)
      BY DEF At
    <2>2. CASE x[1] \in 1..Len(rs)
      BY <2>1, <2>2, <1>2 DEF At
    <2>3. CASE x[1] = Len(rs) + 1
      <3>1. x[2] <= Len(w.cells) + 1
        BY <2>1, <2>3, <1>2, <1>3
      <3>2. CASE x[2] <= Len(w.cells)
        BY <2>1, <2>3, <3>2, <1>2 DEF At
      <3>3. CASE x[2] = Len(w.cells) + 1
        BY <2>1, <2>3, <3>3
      <3> QED BY <2>1, <3>1, <3>2, <3>3, <1>3 DEF Pos
    <2> QED BY <2>1, <2>2, <2>3, <1>2 DEF Pos
  <1>8. \A x \in At(old) : ~Before(y, x)
    BY <1>2, <1>3, <1>4 DEF At, Before, Pos
  <1>9. ~Before(y, y)
    BY <1>2, <1>3 DEF Before
  <1>10. Ordered(new)
    <2> SUFFICES ASSUME NEW x \in At(new), NEW z \in At(new), Before(x, z)
                 PROVE  TextAt(new, x) < TextAt(new, z)
      BY DEF Ordered
    <2>1. x \in At(old)
      BY <1>7, <1>8, <1>9
    <2>2. CASE z \in At(old)
      BY <2>1, <2>2, <1>5 DEF Ordered, old
    <2>3. CASE z = y
      BY <2>1, <2>3, <1>5, <1>6 DEF Texts, old
    <2> QED BY <2>2, <2>3, <1>7
  <1>11. Texts(new) = Texts(old) \cup {c.text}
    BY <1>5, <1>6, <1>7 DEF Texts
  <1> QED BY <1>1, <1>10, <1>11 DEF old, new

-----------------------------------------------------------------------------
(* Types.                                                                   *)

LEMMA TypeInit == TableInit => TypeInv
  <1> SUFFICES ASSUME TableInit PROVE TypeInv
    OBVIOUS
  <1> USE DEF TableInit
  <1>1. rows \in Seq(RowT)
    OBVIOUS
  <1>2. row \in RowT \cup {Closed} /\ cell \in CellT \cup {Closed}
    OBVIOUS
  <1>3. /\ tidy \in BOOLEAN /\ inHead \in BOOLEAN
        /\ phase \in {"html", "layout", "heads", "done"}
    BY Zenon
  <1>4. cells \in Nat /\ starts \in Nat /\ headerRows \in Nat
        /\ line \in Pos /\ nth \in Pos /\ col \in Pos
    BY DEF Pos
  <1> QED BY <1>1, <1>2, <1>3, <1>4, Zenon DEF TypeInv

LEMMA CellToPlace ==
  ASSUME TypeInv, InRow
  PROVE  /\ rows[line] \in RowT /\ rows[line].cells \in Seq(CellT)
         /\ rows[line].cells[nth] \in CellT
         /\ <<line, nth>> \in At(rows)
  <1>1. line \in 1..Len(rows) /\ rows[line] \in RowT
    BY DEF TypeInv, InRow, Pos
  <1>2. rows[line].cells \in Seq(CellT) /\ nth \in 1..Len(rows[line].cells)
    BY <1>1 DEF TypeInv, InRow, Pos, RowT
  <1>3. rows[line].cells[nth] \in CellT
    BY <1>2
  <1> QED BY <1>1, <1>2, <1>3 DEF At, Pos

LEMMA TypeStep == TypeInv /\ [TableNext]_tableVars => TypeInv'
  <1> SUFFICES ASSUME TypeInv, [TableNext]_tableVars
               PROVE  TypeInv'
    OBVIOUS
  <1> USE DEF TypeInv
  <1>1. ASSUME StartRow, UNCHANGED <<phase, layoutVars>> PROVE TypeInv'
    <2>1. row' \in RowT
      BY <1>1, NewRowIs DEF StartRow
    <2> QED BY <1>1, <2>1 DEF StartRow, layoutVars, Tidy
  <1>2. ASSUME EndRow, UNCHANGED <<phase, layoutVars>> PROVE TypeInv'
    <2>1. rows' \in Seq(RowT)
      BY <1>2, RowAfter DEF EndRow
    <2> QED BY <1>2, <2>1 DEF EndRow, layoutVars, Tidy
  <1>3. ASSUME EndCell, UNCHANGED <<phase, layoutVars>> PROVE TypeInv'
    <2>1. row' \in RowT \cup {Closed}
      <3>1. CASE row = Closed
        BY <1>3, <3>1 DEF EndCell
      <3>2. CASE row # Closed
        <4>1. /\ row.cells \in Seq(CellT) /\ row.inHead \in BOOLEAN /\ cell \in CellT
              /\ row' = [cells |-> Append(row.cells, cell), inHead |-> row.inHead]
          BY <1>3, <3>2 DEF EndCell, RowT
        <4>2. Append(row.cells, cell) \in Seq(CellT)
          BY <4>1
        <4> QED BY <4>1, <4>2 DEF RowT
      <3> QED BY <3>1, <3>2
    <2> QED BY <1>3, <2>1 DEF EndCell, layoutVars, Tidy
  <1>4. ASSUME THead, UNCHANGED <<phase, layoutVars>> PROVE TypeInv'
    BY <1>4 DEF THead, layoutVars
  <1>5. ASSUME NEW tag \in CellTags, StartCell(tag),
               UNCHANGED <<phase, layoutVars>>
        PROVE  TypeInv'
    <2>1. cell' \in CellT
      BY <1>5, TableGridAssumption DEF StartCell, CellT, Pos
    <2>2. row' \in RowT \cup {Closed}
      BY <1>5, NewRowIs DEF StartCell
    <2> QED BY <1>5, <2>1, <2>2 DEF StartCell, layoutVars, Tidy
  <1>6. ASSUME EndOfHTML PROVE TypeInv'
    <2>1. rows' \in Seq(RowT)
      BY <1>6, RowAfter DEF EndOfHTML, Kept
    <2> QED BY <1>6, <2>1 DEF EndOfHTML, layoutVars, Tidy
  <1>7. ASSUME Skip PROVE TypeInv'
    BY <1>7 DEF Skip, htmlVars, Pos
  <1>8. ASSUME Place PROVE TypeInv'
    <2>1. rows[line].cells[nth].cols \in Pos
      BY <1>8, CellToPlace DEF Place, CellT
    <2>2. col' = col + rows[line].cells[nth].cols
      BY <1>8 DEF Place
    <2>3. col' \in Pos
      BY <2>1, <2>2 DEF Pos
    <2> QED BY <1>8, <2>3 DEF Place, htmlVars, Pos
  <1>9. ASSUME PlaceRow PROVE TypeInv'
    BY <1>9 DEF PlaceRow, htmlVars, Pos
  <1>10. ASSUME LaidOut \/ HeadsCounted PROVE TypeInv'
    BY <1>10 DEF LaidOut, HeadsCounted, htmlVars, layoutVars
  <1>11. ASSUME CountHead PROVE TypeInv'
    BY <1>11 DEF CountHead, htmlVars
  <1>12. ASSUME UNCHANGED tableVars PROVE TypeInv'
    BY <1>12 DEF tableVars, htmlVars, layoutVars
  <1> QED BY <1>1, <1>2, <1>3, <1>4, <1>5, <1>6, <1>7, <1>8, <1>9, <1>10, <1>11, <1>12
          DEF TableNext, Tag

-----------------------------------------------------------------------------
(* The parser.                                                              *)

LEMMA NoCells == At(<<>>) = {} /\ Texts(<<>>) = {} /\ Ordered(<<>>)
  <1>1. At(<<>>) = {}
    BY DEF At, Pos
  <1> QED BY <1>1 DEF Texts, Ordered

LEMMA ParsedInit == TableInit => ParsedInv
  BY NoCells DEF TableInit, ParsedInv, All, Closed

LEMMA TextsAreNat ==
  ASSUME NEW rs \in Seq(RowT)
  PROVE  Texts(rs) \subseteq Pos
  BY CellAt DEF Texts

LEMMA ParsedStep == TypeInv /\ ParsedInv /\ [TableNext]_tableVars => ParsedInv'
  <1> SUFFICES ASSUME TypeInv, ParsedInv, [TableNext]_tableVars
               PROVE  ParsedInv'
    OBVIOUS
  <1>0. /\ rows \in Seq(RowT) /\ cells \in Nat /\ tidy \in BOOLEAN
        /\ row = Closed \/ row \in RowT
        /\ cell = Closed \/ cell \in CellT
    BY DEF TypeInv
  <1>1. ASSUME StartRow, phase' = phase, phase = "html" PROVE ParsedInv'
    <2>1. All' = Append(rows, NewRow)
      BY <1>1, NewRowIs, RowIsNotClosed DEF StartRow, All
    <2>2. Texts(All') = Texts(rows) /\ (Ordered(rows) => Ordered(All'))
      BY <1>0, <2>1, EmptyRow, NewRowIs
    <2>3. Texts(rows) \subseteq Texts(All) /\ (Ordered(All) => Ordered(rows))
      BY <1>0, FewerRows DEF All
    <2>4. row = Closed \/ row.cells = <<>> => Texts(rows) = Texts(All)
      BY <1>0, EmptyRow DEF All
    <2>5. cells' = cells /\ cell' = cell
          /\ (tidy' => tidy /\ cell = Closed /\ (row = Closed \/ row.cells = <<>>))
      BY <1>1 DEF StartRow, Tidy
    <2> QED BY <1>1, <2>2, <2>3, <2>4, <2>5 DEF ParsedInv
  <1>2. ASSUME EndRow, phase' = phase, phase = "html" PROVE ParsedInv'
    <2>1. All' = All /\ cells' = cells /\ cell' = cell /\ (tidy' => tidy)
      BY <1>2 DEF EndRow, All, Tidy
    <2> QED BY <1>2, <2>1 DEF ParsedInv
  <1>3. ASSUME EndCell, phase' = phase, phase = "html" PROVE ParsedInv'
    <2>1. cell # Closed /\ cell \in CellT /\ cell' = Closed /\ cells' = cells
          /\ (tidy' => tidy /\ row # Closed)
      BY <1>0, <1>3 DEF EndCell, Tidy
    <2>2. CASE row = Closed
      <3>1. All' = All
        BY <1>3, <2>2 DEF EndCell, All
      <3> QED BY <1>3, <2>1, <2>2, <3>1 DEF ParsedInv
    <2>3. CASE row # Closed
      <3>1. /\ row \in RowT /\ All = Append(rows, row) /\ rows' = rows
            /\ row' = [row EXCEPT !.cells = Append(@, cell)]
        BY <1>0, <1>3, <2>3 DEF EndCell, All
      <3>2. Ordered(Append(rows, row)) /\ \A n \in Texts(Append(rows, row)) : n < cell.text
        BY <2>1, <3>1 DEF ParsedInv
      <3>3. /\ row' \in RowT
            /\ Ordered(Append(rows, row'))
            /\ Texts(Append(rows, row')) = Texts(Append(rows, row)) \cup {cell.text}
        <4>1. rows \in Seq(RowT) /\ row \in RowT /\ cell \in CellT
          BY <1>0, <2>1, <3>1
        <4>2. PICK v \in RowT :
                /\ v = [row EXCEPT !.cells = Append(@, cell)]
                /\ Ordered(Append(rows, v))
                /\ Texts(Append(rows, v)) = Texts(Append(rows, row)) \cup {cell.text}
          BY ONLY <4>1, <3>2, OneMoreCell
        <4>3. row' = v
          BY <3>1, <4>2
        <4> QED BY <4>2, <4>3
      <3>4. All' = Append(rows, row')
        BY <3>1, <3>3, RowIsNotClosed DEF All
      <3>5. Ordered(All') /\ Texts(All') = Texts(All) \cup {cell.text}
        BY <3>1, <3>3, <3>4
      <3> QED BY <1>3, <2>1, <3>5 DEF ParsedInv
    <2> QED BY <2>2, <2>3
  <1>4. ASSUME THead, phase' = phase, phase = "html" PROVE ParsedInv'
    <2>1. All' = All /\ UNCHANGED <<cell, cells, tidy>>
      BY <1>4 DEF THead, All
    <2> QED BY <1>4, <2>1 DEF ParsedInv
  <1>5. ASSUME NEW tag \in CellTags, StartCell(tag),
               phase' = phase, phase = "html"
        PROVE  ParsedInv'
    <2>1. /\ cells' = cells + 1 /\ cell'.text = cells + 1 /\ rows' = rows
          /\ (tidy' => tidy /\ row # Closed /\ cell = Closed)
      BY <1>5 DEF StartCell, Tidy
    <2>2. Ordered(All') /\ Texts(All') = Texts(All)
      <3>1. CASE row = Closed
        <4>1. All' = Append(rows, NewRow)
          BY <1>5, <3>1, NewRowIs, RowIsNotClosed DEF StartCell, All
        <4> QED BY <1>0, <3>1, <4>1, NewRowIs, EmptyRow DEF ParsedInv, All
      <3>2. CASE row # Closed
        <4>1. All' = All
          BY <1>5, <3>2 DEF StartCell, All
        <4> QED BY <4>1 DEF ParsedInv
      <3> QED BY <3>1, <3>2
    <2>3. Texts(All) \subseteq 1..cells
      BY DEF ParsedInv
    <2>4. cell' # Closed
      <3>1. cell' \in CellT
        BY <1>0, <1>5, TableGridAssumption DEF StartCell, CellT, Pos
      <3> QED BY <3>1, CellIsNotClosed
    <2>5. tidy' => \A n \in 1..cells' : n \in Texts(All') \/ n = cell'.text
      <3>1. tidy' => \A n \in 1..cells : n \in Texts(All)
        BY <2>1 DEF ParsedInv
      <3>2. \A n \in 1..cells' : n \in 1..cells \/ n = cells + 1
        BY <1>0, <2>1
      <3> QED BY <2>1, <2>2, <3>1, <3>2
    <2>6. /\ Texts(All') \subseteq 1..cells'
          /\ cell'.text \in 1..cells' /\ \A n \in Texts(All') : n < cell'.text
      BY <1>0, <2>1, <2>2, <2>3
    <2> QED BY <1>5, <2>2, <2>4, <2>5, <2>6 DEF ParsedInv
  <1>6. ASSUME EndOfHTML PROVE ParsedInv'
    <2>1. /\ All' = Kept /\ cells' = cells /\ row' = Closed /\ cell' = Closed
          /\ (tidy' => tidy /\ cell = Closed)
      BY <1>6 DEF EndOfHTML, All, Tidy
    <2>2. Texts(Kept) = Texts(All) /\ (Ordered(All) => Ordered(Kept))
      BY <1>0, EmptyRow DEF Kept, All
    <2> QED BY <2>1, <2>2 DEF ParsedInv
  <1>7. ASSUME UNCHANGED htmlVars, phase # "html" \/ phase' = "html" PROVE ParsedInv'
    <2>1. All' = All /\ UNCHANGED <<row, cell, cells, tidy>>
      BY <1>7 DEF htmlVars, All
    <2> QED BY <1>7, <2>1 DEF ParsedInv
  <1>8. phase = "layout" /\ (Skip \/ Place \/ PlaceRow \/ LaidOut) => ParsedInv'
    BY <1>7 DEF Skip, Place, PlaceRow, LaidOut
  <1>9. phase = "heads" /\ (CountHead \/ HeadsCounted) => ParsedInv'
    BY <1>7 DEF CountHead, HeadsCounted
  <1>10. UNCHANGED tableVars => ParsedInv'
    BY <1>7 DEF tableVars
  <1> QED BY <1>1, <1>2, <1>3, <1>4, <1>5, <1>6, <1>8, <1>9, <1>10 DEF TableNext, Tag

-----------------------------------------------------------------------------
(* The layout.                                                              *)

LEMMA GridInit == TableInit => GridInv
  <1> SUFFICES ASSUME TableInit PROVE GridInv
    OBVIOUS
  <1>1. DOMAIN grid = {} /\ rows = <<>>
    BY DEF TableInit
  <1>2. Origins = {} /\ Placed = {}
    BY <1>1, NoCells DEF Origins, Placed
  <1>3. DOMAIN grid \subseteq (1..0) \X (1..0)
    BY <1>1
  <1> QED BY <1>1, <1>2, <1>3 DEF GridInv

(* Before the layout starts there is nothing.                               *)
LEMMA GridEmpty ==
  ASSUME DOMAIN grid' = {}, line' = 1, nth' = 1
  PROVE  GridInv'
  <1>1. Origins' = {}
    BY DEF Origins
  <1>2. Placed' = {}
    BY DEF Placed, At, Pos
  <1>3. DOMAIN grid' \subseteq (1..0) \X (1..0)
    OBVIOUS
  <1> QED BY <1>1, <1>2, <1>3 DEF GridInv

(* What an origin is: a cell that stands in its row.                        *)
LEMMA OriginIs ==
  ASSUME TypeInv, GridInv, NEW p \in Origins
  PROVE  /\ p \in DOMAIN grid /\ p \in Pos \X Pos
         /\ grid[p].text \in Texts(rows) /\ grid[p].text \in Pos
         /\ grid[p].rows \in Pos /\ grid[p].cols \in Pos
         /\ p[1] < line \/ (p[1] = line /\ p[2] < col)
  <1>1. p \in DOMAIN grid /\ p \in Pos \X Pos
    <2>1. PICK n \in Nat : DOMAIN grid \subseteq (1..n) \X (1..n)
      BY DEF GridInv
    <2> QED BY <2>1 DEF Origins, Pos
  <1>2. PICK k \in Pos : <<p[1], k>> \in Placed /\ grid[p] = Origin(p, rows[p[1]].cells[k])
    BY DEF GridInv, Stands
  <1>3. <<p[1], k>> \in At(rows)
    BY <1>2 DEF Placed
  <1>4. rows[p[1]].cells[k] \in CellT /\ TextAt(rows, <<p[1], k>>) \in Pos
    BY <1>3, CellAt DEF TypeInv
  <1>5. grid[p].text = TextAt(rows, <<p[1], k>>)
    BY <1>2 DEF Origin, TextAt
  <1>6. grid[p].rows \in Pos /\ grid[p].cols \in Pos
    BY <1>2, <1>4 DEF Origin, CellT
  <1>7. Before(p, <<line, col>>)
    BY DEF GridInv
  <1> QED BY <1>1, <1>3, <1>4, <1>5, <1>6, <1>7 DEF Texts, Before

(* The area that a cell covers.                                             *)
LEMMA AreaIs ==
  ASSUME NEW p \in Pos \X Pos, NEW c, c.rows \in Pos, c.cols \in Pos
  PROVE  /\ p \in Area(p, c)
         /\ \A q \in Area(p, c) : /\ q \in Pos \X Pos
                                  /\ p[1] <= q[1] /\ q[1] < p[1] + c.rows
                                  /\ p[2] <= q[2] /\ q[2] < p[2] + c.cols
  BY DEF Area, Pos

LEMMA PlaceKeeps ==
  ASSUME TypeInv, ParsedInv, GridInv, phase = "layout", Place
  PROVE  GridInv'
  <1> DEFINE c == rows[line].cells[nth]
             p == <<line, col>>
             x == <<line, nth>>
             A == Area(p, c)
  <1>1. /\ c \in CellT /\ x \in At(rows) /\ p \in Pos \X Pos
        /\ c.rows \in Pos /\ c.cols \in Pos /\ c.text \in Pos /\ c.text = TextAt(rows, x)
    <2>1. c \in CellT /\ x \in At(rows)
      BY CellToPlace DEF Place
    <2>2. p \in Pos \X Pos
      BY DEF TypeInv
    <2> QED BY <2>1, <2>2 DEF CellT, TextAt
  <1>2. /\ DOMAIN grid' = DOMAIN grid \cup A /\ p \notin DOMAIN grid
        /\ \A q \in DOMAIN grid \cup A :
             grid'[q] = IF q = p THEN Origin(p, c)
                        ELSE IF q \in A THEN Shadow(p) ELSE grid[q]
        /\ line' = line /\ nth' = nth + 1 /\ col' = col + c.cols /\ rows' = rows
    BY DEF Place, Taken, htmlVars
  <1>3. /\ p \in A
        /\ \A q \in A : /\ q \in Pos \X Pos
                        /\ line <= q[1] /\ q[1] < line + c.rows
                        /\ col <= q[2] /\ q[2] < col + c.cols
    BY <1>1, AreaIs
  <1>4. line \in Pos /\ col \in Pos /\ nth \in Pos /\ p[1] = line /\ p[2] = col
    BY DEF TypeInv
  <1> HIDE DEF c, p, A
  <1>5. \A o \in Origins : /\ o \notin A /\ o # p /\ o \in DOMAIN grid /\ o \in Pos \X Pos
                           /\ Before(o, p) /\ ~Before(p, o)
    <2> TAKE o \in Origins
    <2>1. /\ o \in DOMAIN grid /\ o \in Pos \X Pos
          /\ o[1] < line \/ (o[1] = line /\ o[2] < col)
      BY OriginIs
    <2>2. o \notin A
      BY <2>1, <1>3, <1>4 DEF Pos
    <2>3. o # p
      BY <2>1, <1>2
    <2>4. Before(o, p) /\ ~Before(p, o)
      BY <2>1, <1>4 DEF Before, Pos
    <2> QED BY <2>1, <2>2, <2>3, <2>4
  <1>6. grid'[p] = Origin(p, c) /\ \A o \in Origins : grid'[o] = grid[o]
    BY <1>2, <1>3, <1>5
  <1>7. \A q \in A \ {p} : grid'[q] = Shadow(p)
    BY <1>2
  <1>8. \A q \in DOMAIN grid \ A : grid'[q] = grid[q]
    BY <1>2
  <1>9. Origins' = Origins \cup {p}
    <2>1. \A q \in A \ {p} : grid'[q].at # q
      BY <1>7 DEF Shadow
    <2>2. grid'[p].at = p
      BY <1>6 DEF Origin
    <2>3. \A q \in DOMAIN grid' : q = p \/ q \in A \ {p} \/ q \in DOMAIN grid \ A
      BY <1>2
    <2> QED BY <1>2, <1>3, <1>5, <1>8, <2>1, <2>2, <2>3 DEF Origins
  <1>10. Placed' = Placed \cup {x}
    BY <1>1, <1>2, <1>4 DEF Placed, At, Pos
  <1>11. Area(p, grid'[p]) = A
    BY <1>6 DEF Area, Origin, A
  <1>12. \E n \in Nat : DOMAIN grid' \subseteq (1..n) \X (1..n)
    <2>1. PICK n \in Nat : DOMAIN grid \subseteq (1..n) \X (1..n)
      BY DEF GridInv
    <2> DEFINE m == n + line + c.rows + col + c.cols
    <2>2. m \in Nat /\ n <= m /\ line + c.rows <= m /\ col + c.cols <= m
      BY <1>1, <1>4 DEF Pos
    <2> HIDE DEF m
    <2>3. DOMAIN grid \subseteq (1..m) \X (1..m)
      BY <2>1, <2>2
    <2>4. A \subseteq (1..m) \X (1..m)
      BY <1>1, <1>3, <1>4, <2>2 DEF Pos
    <2> QED BY <1>2, <2>2, <2>3, <2>4
  <1>13. \A q \in Origins' : Stands(q)' /\ Before(q, <<line, col>>)'
    <2> SUFFICES ASSUME NEW q \in Origins' PROVE Stands(q)' /\ Before(q, <<line', col'>>)
      BY DEF Before
    <2>1. CASE q \in Origins
      <3>1. Stands(q)'
        <4>1. PICK k \in Pos : <<q[1], k>> \in Placed
                               /\ grid[q] = Origin(q, rows[q[1]].cells[k])
          BY <2>1 DEF GridInv, Stands
        <4> QED BY <2>1, <4>1, <1>2, <1>6, <1>10 DEF Stands
      <3>2. Before(q, <<line', col'>>)
        BY <2>1, <1>1, <1>2, <1>4, <1>5 DEF Before, Pos
      <3> QED BY <3>1, <3>2
    <2>2. CASE q = p
      <3>1. Stands(q)'
        <4>1. <<q[1], nth>> \in Placed' /\ grid'[q] = Origin(q, rows'[q[1]].cells[nth])
          BY <2>2, <1>2, <1>4, <1>6, <1>10 DEF c
        <4> QED BY <4>1, <1>4 DEF Stands
      <3>2. Before(q, <<line', col'>>)
        BY <2>2, <1>1, <1>2, <1>4 DEF Before, Pos
      <3> QED BY <3>1, <3>2
    <2> QED BY <2>1, <2>2, <1>9
  <1>14. \A q \in DOMAIN grid' \ Origins' :
           /\ grid'[q].text = 0
           /\ grid'[q].at \in Origins'
           /\ q \in Area(grid'[q].at, grid'[grid'[q].at])
    <2> TAKE q \in DOMAIN grid' \ Origins'
    <2>1. CASE q \in A \ {p}
      <3>1. grid'[q].text = 0 /\ grid'[q].at = p
        BY <2>1, <1>7 DEF Shadow
      <3> QED BY <2>1, <3>1, <1>9, <1>11
    <2>2. CASE q \in DOMAIN grid \ A
      <3>1. grid'[q] = grid[q] /\ q \in DOMAIN grid \ Origins
        BY <2>2, <1>8, <1>9
      <3>2. /\ grid[q].text = 0 /\ grid[q].at \in Origins
            /\ q \in Area(grid[q].at, grid[grid[q].at])
        BY <3>1 DEF GridInv
      <3> QED BY <3>1, <3>2, <1>6, <1>9
    <2> QED BY <2>1, <2>2, <1>2, <1>9
  <1>15. \A o \in Origins' : \A q \in Area(o, grid'[o]) \ {o} : q \in DOMAIN grid' \ Origins'
    <2> TAKE o \in Origins'
    <2>1. CASE o = p
      BY <2>1, <1>2, <1>5, <1>9, <1>11
    <2>2. CASE o \in Origins
      <3>1. \A q \in Area(o, grid[o]) \ {o} : q \in DOMAIN grid \ Origins
        BY <2>2 DEF GridInv
      <3> QED BY <2>2, <3>1, <1>2, <1>6, <1>9
    <2> QED BY <2>1, <2>2, <1>9
  <1>16. \A y \in Placed' : \E o \in Origins' : grid'[o].text = TextAt(rows', y)
    <2> TAKE y \in Placed'
    <2>1. CASE y = x
      BY <2>1, <1>1, <1>2, <1>6, <1>9 DEF Origin
    <2>2. CASE y \in Placed
      <3>1. PICK o \in Origins : grid[o].text = TextAt(rows, y)
        BY <2>2 DEF GridInv
      <3> QED BY <3>1, <1>2, <1>6, <1>9
    <2> QED BY <2>1, <2>2, <1>10
  <1>17. \A q, r \in Origins' : Before(q, r) => grid'[q].text < grid'[r].text
    <2> SUFFICES ASSUME NEW q \in Origins', NEW r \in Origins', Before(q, r)
                 PROVE  grid'[q].text < grid'[r].text
      OBVIOUS
    <2>1. q \in Origins
      <3>1. ~Before(p, p)
        BY <1>4 DEF Before, Pos
      <3> QED BY <3>1, <1>5, <1>9
    <2>2. CASE r \in Origins
      BY <2>1, <2>2, <1>6 DEF GridInv
    <2>3. CASE r = p
      <3>1. PICK k \in Pos : <<q[1], k>> \in Placed
                             /\ grid[q] = Origin(q, rows[q[1]].cells[k])
        BY <2>1 DEF GridInv, Stands
      <3>2. /\ <<q[1], k>> \in At(rows) /\ Before(<<q[1], k>>, x)
            /\ grid[q].text = TextAt(rows, <<q[1], k>>)
        BY <3>1 DEF Placed, Before, Origin, TextAt
      <3>3. Ordered(rows)
        BY DEF ParsedInv, All
      <3>4. TextAt(rows, <<q[1], k>>) < TextAt(rows, x)
        BY <3>2, <3>3, <1>1 DEF Ordered
      <3> QED BY <2>1, <2>3, <3>2, <3>4, <1>1, <1>6 DEF Origin
    <2> QED BY <2>2, <2>3, <1>9
  <1> QED BY <1>12, <1>13, <1>14, <1>15, <1>16, <1>17 DEF GridInv

LEMMA GridStep ==
  TypeInv /\ ParsedInv /\ GridInv /\ PhaseInv /\ [TableNext]_tableVars => GridInv'
  <1> SUFFICES ASSUME TypeInv, ParsedInv, GridInv, PhaseInv, [TableNext]_tableVars
               PROVE  GridInv'
    OBVIOUS
  <1>1. ASSUME phase = "html", UNCHANGED layoutVars PROVE GridInv'
    BY <1>1, GridEmpty DEF PhaseInv, layoutVars
  <1>2. ASSUME UNCHANGED <<rows, grid, line, nth, col>> PROVE GridInv'
    <2>1. Origins' = Origins /\ Placed' = Placed /\ \A p : Stands(p)' <=> Stands(p)
      BY <1>2 DEF Origins, Placed, Stands
    <2> QED BY <1>2, <2>1 DEF GridInv
  <1>3. ASSUME UNCHANGED <<rows, grid>>, Placed' = Placed,
               \A p \in Origins : Before(p, <<line, col>>) => Before(p, <<line', col'>>)
        PROVE  GridInv'
    <2>1. Origins' = Origins /\ \A p : Stands(p)' <=> Stands(p)
      BY <1>3 DEF Origins, Stands
    <2>2. \A p \in Origins : Stands(p)' /\ Before(p, <<line', col'>>)
      BY <1>3, <2>1 DEF GridInv
    <2> QED BY <1>3, <2>1, <2>2 DEF GridInv
  <1>4. ASSUME Skip PROVE GridInv'
    <2>1. UNCHANGED <<rows, grid, line, nth>> /\ col' = col + 1
      BY <1>4 DEF Skip, htmlVars
    <2>2. \A p \in Origins : Before(p, <<line, col>>) => Before(p, <<line', col'>>)
      BY <2>1, OriginIs DEF TypeInv, Before, Pos
    <2>3. Placed' = Placed
      BY <2>1 DEF Placed
    <2> QED BY <1>3, <2>1, <2>2, <2>3
  <1>5. ASSUME PlaceRow PROVE GridInv'
    <2>1. UNCHANGED <<rows, grid>> /\ line' = line + 1 /\ nth' = 1 /\ col' = 1
          /\ line <= Len(rows) /\ nth > Len(rows[line].cells)
      BY <1>5 DEF PlaceRow, htmlVars
    <2>2. \A p \in Origins : Before(p, <<line, col>>) => Before(p, <<line', col'>>)
      BY <2>1, OriginIs DEF TypeInv, Before, Pos
    <2>3. Placed' = Placed
      <3>1. rows[line].cells \in Seq(CellT)
        <4>1. line \in 1..Len(rows)
          BY <2>1 DEF TypeInv, Pos
        <4>2. rows[line] \in RowT
          BY <4>1 DEF TypeInv
        <4> QED BY <4>2 DEF RowT
      <3>2. \A x \in At(rows) :
              /\ x[1] \in Pos /\ x[2] \in Pos
              /\ x[1] = line => x[2] <= Len(rows[line].cells)
        BY DEF At
      <3>3. \A x \in At(rows) : x[1] < line \/ (x[1] = line /\ x[2] < nth)
                                <=> x[1] < line' \/ (x[1] = line' /\ x[2] < nth')
        BY <2>1, <3>1, <3>2 DEF TypeInv, Pos
      <3> QED BY <2>1, <3>3 DEF Placed
    <2> QED BY <1>3, <2>1, <2>2, <2>3
  <1>6. LaidOut \/ CountHead \/ HeadsCounted \/ UNCHANGED tableVars => GridInv'
    BY <1>2 DEF LaidOut, CountHead, HeadsCounted, htmlVars, layoutVars, tableVars
  <1>7. phase = "html" /\ (Tag \/ EndOfHTML) => GridInv'
    BY <1>1 DEF Tag, EndOfHTML
  <1>8. phase = "layout" /\ Place => GridInv'
    BY PlaceKeeps
  <1> QED BY <1>4, <1>5, <1>6, <1>7, <1>8 DEF TableNext

-----------------------------------------------------------------------------
(* The phases, and the rows above the separator.                            *)

LEMMA PhaseInit == TableInit => PhaseInv
  BY DEF TableInit, PhaseInv

LEMMA PhaseStep == TypeInv /\ PhaseInv /\ [TableNext]_tableVars => PhaseInv'
  <1> SUFFICES ASSUME TypeInv, PhaseInv, [TableNext]_tableVars
               PROVE  PhaseInv'
    OBVIOUS
  <1>0. Len(rows) \in Nat /\ headerRows \in Nat
    BY DEF TypeInv
  <1>1. TypeInv'
    BY TypeStep
  <1>2. ASSUME phase = "html", Tag PROVE PhaseInv'
    <2>1. Len(rows') \in Nat
      BY <1>1 DEF TypeInv
    <2> QED BY <1>2, <2>1 DEF Tag, PhaseInv, layoutVars
  <1>3. ASSUME phase = "html", EndOfHTML PROVE PhaseInv'
    <2>1. Len(rows') \in Nat
      BY <1>1 DEF TypeInv
    <2> QED BY <1>3, <2>1 DEF EndOfHTML, PhaseInv, layoutVars
  <1>4. ASSUME phase = "layout", Skip \/ Place \/ PlaceRow PROVE PhaseInv'
    <2>1. UNCHANGED <<rows, phase, headerRows>>
      BY <1>4 DEF Skip, Place, PlaceRow, htmlVars
    <2> QED BY <1>4, <2>1 DEF PhaseInv
  <1>5. ASSUME phase = "layout", LaidOut PROVE PhaseInv'
    <2>1. UNCHANGED <<rows, line, headerRows>> /\ phase' = "heads" /\ line > Len(rows)
      BY <1>5 DEF LaidOut, htmlVars, layoutVars
    <2> QED BY <2>1 DEF PhaseInv
  <1>6. ASSUME phase = "heads", CountHead PROVE PhaseInv'
    <2>1. UNCHANGED <<rows, phase, line>> /\ headerRows' = headerRows + 1 /\ MoreHeads
      BY <1>6 DEF CountHead, htmlVars
    <2>2. \A i \in 1..headerRows' : i \in 1..headerRows \/ i = headerRows + 1
      BY <1>0, <2>1
    <2> QED BY <1>0, <1>6, <2>1, <2>2 DEF PhaseInv, MoreHeads
  <1>7. ASSUME phase = "heads", HeadsCounted PROVE PhaseInv'
    <2>1. UNCHANGED <<rows, line, headerRows>> /\ phase' = "done" /\ ~MoreHeads
      BY <1>7 DEF HeadsCounted, htmlVars, layoutVars
    <2>2. ~MoreHeads'
      BY <2>1 DEF MoreHeads
    <2> QED BY <1>7, <2>1, <2>2 DEF PhaseInv
  <1>8. ASSUME UNCHANGED tableVars PROVE PhaseInv'
    <2>1. UNCHANGED <<rows, line, headerRows, phase, grid, nth>>
      BY <1>8 DEF tableVars, htmlVars, layoutVars
    <2>2. MoreHeads' <=> MoreHeads
      BY <2>1 DEF MoreHeads
    <2> QED BY <2>1, <2>2 DEF PhaseInv
  <1> QED BY <1>2, <1>3, <1>4, <1>5, <1>6, <1>7, <1>8 DEF TableNext

(* TypeInv, ParsedInv, GridInv and PhaseInv hold together.                  *)
LEMMA TableInvHolds == TableSpec => []TableInv
  <1>1. TableInit => TableInv
    BY TypeInit, ParsedInit, GridInit, PhaseInit DEF TableInv
  <1>2. TableInv /\ [TableNext]_tableVars => TableInv'
    BY TypeStep, ParsedStep, GridStep, PhaseStep DEF TableInv
  <1> QED BY <1>1, <1>2, PTL DEF TableSpec

-----------------------------------------------------------------------------
(* What is returned and written.                                            *)

LEMMA Least == ASSUME NEW S \in SUBSET Nat, S # {}
               PROVE  \E m \in S : \A n \in S : m <= n
  <1> DEFINE Less == {ss \in Nat \X Nat : ss[1] < ss[2]}
  <1>1. IsWellFoundedOn(Less, Nat)
    BY NatLessThanWellFounded DEF OpToRel
  <1>2. \A m, n \in Nat : <<n, m>> \notin Less => m <= n
    OBVIOUS
  <1> HIDE DEF Less
  <1>3. \E m \in S : \A n \in S : <<n, m>> \notin Less
    BY <1>1, WFMin
  <1> QED BY <1>2, <1>3

LEMMA MaxIs ==
  ASSUME NEW S \in SUBSET Nat, S # {}, NEW b \in Nat, \A n \in S : n <= b
  PROVE  Max(S) \in S /\ \A n \in S : n <= Max(S)
  <1>1. {b - n : n \in S} \in SUBSET Nat /\ {b - n : n \in S} # {}
    <2>1. \A n \in S : b - n \in Nat
      OBVIOUS
    <2> QED BY <2>1
  <1>2. PICK d \in {b - n : n \in S} : \A e \in {b - n : n \in S} : d <= e
    BY <1>1, Least
  <1>3. PICK m \in S : d = b - m
    BY <1>2
  <1>4. \A n \in S : b - m <= b - n
    BY <1>2, <1>3
  <1>5. \A n \in S : m >= n
    BY <1>4
  <1> QED BY <1>5 DEF Max

(* The grid that is returned has room for all that is laid out.             *)
LEMMA SizeIs ==
  ASSUME TypeInv, GridInv
  PROVE  /\ Height \in Nat /\ Width \in Nat /\ Len(rows) <= Height
         /\ DOMAIN grid \subseteq Positions /\ Positions \subseteq Pos \X Pos
  <1>1. PICK n \in Nat : DOMAIN grid \subseteq (1..n) \X (1..n)
    BY DEF GridInv
  <1>2. Len(rows) \in Nat
    BY DEF TypeInv
  <1>3. Height \in {Len(rows)} \cup {p[1] : p \in DOMAIN grid}
        /\ \A i \in {Len(rows)} \cup {p[1] : p \in DOMAIN grid} : i <= Height
    <2> DEFINE S == {Len(rows)} \cup {p[1] : p \in DOMAIN grid}
    <2>1. n + Len(rows) \in Nat /\ S \in SUBSET Nat /\ S # {} /\ \A i \in S : i <= n + Len(rows)
      BY <1>1, <1>2
    <2> HIDE DEF S
    <2>2. Max(S) \in S /\ \A i \in S : i <= Max(S)
      BY <2>1, MaxIs
    <2> QED BY <2>2 DEF Height, S
  <1>4. Width \in {0} \cup {p[2] : p \in DOMAIN grid}
        /\ \A i \in {0} \cup {p[2] : p \in DOMAIN grid} : i <= Width
    <2> DEFINE S == {0} \cup {p[2] : p \in DOMAIN grid}
    <2>1. S \in SUBSET Nat /\ S # {} /\ \A i \in S : i <= n
      BY <1>1
    <2> HIDE DEF S
    <2>2. Max(S) \in S /\ \A i \in S : i <= Max(S)
      BY <2>1, MaxIs
    <2> QED BY <2>2 DEF Width, S
  <1>5. Height \in Nat /\ Width \in Nat
    BY <1>1, <1>2, <1>3, <1>4
  <1>6. DOMAIN grid \subseteq Positions
    BY <1>1, <1>3, <1>4, <1>5 DEF Positions
  <1> QED BY <1>3, <1>5, <1>6 DEF Positions, Pos

(* The Markdown says the texts of the origins, in either tier.              *)
LEMMA SaidIs ==
  ASSUME TypeInv, GridInv, NEW tier
  PROVE  /\ Said(tier) = Origins
         /\ \A p \in Origins : Grid[p] = grid[p]
  <1>1. Written(tier) = Positions
    <2>1. Width <= 1 => {p \in Positions : p[2] = 1} = Positions
      BY SizeIs DEF Positions
    <2> QED BY <2>1 DEF Written
  <1>2. \A p \in Origins : Grid[p] = grid[p] /\ p \in Positions /\ Grid[p].text # 0
    BY SizeIs, OriginIs DEF Grid, Pos
  <1>3. \A p \in Positions \ Origins : Grid[p].text = 0
    <2> TAKE p \in Positions \ Origins
    <2>1. CASE p \in DOMAIN grid
      BY <2>1 DEF GridInv, Grid
    <2>2. CASE p \notin DOMAIN grid
      BY <2>2 DEF Grid, EmptySlot
    <2> QED BY <2>1, <2>2
  <1> QED BY <1>1, <1>2, <1>3 DEF Said

(* The grid can be read by its spans.                                       *)
LEMMA SpansRead == TableInv => SpansPointHome
  <1> SUFFICES ASSUME TableInv, NEW p \in Positions
               PROVE  IF Grid[p].at # p
                      THEN /\ Grid[p].at \in Positions
                           /\ Grid[Grid[p].at].at = Grid[p].at
                           /\ p \in Area(Grid[p].at, Grid[Grid[p].at])
                      ELSE \A q \in Area(p, Grid[p]) \ {p} : q \in Positions /\ Grid[q].at # q
    BY DEF SpansPointHome
  <1>0. TypeInv /\ GridInv
    BY DEF TableInv
  <1>1. /\ DOMAIN grid \subseteq Positions /\ p \in Pos \X Pos
        /\ \A q \in DOMAIN grid : Grid[q] = grid[q]
    BY <1>0, SizeIs DEF Grid
  <1>2. CASE p \in Origins
    <2>1. \A q \in Area(p, grid[p]) \ {p} : q \in DOMAIN grid \ Origins
      BY <1>0, <1>2 DEF GridInv
    <2> QED BY <1>1, <1>2, <2>1 DEF Origins
  <1>3. CASE p \in DOMAIN grid \ Origins
    <2>1. grid[p].at \in Origins /\ p \in Area(grid[p].at, grid[grid[p].at])
      BY <1>0, <1>3 DEF GridInv
    <2> QED BY <1>1, <1>3, <2>1 DEF Origins
  <1>4. CASE p \notin DOMAIN grid
    <2>1. Grid[p] = EmptySlot(p)
      BY <1>4 DEF Grid
    <2>2. Area(p, EmptySlot(p)) = {p}
      BY <1>1 DEF Area, EmptySlot, Pos
    <2> QED BY <2>1, <2>2 DEF EmptySlot
  <1> QED BY <1>2, <1>3, <1>4

LEMMA HeadersRead == TableInv /\ phase = "done" => HeaderIsSaid
  <1> SUFFICES ASSUME TableInv, phase = "done" PROVE HeaderIsSaid
    OBVIOUS
  <1>1. /\ headerRows \in Nat /\ Len(rows) \in Nat /\ headerRows <= Len(rows)
        /\ \A i \in 1..headerRows : IsHeader(rows[i])
        /\ ~MoreHeads
    BY DEF TableInv, TypeInv, PhaseInv
  <1>2. ASSUME headerRows > 0 PROVE Above \in 0..headerRows
    <2>1. headerRows <= Height /\ Height \in Nat
      BY <1>1, SizeIs DEF TableInv
    <2>2. Min({headerRows, Height}) = headerRows
      BY <1>1, <2>1 DEF Min
    <2> QED BY <1>1, <1>2, <2>2 DEF Above
  <1>3. headerRows > 0 => \A i \in 1..Above : i \in DOMAIN rows /\ IsHeader(rows[i])
    BY <1>1, <1>2 DEF TableInv, TypeInv
  <1> QED BY <1>1, <1>3 DEF HeaderIsSaid, MoreHeads

LEMMA TextsRead == TableInv => TextSurvives
  <1> SUFFICES ASSUME TableInv, phase = "done" PROVE TextSurvives
    BY DEF TextSurvives
  <1>0. TypeInv /\ ParsedInv /\ GridInv
    BY DEF TableInv
  <1>1. Texts(rows) = {grid[o].text : o \in Origins}
    <2>1. \A o \in Origins : grid[o].text \in Texts(rows)
      BY <1>0, OriginIs
    <2>2. Placed = At(rows)
      <3>1. line > Len(rows) /\ line \in Nat /\ Len(rows) \in Nat
        BY DEF TableInv, PhaseInv, TypeInv, Pos
      <3> QED BY <3>1 DEF Placed, At, Pos
    <2>3. \A x \in At(rows) : \E o \in Origins : grid[o].text = TextAt(rows, x)
      BY <1>0, <2>2 DEF GridInv
    <2> QED BY <2>1, <2>3 DEF Texts
  <1>2. tidy => Texts(rows) = 1..cells
    <2>1. All = rows /\ cell = Closed
      BY <1>0 DEF ParsedInv, All
    <2> QED BY <1>0, <2>1 DEF ParsedInv
  <1>3. ASSUME NEW tier \in {"layout", "vision"}
        PROVE  /\ tidy => {Grid[p].text : p \in Said(tier)} = 1..cells
               /\ \A p, q \in Said(tier) : Before(p, q) => Grid[p].text < Grid[q].text
    <2>1. Said(tier) = Origins /\ \A p \in Origins : Grid[p] = grid[p]
      BY <1>0, SaidIs
    <2>2. {Grid[p].text : p \in Said(tier)} = Texts(rows)
      BY <1>1, <2>1
    <2>3. \A p, q \in Said(tier) : Before(p, q) => Grid[p].text < Grid[q].text
      BY <1>0, <2>1 DEF GridInv
    <2> QED BY <1>2, <2>2, <2>3
  <1> QED BY <1>3, HeadersRead DEF TextSurvives

(* However the HTML is written and whatever it spans, every cell of tidy     *)
(* HTML is in the Markdown once, in its order, of other HTML none is there   *)
(* twice or out of order, and only what is said to be a header is above the  *)
(* separator.  (parse_table_html, writeTable, _flatten_single_column)        *)
THEOREM CellsSurvive == TableSpec => []TextSurvives
  BY TableInvHolds, TextsRead, PTL

(* However the spans overlap, a shadow points at an origin that spans into   *)
(* it, and no cell lies in the span of another.  (parse_table_html)          *)
THEOREM SpansAreReadable == TableSpec => []SpansPointHome
  BY TableInvHolds, SpansRead, PTL
=============================================================================
