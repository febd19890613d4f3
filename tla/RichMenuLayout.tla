--------------------------- MODULE RichMenuLayout ---------------------------
(***************************************************************************)
(* The layouts of a rich menu, and the tap areas that a request to create  *)
(* one ends up with.  Only functions of their arguments, on the real sizes *)
(* in pixels.                                                              *)
(***************************************************************************)
EXTENDS Integers, Sequences, Functions

Big == [width |-> 2500, height |-> 1686]
Compact == [width |-> 2500, height |-> 843]
Sizes == {Big, Compact}

MaxAreas == 20
MinAreaSize == 1

(***************************************************************************)
(* The grids.                                                              *)
(***************************************************************************)

(* Faulty form: the parts are equal, what is left over is lost. *)
FaultySplitSize(total, parts) == [i \in 1 .. parts |-> total \div parts]

(* splitSize: the last part takes what is left over. *)
SplitSize(total, parts) ==
  [i \in 1 .. parts |-> (total \div parts) + (IF i = parts THEN total % parts ELSE 0)]

(* Where part i begins. *)
Before(sizes, i) == SumFunctionOnSet(sizes, 1 .. i - 1)

(* buildGrid: row by row. *)
BuildGrid(size, rows, cols) ==
  LET widths  == SplitSize(size.width, cols)
      heights == SplitSize(size.height, rows)
  IN [n \in 1 .. rows * cols |->
       LET row == ((n - 1) \div cols) + 1  col == ((n - 1) % cols) + 1 IN
       [x |-> Before(widths, col), y |-> Before(heights, row),
        width |-> widths[col], height |-> heights[row]]]

Freeform(size) == [size |-> size, cells |-> <<>>]
Grid(size, rows, cols) == [size |-> size, cells |-> BuildGrid(size, rows, cols)]

(* RICH_MENU_LAYOUTS ask for bounds, the legacy ones are grids. *)
Layouts ==
  {Freeform(Big), Freeform(Compact)}
    \cup {Grid(Big, g[1], g[2]) : g \in {<<1, 1>>, <<1, 2>>, <<1, 3>>, <<2, 2>>, <<2, 3>>, <<3, 2>>}}
    \cup {Grid(Compact, 1, cols) : cols \in 1 .. 3}

(***************************************************************************)
(* The areas of a request.                                                 *)
(***************************************************************************)
NoBounds == [given |-> FALSE]
Given(areas) == {i \in DOMAIN areas : areas[i] # NoBounds}

(* validateBoundsWithinSize *)
Fits(b, size) ==
  /\ {b.x, b.y, b.width, b.height} \subseteq Int
  /\ b.width >= MinAreaSize /\ b.height >= MinAreaSize /\ b.x >= 0 /\ b.y >= 0
  /\ b.x + b.width <= size.width /\ b.y + b.height <= size.height

(* An area without bounds takes the cell with its number, if there is one. *)
Resolved(layout, areas) ==
  [i \in DOMAIN areas |->
    IF i \in Given(areas) THEN areas[i]
    ELSE IF i \in DOMAIN layout.cells THEN layout.cells[i] ELSE NoBounds]

(* The checks of RichMenuService.create: the size of the image, the number *)
(* of areas, which a grid only insists on when one has no bounds, and the  *)
(* bounds.                                                                 *)
AcceptsAreas(layout, image, areas) ==
  /\ image = layout.size
  /\ Len(areas) \in 1 .. MaxAreas
  /\ \/ layout.cells = <<>>
     \/ Len(areas) = Len(layout.cells)
     \/ Given(areas) = DOMAIN areas
  /\ \A i \in DOMAIN areas :
       LET b == Resolved(layout, areas)[i] IN b # NoBounds /\ Fits(b, layout.size)

(***************************************************************************)
(* What reaches LINE.  All the areas are on the menu and none is empty,    *)
(* whichever mixture of own bounds and cells a request uses.  The cells of *)
(* a grid are disjoint and leave no pixel of the menu uncovered.           *)
(***************************************************************************)
Disjoint(b, c) ==
  \/ b.x + b.width <= c.x \/ c.x + c.width <= b.x
  \/ b.y + b.height <= c.y \/ c.y + c.height <= b.y

Tile(cells, size) ==
  /\ \A i, j \in DOMAIN cells : i # j => Disjoint(cells[i], cells[j])
  /\ SumFunction([i \in DOMAIN cells |-> cells[i].width * cells[i].height])
       = size.width * size.height

AreasFit(layout, image, areas) ==
  AcceptsAreas(layout, image, areas) =>
    /\ \A i \in DOMAIN areas :
         LET b == Resolved(layout, areas)[i] IN
         /\ {b.x, b.x + b.width - 1} \subseteq 0 .. image.width - 1
         /\ {b.y, b.y + b.height - 1} \subseteq 0 .. image.height - 1
    /\ Given(areas) = {} => Tile(Resolved(layout, areas), image)
=============================================================================
