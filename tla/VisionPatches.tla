----------------------------- MODULE VisionPatches -----------------------------
(***************************************************************************)
(* From the size of an image to its embeddings: the size it is given, the  *)
(* places of its patches among those of the images packed with it, the     *)
(* rotation of each patch by them, and the cells that are embedded, of     *)
(* neo_unify/utils.py and modeling_neo_vit.py and of the copies of both    *)
(* that training uses.  Sides of a size are in units of its factor.        *)
(***************************************************************************)
EXTENDS Integers, Sequences, SequencesExt, TLC

CONSTANTS Factor,      \* pixels of a side of a cell
          MaxAspect,   \* of an image that is accepted
          Merge,       \* patches of a side of a cell
          Dim          \* elements of a patch, a multiple of four

-----------------------------------------------------------------------------
(* Bounds are in areas of Factor squared.  A side times the square root of *)
(* bound / (height * width) is compared by its square.                     *)
RoundByFactor(side) ==
  LET below == side \div Factor
      twice == 2 * (side % Factor)
  IN  IF twice < Factor \/ (twice = Factor /\ below % 2 = 0) THEN below ELSE below + 1
Root(n) == CHOOSE k \in 0 .. n : k * k <= n /\ (k + 1) * (k + 1) > n
FloorByFactor(side, other, bound) == Root((side * bound) \div other)
CeilByFactor(side, other, bound) ==
  LET below == FloorByFactor(side, other, bound)
  IN  IF below * below * other = side * bound THEN below ELSE below + 1

Larger(a, b) == IF a > b THEN a ELSE b
Refused(h, w) == h > MaxAspect * w \/ w > MaxAspect * h
SmartResize(h, w, min, max) ==
  LET hBar == Larger(1, RoundByFactor(h))
      wBar == Larger(1, RoundByFactor(w))
  IN  IF hBar * wBar > max
      THEN <<Larger(1, FloorByFactor(h, w, max)), Larger(1, FloorByFactor(w, h, max))>>
      ELSE IF hBar * wBar < min THEN <<CeilByFactor(h, w, min), CeilByFactor(w, h, min)>>
      ELSE <<hBar, wBar>>
(* A server may double an image before.                                    *)
LoadImage(h, w, upscale, min, max) ==
  IF upscale THEN SmartResize(2 * h, 2 * w, min, max) ELSE SmartResize(h, w, min, max)
Grid(size) == [h |-> size[1] * Merge, w |-> size[2] * Merge]

-----------------------------------------------------------------------------
(* Patches of all images in one sequence, each image's row by row.         *)
Patchified(image, grid) ==
  [i \in 1 .. grid.h * grid.w |-> [image |-> image, y |-> (i - 1) \div grid.w, x |-> (i - 1) % grid.w]]
Packed(images, grids) == FlattenSeq([b \in DOMAIN grids |-> Patchified(images[b], grids[b])])

(* The coordinates every patch is turned by, from the grids alone.         *)
AbsPositions(grids) ==
  LET N == [b \in DOMAIN grids |-> grids[b].h * grids[b].w]
      sampleOf == FlattenSeq([b \in DOMAIN grids |-> [i \in 1 .. N[b] |-> b]])
      before == [b \in DOMAIN grids |-> FoldSeq(+, 0, SubSeq(N, 1, b - 1))]
  IN  [i \in DOMAIN sampleOf |->
         LET id == i - 1 - before[sampleOf[i]]
             width == grids[sampleOf[i]].w
         IN  [x |-> id % width, y |-> id \div width]]

(* Even elements are turned against odd ones; an angle is a place and the  *)
(* exponent of its frequency.  The first half follows x, the second y.     *)
Frequencies(dim) == [j \in 1 .. dim \div 2 |-> 2 * (j - 1)]
Rotary1D(v, place) ==
  [o \in DOMAIN v |->
     LET j == (o + 1) \div 2
         angle == <<place, Frequencies(Len(v))[j]>>
     IN  IF o % 2 = 1 THEN {<<"cos", v[2 * j - 1], angle>>, <<"-sin", v[2 * j], angle>>}
         ELSE {<<"sin", v[2 * j - 1], angle>>, <<"cos", v[2 * j], angle>>}]
Rotary2D(v, position) ==
  Rotary1D(SubSeq(v, 1, Dim \div 2), position.x) \o Rotary1D(SubSeq(v, (Dim \div 2) + 1, Dim), position.y)
PatchEmbedding(patch) == [d \in 1 .. Dim |-> <<patch, d>>]

(* Each image's patches, cell by cell.                                     *)
DenseEmbedding(patches, grid) ==
  LET width == grid.w \div Merge
  IN  [c \in 1 .. (grid.h \div Merge) * width |->
         LET y == (c - 1) \div width
             x == (c - 1) % width
         IN  [a, b \in 1 .. Merge |-> patches[(y * Merge + a - 1) * grid.w + (x * Merge + b)]]]
Embeddings(images, grids) ==
  LET packed == Packed(images, grids)
      positions == AbsPositions(grids)
      turned == [i \in DOMAIN packed |-> Rotary2D(PatchEmbedding(packed[i]), positions[i])]
      start == [b \in DOMAIN grids |-> FoldSeq(LAMBDA g, n : n + (g.h * g.w), 0, SubSeq(grids, 1, b - 1))]
      Own(b) == SubSeq(turned, start[b] + 1, start[b] + (grids[b].h * grids[b].w))
  IN  FlattenSeq([b \in DOMAIN grids |-> DenseEmbedding(Own(b), grids[b])])

-----------------------------------------------------------------------------
(* Whatever size an accepted image has, it is given whole cells and an     *)
(* area within the bounds, its places are in the tables of training and of *)
(* the server, and an image of the size it was given keeps it, unless the  *)
(* rounding of a very long one made it too long to be accepted again.      *)
SizeExact(h, w, min, max, places) ==
  ~Refused(h, w) =>
    \A upscale \in BOOLEAN :
      LET size == LoadImage(h, w, upscale, min, max)
          grid == Grid(size)
          again == SmartResize(size[1] * Factor, size[2] * Factor, min, max)
      IN  /\ size[1] >= 1 /\ size[2] >= 1 /\ min <= size[1] * size[2] /\ size[1] * size[2] <= max
          /\ grid.h <= places /\ grid.w <= places
          /\ grid.h <= max * Merge * Merge /\ grid.w <= max * Merge * Merge
          /\ Refused(size[1], size[2]) \/ again = size

(* The embeddings of packed images are those of each alone, in order; and  *)
(* an image has those of its cells row by row, each of the patches it      *)
(* covers turned by their own column and row.                              *)
PatchesExact(grids) ==
  LET images == [b \in DOMAIN grids |-> b]
      joint == Embeddings(images, grids)
      Alone(b) == Embeddings(<<b>>, <<grids[b]>>)
      Cells(b) ==
        LET width == grids[b].w \div Merge
        IN  [c \in 1 .. (grids[b].h \div Merge) * width |->
               [p, q \in 1 .. Merge |->
                  LET at == [y |-> ((c - 1) \div width) * Merge + p - 1, x |-> ((c - 1) % width) * Merge + q - 1]
                  IN  Rotary2D(PatchEmbedding([image |-> b] @@ at), at)]]
  IN  /\ joint = FlattenSeq([b \in DOMAIN grids |-> Alone(b)])
      /\ \A b \in DOMAIN grids : Alone(b) = Cells(b)

=============================================================================
