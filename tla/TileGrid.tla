------------------------------ MODULE TileGrid ------------------------------
(***************************************************************************)
(* The grid of tiles of src/stile.c, chosen when the device is created.       *)
(***************************************************************************)
EXTENDS Naturals

(* stile_create(): the tiles are half of the width and the whole height unless *)
(* a size is given (w or h not 0); as many whole tiles as fit in each direction, *)
(* at most ntiles on one line when there are that many; the grid is centred.     *)
Tiles(size, tile) == size \div tile
Grid(width, height, w, h, ntiles) ==
    LET tw == IF w > 0 THEN w ELSE width \div 2
        th == IF h > 0 THEN h ELSE height
        nx == IF w > 0 THEN Tiles(width, w) ELSE 2
        ny == IF h > 0 THEN Tiles(height, h) ELSE 1
        line == ntiles > 0 /\ ntiles < nx * ny /\ ntiles < nx
        x == IF line THEN ntiles ELSE nx
        y == IF line THEN 1 ELSE ny
    IN  [w |-> tw, h |-> th, x |-> x, y |-> y,
         xoff |-> (width - x * tw) \div 2, yoff |-> (height - y * th) \div 2]

(* stile_queue(): the left of the tiles of a column, the top of those of a row.  *)
TileX(g, tx) == g.xoff + tx * g.w
TileY(g, ty) == g.yoff + ty * g.h
=============================================================================
