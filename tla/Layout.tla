------------------------------- MODULE Layout -------------------------------
(***************************************************************************)
(* The algebra of the grid: web/src/grid/model.ts, sizes.ts, viewLayout.ts, *)
(* dirFilter.ts and endedSessions.ts, as operators.  A layout is the tiles *)
(* in row-major order, the number of columns and the size of every track;  *)
(* the rows follow from the tiles.  A size is a whole number of parts of    *)
(* the Unit an axis is cut into, where the code has a fraction of 1.       *)
(***************************************************************************)
EXTENDS Integers, SequencesExt, Filtering

CONSTANTS
  NoTile,   \* an empty cell
  MAX_COLS, \* 4 in the code
  Unit,     \* the parts of an axis; as many at least as it has tracks
  MinTile,  \* MIN_TILE_PX, in parts
  Snap      \* SNAP_PX, in parts

ASSUME LayoutAssumption ==
  /\ Unit \in Nat \ {0} /\ MAX_COLS \in 1 .. Unit
  /\ MinTile \in 1 .. Unit /\ Snap \in 0 .. Unit

Least(a, b) == IF a < b THEN a ELSE b
Most(a, b) == IF a < b THEN b ELSE a
Total(sizes) ==
  LET upTo[i \in 0 .. Len(sizes)] == IF i = 0 THEN 0 ELSE upTo[i - 1] + sizes[i]
  IN  upTo[Len(sizes)]
Occupied(tiles) == Filter(tiles, ToSet(tiles) \ {NoTile})

\* A set of positive numbers in rising order.
Ascending(S) == Filter([i \in 1 .. Max(S \cup {0}) |-> i], S)

----------------------------------------------------------------------------
(* sizes.ts *)

\* Every boundary is on the part it falls in.
equalSizes(n) == [i \in 1 .. n |-> (Unit * i) \div n - (Unit * (i - 1)) \div n]

usable(sizes, count) ==
  /\ Len(sizes) = count
  /\ \A i \in DOMAIN sizes : sizes[i] > 0
  /\ Total(sizes) = Unit

Usable(sizes, count) == IF usable(sizes, count) THEN sizes ELSE equalSizes(count)

\* resizeTracks: the boundary after track b, clamped, then snapped to the middle.
resizeTracks(sizes, b, delta) ==
  IF b \notin 1 .. Len(sizes) - 1 THEN sizes
  ELSE LET pair == sizes[b] + sizes[b + 1]
           half == pair \div 2
           lo == Least(MinTile, half)
           at == Least(pair - lo, Most(lo, sizes[b] + delta))
           next == IF at \in half - Snap .. half + Snap THEN half ELSE at
       IN  [sizes EXCEPT ![b] = next, ![b + 1] = pair - next]

----------------------------------------------------------------------------
(* model.ts *)

clampCols(n) == Least(MAX_COLS, Most(1, n))

\* normalize, with normalizeSizes: tiles packed to the front, just enough rows,
\* and the sizes whose track count survived.
normalize(tiles, n, rowSizes, colSizes) ==
  LET cols == clampCols(n)
      packed == Occupied(tiles)
      rows == Most(1, (Len(packed) + cols - 1) \div cols)
  IN  [cols |-> cols, rows |-> rows,
       tiles |-> packed \o [i \in 1 .. rows * cols - Len(packed) |-> NoTile],
       rowSizes |-> Usable(rowSizes, rows),
       colSizes |-> [r \in 1 .. rows |->
                      IF r \in DOMAIN colSizes THEN Usable(colSizes[r], cols) ELSE equalSizes(cols)]]

Repacked(l, tiles, cols) == normalize(tiles, cols, l.rowSizes, l.colSizes)
Placed(l) == ToSet(Occupied(l.tiles))
Count(tiles) == Len(Occupied(tiles))

setCols(l, cols) == Repacked(l, l.tiles, cols)

\* A removal narrows the grid to what is left.
packAfterRemoval(l, tiles) == Repacked(l, tiles, Least(l.cols, Most(1, Count(tiles))))

removeTile(l, i) ==
  packAfterRemoval(l, [j \in DOMAIN l.tiles |-> IF j = i THEN NoTile ELSE l.tiles[j]])

removeTilesWhere(l, drop) ==
  IF drop \cap Placed(l) = {} THEN l
  ELSE packAfterRemoval(l, [j \in DOMAIN l.tiles |-> IF l.tiles[j] \in drop THEN NoTile ELSE l.tiles[j]])

\* The second session goes beside the first.
addTile(l, t) ==
  Repacked(l, Append(l.tiles, t), IF Count(l.tiles) = 1 /\ l.cols = 1 THEN 2 ELSE l.cols)

Swapped(s, a, b) == [s EXCEPT ![a] = s[b], ![b] = s[a]]
swapTiles(l, a, b) == Repacked(l, Swapped(l.tiles, a, b), l.cols)

setRowSizes(l, sizes) == normalize(l.tiles, l.cols, sizes, l.colSizes)
setColSizes(l, row, sizes) ==
  normalize(l.tiles, l.cols, l.rowSizes, [l.colSizes EXCEPT ![row] = sizes])

\* Sizes of another layout; a track set that does not fit is left as it was.
adoptSizes(l, from) ==
  normalize(l.tiles, l.cols,
            IF Len(from.rowSizes) = l.rows THEN from.rowSizes ELSE l.rowSizes,
            IF Len(from.colSizes) = l.rows THEN from.colSizes ELSE l.colSizes)

----------------------------------------------------------------------------
(* dirFilter.ts: directories are numbered in the order of their buttons, the *)
(* selection is the set of them, empty for all of them.                      *)

\* A layout with the tiles that show, and the stored index of each.
filterLayout(l, shows) ==
  LET map == Ascending({i \in DOMAIN l.tiles : l.tiles[i] \in shows})
  IN  [view |-> Repacked(l, [i \in DOMAIN map |-> l.tiles[map[i]]], l.cols), map |-> map]

effectiveDirs(chosen, buttons) == chosen \cap buttons

\* The ring of the buttons and the slot for all of them, 0.
cycleSolo(solo, buttons, step) ==
  LET ring == <<0>> \o Ascending(buttons)
      at == CHOOSE i \in DOMAIN ring : ring[i] = IF solo \in buttons THEN solo ELSE 0
  IN  IF buttons = {} THEN 0 ELSE ring[((at - 1 + step + Len(ring)) % Len(ring)) + 1]

----------------------------------------------------------------------------
(* viewLayout.ts: one directory's own arrangement, by tile, not by index *)

orderOf(view) == Occupied(view.tiles)
seedOverlay(view) ==
  [cols |-> view.cols, order |-> orderOf(view), rowSizes |-> view.rowSizes, colSizes |-> view.colSizes]

\* Tiles the overlay does not name sort last, and of equals the first stays first.
rank(order, t) == IF t \in ToSet(order) THEN Max({i \in DOMAIN order : order[i] = t})
                  ELSE Len(order) + 1
ranks(tiles, order) == [i \in DOMAIN tiles |-> rank(order, tiles[i])]
sortsBefore(r, i, j) == r[i] < r[j] \/ (r[i] = r[j] /\ i < j)
sorted(r) ==
  [k \in DOMAIN r |->
    CHOOSE i \in DOMAIN r : Cardinality({j \in DOMAIN r : sortsBefore(r, j, i)}) = k - 1]

applyOverlay(filtered, o) ==
  LET tiles == Occupied(filtered.view.tiles)
      at == sorted(ranks(tiles, o.order))
  IN  [view |-> normalize([i \in DOMAIN at |-> tiles[at[i]]], o.cols, o.rowSizes, o.colSizes),
       map |-> [i \in DOMAIN at |-> filtered.map[at[i]]]]

----------------------------------------------------------------------------
(* endedSessions.ts *)

\* Placed sessions that an authoritative list of these servers' does not have running.
endedTiles(l, ofServer, running) == (Placed(l) \cap ofServer) \ running

\* What normalize promises of every layout a page shows or stores.
WellFormed(l) ==
  /\ l.cols \in 1 .. MAX_COLS
  /\ l.rows = Most(1, (Count(l.tiles) + l.cols - 1) \div l.cols)
  /\ Len(l.tiles) = l.rows * l.cols
  /\ \A i \in DOMAIN l.tiles : l.tiles[i] # NoTile <=> i <= Count(l.tiles)
  /\ usable(l.rowSizes, l.rows)
  /\ Len(l.colSizes) = l.rows /\ \A r \in 1 .. l.rows : usable(l.colSizes[r], l.cols)
=============================================================================
