------------------------------ MODULE Painting ------------------------------
(***************************************************************************)
(* What remote_paint_rect (x2gokdriveremote.c) does with the pixels that   *)
(* changed: it collects them into rectangles, unites those that are better *)
(* sent as one, and sends either these rectangles or the bounding box of   *)
(* all of them.  A pixel is <<x, y>>, the pixels that differ from the      *)
(* second buffer are given, and a rectangle has inclusive corners.         *)
(***************************************************************************)
EXTENDS Integers, Sequences, SequencesExt

CONSTANTS
  Near,    \* MAXDISTANCETOREGION
  Small    \* a rectangle no wider or higher than this is not split, 4

ASSUME NearAssumption == Near \in Nat /\ Small \in Nat \ {0, 1}

Rects == [x1 : Int, y1 : Int, x2 : Int, y2 : Int]

Covers(r, p) == p[1] \in r.x1 .. r.x2 /\ p[2] \in r.y1 .. r.y2

Width(r) == r.x2 - r.x1 + 1
Height(r) == r.y2 - r.y1 + 1
Area(r) == Width(r) * Height(r)

Least(a, b) == IF a < b THEN a ELSE b
Greatest(a, b) == IF a > b THEN a ELSE b

(* The smallest rectangle around two others.                               *)
Around(r, s) ==
  [x1 |-> Least(r.x1, s.x1), y1 |-> Least(r.y1, s.y1),
   x2 |-> Greatest(r.x2, s.x2), y2 |-> Greatest(r.y2, s.y2)]

Point(p) == [x1 |-> p[1], y1 |-> p[2], x2 |-> p[1], y2 |-> p[2]]

(* The bounding box of the dirty pixels.                                   *)
Box(dirty) ==
  [x1 |-> Min({p[1] : p \in dirty}), y1 |-> Min({p[2] : p \in dirty}),
   x2 |-> Max({p[1] : p \in dirty}), y2 |-> Max({p[2] : p \in dirty})]

-----------------------------------------------------------------------------
(* The scan, from the centre of the box to its edges.                      *)

CentreX(b) == b.x1 + Width(b) \div 2
CentreY(b) == b.y1 + Height(b) \div 2

QuarterOverlapping(b, q) ==
  (IF q % 2 = 0 THEN b.x1 .. CentreX(b) ELSE CentreX(b) + 2 .. b.x2)
    \X (IF q < 2 THEN b.y1 .. CentreY(b) ELSE CentreY(b) + 1 .. b.y2)

(* The pixels of quarters 0 (left and up) to 3 (right and down).  The code *)
(* walks from the side of the centre until it meets the edge of the box;   *)
(* where it would start beyond that edge, which ScanEnds excludes, it      *)
(* would never meet it, and the range here is empty.                       *)
Quarter(b, q) ==
  (IF q % 2 = 0 THEN b.x1 .. CentreX(b) ELSE CentreX(b) + 1 .. b.x2)
    \X (IF q < 2 THEN b.y1 .. CentreY(b) ELSE CentreY(b) + 1 .. b.y2)

(* Line by line away from the centre, and so is each line.                 *)
Before(b, p, r) ==
  LET away(c, m) == IF c > m THEN c - m ELSE m - c
      line(s) == away(s[2], CentreY(b))
      column(s) == away(s[1], CentreX(b))
  IN  line(p) < line(r) \/ (line(p) = line(r) /\ column(p) < column(r))

InOrder(b, S) ==
  LET f[T \in SUBSET S] ==
        IF T = {} THEN <<>>
        ELSE LET p == CHOOSE p \in T : \A r \in T \ {p} : Before(b, p, r)
             IN  <<p>> \o f[T \ {p}]
  IN  f[S]

Scan(b, dirty) ==
  LET part(q) == InOrder(b, dirty \cap Quarter(b, q))
  IN  part(0) \o part(1) \o part(2) \o part(3)

-----------------------------------------------------------------------------
(* Collecting: a list of regions, and the one the last pixel went to.      *)

NoRegions == [list |-> <<>>, current |-> 0]

(* insideOfRegion: the pixel is in the region or near enough.              *)
CloseTo(r, p) ==
  /\ p[1] >= r.x1 - Near /\ p[1] <= r.x2 + Near
  /\ p[2] >= r.y1 - Near /\ p[2] <= r.y2 + Near

ExtendToRight(r, p) == [r EXCEPT !.x2 = Greatest(@, p[1]), !.y2 = Greatest(@, p[2])]

(* What insideOfRegion makes of a region the pixel is close to.            *)
Extended(r, p) == Around(r, Point(p))

(* The current region is asked first, then all of them in order.           *)
Collect(c, p) ==
  LET near == {i \in DOMAIN c.list : CloseTo(c.list[i], p)}
      i == IF c.current \in near THEN c.current ELSE Min(near)
  IN  IF near = {}
      THEN [list |-> Append(c.list, Point(p)), current |-> Len(c.list) + 1]
      ELSE [list |-> [c.list EXCEPT ![i] = Extended(@, p)], current |-> i]

Collected(dirty) == FoldLeft(Collect, NoRegions, Scan(Box(dirty), dirty)).list

-----------------------------------------------------------------------------
(* Uniting.  The list holds the regions not yet marked as united.          *)

(* Apart they are more to send than the rectangle around both.             *)
Better(r, s) == Area(r) + Area(s) > Area(Around(r, s))

(* The first loop of unitePaintRegions for region k: it absorbs later ones *)
(* one by one, growing as it goes.                                         *)
Absorb(list, k) ==
  LET absorb(acc, s) ==
        IF Better(acc.r, s) THEN [acc EXCEPT !.r = Around(@, s)]
                            ELSE [acc EXCEPT !.rest = Append(@, s)]
      acc == FoldLeft(absorb, [r |-> list[k], rest |-> <<>>],
                      SubSeq(list, k + 1, Len(list)))
  IN  SubSeq(list, 1, k - 1) \o <<acc.r>> \o acc.rest

(* unitePaintRegions: the first region from k on that absorbs another.     *)
UniteFrom(list, k) ==
  LET absorbing == {i \in k .. Len(list) : Len(Absorb(list, i)) < Len(list)}
  IN  IF absorbing = {} THEN list ELSE Absorb(list, Min(absorbing))

(* One walk over the list.                                                 *)
Walk(list) ==
  FoldLeft(LAMBDA l, k : IF k > Len(l) THEN l ELSE UniteFrom(l, k), list,
           [k \in DOMAIN list |-> k])

UnitedOnce(list) == Walk(list)

(* Walks until one of them unites nothing; each of the others shortens the *)
(* list, so as many as there are regions are enough.                       *)
United(list) ==
  FoldLeft(LAMBDA l, k : Walk(l), list, [k \in DOMAIN list |-> k])

-----------------------------------------------------------------------------
(* Sending.                                                                *)

TotalArea(list) == FoldLeft(LAMBDA n, r : n + Area(r), 0, list)

SplitAlways(b) == TRUE

(* A box that is too small is not searched for regions.                    *)
Split(b) == Width(b) > Small /\ Height(b) > Small

Regions(dirty) ==
  IF dirty # {} /\ Split(Box(dirty)) THEN United(Collected(dirty)) ELSE <<>>

(* The rectangles given to add_frame, in order: the regions if they are    *)
(* less than the box.                                                      *)
Painted(dirty) ==
  LET box == Box(dirty)
      regions == Regions(dirty)
  IN  IF dirty = {} THEN <<>>
      ELSE IF regions # <<>> /\ TotalArea(regions) < Area(box) THEN regions
      ELSE <<box>>

-----------------------------------------------------------------------------
(* Properties of the outcome.                                              *)

(* The walk over each quarter of a box that is searched begins inside of   *)
(* the box, so that it meets the edge it ends at: another one would leave  *)
(* the image.                                                              *)
ScanEnds(dirty) ==
  dirty # {} /\ Split(Box(dirty)) =>
    \A q \in 0 .. 3 : Quarter(Box(dirty), q) # {}

(* Every pixel that changed is sent, nothing outside the bounding box is,  *)
(* and no more in all than the box: second_buffer already counts all of it *)
(* as known to the client, so a pixel left out would stay wrong.           *)
PaintIsSent(dirty) ==
  LET frames == Painted(dirty)
  IN  /\ \A p \in dirty : \E i \in DOMAIN frames : Covers(frames[i], p)
      /\ \A i \in DOMAIN frames : Around(frames[i], Box(dirty)) = Box(dirty)
      /\ frames # <<>> => TotalArea(frames) <= Area(Box(dirty))

(* Uniting ends only when no two regions are better sent as one.           *)
RegionsAreApart(dirty) ==
  LET regions == Regions(dirty)
  IN  \A i, j \in DOMAIN regions : i < j => ~Better(regions[i], regions[j])
=============================================================================
