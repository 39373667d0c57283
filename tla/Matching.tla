------------------------------ MODULE Matching ------------------------------
(***************************************************************************)
(* How initFrameRegions (x2gokdriveremote.c) describes a new frame by an   *)
(* older one the client already has: it picks the older frame that         *)
(* resembles it most, looks for content that was scrolled up or down,      *)
(* measures the rectangle both have in common, and cuts what is left of    *)
(* the new frame into at most eight rectangles that are sent as images.    *)
(*                                                                         *)
(* A frame is a record of its width w, height h and pixels pix, a function *)
(* of <<x, y>>.  find_common_regions returns before it looks for content   *)
(* moved in other ways, so that code is not modelled.                      *)
(***************************************************************************)
EXTENDS Integers, Sequences, FiniteSets, SequencesExt

CONSTANTS
  Points,    \* samples taken of each line and column of a block, 20
  MaxMatch   \* MAX_MATCH_VAL

ASSUME MatchingAssumption == Points \in Nat \ {0} /\ MaxMatch \in Nat

Lesser(a, b) == IF a < b THEN a ELSE b
Larger(a, b) == IF a > b THEN a ELSE b

PixelsOf(f) == (0 .. f.w - 1) \X (0 .. f.h - 1)

Inside(p, w, h) == p[1] \in 0 .. w - 1 /\ p[2] \in 0 .. h - 1

-----------------------------------------------------------------------------
(* The best match.                                                         *)

NoMatch == [index |-> 0, value |-> 99999, distance |-> 0, stop |-> FALSE]

DifferenceIgnoringAge(e, distance) == e.difference

(* How much an element differs in size and colour, and how old it is.      *)
Difference(e, distance) == e.difference + distance

(* One turn of the loop of find_best_match, for the i-th older element:    *)
(* elements the client does not have are passed over, and the search ends  *)
(* when no later one can be better or the rest is too old.                 *)
Consider(older, m, i) ==
  LET stop == m.stop \/ (m.index # 0 /\ m.value <= m.distance)
                     \/ m.distance > MaxMatch
      value == Difference(older[i], m.distance)
  IN  IF stop THEN [m EXCEPT !.stop = TRUE]
      ELSE IF ~older[i].sent THEN m
      ELSE IF m.index = 0 \/ value < m.value
           THEN [m EXCEPT !.index = i, !.value = value, !.distance = @ + 1]
           ELSE [m EXCEPT !.distance = @ + 1]

(* find_best_match over the older elements, the youngest first.            *)
BestMatch(older) ==
  FoldLeft(LAMBDA m, i : Consider(older, m, i), NoMatch,
           [i \in DOMAIN older |-> i])

(* The element that initFrameRegions goes on with.                         *)
Usable(m) == m.index # 0 /\ m.value <= MaxMatch

LargeEnough(f) == f.w > 4 /\ f.h > 4 /\ f.w * f.h > 100

-----------------------------------------------------------------------------
(* Scrolling.  A block of the source is compared with the block that lies  *)
(* "shift" lines below it in the destination.                              *)

MaxShift(src) == src.h \div 3

RoomIgnoringShift(y, h, shift, limit) == IF y + h >= limit THEN limit - y ELSE h

(* The lines of a block at y that stay below the limit when shifted.       *)
Room(y, h, shift, limit) ==
  IF y + h + shift >= limit THEN limit - shift - y ELSE h

(* The block from line y on, clipped to the destination.                   *)
Block(src, dst, y) ==
  LET x == src.w \div 10
      w == src.w \div 2 - src.w \div 5
      h == src.h \div 2 - src.h \div 10
  IN  [x |-> x, y |-> y,
       w |-> IF x + w >= dst.w THEN dst.w - x - 1 ELSE w,
       h |-> Room(y, h, MaxShift(src), dst.h)]

BlockUp(src, dst) == Block(src, dst, src.h \div 10)
BlockDown(src, dst) == Block(src, dst, src.h \div 2)

(* The distance of the samples: at least one, not more than Points in all. *)
Step(length) == Larger(1, length \div Lesser(Points, length))

(* The samples of checkShiftedRegion: each line starts a little further    *)
(* to the right than the line before.                                      *)
Samples(b) ==
  {p \in (b.x .. b.x + b.w - 1) \X (b.y .. b.y + b.h - 1) :
     LET line == p[2] - b.y
         first == b.x + ((line \div Step(b.h)) % Step(b.h))
     IN  /\ line % Step(b.h) = 0
         /\ p[1] >= first /\ (p[1] - first) % Step(b.w) = 0}

Below(p, shift) == <<p[1], p[2] + shift>>

Matches(src, dst, b, shift) ==
  \A p \in Samples(b) : src.pix[p] = dst.pix[Below(p, shift)]

TooSmall(b) == b.w < 2 \/ b.h < 2

(* checkScrollUp and checkScrollDown: the smallest shift that matches, 0   *)
(* if there is none.                                                       *)
ScrollUp(src, dst) ==
  LET shifts == {s \in 1 .. MaxShift(src) - 1 :
                   Matches(src, dst, BlockUp(src, dst), s)}
  IN  IF TooSmall(BlockUp(src, dst)) \/ shifts = {} THEN 0 ELSE Min(shifts)

ScrollDown(src, dst) ==
  LET shifts == {s \in 1 .. MaxShift(src) - 1 :
                   Matches(src, dst, BlockDown(src, dst), -s)}
  IN  IF TooSmall(BlockDown(src, dst)) \/ shifts = {} THEN 0
      ELSE -Min(shifts)

-----------------------------------------------------------------------------
(* What both have in common: a rectangle around the centre of the source,  *)
(* given by how far it extends to its four sides, -1 if not even to the    *)
(* centre itself.                                                          *)

Centre(src) == <<src.w \div 2, src.h \div 2>>

Sign(side) == IF side \in {"right", "down"} THEN 1 ELSE -1

(* The pixels of the source that lie in the shifted destination.           *)
WholeExtent(src, dst, shift) ==
  LET c == Centre(src)
  IN  [left |-> c[1], right |-> Lesser(src.w, dst.w) - 1 - c[1],
       top |-> c[2] - Larger(0, -shift),
       down |-> Lesser(src.h, dst.h - shift) - 1 - c[2]]

LimitKeepingPixel(e, hor, vert, i, j) ==
  IF e[hor] - i < e[vert] - j THEN [e EXCEPT ![hor] = i]
                              ELSE [e EXCEPT ![vert] = j - 1]

(* A pixel i columns and j lines off the centre differs: give up what is   *)
(* less.                                                                   *)
Limit(e, hor, vert, i, j) ==
  IF e[hor] - i < e[vert] - j THEN [e EXCEPT ![hor] = i - 1]
                              ELSE [e EXCEPT ![vert] = j - 1]

(* The line j of one quarter, from the centre to the side.                 *)
CompareLine(src, dst, shift, hor, vert, e, j) ==
  LET at(i) == <<Centre(src)[1] + Sign(hor) * i,
                 Centre(src)[2] + Sign(vert) * j>>
      differ == {i \in 0 .. e[hor] :
                   src.pix[at(i)] # dst.pix[Below(at(i), shift)]}
  IN  IF j > e[vert] \/ differ = {} THEN e
      ELSE Limit(e, hor, vert, Min(differ), j)

CompareQuarter(src, dst, shift, e, q) ==
  FoldLeft(LAMBDA f, j : CompareLine(src, dst, shift, q[1], q[2], f, j - 1),
           e, [j \in 1 .. e[q[2]] + 1 |-> j])

Quarters == << <<"right", "down">>, <<"left", "down">>,
               <<"right", "top">>, <<"left", "top">> >>

NoCommon == [found |-> FALSE]

(* checkEquality.                                                          *)
Equality(src, dst, shift) ==
  LET c == Centre(src)
      e == FoldLeft(LAMBDA f, q : CompareQuarter(src, dst, shift, f, q),
                    WholeExtent(src, dst, shift), Quarters)
      w == e.left + e.right + 1
      h == e.top + e.down + 1
  IN  IF c[1] >= dst.w \/ c[2] + shift >= dst.h THEN NoCommon
      ELSE IF w < 1 \/ h < 1 THEN NoCommon
      ELSE [found |-> TRUE, shift |-> shift,
            rect |-> [x |-> c[1] - e.left, y |-> c[2] - e.top,
                      w |-> w, h |-> h]]

(* find_common_regions, as far as it goes.                                 *)
FindCommonRegions(src, dst) ==
  IF ScrollDown(src, dst) # 0
  THEN Equality(src, dst, ScrollDown(src, dst))
  ELSE IF ScrollUp(src, dst) # 0
  THEN Equality(src, dst, ScrollUp(src, dst))
  ELSE NoCommon

-----------------------------------------------------------------------------
(* The regions of the new frame.                                           *)

CutsWithinBase(length, start, size) ==
  << <<0, start>>, <<start, size>>, <<start + size, length - start>> >>

(* A length cut before and after the common part: where each third starts, *)
(* and how long it is.                                                     *)
Cuts(length, start, size) ==
  << <<0, start>>, <<start, size>>,
     <<start + size, length - start - size>> >>

(* Three by three around the common region, which is number 8; the others  *)
(* are numbered line by line.                                              *)
RegionsAround(w, h, base) ==
  LET column == Cuts(w, base.x, base.w)
      line == Cuts(h, base.y, base.h)
      place == << <<1, 1>>, <<1, 2>>, <<1, 3>>, <<2, 1>>, <<2, 3>>,
                  <<3, 1>>, <<3, 2>>, <<3, 3>>, <<2, 2>> >>
  IN  [i \in 0 .. 8 |->
         LET l == line[place[i + 1][1]]
             c == column[place[i + 1][2]]
         IN  [x |-> c[1], y |-> l[1], w |-> c[2], h |-> l[2]]]

Empty(r) == r.w = 0 \/ r.h = 0

(* One turn of the loop that unites neighbours of one line.  The test for  *)
(* prev > 0 leaves region 0 alone.                                         *)
UniteRegion(s, i) ==
  LET r == s.regions
      p == s.prev
  IN  IF Empty(r[i]) THEN s
      ELSE IF p > 0 /\ r[i].y = r[p].y /\ r[p].x + r[p].w = r[i].x
      THEN [s EXCEPT !.regions = [r EXCEPT ![p].w = @ + r[i].w, ![i].w = 0]]
      ELSE [s EXCEPT !.prev = i]

FrameRegions(w, h, base) ==
  FoldLeft(UniteRegion, [regions |-> RegionsAround(w, h, base), prev |-> -1],
           [i \in 1 .. 8 |-> i - 1]).regions

RegionPixel(r, p) ==
  p[1] \in r.x .. r.x + r.w - 1 /\ p[2] \in r.y .. r.y + r.h - 1

-----------------------------------------------------------------------------
(* Properties of the outcome.                                              *)

(* The samples that are compared lie in both frames: the code only logs an *)
(* index that does not, and reads there all the same.                      *)
SamplesAreInside(src, dst) ==
  \A up \in BOOLEAN : \A shift \in 0 .. MaxShift(src) - 1 :
    LET b == IF up THEN BlockUp(src, dst) ELSE BlockDown(src, dst)
    IN  TooSmall(b)
        \/ \A p \in Samples(b) :
             /\ Inside(p, src.w, src.h)
             /\ Inside(Below(p, IF up THEN shift ELSE -shift), dst.w, dst.h)

(* No region reaches out of the frame, and every pixel lies in exactly one.*)
Tiles(regions, w, h) ==
  /\ \A i \in 0 .. 8 : ~Empty(regions[i]) =>
       /\ regions[i].x >= 0 /\ regions[i].x + regions[i].w <= w
       /\ regions[i].y >= 0 /\ regions[i].y + regions[i].h <= h
  /\ \A p \in (0 .. w - 1) \X (0 .. h - 1) :
       \E i \in 0 .. 8 : \A k \in 0 .. 8 :
         RegionPixel(regions[k], p) <=> k = i

(* A client that copies the common region from the older frame and draws   *)
(* the images sent for the others has the new frame, every pixel of it     *)
(* drawn once.                                                             *)
FrameIsRebuilt(src, dst) ==
  LET common == FindCommonRegions(src, dst)
      base == [common.rect EXCEPT !.y = @ + common.shift]
      regions == FrameRegions(dst.w, dst.h, base)
  IN  common.found =>
        /\ Tiles(regions, dst.w, dst.h)
        /\ \A p \in PixelsOf(dst) :
             RegionPixel(regions[8], p) =>
               /\ Inside(Below(p, -common.shift), src.w, src.h)
               /\ src.pix[Below(p, -common.shift)] = dst.pix[p]

(* The early ends of the search lose nothing: of all elements the client   *)
(* has, none that would do is better than the one found.                   *)
MatchIsBest(older) ==
  LET m == BestMatch(older)
      age(i) == Cardinality({k \in 1 .. i - 1 : older[k].sent})
      value(i) == older[i].difference + age(i)
      sent == {i \in DOMAIN older : older[i].sent}
  IN  /\ m.index # 0 => m.index \in sent /\ m.value = value(m.index)
      /\ \A i \in sent : value(i) <= MaxMatch =>
           Usable(m) /\ m.value <= value(i)
=============================================================================
