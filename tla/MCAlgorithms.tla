---------------------------- MODULE MCAlgorithms ----------------------------
(***************************************************************************)
(* Small instances of what is computed and of what is read and written in  *)
(* pieces: the rectangles of a repaint, the best match, the regions of a   *)
(* frame, the event stream and the datagrams.  Each initial state chooses  *)
(* one of them; the first three have one step, from the input to the       *)
(* outcome, the others run.                                                *)
(***************************************************************************)
EXTENDS Painting, Matching, Events, Datagrams, TLC

VARIABLES
  part,    \* what is checked in this behaviour
  input,   \* an input of one of the algorithms
  done     \* its outcome is to be looked at

allVars == <<part, input, done, eventVars, dgVars>>

-----------------------------------------------------------------------------
(* Pixels that changed: up to three anywhere, and all parts of a blot that *)
(* is collected into overlapping regions.                                  *)
Canvas == (0 .. 6) \X (0 .. 5)
Blot == {<<0, 3>>, <<2, 4>>, <<3, 0>>, <<3, 2>>, <<3, 3>>, <<4, 0>>, <<4, 1>>,
         <<5, 2>>, <<6, 5>>}
Changes == {{p, q, r} : p, q, r \in Canvas} \cup SUBSET Blot

(* Older elements, how much they differ, and whether the client has them.  *)
Elders ==
  UNION {[1 .. n -> [difference : 0 .. 3, sent : BOOLEAN]] : n \in 0 .. 4}

(* A frame whose lines are all different, and one with the same lines      *)
(* scrolled and some pixels changed: one anywhere, and none, one or a      *)
(* piece of a line or a column near the centre.                            *)
Sizes == {<<11, 10, 11, 10>>, <<7, 15, 6, 17>>, <<11, 10, 17, 6>>}
Noise(w, h) ==
  {{}, {<<w \div 2, h \div 2>>}, {<<w \div 2, y>> : y \in h \div 2 .. h},
   {<<x, 1 + h \div 2>> : x \in 0 .. w \div 2}}
Scrolls ==
  UNION {{[size |-> z, shift |-> s, noise |-> {p} \cup n] :
            s \in -3 .. 3, p \in (0 .. z[3] - 1) \X (0 .. z[4] - 1),
            n \in Noise(z[3], z[4])} : z \in Sizes}

Older(i) ==
  [w |-> i.size[1], h |-> i.size[2],
   pix |-> [p \in (0 .. i.size[1] - 1) \X (0 .. i.size[2] - 1) |-> p[2]]]
Newer(i) ==
  [w |-> i.size[3], h |-> i.size[4],
   pix |-> [p \in (0 .. i.size[3] - 1) \X (0 .. i.size[4] - 1) |->
              IF p \in i.noise THEN 99 ELSE p[2] - i.shift]]

-----------------------------------------------------------------------------
Init ==
  /\ EventsInit /\ DatagramsInit /\ done = FALSE
  /\ \/ part = "paint" /\ input \in Changes
     \/ part = "match" /\ input \in Elders
     \/ part = "regions" /\ input \in Scrolls
     \/ part \in {"events", "datagrams"} /\ input = <<>>

Compute ==
  /\ part \in {"paint", "match", "regions"} /\ ~done
  /\ done' = TRUE
  /\ UNCHANGED <<part, input, eventVars, dgVars>>

Next ==
  \/ Compute
  \/ part = "events" /\ EventsNext /\ UNCHANGED <<part, input, done, dgVars>>
  \/ part = "datagrams" /\ DatagramsNext
       /\ UNCHANGED <<part, input, done, eventVars>>

Spec == Init /\ [][Next]_allVars

Has(p) == part = p /\ done

(* Every pixel that changed is sent, no two rectangles are left that would *)
(* be better sent as one, and the scan for them stays inside of the box    *)
(* (remote_paint_rect, unitePaintRegions).                                 *)
ChangesAreSent ==
  Has("paint") =>
    PaintIsSent(input) /\ RegionsAreApart(input) /\ ScanEnds(input)

(* The early ends of the search for a similar frame lose nothing           *)
(* (find_best_match).  A frame that is described by an older one comes out *)
(* right, and nothing outside the two is read (initFrameRegions).          *)
FramesAreRebuilt ==
  /\ Has("match") => MatchIsBest(input)
  /\ Has("regions") => /\ SamplesAreInside(Older(input), Newer(input))
                       /\ FrameIsRebuilt(Older(input), Newer(input))

(* What is cut into pieces is put together again: events of the client     *)
(* that arrive in any portions, packets sent as datagrams by two threads   *)
(* until their sequence begins anew.                                       *)
StreamsAreWhole == EventsAreWhole /\ PacketsAreRebuilt
=============================================================================
