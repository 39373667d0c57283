---------------------------- MODULE MCSelection ----------------------------
(* Small instances of Selection.                                           *)
EXTENDS Selection
(* Towards the client: an image takes several chunks, a text does not.     *)
Units == [text |-> 1, image |-> 3]
(* From the client, with ChunkUnits = 4 and EventUnits = 3: a text fits in *)
(* one event, an image takes two chunks and the first of them two events.  *)
Copied == [text |-> 3, image |-> 5]
=============================================================================
