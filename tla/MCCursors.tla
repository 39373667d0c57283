----------------------------- MODULE MCCursors ------------------------------
(* A small instance of Cursors.                                            *)
EXTENDS Cursors

(* Every property is about the time before an overlap, so what follows one *)
(* is not explored.                                                        *)
BeforeOverlap == ~overlap
=============================================================================
