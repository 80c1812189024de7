--------------------------- MODULE MCResultStream ---------------------------
(* Instances of ResultStream for TLC.                                       *)
EXTENDS ResultStream, TLC
=============================================================================
