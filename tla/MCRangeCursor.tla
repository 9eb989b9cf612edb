--------------------------- MODULE MCRangeCursor ---------------------------
(* RangeCursor for TLC.  LoadPage takes a free context by CHOOSE, so the    *)
(* contexts are not declared symmetric.                                     *)
EXTENDS RangeCursor, TLC
=============================================================================
