--------------------------- MODULE MCCodeMapping ----------------------------
(* CodeMapping on a few small pages.                                        *)
EXTENDS CodeMapping
=============================================================================
