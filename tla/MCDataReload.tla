---------------------------- MODULE MCDataReload ----------------------------
(* A set of two files and a set of one file.                               *)
EXTENDS DataReload

CONSTANTS f1, f2, f3

MCGroup == {<<f1, f2>>, <<f3>>}
=============================================================================
