----------------------------- MODULE MCRegistry -----------------------------
(* Registry on a small instance: the content of a template, an empty one  *)
(* and, where a run needs it, one that only a write gives.                  *)
EXTENDS Registry

CONSTANTS full, written

MCContent == {Empty, full}
MCWritten == {Empty, full, written}
MCTemplate == {full}
=============================================================================
