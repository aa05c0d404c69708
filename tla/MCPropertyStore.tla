-------------------------- MODULE MCPropertyStore --------------------------
(* PropertyStore with bytes of a few bits.                                  *)
EXTENDS PropertyStore
=============================================================================
