--------------------------- MODULE MCNativeObject ---------------------------
(***************************************************************************)
(* Small instances of NativeObject for TLC.                                *)
(***************************************************************************)
EXTENDS NativeObject

CONSTANTS h1, h2, i1, i2, s1, b1
=============================================================================
