----------------------------- MODULE MCNegative -----------------------------
(***************************************************************************)
(* Pictures of up to six pixels and up to five threads, and a picture that *)
(* is 255 columns wide, which need not be read.                            *)
(***************************************************************************)
EXTENDS Negative

SmallOrWide == ({1, 2, 3} \X {1, 2}) \cup {<<255, 0>>}
=============================================================================
