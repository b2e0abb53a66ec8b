--------------------------- MODULE MCUploadPortal ---------------------------
(***************************************************************************)
(* UploadPortal on small instances.  The files differ in nothing; the      *)
(* symmetry serves the run that has no temporal property.                  *)
(***************************************************************************)
EXTENDS UploadPortalProperties, TLC

UploadSymmetry == Permutations(Uploads)
=============================================================================
