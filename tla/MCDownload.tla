----------------------------- MODULE MCDownload -----------------------------
(***************************************************************************)
(* Instances of Download for TLC: more downloads than slots, so that slots *)
(* are removed, cleaned up and used again; one is a local file.            *)
(***************************************************************************)
EXTENDS Download, TLC

CONSTANTS d1, d2, d3, d4

\* The remote downloads do nothing that tells one from another.
RemoteSymmetry == Permutations(Remote)

=============================================================================
