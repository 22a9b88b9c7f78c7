----------------------------- MODULE MCHistory ------------------------------
(***************************************************************************)
(* Two documents, a frameset of both, and an archive that is given to an   *)
(* application.                                                            *)
(***************************************************************************)
EXTENDS History

MCFrames == [d \in {"index"} |-> <<"text", "list">>]
=============================================================================
