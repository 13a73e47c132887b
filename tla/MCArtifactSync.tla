--------------------------- MODULE MCArtifactSync ---------------------------
(* Model checking of ArtifactSync on small instances.                      *)
EXTENDS ArtifactSync

MCListing == <<"board", "answer", "ledger">>
=============================================================================
