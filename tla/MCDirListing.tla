---------------------------- MODULE MCDirListing ----------------------------
(* An instance of DirListing for TLC: small entries, and offsets both at   *)
(* the boundary of an entry and inside one.                                *)
EXTENDS DirListing
=============================================================================
