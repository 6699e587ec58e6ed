---------------------------- MODULE MCIndexFile ----------------------------
(* Two indexers and a server over one path. *)
EXTENDS IndexFile, TLC
=============================================================================
