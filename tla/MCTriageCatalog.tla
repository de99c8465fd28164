-------------------------- MODULE MCTriageCatalog --------------------------
(* TriageCatalog for TLC: every import over the given ids, paths, hashes.  *)
EXTENDS TriageCatalog
=============================================================================
