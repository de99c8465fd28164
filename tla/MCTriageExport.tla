---------------------------- MODULE MCTriageExport ---------------------------
(* TriageExport for TLC: a document, then a note beside it.                *)
EXTENDS TriageExport, TLC

Doc(p, h) == [path |-> p, hash |-> h]
Note(h) == [path |-> None, hash |-> h]

MCFeeds == {1 :> Doc(1, 1), 1 :> Doc(1, 1) @@ 2 :> Note(1)}
=============================================================================
