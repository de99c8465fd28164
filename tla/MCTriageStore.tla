---------------------------- MODULE MCTriageStore ----------------------------
(* TriageStore for TLC: one document; a note beside it; the document       *)
(* moved and the note edited; the document edited.                         *)
EXTENDS TriageStore, TLC

Doc(p, h) == [path |-> p, hash |-> h]
Note(h) == [path |-> None, hash |-> h]

MCFeeds == {1 :> Doc(1, 1),
            1 :> Doc(1, 1) @@ 2 :> Note(1),
            1 :> Doc(2, 1) @@ 2 :> Note(2),
            1 :> Doc(2, 2)}

Symmetry == Permutations(Handlers)
=============================================================================
