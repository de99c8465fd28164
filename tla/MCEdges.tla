------------------------------ MODULE MCEdges --------------------------------
(***************************************************************************)
(* Edges for TLC: a Google profile named twice, with one mail, or another *)
(* with the same mail and a long newsletter, or a third with a message of  *)
(* Chat; three iMessages of one contact, two with the same text; three     *)
(* envelopes, one of them unreadable; a phone and an ask; three daemons.   *)
(***************************************************************************)
EXTENDS Edges

CONSTANTS m1, m2, c1, i1, i2, i3, e1, e2, e3, d1, a1, p1, p2, p3

Plain(says) == [bytes |-> 30, letters |-> 20, emoji |-> 0, says |-> says]
MCProfileLists == {<<"work", "work">>, <<"default">>, <<"home">>}
MCSeenBy == (m1 :> {"work", "default"}) @@ (m2 :> {"default"}) @@ (c1 :> {"home"})
MCBody == (m1 :> Plain({"asks"})) @@ (c1 :> Plain({"mark"}))
   @@ (m2 :> [bytes |-> 900, letters |-> 700, emoji |-> 0, says |-> {"mark", "split200"}])
MCSubject == (m1 :> Plain({})) @@ (m2 :> Plain({"request", "earlyRequest"}))

MCSkews == {-1, 0}
MCHandle == (i1 :> "+1555") @@ (i2 :> "mom@example.com") @@ (i3 :> "+1555")
MCContact == ("+1555" :> "Mom") @@ ("mom@example.com" :> "Mom")
MCIMText == [i \in {i1, i2} |-> Plain({"mark"})] @@ (i3 :> Plain({"request"}))

MCSigSkews == {-1, 1}
MCSigText == (e1 :> Plain({"mark"})) @@ (e2 :> Plain({"opinion"})) @@ (e3 :> Plain({"mark"}))
=============================================================================
