---------------------------- MODULE QuestionFilter ----------------------------
(***************************************************************************)
(* The heuristics of the plugins that tell questions from other messages.  *)
(* A text is what they look at: its length in bytes, its letters and its   *)
(* emoji, and what it says:                                                *)
(*   reaction   it is one of the listed words ("lol", "thanks")            *)
(*   closing    it starts with a listed phrase ("on my way")               *)
(*   mark       it has a question mark, early: in its first 200 bytes      *)
(*   asks       it starts with a question word ("what", "can you")         *)
(*   request    it has a request ("let me know"), early: in the first 500  *)
(*   or         it has " or ", early: in the first 500 bytes               *)
(*   opinion    it has one of Signal's patterns ("should we", "wdyt")      *)
(*   split200, split500   that byte is inside a character                  *)
(***************************************************************************)
EXTENDS Integers

Signs == {"reaction", "closing", "mark", "earlyMark", "asks", "request",
          "earlyRequest", "or", "earlyOr", "opinion", "split200", "split500"}

(* Fewer than three letters cannot start with a question word either.      *)
HardNo(t) ==
    \/ t.bytes < 4
    \/ t.says \cap {"reaction", "closing"} # {}
    \/ t.letters < 3
    \/ t.emoji > 3 /\ t.letters < 5

(* Gmail and Chat.  A slice that ends inside a character panics.           *)
GogLooksLikeQuestion(t) ==
    CASE HardNo(t) -> "no"
      [] ~HardNo(t) /\ "mark" \in t.says ->
            IF t.bytes <= 500 THEN "yes"
            ELSE IF "split200" \in t.says THEN "panic"
            ELSE IF "earlyMark" \in t.says THEN "yes" ELSE "no"
      [] ~HardNo(t) /\ "mark" \notin t.says ->
            IF "asks" \in t.says THEN "yes"
            ELSE IF t.bytes > 1000 /\ "split500" \in t.says THEN "panic"
            ELSE IF (IF t.bytes > 1000 THEN {"earlyRequest", "earlyOr"}
                     ELSE IF t.bytes > 10 THEN {"request", "or"} ELSE {"request"})
                      \cap t.says # {} THEN "yes" ELSE "no"

(* iMessage: the length of a text matters to " or " only.                  *)
IMLooksLikeQuestion(t) ==
    /\ ~HardNo(t)
    /\ \/ t.says \cap {"mark", "asks", "request"} # {}
       \/ "or" \in t.says /\ t.bytes > 15

(* Signal: any of these, anywhere, in a text of any length.                *)
SignalLooksLikeQuestion(t) == t.says \cap {"mark", "opinion", "or"} # {}
=============================================================================
