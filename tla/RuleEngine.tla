------------------------------ MODULE RuleEngine ------------------------------
(***************************************************************************)
(* rules.rs, evaluate: what the stored rules make of a new ask.  Texts     *)
(* (agent names, sources, questions, contacts) are sequences of words, all *)
(* in lower case; a substring is a run of whole words.                     *)
(***************************************************************************)
EXTENDS Integers, SequencesExt

CONSTANTS None,     (* an absent field                                     *)
          Width     (* bits of Rule.priority, an i32 in the code           *)

Wildcard == <<"*">>

(* The match object of a compiled rule: absent keys constrain nothing.  A  *)
(* string or array of strings is the set of its strings, any other JSON    *)
(* value the empty set.                                                    *)
NoMatch == [agent |-> None, urgencyMin |-> None, urgencyMax |-> None,
            question |-> None, sourceContains |-> None, sourceIs |-> None]

Filter(verb, arg, match) == [verb |-> verb, arg |-> arg, match |-> match]

Occurs(part, text) ==
    \E i \in 1 .. Len(text) - Len(part) + 1 :
        SubSeq(text, i, i + Len(part) - 1) = part

(* match_rule, against the ask as the rules before this one left it.       *)
Matches(m, n) ==
    /\ m.agent # None => \E a \in m.agent : a \in {Wildcard, n.agent}
    /\ m.urgencyMin # None => n.urgency >= m.urgencyMin
    /\ m.urgencyMax # None => n.urgency <= m.urgencyMax
    /\ m.question # None => Occurs(m.question, n.question)
    /\ m.sourceContains # None =>
          \E s \in m.sourceContains : s = Wildcard \/ Occurs(s, n.src)
    /\ m.sourceIs # None => \E s \in m.sourceIs : s \in {Wildcard, n.src}

ClampUrgency(u) == IF u < 0 THEN 0 ELSE IF u > 5 THEN 5 ELSE u

(* An argument that does not parse is None: the rule then does nothing.    *)
Act(f, n) ==
    CASE f.verb = "mute"         -> [n EXCEPT !.status = "muted"]
      [] f.verb = "surface"      -> [n EXCEPT !.status = "open"]
      [] f.verb = "auto_answer"  -> [n EXCEPT !.auto = f.arg]
      [] f.verb = "reprioritize" /\ f.arg # None ->
            [n EXCEPT !.urgency = ClampUrgency(f.arg)]
      [] f.verb = "snooze" /\ f.arg # None -> [n EXCEPT !.deadline = f.arg]
      [] OTHER -> n

InForce(r, now) == r.expires = None \/ now <= r.expires

ApplyRule(r, n, now) ==
    IF ~InForce(r, now) THEN n
    ELSE IF r.filter = None
           THEN IF r.mute THEN [n EXCEPT !.status = "muted"] ELSE n
           ELSE IF Matches(r.filter.match, n) THEN Act(r.filter, n) ELSE n

(* The sort key -r.priority wraps: the least i32 is its own negation.      *)
SortKey(p) == IF p = -(2^(Width - 1)) THEN p ELSE -p

(* Mutant of EvaluationOrder: the list is taken as the query returns it.   *)
ListOrder(list) == [i \in DOMAIN list |-> i]

(* sort_by_key is stable: rules of one priority keep the order of the list.*)
Before(list, i, j) ==
    \/ SortKey(list[i].priority) < SortKey(list[j].priority)
    \/ SortKey(list[i].priority) = SortKey(list[j].priority) /\ i < j

(* The k-th in that order is the one with k - 1 before it.                 *)
EvaluationOrder(list) ==
    [k \in DOMAIN list |->
        CHOOSE i \in DOMAIN list : Cardinality({j \in DOMAIN list : Before(list, j, i)}) = k - 1]

(* Mutant of AutoAnswerOf: a rule may answer an approval ask.              *)
AnyAutoAnswer(kind, auto) == auto

(* Approval asks can only be answered by a signed grant.                   *)
AutoAnswerOf(kind, auto) == IF kind = "approval" THEN None ELSE auto

(* The ask as the first k rules leave it, k up to their number.            *)
Applied(list, n, now) ==
    LET order == EvaluationOrder(list)
        after[k \in 0 .. Len(list)] ==
            IF k = 0 THEN [n EXCEPT !.status = "open", !.auto = None]
                     ELSE ApplyRule(list[order[k]], after[k - 1], now)
    IN  after

(* The rules are folded over the ask; list is what list_rules returned.    *)
Evaluate(list, n, now) ==
    LET out == Applied(list, n, now)[Len(list)]
    IN  [status |-> out.status, urgency |-> out.urgency, deadline |-> out.deadline,
         auto |-> AutoAnswerOf(n.kind, out.auto)]
=============================================================================
