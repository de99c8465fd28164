----------------------------- MODULE RevisionLog -----------------------------
(***************************************************************************)
(* What a triage queue promises a consumer of its export: decisions are    *)
(* appended to a log, numbered 1, 2, ... for each item, never changed, and *)
(* a consumer that keeps its cursor processes a growing prefix of the log. *)
(***************************************************************************)
EXTENDS Naturals, FiniteSets

VARIABLES log,   \* revisions by event id
          seen   \* event ids the consumer processed

Init ==
    /\ log = [e \in {} |-> e]
    /\ seen = {}

DecisionsOn(item) == {e \in DOMAIN log : log[e].item = item}

Append ==
    /\ \E e \in DOMAIN log' :
          /\ DOMAIN log' = DOMAIN log \cup {e}
          /\ \A f \in DOMAIN log : f < e /\ log'[f] = log[f]
          /\ log'[e].revision = Cardinality(DecisionsOn(log'[e].item)) + 1
    /\ seen' = seen

Process ==
    /\ log' = log
    /\ seen \subseteq seen' /\ seen' \subseteq DOMAIN log
    /\ \A e \in seen', f \in DOMAIN log : f < e => f \in seen'

Next == Append \/ Process

Spec == Init /\ [][Next]_<<log, seen>>
=============================================================================
