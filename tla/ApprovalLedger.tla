--------------------------- MODULE ApprovalLedger ---------------------------
(***************************************************************************)
(* What the daemon promises about transient authority, without handlers,   *)
(* waiters or row statuses: signed grants are stored once, each for one    *)
(* ask, and an approval ask is decided at most once, by a grant stored for *)
(* it in the same step.  AskLifecycle implements this specification.       *)
(***************************************************************************)
CONSTANTS Asks,    (* notifications                                        *)
          Grants,  (* ids of signed grant envelopes                        *)
          None

VARIABLES holder,    (* the ask a stored grant answers, None if not stored *)
          decision   (* the grant that decided an approval ask, or None    *)

ledgerVars == <<holder, decision>>

LedgerInit ==
    /\ holder = [g \in Grants |-> None]
    /\ decision = [n \in Asks |-> None]

(* A grant is stored and decides an undecided ask. *)
Decide(g, n) ==
    /\ holder[g] = None
    /\ decision[n] = None
    /\ holder' = [holder EXCEPT ![g] = n]
    /\ decision' = [decision EXCEPT ![n] = g]

(* A grant is stored for an ask without deciding it: what the daemon does  *)
(* with a grant for an ask that a waiter's timeout has closed.             *)
StoreLate(g, n) ==
    /\ holder[g] = None
    /\ holder' = [holder EXCEPT ![g] = n]
    /\ UNCHANGED decision

LedgerNext == \E g \in Grants, n \in Asks : Decide(g, n) \/ StoreLate(g, n)

LedgerSpec == LedgerInit /\ [][LedgerNext]_ledgerVars
=============================================================================
