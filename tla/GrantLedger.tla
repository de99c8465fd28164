------------------------------ MODULE GrantLedger ------------------------------
(***************************************************************************)
(* What the grants table promises, one atomic step per accepted request:   *)
(* records are entered once and stay, the first revoke of a record marks   *)
(* it for good, and a once grant is consumed by one claim.                 *)
(***************************************************************************)
CONSTANTS Ids,         \* ids derived from the hash of a record
          Envelopes,   \* signed records [id, kind, target] that may be posted
          Agents,      \* who may claim
          None

VARIABLE ledger

(* A record as it is stored: neither revoked nor claimed.                  *)
Fresh(e) == [envelope |-> e, revoked_by |-> None, claimed_by |-> None]

Init == ledger = [i \in {} |-> i]

Enter(e) ==
    /\ e.id \notin DOMAIN ledger
    /\ e.kind = "revoke" => e.target \in DOMAIN ledger
    /\ ledger' = [i \in DOMAIN ledger \cup {e.id} |->
          IF i = e.id THEN Fresh(e)
          ELSE IF e.kind = "revoke" /\ i = e.target /\ ledger[i].revoked_by = None
               THEN [ledger[i] EXCEPT !.revoked_by = e.id]
               ELSE ledger[i]]

Consume(i, by) ==
    /\ i \in DOMAIN ledger
    /\ ledger[i].envelope.kind = "once"
    /\ ledger[i].claimed_by = None
    /\ ledger' = [ledger EXCEPT ![i].claimed_by = by]

Next ==
    \/ \E e \in Envelopes : Enter(e)
    \/ \E i \in Ids, by \in Agents : Consume(i, by)

Spec == Init /\ [][Next]_ledger
=============================================================================
