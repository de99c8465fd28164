------------------------------ MODULE GrantStore ------------------------------
(***************************************************************************)
(* The grants table in PostgreSQL and the handlers that write to it.       *)
(* POST /grants stores a verified record in one transaction of several     *)
(* statements; POST /grants/{id}/claim reads the row, decides on the copy, *)
(* updates in a statement of its own and reads the row again for the       *)
(* reply.  rows is what has been committed, which is all that other        *)
(* connections see; a handler may be dropped between any two steps.  What  *)
(* a grant does to its ask is AskLifecycle's.                              *)
(***************************************************************************)
EXTENDS Naturals, FiniteSets

CONSTANTS Ids, Envelopes, Agents, None,
          Handlers     \* requests that may be in flight together

Kinds == {"once", "grant", "revoke", "enroll"}
Envelope == [id : Ids, kind : Kinds, target : Ids \cup {None}]

(* The outcomes of a request; "not_open" stands for every reason an ask    *)
(* has to refuse a grant, "lost" for a request that got no answer.         *)
Codes == {"created", "not_open", "target_not_found", "id_collision",
          "claimed", "not_found", "not_once", "already_claimed", "lost"}

ASSUME StoreAssumption ==
    /\ IsFiniteSet(Ids)
    /\ Envelopes \subseteq Envelope
    /\ None \notin Ids /\ None \notin Agents /\ None \notin Codes

VARIABLES
    rows,    \* committed rows of grants by id
    step,    \* progress of each handler
    posted,  \* the envelope a handler stores
    claim,   \* the id and the name a handler claims for
    mark,    \* revoked_by of the target as its transaction has written it
    reply,   \* what the handler answers
    wins     \* history: claims of each id whose UPDATE took a row

call == <<posted, claim, mark>>
vars == <<rows, step, posted, claim, mark, reply, wins>>

(* at, a history field, numbers the rows in the order of their commits.    *)
Row == [envelope : Envelopes, at : Nat,
        revoked_by : Ids \cup {None}, claimed_by : Agents \cup {None}]
Claim == [id : Ids, by : Agents]
Reply == [code : Codes \cup {None}, by : Agents \cup {None}]

NoReply == [code |-> None, by |-> None]

Init ==
    /\ rows = [i \in {} |-> i]
    /\ step = [h \in Handlers |-> "idle"]
    /\ posted = [h \in Handlers |-> None]
    /\ claim = [h \in Handlers |-> None]
    /\ mark = [h \in Handlers |-> None]
    /\ reply = [h \in Handlers |-> NoReply]
    /\ wins = [i \in Ids |-> 0]

Goto(h, s) == step' = [step EXCEPT ![h] = s]

(* The handler answers; an open transaction of its own rolls back.         *)
AnswerWith(h, code, by) ==
    /\ Goto(h, "replied")
    /\ reply' = [reply EXCEPT ![h] = [code |-> code, by |-> by]]

Answer(h, code) == AnswerWith(h, code, None)

-----------------------------------------------------------------------------
(* POST /grants                                                            *)

Revokes(h, i) == posted[h].kind = "revoke" /\ posted[h].target = i

(* Mutant of Locked: no FOR UPDATE in insert_grant_revoking.               *)
LockedNever(i) == FALSE

(* Some revoke holds the row i since its SELECT ... FOR UPDATE.            *)
Locked(i) ==
    \E h \in Handlers : step[h] \in {"locked", "inserted", "marked"} /\ Revokes(h, i)

(* Some transaction has inserted the id i and not ended: the primary key   *)
(* makes another INSERT of i wait.                                         *)
Pending(i) ==
    \E h \in Handlers : step[h] \in {"inserted", "marked"} /\ posted[h].id = i

Post(h, e) ==
    /\ step[h] = "idle"
    /\ Goto(h, "verified")
    /\ posted' = [posted EXCEPT ![h] = e]
    /\ UNCHANGED <<rows, claim, mark, reply, wins>>

(* An enroll locks nothing.  The ask a grant locks is AskLifecycle's: here *)
(* it accepts the grant or not.                                            *)
Lock(h) ==
    /\ step[h] = "verified"
    /\ posted[h].kind = "revoke" =>
          posted[h].target \in DOMAIN rows /\ ~Locked(posted[h].target)
    /\ Goto(h, "locked")
    /\ UNCHANGED <<rows, call, reply, wins>>

TargetMissing(h) ==
    /\ step[h] = "verified"
    /\ posted[h].kind = "revoke" /\ posted[h].target \notin DOMAIN rows
    /\ Answer(h, "target_not_found")
    /\ UNCHANGED <<rows, call, wins>>

AskRefuses(h) ==
    /\ step[h] = "verified"
    /\ posted[h].kind \in {"once", "grant"}
    /\ Answer(h, "not_open")
    /\ UNCHANGED <<rows, call, wins>>

(* Mutant of IdFree: the result of insert_grant_row is not looked at.      *)
IdIgnored(i) == TRUE

(* ON CONFLICT (id) DO NOTHING took one row.                               *)
IdFree(i) == i \notin DOMAIN rows

Insert(h) ==
    /\ step[h] = "locked" /\ ~Pending(posted[h].id)
    /\ IdFree(posted[h].id)
    /\ Goto(h, "inserted")
    /\ UNCHANGED <<rows, call, reply, wins>>

Collide(h) ==
    /\ step[h] = "locked" /\ ~Pending(posted[h].id)
    /\ ~IdFree(posted[h].id)
    /\ Answer(h, "id_collision")
    /\ UNCHANGED <<rows, call, wins>>

(* Mutant of FirstRevoke: SET revoked_by = $1.                             *)
LastRevoke(old, new) == new

(* COALESCE(revoked_by, $1).                                               *)
FirstRevoke(old, new) == IF old = None THEN new ELSE old

Mark(h) ==
    /\ step[h] = "inserted" /\ posted[h].kind = "revoke"
    /\ mark' = [mark EXCEPT ![h] =
          FirstRevoke(rows[posted[h].target].revoked_by, posted[h].id)]
    /\ Goto(h, "marked")
    /\ UNCHANGED <<rows, posted, claim, reply, wins>>

(* Mutant of Stored: two of the fourteen bound columns swapped.            *)
StoredMisbound(e) == [envelope |-> e, at |-> Cardinality(DOMAIN rows),
                      revoked_by |-> None, claimed_by |-> e.id]

(* from_verified.                                                          *)
Stored(e) == [envelope |-> e, at |-> Cardinality(DOMAIN rows),
              revoked_by |-> None, claimed_by |-> None]

(* The reply may be lost with the handler although the commit went through. *)
Commit(h) ==
    LET e == posted[h] IN
    /\ step[h] \in {"inserted", "marked"}
    /\ step[h] = "marked" <=> e.kind = "revoke"
    /\ rows' = [i \in DOMAIN rows \cup {e.id} |->
          IF i \notin DOMAIN rows THEN Stored(e)
          ELSE IF Revokes(h, i) THEN [rows[i] EXCEPT !.revoked_by = mark[h]]
          ELSE rows[i]]
    /\ \E code \in {"created", "lost"} : Answer(h, code)
    /\ UNCHANGED <<call, wins>>

-----------------------------------------------------------------------------
(* POST /grants/{id}/claim                                                 *)

(* load_grant, then check_claim on the copy.                               *)
ClaimError(i) ==
    IF i \notin DOMAIN rows THEN "not_found"
    ELSE IF rows[i].envelope.kind # "once" THEN "not_once"
    ELSE IF rows[i].claimed_by # None THEN "already_claimed"
    ELSE None

CheckClaim(h, i, by) ==
    /\ step[h] = "idle"
    /\ claim' = [claim EXCEPT ![h] = [id |-> i, by |-> by]]
    /\ IF ClaimError(i) = None
       THEN Goto(h, "checked") /\ UNCHANGED reply
       ELSE Answer(h, ClaimError(i))
    /\ UNCHANGED <<rows, posted, mark, wins>>

(* Mutant of Unclaimed: no AND claimed_by IS NULL.                         *)
ClaimedAnyhow(i) == TRUE

Unclaimed(i) == rows[i].claimed_by = None

(* The UPDATE waits for the row and looks at its newest version.           *)
TakeClaim(h) ==
    LET i == claim[h].id IN
    /\ step[h] = "checked" /\ ~Locked(i)
    /\ IF Unclaimed(i)
       THEN /\ rows' = [rows EXCEPT ![i].claimed_by = claim[h].by]
            /\ wins' = [wins EXCEPT ![i] = @ + 1]
            /\ Goto(h, "claimed") /\ UNCHANGED reply
       ELSE /\ Answer(h, "already_claimed")
            /\ UNCHANGED <<rows, wins>>
    /\ UNCHANGED call

(* The second load_grant: the reply carries the row as it is by now.       *)
ReloadClaim(h) ==
    /\ step[h] = "claimed"
    /\ AnswerWith(h, "claimed", rows[claim[h].id].claimed_by)
    /\ UNCHANGED <<rows, call, wins>>

-----------------------------------------------------------------------------
(* A client that leaves, a failed statement, a restart of the daemon:      *)
(* an open transaction rolls back, a claim that was taken stays.           *)
Drop(h) ==
    /\ step[h] \notin {"idle", "replied"}
    /\ Answer(h, "lost")
    /\ UNCHANGED <<rows, call, wins>>

(* The next request; clients repeat what they got no answer to.            *)
Finish(h) ==
    /\ step[h] = "replied"
    /\ Goto(h, "idle")
    /\ posted' = [posted EXCEPT ![h] = None]
    /\ claim' = [claim EXCEPT ![h] = None]
    /\ mark' = [mark EXCEPT ![h] = None]
    /\ reply' = [reply EXCEPT ![h] = NoReply]
    /\ UNCHANGED <<rows, wins>>

Next ==
    \E h \in Handlers :
        \/ \E e \in Envelopes : Post(h, e)
        \/ Lock(h) \/ TargetMissing(h) \/ AskRefuses(h)
        \/ Insert(h) \/ Collide(h) \/ Mark(h) \/ Commit(h)
        \/ \E i \in Ids, by \in Agents : CheckClaim(h, i, by)
        \/ TakeClaim(h) \/ ReloadClaim(h)
        \/ Drop(h) \/ Finish(h)

Spec == Init /\ [][Next]_vars

-----------------------------------------------------------------------------
TypeOK ==
    /\ DOMAIN rows \subseteq Ids
    /\ \A i \in DOMAIN rows : rows[i] \in Row /\ rows[i].envelope.id = i
    /\ step \in [Handlers -> {"idle", "verified", "locked", "inserted", "marked",
                              "checked", "claimed", "replied"}]
    /\ posted \in [Handlers -> Envelopes \cup {None}]
    /\ claim \in [Handlers -> Claim \cup {None}]
    /\ mark \in [Handlers -> Ids \cup {None}]
    /\ reply \in [Handlers -> Reply]
    /\ wins \in [Ids -> Nat]

(* README.md:891, db.rs:602: revoked_by names the first revoke that was    *)
(* stored for the record, whatever the order of the transactions and       *)
(* however many were refused, lost or repeated; and no stored revoke       *)
(* leaves its target unmarked.                                             *)
RevokesOf(i) == {r \in DOMAIN rows : rows[r].envelope.kind = "revoke"
                                     /\ rows[r].envelope.target = i}

FirstRevokeWins ==
    \A i \in DOMAIN rows :
        LET R == RevokesOf(i)
            first == rows[i].revoked_by
        IN  IF R = {} THEN first = None
            ELSE first \in R /\ \A r \in R : rows[first].at <= rows[r].at

(* A once grant is consumed by one claim (grant_handlers.rs:230): of all   *)
(* the claims that passed check_claim on their copy, one UPDATE takes the  *)
(* row, and no record of another kind is ever consumed.                    *)
ConsumedOnce ==
    \A i \in Ids :
        /\ wins[i] <= 1
        /\ wins[i] = 1 <=> i \in DOMAIN rows /\ rows[i].claimed_by # None
        /\ wins[i] = 1 => rows[i].envelope.kind = "once"

(* Whoever is told that a claim went through reads its own name in the     *)
(* reply, although the row is read again after the UPDATE                  *)
(* (grant_handlers.rs:233): an agent acts on the grant only then.          *)
ClaimReplyNamesClaimer ==
    \A h \in Handlers :
        reply[h].code = "claimed" => reply[h].by = claim[h].by

(* README.md:929, nothing is written when a POST is refused, and its       *)
(* converse: a poster who is told 201 has its own envelope in the table,   *)
(* never another one with the same six-letter id, and its revoke counts.   *)
AcknowledgedIsStored ==
    \A h \in Handlers :
        reply[h].code = "created" =>
            /\ posted[h].id \in DOMAIN rows
            /\ rows[posted[h].id].envelope = posted[h]
            /\ posted[h].kind = "revoke" => rows[posted[h].target].revoked_by # None

(* The facts a handler relies on between two statements.  A revoke that    *)
(* went past its SELECT keeps its target from changing under it, an id     *)
(* that was inserted is nobody else's, and a claim in progress concerns a  *)
(* once grant that is not deleted under it.                                *)
PosterFacts ==
    \A h \in Handlers :
        /\ step[h] \in {"verified", "locked", "inserted", "marked"} => posted[h] \in Envelopes
        /\ step[h] \in {"locked", "inserted", "marked"} /\ posted[h].kind = "revoke"
              => posted[h].target \in DOMAIN rows
        /\ step[h] \in {"inserted", "marked"} => posted[h].id \notin DOMAIN rows
        /\ step[h] = "marked" =>
              /\ posted[h].kind = "revoke"
              /\ mark[h] = FirstRevoke(rows[posted[h].target].revoked_by, posted[h].id)
        /\ reply[h].code = "created" => step[h] = "replied" /\ posted[h] \in Envelopes

ClaimerFacts ==
    \A h \in Handlers :
        /\ step[h] \in {"checked", "claimed"} =>
              /\ claim[h] \in Claim /\ claim[h].id \in DOMAIN rows
              /\ rows[claim[h].id].envelope.kind = "once"
        /\ step[h] = "claimed" => rows[claim[h].id].claimed_by = claim[h].by
        /\ reply[h].code = "claimed" => step[h] = "replied"

OneHolder ==
    \A h, k \in Handlers :
        /\ step[h] \in {"inserted", "marked"} /\ step[k] \in {"inserted", "marked"}
              /\ posted[h].id = posted[k].id => h = k
        /\ step[h] \in {"locked", "inserted", "marked"} /\ Revokes(h, posted[h].target)
              /\ step[k] \in {"locked", "inserted", "marked"} /\ Revokes(k, posted[h].target)
              => h = k

RowsInOrder ==
    \A i \in DOMAIN rows :
        /\ rows[i].at < Cardinality(DOMAIN rows)
        /\ rows[i].envelope.kind = "revoke" => rows[i].envelope.target \in DOMAIN rows

Inv == /\ TypeOK /\ PosterFacts /\ ClaimerFacts /\ OneHolder /\ RowsInOrder
       /\ FirstRevokeWins /\ ConsumedOnce /\ ClaimReplyNamesClaimer /\ AcknowledgedIsStored

(* Every step is one of the ledger's or invisible: records stay as they    *)
(* were signed, marks and claims are set once and never cleared            *)
(* (db.rs:583-686).                                                        *)
Ledger == INSTANCE GrantLedger WITH
    ledger <- [i \in DOMAIN rows |->
        [envelope |-> rows[i].envelope, revoked_by |-> rows[i].revoked_by,
         claimed_by |-> rows[i].claimed_by]]

ImplementsLedger == Ledger!Spec
=============================================================================
