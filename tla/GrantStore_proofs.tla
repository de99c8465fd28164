-------------------------- MODULE GrantStore_proofs --------------------------
(***************************************************************************)
(* Proofs about GrantStore for any handlers, agents, finite set of ids and *)
(* set of envelopes: the inductive invariant, what follows from it, and    *)
(* the refinement of GrantLedger.                                          *)
(***************************************************************************)
EXTENDS GrantStore, FiniteSetTheorems, TLAPS

Busy == {"locked", "inserted", "marked"}

(* None is nobody's reply.                                                 *)
LEMMA NoneIsNoCode ==
    /\ None # "created" /\ None # "claimed" /\ None # "not_found"
    /\ None # "not_once" /\ None # "already_claimed"
BY StoreAssumption DEF Codes

-----------------------------------------------------------------------------
(* The steps that write no row                                             *)

Quiet(h) ==
    \/ \E e \in Envelopes : Post(h, e)
    \/ Lock(h) \/ TargetMissing(h) \/ AskRefuses(h)
    \/ Insert(h) \/ Collide(h) \/ Mark(h)
    \/ \E i \in Ids, by \in Agents : CheckClaim(h, i, by)
    \/ ReloadClaim(h) \/ Drop(h) \/ Finish(h)

(* A step that writes no row leaves the state well typed.                  *)
LEMMA QuietTypes ==
    ASSUME Inv, NEW h \in Handlers, Quiet(h)
    PROVE  /\ TypeOK' /\ UNCHANGED <<rows, wins>>
           /\ \A k \in Handlers \ {h} :
                 /\ step'[k] = step[k] /\ posted'[k] = posted[k] /\ claim'[k] = claim[k]
                 /\ mark'[k] = mark[k] /\ reply'[k] = reply[k]
<1> USE DEF Inv, TypeOK, AnswerWith, Answer, Goto, call, Reply, Codes, NoReply
<1>1. ASSUME NEW e \in Envelopes, Post(h, e) PROVE TypeOK' /\ UNCHANGED <<rows, wins>>
  BY <1>1 DEF Post
<1>2. CASE Lock(h)
  BY <1>2 DEF Lock
<1>3. CASE TargetMissing(h) \/ AskRefuses(h) \/ Collide(h) \/ Drop(h)
  <2>1. PICK code \in Codes : Answer(h, code) /\ UNCHANGED <<rows, posted, claim, mark, wins>>
    BY <1>3 DEF TargetMissing, AskRefuses, Collide, Drop
  <2> HIDE DEF Codes
  <2> QED BY <2>1
<1>4. CASE Insert(h)
  BY <1>4 DEF Insert
<1>5. CASE Mark(h)
  <2>1. posted[h] \in Envelopes /\ posted[h].target \in DOMAIN rows
    BY <1>5 DEF Mark, PosterFacts
  <2>2. rows[posted[h].target].revoked_by \in Ids \cup {None} /\ posted[h].id \in Ids
    BY <2>1, StoreAssumption DEF Row, Envelope
  <2> QED BY <1>5, <2>1, <2>2 DEF Mark, FirstRevoke
<1>6. ASSUME NEW i \in Ids, NEW by \in Agents, CheckClaim(h, i, by)
      PROVE TypeOK' /\ UNCHANGED <<rows, wins>>
  BY <1>6 DEF CheckClaim, ClaimError, Claim
<1>7. CASE ReloadClaim(h)
  BY <1>7 DEF ReloadClaim, ClaimerFacts, Row
<1>8. CASE Finish(h)
  BY <1>8 DEF Finish
<1> QED
  BY <1>1, <1>2, <1>3, <1>4, <1>5, <1>6, <1>7, <1>8
     DEF Quiet, Post, Lock, TargetMissing, AskRefuses, Insert, Collide, Mark, CheckClaim,
         ReloadClaim, Drop, Finish

(* What each quiet step makes of its own handler.                          *)
LEMMA QuietPoster ==
    ASSUME Inv, NEW h \in Handlers, Quiet(h)
    PROVE  PosterFacts'
<1>1. /\ TypeOK' /\ UNCHANGED <<rows, wins>>
      /\ \A k \in Handlers \ {h} :
            /\ step'[k] = step[k] /\ posted'[k] = posted[k] /\ claim'[k] = claim[k]
            /\ mark'[k] = mark[k] /\ reply'[k] = reply[k]
  BY QuietTypes
<1> DEFINE Facts(k) ==
        /\ step[k] \in {"verified", "locked", "inserted", "marked"} => posted[k] \in Envelopes
        /\ step[k] \in Busy /\ posted[k].kind = "revoke" => posted[k].target \in DOMAIN rows
        /\ step[k] \in {"inserted", "marked"} => posted[k].id \notin DOMAIN rows
        /\ step[k] = "marked" =>
              /\ posted[k].kind = "revoke"
              /\ mark[k] = FirstRevoke(rows[posted[k].target].revoked_by, posted[k].id)
        /\ reply[k].code = "created" => step[k] = "replied" /\ posted[k] \in Envelopes
<1>2. \A k \in Handlers : Facts(k)
  BY DEF Inv, PosterFacts, Busy
<1>3. ASSUME NEW k \in Handlers \ {h} PROVE Facts(k)'
  BY <1>1, <1>2 DEF Busy, FirstRevoke
<1>4. Facts(h)'
  <2> USE <1>1, <1>2 DEF Inv, TypeOK, AnswerWith, Answer, Goto, call, NoReply, Busy, FirstRevoke
  <2>1. ASSUME NEW e \in Envelopes, Post(h, e) PROVE Facts(h)'
    BY <2>1 DEF Post
  <2>2. CASE Lock(h)
    BY <2>2 DEF Lock
  <2>3. CASE TargetMissing(h) \/ AskRefuses(h) \/ Collide(h) \/ Drop(h)
    BY <2>3 DEF TargetMissing, AskRefuses, Collide, Drop
  <2>4. CASE Insert(h)
    BY <2>4 DEF Insert, IdFree
  <2>5. CASE Mark(h)
    BY <2>5 DEF Mark
  <2>6. ASSUME NEW i \in Ids, NEW by \in Agents, CheckClaim(h, i, by) PROVE Facts(h)'
    BY <2>6 DEF CheckClaim, ClaimError
  <2>7. CASE ReloadClaim(h)
    BY <2>7 DEF ReloadClaim
  <2>8. CASE Finish(h)
    BY <2>8, NoneIsNoCode DEF Finish
  <2> QED BY <2>1, <2>2, <2>3, <2>4, <2>5, <2>6, <2>7, <2>8 DEF Quiet
<1> QED BY <1>3, <1>4 DEF PosterFacts, Busy

(* Such a step keeps what a claimer relies on.                             *)
LEMMA QuietClaimer ==
    ASSUME Inv, NEW h \in Handlers, Quiet(h)
    PROVE  ClaimerFacts' /\ ClaimReplyNamesClaimer'
<1>1. /\ TypeOK' /\ UNCHANGED <<rows, wins>>
      /\ \A k \in Handlers \ {h} :
            /\ step'[k] = step[k] /\ posted'[k] = posted[k] /\ claim'[k] = claim[k]
            /\ mark'[k] = mark[k] /\ reply'[k] = reply[k]
  BY QuietTypes
<1> DEFINE Facts(k) ==
        /\ step[k] \in {"checked", "claimed"} =>
              /\ claim[k] \in Claim /\ claim[k].id \in DOMAIN rows
              /\ rows[claim[k].id].envelope.kind = "once"
        /\ step[k] = "claimed" => rows[claim[k].id].claimed_by = claim[k].by
        /\ reply[k].code = "claimed" => step[k] = "replied" /\ reply[k].by = claim[k].by
<1>2. \A k \in Handlers : Facts(k)
  BY DEF Inv, ClaimerFacts, ClaimReplyNamesClaimer
<1>3. ASSUME NEW k \in Handlers \ {h} PROVE Facts(k)'
  BY <1>1, <1>2
<1>4. Facts(h)'
  <2> USE <1>1, <1>2 DEF Inv, TypeOK, AnswerWith, Answer, Goto, call, NoReply
  <2>1. ASSUME NEW e \in Envelopes, Post(h, e) PROVE Facts(h)'
    BY <2>1 DEF Post
  <2>2. CASE Lock(h)
    BY <2>2 DEF Lock
  <2>3. CASE TargetMissing(h) \/ AskRefuses(h) \/ Collide(h) \/ Drop(h)
    BY <2>3 DEF TargetMissing, AskRefuses, Collide, Drop
  <2>4. CASE Insert(h)
    BY <2>4 DEF Insert
  <2>5. CASE Mark(h)
    BY <2>5 DEF Mark
  <2>6. ASSUME NEW i \in Ids, NEW by \in Agents, CheckClaim(h, i, by) PROVE Facts(h)'
    <3>1. claim'[h] = [id |-> i, by |-> by] /\ claim'[h] \in Claim
      BY <2>6 DEF CheckClaim, Claim
    <3>2. step[h] = "idle" /\ reply[h].code # "claimed"
      BY <2>6 DEF CheckClaim
    <3>3. CASE ClaimError(i) = None
      <4>1. i \in DOMAIN rows /\ rows[i].envelope.kind = "once"
        BY <3>3, NoneIsNoCode DEF ClaimError
      <4>2. step'[h] = "checked" /\ reply' = reply
        BY <2>6, <3>3 DEF CheckClaim
      <4> QED BY <3>1, <3>2, <4>1, <4>2
    <3>4. CASE ClaimError(i) # None
      <4>1. step'[h] = "replied" /\ reply'[h].code = ClaimError(i)
        BY <2>6, <3>4 DEF CheckClaim
      <4> QED BY <4>1, NoneIsNoCode DEF ClaimError
    <3> QED BY <3>3, <3>4
  <2>7. CASE ReloadClaim(h)
    BY <2>7 DEF ReloadClaim
  <2>8. CASE Finish(h)
    BY <2>8, NoneIsNoCode DEF Finish
  <2> QED BY <2>1, <2>2, <2>3, <2>4, <2>5, <2>6, <2>7, <2>8 DEF Quiet
<1> QED BY <1>3, <1>4 DEF ClaimerFacts, ClaimReplyNamesClaimer

(* A handler becomes the holder of an id or of a lock only when there is   *)
(* no other one.                                                           *)
LEMMA QuietHolder ==
    ASSUME Inv, NEW h \in Handlers, Quiet(h)
    PROVE  OneHolder'
<1> DEFINE Owner(k, s) == step[k] \in {"inserted", "marked"} /\ posted[k].id = s
           Holder(k, t) == step[k] \in Busy /\ Revokes(k, t)
<1>1. /\ TypeOK' /\ UNCHANGED <<rows, wins>>
      /\ \A k \in Handlers \ {h} :
            step'[k] = step[k] /\ posted'[k] = posted[k]
  BY QuietTypes
<1>2. \A k \in Handlers \ {h} : \A s : (Owner(k, s)' <=> Owner(k, s)) /\ (Holder(k, s)' <=> Holder(k, s))
  BY <1>1 DEF Revokes
<1>3. \A s : Owner(h, s)' => Owner(h, s) \/ ~\E k \in Handlers : Owner(k, s)
  <2> USE <1>1 DEF Inv, TypeOK, AnswerWith, Answer, Goto, call
  <2>1. CASE Insert(h)
    BY <2>1 DEF Insert, Pending
  <2>2. CASE Mark(h)
    BY <2>2 DEF Mark
  <2>3. CASE ~Insert(h) /\ ~Mark(h)
    BY <2>3 DEF Quiet, Post, Lock, TargetMissing, AskRefuses, Collide, CheckClaim, ReloadClaim,
                Drop, Finish
  <2> QED BY <2>1, <2>2, <2>3
<1>4. \A t : Holder(h, t)' => Holder(h, t) \/ ~\E k \in Handlers : Holder(k, t)
  <2> USE <1>1 DEF Inv, TypeOK, AnswerWith, Answer, Goto, call, Busy, Revokes
  <2>1. CASE Lock(h)
    BY <2>1 DEF Lock, Locked
  <2>2. CASE Insert(h) \/ Mark(h)
    BY <2>2 DEF Insert, Mark
  <2>3. CASE ~Insert(h) /\ ~Mark(h) /\ ~Lock(h)
    BY <2>3 DEF Quiet, Post, TargetMissing, AskRefuses, Collide, CheckClaim, ReloadClaim,
                Drop, Finish
  <2> QED BY <2>1, <2>2, <2>3
<1>5. /\ \A j, k \in Handlers : \A s : Owner(j, s) /\ Owner(k, s) => j = k
      /\ \A j, k \in Handlers : \A t : Holder(j, t) /\ Holder(k, t) => j = k
  BY DEF Inv, OneHolder, Busy, Revokes
<1> HIDE DEF Owner, Holder
<1>6. /\ \A j, k \in Handlers : \A s : Owner(j, s)' /\ Owner(k, s)' => j = k
      /\ \A j, k \in Handlers : \A t : Holder(j, t)' /\ Holder(k, t)' => j = k
  BY <1>2, <1>3, <1>4, <1>5
<1> QED BY <1>6 DEF OneHolder, Owner, Holder, Busy, Revokes

-----------------------------------------------------------------------------
(* The commit of a record                                                  *)

(* The rows are finitely many, and a further one counts one more.          *)
LEMMA CountOfRows ==
    ASSUME TypeOK
    PROVE  /\ IsFiniteSet(DOMAIN rows) /\ Cardinality(DOMAIN rows) \in Nat
           /\ \A i : i \notin DOMAIN rows =>
                 Cardinality(DOMAIN rows \cup {i}) = Cardinality(DOMAIN rows) + 1
<1>1. IsFiniteSet(DOMAIN rows)
  BY StoreAssumption, FS_Subset DEF TypeOK
<1> QED BY <1>1, FS_CardinalityType, FS_AddElement

(* A commit adds the row of its envelope and marks at most its target.     *)
LEMMA CommitRecord ==
    ASSUME Inv, NEW h \in Handlers, Commit(h)
    PROVE  /\ posted[h] \in Envelopes /\ posted[h].id \in Ids /\ posted[h].id \notin DOMAIN rows
           /\ posted[h].kind = "revoke" =>
                 /\ posted[h].target \in DOMAIN rows
                 /\ mark[h] = FirstRevoke(rows[posted[h].target].revoked_by, posted[h].id)
           /\ DOMAIN rows' = DOMAIN rows \cup {posted[h].id}
           /\ rows'[posted[h].id] \in Row
           /\ rows'[posted[h].id].envelope = posted[h]
           /\ rows'[posted[h].id].at = Cardinality(DOMAIN rows)
           /\ rows'[posted[h].id].revoked_by = None
           /\ rows'[posted[h].id].claimed_by = None
<1>1. /\ posted[h] \in Envelopes /\ posted[h].id \notin DOMAIN rows
      /\ posted[h].kind = "revoke" =>
            /\ posted[h].target \in DOMAIN rows
            /\ mark[h] = FirstRevoke(rows[posted[h].target].revoked_by, posted[h].id)
  BY DEF Inv, PosterFacts, Commit
<1>2. posted[h].id \in Ids
  BY <1>1, StoreAssumption DEF Envelope
<1>3. DOMAIN rows' = DOMAIN rows \cup {posted[h].id} /\ rows'[posted[h].id] = Stored(posted[h])
  BY <1>1 DEF Commit
<1>4. Cardinality(DOMAIN rows) \in Nat
  BY CountOfRows DEF Inv
<1> DEFINE row == rows'[posted[h].id]
<1>5. row = [envelope |-> posted[h], at |-> Cardinality(DOMAIN rows),
             revoked_by |-> None, claimed_by |-> None]
  BY <1>3 DEF Stored
<1> HIDE DEF row
<1>6. row \in Row
  BY <1>1, <1>4, <1>5 DEF Row
<1>7. /\ row.envelope = posted[h] /\ row.at = Cardinality(DOMAIN rows)
      /\ row.revoked_by = None /\ row.claimed_by = None
  BY <1>5
<1> QED BY <1>1, <1>2, <1>3, <1>6, <1>7 DEF row

(* A commit answers its own request with 201, or the answer is lost.       *)
LEMMA CommitReply ==
    ASSUME Inv, NEW h \in Handlers, Commit(h)
    PROVE  /\ UNCHANGED <<posted, claim, mark, wins>>
           /\ step' \in [Handlers -> {"idle", "verified", "locked", "inserted", "marked",
                                    "checked", "claimed", "replied"}]
           /\ reply' \in [Handlers -> Reply]
           /\ step'[h] = "replied" /\ reply'[h].code \in {"created", "lost"}
           /\ \A k \in Handlers \ {h} : step'[k] = step[k] /\ reply'[k] = reply[k]
<1>1. PICK code \in {"created", "lost"} :
          reply' = [reply EXCEPT ![h] = [code |-> code, by |-> None]]
  BY DEF Commit, Answer, AnswerWith
<1>2. step' = [step EXCEPT ![h] = "replied"] /\ UNCHANGED <<posted, claim, mark, wins>>
  BY DEF Commit, Answer, AnswerWith, Goto, call
<1>3. [code |-> code, by |-> None] \in Reply
  BY DEF Reply, Codes
<1> QED BY <1>1, <1>2, <1>3 DEF Inv, TypeOK

(* What a commit leaves of each older row.                                 *)
LEMMA CommitKeeps ==
    ASSUME Inv, NEW h \in Handlers, Commit(h), NEW i \in DOMAIN rows
    PROVE  /\ i \in DOMAIN rows'
           /\ rows'[i] \in Row
           /\ rows'[i].envelope = rows[i].envelope /\ rows'[i].at = rows[i].at
           /\ rows'[i].claimed_by = rows[i].claimed_by
           /\ rows'[i].revoked_by =
                 IF posted[h].kind = "revoke" /\ i = posted[h].target
                 THEN FirstRevoke(rows[i].revoked_by, posted[h].id) ELSE rows[i].revoked_by
<1>1. rows[i] \in Row
  BY DEF Inv, TypeOK
<1>2. posted[h].id \in Ids /\ i \in DOMAIN rows'
  BY CommitRecord
<1>3. rows'[i] = IF Revokes(h, i) THEN [rows[i] EXCEPT !.revoked_by = mark[h]] ELSE rows[i]
  BY DEF Commit
<1>4. CASE Revokes(h, i)
  <2>1. mark[h] = FirstRevoke(rows[i].revoked_by, posted[h].id)
    BY <1>4, CommitRecord DEF Revokes
  <2>2. mark[h] \in Ids \cup {None}
    BY DEF Inv, TypeOK
  <2> QED BY <1>1, <1>2, <1>3, <1>4, <2>1, <2>2 DEF Row, Revokes
<1>5. CASE ~Revokes(h, i)
  BY <1>1, <1>2, <1>3, <1>5 DEF Revokes
<1> QED BY <1>4, <1>5

(* A commit leaves the state well typed.                                   *)
LEMMA CommitTypes ==
    ASSUME Inv, NEW h \in Handlers, Commit(h)
    PROVE  TypeOK'
<1>1. DOMAIN rows' = DOMAIN rows \cup {posted[h].id} /\ posted[h].id \in Ids
  BY CommitRecord
<1>2. rows'[posted[h].id] \in Row /\ rows'[posted[h].id].envelope.id = posted[h].id
  BY CommitRecord
<1>3. \A i \in DOMAIN rows : rows'[i] \in Row /\ rows'[i].envelope.id = i
  BY CommitKeeps DEF Inv, TypeOK
<1> HIDE DEF Row
<1>4. DOMAIN rows' \subseteq Ids /\ \A i \in DOMAIN rows' : rows'[i] \in Row /\ rows'[i].envelope.id = i
  BY <1>1, <1>2, <1>3 DEF Inv, TypeOK
<1> QED BY <1>4, CommitReply DEF TypeOK, Inv

(* What other handlers rely on survives a commit.                          *)
LEMMA CommitHandlers ==
    ASSUME Inv, NEW h \in Handlers, Commit(h)
    PROVE  PosterFacts' /\ ClaimerFacts' /\ OneHolder'
<1> DEFINE e == posted[h]
<1>1. /\ UNCHANGED <<posted, claim, mark, wins>>
      /\ step'[h] = "replied" /\ reply'[h].code \in {"created", "lost"}
      /\ e \in Envelopes
      /\ \A k \in Handlers \ {h} : step'[k] = step[k] /\ reply'[k] = reply[k]
  BY CommitReply, CommitRecord
<1>2. ASSUME NEW k \in Handlers \ {h}, step[k] \in {"inserted", "marked"}
      PROVE posted[k].id \notin DOMAIN rows'
  BY <1>2, CommitRecord DEF Inv, OneHolder, PosterFacts, Commit
<1>3. ASSUME NEW k \in Handlers \ {h}, step[k] = "marked"
      PROVE mark[k] = FirstRevoke(rows'[posted[k].target].revoked_by, posted[k].id)
  <2>1. posted[k].kind = "revoke" /\ posted[k].target \in DOMAIN rows
        /\ mark[k] = FirstRevoke(rows[posted[k].target].revoked_by, posted[k].id)
    BY <1>3 DEF Inv, PosterFacts
  <2>2. ~(e.kind = "revoke" /\ posted[k].target = e.target)
    BY <1>3, <2>1 DEF Inv, OneHolder, Revokes, Commit
  <2> QED BY <2>1, <2>2, CommitKeeps
<1>4. PosterFacts'
  <2>1. \A k \in Handlers \ {h} :
            /\ step[k] \in Busy /\ posted[k].kind = "revoke" => posted[k].target \in DOMAIN rows'
            /\ step[k] = "marked" => posted[k].kind = "revoke"
            /\ step[k] \in {"verified", "locked", "inserted", "marked"} => posted[k] \in Envelopes
            /\ reply[k].code = "created" => step[k] = "replied" /\ posted[k] \in Envelopes
    BY CommitRecord DEF Inv, PosterFacts, Busy
  <2> QED BY <1>1, <1>2, <1>3, <2>1 DEF PosterFacts, Busy, FirstRevoke
<1>5. ClaimerFacts'
  <2>1. \A k \in Handlers \ {h} : step[k] \in {"checked", "claimed"} =>
            /\ claim[k] \in Claim /\ claim[k].id \in DOMAIN rows'
            /\ rows'[claim[k].id].envelope.kind = "once"
            /\ rows'[claim[k].id].claimed_by = rows[claim[k].id].claimed_by
    BY CommitKeeps DEF Inv, ClaimerFacts
  <2> QED BY <1>1, <2>1 DEF ClaimerFacts, Inv
<1>6. OneHolder'
  BY <1>1 DEF OneHolder, Inv, Revokes
<1> QED BY <1>4, <1>5, <1>6

(* A commit adds a revoke after the grant it revokes.                      *)
LEMMA CommitOrder ==
    ASSUME Inv, NEW h \in Handlers, Commit(h)
    PROVE  RowsInOrder' /\ FirstRevokeWins'
<1> DEFINE e == posted[h]
           n == Cardinality(DOMAIN rows)
<1>1. /\ n \in Nat /\ Cardinality(DOMAIN rows') = n + 1
      /\ \A i \in DOMAIN rows : rows[i].at \in Nat /\ rows[i].at < n
  <2>1. TypeOK
    BY DEF Inv
  <2>2. n \in Nat /\ Cardinality(DOMAIN rows') = n + 1
    BY <2>1, CommitRecord, CountOfRows
  <2> QED BY <2>1, <2>2 DEF Inv, TypeOK, Row, RowsInOrder
<1>2. /\ DOMAIN rows' = DOMAIN rows \cup {e.id} /\ e.id \notin DOMAIN rows
      /\ rows'[e.id].envelope = e /\ rows'[e.id].at = n /\ rows'[e.id].revoked_by = None
      /\ e.kind = "revoke" => e.target \in DOMAIN rows
  BY CommitRecord
<1>3. \A i \in DOMAIN rows : rows'[i].envelope = rows[i].envelope /\ rows'[i].at = rows[i].at
  BY CommitKeeps
<1>4. RowsInOrder'
  BY <1>1, <1>2, <1>3 DEF Inv, RowsInOrder
<1>5. ASSUME NEW i \in DOMAIN rows, ~(e.kind = "revoke" /\ e.target = i)
      PROVE  RevokesOf(i)' = RevokesOf(i) /\ rows'[i].revoked_by = rows[i].revoked_by
  <2>1. rows'[i].revoked_by = rows[i].revoked_by
    BY <1>5, CommitKeeps
  <2> QED BY <1>2, <1>3, <1>5, <2>1 DEF RevokesOf
<1>6. ASSUME NEW i \in DOMAIN rows, e.kind = "revoke", e.target = i
      PROVE  /\ RevokesOf(i)' = RevokesOf(i) \cup {e.id}
             /\ rows'[i].revoked_by = FirstRevoke(rows[i].revoked_by, e.id)
  <2>1. rows'[i].revoked_by = FirstRevoke(rows[i].revoked_by, e.id)
    BY <1>6, CommitKeeps
  <2> QED BY <1>2, <1>3, <1>6, <2>1 DEF RevokesOf
<1>7. ASSUME NEW i, i = e.id PROVE RevokesOf(i)' = {}
  <2>1. \A r \in DOMAIN rows : rows[r].envelope.kind = "revoke" => rows[r].envelope.target # e.id
    BY <1>2 DEF Inv, RowsInOrder
  <2> QED BY <1>2, <1>3, <1>7, <2>1 DEF RevokesOf
<1>8. \A i \in DOMAIN rows : RevokesOf(i) \subseteq DOMAIN rows
  BY DEF RevokesOf
<1>9. ASSUME NEW i \in DOMAIN rows
      PROVE LET R == RevokesOf(i)'
                first == rows'[i].revoked_by
            IN  IF R = {} THEN first = None
                ELSE first \in R /\ \A r \in R : rows'[first].at <= rows'[r].at
  <2>1. IF RevokesOf(i) = {} THEN rows[i].revoked_by = None
        ELSE /\ rows[i].revoked_by \in RevokesOf(i)
             /\ \A r \in RevokesOf(i) : rows[rows[i].revoked_by].at <= rows[r].at
    BY DEF Inv, FirstRevokeWins
  <2>2. CASE ~(e.kind = "revoke" /\ e.target = i)
    BY <1>3, <1>5, <1>8, <2>1, <2>2
  <2>3. CASE e.kind = "revoke" /\ e.target = i
    <3>1. CASE RevokesOf(i) = {}
      BY <1>1, <1>2, <1>6, <2>1, <2>3, <3>1 DEF FirstRevoke
    <3>2. CASE RevokesOf(i) # {}
      <4>1. rows[i].revoked_by # None
        BY <1>8, <2>1, <3>2, StoreAssumption DEF Inv, TypeOK
      <4>2. rows'[i].revoked_by = rows[i].revoked_by
        BY <1>6, <2>3, <4>1 DEF FirstRevoke
      <4>3. rows[i].revoked_by \in DOMAIN rows
        BY <1>8, <2>1, <3>2
      <4> QED BY <1>1, <1>2, <1>3, <1>6, <1>8, <2>1, <2>3, <3>2, <4>2, <4>3
    <3> QED BY <3>1, <3>2
  <2> QED BY <2>2, <2>3
<1>10. \A i \in DOMAIN rows' :
          LET R == RevokesOf(i)'
              first == rows'[i].revoked_by
          IN  IF R = {} THEN first = None
              ELSE first \in R /\ \A r \in R : rows'[first].at <= rows'[r].at
  BY <1>2, <1>7, <1>9
<1> QED BY <1>4, <1>10 DEF FirstRevokeWins

(* Replies given before a commit stay true after it.                       *)
LEMMA CommitReplies ==
    ASSUME Inv, NEW h \in Handlers, Commit(h)
    PROVE  ConsumedOnce' /\ ClaimReplyNamesClaimer' /\ AcknowledgedIsStored'
<1> DEFINE e == posted[h]
<1>1. /\ UNCHANGED <<posted, claim, mark, wins>>
      /\ reply'[h].code \in {"created", "lost"}
      /\ \A k \in Handlers \ {h} : reply'[k] = reply[k]
      /\ DOMAIN rows' = DOMAIN rows \cup {e.id} /\ e.id \notin DOMAIN rows /\ e.id \in Ids
      /\ rows'[e.id].envelope = e /\ rows'[e.id].claimed_by = None
      /\ e.kind = "revoke" => e.target \in DOMAIN rows
  BY CommitReply, CommitRecord
<1>2. \A i \in DOMAIN rows :
          /\ rows'[i].envelope = rows[i].envelope
          /\ rows'[i].claimed_by = rows[i].claimed_by
          /\ rows[i].revoked_by # None => rows'[i].revoked_by # None
  BY CommitKeeps DEF FirstRevoke
<1>3. ConsumedOnce'
  <2> SUFFICES ASSUME NEW i \in Ids
               PROVE /\ wins[i] <= 1
                     /\ wins[i] = 1 <=> i \in DOMAIN rows' /\ rows'[i].claimed_by # None
                     /\ wins[i] = 1 => rows'[i].envelope.kind = "once"
    BY <1>1 DEF ConsumedOnce
  <2>1. /\ wins[i] <= 1
        /\ wins[i] = 1 <=> i \in DOMAIN rows /\ rows[i].claimed_by # None
        /\ wins[i] = 1 => rows[i].envelope.kind = "once"
    BY DEF Inv, ConsumedOnce
  <2>2. CASE i = e.id
    <3>1. i \notin DOMAIN rows /\ rows'[i].claimed_by = None
      BY <1>1, <2>2
    <3>2. wins[i] # 1
      BY <2>1, <3>1
    <3> QED BY <2>1, <3>1, <3>2
  <2>3. CASE i # e.id
    BY <1>1, <1>2, <2>1, <2>3
  <2> QED BY <2>2, <2>3
<1>4. ClaimReplyNamesClaimer'
  BY <1>1 DEF Inv, ClaimReplyNamesClaimer
<1>5. e.kind = "revoke" => rows'[e.target].revoked_by # None
  BY <1>1, CommitKeeps, StoreAssumption DEF FirstRevoke
<1>6. \A k \in Handlers \ {h} : reply[k].code = "created" /\ posted[k].kind = "revoke"
          => posted[k].target \in DOMAIN rows
  BY DEF Inv, AcknowledgedIsStored, RowsInOrder
<1>7. AcknowledgedIsStored'
  <2> SUFFICES ASSUME NEW k \in Handlers, reply'[k].code = "created"
               PROVE /\ posted[k].id \in DOMAIN rows'
                     /\ rows'[posted[k].id].envelope = posted[k]
                     /\ posted[k].kind = "revoke" => rows'[posted[k].target].revoked_by # None
    BY <1>1 DEF AcknowledgedIsStored
  <2>1. CASE k = h
    BY <1>1, <1>5, <2>1
  <2>2. CASE k # h
    <3>1. /\ posted[k].id \in DOMAIN rows /\ rows[posted[k].id].envelope = posted[k]
          /\ posted[k].kind = "revoke" => rows[posted[k].target].revoked_by # None
      BY <1>1, <2>2 DEF Inv, AcknowledgedIsStored
    <3>2. posted[k].kind = "revoke" => posted[k].target \in DOMAIN rows
      BY <1>1, <1>6, <2>2
    <3>3. posted[k].kind = "revoke" => rows'[posted[k].target].revoked_by # None
      BY <1>2, <3>1, <3>2
    <3> QED BY <1>1, <1>2, <3>1, <3>3
  <2> QED BY <2>1, <2>2
<1> QED BY <1>3, <1>4, <1>7

-----------------------------------------------------------------------------
(* The UPDATE of a claim                                                   *)

(* The UPDATE of a claim changes claimed_by of its row only.               *)
LEMMA ClaimRows ==
    ASSUME Inv, NEW h \in Handlers, TakeClaim(h)
    PROVE  /\ claim[h] \in Claim /\ claim[h].id \in DOMAIN rows
           /\ rows[claim[h].id].envelope.kind = "once"
           /\ DOMAIN rows' = DOMAIN rows
           /\ \A i \in DOMAIN rows :
                 /\ rows'[i] \in Row
                 /\ rows'[i].envelope = rows[i].envelope /\ rows'[i].at = rows[i].at
                 /\ rows'[i].revoked_by = rows[i].revoked_by
                 /\ rows[i].claimed_by # None => rows'[i].claimed_by = rows[i].claimed_by
           /\ rows[claim[h].id].claimed_by = None => rows'[claim[h].id].claimed_by = claim[h].by
<1>1. /\ claim[h] \in Claim /\ claim[h].id \in DOMAIN rows
      /\ rows[claim[h].id].envelope.kind = "once"
  BY DEF Inv, ClaimerFacts, TakeClaim
<1>2. \A i \in DOMAIN rows : rows[i] \in Row
  BY DEF Inv, TypeOK
<1>3. CASE Unclaimed(claim[h].id)
  <2>1. rows' = [rows EXCEPT ![claim[h].id].claimed_by = claim[h].by]
    BY <1>3 DEF TakeClaim
  <2> QED BY <1>1, <1>2, <1>3, <2>1 DEF Unclaimed, Row, Claim
<1>4. CASE ~Unclaimed(claim[h].id)
  BY <1>1, <1>2, <1>4 DEF TakeClaim, Unclaimed
<1> QED BY <1>3, <1>4

(* The UPDATE of a claim leaves every other reply alone.                   *)
LEMMA ClaimReply ==
    ASSUME Inv, NEW h \in Handlers, TakeClaim(h)
    PROVE  /\ UNCHANGED <<posted, claim, mark>>
           /\ step' \in [Handlers -> {"idle", "verified", "locked", "inserted", "marked",
                                    "checked", "claimed", "replied"}]
           /\ reply' \in [Handlers -> Reply]
           /\ step'[h] \in {"claimed", "replied"}
           /\ step'[h] = "claimed" => Unclaimed(claim[h].id) /\ reply'[h] = reply[h]
           /\ step'[h] = "replied" => reply'[h].code = "already_claimed"
           /\ \A k \in Handlers \ {h} : step'[k] = step[k] /\ reply'[k] = reply[k]
<1>1. CASE Unclaimed(claim[h].id)
  BY <1>1 DEF TakeClaim, Goto, call, Inv, TypeOK
<1>2. CASE ~Unclaimed(claim[h].id)
  <2>1. /\ step' = [step EXCEPT ![h] = "replied"]
        /\ reply' = [reply EXCEPT ![h] = [code |-> "already_claimed", by |-> None]]
        /\ UNCHANGED <<posted, claim, mark>>
    BY <1>2 DEF TakeClaim, Answer, AnswerWith, Goto, call
  <2>2. [code |-> "already_claimed", by |-> None] \in Reply
    BY DEF Reply, Codes
  <2> QED BY <2>1, <2>2 DEF Inv, TypeOK
<1> QED BY <1>1, <1>2

(* A claim leaves the state well typed.                                    *)
LEMMA ClaimTypes ==
    ASSUME Inv, NEW h \in Handlers, TakeClaim(h)
    PROVE  TypeOK'
<1>1. /\ DOMAIN rows' \subseteq Ids
      /\ \A i \in DOMAIN rows' : rows'[i] \in Row /\ rows'[i].envelope.id = i
  BY ClaimRows DEF Inv, TypeOK
<1>2. wins' \in [Ids -> Nat]
  BY DEF Inv, TypeOK, TakeClaim
<1> QED BY <1>1, <1>2, ClaimReply DEF Inv, TypeOK

(* What other handlers rely on survives a claim.                           *)
LEMMA ClaimHandlers ==
    ASSUME Inv, NEW h \in Handlers, TakeClaim(h)
    PROVE  PosterFacts' /\ ClaimerFacts' /\ OneHolder'
<1>1. /\ UNCHANGED <<posted, claim, mark>>
      /\ step'[h] \in {"claimed", "replied"}
      /\ step[h] = "checked"
      /\ reply'[h].code \notin {"created", "claimed"}
      /\ \A k \in Handlers \ {h} : step'[k] = step[k] /\ reply'[k] = reply[k]
  <2>1. step[h] = "checked"
    BY DEF TakeClaim
  <2>2. reply[h].code \notin {"created", "claimed"}
    BY <2>1 DEF Inv, PosterFacts, ClaimerFacts
  <2>3. reply'[h].code \notin {"created", "claimed"}
    BY <2>2, ClaimReply
  <2> QED BY <2>1, <2>3, ClaimReply
<1>2. PosterFacts'
  <2>1. \A k \in Handlers : step[k] = "marked" =>
            FirstRevoke(rows'[posted[k].target].revoked_by, posted[k].id)
              = FirstRevoke(rows[posted[k].target].revoked_by, posted[k].id)
    BY ClaimRows DEF Inv, PosterFacts
  <2> QED BY <1>1, <2>1, ClaimRows DEF Inv, PosterFacts, FirstRevoke
<1>3. ClaimerFacts'
  <2>1. ASSUME NEW k \in Handlers \ {h}
        PROVE  /\ step[k] \in {"checked", "claimed"} =>
                     /\ claim[k] \in Claim /\ claim[k].id \in DOMAIN rows'
                     /\ rows'[claim[k].id].envelope.kind = "once"
               /\ step[k] = "claimed" => rows'[claim[k].id].claimed_by = claim[k].by
    <3>1. step[k] = "claimed" => rows[claim[k].id].claimed_by # None
      BY StoreAssumption DEF Inv, ClaimerFacts, Claim
    <3> QED BY <3>1, ClaimRows DEF Inv, ClaimerFacts
  <2>2. /\ claim[h] \in Claim /\ claim[h].id \in DOMAIN rows'
        /\ rows'[claim[h].id].envelope.kind = "once"
        /\ step'[h] = "claimed" => rows'[claim[h].id].claimed_by = claim[h].by
    BY ClaimRows, ClaimReply DEF Unclaimed
  <2> QED BY <1>1, <2>1, <2>2 DEF Inv, ClaimerFacts
<1>4. OneHolder'
  BY <1>1 DEF Inv, OneHolder, Revokes
<1> QED BY <1>2, <1>3, <1>4

(* A claim keeps the revokes, their order and the replies already given.   *)
LEMMA ClaimOrder ==
    ASSUME Inv, NEW h \in Handlers, TakeClaim(h)
    PROVE  RowsInOrder' /\ FirstRevokeWins' /\ AcknowledgedIsStored' /\ ClaimReplyNamesClaimer'
<1>1. RowsInOrder'
  BY ClaimRows DEF Inv, RowsInOrder
<1>2. ASSUME NEW i PROVE RevokesOf(i)' = RevokesOf(i)
  BY ClaimRows DEF RevokesOf
<1>3. \A i \in DOMAIN rows : RevokesOf(i) \subseteq DOMAIN rows
  BY DEF RevokesOf
<1>4. FirstRevokeWins'
  BY <1>2, <1>3, ClaimRows DEF Inv, FirstRevokeWins
<1>5. UNCHANGED <<posted, claim>> /\ reply'[h].code \notin {"created", "claimed"}
      /\ \A k \in Handlers \ {h} : reply'[k] = reply[k]
  BY ClaimReply DEF TakeClaim, Inv, PosterFacts, ClaimerFacts
<1>6. \A k \in Handlers : reply[k].code = "created" /\ posted[k].kind = "revoke"
          => posted[k].target \in DOMAIN rows
  BY DEF Inv, AcknowledgedIsStored, RowsInOrder
<1>7. AcknowledgedIsStored'
  BY <1>5, <1>6, ClaimRows DEF Inv, AcknowledgedIsStored
<1>8. ClaimReplyNamesClaimer'
  BY <1>5 DEF Inv, ClaimReplyNamesClaimer
<1> QED BY <1>1, <1>4, <1>7, <1>8

(* A claim takes only what nobody has claimed.                             *)
LEMMA ClaimOnce ==
    ASSUME Inv, NEW h \in Handlers, TakeClaim(h)
    PROVE  ConsumedOnce'
<1> DEFINE i == claim[h].id
<1>1. /\ i \in Ids /\ i \in DOMAIN rows /\ wins \in [Ids -> Nat]
      /\ claim[h].by \in Agents /\ claim[h].by # None
  BY ClaimRows, StoreAssumption DEF Inv, TypeOK, Claim
<1>2. \A k \in Ids :
        /\ wins[k] <= 1
        /\ wins[k] = 1 <=> k \in DOMAIN rows /\ rows[k].claimed_by # None
        /\ wins[k] = 1 => rows[k].envelope.kind = "once"
  BY DEF Inv, ConsumedOnce
<1>3. CASE Unclaimed(i)
  <2>1. /\ rows' = [rows EXCEPT ![i].claimed_by = claim[h].by]
        /\ wins' = [wins EXCEPT ![i] = wins[i] + 1]
    BY <1>3 DEF TakeClaim
  <2>2. wins[i] = 0
    BY <1>1, <1>2, <1>3 DEF Unclaimed
  <2>3. \A k \in DOMAIN rows \ {i} : rows'[k] = rows[k]
    BY <2>1
  <2>4. wins'[i] = 1 /\ \A k \in Ids \ {i} : wins'[k] = wins[k]
    BY <1>1, <2>1, <2>2
  <2>5. /\ DOMAIN rows' = DOMAIN rows /\ rows'[i].claimed_by = claim[h].by
        /\ rows'[i].envelope.kind = "once"
    BY <1>3, ClaimRows DEF Unclaimed
  <2> HIDE DEF i
  <2> QED BY <1>1, <1>2, <2>3, <2>4, <2>5 DEF ConsumedOnce
<1>4. CASE ~Unclaimed(i)
  BY <1>2, <1>4 DEF TakeClaim, ConsumedOnce
<1> QED BY <1>3, <1>4

-----------------------------------------------------------------------------
(* The theorems                                                            *)

(* The invariant holds before the first request.                           *)
LEMMA InvInitially == Init => Inv
<1> SUFFICES ASSUME Init PROVE Inv
  OBVIOUS
<1>1. TypeOK
  BY DEF Init, TypeOK, Reply, NoReply
<1>2. PosterFacts /\ ClaimerFacts /\ OneHolder
  BY NoneIsNoCode DEF Init, PosterFacts, ClaimerFacts, OneHolder, NoReply
<1>3. RowsInOrder /\ FirstRevokeWins /\ ConsumedOnce
  BY DEF Init, RowsInOrder, FirstRevokeWins, ConsumedOnce
<1>4. ClaimReplyNamesClaimer /\ AcknowledgedIsStored
  BY NoneIsNoCode DEF Init, ClaimReplyNamesClaimer, AcknowledgedIsStored, NoReply
<1> QED BY <1>1, <1>2, <1>3, <1>4 DEF Inv

(* Steps that write no row keep the invariant.                             *)
LEMMA QuietInv ==
    ASSUME Inv, NEW h \in Handlers, Quiet(h)
    PROVE  Inv'
<1>1. /\ TypeOK' /\ UNCHANGED <<rows, wins>>
      /\ \A k \in Handlers \ {h} : posted'[k] = posted[k] /\ reply'[k] = reply[k]
  BY QuietTypes
<1>2. PosterFacts' /\ ClaimerFacts' /\ ClaimReplyNamesClaimer' /\ OneHolder'
  BY QuietPoster, QuietClaimer, QuietHolder
<1>3. RowsInOrder' /\ FirstRevokeWins' /\ ConsumedOnce'
  BY <1>1 DEF Inv, RowsInOrder, FirstRevokeWins, RevokesOf, ConsumedOnce
<1>4. reply'[h].code # "created"
  <2> USE DEF Inv, TypeOK, PosterFacts, Answer, AnswerWith, Goto, call, NoReply
  <2>1. CASE \E e \in Envelopes : Post(h, e)
    BY <2>1 DEF Post
  <2>2. CASE Lock(h) \/ Insert(h) \/ Mark(h)
    BY <2>2 DEF Lock, Insert, Mark
  <2>3. CASE TargetMissing(h) \/ AskRefuses(h) \/ Collide(h) \/ Drop(h)
    BY <2>3 DEF TargetMissing, AskRefuses, Collide, Drop
  <2>4. ASSUME NEW i \in Ids, NEW by \in Agents, CheckClaim(h, i, by)
        PROVE  reply'[h].code # "created"
    BY <2>4, NoneIsNoCode DEF CheckClaim, ClaimError
  <2>5. CASE ReloadClaim(h) \/ Finish(h)
    BY <2>5, NoneIsNoCode DEF ReloadClaim, Finish
  <2> QED BY <2>1, <2>2, <2>3, <2>4, <2>5 DEF Quiet
<1>5. AcknowledgedIsStored'
  BY <1>1, <1>4 DEF Inv, AcknowledgedIsStored
<1> QED BY <1>1, <1>2, <1>3, <1>5 DEF Inv

(* Every step of every request keeps the invariant.                        *)
LEMMA InvPreserved == Inv /\ [Next]_vars => Inv'
<1> SUFFICES ASSUME Inv, [Next]_vars PROVE Inv'
  OBVIOUS
<1>1. CASE Next
  <2>1. PICK h \in Handlers : Quiet(h) \/ Commit(h) \/ TakeClaim(h)
    BY <1>1 DEF Next, Quiet
  <2>2. CASE Quiet(h)
    BY <2>2, QuietInv
  <2>3. CASE Commit(h)
    BY <2>3, CommitTypes, CommitHandlers, CommitOrder, CommitReplies DEF Inv
  <2>4. CASE TakeClaim(h)
    BY <2>4, ClaimTypes, ClaimHandlers, ClaimOrder, ClaimOnce DEF Inv
  <2> QED BY <2>1, <2>2, <2>3, <2>4
<1>2. CASE UNCHANGED vars
  BY <1>2 DEF vars, Inv, TypeOK, PosterFacts, ClaimerFacts, OneHolder, Revokes, RowsInOrder,
              FirstRevokeWins, RevokesOf, ConsumedOnce, ClaimReplyNamesClaimer,
              AcknowledgedIsStored
<1> QED BY <1>1, <1>2

(* Every reachable state satisfies the invariant: what each handler relies *)
(* on between two statements stays true whatever the others do.            *)
THEOREM GrantInvariant == Spec => []Inv
BY InvInitially, InvPreserved, PTL DEF Spec

(* Every reachable state of the grants table is well typed, and each row   *)
(* has the id of its envelope.                                             *)
THEOREM GrantTypeCorrect == Spec => []TypeOK
<1>1. Inv => TypeOK
  BY DEF Inv
<1> QED BY <1>1, GrantInvariant, PTL

(* A grant names the first stored revoke of it, and is consumed once.      *)
THEOREM FirstRevokeIsKept == Spec => []FirstRevokeWins
<1>1. Inv => FirstRevokeWins
  BY DEF Inv
<1> QED BY <1>1, GrantInvariant, PTL

(* POST /grants/{id}/claim takes a grant at most once, and only a once     *)
(* grant.                                                                  *)
THEOREM ClaimedAtMostOnce == Spec => []ConsumedOnce
<1>1. Inv => ConsumedOnce
  BY DEF Inv
<1> QED BY <1>1, GrantInvariant, PTL

(* Replies are honest: 201 means stored, and a revoke told so counts.      *)
THEOREM RepliesAreHonest == Spec => []AcknowledgedIsStored
<1>1. Inv => AcknowledgedIsStored
  BY DEF Inv
<1> QED BY <1>1, GrantInvariant, PTL

(* A claim that is told to act on the grant has consumed it itself, for    *)
(* any number of claimers between its UPDATE and its second read.          *)
THEOREM ClaimersActOnTheirOwn == Spec => []ClaimReplyNamesClaimer
<1>1. Inv => ClaimReplyNamesClaimer
  BY DEF Inv
<1> QED BY <1>1, GrantInvariant, PTL

-----------------------------------------------------------------------------
(* The refinement of GrantLedger                                           *)

View == [i \in DOMAIN rows |->
            [envelope |-> rows[i].envelope, revoked_by |-> rows[i].revoked_by,
             claimed_by |-> rows[i].claimed_by]]

(* A commit is the step Enter of the ledger.                               *)
LEMMA CommitEnters ==
    ASSUME Inv, NEW h \in Handlers, Commit(h), NEW e, e = posted[h]
    PROVE  Ledger!Enter(e)
<1> DEFINE new == [i \in DOMAIN View \cup {e.id} |->
                     IF i = e.id THEN [envelope |-> e, revoked_by |-> None, claimed_by |-> None]
                     ELSE IF e.kind = "revoke" /\ i = e.target /\ View[i].revoked_by = None
                          THEN [View[i] EXCEPT !.revoked_by = e.id]
                          ELSE View[i]]
<1>1. /\ e.id \notin DOMAIN rows /\ DOMAIN rows' = DOMAIN rows \cup {e.id}
      /\ e.kind = "revoke" => e.target \in DOMAIN rows
      /\ rows'[e.id].envelope = e /\ rows'[e.id].revoked_by = None
      /\ rows'[e.id].claimed_by = None
  BY CommitRecord
<1>2. View'[e.id] = new[e.id]
  BY <1>1 DEF View
<1>3. ASSUME NEW i \in DOMAIN rows PROVE View'[i] = new[i]
  <2>1. /\ i \in DOMAIN rows' /\ rows'[i].envelope = rows[i].envelope
        /\ rows'[i].claimed_by = rows[i].claimed_by
        /\ rows'[i].revoked_by = IF e.kind = "revoke" /\ i = e.target
                                 THEN FirstRevoke(rows[i].revoked_by, e.id) ELSE rows[i].revoked_by
    BY CommitKeeps
  <2> QED BY <1>1, <2>1 DEF View, FirstRevoke
<1>4. DOMAIN View' = DOMAIN new /\ DOMAIN new = DOMAIN rows \cup {e.id}
  BY <1>1 DEF View
<1>5. View' = new
  <2>1. View' = [i \in DOMAIN View' |-> View'[i]] /\ new = [i \in DOMAIN new |-> new[i]]
    BY DEF View
  <2> HIDE DEF new
  <2>2. \A i \in DOMAIN new : View'[i] = new[i]
    BY <1>2, <1>3, <1>4
  <2> QED BY <1>4, <2>1, <2>2
<1>6. DOMAIN View = DOMAIN rows
  BY DEF View
<1> QED BY <1>1, <1>5, <1>6 DEF Ledger!Enter, Ledger!Fresh, View

(* A successful UPDATE of a claim is the step Consume of the ledger.       *)
LEMMA ClaimConsumes ==
    ASSUME Inv, NEW h \in Handlers, TakeClaim(h),
           NEW i, NEW by, i = claim[h].id, by = claim[h].by
    PROVE  Ledger!Consume(i, by) \/ View' = View
<1>1. i \in DOMAIN rows /\ rows[i].envelope.kind = "once" /\ rows[i] \in Row
  BY ClaimRows DEF Inv, TypeOK
<1>2. CASE Unclaimed(i)
  <2>1. rows' = [rows EXCEPT ![i].claimed_by = by]
    BY <1>2 DEF TakeClaim
  <2>2. View' = [View EXCEPT ![i].claimed_by = by]
    BY <1>1, <2>1 DEF View, Row
  <2>3. Ledger!Consume(i, by)
    BY <1>1, <1>2, <2>2 DEF Ledger!Consume, View, Unclaimed
  <2> QED BY <2>3
<1>3. CASE ~Unclaimed(i)
  BY <1>3 DEF TakeClaim, View
<1> QED BY <1>2, <1>3

(* Transactions and claims, in whatever order they interleave, are lost or *)
(* repeated, amount to one atomic ledger step each or to nothing.          *)
THEOREM LedgerRefinement == Spec => ImplementsLedger
<1>1. Init => Ledger!Init
  BY DEF Init, Ledger!Init
<1>2. Inv /\ [Next]_vars => [Ledger!Next]_View
  <2> SUFFICES ASSUME Inv, [Next]_vars PROVE Ledger!Next \/ View' = View
    BY DEF View
  <2>1. CASE UNCHANGED vars
    BY <2>1 DEF vars, View
  <2>2. CASE Next
    <3>1. PICK h \in Handlers : Quiet(h) \/ Commit(h) \/ TakeClaim(h)
      BY <2>2 DEF Next, Quiet
    <3>2. CASE Quiet(h)
      BY <3>2, QuietTypes DEF View
    <3>3. CASE Commit(h)
      <4>1. PICK e \in Envelopes : e = posted[h]
        BY <3>3, CommitRecord
      <4>2. Ledger!Enter(e)
        BY <3>3, <4>1, CommitEnters
      <4> QED BY <4>2 DEF Ledger!Next
    <3>4. CASE TakeClaim(h)
      <4>1. PICK i \in Ids, by \in Agents : i = claim[h].id /\ by = claim[h].by
        BY <3>4, ClaimRows DEF Claim
      <4>2. Ledger!Consume(i, by) \/ View' = View
        BY <3>4, <4>1, ClaimConsumes
      <4> QED BY <4>2 DEF Ledger!Next
    <3> QED BY <3>1, <3>2, <3>3, <3>4
  <2> QED BY <2>1, <2>2
<1> QED BY <1>1, <1>2, GrantInvariant, PTL DEF Spec, ImplementsLedger, Ledger!Spec, View
=============================================================================
