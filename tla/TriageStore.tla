----------------------------- MODULE TriageStore -----------------------------
(***************************************************************************)
(* One triage queue in PostgreSQL: concurrent handlers change it in        *)
(* transactions that first lock the row of the queue (SELECT ... FOR       *)
(* UPDATE) and are committed or rolled back as a whole.  The variables     *)
(* status, catalog and revisions hold what has been committed, which is    *)
(* all that other connections see.                                         *)
(***************************************************************************)
EXTENDS TriageReconcile, FiniteSets

CONSTANTS Handlers,    \* requests that may be in flight together
          Feeds,       \* imports the producer may send
          Keep,        \* a field absent from a decision patch
          MaxEvents    \* bound on the event sequence

ASSUME StoreAssumption ==
    /\ Feeds \subseteq Imports
    /\ Keep \notin Ids /\ None \notin Handlers
    /\ MaxEvents \in Nat

VARIABLES
    status,      \* triage_queues.status
    catalog,     \* triage_items
    revisions,   \* committed rows of triage_revisions by event_id
    lastEvent,   \* sequence of event_id; not rolled back
    lock,        \* the handler that holds the row of the queue
    step,        \* progress of each handler
    draft,       \* the row its transaction has computed or inserted
    plan         \* the catalog its transaction has written

queue == <<status, catalog, revisions>>
vars == <<status, catalog, revisions, lastEvent, lock, step, draft, plan>>

Verdicts == {"schedule", "merge_into"}   \* "schedule" stands for the plain ones
Events == 1 .. MaxEvents
Revision == [item : Ids, revision : Nat \ {0}, verdict : Verdicts \cup {None},
             target : Ids \cup {None}, hash : Hashes]
Draft == [event : Nat, row : Revision]

NoCatalog == [i \in {} |-> Fresh(None, None)]
NoRevisions == [e \in {} |-> e]

(* A queue may be created without items.                                   *)
Init ==
    /\ status = "open" /\ catalog = NoCatalog
    /\ revisions = NoRevisions /\ lastEvent = 0
    /\ lock = None
    /\ step = [h \in Handlers |-> "idle"]
    /\ draft = [h \in Handlers |-> None]
    /\ plan = [h \in Handlers |-> NoCatalog]

-----------------------------------------------------------------------------
(* Locks and the end of a transaction                                      *)

(* Mutant of LockFree: the queue is read without FOR UPDATE.               *)
LockIgnored == TRUE

LockFree == lock = None

(* lock_queue; the status is read by the statement after it.               *)
Lock(h) ==
    /\ step[h] = "idle" /\ LockFree
    /\ step' = [step EXCEPT ![h] = "locked"]
    /\ lock' = h
    /\ UNCHANGED <<queue, lastEvent, draft, plan>>

Release(h) ==
    /\ step' = [step EXCEPT ![h] = "idle"]
    /\ draft' = [draft EXCEPT ![h] = None]
    /\ plan' = [plan EXCEPT ![h] = NoCatalog]
    /\ lock' = IF lock = h THEN None ELSE lock

(* A refusal, a failed statement, a client that leaves, a crash: nothing   *)
(* of the transaction stays but the event ids it drew.                     *)
Rollback(h) ==
    /\ step[h] # "idle"
    /\ Release(h)
    /\ UNCHANGED <<queue, lastEvent>>

(* Mutant of Writable: lock_queue where lock_open_queue belongs.           *)
WritableAnyhow(h) == step[h] = "locked"

(* lock_open_queue.                                                        *)
Writable(h) == step[h] = "locked" /\ status = "open"

-----------------------------------------------------------------------------
(* PATCH .../decision                                                      *)

DecisionsOn(i) == {e \in DOMAIN revisions : revisions[e].item = i}

(* load_latest_revision; a pair of nulls when there is none.               *)
Latest(i) ==
    IF DecisionsOn(i) = {} THEN [verdict |-> None, target |-> None]
    ELSE LET e == CHOOSE e \in DecisionsOn(i) :
                     \A f \in DecisionsOn(i) : revisions[f].revision <= revisions[e].revision
         IN  [verdict |-> revisions[e].verdict, target |-> revisions[e].target]

(* Mutant of NextRevision: numbers start at 0.                             *)
NextRevisionFromZero(i) == Cardinality(DecisionsOn(i))

NextRevision(i) ==
    IF DecisionsOn(i) = {} THEN 1
    ELSE 1 + (CHOOSE n \in {revisions[e].revision : e \in DecisionsOn(i)} :
                \A e \in DecisionsOn(i) : revisions[e].revision <= n)

(* Mutant of CanMerge: the latest decision on the target is not read.      *)
CanMergeInto(i, t) == t \in DOMAIN catalog \ {i}

(* validate_decision: a target in the queue that does not merge back.      *)
CanMerge(i, t) ==
    /\ t \in DOMAIN catalog \ {i}
    /\ Latest(t) # [verdict |-> "merge_into", target |-> i]

(* The values a patch asks for: an absent field keeps the previous value,  *)
(* and a target goes with merge_into only.                                 *)
Decided(i, verdict, target) ==
    LET v == IF verdict = Keep THEN Latest(i).verdict ELSE verdict
        kept == IF target = Keep THEN Latest(i).target ELSE target
    IN  [verdict |-> v, target |-> IF v = "merge_into" THEN kept ELSE None]

Decide(h, i, verdict, target) ==
    /\ Writable(h)
    /\ i \in DOMAIN catalog
    /\ LET d == Decided(i, verdict, target) IN
        /\ d.verdict # "merge_into" => target \in {Keep, None}
        /\ d.verdict = "merge_into" => CanMerge(i, d.target)
        /\ draft' = [draft EXCEPT ![h] =
              [event |-> 0,
               row |-> [item |-> i, revision |-> NextRevision(i), verdict |-> d.verdict,
                        target |-> d.target, hash |-> catalog[i].hash]]]
    /\ step' = [step EXCEPT ![h] = "decided"]
    /\ UNCHANGED <<queue, lastEvent, lock, plan>>

(* The INSERT draws the event id; UNIQUE (queue_id, item_id, revision).    *)
Insert(h) ==
    /\ step[h] = "decided" /\ lastEvent < MaxEvents
    /\ \A e \in DecisionsOn(draft[h].row.item) :
          revisions[e].revision # draft[h].row.revision
    /\ lastEvent' = lastEvent + 1
    /\ draft' = [draft EXCEPT ![h].event = lastEvent']
    /\ step' = [step EXCEPT ![h] = "inserted"]
    /\ UNCHANGED <<queue, lock, plan>>

CommitDecision(h) ==
    /\ step[h] = "inserted"
    /\ revisions' = [e \in DOMAIN revisions \cup {draft[h].event} |->
                        IF e = draft[h].event THEN draft[h].row ELSE revisions[e]]
    /\ Release(h)
    /\ UNCHANGED <<status, catalog, lastEvent>>

-----------------------------------------------------------------------------
(* Refresh, attach, close and reopen                                       *)

WriteCatalog(h, cat) ==
    /\ plan' = [plan EXCEPT ![h] = cat]
    /\ step' = [step EXCEPT ![h] = "planned"]
    /\ UNCHANGED <<queue, lastEvent, lock, draft>>

Refresh(h, obs) ==
    /\ Writable(h)
    /\ Accepted(catalog, obs)
    /\ WriteCatalog(h, Refreshed(catalog, obs))

Attach(h, i, p) ==
    /\ Writable(h)
    /\ i \in DOMAIN catalog
    /\ CanAttach(catalog, i, p, catalog[i].hash)
    /\ WriteCatalog(h, Attached(catalog, i, p))

CommitCatalog(h) ==
    /\ step[h] = "planned"
    /\ catalog' = plan[h]
    /\ Release(h)
    /\ UNCHANGED <<status, revisions, lastEvent>>

(* set_queue_status works on a closed queue too.                           *)
SetStatus(h, s) ==
    /\ step[h] = "locked"
    /\ status' = s
    /\ Release(h)
    /\ UNCHANGED <<catalog, revisions, lastEvent>>

-----------------------------------------------------------------------------
HandlerStep(h) ==
    \/ Lock(h) \/ Rollback(h)
    \/ \E i \in Ids, v \in Verdicts \cup {None, Keep}, t \in Ids \cup {None, Keep} :
          Decide(h, i, v, t)
    \/ Insert(h) \/ CommitDecision(h)
    \/ \E obs \in Feeds : Refresh(h, obs)
    \/ \E i \in Ids, p \in Paths : Attach(h, i, p)
    \/ CommitCatalog(h)
    \/ \E s \in {"open", "closed"} : SetStatus(h, s)

Next == \E h \in Handlers : HandlerStep(h)

Spec == Init /\ [][Next]_vars

-----------------------------------------------------------------------------
TypeOK ==
    /\ status \in {"open", "closed"}
    /\ CatalogOK(catalog)
    /\ DOMAIN revisions \subseteq Events /\ revisions \in [DOMAIN revisions -> Revision]
    /\ lastEvent \in 0 .. MaxEvents
    /\ lock \in Handlers \cup {None}
    /\ step \in [Handlers -> {"idle", "locked", "decided", "inserted", "planned"}]
    /\ draft \in [Handlers -> Draft \cup {None}]
    /\ DOMAIN plan = Handlers /\ \A h \in Handlers : CatalogOK(plan[h])

(* README.md:622, no direct reciprocal merge edges: two items are never    *)
(* merged into each other by their latest decisions, whatever was decided, *)
(* cleared and decided again on both sides at once.                        *)
NoReciprocalMerge ==
    \A i, j \in DOMAIN catalog :
        ~ /\ Latest(i) = [verdict |-> "merge_into", target |-> j]
          /\ Latest(j) = [verdict |-> "merge_into", target |-> i]

(* A verdict stays attached to the bytes it was given on: the snapshot of  *)
(* a path item is the one every revision of it names (README.md:595), over *)
(* refreshes and attachments committed before and after it.                *)
VerdictsKeepTheirSnapshot ==
    \A e \in DOMAIN revisions :
        LET i == revisions[e].item IN
        /\ i \in DOMAIN catalog
        /\ ~Inline(catalog[i]) => catalog[i].hash = revisions[e].hash

(* A closed queue is frozen (README.md:626), for requests that were on     *)
(* their way when it was closed too.                                       *)
FrozenWhileClosed == [][status = "closed" => UNCHANGED <<catalog, revisions>>]_vars

(* Each operation on the items takes effect as one step of TriageCatalog:  *)
(* no refresh or attachment is lost or applied to a catalog it did not     *)
(* read.                                                                   *)
Catalog == INSTANCE TriageCatalog
ImplementsCatalog == Catalog!Spec

-----------------------------------------------------------------------------
(* The inductive invariant: what a transaction has read stays true for as  *)
(* long as it holds the lock.                                              *)
OneWriter == \A h \in Handlers : step[h] # "idle" <=> lock = h

EventsDrawn == \A e \in DOMAIN revisions : e <= lastEvent

RevisionsNumbered ==
    /\ \A e, f \in DOMAIN revisions :
          revisions[e].item = revisions[f].item /\ e < f
              => revisions[e].revision < revisions[f].revision
    /\ \A i \in Ids :
          DecisionsOn(i) # {} =>
              \E e \in DecisionsOn(i) : \A f \in DecisionsOn(i) : f <= e

DraftsHold ==
    \A h \in Handlers :
        step[h] \in {"decided", "inserted"} =>
            LET d == draft[h] IN
            /\ status = "open" /\ d \in Draft
            /\ d.row.item \in DOMAIN catalog
            /\ d.row.hash = catalog[d.row.item].hash
            /\ d.row.verdict = "merge_into" => CanMerge(d.row.item, d.row.target)
            /\ \A e \in DecisionsOn(d.row.item) : revisions[e].revision < d.row.revision
            /\ step[h] = "inserted" =>
                  d.event \in Events /\ d.event = lastEvent
                  /\ \A e \in DOMAIN revisions : e < d.event

PlansHold ==
    \A h \in Handlers :
        step[h] = "planned" =>
            /\ status = "open"
            /\ \/ \E obs \in Feeds :
                     Accepted(catalog, obs) /\ plan[h] = Refreshed(catalog, obs)
               \/ \E i \in DOMAIN catalog, p \in Paths :
                     /\ CanAttach(catalog, i, p, catalog[i].hash)
                     /\ plan[h] = Attached(catalog, i, p)

Inv ==
    /\ TypeOK /\ OneItemPerPath(catalog)
    /\ OneWriter /\ EventsDrawn /\ RevisionsNumbered
    /\ DraftsHold /\ PlansHold
    /\ VerdictsKeepTheirSnapshot /\ NoReciprocalMerge

(* Inductive beside Inv: the revisions of an item are numbered 1, 2, ...   *)
RevisionsCounted ==
    /\ \A e \in DOMAIN revisions :
          revisions[e].revision
              = Cardinality({f \in DecisionsOn(revisions[e].item) : f <= e})
    /\ \A h \in Handlers :
          step[h] \in {"decided", "inserted"} =>
              draft[h].row.revision = Cardinality(DecisionsOn(draft[h].row.item)) + 1
=============================================================================
