-------------------------- MODULE TriageStore_proofs --------------------------
(***************************************************************************)
(* Proofs about TriageStore for any catalogs and any number of handlers    *)
(* and events, and about the TriageExport beside it for any page size: no  *)
(* committed revision is skipped by the cursor.                            *)
(***************************************************************************)
EXTENDS TriageExport, TriageReconcile_proofs, FiniteSetTheorems, WellFoundedInduction, TLAPS

LatestPair == [verdict : Verdicts \cup {None}, target : Ids \cup {None}]

(* The latest decision is the one with the greatest event id.              *)
LEMMA LatestOf ==
    ASSUME TypeOK, RevisionsNumbered, NEW i, NEW e \in DecisionsOn(i),
           \A f \in DecisionsOn(i) : f <= e
    PROVE  Latest(i) = [verdict |-> revisions[e].verdict, target |-> revisions[e].target]
<1>1. /\ DecisionsOn(i) \subseteq DOMAIN revisions
      /\ \A f \in DecisionsOn(i) : revisions[f].item = i
  BY DEF DecisionsOn
<1>2. \A f \in DecisionsOn(i) : f \in Nat /\ revisions[f].revision \in Nat
  BY <1>1 DEF TypeOK, Revision, Events
<1>3. \A f \in DecisionsOn(i) : f # e => revisions[f].revision < revisions[e].revision
  BY <1>1, <1>2 DEF RevisionsNumbered
<1>4. \A f \in DecisionsOn(i) : revisions[f].revision <= revisions[e].revision
  BY <1>2, <1>3
<1>5. \A x \in DecisionsOn(i) :
          (\A f \in DecisionsOn(i) : revisions[f].revision <= revisions[x].revision) => x = e
  BY <1>2, <1>3
<1>6. (CHOOSE x \in DecisionsOn(i) :
          \A f \in DecisionsOn(i) : revisions[f].revision <= revisions[x].revision) = e
  BY <1>4, <1>5
<1> QED BY <1>6 DEF Latest

(* Latest of an item is well typed.                                        *)
LEMMA LatestType ==
    ASSUME TypeOK, RevisionsNumbered, NEW i \in Ids
    PROVE  Latest(i) \in LatestPair
<1>1. CASE DecisionsOn(i) = {}
  BY <1>1 DEF Latest, LatestPair
<1>2. CASE DecisionsOn(i) # {}
  <2>1. PICK e \in DecisionsOn(i) : \A f \in DecisionsOn(i) : f <= e
    BY <1>2 DEF RevisionsNumbered
  <2>2. revisions[e] \in Revision
    BY DEF DecisionsOn, TypeOK
  <2> QED BY <2>1, <2>2, LatestOf DEF LatestPair, Revision
<1> QED BY <1>1, <1>2

(* The next revision number is above those of the item.                    *)
LEMMA NextAbove ==
    ASSUME TypeOK, RevisionsNumbered, NEW i \in Ids
    PROVE  /\ NextRevision(i) \in Nat \ {0}
           /\ \A e \in DecisionsOn(i) : revisions[e].revision < NextRevision(i)
<1>1. CASE DecisionsOn(i) = {}
  BY <1>1 DEF NextRevision
<1>2. CASE DecisionsOn(i) # {}
  <2> DEFINE S == {revisions[e].revision : e \in DecisionsOn(i)}
  <2>1. PICK e \in DecisionsOn(i) : \A f \in DecisionsOn(i) : f <= e
    BY <1>2 DEF RevisionsNumbered
  <2>2. \A f \in DecisionsOn(i) :
            f \in Nat /\ revisions[f].revision \in Nat /\ f \in DOMAIN revisions
            /\ revisions[f].item = i
    BY DEF DecisionsOn, TypeOK, Revision, Events
  <2>3. \A f \in DecisionsOn(i) : revisions[f].revision <= revisions[e].revision
    <3> TAKE f \in DecisionsOn(i)
    <3>1. f < e \/ f = e
      BY <2>1, <2>2
    <3> QED BY <3>1, <2>2 DEF RevisionsNumbered
  <2>4. revisions[e].revision \in S
    OBVIOUS
  <2> DEFINE top == CHOOSE n \in S : \A f \in DecisionsOn(i) : revisions[f].revision <= n
  <2>5. top \in S /\ \A f \in DecisionsOn(i) : revisions[f].revision <= top
    <3> HIDE DEF S
    <3> QED BY <2>3, <2>4
  <2>6. top \in Nat
    BY <2>2, <2>5
  <2>7. NextRevision(i) = 1 + top
    BY <1>2 DEF NextRevision
  <2> HIDE DEF top
  <2> QED BY <2>2, <2>5, <2>6, <2>7
<1> QED BY <1>1, <1>2

(* A patch decides a verdict and a target of the right kinds, and a target *)
(* only with a merge.                                                      *)
LEMMA DecidedType ==
    ASSUME TypeOK, RevisionsNumbered, NEW i \in Ids,
           NEW v \in Verdicts \cup {None, Keep}, NEW t \in Ids \cup {None, Keep}
    PROVE  Decided(i, v, t) \in LatestPair
<1>1. Latest(i) \in LatestPair
  BY LatestType
<1> QED BY <1>1 DEF Decided, LatestPair

-----------------------------------------------------------------------------
(* Only the handler that holds the lock is in a transaction.               *)
LEMMA OthersIdle ==
    ASSUME OneWriter, NEW h \in Handlers, step[h] # "idle"
    PROVE  lock = h /\ \A k \in Handlers \ {h} : step[k] = "idle"
BY DEF OneWriter

(* The end of a transaction leaves every handler idle.                     *)
LEMMA Released ==
    ASSUME TypeOK, OneWriter, NEW h \in Handlers, step[h] # "idle", Release(h)
    PROVE  /\ step' = [k \in Handlers |-> "idle"] /\ lock' = None
           /\ draft' \in [Handlers -> Draft \cup {None}]
           /\ DOMAIN plan' = Handlers /\ \A k \in Handlers : CatalogOK(plan'[k])
           /\ OneWriter'
<1>1. lock = h /\ \A k \in Handlers \ {h} : step[k] = "idle"
  BY OthersIdle
<1>2. step' = [k \in Handlers |-> "idle"] /\ lock' = None
  BY <1>1 DEF Release, TypeOK
<1>3. draft' \in [Handlers -> Draft \cup {None}]
  BY DEF Release, TypeOK
<1>4. CatalogOK(NoCatalog)
  BY DEF CatalogOK, NoCatalog
<1>5. DOMAIN plan' = Handlers /\ \A k \in Handlers : CatalogOK(plan'[k])
  BY <1>4 DEF Release, TypeOK
<1>6. OneWriter'
  BY <1>2, StoreAssumption DEF OneWriter
<1> QED BY <1>2, <1>3, <1>5, <1>6

(* While no transaction is open there are no drafts or plans to hold.      *)
LEMMA IdleHolds ==
    ASSUME step' = [k \in Handlers |-> "idle"]
    PROVE  DraftsHold' /\ PlansHold'
BY DEF DraftsHold, PlansHold

(* Latest depends on the revisions only.                                   *)
LEMMA SameRevisions ==
    ASSUME revisions' = revisions
    PROVE  \A i : Latest(i)' = Latest(i) /\ DecisionsOn(i)' = DecisionsOn(i)
BY DEF Latest, DecisionsOn

(* LatestOf in the state after a step.                                     *)
LEMMA LatestAfter ==
    ASSUME TypeOK', RevisionsNumbered', NEW i, NEW e \in DecisionsOn(i)',
           \A f \in DecisionsOn(i)' : f <= e
    PROVE  Latest(i)' = [verdict |-> revisions'[e].verdict, target |-> revisions'[e].target]
<1>1. /\ DecisionsOn(i)' \subseteq DOMAIN revisions'
      /\ \A f \in DecisionsOn(i)' : revisions'[f].item = i
  BY DEF DecisionsOn
<1>2. \A f \in DecisionsOn(i)' : f \in Nat /\ revisions'[f].revision \in Nat
  BY <1>1 DEF TypeOK, Revision, Events
<1>3. \A f \in DecisionsOn(i)' : f # e => revisions'[f].revision < revisions'[e].revision
  BY <1>1, <1>2 DEF RevisionsNumbered
<1>4. \A f \in DecisionsOn(i)' : revisions'[f].revision <= revisions'[e].revision
  BY <1>2, <1>3
<1>5. \A x \in DecisionsOn(i)' :
          (\A f \in DecisionsOn(i)' : revisions'[f].revision <= revisions'[x].revision) => x = e
  BY <1>2, <1>3
<1>6. (CHOOSE x \in DecisionsOn(i)' :
          \A f \in DecisionsOn(i)' : revisions'[f].revision <= revisions'[x].revision) = e
  BY <1>4, <1>5
<1> QED BY <1>6 DEF Latest

(* A step inside a transaction, which changes nothing committed.           *)
LEMMA NothingCommitted ==
    ASSUME Inv, UNCHANGED <<catalog, revisions>>
    PROVE  /\ OneItemPerPath(catalog)' /\ RevisionsNumbered'
           /\ VerdictsKeepTheirSnapshot' /\ NoReciprocalMerge'
<1>1. \A i : Latest(i)' = Latest(i) /\ DecisionsOn(i)' = DecisionsOn(i)
  BY SameRevisions
<1> QED
  BY <1>1 DEF Inv, RevisionsNumbered, VerdictsKeepTheirSnapshot, NoReciprocalMerge

-----------------------------------------------------------------------------
(* Taking the row lock of the queue keeps the invariant.                   *)
LEMMA LockStep ==
    ASSUME Inv, NEW h \in Handlers, Lock(h)
    PROVE  Inv'
<1>1. /\ UNCHANGED <<status, catalog, revisions, lastEvent, draft, plan>>
      /\ lock = None /\ lock' = h /\ step[h] = "idle"
      /\ step' = [step EXCEPT ![h] = "locked"]
  BY DEF Lock, LockFree, queue
<1>2. \A k \in Handlers : step[k] = "idle"
  BY <1>1, StoreAssumption DEF Inv, OneWriter
<1>3. \A k \in Handlers : step'[k] = IF k = h THEN "locked" ELSE "idle"
  BY <1>1, <1>2 DEF Inv, TypeOK
<1>4. TypeOK'
  BY <1>1 DEF Inv, TypeOK
<1>5. OneWriter' /\ EventsDrawn' /\ DraftsHold' /\ PlansHold'
  BY <1>1, <1>3 DEF Inv, OneWriter, EventsDrawn, DraftsHold, PlansHold
<1> QED BY <1>1, <1>4, <1>5, NothingCommitted DEF Inv

(* A rollback keeps the invariant.                                         *)
LEMMA RollbackStep ==
    ASSUME Inv, NEW h \in Handlers, Rollback(h)
    PROVE  Inv'
<1>1. UNCHANGED <<status, catalog, revisions, lastEvent>> /\ step[h] # "idle" /\ Release(h)
  BY DEF Rollback, queue
<1>2. /\ step' = [k \in Handlers |-> "idle"] /\ lock' = None
      /\ draft' \in [Handlers -> Draft \cup {None}]
      /\ DOMAIN plan' = Handlers /\ \A k \in Handlers : CatalogOK(plan'[k])
      /\ OneWriter'
  BY <1>1, Released DEF Inv
<1>3. TypeOK'
  BY <1>1, <1>2 DEF Inv, TypeOK
<1>4. EventsDrawn' /\ DraftsHold' /\ PlansHold'
  BY <1>1, <1>2, IdleHolds DEF Inv, EventsDrawn
<1> QED BY <1>1, <1>2, <1>3, <1>4, NothingCommitted DEF Inv

(* Reading and drafting a decision keeps the invariant.                    *)
LEMMA DecideStep ==
    ASSUME Inv, NEW h \in Handlers, NEW i \in Ids,
           NEW v \in Verdicts \cup {None, Keep}, NEW t \in Ids \cup {None, Keep},
           Decide(h, i, v, t)
    PROVE  Inv'
<1>0. PICK d, row :
          /\ d = Decided(i, v, t)
          /\ row = [item |-> i, revision |-> NextRevision(i), verdict |-> d.verdict,
                    target |-> d.target, hash |-> catalog[i].hash]
  OBVIOUS
<1>1. /\ UNCHANGED <<status, catalog, revisions, lastEvent, lock, plan>>
      /\ status = "open" /\ step[h] = "locked" /\ i \in DOMAIN catalog
      /\ d.verdict = "merge_into" => CanMerge(i, d.target)
      /\ draft' = [draft EXCEPT ![h] = [event |-> 0, row |-> row]]
      /\ step' = [step EXCEPT ![h] = "decided"]
  BY <1>0 DEF Decide, Writable, queue
<1>2. \A k \in Handlers : step'[k] = IF k = h THEN "decided" ELSE "idle"
  BY <1>1, OthersIdle DEF Inv, TypeOK
<1>3. d \in LatestPair
  BY <1>0, DecidedType DEF Inv
<1>4. NextRevision(i) \in Nat \ {0} /\ \A e \in DecisionsOn(i) : revisions[e].revision < NextRevision(i)
  BY NextAbove DEF Inv
<1>5. catalog[i] \in Item
  BY <1>1 DEF Inv, TypeOK, CatalogOK
<1>6. row \in Revision
  BY <1>0, <1>3, <1>4, <1>5 DEF Revision, LatestPair, Item
<1>7. \A k \in Handlers : draft'[k] = IF k = h THEN [event |-> 0, row |-> row] ELSE draft[k]
  BY <1>1 DEF Inv, TypeOK
<1>8. row.item = i /\ row.hash = catalog[i].hash /\ row.revision = NextRevision(i)
      /\ row.verdict = d.verdict /\ row.target = d.target
  BY <1>0
<1>9. TypeOK'
  BY <1>1, <1>6 DEF Inv, TypeOK, Draft
<1>10. OneWriter' /\ EventsDrawn' /\ PlansHold'
  BY <1>1, <1>2 DEF Inv, OneWriter, EventsDrawn, PlansHold
<1>11. DraftsHold'
  <2> SUFFICES ASSUME NEW k \in Handlers, step'[k] \in {"decided", "inserted"}
               PROVE  /\ k = h /\ step'[h] = "decided"
                      /\ status' = "open" /\ draft'[h] \in Draft
                      /\ i \in DOMAIN catalog'
                      /\ row.hash = catalog'[i].hash
                      /\ row.verdict = "merge_into" => CanMerge(i, row.target)'
                      /\ \A e \in DecisionsOn(i)' : revisions'[e].revision < row.revision
    BY <1>7, <1>8 DEF DraftsHold
  <2>1. k = h /\ step'[h] = "decided"
    BY <1>2
  <2>2. draft'[h] \in Draft
    BY <1>6, <1>7 DEF Draft
  <2>3. \A j : Latest(j)' = Latest(j) /\ DecisionsOn(j)' = DecisionsOn(j)
    BY <1>1, SameRevisions
  <2>4. row.verdict = "merge_into" => CanMerge(i, row.target)'
    BY <1>1, <1>8, <2>3 DEF CanMerge
  <2> QED BY <1>1, <1>4, <1>8, <2>1, <2>2, <2>3, <2>4
<1> QED BY <1>1, <1>9, <1>10, <1>11, NothingCommitted DEF Inv

(* The INSERT of a decision, which draws its event id, keeps the           *)
(* invariant.                                                              *)
LEMMA InsertStep ==
    ASSUME Inv, NEW h \in Handlers, Insert(h)
    PROVE  Inv'
<1>1. /\ UNCHANGED <<status, catalog, revisions, lock, plan>>
      /\ step[h] = "decided" /\ lastEvent < MaxEvents /\ lastEvent' = lastEvent + 1
      /\ draft' = [draft EXCEPT ![h].event = lastEvent']
      /\ step' = [step EXCEPT ![h] = "inserted"]
  BY DEF Insert, queue
<1>2. \A k \in Handlers : step'[k] = IF k = h THEN "inserted" ELSE "idle"
  BY <1>1, OthersIdle DEF Inv, TypeOK
<1>3. /\ draft[h] \in Draft /\ status = "open"
      /\ draft[h].row.item \in DOMAIN catalog
      /\ draft[h].row.hash = catalog[draft[h].row.item].hash
      /\ draft[h].row.verdict = "merge_into" => CanMerge(draft[h].row.item, draft[h].row.target)
      /\ \A e \in DecisionsOn(draft[h].row.item) : revisions[e].revision < draft[h].row.revision
  BY <1>1 DEF Inv, DraftsHold
<1>4. lastEvent' \in Events /\ \A e \in DOMAIN revisions : e < lastEvent'
  BY <1>1, StoreAssumption DEF Inv, TypeOK, EventsDrawn, Events
<1>5. PICK row \in Revision : row = draft[h].row
  BY <1>3 DEF Draft
<1>6. \A k \in Handlers : draft'[k] = IF k = h THEN [event |-> lastEvent', row |-> row] ELSE draft[k]
  BY <1>1, <1>3, <1>5 DEF Inv, TypeOK, Draft
<1>7. TypeOK'
  <2>1. draft' \in [Handlers -> Draft \cup {None}]
    BY <1>1, <1>4, <1>6 DEF Inv, TypeOK, Draft, Events
  <2> QED BY <1>1, <1>4, <2>1, StoreAssumption DEF Inv, TypeOK, Events
<1>8. OneWriter' /\ EventsDrawn' /\ PlansHold'
  BY <1>1, <1>2, <1>4 DEF Inv, OneWriter, EventsDrawn, PlansHold, TypeOK, Events
<1>9. DraftsHold'
  <2>1. \A j : Latest(j)' = Latest(j) /\ DecisionsOn(j)' = DecisionsOn(j)
    BY <1>1, SameRevisions
  <2>2. draft'[h] \in Draft /\ draft'[h].row = row /\ draft'[h].event = lastEvent'
    BY <1>4, <1>6 DEF Draft, Events
  <2>3. row.verdict = "merge_into" => CanMerge(row.item, row.target)'
    BY <1>1, <1>3, <1>5, <2>1 DEF CanMerge
  <2> QED BY <1>1, <1>2, <1>3, <1>4, <1>5, <2>1, <2>2, <2>3 DEF DraftsHold
<1> QED BY <1>1, <1>7, <1>8, <1>9, NothingCommitted DEF Inv

(* A transaction that has written a catalog it may commit.                 *)
LEMMA PlanStep ==
    ASSUME Inv, NEW h \in Handlers, NEW cat, Writable(h), WriteCatalog(h, cat),
           CatalogOK(cat),
           \/ \E obs \in Feeds : Accepted(catalog, obs) /\ cat = Refreshed(catalog, obs)
           \/ \E i \in DOMAIN catalog, p \in Paths :
                 CanAttach(catalog, i, p, catalog[i].hash) /\ cat = Attached(catalog, i, p)
    PROVE  Inv'
<1>1. /\ UNCHANGED <<status, catalog, revisions, lastEvent, lock, draft>>
      /\ status = "open" /\ step[h] = "locked"
      /\ plan' = [plan EXCEPT ![h] = cat]
      /\ step' = [step EXCEPT ![h] = "planned"]
  BY DEF WriteCatalog, Writable, queue
<1>2. \A k \in Handlers : step'[k] = IF k = h THEN "planned" ELSE "idle"
  BY <1>1, OthersIdle DEF Inv, TypeOK
<1>3. TypeOK'
  BY <1>1 DEF Inv, TypeOK
<1>4. OneWriter' /\ EventsDrawn' /\ DraftsHold'
  BY <1>1, <1>2 DEF Inv, OneWriter, EventsDrawn, DraftsHold
<1>5. plan'[h] = cat
  BY <1>1 DEF Inv, TypeOK
<1>6. PlansHold'
  BY <1>1, <1>2, <1>5 DEF PlansHold
<1> QED BY <1>1, <1>3, <1>4, <1>6, NothingCommitted DEF Inv

(* Planning a refresh keeps the invariant.                                 *)
LEMMA RefreshStep ==
    ASSUME Inv, NEW h \in Handlers, NEW obs \in Feeds, Refresh(h, obs)
    PROVE  Inv'
<1>1. Writable(h) /\ Accepted(catalog, obs) /\ WriteCatalog(h, Refreshed(catalog, obs))
  BY DEF Refresh
<1>2. CatalogOK(Refreshed(catalog, obs))
  BY RefreshType, StoreAssumption DEF Inv, TypeOK
<1> QED BY <1>1, <1>2, PlanStep

(* Planning an attachment keeps the invariant.                             *)
LEMMA AttachStep ==
    ASSUME Inv, NEW h \in Handlers, NEW i \in Ids, NEW p \in Paths, Attach(h, i, p)
    PROVE  Inv'
<1>1. /\ Writable(h) /\ i \in DOMAIN catalog /\ CanAttach(catalog, i, p, catalog[i].hash)
      /\ WriteCatalog(h, Attached(catalog, i, p))
  BY DEF Attach
<1>2. CatalogOK(Attached(catalog, i, p))
  BY <1>1, AttachKeeps DEF Inv, TypeOK
<1> QED BY <1>1, <1>2, PlanStep

(* Closing and reopening keep the invariant.                               *)
LEMMA SetStatusStep ==
    ASSUME Inv, NEW h \in Handlers, NEW s \in {"open", "closed"}, SetStatus(h, s)
    PROVE  Inv'
<1>1. /\ UNCHANGED <<catalog, revisions, lastEvent>> /\ status' = s
      /\ step[h] # "idle" /\ Release(h)
  BY DEF SetStatus
<1>2. /\ step' = [k \in Handlers |-> "idle"] /\ lock' = None
      /\ draft' \in [Handlers -> Draft \cup {None}]
      /\ DOMAIN plan' = Handlers /\ \A k \in Handlers : CatalogOK(plan'[k])
      /\ OneWriter'
  BY <1>1, Released DEF Inv
<1>3. TypeOK'
  BY <1>1, <1>2 DEF Inv, TypeOK
<1>4. EventsDrawn' /\ DraftsHold' /\ PlansHold'
  BY <1>1, <1>2, IdleHolds DEF Inv, EventsDrawn
<1>5. /\ OneItemPerPath(catalog)' /\ RevisionsNumbered'
      /\ VerdictsKeepTheirSnapshot' /\ NoReciprocalMerge'
  BY <1>1, NothingCommitted
<1> QED BY <1>2, <1>3, <1>4, <1>5 DEF Inv

-----------------------------------------------------------------------------
(* A written catalog keeps the items, their kinds and the snapshots.       *)
LEMMA PlanKeeps ==
    ASSUME Inv, NEW h \in Handlers, step[h] = "planned"
    PROVE  /\ CatalogOK(plan[h]) /\ OneItemPerPath(plan[h])
           /\ \A i \in DOMAIN catalog :
                /\ i \in DOMAIN plan[h]
                /\ Inline(plan[h][i]) <=> Inline(catalog[i])
                /\ ~Inline(catalog[i]) => plan[h][i].hash = catalog[i].hash
<1>0. CatalogOK(catalog) /\ OneItemPerPath(catalog) /\ CatalogOK(plan[h])
  BY DEF Inv, TypeOK
<1>1. CASE \E obs \in Feeds : Accepted(catalog, obs) /\ plan[h] = Refreshed(catalog, obs)
  <2>1. PICK obs \in Imports : ~KindChanged(catalog, obs) /\ plan[h] = Refreshed(catalog, obs)
    BY <1>1, StoreAssumption DEF Accepted
  <2> QED BY <1>0, <2>1, RefreshKeeps, RefreshPaths
<1>2. CASE \E i \in DOMAIN catalog, p \in Paths :
              CanAttach(catalog, i, p, catalog[i].hash) /\ plan[h] = Attached(catalog, i, p)
  BY <1>0, <1>2, AttachKeeps
<1> QED BY <1>1, <1>2 DEF Inv, PlansHold

(* The commit of a plan keeps the invariant.                               *)
LEMMA CommitCatalogStep ==
    ASSUME Inv, NEW h \in Handlers, CommitCatalog(h)
    PROVE  Inv'
<1>1. /\ UNCHANGED <<status, revisions, lastEvent>> /\ catalog' = plan[h]
      /\ step[h] = "planned" /\ Release(h)
  BY DEF CommitCatalog
<1>2. /\ step' = [k \in Handlers |-> "idle"] /\ lock' = None
      /\ draft' \in [Handlers -> Draft \cup {None}]
      /\ DOMAIN plan' = Handlers /\ \A k \in Handlers : CatalogOK(plan'[k])
      /\ OneWriter'
  BY <1>1, Released DEF Inv
<1>3. /\ CatalogOK(catalog') /\ OneItemPerPath(catalog')
      /\ \A i \in DOMAIN catalog :
            /\ i \in DOMAIN catalog'
            /\ Inline(catalog'[i]) <=> Inline(catalog[i])
            /\ ~Inline(catalog[i]) => catalog'[i].hash = catalog[i].hash
  BY <1>1, PlanKeeps
<1>4. TypeOK'
  BY <1>1, <1>2, <1>3 DEF Inv, TypeOK
<1>5. EventsDrawn' /\ DraftsHold' /\ PlansHold'
  BY <1>1, <1>2, IdleHolds DEF Inv, EventsDrawn
<1>6. \A j : Latest(j)' = Latest(j) /\ DecisionsOn(j)' = DecisionsOn(j)
  BY <1>1, SameRevisions
<1>7. RevisionsNumbered'
  BY <1>1, <1>6 DEF Inv, RevisionsNumbered
<1>8. VerdictsKeepTheirSnapshot'
  BY <1>1, <1>3 DEF Inv, VerdictsKeepTheirSnapshot
<1>9. NoReciprocalMerge'
  <2> SUFFICES ASSUME NEW i \in DOMAIN catalog', NEW j \in DOMAIN catalog',
                      Latest(i) = [verdict |-> "merge_into", target |-> j],
                      Latest(j) = [verdict |-> "merge_into", target |-> i]
               PROVE  FALSE
    BY <1>6 DEF NoReciprocalMerge
  <2>1. i \in Ids /\ j \in Ids
    BY <1>3 DEF CatalogOK
  <2>2. \A k \in Ids : DecisionsOn(k) = {} => Latest(k).target \notin Ids
    BY ReconcileAssumption DEF Latest
  <2>3. DecisionsOn(i) # {} /\ DecisionsOn(j) # {}
    BY <2>1, <2>2
  <2>4. i \in DOMAIN catalog /\ j \in DOMAIN catalog
    BY <2>3 DEF DecisionsOn, Inv, VerdictsKeepTheirSnapshot
  <2> QED BY <2>4 DEF Inv, NoReciprocalMerge
<1> QED BY <1>2, <1>3, <1>4, <1>5, <1>7, <1>8, <1>9 DEF Inv

(* The commit of a decision keeps the invariant.                           *)
LEMMA CommitDecisionStep ==
    ASSUME Inv, NEW h \in Handlers, CommitDecision(h)
    PROVE  Inv'
<1>0. PICK e, r : e = draft[h].event /\ r = draft[h].row
  OBVIOUS
<1>1. /\ UNCHANGED <<status, catalog, lastEvent>>
      /\ revisions' = [f \in DOMAIN revisions \cup {e} |-> IF f = e THEN r ELSE revisions[f]]
      /\ step[h] = "inserted" /\ Release(h)
  BY <1>0 DEF CommitDecision
<1>2. /\ step' = [k \in Handlers |-> "idle"] /\ lock' = None
      /\ draft' \in [Handlers -> Draft \cup {None}]
      /\ DOMAIN plan' = Handlers /\ \A k \in Handlers : CatalogOK(plan'[k])
      /\ OneWriter'
  BY <1>1, Released DEF Inv
<1>3. /\ r \in Revision /\ e \in Events /\ e = lastEvent
      /\ \A f \in DOMAIN revisions : f < e
      /\ r.item \in DOMAIN catalog /\ r.hash = catalog[r.item].hash
      /\ r.verdict = "merge_into" => CanMerge(r.item, r.target)
      /\ \A f \in DecisionsOn(r.item) : revisions[f].revision < r.revision
  BY <1>0, <1>1 DEF Inv, DraftsHold, Draft
<1>4. /\ DOMAIN revisions' = DOMAIN revisions \cup {e} /\ e \notin DOMAIN revisions
      /\ revisions'[e] = r
      /\ \A f \in DOMAIN revisions : f # e /\ revisions'[f] = revisions[f]
  BY <1>1, <1>3 DEF Events
<1>5. TypeOK'
  BY <1>1, <1>2, <1>3, <1>4 DEF Inv, TypeOK
<1>6. EventsDrawn' /\ DraftsHold' /\ PlansHold'
  BY <1>1, <1>2, <1>3, <1>4, IdleHolds DEF Inv, EventsDrawn, Events
<1>7. /\ \A i : i # r.item => DecisionsOn(i)' = DecisionsOn(i)
      /\ DecisionsOn(r.item)' = DecisionsOn(r.item) \cup {e}
  BY <1>4 DEF DecisionsOn
<1>8. e \in DecisionsOn(r.item)' /\ \A f \in DecisionsOn(r.item)' : f <= e
  <2>1. \A f \in DecisionsOn(r.item) : f <= e
    BY <1>3 DEF DecisionsOn, Events, Inv, TypeOK
  <2>2. e <= e
    BY <1>3 DEF Events
  <2> QED BY <1>7, <2>1, <2>2
<1>9. RevisionsNumbered'
  <2>1. \A f, g \in DOMAIN revisions' :
            revisions'[f].item = revisions'[g].item /\ f < g
                => revisions'[f].revision < revisions'[g].revision
    BY <1>3, <1>4 DEF Inv, TypeOK, RevisionsNumbered, DecisionsOn, Events
  <2>2. ASSUME NEW i \in Ids, DecisionsOn(i)' # {}
        PROVE  \E f \in DecisionsOn(i)' : \A g \in DecisionsOn(i)' : g <= f
    <3>1. CASE i = r.item
      BY <1>8, <3>1
    <3>2. CASE i # r.item
      BY <1>7, <2>2, <3>2 DEF Inv, RevisionsNumbered
    <3> QED BY <3>1, <3>2
  <2> QED BY <2>1, <2>2 DEF RevisionsNumbered
<1>10. VerdictsKeepTheirSnapshot'
  BY <1>1, <1>3, <1>4 DEF Inv, VerdictsKeepTheirSnapshot
<1>11. \A i \in Ids : i # r.item => Latest(i)' = Latest(i)
  <2> SUFFICES ASSUME NEW i \in Ids, i # r.item
               PROVE  Latest(i)' = Latest(i)
    OBVIOUS
  <2>1. DecisionsOn(i)' = DecisionsOn(i)
    BY <1>7
  <2>2. CASE DecisionsOn(i) = {}
    BY <2>1, <2>2 DEF Latest
  <2>3. CASE DecisionsOn(i) # {}
    <3>1. PICK f \in DecisionsOn(i) : \A g \in DecisionsOn(i) : g <= f
      BY <2>3 DEF Inv, RevisionsNumbered
    <3>2. Latest(i) = [verdict |-> revisions[f].verdict, target |-> revisions[f].target]
      BY <3>1, LatestOf DEF Inv
    <3>3. Latest(i)' = [verdict |-> revisions'[f].verdict, target |-> revisions'[f].target]
      BY <1>5, <1>9, <2>1, <3>1, LatestAfter
    <3>4. f \in DOMAIN revisions
      BY <3>1 DEF DecisionsOn
    <3> QED BY <1>4, <3>2, <3>3, <3>4
  <2> QED BY <2>2, <2>3
<1>12. Latest(r.item)' = [verdict |-> r.verdict, target |-> r.target]
  BY <1>4, <1>5, <1>9, <1>8, LatestAfter
<1>13. NoReciprocalMerge'
  <2> SUFFICES ASSUME NEW i \in DOMAIN catalog, NEW j \in DOMAIN catalog,
                      Latest(i)' = [verdict |-> "merge_into", target |-> j],
                      Latest(j)' = [verdict |-> "merge_into", target |-> i]
               PROVE  FALSE
    BY <1>1 DEF NoReciprocalMerge
  <2>1. i \in Ids /\ j \in Ids
    BY DEF Inv, TypeOK, CatalogOK
  <2>2. CASE i # r.item /\ j # r.item
    BY <1>11, <2>1, <2>2 DEF Inv, NoReciprocalMerge
  <2>3. CASE i = r.item
    <3>1. r.verdict = "merge_into" /\ r.target = j
      BY <1>12, <2>3
    <3>2. j # i /\ Latest(j) # [verdict |-> "merge_into", target |-> i]
      BY <1>3, <2>3, <3>1 DEF CanMerge
    <3> QED BY <1>11, <2>1, <2>3, <3>2
  <2>4. CASE j = r.item
    <3>1. r.verdict = "merge_into" /\ r.target = i
      BY <1>12, <2>4
    <3>2. i # j /\ Latest(i) # [verdict |-> "merge_into", target |-> j]
      BY <1>3, <2>4, <3>1 DEF CanMerge
    <3> QED BY <1>11, <2>1, <2>4, <3>2
  <2> QED BY <2>2, <2>3, <2>4
<1>14. OneItemPerPath(catalog)'
  BY <1>1 DEF Inv
<1> QED BY <1>2, <1>5, <1>6, <1>9, <1>10, <1>13, <1>14 DEF Inv

-----------------------------------------------------------------------------
(* Inv is inductive: it holds for any handlers, items, imports and events. *)
LEMMA InvStep ==
    ASSUME Inv, [Next]_vars
    PROVE  Inv'
<1>1. CASE UNCHANGED vars
  BY <1>1, SameRevisions
     DEF Inv, vars, TypeOK, OneWriter, EventsDrawn, RevisionsNumbered, DraftsHold, PlansHold,
         VerdictsKeepTheirSnapshot, NoReciprocalMerge, CanMerge
<1>2. ASSUME NEW h \in Handlers, HandlerStep(h)
      PROVE  Inv'
  BY <1>2, LockStep, RollbackStep, DecideStep, InsertStep, CommitDecisionStep, RefreshStep,
     AttachStep, CommitCatalogStep, SetStatusStep DEF HandlerStep
<1> QED BY <1>1, <1>2 DEF Next

(* The queue starts empty, unlocked and satisfying the invariant.          *)
LEMMA InvInitially == Init => Inv
BY StoreAssumption
   DEF Init, Inv, TypeOK, CatalogOK, NoCatalog, NoRevisions, OneItemPerPath, OneWriter,
       EventsDrawn, RevisionsNumbered, DecisionsOn, DraftsHold, PlansHold,
       VerdictsKeepTheirSnapshot, NoReciprocalMerge

(* Every state of the queue satisfies Inv.                                 *)
THEOREM StoreInvariant == Spec => []Inv
<1>1. Inv /\ [Next]_vars => Inv'
  BY InvStep
<1> QED BY <1>1, InvInitially, PTL DEF Spec

(* Concurrent decisions never leave two items merged into each other.      *)
THEOREM NoReciprocals == Spec => []NoReciprocalMerge
<1>1. Inv => NoReciprocalMerge
  BY DEF Inv
<1> QED BY <1>1, StoreInvariant, PTL

(* No refresh or attachment changes the bytes a verdict was given on.      *)
THEOREM SnapshotsStay == Spec => []VerdictsKeepTheirSnapshot
<1>1. Inv => VerdictsKeepTheirSnapshot
  BY DEF Inv
<1> QED BY <1>1, StoreInvariant, PTL

(* The rows keep to the schema.                                            *)
THEOREM StoreTypeCorrect == Spec => []TypeOK
<1>1. Inv => TypeOK
  BY DEF Inv
<1> QED BY <1>1, StoreInvariant, PTL

(* A closed queue is frozen: only an open one has transactions that write. *)
THEOREM ClosedQueueIsFrozen == Spec => FrozenWhileClosed
<1>1. Inv /\ [Next]_vars => [status = "closed" => UNCHANGED <<catalog, revisions>>]_vars
  <2> SUFFICES ASSUME Inv, Next, status = "closed"
               PROVE  UNCHANGED <<catalog, revisions>>
    OBVIOUS
  <2>1. \A h \in Handlers : step[h] \notin {"inserted", "planned"}
    BY DEF Inv, DraftsHold, PlansHold
  <2>2. PICK h \in Handlers : HandlerStep(h)
    BY DEF Next
  <2> QED
    BY <2>1, <2>2
       DEF HandlerStep, Lock, Rollback, Decide, Insert, CommitDecision, Refresh, Attach,
           WriteCatalog, CommitCatalog, SetStatus, queue
<1> QED BY <1>1, StoreInvariant, PTL DEF Spec, FrozenWhileClosed

-----------------------------------------------------------------------------
(* The operators of TriageReconcile are the same in the instance.          *)
LEMMA SameRefresh ==
    /\ \A cat, obs : Catalog!Refreshed(cat, obs) = Refreshed(cat, obs)
    /\ \A cat, obs : Catalog!Accepted(cat, obs) <=> Accepted(cat, obs)
BY DEF Catalog!Refreshed, Refreshed, Catalog!Accepted, Accepted, Catalog!Added, Added,
       Catalog!SeenById, SeenById, Catalog!NotSeen, NotSeen, Catalog!HashMoved, HashMoved,
       Catalog!MovedTo, MovedTo, Catalog!Fresh, Fresh, Catalog!Stale, Stale, Catalog!Inline, Inline,
       Catalog!Found, Found, Catalog!Lost, Lost, Catalog!Unknown, Unknown, Catalog!Unseen, Unseen,
       Catalog!KindChanged, KindChanged, Catalog!PathTaken, PathTaken, Catalog!Current, Current,
       Catalog!AppliedBefore, AppliedBefore

(* Attachments and imports are those of the catalog too.                   *)
LEMMA SameAttach ==
    /\ \A p, h : Catalog!Fresh(p, h) = Fresh(p, h)
    /\ \A cat, i, p : Catalog!Attached(cat, i, p) = Attached(cat, i, p)
    /\ \A cat, i, p, h : Catalog!CanAttach(cat, i, p, h) <=> CanAttach(cat, i, p, h)
    /\ Catalog!Imports = Imports /\ Catalog!NoCatalog = NoCatalog
BY DEF Catalog!Attached, Attached, Catalog!CanAttach, CanAttach, Catalog!PathFree, PathFree,
       Catalog!Fresh, Fresh, Catalog!Inline, Inline, Catalog!Current, Current,
       Catalog!Imports, Imports, Catalog!ImportOK, ImportOK, Catalog!Source, Source,
       Catalog!NoCatalog, NoCatalog

(* The first refresh of an empty queue adds every source.                  *)
LEMMA FirstRefresh ==
    ASSUME NEW obs \in Imports
    PROVE  Refreshed(NoCatalog, obs) = [i \in DOMAIN obs |-> Fresh(obs[i].path, obs[i].hash)]
<1>1. DOMAIN NoCatalog = {}
  BY DEF NoCatalog
<1>2. Added(NoCatalog, obs) = DOMAIN obs
  BY <1>1 DEF Added, Lost, Unseen
<1> QED BY <1>1, <1>2 DEF Refreshed

(* Committed catalogs evolve by whole refreshes and attachments, each      *)
(* computed from the catalog it replaces, whatever the handlers interleave.*)
THEOREM CatalogRefinement == Spec => ImplementsCatalog
<1>1. Init => Catalog!Init
  BY SameAttach DEF Init, Catalog!Init
<1>2. ASSUME Inv, [Next]_vars
      PROVE  [Catalog!Next]_catalog
  <2>1. CASE UNCHANGED catalog
    BY <2>1
  <2>2. ASSUME NEW h \in Handlers, CommitCatalog(h)
        PROVE  Catalog!Next
    <3>1. catalog' = plan[h] /\ step[h] = "planned"
      BY <2>2 DEF CommitCatalog
    <3>2. CASE \E obs \in Feeds : Accepted(catalog, obs) /\ plan[h] = Refreshed(catalog, obs)
      <4>1. PICK obs \in Imports : Accepted(catalog, obs) /\ catalog' = Refreshed(catalog, obs)
        BY <3>1, <3>2, StoreAssumption
      <4>2. CASE catalog = NoCatalog
        <5>1. catalog' = [i \in DOMAIN obs |-> Fresh(obs[i].path, obs[i].hash)]
          BY <4>1, <4>2, FirstRefresh
        <5>2. Catalog!Create(obs)
          BY <4>2, <5>1, SameAttach DEF Catalog!Create
        <5> QED BY <5>2, SameAttach DEF Catalog!Next
      <4>3. CASE catalog # NoCatalog
        <5>1. Catalog!Refresh(obs)
          BY <4>1, <4>3, SameAttach, SameRefresh DEF Catalog!Refresh
        <5> QED BY <5>1, SameAttach DEF Catalog!Next
      <4> QED BY <4>2, <4>3
    <3>3. CASE \E i \in DOMAIN catalog, p \in Paths :
                  CanAttach(catalog, i, p, catalog[i].hash) /\ plan[h] = Attached(catalog, i, p)
      <4>1. PICK i \in DOMAIN catalog, p \in Paths :
                CanAttach(catalog, i, p, catalog[i].hash) /\ catalog' = Attached(catalog, i, p)
        BY <3>1, <3>3
      <4>2. i \in Ids
        BY <1>2 DEF Inv, TypeOK, CatalogOK
      <4>3. Catalog!Attach(i, p)
        BY <4>1, SameAttach DEF Catalog!Attach
      <4> QED BY <4>2, <4>3 DEF Catalog!Next
    <3> QED BY <1>2, <3>1, <3>2, <3>3 DEF Inv, PlansHold
  <2>3. ASSUME NEW h \in Handlers, HandlerStep(h), ~CommitCatalog(h)
        PROVE  UNCHANGED catalog
    BY <2>3 DEF HandlerStep, Lock, Rollback, Decide, Insert, CommitDecision, Refresh, Attach,
                WriteCatalog, SetStatus, queue
  <2>4. CASE UNCHANGED vars
    BY <2>1, <2>4 DEF vars
  <2>5. CASE Next
    <3>1. PICK h \in Handlers : HandlerStep(h)
      BY <2>5 DEF Next
    <3> QED BY <2>1, <2>2, <2>3, <3>1
  <2> QED BY <1>2, <2>4, <2>5
<1> QED BY <1>1, <1>2, StoreInvariant, PTL DEF Spec, ImplementsCatalog, Catalog!Spec

-----------------------------------------------------------------------------
(* The export.                                                             *)

(* A nonempty set of naturals with an upper bound has a greatest element:  *)
(* the least of its upper bounds.                                          *)
LEMMA Greatest ==
    ASSUME NEW S \in SUBSET Nat, S # {}, NEW b \in Nat, \A e \in S : e <= b
    PROVE  \E m \in S : \A e \in S : e <= m
<1> DEFINE Bounds == {n \in Nat : \A e \in S : e <= n}
<1>1. \E m \in Bounds : \A n \in Bounds : ~(<<n, m>> \in OpToRel(<, Nat))
  <2>1. Bounds \subseteq Nat /\ Bounds # {}
    OBVIOUS
  <2> HIDE DEF Bounds
  <2> QED BY <2>1, NatLessThanWellFounded, WFMin, Zenon
<1>2. PICK m \in Bounds : \A n \in Bounds : ~(<<n, m>> \in OpToRel(<, Nat))
  BY <1>1
<1>3. \A n \in Bounds : ~(n < m)
  BY <1>2 DEF OpToRel
<1>4. CASE m \in S
  BY <1>4
<1>5. CASE m \notin S
  <2>1. PICK x \in S : TRUE
    OBVIOUS
  <2>2. m > 0 /\ m - 1 \in Nat
    BY <1>5, <2>1
  <2>3. m - 1 \in Bounds
    BY <1>5, <2>2
  <2> QED BY <1>3, <2>2, <2>3
<1> QED BY <1>4, <1>5

(* A page has no gaps: what lies between the cursor and one of its events  *)
(* is on it too.                                                           *)
LEMMA PageHasNoGaps ==
    ASSUME TypeOK, NEW c \in Nat, NEW e \in PageAfter(c), NEW f \in After(c), f <= e
    PROVE  f \in PageAfter(c)
<1> DEFINE Before(x) == {g \in After(c) : g < x}
<1>1. After(c) \subseteq 1 .. MaxEvents
  BY DEF After, TypeOK, Events
<1>2. e \in After(c) /\ Cardinality(Before(e)) < Limit
  BY DEF PageAfter
<1>3. Before(f) \subseteq Before(e)
  BY <1>1, <1>2
<1>4. IsFiniteSet(Before(e))
  <2>1. IsFiniteSet(1 .. MaxEvents)
    BY StoreAssumption, FS_Interval
  <2>2. Before(e) \in SUBSET (1 .. MaxEvents)
    BY <1>1
  <2> HIDE DEF Before
  <2> QED BY <2>1, <2>2, FS_Subset
<1>5. /\ Cardinality(Before(f)) \in Nat /\ Cardinality(Before(e)) \in Nat
      /\ Cardinality(Before(f)) <= Cardinality(Before(e))
  <2> HIDE DEF Before
  <2>1. IsFiniteSet(Before(f)) /\ Cardinality(Before(f)) <= Cardinality(Before(e))
    BY <1>3, <1>4, FS_Subset
  <2> QED BY <1>4, <2>1, FS_CardinalityType
<1>6. Cardinality(Before(f)) < Limit
  BY <1>2, <1>5, LimitAssumption
<1> QED BY <1>6 DEF PageAfter

(* The transactions of the queue only ever add a revision above the rest.  *)
LEMMA StoreAppends ==
    ASSUME Inv, Next
    PROVE  \/ revisions' = revisions
           \/ \E d \in Events :
                /\ DOMAIN revisions' = DOMAIN revisions \cup {d}
                /\ \A e \in DOMAIN revisions : e < d
<1>1. PICK h \in Handlers : HandlerStep(h)
  BY DEF Next
<1>2. CASE CommitDecision(h)
  BY <1>2 DEF CommitDecision, Inv, DraftsHold
<1>3. CASE ~CommitDecision(h)
  BY <1>1, <1>3
     DEF HandlerStep, Lock, Rollback, Decide, Insert, Refresh, Attach, WriteCatalog,
         CommitCatalog, SetStatus, queue
<1> QED BY <1>2, <1>3

-----------------------------------------------------------------------------
(* Revision numbers count the revisions of an item                         *)

(* Any set of decisions of an item is finite.                              *)
LEMMA DecisionsFinite ==
    ASSUME TypeOK, NEW i, NEW S, S \subseteq DecisionsOn(i)
    PROVE  IsFiniteSet(S) /\ Cardinality(S) \in Nat
<1>1. S \in SUBSET (1 .. MaxEvents)
  BY DEF DecisionsOn, TypeOK, Events
<1>2. IsFiniteSet(1 .. MaxEvents)
  BY StoreAssumption, FS_Interval
<1> QED BY <1>1, <1>2, FS_Subset, FS_CardinalityType

(* The next number is one above that of the latest revision.               *)
LEMMA NextIs ==
    ASSUME TypeOK, RevisionsNumbered, RevisionsCounted, NEW i \in Ids
    PROVE  NextRevision(i) = Cardinality(DecisionsOn(i)) + 1
<1>1. CASE DecisionsOn(i) = {}
  BY <1>1, FS_EmptySet DEF NextRevision
<1>2. CASE DecisionsOn(i) # {}
  <2>1. PICK e \in DecisionsOn(i) : \A f \in DecisionsOn(i) : f <= e
    BY <1>2 DEF RevisionsNumbered
  <2>2. \A f \in DecisionsOn(i) :
            f \in Nat /\ revisions[f].revision \in Nat /\ f \in DOMAIN revisions
            /\ revisions[f].item = i
    BY DEF DecisionsOn, TypeOK, Revision, Events
  <2>3. \A f \in DecisionsOn(i) : revisions[f].revision <= revisions[e].revision
    <3> TAKE f \in DecisionsOn(i)
    <3>1. f < e \/ f = e
      BY <2>1, <2>2
    <3> QED BY <3>1, <2>2 DEF RevisionsNumbered
  <2> DEFINE S == {revisions[f].revision : f \in DecisionsOn(i)}
  <2>4. revisions[e].revision \in S /\ S \subseteq Nat
    BY <2>2
  <2>5. \A n \in S :
            (\A f \in DecisionsOn(i) : revisions[f].revision <= n) => n = revisions[e].revision
    BY <2>2, <2>3
  <2>6. (CHOOSE n \in S : \A f \in DecisionsOn(i) : revisions[f].revision <= n)
            = revisions[e].revision
    <3> HIDE DEF S
    <3> QED BY <2>3, <2>4, <2>5
  <2>7. NextRevision(i) = 1 + revisions[e].revision
    BY <1>2, <2>6 DEF NextRevision
  <2>8. {f \in DecisionsOn(i) : f <= e} = DecisionsOn(i)
    BY <2>1
  <2>9. revisions[e].revision = Cardinality(DecisionsOn(i))
    BY <2>2, <2>8 DEF RevisionsCounted
  <2> QED BY <2>2, <2>7, <2>9
<1> QED BY <1>1, <1>2

(* A commit keeps revision numbers equal to the counts of revisions.       *)
LEMMA CountedAfterCommit ==
    ASSUME Inv, RevisionsCounted, NEW h \in Handlers, CommitDecision(h)
    PROVE  RevisionsCounted'
<1>0. PICK d, r : d = draft[h].event /\ r = draft[h].row
  OBVIOUS
<1>1. /\ revisions' = [f \in DOMAIN revisions \cup {d} |-> IF f = d THEN r ELSE revisions[f]]
      /\ step[h] = "inserted" /\ Release(h)
  BY <1>0 DEF CommitDecision
<1>2. step' = [k \in Handlers |-> "idle"]
  BY <1>1, Released DEF Inv
<1>3. /\ d \in Nat /\ \A f \in DOMAIN revisions : f < d /\ f \in Nat
      /\ r.revision = Cardinality(DecisionsOn(r.item)) + 1
  BY <1>0, <1>1 DEF Inv, DraftsHold, RevisionsCounted, TypeOK, Events
<1>4. /\ DOMAIN revisions' = DOMAIN revisions \cup {d} /\ d \notin DOMAIN revisions
      /\ revisions'[d] = r
      /\ \A f \in DOMAIN revisions : f # d /\ revisions'[f] = revisions[f]
  BY <1>1, <1>3
<1>5. ASSUME NEW e \in DOMAIN revisions'
      PROVE  (revisions[e].revision
                 = Cardinality({f \in DecisionsOn(revisions[e].item) : f <= e}))'
  <2>1. CASE e \in DOMAIN revisions
    <3>1. {f \in DecisionsOn(revisions[e].item) : f <= e}'
              = {f \in DecisionsOn(revisions[e].item) : f <= e}
      BY <1>3, <1>4, <2>1 DEF DecisionsOn
    <3> QED BY <1>4, <2>1, <3>1 DEF RevisionsCounted
  <2>2. CASE e = d
    <3>1. {f \in DecisionsOn(revisions[d].item) : f <= d}' = DecisionsOn(r.item) \cup {d}
      BY <1>3, <1>4 DEF DecisionsOn
    <3>2. d \notin DecisionsOn(r.item) /\ IsFiniteSet(DecisionsOn(r.item))
      BY <1>4, DecisionsFinite DEF DecisionsOn, Inv
    <3>3. Cardinality(DecisionsOn(r.item) \cup {d}) = Cardinality(DecisionsOn(r.item)) + 1
      BY <3>2, FS_AddElement
    <3> QED BY <1>3, <1>4, <2>2, <3>1, <3>3
  <2> QED BY <1>4, <2>1, <2>2
<1> QED BY <1>2, <1>5 DEF RevisionsCounted

(* So does every other step.                                               *)
LEMMA CountedStep ==
    ASSUME Inv, RevisionsCounted, [Next]_vars
    PROVE  RevisionsCounted'
<1>1. CASE UNCHANGED vars
  BY <1>1 DEF vars, RevisionsCounted, DecisionsOn
<1>2. ASSUME NEW h \in Handlers, HandlerStep(h)
      PROVE  RevisionsCounted'
  <2>1. CASE CommitDecision(h)
    BY <2>1, CountedAfterCommit
  <2>2. ASSUME NEW i \in Ids, NEW v \in Verdicts \cup {None, Keep},
               NEW t \in Ids \cup {None, Keep}, Decide(h, i, v, t)
        PROVE  RevisionsCounted'
    <3>1. NextRevision(i) = Cardinality(DecisionsOn(i)) + 1
      BY NextIs DEF Inv
    <3>2. /\ UNCHANGED revisions
          /\ \A k \in Handlers \ {h} : step'[k] = step[k] /\ draft'[k] = draft[k]
          /\ draft'[h].row.item = i /\ draft'[h].row.revision = NextRevision(i)
      BY <2>2 DEF Decide, queue, Inv, TypeOK
    <3>3. \A n : DecisionsOn(n)' = DecisionsOn(n)
      BY <3>2 DEF DecisionsOn
    <3> QED BY <3>1, <3>2, <3>3 DEF RevisionsCounted
  <2>3. CASE Insert(h)
    <3>1. /\ UNCHANGED revisions
          /\ \A k \in Handlers : draft'[k].row = draft[k].row
          /\ \A k \in Handlers \ {h} : step'[k] = step[k]
          /\ step[h] = "decided"
      <4>1. draft[h] \in Draft
        BY <2>3 DEF Insert, Inv, DraftsHold
      <4> QED BY <2>3, <4>1 DEF Insert, queue, Inv, TypeOK, Draft
    <3>2. \A n : DecisionsOn(n)' = DecisionsOn(n)
      BY <3>1 DEF DecisionsOn
    <3> QED BY <3>1, <3>2 DEF RevisionsCounted
  <2>4. CASE \/ Lock(h) \/ Rollback(h) \/ CommitCatalog(h)
             \/ \E obs \in Feeds : Refresh(h, obs)
             \/ \E i \in Ids, p \in Paths : Attach(h, i, p)
             \/ \E s \in {"open", "closed"} : SetStatus(h, s)
    <3>1. UNCHANGED revisions
      BY <2>4 DEF Lock, Rollback, CommitCatalog, Refresh, Attach, WriteCatalog, SetStatus, queue
    <3>2. \A k \in Handlers :
              step'[k] \in {"decided", "inserted"} => step'[k] = step[k] /\ draft'[k] = draft[k]
      BY <2>4
         DEF Lock, Rollback, CommitCatalog, Refresh, Attach, WriteCatalog, SetStatus, Release,
             Inv, TypeOK
    <3>3. \A n : DecisionsOn(n)' = DecisionsOn(n)
      BY <3>1 DEF DecisionsOn
    <3> QED BY <3>1, <3>2, <3>3 DEF RevisionsCounted
  <2> QED BY <1>2, <2>1, <2>2, <2>3, <2>4 DEF HandlerStep
<1> QED BY <1>1, <1>2 DEF Next

-----------------------------------------------------------------------------
(* The consumer starts with nothing processed.                             *)
LEMMA ExportInitially == ExportInit => ExportInv
<1> SUFFICES ASSUME ExportInit PROVE ExportInv
  OBVIOUS
<1>1. Inv
  BY InvInitially DEF ExportInit
<1>2. MaxEvents \in Nat
  BY StoreAssumption
<1>3. RevisionsCounted
  BY DEF ExportInit, Init, NoRevisions, RevisionsCounted
<1> QED BY <1>1, <1>2, <1>3 DEF ExportInit, Init, ExportInv, ExportTypeOK, PagesHold,
                          CursorSkipsNothing, NoRevisions, Inv

(* A new revision lies above the cursor and above every page.              *)
LEMMA StorePart ==
    ASSUME ExportInv, Next, UNCHANGED consumer
    PROVE  ExportInv'
<1>1. Inv' /\ RevisionsCounted'
  BY InvStep, CountedStep DEF ExportInv
<1>2. ExportTypeOK'
  BY <1>1 DEF ExportInv, ExportTypeOK, consumer, Inv
<1>3. DOMAIN revisions \subseteq Nat \ {0} /\ Events \subseteq Nat \ {0}
  BY DEF ExportInv, ExportTypeOK, TypeOK, Events
<1>4. CASE revisions' = revisions
  BY <1>1, <1>2, <1>4 DEF ExportInv, PagesHold, CursorSkipsNothing, consumer
<1>5. CASE \E d \in Events :
              /\ DOMAIN revisions' = DOMAIN revisions \cup {d}
              /\ \A e \in DOMAIN revisions : e < d
  <2>1. PICK d \in Events :
            /\ DOMAIN revisions' = DOMAIN revisions \cup {d}
            /\ \A e \in DOMAIN revisions : e < d
    BY <1>5
  <2>2. cursor < d /\ (\A e \in page : e < d) /\ (\A e \in processed : e < d)
    BY <1>3, <2>1 DEF ExportInv, PagesHold
  <2>3. PagesHold'
    <3>1. /\ \A e \in page : ~(d <= e)
          /\ \A e \in processed : ~(d < e)
          /\ page \subseteq DOMAIN revisions /\ processed \subseteq DOMAIN revisions
      BY <1>3, <2>1, <2>2 DEF ExportInv, PagesHold
    <3> QED BY <2>1, <3>1 DEF ExportInv, PagesHold, consumer
  <2>4. CursorSkipsNothing'
    BY <1>3, <2>1, <2>2 DEF ExportInv, PagesHold, CursorSkipsNothing, consumer
  <2> QED BY <1>1, <1>2, <2>3, <2>4 DEF ExportInv
<1> QED BY <1>4, <1>5, StoreAppends DEF ExportInv

(* Reading a page keeps the invariant of the export.                       *)
LEMMA PagePart ==
    ASSUME ExportInv, ExportPage
    PROVE  ExportInv'
<1>1. Inv' /\ RevisionsCounted' /\ TypeOK' /\ UNCHANGED <<revisions, cursor, processed>>
  BY InvStep, CountedStep DEF ExportInv, ExportPage, vars, Inv
<1>2. cursor \in Nat /\ page' \subseteq DOMAIN revisions
  <2>1. cursor \in Nat /\ page \subseteq DOMAIN revisions
    BY DEF ExportInv, ExportTypeOK, PagesHold
  <2>2. PageAfter(cursor) \subseteq DOMAIN revisions
    BY DEF PageAfter, After
  <2>3. page' = page \/ page' = PageAfter(cursor)
    BY DEF ExportPage
  <2> QED BY <2>1, <2>2, <2>3
<1>3. ExportTypeOK'
  BY <1>1, <1>2 DEF ExportInv, ExportTypeOK, ExportPage, TypeOK
<1>4. \A e \in page', f \in DOMAIN revisions : cursor < f /\ f <= e => f \in page'
  <2>1. CASE page' = page
    BY <2>1 DEF ExportInv, PagesHold
  <2>2. CASE page' = PageAfter(cursor)
    BY <1>2, <2>2, PageHasNoGaps DEF ExportInv, ExportTypeOK, After
  <2> QED BY <2>1, <2>2 DEF ExportPage
<1>5. PagesHold'
  BY <1>1, <1>2, <1>4 DEF ExportInv, PagesHold, ExportPage
<1> QED BY <1>1, <1>3, <1>5 DEF ExportInv, CursorSkipsNothing

(* Persisting the cursor keeps the invariant of the export.                *)
LEMMA PersistPart ==
    ASSUME ExportInv, ConsumerPersist
    PROVE  ExportInv'
<1>1. Inv' /\ RevisionsCounted' /\ TypeOK' /\ UNCHANGED <<revisions, processed>>
  BY InvStep, CountedStep DEF ExportInv, ConsumerPersist, vars, Inv
<1>2. page \subseteq DOMAIN revisions /\ page \subseteq 1 .. MaxEvents /\ page \subseteq processed
  BY DEF ExportInv, ExportTypeOK, PagesHold, ConsumerPersist, Events
<1>3. CASE page = {}
  BY <1>1, <1>3
     DEF ExportInv, ExportTypeOK, PagesHold, CursorSkipsNothing, ConsumerPersist, EndSession,
         NextCursor
<1>4. CASE page # {}
  <2>1. \E m \in page : \A f \in page : f <= m
    <3>1. page \in SUBSET Nat /\ MaxEvents \in Nat /\ \A e \in page : e <= MaxEvents
      BY <1>2, StoreAssumption
    <3> QED BY <1>4, <3>1, Greatest
  <2>2. cursor' \in page /\ \A f \in page : f <= cursor'
    BY <1>4, <2>1 DEF ConsumerPersist, NextCursor
  <2>3. CursorSkipsNothing'
    <3> SUFFICES ASSUME NEW e \in DOMAIN revisions, e <= cursor' PROVE e \in processed
      BY <1>1 DEF CursorSkipsNothing
    <3>1. CASE e <= cursor
      BY <3>1 DEF ExportInv, CursorSkipsNothing
    <3>2. CASE cursor < e
      BY <1>2, <2>2, <3>2 DEF ExportInv, PagesHold
    <3>3. e \in Nat /\ cursor \in Nat
      BY DEF ExportInv, ExportTypeOK, TypeOK, Events
    <3> QED BY <3>1, <3>2, <3>3
  <2>4. PagesHold'
    BY <1>1, <1>2, <2>2 DEF ExportInv, PagesHold, ConsumerPersist, EndSession
  <2>5. ExportTypeOK'
    BY <1>1, <1>2, <2>2 DEF ExportInv, ExportTypeOK, ConsumerPersist, EndSession
  <2> QED BY <1>1, <2>3, <2>4, <2>5 DEF ExportInv
<1> QED BY <1>3, <1>4

(* What is processed stays a prefix of the log.                            *)
LEMMA ProcessPart ==
    ASSUME ExportInv, ConsumerProcess
    PROVE  ExportInv'
<1>1. Inv' /\ RevisionsCounted' /\ TypeOK' /\ UNCHANGED <<revisions, page, cursor>>
  BY InvStep, CountedStep DEF ExportInv, ConsumerProcess, vars, Inv
<1>2. processed' = processed \cup page /\ session' = "processed"
  BY DEF ConsumerProcess
<1>3. /\ DOMAIN revisions \subseteq Nat /\ cursor \in Nat
      /\ page \subseteq DOMAIN revisions
  BY DEF ExportInv, ExportTypeOK, TypeOK, PagesHold, Events
<1>4. ASSUME NEW e \in page, NEW f \in DOMAIN revisions, f < e
      PROVE  f \in processed'
  <2>1. CASE f <= cursor
    BY <1>2, <2>1 DEF ExportInv, CursorSkipsNothing
  <2>2. CASE cursor < f
    BY <1>2, <1>3, <1>4, <2>2 DEF ExportInv, PagesHold
  <2> QED BY <1>3, <2>1, <2>2
<1>5. PagesHold'
  BY <1>1, <1>2, <1>4 DEF ExportInv, PagesHold
<1>6. ExportTypeOK'
  BY <1>1, <1>2 DEF ExportInv, ExportTypeOK, ConsumerProcess
<1> QED BY <1>1, <1>2, <1>5, <1>6 DEF ExportInv, CursorSkipsNothing

(* Events become visible in the order of their ids and pages have no gaps, *)
(* so a persisted cursor never passes a revision that was not processed.   *)
THEOREM ExportInvariant == ExportSpec => []ExportInv
<1>1. ASSUME ExportInv, ExportNext PROVE ExportInv'
  <2>1. CASE Next /\ UNCHANGED consumer
    BY <1>1, <2>1, StorePart
  <2>2. CASE ExportPage
    BY <1>1, <2>2, PagePart
  <2>3. CASE ConsumerPersist
    BY <1>1, <2>3, PersistPart
  <2>4. CASE ConsumerProcess
    BY <1>1, <2>4, ProcessPart
  <2>5. CASE ExportCatalog \/ ConsumerCrash
    <3>1. Inv' /\ RevisionsCounted' /\ TypeOK' /\ UNCHANGED revisions
      BY <1>1, <2>5, InvStep, CountedStep
         DEF ExportInv, ExportCatalog, ConsumerCrash, vars, Inv
    <3>2. DOMAIN catalog \subseteq Ids
      BY <1>1 DEF ExportInv, Inv, TypeOK, CatalogOK
    <3> QED BY <1>1, <2>5, <3>1, <3>2
            DEF ExportInv, ExportTypeOK, PagesHold, CursorSkipsNothing, ExportCatalog,
                ConsumerCrash, EndSession
  <2> QED BY <1>1, <2>1, <2>2, <2>3, <2>4, <2>5 DEF ExportNext, ConsumerStep
<1>2. ASSUME ExportInv, UNCHANGED exportVars PROVE ExportInv'
  <2>1. Inv' /\ RevisionsCounted' /\ TypeOK' /\ UNCHANGED <<revisions, consumer>>
    BY <1>2, InvStep, CountedStep DEF ExportInv, exportVars, vars, Inv
  <2> QED BY <1>2, <2>1
          DEF ExportInv, ExportTypeOK, PagesHold, CursorSkipsNothing, consumer
<1> QED BY <1>1, <1>2, ExportInitially, PTL DEF ExportSpec

(* The cursor contract of README.md:570.                                   *)
THEOREM CursorIsSafe == ExportSpec => []CursorSkipsNothing
<1>1. ExportInv => CursorSkipsNothing
  BY DEF ExportInv
<1> QED BY <1>1, ExportInvariant, PTL

(* The consumer's state keeps its type.                                    *)
THEOREM ExportTypeCorrect == ExportSpec => []ExportTypeOK
<1>1. ExportInv => ExportTypeOK
  BY DEF ExportInv
<1> QED BY <1>1, ExportInvariant, PTL

-----------------------------------------------------------------------------
(* The two instances of Cardinality are the same operator.                 *)
LEMMA SameCardinality == \A S : Log!Cardinality(S) = Cardinality(S)
BY DEF Log!Cardinality, Cardinality

(* A commit appends to the log, with the next number of its item.          *)
LEMMA CommitAppends ==
    ASSUME Inv, RevisionsCounted, NEW h \in Handlers, CommitDecision(h), UNCHANGED processed
    PROVE  Log!Append
<1>0. PICK d, r : d = draft[h].event /\ r = draft[h].row
  OBVIOUS
<1>1. /\ revisions' = [f \in DOMAIN revisions \cup {d} |-> IF f = d THEN r ELSE revisions[f]]
      /\ step[h] = "inserted"
  BY <1>0 DEF CommitDecision
<1>2. /\ \A f \in DOMAIN revisions : f < d /\ f # d
      /\ r.revision = Cardinality(DecisionsOn(r.item)) + 1
  BY <1>0, <1>1 DEF Inv, DraftsHold, RevisionsCounted, TypeOK, Events
<1>3. /\ d \in DOMAIN revisions'
      /\ DOMAIN revisions' = DOMAIN revisions \cup {d}
      /\ revisions'[d] = r
      /\ \A f \in DOMAIN revisions : f < d /\ revisions'[f] = revisions[f]
  BY <1>1, <1>2
<1>4. Log!DecisionsOn(r.item) = DecisionsOn(r.item)
  BY DEF Log!DecisionsOn, DecisionsOn
<1>5. revisions'[d].revision = Cardinality(Log!DecisionsOn(revisions'[d].item)) + 1
  BY <1>2, <1>3, <1>4
<1> QED BY <1>3, <1>5, SameCardinality DEF Log!Append

(* Other transactions leave the log alone.                                 *)
LEMMA OthersKeepLog ==
    ASSUME NEW h \in Handlers, HandlerStep(h), ~CommitDecision(h)
    PROVE  UNCHANGED revisions
BY DEF HandlerStep, Lock, Rollback, Decide, Insert, Refresh, Attach, WriteCatalog,
       CommitCatalog, SetStatus, queue

(* The export is the append-only log of README.md:563: revisions are added *)
(* at its end, numbered per item, and processed in order without gaps.     *)
THEOREM LogRefinement == ExportSpec => ImplementsLog
<1>1. ExportInit => Log!Init
  BY DEF ExportInit, Init, NoRevisions, Log!Init
<1>2. ASSUME ExportInv, ExportInv', [ExportNext]_exportVars
      PROVE  [Log!Next]_<<revisions, processed>>
  <2>1. ASSUME NEW h \in Handlers, HandlerStep(h), UNCHANGED consumer
        PROVE  Log!Append \/ UNCHANGED <<revisions, processed>>
    <3>1. UNCHANGED processed
      BY <2>1 DEF consumer
    <3> QED BY <1>2, <2>1, <3>1, CommitAppends, OthersKeepLog DEF ExportInv
  <2>2. CASE ConsumerProcess
    <3>1. UNCHANGED revisions /\ processed \subseteq processed'
      BY <2>2 DEF ConsumerProcess, vars
    <3>2. processed' \subseteq DOMAIN revisions
      BY <1>2, <3>1 DEF ExportInv, PagesHold
    <3>3. \A e \in processed', f \in DOMAIN revisions : f < e => f \in processed'
      BY <1>2, <3>1 DEF ExportInv, PagesHold
    <3> QED BY <3>1, <3>2, <3>3 DEF Log!Next, Log!Process
  <2>3. CASE ExportCatalog \/ ExportPage \/ ConsumerPersist \/ ConsumerCrash
    BY <2>3 DEF ExportCatalog, ExportPage, ConsumerPersist, ConsumerCrash, vars
  <2>4. CASE UNCHANGED exportVars
    BY <2>4 DEF exportVars, vars, consumer
  <2>5. CASE Next /\ UNCHANGED consumer
    BY <2>1, <2>5 DEF Next, Log!Next
  <2> QED BY <1>2, <2>2, <2>3, <2>4, <2>5 DEF ExportNext, ConsumerStep
<1> QED BY <1>1, <1>2, ExportInvariant, PTL DEF ExportSpec, ImplementsLog, Log!Spec
=============================================================================
