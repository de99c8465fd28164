------------------------ MODULE TriageCatalog_proofs ------------------------
(***************************************************************************)
(* Proofs about TriageCatalog for any ids, paths and hashes: catalogs stay *)
(* well formed, no two current items share a path, and a refresh does what *)
(* the documentation's table of freshness states says.                     *)
(***************************************************************************)
EXTENDS TriageCatalog, TriageReconcile_proofs, TLAPS

-----------------------------------------------------------------------------
(* Creating, refreshing and attaching keep a catalog well formed and its   *)
(* current paths distinct.                                                 *)
LEMMA CatalogStep ==
    ASSUME TypeOK, PathsDistinct, [Next]_catalog
    PROVE  TypeOK' /\ PathsDistinct'
<1>1. ASSUME NEW obs \in Imports, Create(obs)
      PROVE  TypeOK' /\ PathsDistinct'
  <2>1. \A i \in DOMAIN obs :
            /\ Fresh(obs[i].path, obs[i].hash) \in Item
            /\ Fresh(obs[i].path, obs[i].hash).state = "current"
            /\ Fresh(obs[i].path, obs[i].hash).candidates = {}
            /\ Fresh(obs[i].path, obs[i].hash).path = obs[i].path
    BY ImportType DEF Fresh, Item
  <2>2. catalog' = [i \in DOMAIN obs |-> Fresh(obs[i].path, obs[i].hash)]
    BY <1>1 DEF Create
  <2>3. TypeOK'
    BY <2>1, <2>2, ImportType DEF TypeOK, CatalogOK
  <2>4. PathsDistinct'
    BY <2>1, <2>2, ImportType DEF PathsDistinct, OneItemPerPath, ImportOK, Inline
  <2> QED BY <2>3, <2>4
<1>2. ASSUME NEW obs \in Imports, Refresh(obs)
      PROVE  TypeOK' /\ PathsDistinct'
  BY <1>2, RefreshType, RefreshPaths DEF Refresh, TypeOK, PathsDistinct
<1>3. ASSUME NEW i \in Ids, NEW p \in Paths, Attach(i, p)
      PROVE  TypeOK' /\ PathsDistinct'
  BY <1>3, AttachKeeps DEF Attach, TypeOK, PathsDistinct
<1>4. CASE UNCHANGED catalog
  BY <1>4 DEF TypeOK, PathsDistinct
<1> QED
  BY <1>1, <1>2, <1>3, <1>4 DEF Next

(* Over any sequence of imports and attachments the catalog is well formed *)
(* and no two current items stand for one file (store.rs:636).             *)
THEOREM CatalogInvariant == Spec => [](TypeOK /\ PathsDistinct)
<1>1. Init => TypeOK /\ PathsDistinct
  BY DEF Init, NoCatalog, TypeOK, PathsDistinct, CatalogOK, OneItemPerPath
<1>2. (TypeOK /\ PathsDistinct) /\ [Next]_catalog => (TypeOK /\ PathsDistinct)'
  BY CatalogStep
<1> QED
  BY <1>1, <1>2, PTL DEF Spec

(* PathsDistinct by itself.                                                *)
THEOREM CurrentPathsDistinct == Spec => []PathsDistinct
BY CatalogInvariant, PTL

-----------------------------------------------------------------------------
(* On a well-formed catalog a refresh follows the documented table.        *)
LEMMA RefreshFollowsTable ==
    ASSUME TypeOK, NEW obs \in Imports, NEW i \in DOMAIN catalog, ~Inline(catalog[i])
    PROVE  /\ Refreshed(catalog, obs)[i].state = Documented(obs, i)
           /\ Refreshed(catalog, obs)[i].hash = catalog[i].hash
<1> SUFFICES ASSUME NEW x, x = Refreshed(catalog, obs)[i]
             PROVE  x.state = Documented(obs, i) /\ x.hash = catalog[i].hash
  OBVIOUS
<1> DEFINE h == catalog[i].hash
<1>1. catalog[i] \in Item
  BY DEF TypeOK, CatalogOK
<1>2. Bytes(obs, h) = Found(catalog, obs, h) /\ Gone(obs, h) = Lost(catalog, obs, h)
  BY DEF Bytes, Gone, Found, Lost, Unknown, Unseen
<1>3. CASE i \in DOMAIN obs /\ obs[i].hash = h
  <2>1. x = Fresh(obs[i].path, obs[i].hash)
    BY <1>3, RefreshedItem DEF SeenById
  <2>2. Documented(obs, i) = "current"
    BY <1>3 DEF Documented
  <2> QED BY <2>1, <2>2, <1>3 DEF Fresh
<1>4. CASE i \in DOMAIN obs /\ obs[i].hash # h
  <2>1. x = Stale(catalog[i], "content_changed", {})
    BY <1>4, RefreshedItem DEF SeenById
  <2>2. Documented(obs, i) = "content_changed"
    BY <1>4 DEF Documented
  <2> QED BY <2>1, <2>2, <1>1, StaleItem
<1>5. CASE i \notin DOMAIN obs
  <2>1. x = NotSeen(catalog, obs, i) /\ i \in Unseen(catalog, obs)
    BY <1>5, RefreshedItem DEF Unseen
  <2>2. HashMoved(catalog, obs, i) <=>
          \E o \in DOMAIN obs : Bytes(obs, h) = {o} /\ Gone(obs, h) = {i}
    BY <2>1, <1>2 DEF HashMoved
  <2>3. CASE HashMoved(catalog, obs, i)
    <3>1. x = Fresh(obs[MovedTo(catalog, obs, i)].path, h)
      BY <2>1, <2>3, NotSeenCases
    <3>2. Bytes(obs, h) # {}
      BY <2>2, <2>3
    <3>3. Documented(obs, i) = "current"
      BY <1>5, <2>2, <2>3, <3>2 DEF Documented
    <3> QED BY <3>1, <3>3 DEF Fresh
  <2>4. CASE ~HashMoved(catalog, obs, i) /\ Found(catalog, obs, h) # {}
    <3>1. PICK paths : NotSeen(catalog, obs, i) = Stale(catalog[i], "ambiguous", paths)
      BY <2>4 DEF NotSeen
    <3>2. Bytes(obs, h) # {} /\ ~\E o \in DOMAIN obs : Bytes(obs, h) = {o} /\ Gone(obs, h) = {i}
      BY <1>2, <2>2, <2>4
    <3>3. Documented(obs, i) = "ambiguous"
      BY <1>5, <3>2 DEF Documented
    <3> QED BY <2>1, <3>1, <3>3, <1>1 DEF Stale, Item
  <2>5. CASE ~HashMoved(catalog, obs, i) /\ Found(catalog, obs, h) = {}
    <3>1. x = Stale(catalog[i], "missing", {})
      BY <2>1, <2>5, NotSeenCases
    <3>2. Documented(obs, i) = "missing"
      BY <1>2, <1>5, <2>5 DEF Documented
    <3> QED BY <3>1, <3>2, <1>1, StaleItem
  <2> QED BY <2>3, <2>4, <2>5
<1> QED BY <1>3, <1>4, <1>5

(* Whatever was imported and attached before, every refresh gives each     *)
(* path item the freshness state of README.md:601 and keeps its snapshot.  *)
THEOREM RefreshMatchesReadme == Spec => []RefreshAsDocumented
<1>1. TypeOK => RefreshAsDocumented
  BY RefreshFollowsTable DEF RefreshAsDocumented
<1> QED
  BY <1>1, CatalogInvariant, PTL

-----------------------------------------------------------------------------
(* No refresh loses a source, whatever was imported before: reconcile's    *)
(* matching by id, by hash and by elimination is exhaustive and exclusive. *)
THEOREM EverySourceHasAPlace == Spec => []NoSourceLost
<1>1. ASSUME TypeOK
      PROVE  NoSourceLost
  <2>1. ASSUME NEW obs \in Imports, Accepted(catalog, obs),
               NEW o \in DOMAIN obs, ~Inline(obs[o]),
               NEW new, new = Refreshed(catalog, obs)
        PROVE  \/ \E i \in Ids : /\ Owners(new, obs, o) = {i}
                                 /\ Waiting(new, obs, o) = {} /\ ChangedAt(new, o) = {}
               \/ /\ Owners(new, obs, o) = {}
                  /\ (Waiting(new, obs, o) # {}) # (ChangedAt(new, o) # {})
    BY <1>1, <2>1, SourceKept DEF TypeOK, Accepted
  <2> QED BY <2>1 DEF NoSourceLost, Owners, Waiting, ChangedAt
<1> QED BY <1>1, CatalogInvariant, PTL

(* Importing the same sources again changes nothing: reconcile is          *)
(* idempotent on every catalog it produced, moves and copies included.     *)
THEOREM RefreshIsIdempotent == Spec => []RefreshSettles
<1>1. TypeOK => RefreshSettles
  BY RefreshTwice, RefreshTwiceAccepted DEF TypeOK, Accepted, RefreshSettles
<1> QED BY <1>1, CatalogInvariant, PTL
=============================================================================
