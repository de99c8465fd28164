------------------------ MODULE TriageReconcile_proofs ------------------------
(***************************************************************************)
(* What a refresh and an attachment make of any well-formed catalog.       *)
(***************************************************************************)
EXTENDS TriageReconcile, TLAPS

(* An import gives every id a source.                                      *)
LEMMA ImportType ==
    ASSUME NEW obs \in Imports
    PROVE  /\ DOMAIN obs \subseteq Ids
           /\ \A i \in DOMAIN obs : obs[i].path \in Paths \cup {None} /\ obs[i].hash \in Hashes
           /\ \A i \in DOMAIN obs : ~Inline(obs[i]) => obs[i].path \in Paths
           /\ ImportOK(obs)
<1>1. PICK S \in SUBSET Ids : obs \in [S -> Source]
  BY DEF Imports
<1>2. ImportOK(obs)
  BY DEF Imports
<1>3. DOMAIN obs = S /\ \A i \in S : obs[i] \in Source
  BY <1>1
<1> QED
  BY <1>1, <1>2, <1>3 DEF Source, Inline

(* The source a moved item went to exists, is the only one with its bytes, *)
(* and no other item moves to it.                                          *)
LEMMA MoveTarget ==
    ASSUME NEW cat, NEW obs, NEW i, HashMoved(cat, obs, i)
    PROVE  /\ i \in DOMAIN cat /\ i \notin DOMAIN obs /\ ~Inline(cat[i])
           /\ MovedTo(cat, obs, i) \in DOMAIN obs \ DOMAIN cat
           /\ ~Inline(obs[MovedTo(cat, obs, i)])
           /\ obs[MovedTo(cat, obs, i)].hash = cat[i].hash
           /\ MovedTo(cat, obs, i) \notin Added(cat, obs)
           /\ \A j : HashMoved(cat, obs, j) /\ MovedTo(cat, obs, j) = MovedTo(cat, obs, i) => j = i
<1>1. \A j : HashMoved(cat, obs, j) =>
          /\ MovedTo(cat, obs, j) \in DOMAIN obs
          /\ MovedTo(cat, obs, j) \in Found(cat, obs, cat[j].hash)
          /\ Lost(cat, obs, cat[j].hash) = {j}
          /\ j \in Unseen(cat, obs)
  BY DEF HashMoved, MovedTo
<1>2. \A j : HashMoved(cat, obs, j) =>
          /\ MovedTo(cat, obs, j) \in Unknown(cat, obs)
          /\ obs[MovedTo(cat, obs, j)].hash = cat[j].hash
  BY <1>1 DEF Found
<1>3. MovedTo(cat, obs, i) \notin Added(cat, obs)
  BY <1>1, <1>2 DEF Added, Unknown
<1>4. ASSUME NEW j, HashMoved(cat, obs, j), MovedTo(cat, obs, j) = MovedTo(cat, obs, i)
      PROVE  j = i
  <2>1. cat[j].hash = cat[i].hash
    BY <1>2, <1>4
  <2>2. Lost(cat, obs, cat[j].hash) = {i}
    BY <1>1, <2>1
  <2>3. Lost(cat, obs, cat[j].hash) = {j}
    BY <1>1, <1>4
  <2> QED BY <2>2, <2>3
<1> QED
  BY <1>1, <1>2, <1>3, <1>4 DEF Unseen, Unknown

(* Refreshed item by item.                                                 *)
LEMMA RefreshedItem ==
    ASSUME NEW cat, NEW obs
    PROVE  /\ DOMAIN Refreshed(cat, obs) = DOMAIN cat \cup Added(cat, obs)
           /\ \A i \in DOMAIN cat :
                i \in DOMAIN obs => Refreshed(cat, obs)[i] = SeenById(cat, obs, i)
           /\ \A i \in DOMAIN cat :
                i \notin DOMAIN obs => Refreshed(cat, obs)[i] = NotSeen(cat, obs, i)
           /\ \A i \in Added(cat, obs) :
                Refreshed(cat, obs)[i] = Fresh(obs[i].path, obs[i].hash)
           /\ Added(cat, obs) \subseteq DOMAIN obs \ DOMAIN cat
<1>1. Added(cat, obs) \subseteq DOMAIN obs \ DOMAIN cat
  BY DEF Added
<1> QED
  BY <1>1 DEF Refreshed

-----------------------------------------------------------------------------
(* An unobserved item, case by case.                                       *)
LEMMA NotSeenCases ==
    ASSUME NEW cat, NEW obs, NEW i
    PROVE  LET copies == Found(cat, obs, cat[i].hash) IN
           /\ HashMoved(cat, obs, i) =>
                NotSeen(cat, obs, i) = Fresh(obs[MovedTo(cat, obs, i)].path, cat[i].hash)
           /\ ~HashMoved(cat, obs, i) /\ ~Inline(cat[i]) /\ copies # {} =>
                NotSeen(cat, obs, i) = Stale(cat[i], "ambiguous", {obs[o].path : o \in copies})
           /\ ~HashMoved(cat, obs, i) /\ (Inline(cat[i]) \/ copies = {}) =>
                NotSeen(cat, obs, i) = Stale(cat[i], "missing", {})
BY DEF NotSeen

(* A stale copy of an item is an item.                                     *)
LEMMA StaleItem ==
    ASSUME NEW item \in Item,
           NEW state \in {"missing", "content_changed", "ambiguous"},
           NEW candidates \in SUBSET Paths
    PROVE  /\ Stale(item, state, candidates) \in Item
           /\ Stale(item, state, candidates).state = state
           /\ Stale(item, state, candidates).hash = item.hash
           /\ Stale(item, state, candidates).path = item.path
           /\ Stale(item, state, candidates).candidates = candidates
BY DEF Stale, Item

(* A refresh of a well-formed catalog from an import is well formed.       *)
ItemOK(x) == x \in Item /\ (x.state = "ambiguous" <=> x.candidates # {})

(* An item added by an import is well formed.                              *)
LEMMA FreshItem ==
    ASSUME NEW p \in Paths \cup {None}, NEW h \in Hashes
    PROVE  /\ ItemOK(Fresh(p, h)) /\ Fresh(p, h).path = p
           /\ Fresh(p, h).state = "current" /\ Fresh(p, h).hash = h
BY DEF ItemOK, Fresh, Item

(* A refresh leaves the catalog well formed.                               *)
LEMMA RefreshType ==
    ASSUME NEW cat, CatalogOK(cat), NEW obs \in Imports
    PROVE  CatalogOK(Refreshed(cat, obs))
<1> SUFFICES ASSUME NEW new, new = Refreshed(cat, obs)
             PROVE  CatalogOK(new)
  OBVIOUS
<1>1. /\ DOMAIN new = DOMAIN cat \cup Added(cat, obs)
      /\ \A i \in DOMAIN cat : i \in DOMAIN obs => new[i] = SeenById(cat, obs, i)
      /\ \A i \in DOMAIN cat : i \notin DOMAIN obs => new[i] = NotSeen(cat, obs, i)
      /\ \A i \in Added(cat, obs) : new[i] = Fresh(obs[i].path, obs[i].hash)
      /\ Added(cat, obs) \subseteq DOMAIN obs \ DOMAIN cat
  BY RefreshedItem
<1>2. /\ DOMAIN obs \subseteq Ids
      /\ \A i \in DOMAIN obs : ItemOK(Fresh(obs[i].path, obs[i].hash))
      /\ \A o \in DOMAIN obs : ~Inline(obs[o]) => obs[o].path \in Paths
  BY ImportType, FreshItem
<1>3. ASSUME NEW i \in DOMAIN cat, i \in DOMAIN obs
      PROVE  ItemOK(new[i])
  <2>1. cat[i] \in Item
    BY DEF CatalogOK
  <2>2. new[i] = Fresh(obs[i].path, obs[i].hash) \/ new[i] = Stale(cat[i], "content_changed", {})
    BY <1>1, <1>3 DEF SeenById
  <2>3. ItemOK(Stale(cat[i], "content_changed", {}))
    BY <2>1, StaleItem DEF ItemOK
  <2> QED BY <2>2, <2>3, <1>2, <1>3
<1>4. ASSUME NEW i \in DOMAIN cat, i \notin DOMAIN obs
      PROVE  ItemOK(new[i])
  <2> DEFINE paths == {obs[o].path : o \in Found(cat, obs, cat[i].hash)}
  <2>1. cat[i] \in Item /\ cat[i].hash \in Hashes /\ new[i] = NotSeen(cat, obs, i)
    BY <1>1, <1>4 DEF CatalogOK, Item
  <2>2. \/ HashMoved(cat, obs, i) /\ new[i] = Fresh(obs[MovedTo(cat, obs, i)].path, cat[i].hash)
        \/ paths # {} /\ new[i] = Stale(cat[i], "ambiguous", paths)
        \/ new[i] = Stale(cat[i], "missing", {})
    BY <2>1, NotSeenCases
  <2>3. paths \in SUBSET Paths
    BY <1>2 DEF Found, Unknown
  <2>4. ItemOK(Stale(cat[i], "missing", {}))
    BY <2>1, StaleItem DEF ItemOK
  <2>5. paths # {} => ItemOK(Stale(cat[i], "ambiguous", paths))
    <3> HIDE DEF paths
    <3> QED BY <2>1, <2>3, StaleItem DEF ItemOK
  <2>6. ASSUME HashMoved(cat, obs, i)
        PROVE  ItemOK(Fresh(obs[MovedTo(cat, obs, i)].path, cat[i].hash))
    <3>1. obs[MovedTo(cat, obs, i)].path \in Paths
      BY <2>6, <1>2, MoveTarget
    <3> QED BY <3>1, <2>1, FreshItem
  <2> QED BY <2>2, <2>4, <2>5, <2>6
<1>5. ASSUME NEW i \in Added(cat, obs)
      PROVE  ItemOK(new[i])
  BY <1>1, <1>2
<1>6. DOMAIN new \subseteq Ids
  BY <1>1, <1>2 DEF CatalogOK
<1>7. \A i \in DOMAIN new : ItemOK(new[i])
  BY <1>1, <1>3, <1>4, <1>5
<1>8. new = [i \in DOMAIN new |-> new[i]]
  BY DEF Refreshed
<1> QED BY <1>6, <1>7, <1>8 DEF CatalogOK, ItemOK

(* Where a current item of a refreshed catalog has its path from: its own  *)
(* source, or the one it moved to; an item has one such source, and no     *)
(* source serves two items.                                                *)
LEMMA RefreshPaths ==
    ASSUME NEW cat, CatalogOK(cat), NEW obs \in Imports
    PROVE  OneItemPerPath(Refreshed(cat, obs))
<1> DEFINE new == Refreshed(cat, obs)
           src(i) == IF i \in DOMAIN obs THEN i ELSE MovedTo(cat, obs, i)
<1>0. /\ DOMAIN new = DOMAIN cat \cup Added(cat, obs)
      /\ \A i \in DOMAIN cat : i \in DOMAIN obs => new[i] = SeenById(cat, obs, i)
      /\ \A i \in DOMAIN cat : i \notin DOMAIN obs => new[i] = NotSeen(cat, obs, i)
      /\ \A i \in Added(cat, obs) : new[i] = Fresh(obs[i].path, obs[i].hash)
      /\ Added(cat, obs) \subseteq DOMAIN obs \ DOMAIN cat
  BY RefreshedItem
<1> HIDE DEF new
<1>1. ASSUME NEW i \in DOMAIN new, Current(new[i])
      PROVE  /\ src(i) \in DOMAIN obs /\ new[i].path = obs[src(i)].path
             /\ i \notin DOMAIN obs => HashMoved(cat, obs, i)
  <2>1. CASE i \in DOMAIN cat /\ i \in DOMAIN obs
    <3>1. new[i] = SeenById(cat, obs, i) /\ cat[i] \in Item
      BY <2>1, <1>0 DEF CatalogOK
    <3>2. new[i] = Fresh(obs[i].path, obs[i].hash) \/ new[i] = Stale(cat[i], "content_changed", {})
      BY <3>1 DEF SeenById
    <3>3. Stale(cat[i], "content_changed", {}).state = "content_changed"
      BY <3>1, StaleItem
    <3>4. new[i] = Fresh(obs[i].path, obs[i].hash)
      BY <1>1, <3>2, <3>3 DEF Current
    <3> QED BY <2>1, <3>4 DEF Fresh
  <2>2. CASE i \in DOMAIN cat /\ i \notin DOMAIN obs
    <3> DEFINE paths == {obs[o].path : o \in Found(cat, obs, cat[i].hash)}
    <3>1. new[i] = NotSeen(cat, obs, i) /\ cat[i] \in Item
      BY <2>2, <1>0 DEF CatalogOK
    <3>2. \/ HashMoved(cat, obs, i) /\ new[i] = Fresh(obs[MovedTo(cat, obs, i)].path, cat[i].hash)
          \/ new[i] = Stale(cat[i], "ambiguous", paths)
          \/ new[i] = Stale(cat[i], "missing", {})
      BY <3>1, NotSeenCases
    <3>3. paths \in SUBSET Paths
      BY ImportType DEF Found, Unknown
    <3> HIDE DEF paths
    <3>4. /\ Stale(cat[i], "ambiguous", paths).state = "ambiguous"
          /\ Stale(cat[i], "missing", {}).state = "missing"
      BY <3>1, <3>3, StaleItem
    <3>5. HashMoved(cat, obs, i) /\ new[i] = Fresh(obs[MovedTo(cat, obs, i)].path, cat[i].hash)
      BY <1>1, <3>2, <3>4 DEF Current
    <3>6. MovedTo(cat, obs, i) \in DOMAIN obs
      BY <3>5, MoveTarget
    <3>7. new[i].path = obs[MovedTo(cat, obs, i)].path
      BY <3>5 DEF Fresh
    <3> QED BY <2>2, <3>5, <3>6, <3>7
  <2>3. CASE i \in Added(cat, obs)
    BY <2>3, <1>0 DEF Fresh
  <2> QED BY <2>1, <2>2, <2>3, <1>0
<1>2. ASSUME NEW i \in DOMAIN new, NEW j \in DOMAIN new, i # j,
             Current(new[i]), Current(new[j]), ~Inline(new[i])
      PROVE  src(i) # src(j)
  <2>1. CASE i \in DOMAIN obs /\ j \in DOMAIN obs
    BY <2>1, <1>2
  <2>2. CASE i \notin DOMAIN obs /\ j \notin DOMAIN obs
    BY <2>2, <1>1, <1>2, MoveTarget
  <2>3. ASSUME NEW k \in DOMAIN new, NEW m \in DOMAIN new, Current(new[m]),
               k \in DOMAIN obs, m \notin DOMAIN obs
        PROVE  k # MovedTo(cat, obs, m)
    <3>1. HashMoved(cat, obs, m)
      BY <2>3, <1>1
    <3>2. /\ MovedTo(cat, obs, m) \in DOMAIN obs \ DOMAIN cat
          /\ MovedTo(cat, obs, m) \notin Added(cat, obs)
      BY <3>1, MoveTarget
    <3> QED BY <3>2, <2>3, <1>0
  <2>4. CASE (i \in DOMAIN obs) # (j \in DOMAIN obs)
    BY <2>4, <2>3, <1>2
  <2> QED BY <2>1, <2>2, <2>4
<1>3. ASSUME NEW i \in DOMAIN new, NEW j \in DOMAIN new, i # j,
             Current(new[i]), Current(new[j]), ~Inline(new[i])
      PROVE  new[i].path # new[j].path
  <2>1. src(i) \in DOMAIN obs /\ new[i].path = obs[src(i)].path
    BY <1>1, <1>3
  <2>2. src(j) \in DOMAIN obs /\ new[j].path = obs[src(j)].path
    BY <1>1, <1>3
  <2>3. src(i) # src(j)
    BY <1>2, <1>3
  <2>4. ~Inline(obs[src(i)])
    BY <2>1, <1>3 DEF Inline
  <2>5. ImportOK(obs)
    BY ImportType
  <2> HIDE DEF src, new
  <2> QED BY <2>1, <2>2, <2>3, <2>4, <2>5 DEF ImportOK
<1> QED
  BY <1>3 DEF OneItemPerPath, new

-----------------------------------------------------------------------------
(* A refresh keeps every item, its kind, and the bytes of path items.      *)
LEMMA RefreshKeeps ==
    ASSUME NEW cat, CatalogOK(cat), NEW obs \in Imports, ~KindChanged(cat, obs),
           NEW i \in DOMAIN cat
    PROVE  /\ i \in DOMAIN Refreshed(cat, obs)
           /\ Inline(Refreshed(cat, obs)[i]) <=> Inline(cat[i])
           /\ ~Inline(cat[i]) => Refreshed(cat, obs)[i].hash = cat[i].hash
<1>0. i \in DOMAIN Refreshed(cat, obs)
  <2>1. DOMAIN Refreshed(cat, obs) = DOMAIN cat \cup Added(cat, obs)
    BY RefreshedItem
  <2> QED BY <2>1
<1> SUFFICES ASSUME NEW x, x = Refreshed(cat, obs)[i]
             PROVE  /\ Inline(x) <=> Inline(cat[i])
                    /\ ~Inline(cat[i]) => x.hash = cat[i].hash
  BY <1>0
<1>1. cat[i] \in Item
  BY DEF CatalogOK
<1>2. CASE i \in DOMAIN obs
  <2>1. x = SeenById(cat, obs, i) /\ Inline(cat[i]) = Inline(obs[i])
    BY <1>2, RefreshedItem DEF KindChanged
  <2>2. \/ x = Fresh(obs[i].path, obs[i].hash) /\ (Inline(cat[i]) \/ cat[i].hash = obs[i].hash)
        \/ x = Stale(cat[i], "content_changed", {})
    BY <2>1 DEF SeenById
  <2> QED BY <2>1, <2>2, <1>1, StaleItem DEF Fresh, Inline
<1>3. CASE i \notin DOMAIN obs
  <2>1. x = NotSeen(cat, obs, i)
    BY <1>3, RefreshedItem
  <2>2. CASE HashMoved(cat, obs, i)
    <3>1. x = Fresh(obs[MovedTo(cat, obs, i)].path, cat[i].hash)
      BY <2>1, <2>2, NotSeenCases
    <3>2. ~Inline(cat[i]) /\ ~Inline(obs[MovedTo(cat, obs, i)])
      BY <2>2, MoveTarget
    <3> QED BY <3>1, <3>2 DEF Fresh, Inline
  <2>3. CASE ~HashMoved(cat, obs, i)
    <3>1. PICK state, paths : x = Stale(cat[i], state, paths)
      BY <2>1, <2>3 DEF NotSeen
    <3> QED BY <3>1, <1>1 DEF Stale, Inline, Item
  <2> QED BY <2>2, <2>3
<1> QED BY <1>2, <1>3

(* An attachment gives one item a free path and leaves the rest alone.     *)
LEMMA AttachKeeps ==
    ASSUME NEW cat, CatalogOK(cat), OneItemPerPath(cat),
           NEW i \in DOMAIN cat, NEW p \in Paths, CanAttach(cat, i, p, cat[i].hash)
    PROVE  /\ CatalogOK(Attached(cat, i, p)) /\ OneItemPerPath(Attached(cat, i, p))
           /\ DOMAIN Attached(cat, i, p) = DOMAIN cat
           /\ \A j \in DOMAIN cat :
                 /\ Attached(cat, i, p)[j].hash = cat[j].hash
                 /\ Inline(Attached(cat, i, p)[j]) <=> Inline(cat[j])
<1> SUFFICES ASSUME NEW new, new = Attached(cat, i, p)
             PROVE  /\ CatalogOK(new) /\ OneItemPerPath(new) /\ DOMAIN new = DOMAIN cat
                    /\ \A j \in DOMAIN cat :
                          new[j].hash = cat[j].hash /\ (Inline(new[j]) <=> Inline(cat[j]))
  OBVIOUS
<1>1. /\ PathFree(cat, i, p) /\ ~Inline(cat[i]) /\ p # None
      /\ new = [cat EXCEPT ![i] = Fresh(p, cat[i].hash)] /\ cat[i] \in Item
  BY DEF CanAttach, Attached, CatalogOK
<1>2. /\ Fresh(p, cat[i].hash) \in Item
      /\ Fresh(p, cat[i].hash).path = p
      /\ Fresh(p, cat[i].hash).hash = cat[i].hash
      /\ Fresh(p, cat[i].hash).state = "current"
      /\ Fresh(p, cat[i].hash).candidates = {}
  BY <1>1 DEF Fresh, Item
<1>3. CatalogOK(new)
  BY <1>1, <1>2 DEF CatalogOK
<1>4. OneItemPerPath(new)
  BY <1>1, <1>2 DEF OneItemPerPath, CatalogOK, PathFree, Current, Inline
<1>5. DOMAIN new = DOMAIN cat
  BY <1>1
<1>6. \A j \in DOMAIN cat :
          new[j].hash = cat[j].hash /\ (Inline(new[j]) <=> Inline(cat[j]))
  BY <1>1, <1>2 DEF CatalogOK, Inline
<1> QED BY <1>3, <1>4, <1>5, <1>6

-----------------------------------------------------------------------------
(* What a refresh makes of an item, one way or another.                    *)
Copies(cat, obs, i) == {obs[o].path : o \in Found(cat, obs, cat[i].hash)}

(* What becomes of an item whose id the import does not declare.           *)
LEMMA NotSeenWays ==
    ASSUME NEW cat, NEW obs, NEW i
    PROVE  \/ /\ HashMoved(cat, obs, i)
              /\ NotSeen(cat, obs, i) = Fresh(obs[MovedTo(cat, obs, i)].path, cat[i].hash)
           \/ /\ ~HashMoved(cat, obs, i) /\ ~Inline(cat[i])
              /\ Found(cat, obs, cat[i].hash) # {}
              /\ NotSeen(cat, obs, i) = Stale(cat[i], "ambiguous", Copies(cat, obs, i))
           \/ /\ ~HashMoved(cat, obs, i)
              /\ Inline(cat[i]) \/ Found(cat, obs, cat[i].hash) = {}
              /\ NotSeen(cat, obs, i) = Stale(cat[i], "missing", {})
<1>1. CASE HashMoved(cat, obs, i)
  BY <1>1, NotSeenCases
<1>2. CASE ~HashMoved(cat, obs, i) /\ ~Inline(cat[i]) /\ Found(cat, obs, cat[i].hash) # {}
  BY <1>2, NotSeenCases DEF Copies
<1>3. CASE ~HashMoved(cat, obs, i) /\ (Inline(cat[i]) \/ Found(cat, obs, cat[i].hash) = {})
  BY <1>3, NotSeenCases
<1> QED BY <1>1, <1>2, <1>3

(* The ways an item comes to its state after a refresh.                    *)
LEMMA RefreshedCases ==
    ASSUME NEW cat, NEW obs, NEW i \in DOMAIN Refreshed(cat, obs)
    PROVE  \/ /\ i \in DOMAIN obs /\ Refreshed(cat, obs)[i] = Fresh(obs[i].path, obs[i].hash)
              /\ \/ i \in Added(cat, obs)
                 \/ i \in DOMAIN cat /\ (Inline(cat[i]) \/ cat[i].hash = obs[i].hash)
           \/ /\ i \in DOMAIN cat /\ i \in DOMAIN obs
              /\ ~Inline(cat[i]) /\ cat[i].hash # obs[i].hash
              /\ Refreshed(cat, obs)[i] = Stale(cat[i], "content_changed", {})
           \/ /\ HashMoved(cat, obs, i) /\ i \in DOMAIN cat /\ i \notin DOMAIN obs
              /\ Refreshed(cat, obs)[i] = Fresh(obs[MovedTo(cat, obs, i)].path, cat[i].hash)
           \/ /\ i \in DOMAIN cat /\ i \notin DOMAIN obs
              /\ ~HashMoved(cat, obs, i) /\ ~Inline(cat[i])
              /\ Found(cat, obs, cat[i].hash) # {}
              /\ Refreshed(cat, obs)[i] = Stale(cat[i], "ambiguous", Copies(cat, obs, i))
           \/ /\ i \in DOMAIN cat /\ i \notin DOMAIN obs
              /\ ~HashMoved(cat, obs, i)
              /\ Inline(cat[i]) \/ Found(cat, obs, cat[i].hash) = {}
              /\ Refreshed(cat, obs)[i] = Stale(cat[i], "missing", {})
<1>1. DOMAIN Refreshed(cat, obs) = DOMAIN cat \cup Added(cat, obs)
  BY RefreshedItem
<1>2. CASE i \in Added(cat, obs)
  BY <1>2, RefreshedItem
<1>3. CASE i \in DOMAIN cat /\ i \in DOMAIN obs
  BY <1>3, RefreshedItem DEF SeenById
<1>4. CASE i \in DOMAIN cat /\ i \notin DOMAIN obs
  <2>1. Refreshed(cat, obs)[i] = NotSeen(cat, obs, i)
    BY <1>4, RefreshedItem
  <2> QED BY <1>4, <2>1, NotSeenWays
<1> QED BY <1>1, <1>2, <1>3, <1>4

(* The paths that an ambiguous item waits for are those of sources with    *)
(* its bytes and an unknown id.                                            *)
LEMMA CopiesArePaths ==
    ASSUME NEW cat, NEW obs \in Imports, NEW i
    PROVE  Copies(cat, obs, i) \in SUBSET Paths
BY ImportType DEF Copies, Found, Unknown

(* What the second of two equal imports finds: the items that were not     *)
(* seen, and the sources that moved one or wait for a decision.            *)
LEMMA NothingNewToMatch ==
    ASSUME NEW cat, CatalogOK(cat), NEW obs \in Imports, ~KindChanged(cat, obs),
           NEW new, new = Refreshed(cat, obs)
    PROVE  /\ Unseen(new, obs) = Unseen(cat, obs)
           /\ \A i \in Unseen(cat, obs) : new[i].hash = cat[i].hash
           /\ \A i \in Unseen(cat, obs) :
                 /\ Lost(new, obs, cat[i].hash) = Lost(cat, obs, cat[i].hash)
                 /\ Found(new, obs, cat[i].hash) = Found(cat, obs, cat[i].hash)
           /\ Added(new, obs) = {}
<1>1. /\ DOMAIN new = DOMAIN cat \cup Added(cat, obs)
      /\ Added(cat, obs) \subseteq DOMAIN obs \ DOMAIN cat
  BY RefreshedItem
<1>2. \A i \in DOMAIN cat : /\ Inline(new[i]) <=> Inline(cat[i])
                            /\ ~Inline(cat[i]) => new[i].hash = cat[i].hash
  BY RefreshKeeps
<1>3. Unseen(new, obs) = Unseen(cat, obs)
  BY <1>1, <1>2 DEF Unseen
<1>4. \A i \in Unseen(cat, obs) : new[i].hash = cat[i].hash
  BY <1>2 DEF Unseen
<1>5. \A h : Lost(new, obs, h) = Lost(cat, obs, h)
  BY <1>3, <1>4 DEF Lost
<1>6. \A o \in Unknown(cat, obs) :
          o \in Added(cat, obs) <=> Lost(cat, obs, obs[o].hash) = {}
  BY DEF Added, Unknown
<1>7. Unknown(new, obs) = Unknown(cat, obs) \ Added(cat, obs)
  BY <1>1 DEF Unknown
<1>8. ASSUME NEW i \in Unseen(cat, obs)
      PROVE  Found(new, obs, cat[i].hash) = Found(cat, obs, cat[i].hash)
  <2>1. i \in Lost(cat, obs, cat[i].hash)
    BY DEF Lost
  <2> QED BY <1>6, <1>7, <2>1 DEF Found
<1>9. ASSUME NEW o \in Added(new, obs)
      PROVE  FALSE
  <2>1. o \in DOMAIN obs \ DOMAIN cat /\ o \notin Added(cat, obs)
    BY <1>1 DEF Added
  <2>2. ~Inline(obs[o]) /\ Lost(cat, obs, obs[o].hash) # {}
    BY <2>1 DEF Added
  <2>3. Inline(obs[o]) \/ Lost(new, obs, obs[o].hash) = {}
    BY DEF Added
  <2> QED BY <1>5, <2>2, <2>3
<1> QED BY <1>3, <1>4, <1>5, <1>8, <1>9

(* A stale item that is found stale again in the same way stays as it is.  *)
LEMMA StaleAgain ==
    ASSUME NEW item \in Item,
           NEW state \in {"missing", "content_changed", "ambiguous"},
           NEW candidates \in SUBSET Paths
    PROVE  Stale(Stale(item, state, candidates), state, candidates)
             = Stale(item, state, candidates)
BY DEF Stale, Item

(* A second refresh from one import finds every item as the first left it. *)
LEMMA RefreshTwice ==
    ASSUME NEW cat, CatalogOK(cat), NEW obs \in Imports, ~KindChanged(cat, obs),
           NEW new, new = Refreshed(cat, obs)
    PROVE  Refreshed(new, obs) = new
<1>1. /\ Unseen(new, obs) = Unseen(cat, obs)
      /\ \A i \in Unseen(cat, obs) : new[i].hash = cat[i].hash
      /\ \A i \in Unseen(cat, obs) :
            /\ Lost(new, obs, cat[i].hash) = Lost(cat, obs, cat[i].hash)
            /\ Found(new, obs, cat[i].hash) = Found(cat, obs, cat[i].hash)
      /\ Added(new, obs) = {}
  BY NothingNewToMatch
<1>2. DOMAIN Refreshed(new, obs) = DOMAIN new
  BY <1>1, RefreshedItem
<1>3. ASSUME NEW i \in DOMAIN new
      PROVE  Refreshed(new, obs)[i] = new[i]
  <2>1. CASE i \in DOMAIN obs /\ new[i] = Fresh(obs[i].path, obs[i].hash)
    <3>1. new[i].hash = obs[i].hash
      BY <2>1 DEF Fresh
    <3>2. Refreshed(new, obs)[i] = SeenById(new, obs, i)
      BY <2>1, RefreshedItem
    <3> QED BY <2>1, <3>1, <3>2 DEF SeenById
  <2>2. CASE /\ i \in DOMAIN cat /\ i \in DOMAIN obs
             /\ ~Inline(cat[i]) /\ cat[i].hash # obs[i].hash
             /\ new[i] = Stale(cat[i], "content_changed", {})
    <3>1. cat[i] \in Item
      BY <2>2 DEF CatalogOK
    <3>2. new[i].hash = cat[i].hash /\ new[i].path = cat[i].path
      BY <2>2, <3>1, StaleItem
    <3>3. Refreshed(new, obs)[i] = SeenById(new, obs, i)
      BY <2>2, RefreshedItem
    <3>4. SeenById(new, obs, i) = Stale(new[i], "content_changed", {})
      BY <2>2, <3>2 DEF SeenById, Inline
    <3> QED BY <2>2, <3>1, <3>3, <3>4, StaleAgain
  <2>3. ASSUME i \in DOMAIN cat, i \notin DOMAIN obs, ~Inline(cat[i])
        PROVE  /\ HashMoved(new, obs, i) <=> HashMoved(cat, obs, i)
               /\ MovedTo(new, obs, i) = MovedTo(cat, obs, i)
               /\ new[i].hash = cat[i].hash /\ ~Inline(new[i])
               /\ Found(new, obs, new[i].hash) = Found(cat, obs, cat[i].hash)
    <3>1. i \in Unseen(cat, obs)
      BY <2>3 DEF Unseen
    <3>2. /\ new[i].hash = cat[i].hash
          /\ Found(new, obs, new[i].hash) = Found(cat, obs, cat[i].hash)
          /\ Lost(new, obs, new[i].hash) = Lost(cat, obs, cat[i].hash)
          /\ i \in Unseen(new, obs)
      BY <1>1, <3>1
    <3>3. HashMoved(new, obs, i) <=> HashMoved(cat, obs, i)
      BY <3>1, <3>2 DEF HashMoved
    <3>4. MovedTo(new, obs, i) = MovedTo(cat, obs, i)
      BY <3>2 DEF MovedTo
    <3> QED BY <3>2, <3>3, <3>4 DEF Unseen
  <2>4. i \in DOMAIN cat /\ i \notin DOMAIN obs => Refreshed(new, obs)[i] = NotSeen(new, obs, i)
    BY RefreshedItem
  <2>5. CASE /\ HashMoved(cat, obs, i) /\ i \in DOMAIN cat /\ i \notin DOMAIN obs
             /\ new[i] = Fresh(obs[MovedTo(cat, obs, i)].path, cat[i].hash)
    <3>1. ~Inline(cat[i])
      BY <2>5, MoveTarget
    <3>2. HashMoved(new, obs, i)
      BY <2>3, <2>5, <3>1
    <3>3. NotSeen(new, obs, i) = Fresh(obs[MovedTo(new, obs, i)].path, new[i].hash)
      BY <3>2, NotSeenWays
    <3> QED BY <2>3, <2>4, <2>5, <3>1, <3>3
  <2>6. CASE /\ i \in DOMAIN cat /\ i \notin DOMAIN obs
             /\ ~HashMoved(cat, obs, i) /\ ~Inline(cat[i])
             /\ Found(cat, obs, cat[i].hash) # {}
             /\ new[i] = Stale(cat[i], "ambiguous", Copies(cat, obs, i))
    <3>1. cat[i] \in Item
      BY <2>6 DEF CatalogOK
    <3>2. Copies(new, obs, i) = Copies(cat, obs, i)
      BY <2>3, <2>6 DEF Copies
    <3>3. ~HashMoved(new, obs, i) /\ ~Inline(new[i]) /\ Found(new, obs, new[i].hash) # {}
      BY <2>3, <2>6
    <3>4. NotSeen(new, obs, i) = Stale(new[i], "ambiguous", Copies(new, obs, i))
      BY <3>3, NotSeenWays
    <3> QED BY <2>4, <2>6, <3>1, <3>2, <3>4, StaleAgain, CopiesArePaths
  <2>7. CASE /\ i \in DOMAIN cat /\ i \notin DOMAIN obs
             /\ ~HashMoved(cat, obs, i)
             /\ Inline(cat[i]) \/ Found(cat, obs, cat[i].hash) = {}
             /\ new[i] = Stale(cat[i], "missing", {})
    <3>1. cat[i] \in Item
      BY <2>7 DEF CatalogOK
    <3>2. CASE Inline(cat[i])
      <4>1. Inline(new[i])
        BY <2>7, <3>1, <3>2, StaleItem DEF Inline
      <4>2. ~HashMoved(new, obs, i)
        BY <4>1 DEF HashMoved, Unseen
      <4>3. NotSeen(new, obs, i) = Stale(new[i], "missing", {})
        BY <4>1, <4>2, NotSeenCases
      <4> QED BY <2>4, <2>7, <3>1, <4>3, StaleAgain
    <3>3. CASE ~Inline(cat[i])
      <4>1. ~HashMoved(new, obs, i) /\ Found(new, obs, new[i].hash) = {}
        BY <2>3, <2>7, <3>3
      <4>2. NotSeen(new, obs, i) = Stale(new[i], "missing", {})
        BY <4>1, NotSeenWays
      <4> QED BY <2>4, <2>7, <3>1, <4>2, StaleAgain
    <3> QED BY <3>2, <3>3
  <2> QED BY <2>1, <2>2, <2>5, <2>6, <2>7, RefreshedCases
<1>4. Refreshed(new, obs) = [i \in DOMAIN new |-> Refreshed(new, obs)[i]]
  BY <1>2 DEF Refreshed
<1>5. new = [i \in DOMAIN new |-> new[i]]
  BY DEF Refreshed
<1> QED BY <1>3, <1>4, <1>5

(* And it is accepted: no kind changed, and no path is taken twice.        *)
LEMMA RefreshTwiceAccepted ==
    ASSUME NEW cat, CatalogOK(cat), NEW obs \in Imports, ~KindChanged(cat, obs),
           NEW new, new = Refreshed(cat, obs)
    PROVE  Accepted(new, obs)
<1>1. /\ DOMAIN new = DOMAIN cat \cup Added(cat, obs)
      /\ \A i \in Added(cat, obs) : new[i] = Fresh(obs[i].path, obs[i].hash)
      /\ Added(cat, obs) \subseteq DOMAIN obs \ DOMAIN cat
  BY RefreshedItem
<1>2. ASSUME NEW i \in DOMAIN new \cap DOMAIN obs
      PROVE  Inline(new[i]) = Inline(obs[i])
  <2>1. CASE i \in DOMAIN cat
    <3>1. Inline(new[i]) <=> Inline(cat[i])
      BY <2>1, RefreshKeeps
    <3>2. Inline(cat[i]) = Inline(obs[i])
      BY <1>2, <2>1 DEF KindChanged
    <3> QED BY <3>1, <3>2 DEF Inline
  <2>2. CASE i \in Added(cat, obs)
    BY <1>1, <2>2 DEF Fresh, Inline
  <2> QED BY <1>1, <2>1, <2>2
<1>3. ~KindChanged(new, obs)
  BY <1>2 DEF KindChanged
<1>4. OneItemPerPath(new)
  BY RefreshPaths
<1>5. Refreshed(new, obs) = new
  BY RefreshTwice
<1>6. ~PathTaken(new, obs)
  BY <1>4, <1>5 DEF PathTaken, OneItemPerPath
<1> QED BY <1>3, <1>6 DEF Accepted

-----------------------------------------------------------------------------
(* A current item with the path of a source is that source's own item, or  *)
(* the one that moved there.                                               *)
LEMMA OwnerOfPath ==
    ASSUME NEW cat, CatalogOK(cat), NEW obs \in Imports,
           NEW new, new = Refreshed(cat, obs),
           NEW o \in DOMAIN obs, ~Inline(obs[o]),
           NEW k \in DOMAIN new, Current(new[k]), new[k].path = obs[o].path
    PROVE  \/ k = o /\ new[o] = Fresh(obs[o].path, obs[o].hash)
           \/ HashMoved(cat, obs, k) /\ MovedTo(cat, obs, k) = o
<1>1. ImportOK(obs)
  BY ImportType
<1>2. CASE k \in DOMAIN obs /\ new[k] = Fresh(obs[k].path, obs[k].hash)
  <2>1. obs[k].path = obs[o].path
    BY <1>2 DEF Fresh
  <2>2. k = o
    BY <1>1, <1>2, <2>1 DEF ImportOK, Inline
  <2> QED BY <1>2, <2>2
<1>3. CASE /\ HashMoved(cat, obs, k)
           /\ new[k] = Fresh(obs[MovedTo(cat, obs, k)].path, cat[k].hash)
  <2>1. obs[MovedTo(cat, obs, k)].path = obs[o].path
    BY <1>3 DEF Fresh
  <2>2. MovedTo(cat, obs, k) \in DOMAIN obs /\ ~Inline(obs[MovedTo(cat, obs, k)])
    BY <1>3, MoveTarget
  <2>3. MovedTo(cat, obs, k) = o
    BY <1>1, <2>1, <2>2 DEF ImportOK, Inline
  <2> QED BY <1>3, <2>3
<1>4. ASSUME NEW state \in {"missing", "content_changed", "ambiguous"},
             NEW paths \in SUBSET Paths, k \in DOMAIN cat, new[k] = Stale(cat[k], state, paths)
      PROVE  FALSE
  <2>1. cat[k] \in Item
    BY <1>4 DEF CatalogOK
  <2>2. new[k].state = state
    BY <1>4, <2>1, StaleItem
  <2> QED BY <2>2 DEF Current
<1> QED BY <1>2, <1>3, <1>4, RefreshedCases, CopiesArePaths

(* An item that waits for a source has lost its own, with the same bytes.  *)
LEMMA WaiterOfPath ==
    ASSUME NEW cat, CatalogOK(cat), NEW obs \in Imports,
           NEW new, new = Refreshed(cat, obs),
           NEW o \in DOMAIN obs, ~Inline(obs[o]),
           NEW k \in DOMAIN new, obs[o].path \in new[k].candidates
    PROVE  /\ o \in Found(cat, obs, cat[k].hash) /\ k \in Lost(cat, obs, obs[o].hash)
           /\ ~HashMoved(cat, obs, k)
<1>1. ImportOK(obs)
  BY ImportType
<1>2. ASSUME NEW p, NEW h, new[k] = Fresh(p, h)
      PROVE  FALSE
  BY <1>2 DEF Fresh
<1>3. ASSUME NEW state \in {"missing", "content_changed", "ambiguous"},
             NEW paths \in SUBSET Paths, k \in DOMAIN cat, new[k] = Stale(cat[k], state, paths)
      PROVE  new[k].candidates = paths
  <2>1. cat[k] \in Item
    BY <1>3 DEF CatalogOK
  <2> QED BY <1>3, <2>1, StaleItem
<1>4. CASE /\ k \in DOMAIN cat /\ k \notin DOMAIN obs
           /\ ~HashMoved(cat, obs, k) /\ ~Inline(cat[k])
           /\ Found(cat, obs, cat[k].hash) # {}
           /\ new[k] = Stale(cat[k], "ambiguous", Copies(cat, obs, k))
  <2>1. obs[o].path \in Copies(cat, obs, k)
    BY <1>3, <1>4, CopiesArePaths
  <2>2. PICK q \in Found(cat, obs, cat[k].hash) : obs[o].path = obs[q].path
    BY <2>1 DEF Copies
  <2>3. q = o
    BY <1>1, <2>2 DEF ImportOK, Found, Unknown
  <2> QED BY <1>4, <2>2, <2>3 DEF Found, Lost, Unseen
<1>5. new[k] # Stale(cat[k], "missing", {}) \/ k \notin DOMAIN cat
  BY <1>3
<1>6. new[k] # Stale(cat[k], "content_changed", {}) \/ k \notin DOMAIN cat
  BY <1>3
<1> QED BY <1>2, <1>4, <1>5, <1>6, RefreshedCases

(* Where a source of an import ends up: the items that have it, those that *)
(* wait for it and the one whose id it declares.                           *)
Owners(new, obs, o) ==
    {i \in DOMAIN new : Current(new[i]) /\ new[i].path = obs[o].path
                                        /\ new[i].hash = obs[o].hash}
Waiting(new, obs, o) == {i \in DOMAIN new : obs[o].path \in new[i].candidates}
ChangedAt(new, o) == {i \in DOMAIN new : i = o /\ new[i].state = "content_changed"}

(* Each source of an import has exactly one place after an accepted        *)
(* refresh.                                                                *)
LEMMA SourceKept ==
    ASSUME NEW cat, CatalogOK(cat), NEW obs \in Imports, ~KindChanged(cat, obs),
           NEW new, new = Refreshed(cat, obs), NEW o \in DOMAIN obs, ~Inline(obs[o])
    PROVE  \/ \E i \in Ids : /\ Owners(new, obs, o) = {i}
                             /\ Waiting(new, obs, o) = {} /\ ChangedAt(new, o) = {}
           \/ /\ Owners(new, obs, o) = {}
              /\ (Waiting(new, obs, o) # {}) # (ChangedAt(new, o) # {})
<1> DEFINE owners == Owners(new, obs, o)
           waiting == Waiting(new, obs, o)
           changed == ChangedAt(new, o)
<1>a. owners = {i \in DOMAIN new : Current(new[i]) /\ new[i].path = obs[o].path
                                   /\ new[i].hash = obs[o].hash}
  BY DEF Owners
<1>b. waiting = {i \in DOMAIN new : obs[o].path \in new[i].candidates}
  BY DEF Waiting
<1>c. changed = {i \in DOMAIN new : i = o /\ new[i].state = "content_changed"}
  BY DEF ChangedAt
<1> SUFFICES \/ \E i \in Ids : owners = {i} /\ waiting = {} /\ changed = {}
             \/ owners = {} /\ (waiting # {}) # (changed # {})
  OBVIOUS
<1> HIDE DEF owners, waiting, changed
<1>1. /\ DOMAIN new = DOMAIN cat \cup Added(cat, obs)
      /\ \A i \in DOMAIN cat : i \in DOMAIN obs => new[i] = SeenById(cat, obs, i)
      /\ \A i \in DOMAIN cat : i \notin DOMAIN obs => new[i] = NotSeen(cat, obs, i)
      /\ \A i \in Added(cat, obs) : new[i] = Fresh(obs[i].path, obs[i].hash)
  BY RefreshedItem
<1>2. \A k \in owners : \/ k = o /\ new[o] = Fresh(obs[o].path, obs[o].hash)
                        \/ HashMoved(cat, obs, k) /\ MovedTo(cat, obs, k) = o
  BY <1>a, OwnerOfPath
<1>3. \A k \in waiting : /\ o \in Found(cat, obs, cat[k].hash)
                         /\ k \in Lost(cat, obs, obs[o].hash)
                         /\ ~HashMoved(cat, obs, k)
  BY <1>b, WaiterOfPath
<1>4. \A k : HashMoved(cat, obs, k) /\ MovedTo(cat, obs, k) = o =>
                o \notin DOMAIN cat /\ o \notin Added(cat, obs)
                /\ obs[o].hash = cat[k].hash /\ k \in DOMAIN cat
  BY MoveTarget
<1>5. \A k : o \in Found(cat, obs, cat[k].hash) => o \notin DOMAIN cat
  BY DEF Found, Unknown
<1>6. DOMAIN obs \subseteq Ids /\ DOMAIN cat \subseteq Ids
  BY ImportType DEF CatalogOK
<1>7. CASE o \in DOMAIN new /\ new[o] = Fresh(obs[o].path, obs[o].hash)
  <2>1. o \in owners /\ new[o].state = "current"
    BY <1>a, <1>7 DEF Fresh, Current
  <2>2. o \in DOMAIN cat \/ o \in Added(cat, obs)
    BY <1>1, <1>7
  <2>3. owners = {o}
    BY <1>2, <1>4, <2>1, <2>2
  <2>4. waiting = {}
    <3>1. o \in Added(cat, obs) => Lost(cat, obs, obs[o].hash) = {}
      BY DEF Added
    <3> QED BY <1>3, <1>5, <2>2, <3>1
  <2>5. changed = {}
    BY <1>c, <2>1
  <2> QED BY <1>6, <2>3, <2>4, <2>5
<1>8. CASE o \in DOMAIN cat /\ new[o] # Fresh(obs[o].path, obs[o].hash)
  <2>1. new[o] = Stale(cat[o], "content_changed", {}) /\ cat[o] \in Item
    BY <1>1, <1>8 DEF SeenById, CatalogOK
  <2>2. new[o].state = "content_changed"
    BY <2>1, StaleItem
  <2>3. owners = {}
    BY <1>2, <1>4, <1>8
  <2>4. waiting = {}
    BY <1>3, <1>5, <1>8
  <2>5. o \in changed
    BY <1>c, <1>1, <1>8, <2>2
  <2> QED BY <2>3, <2>4, <2>5
<1>9. CASE o \notin DOMAIN cat /\ o \notin Added(cat, obs)
  <2>1. changed = {} /\ o \notin owners
    BY <1>a, <1>c, <1>1, <1>9
  <2>2. Lost(cat, obs, obs[o].hash) # {}
    BY <1>9 DEF Added
  <2>3. PICK i \in Lost(cat, obs, obs[o].hash) : TRUE
    BY <2>2
  <2>4. /\ i \in DOMAIN cat /\ i \notin DOMAIN obs /\ ~Inline(cat[i]) /\ i \in Unseen(cat, obs)
        /\ cat[i].hash = obs[o].hash
    BY <2>3 DEF Lost, Unseen
  <2>5. o \in Found(cat, obs, cat[i].hash)
    BY <1>9, <2>4 DEF Found, Unknown
  <2>6. new[i] = NotSeen(cat, obs, i) /\ i \in DOMAIN new
    BY <1>1, <2>4
  <2>7. \A k : HashMoved(cat, obs, k) =>
            /\ Lost(cat, obs, cat[k].hash) = {k}
            /\ MovedTo(cat, obs, k) \in Found(cat, obs, cat[k].hash)
            /\ \E q : Found(cat, obs, cat[k].hash) = {q}
    BY DEF HashMoved, MovedTo
  <2>8. CASE HashMoved(cat, obs, i)
    <3>1. MovedTo(cat, obs, i) = o
      BY <2>5, <2>7, <2>8
    <3>2. new[i] = Fresh(obs[o].path, obs[o].hash)
      BY <2>4, <2>6, <2>8, <3>1, NotSeenWays
    <3>3. i \in owners
      BY <1>a, <2>4, <2>6, <3>2 DEF Fresh, Current
    <3>4. Lost(cat, obs, obs[o].hash) = {i}
      BY <2>4, <2>7, <2>8
    <3>5. waiting = {}
      BY <1>3, <2>8, <3>4
    <3>6. owners = {i}
      <4>1. ASSUME NEW k \in owners
            PROVE  k = i
        <5>1. HashMoved(cat, obs, k) /\ MovedTo(cat, obs, k) = o
          BY <1>2, <2>1
        <5> QED BY <5>1, <2>8, <3>1, MoveTarget
      <4> QED BY <3>3, <4>1
    <3> QED BY <1>6, <2>1, <2>4, <3>5, <3>6
  <2>9. CASE ~HashMoved(cat, obs, i)
    <3>1. new[i] = Stale(cat[i], "ambiguous", Copies(cat, obs, i))
      BY <2>4, <2>5, <2>6, <2>9, NotSeenWays
    <3>2. new[i].candidates = Copies(cat, obs, i)
      <4>1. cat[i] \in Item
        BY <2>4 DEF CatalogOK
      <4> QED BY <3>1, <4>1, CopiesArePaths, StaleItem
    <3>3. obs[o].path \in Copies(cat, obs, i)
      BY <2>5 DEF Copies
    <3>4. i \in waiting
      BY <1>b, <2>6, <3>2, <3>3
    <3>5. ASSUME NEW k \in owners
          PROVE  FALSE
      <4>1. HashMoved(cat, obs, k) /\ MovedTo(cat, obs, k) = o
        BY <1>2, <2>1, <3>5
      <4>2. cat[k].hash = obs[o].hash
        BY <1>4, <4>1
      <4>3. Lost(cat, obs, obs[o].hash) = {k}
        BY <2>7, <4>1, <4>2
      <4> QED BY <2>3, <2>9, <4>1, <4>3
    <3> QED BY <2>1, <3>4, <3>5
  <2> QED BY <2>8, <2>9
<1> QED BY <1>1, <1>7, <1>8, <1>9
=============================================================================
