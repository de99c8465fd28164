--------------------------- MODULE TriageReconcile ---------------------------
(***************************************************************************)
(* How a triage refresh matches the imported sources (observations) with   *)
(* the items of a queue's catalog, and how the store applies the plan.  A  *)
(* catalog maps item ids to items; an import maps declared ids to what was *)
(* observed.  Only the identity, the path and the content hash of a source *)
(* matter; an inline source has no path.  Ids, paths and hashes are        *)
(* numbers in their lexical order.                                         *)
(***************************************************************************)
EXTENDS Naturals

CONSTANTS Ids, Paths, Hashes, None

ASSUME ReconcileAssumption ==
    Ids \subseteq Nat /\ Paths \subseteq Nat /\ Hashes \subseteq Nat /\ None \notin Nat

Item == [path : Paths \cup {None}, hash : Hashes,
         state : {"current", "missing", "content_changed", "ambiguous"},
         candidates : SUBSET Paths]
Source == [path : Paths \cup {None}, hash : Hashes]

Inline(x) == x.path = None
Current(x) == x.state = "current"
Fresh(path, hash) == [path |-> path, hash |-> hash, state |-> "current", candidates |-> {}]

(* Mutant of Stale: the candidates of an earlier ambiguity stay behind.    *)
StaleKeepingCandidates(item, state, candidates) ==
    [item EXCEPT !.state = state, !.candidates = @ \cup candidates]

Stale(item, state, candidates) == [item EXCEPT !.state = state, !.candidates = candidates]

(* validate_and_sort_observations keeps one observation per path and       *)
(* refuses two of one id.                                                  *)
ImportOK(obs) ==
    \A i, j \in DOMAIN obs : i # j /\ ~Inline(obs[i]) => obs[i].path # obs[j].path
Imports == {obs \in UNION {[S -> Source] : S \in SUBSET Ids} : ImportOK(obs)}

-----------------------------------------------------------------------------
(* Path items whose id was not observed, and path sources of unknown id:   *)
(* the two sides of matching by hash.                                      *)
Unseen(cat, obs) == {i \in DOMAIN cat \ DOMAIN obs : ~Inline(cat[i])}
Unknown(cat, obs) == {o \in DOMAIN obs \ DOMAIN cat : ~Inline(obs[o])}
Lost(cat, obs, h) == {i \in Unseen(cat, obs) : cat[i].hash = h}
Found(cat, obs, h) == {o \in Unknown(cat, obs) : obs[o].hash = h}

KindChanged(cat, obs) ==
    \E i \in DOMAIN cat \cap DOMAIN obs : Inline(cat[i]) # Inline(obs[i])

(* Mutant of HashMoved: any of several copies is taken.                    *)
HashMovedAnyhow(cat, obs, i) ==
    i \in Unseen(cat, obs) /\ Found(cat, obs, cat[i].hash) # {}

(* One missing item and one unknown source with its bytes: a move.         *)
HashMoved(cat, obs, i) ==
    /\ i \in Unseen(cat, obs)
    /\ Lost(cat, obs, cat[i].hash) = {i}
    /\ \E o \in DOMAIN obs : Found(cat, obs, cat[i].hash) = {o}

MovedTo(cat, obs, i) == CHOOSE o \in DOMAIN obs : o \in Found(cat, obs, cat[i].hash)

(* Mutant of SeenById: the changed text replaces the stored snapshot.      *)
SeenByIdRecaptured(cat, obs, i) == Fresh(obs[i].path, obs[i].hash)

(* An item whose id was observed: inline content is replaced; a path       *)
(* snapshot is kept, and follows its source only while the bytes match.    *)
SeenById(cat, obs, i) ==
    IF Inline(cat[i]) \/ cat[i].hash = obs[i].hash
      THEN Fresh(obs[i].path, obs[i].hash)
      ELSE Stale(cat[i], "content_changed", {})

NotSeen(cat, obs, i) ==
    LET copies == Found(cat, obs, cat[i].hash) IN
    CASE HashMoved(cat, obs, i) ->
             Fresh(obs[MovedTo(cat, obs, i)].path, cat[i].hash)
      [] ~HashMoved(cat, obs, i) /\ ~Inline(cat[i]) /\ copies # {} ->
             Stale(cat[i], "ambiguous", {obs[o].path : o \in copies})
      [] OTHER -> Stale(cat[i], "missing", {})

(* Mutant of Added: the candidates of ambiguous items become items too.    *)
AddedWithCandidates(cat, obs) ==
    {o \in DOMAIN obs \ DOMAIN cat :
        \A i \in DOMAIN cat : HashMoved(cat, obs, i) => MovedTo(cat, obs, i) # o}

(* Observations that neither moved an item nor are candidates: new items.  *)
Added(cat, obs) ==
    {o \in DOMAIN obs \ DOMAIN cat :
        Inline(obs[o]) \/ Lost(cat, obs, obs[o].hash) = {}}

Refreshed(cat, obs) ==
    [i \in DOMAIN cat \cup Added(cat, obs) |->
        CASE i \in DOMAIN cat /\ i \in DOMAIN obs -> SeenById(cat, obs, i)
          [] i \in DOMAIN cat /\ i \notin DOMAIN obs -> NotSeen(cat, obs, i)
          [] OTHER -> Fresh(obs[i].path, obs[i].hash)]

-----------------------------------------------------------------------------
(* The store releases the paths of items that end up stale, then attaches  *)
(* the others one by one in the order of the plan: items matched by id in  *)
(* catalog order (path, then id), then moves in the order of their hash.   *)
AppliedBefore(cat, obs, i, j) ==
    \/ i \in DOMAIN obs /\ j \notin DOMAIN obs
    \/ /\ i \in DOMAIN obs /\ j \in DOMAIN obs
       /\ \/ cat[i].path < cat[j].path
          \/ cat[i].path = cat[j].path /\ i < j
    \/ i \notin DOMAIN obs /\ j \notin DOMAIN obs /\ cat[i].hash < cat[j].hash

(* ensure_current_path_available fails, and with it the whole refresh, on  *)
(* a path that an item further down the plan has yet to leave.             *)
PathTaken(cat, obs) ==
    LET new == Refreshed(cat, obs) IN
    \E i, j \in DOMAIN cat :
        /\ i # j /\ ~Inline(cat[i]) /\ ~Inline(cat[j])
        /\ Current(new[i]) /\ Current(cat[j]) /\ Current(new[j])
        /\ new[i].path = cat[j].path
        /\ AppliedBefore(cat, obs, i, j)

Accepted(cat, obs) == ~KindChanged(cat, obs) /\ ~PathTaken(cat, obs)

(* Mutant of PathFree: the conflict check of attach is missing.            *)
PathFreeOrNot(cat, i, p) == TRUE

PathFree(cat, i, p) ==
    \A j \in DOMAIN cat \ {i} : cat[j].path = p => ~Current(cat[j])

(* attach: a source with the snapshot's bytes is named explicitly.         *)
CanAttach(cat, i, p, h) ==
    /\ i \in DOMAIN cat
    /\ ~Inline(cat[i]) /\ p # None
    /\ cat[i].hash = h
    /\ PathFree(cat, i, p)

Attached(cat, i, p) == [cat EXCEPT ![i] = Fresh(p, @.hash)]
-----------------------------------------------------------------------------
(* A well-formed catalog, CHECKs of the table included: exactly the        *)
(* ambiguous items have candidates.                                        *)
CatalogOK(cat) ==
    /\ DOMAIN cat \subseteq Ids
    /\ cat \in [DOMAIN cat -> Item]
    /\ \A i \in DOMAIN cat : cat[i].state = "ambiguous" <=> cat[i].candidates # {}

(* No two current items stand for one source file.                         *)
OneItemPerPath(cat) ==
    \A i, j \in DOMAIN cat :
        i # j /\ ~Inline(cat[i]) /\ Current(cat[i]) /\ Current(cat[j])
            => cat[i].path # cat[j].path
=============================================================================
