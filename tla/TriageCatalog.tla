---------------------------- MODULE TriageCatalog ----------------------------
(***************************************************************************)
(* The catalog of one triage queue over a long life: it is created from an *)
(* import, refreshed from any later import and repaired by attachments, in *)
(* any order.  Each operation is one transaction under the queue's lock;   *)
(* TriageStore takes the transactions apart.                               *)
(***************************************************************************)
EXTENDS TriageReconcile

VARIABLE catalog

NoCatalog == [i \in {} |-> Fresh(None, None)]

Init == catalog = NoCatalog

(* create_queue with at least one item, all of them current.               *)
Create(obs) ==
    /\ catalog = NoCatalog
    /\ catalog' = [i \in DOMAIN obs |-> Fresh(obs[i].path, obs[i].hash)]

Refresh(obs) ==
    /\ catalog # NoCatalog
    /\ Accepted(catalog, obs)
    /\ catalog' = Refreshed(catalog, obs)

Attach(i, p) ==
    /\ i \in DOMAIN catalog
    /\ CanAttach(catalog, i, p, catalog[i].hash)
    /\ catalog' = Attached(catalog, i, p)

Next ==
    \/ \E obs \in Imports : Create(obs) \/ Refresh(obs)
    \/ \E i \in Ids, p \in Paths : Attach(i, p)

Spec == Init /\ [][Next]_catalog

-----------------------------------------------------------------------------
(* The catalog stays well formed.                                          *)
TypeOK == CatalogOK(catalog)

(* No two items claim to be the current capture of one source file, over   *)
(* any sequence of refreshes and attachments (store.rs:636): the table has *)
(* no UNIQUE index that would catch it.                                    *)
PathsDistinct == OneItemPerPath(catalog)

(* README.md:601, the table of freshness states, as the reference          *)
(* definition of what a refresh makes of a path item.                      *)
Bytes(obs, h) == {o \in DOMAIN obs \ DOMAIN catalog : ~Inline(obs[o]) /\ obs[o].hash = h}
Gone(obs, h) == {i \in DOMAIN catalog \ DOMAIN obs : ~Inline(catalog[i]) /\ catalog[i].hash = h}

Documented(obs, i) ==
    LET h == catalog[i].hash
        seen == i \in DOMAIN obs
        oneMove == \E o \in DOMAIN obs : Bytes(obs, h) = {o} /\ Gone(obs, h) = {i}
    IN  CASE seen /\ obs[i].hash = h -> "current"
          [] seen /\ obs[i].hash # h -> "content_changed"
          [] ~seen /\ Bytes(obs, h) = {} -> "missing"
          [] ~seen /\ oneMove -> "current"
          [] OTHER -> "ambiguous"

(* A refresh gives every path item the state the README documents and      *)
(* leaves its captured bytes alone.                                        *)
RefreshAsDocumented ==
    \A obs \in Imports :
        Accepted(catalog, obs) =>
            \A i \in DOMAIN catalog :
                ~Inline(catalog[i]) =>
                    /\ Refreshed(catalog, obs)[i].state = Documented(obs, i)
                    /\ Refreshed(catalog, obs)[i].hash = catalog[i].hash

(* A refresh loses no source file: each observed path is the path of a     *)
(* current item with these bytes, a candidate of an ambiguous one, or the  *)
(* changed source of the item whose id it declares; and only one of them.  *)
NoSourceLost ==
    \A obs \in Imports :
        Accepted(catalog, obs) =>
            LET new == Refreshed(catalog, obs)
                owners(o) == {i \in DOMAIN new :
                                Current(new[i]) /\ new[i].path = obs[o].path
                                /\ new[i].hash = obs[o].hash}
                waiting(o) == {i \in DOMAIN new : obs[o].path \in new[i].candidates}
                changed(o) == {i \in DOMAIN new : i = o /\ new[i].state = "content_changed"}
            IN  \A o \in DOMAIN obs :
                    ~Inline(obs[o]) =>
                        \/ \E i \in Ids : owners(o) = {i} /\ waiting(o) = {} /\ changed(o) = {}
                        \/ owners(o) = {} /\ (waiting(o) # {}) # (changed(o) # {})

(* A refresh settles: repeating it with the same import is accepted and    *)
(* changes nothing.                                                        *)
RefreshSettles ==
    \A obs \in Imports :
        Accepted(catalog, obs) =>
            LET new == Refreshed(catalog, obs)
            IN  Accepted(new, obs) /\ Refreshed(new, obs) = new

-----------------------------------------------------------------------------
(* README.md:603: an item whose declared id and hash still match is        *)
(* current after a refresh, wherever its file went.  No import of a queue  *)
(* whose sources all still match is refused.                               *)
MovesAreAccepted ==
    \A obs \in Imports :
        (\A i \in DOMAIN catalog :
            i \in DOMAIN obs /\ obs[i].hash = catalog[i].hash
            /\ Inline(obs[i]) = Inline(catalog[i]))
        => Accepted(catalog, obs)
=============================================================================
