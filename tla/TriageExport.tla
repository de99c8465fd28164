---------------------------- MODULE TriageExport -----------------------------
(***************************************************************************)
(* The export of a triage queue: a consumer reads the revisions page by    *)
(* page with a cursor, without any lock, while the handlers of TriageStore *)
(* run.  Each query sees what has been committed at that moment.           *)
(***************************************************************************)
EXTENDS TriageStore

CONSTANT Limit   \* revisions per export page

ASSUME LimitAssumption == Limit \in Nat \ {0}

VARIABLES
    session,     \* progress of the consumer
    known,       \* ids of the catalog of the export it is sent
    page,        \* events of that export
    cursor,      \* the cursor it persisted
    processed    \* events it has acted upon

consumer == <<session, known, page, cursor, processed>>
exportVars == <<vars, consumer>>

ExportInit ==
    /\ Init
    /\ session = "idle" /\ known = {} /\ page = {}
    /\ cursor = 0 /\ processed = {}

-----------------------------------------------------------------------------
(* GET .../export: the catalog, then a page of revisions                   *)

ExportCatalog ==
    /\ session = "idle"
    /\ session' = "catalog"
    /\ known' = DOMAIN catalog
    /\ UNCHANGED <<vars, page, cursor, processed>>

(* Mutant of After: event_id >= cursor.                                    *)
AfterOrAt(c) == {e \in DOMAIN revisions : e >= c}

After(c) == {e \in DOMAIN revisions : e > c}

(* Mutant of PageAfter: the latest revisions first.                        *)
PageAfterDescending(c) == {e \in After(c) : Cardinality({f \in After(c) : f > e}) < Limit}

PageAfter(c) == {e \in After(c) : Cardinality({f \in After(c) : f < e}) < Limit}

(* validate_export_targets: the catalog has every target of the page.  (It *)
(* has those of its own latest decisions: one statement reads both.)       *)
TargetsKnown == {revisions[e].target : e \in PageAfter(cursor)} \ {None} \subseteq known

(* A consumer whose export is refused starts over.                         *)
ExportPage ==
    /\ session = "catalog"
    /\ \/ /\ TargetsKnown
          /\ page' = PageAfter(cursor)
          /\ session' = "page"
          /\ UNCHANGED known
       \/ /\ ~TargetsKnown
          /\ session' = "idle" /\ known' = {}
          /\ UNCHANGED page
    /\ UNCHANGED <<vars, cursor, processed>>

(* The consumer acts on the page, then persists nextCursor (README.md:572).*)
ConsumerProcess ==
    /\ session = "page"
    /\ processed' = processed \cup page
    /\ session' = "processed"
    /\ UNCHANGED <<vars, known, page, cursor>>

NextCursor == IF page = {} THEN cursor ELSE CHOOSE e \in page : \A f \in page : f <= e

EndSession == session' = "idle" /\ known' = {} /\ page' = {}

ConsumerPersist ==
    /\ session = "processed"
    /\ cursor' = NextCursor
    /\ EndSession
    /\ UNCHANGED <<vars, processed>>

ConsumerCrash ==
    /\ session # "idle"
    /\ EndSession
    /\ UNCHANGED <<vars, cursor, processed>>

-----------------------------------------------------------------------------
ConsumerStep ==
    \/ ExportCatalog \/ ExportPage \/ ConsumerProcess \/ ConsumerPersist \/ ConsumerCrash

ExportNext ==
    \/ Next /\ UNCHANGED consumer
    \/ ConsumerStep

ExportSpec == ExportInit /\ [][ExportNext]_exportVars

(* A consumer that polls again and again and does not crash for ever at    *)
(* the same point.                                                         *)
Polling ==
    /\ WF_exportVars(ExportCatalog) /\ SF_exportVars(ExportPage)
    /\ SF_exportVars(ConsumerProcess) /\ SF_exportVars(ConsumerPersist)

FairExportSpec == ExportSpec /\ Polling

-----------------------------------------------------------------------------
ExportTypeOK ==
    /\ TypeOK
    /\ session \in {"idle", "catalog", "page", "processed"}
    /\ known \subseteq Ids
    /\ page \subseteq Events /\ processed \subseteq Events
    /\ cursor \in 0 .. MaxEvents

(* The cursor contract of README.md:570: an event below the cursor of a    *)
(* consumer was processed by it.  Event ids are drawn before the commit    *)
(* that makes a revision visible, so this rests on the queue's lock.       *)
CursorSkipsNothing ==
    \A e \in DOMAIN revisions : e <= cursor => e \in processed

(* The inductive invariant: a page starts right after the cursor and has   *)
(* no gaps, whatever is committed while the consumer works on it.          *)
PagesHold ==
    /\ cursor \in {0} \cup DOMAIN revisions
    /\ page \subseteq DOMAIN revisions
    /\ \A e \in page, f \in DOMAIN revisions : cursor < f /\ f <= e => f \in page
    /\ session = "processed" => page \subseteq processed
    /\ processed \subseteq DOMAIN revisions
    /\ \A e \in processed, f \in DOMAIN revisions : f < e => f \in processed

ExportInv == Inv /\ RevisionsCounted /\ ExportTypeOK /\ PagesHold /\ CursorSkipsNothing

(* The export is an append-only log, read in order and without gaps.       *)
Log == INSTANCE RevisionLog WITH log <- revisions, seen <- processed
ImplementsLog == Log!Spec

(* Every committed revision reaches a consumer that keeps polling, through *)
(* refused exports and its own crashes.                                    *)
EveryRevisionIsExported ==
    \A e \in Events : e \in DOMAIN revisions ~> e \in processed

-----------------------------------------------------------------------------
(* README.md:570: "Every export is a self-contained envelope": an export   *)
(* has every item its revisions decide in the catalog it comes with.       *)
ExportIsSelfContained ==
    session = "page" => \A e \in page : revisions[e].item \in known
=============================================================================
