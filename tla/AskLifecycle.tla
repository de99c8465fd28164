---------------------------- MODULE AskLifecycle ----------------------------
(***************************************************************************)
(* The life of an ask in the daemon: its row in the notifications table,   *)
(* the HTTP handlers that close it (answer, cancel, dismiss, a posted      *)
(* grant), and the blocking GET /wait requests parked on it through the    *)
(* in-memory waiters map.  Every .await in a handler that another handler  *)
(* can run across ends an action here: each SQL statement, each            *)
(* acquisition of the waiters lock, each poll of a oneshot receiver is one *)
(* step.  A client may disconnect at any of them (axum then drops the      *)
(* handler), a query may fail, and the daemon may restart.                 *)
(***************************************************************************)
CONSTANTS Asks,      (* notification ids                                   *)
          Waits,     (* GET /wait requests that can be in flight at once   *)
          Handlers,  (* mutating requests that can be in flight at once    *)
          Answers,   (* answers a human gives to a plain ask               *)
          Grants,    (* ids of signed grants, each also the answer it gives*)
          None,
          Dead       (* a sender whose receiver is gone                    *)

ASSUME Assumption ==
    /\ None \notin Asks \cup Waits \cup Answers \cup Grants
    /\ Dead \notin Waits \cup {None}
    /\ Answers \cap Grants = {}

VARIABLES
    kind,      (* question_type: "approval" or any other, "plain"          *)
    stored,    (* the status column, as the SQL writes it                  *)
    answer,    (* the answer column                                        *)
    grantAsk,  (* grants table: notification_id of a stored grant          *)
    waiters,   (* the waiters map: whose oneshot sender an ask id holds    *)
    hpc, job,  (* what a handler does next, and the request it serves      *)
    wpc, wask, (* what a wait does next, and the ask it waits for          *)
    mail,      (* a wait's oneshot receiver, then its response             *)
    (* History, read by properties only. *)
    committed,   (* plain answers an UPDATE has put in the row             *)
    early,       (* waits registered before the row was answered/dismissed *)
    orphaned,    (* asks whose closing handler died before it woke anyone  *)
    unrecorded   (* waits told "timed_out" although a query of theirs failed *)

rowVars == <<stored, answer, grantAsk, committed>>
handlerVars == <<hpc, job, orphaned>>
waitVars == <<waiters, wpc, wask, mail, early, unrecorded>>
vars == <<kind, rowVars, handlerVars, waitVars>>

-----------------------------------------------------------------------------
(* "unasked": the id does not exist yet; "norow": a rule auto-answered the *)
(* ask, whose id was handed out although no row was ever inserted.         *)
Stored == {"unasked", "norow", "open", "muted", "answered", "cancelled",
           "dismissed", "timedout"}

Message == [via : {"empty", "closed", "dashboard", "ta", "dismissed",
                   "cancelled", "timed_out"},
            answer : Answers \cup Grants \cup {None},
            grant : Grants \cup {None}]

Envelope(via, a, g) == [via |-> via, answer |-> a, grant |-> g]
Empty  == Envelope("empty", None, None)      (* nothing sent yet           *)
Closed == Envelope("closed", None, None)     (* the sender was dropped     *)
TimedOut == Envelope("timed_out", None, None)

NoJob == [op |-> "none", ask |-> None, val |-> None]

(* The ids a client can name: ask has returned them. *)
Known(n) == stored[n] # "unasked"
HasRow(n) == stored[n] \notin {"unasked", "norow"}

(* update_status writes TimedOut as "timedout"; the reader knows only      *)
(* "timed_out" and takes everything it does not know for open.             *)
ParsedStatus(n) == IF stored[n] = "timedout" THEN "open" ELSE stored[n]
ReadsOpen(n) == HasRow(n) /\ ParsedStatus(n) = "open"

Blocked(w) == wpc[w] \in {"arm", "parked"} /\ mail[w] = Empty
GrantsOf(n) == {g \in Grants : grantAsk[g] = n}

(* Mutant of DropSender: the replaced sender is leaked, not dropped.       *)
LeakSender(n) == mail

(* The senders an overwritten or removed map entry drops: a wait parked on *)
(* that sender finds its channel closed.                                   *)
DropSender(n) ==
    IF waiters[n] \in Waits THEN [mail EXCEPT ![waiters[n]] = Closed] ELSE mail

(* Mutant of Abandon: the map forgets that the receiver is gone.           *)
KeepSender(w) == waiters

(* A wait whose receiver is gone leaves a dead sender behind in the map.   *)
Abandon(w) ==
    IF waiters[wask[w]] = w THEN [waiters EXCEPT ![wask[w]] = Dead] ELSE waiters

-----------------------------------------------------------------------------
Init ==
    /\ kind \in [Asks -> {"plain", "approval"}]
    /\ stored = [n \in Asks |-> "unasked"]
    /\ answer = [n \in Asks |-> None]
    /\ grantAsk = [g \in Grants |-> None]
    /\ committed = [n \in Asks |-> {}]
    /\ waiters = [n \in Asks |-> None]
    /\ hpc = [h \in Handlers |-> "idle"]
    /\ job = [h \in Handlers |-> NoJob]
    /\ wpc = [w \in Waits |-> "idle"]
    /\ wask = [w \in Waits |-> None]
    /\ mail = [w \in Waits |-> Empty]
    /\ early = {}
    /\ orphaned = {}
    /\ unrecorded = {}

-----------------------------------------------------------------------------
(* POST /ask, from the point where the rules have decided: the row is      *)
(* inserted open or muted; an auto-answered ask is only UPDATEd, and there *)
(* is no row to update.  Rules never auto-answer an approval.              *)
AskInsert(n) ==
    /\ stored[n] = "unasked"
    /\ \E s \in {"open", "muted", "norow"} :
          /\ s = "norow" => kind[n] = "plain"
          /\ stored' = [stored EXCEPT ![n] = s]
    /\ UNCHANGED <<kind, answer, grantAsk, committed, handlerVars, waitVars>>

-----------------------------------------------------------------------------
(* Handlers that close an ask.  Each first reads the row and decides on    *)
(* that copy; a refused request changes nothing and is not an action.      *)
Start(h, op, n, v, pc) ==
    /\ hpc[h] = "idle"
    /\ hpc' = [hpc EXCEPT ![h] = pc]
    /\ job' = [job EXCEPT ![h] = [op |-> op, ask |-> n, val |-> v]]
    /\ UNCHANGED orphaned

Finish(h) ==
    /\ hpc' = [hpc EXCEPT ![h] = "idle"]
    /\ job' = [job EXCEPT ![h] = NoJob]

(* Mutant of PlainAnswerAllowed: the approval lock is missing.             *)
AnyAnswerAllowed(n) == ReadsOpen(n)

(* check_plain_answer_allowed: 409 unless open, 409 for any approval ask.  *)
PlainAnswerAllowed(n) == ReadsOpen(n) /\ kind[n] # "approval"

AnswerCheck(h, n, v) ==
    /\ PlainAnswerAllowed(n)
    /\ Start(h, "answer", n, v, "write")
    /\ UNCHANGED <<kind, rowVars, waitVars>>

CancelCheck(h, n) ==
    /\ HasRow(n)
    /\ ParsedStatus(n) # "answered"
    /\ Start(h, "cancel", n, None, "write")
    /\ UNCHANGED <<kind, rowVars, waitVars>>

DismissCheck(h, n) ==
    /\ ReadsOpen(n)
    /\ Start(h, "dismiss", n, None, "write")
    /\ UNCHANGED <<kind, rowVars, waitVars>>

(* The UPDATEs name the row by id alone: whatever happened to it since the *)
(* check is overwritten.                                                   *)
AnswerWrite(h) ==
    LET n == job[h].ask IN
    /\ hpc[h] = "write" /\ job[h].op = "answer"
    /\ stored' = [stored EXCEPT ![n] = "answered"]
    /\ answer' = [answer EXCEPT ![n] = job[h].val]
    /\ committed' = [committed EXCEPT ![n] = @ \cup {job[h].val}]
    /\ hpc' = [hpc EXCEPT ![h] = "reread"]
    /\ UNCHANGED <<kind, grantAsk, job, orphaned, waitVars>>

(* Mutant of DismissWrite: like cancel, it wakes nobody.                   *)
DismissWriteSilently(h) ==
    /\ hpc[h] = "write" /\ job[h].op = "dismiss"
    /\ stored' = [stored EXCEPT ![job[h].ask] = "dismissed"]
    /\ Finish(h)
    /\ UNCHANGED <<kind, answer, grantAsk, committed, orphaned, waitVars>>

DismissWrite(h) ==
    /\ hpc[h] = "write" /\ job[h].op = "dismiss"
    /\ stored' = [stored EXCEPT ![job[h].ask] = "dismissed"]
    /\ hpc' = [hpc EXCEPT ![h] = "wake"]
    /\ UNCHANGED <<kind, answer, grantAsk, committed, job, orphaned, waitVars>>

(* cancel is the one handler that leaves parked waits alone.               *)
CancelWrite(h) ==
    /\ hpc[h] = "write" /\ job[h].op = "cancel"
    /\ stored' = [stored EXCEPT ![job[h].ask] = "cancelled"]
    /\ Finish(h)
    /\ UNCHANGED <<kind, answer, grantAsk, committed, orphaned, waitVars>>

(* answer reads the row back for its label and note.                       *)
AnswerReread(h) ==
    /\ hpc[h] = "reread"
    /\ hpc' = [hpc EXCEPT ![h] = "wake"]
    /\ UNCHANGED <<kind, rowVars, job, orphaned, waitVars>>

(* Mutant of GrantAllowed: the not_open check is missing.                  *)
GrantAllowedWhenClosed(g, n) == grantAsk[g] = None /\ kind[n] = "approval" /\ HasRow(n)

(* Whether check_grant_for_notification lets grant g answer ask n.         *)
GrantAllowed(g, n) == grantAsk[g] = None /\ kind[n] = "approval" /\ ReadsOpen(n)

(* Mutant of StoreGrant: the grant's own id is bound to notification_id.   *)
StoreGrantSwapped(g, n) == grantAsk' = [grantAsk EXCEPT ![g] = g]

(* insert_grant_row.                                                       *)
StoreGrant(g, n) == grantAsk' = [grantAsk EXCEPT ![g] = n]

(* Mutant of UpdateFindsRow: the UPDATE lacks AND status = 'open'.         *)
UpdateFindsAnyRow(n) == HasRow(n)

(* ... WHERE id = $5 AND status = 'open', on the column and not as parsed. *)
UpdateFindsRow(n) == stored[n] = "open"

(* POST /grants, kind "grant": one transaction under the row's lock checks *)
(* the ask as read, stores the grant and answers the row where its status  *)
(* is still literally 'open'.                                              *)
GrantPost(h, n, g) ==
    /\ GrantAllowed(g, n)
    /\ Start(h, "grant", n, g, "wake")
    /\ StoreGrant(g, n)
    /\ \/ /\ UpdateFindsRow(n)
          /\ stored' = [stored EXCEPT ![n] = "answered"]
          /\ answer' = [answer EXCEPT ![n] = g]
       \/ ~UpdateFindsRow(n) /\ UNCHANGED <<stored, answer>>
    /\ UNCHANGED <<kind, committed, waitVars>>

(* What a closing handler sends to the wait parked on its ask.             *)
EnvelopeOf(j) ==
    CASE j.op = "answer"  -> Envelope("dashboard", j.val, None)
      [] j.op = "dismiss" -> Envelope("dismissed", None, None)
      [] OTHER            -> Envelope("ta", j.val, j.val)

(* Under the waiters lock: take the ask's sender out of the map and send.  *)
Wake(h) ==
    LET n == job[h].ask IN
    /\ hpc[h] = "wake"
    /\ waiters' = [waiters EXCEPT ![n] = None]
    /\ mail' = IF waiters[n] \in Waits
                 THEN [mail EXCEPT ![waiters[n]] = EnvelopeOf(job[h])] ELSE mail
    /\ Finish(h)
    /\ UNCHANGED <<kind, rowVars, orphaned, wpc, wask, early, unrecorded>>

(* The client of a mutating request goes away, or its next query fails:    *)
(* what the handler has not done yet is never done.                        *)
HandlerDies(h) ==
    /\ hpc[h] # "idle"
    /\ orphaned' = IF hpc[h] \in {"reread", "wake"}
                     THEN orphaned \cup {job[h].ask} ELSE orphaned
    /\ Finish(h)
    /\ UNCHANGED <<kind, rowVars, waitVars>>

-----------------------------------------------------------------------------
(* GET /wait/{id}.  The first query answers the request at once when the   *)
(* row reads as closed; otherwise (open, muted, no row, or a failed query) *)
(* it goes on to register.                                                 *)
BeginWait(w, n, pc, m) ==
    /\ wpc[w] \in {"idle", "done"}
    /\ Known(n)
    /\ wpc' = [wpc EXCEPT ![w] = pc]
    /\ wask' = [wask EXCEPT ![w] = n]
    /\ mail' = [mail EXCEPT ![w] = m]
    /\ unrecorded' = unrecorded \ {w}
    /\ UNCHANGED <<kind, rowVars, handlerVars, waiters, early>>

WaitSeesAnswer(w, n) ==
    /\ ParsedStatus(n) = "answered"
    /\ BeginWait(w, n, IF kind[n] = "approval" THEN "attach" ELSE "done",
                 Envelope("dashboard", answer[n], None))

WaitSeesClosed(w, n) ==
    /\ ParsedStatus(n) \in {"dismissed", "cancelled"}
    /\ BeginWait(w, n, "done", Envelope(ParsedStatus(n), None, None))

WaitFallsThrough(w, n) == BeginWait(w, n, "register", Empty)

(* A second query attaches the grant that comes last among the ask's; one  *)
(* that fails is only logged.                                              *)
WaitAttach(w) ==
    /\ wpc[w] = "attach"
    /\ \/ \E g \in GrantsOf(wask[w]) :
             mail' = [mail EXCEPT ![w] = Envelope("ta", @.answer, g)]
       \/ UNCHANGED mail
    /\ wpc' = [wpc EXCEPT ![w] = "done"]
    /\ UNCHANGED <<kind, rowVars, handlerVars, waiters, wask, early, unrecorded>>

(* One map entry per ask: registering drops the sender of an earlier wait. *)
WaitRegister(w) ==
    LET n == wask[w] IN
    /\ wpc[w] = "register"
    /\ mail' = DropSender(n)
    /\ waiters' = [waiters EXCEPT ![n] = w]
    /\ wpc' = [wpc EXCEPT ![w] = "arm"]
    /\ early' = IF stored[n] \in {"answered", "dismissed"} THEN early
                ELSE early \cup {w}
    /\ UNCHANGED <<kind, rowVars, handlerVars, wask, unrecorded>>

(* The deadline is read and the timer started.  Time itself is abstract: a *)
(* started timer may fire in any later state, early or late.               *)
WaitArm(w) ==
    /\ wpc[w] = "arm"
    /\ wpc' = [wpc EXCEPT ![w] = "parked"]
    /\ UNCHANGED <<kind, rowVars, handlerVars, waiters, wask, mail, early, unrecorded>>

(* The receiver is polled before the timer: an envelope is returned, a     *)
(* closed channel becomes the error "waiter cancelled".                    *)
WaitReceive(w) ==
    /\ wpc[w] = "parked"
    /\ mail[w] # Empty
    /\ wpc' = [wpc EXCEPT ![w] = "done"]
    /\ early' = early \ {w}
    /\ UNCHANGED <<kind, rowVars, handlerVars, waiters, wask, mail, unrecorded>>

(* Mutant of WaitTimerFires: no ceiling for an ask without a deadline.     *)
WaitTimerFiresIfAsked(w) == FALSE

WaitTimerFires(w) ==
    /\ wpc[w] = "parked"
    /\ mail[w] = Empty
    /\ wpc' = [wpc EXCEPT ![w] = "expired"]
    /\ waiters' = Abandon(w)
    /\ early' = early \ {w}
    /\ UNCHANGED <<kind, rowVars, handlerVars, wask, mail, unrecorded>>

(* The entry is removed by ask id, whoever owns it by now.                 *)
WaitRemove(w) ==
    /\ wpc[w] = "expired"
    /\ waiters' = [waiters EXCEPT ![wask[w]] = None]
    /\ mail' = DropSender(wask[w])
    /\ wpc' = [wpc EXCEPT ![w] = "reread"]
    /\ UNCHANGED <<kind, rowVars, handlerVars, wask, early, unrecorded>>

ReplyTimedOut(w) ==
    /\ wpc' = [wpc EXCEPT ![w] = "done"]
    /\ mail' = [mail EXCEPT ![w] = TimedOut]
    /\ UNCHANGED <<kind, handlerVars, answer, grantAsk, committed, waiters, wask, early>>

(* Mutant of WaitReread: the row is never marked.                          *)
WaitRereadOnly(w) ==
    /\ wpc[w] = "reread"
    /\ ReplyTimedOut(w)
    /\ UNCHANGED <<stored, unrecorded>>

(* Only a row that reads as open is to be marked; the reply is the same.   *)
WaitReread(w) ==
    /\ wpc[w] = "reread"
    /\ \/ /\ ReadsOpen(wask[w])
          /\ wpc' = [wpc EXCEPT ![w] = "mark"]
          /\ UNCHANGED <<kind, rowVars, handlerVars, waiters, wask, mail, early,
                         unrecorded>>
       \/ /\ ~ReadsOpen(wask[w])
          /\ ReplyTimedOut(w)
          /\ UNCHANGED <<stored, unrecorded>>

(* The UPDATE again names the row by id alone.                             *)
WaitMark(w) ==
    /\ wpc[w] = "mark"
    /\ stored' = [stored EXCEPT ![wask[w]] = "timedout"]
    /\ ReplyTimedOut(w)
    /\ UNCHANGED unrecorded

(* The re-read or the UPDATE fails: both errors are discarded.             *)
WaitQueryFails(w) ==
    /\ wpc[w] \in {"reread", "mark"}
    /\ ReplyTimedOut(w)
    /\ unrecorded' = unrecorded \cup {w}
    /\ UNCHANGED stored

(* The waiting client disconnects: the receiver is gone, a registered      *)
(* sender stays in the map, and no timer will ever close the ask.          *)
WaitDrop(w) ==
    /\ wpc[w] \notin {"idle", "done"}
    /\ wpc' = [wpc EXCEPT ![w] = "idle"]
    /\ waiters' = Abandon(w)
    /\ wask' = [wask EXCEPT ![w] = None]
    /\ mail' = [mail EXCEPT ![w] = Empty]
    /\ early' = early \ {w}
    /\ UNCHANGED <<kind, rowVars, handlerVars, unrecorded>>

(* The daemon restarts: only the tables survive.                           *)
Restart ==
    /\ waiters' = [n \in Asks |-> None]
    /\ hpc' = [h \in Handlers |-> "idle"]
    /\ job' = [h \in Handlers |-> NoJob]
    /\ orphaned' = orphaned \cup
                     {job[h].ask : h \in {x \in Handlers : hpc[x] \in {"reread", "wake"}}}
    /\ wpc' = [w \in Waits |-> IF wpc[w] = "done" THEN "done" ELSE "idle"]
    /\ wask' = [w \in Waits |-> IF wpc[w] = "done" THEN wask[w] ELSE None]
    /\ mail' = [w \in Waits |-> IF wpc[w] = "done" THEN mail[w] ELSE Empty]
    /\ early' = {}
    /\ UNCHANGED <<kind, rowVars, unrecorded>>

-----------------------------------------------------------------------------
HandlerNext(h) ==
    \/ \E n \in Asks, v \in Answers : AnswerCheck(h, n, v)
    \/ \E n \in Asks : CancelCheck(h, n) \/ DismissCheck(h, n)
    \/ \E n \in Asks, g \in Grants : GrantPost(h, n, g)
    \/ AnswerWrite(h) \/ DismissWrite(h) \/ CancelWrite(h)
    \/ AnswerReread(h) \/ Wake(h) \/ HandlerDies(h)

WaitBegins(w) ==
    \E n \in Asks : WaitSeesAnswer(w, n) \/ WaitSeesClosed(w, n) \/ WaitFallsThrough(w, n)

(* What the runtime does for a wait in flight.                             *)
WaitStep(w) ==
    \/ WaitAttach(w) \/ WaitRegister(w) \/ WaitArm(w) \/ WaitReceive(w)
    \/ WaitTimerFires(w) \/ WaitRemove(w) \/ WaitReread(w) \/ WaitMark(w)

Next ==
    \/ \E n \in Asks : AskInsert(n)
    \/ \E h \in Handlers : HandlerNext(h)
    \/ \E w \in Waits : WaitBegins(w) \/ WaitStep(w) \/ WaitQueryFails(w) \/ WaitDrop(w)
    \/ Restart

Spec == Init /\ [][Next]_vars

(* tokio polls every ready task and fires every timer; nothing obliges a   *)
(* client to send, repeat or abandon a request.                            *)
FairSpec == Spec /\ \A w \in Waits : WF_vars(WaitStep(w))

-----------------------------------------------------------------------------
(* Every variable keeps its type.                                          *)
Job == [op : {"none", "answer", "cancel", "dismiss", "grant"},
        ask : Asks \cup {None}, val : Answers \cup Grants \cup {None}]

TypeOK ==
    /\ kind \in [Asks -> {"plain", "approval"}]
    /\ stored \in [Asks -> Stored]
    /\ answer \in [Asks -> Answers \cup Grants \cup {None}]
    /\ grantAsk \in [Grants -> Asks \cup {None}]
    /\ committed \in [Asks -> SUBSET Answers]
    /\ waiters \in [Asks -> Waits \cup {None, Dead}]
    /\ hpc \in [Handlers -> {"idle", "write", "reread", "wake"}]
    /\ job \in [Handlers -> Job]
    /\ wpc \in [Waits -> {"idle", "attach", "register", "arm", "parked",
                           "expired", "reread", "mark", "done"}]
    /\ wask \in [Waits -> Asks \cup {None}]
    /\ mail \in [Waits -> Message]
    /\ early \subseteq Waits /\ unrecorded \subseteq Waits
    /\ orphaned \subseteq Asks

(* What an in-flight mutating request may still do was allowed when it was *)
(* checked: a plain answer never aims at an approval ask, an envelope that *)
(* is about to be sent has been committed.                                 *)
JobConsistent(h) ==
    /\ job[h].ask \in Asks
    /\ HasRow(job[h].ask)
    /\ \/ /\ job[h].op = "answer"
          /\ kind[job[h].ask] = "plain"
          /\ job[h].val \in Answers
          /\ hpc[h] # "write" => job[h].val \in committed[job[h].ask]
       \/ /\ job[h].op = "dismiss"
          /\ hpc[h] \in {"write", "wake"}
          /\ job[h].val = None
       \/ job[h].op = "cancel" /\ hpc[h] = "write"
       \/ /\ job[h].op = "grant"
          /\ hpc[h] = "wake"
          /\ kind[job[h].ask] = "approval"
          /\ job[h].val \in GrantsOf(job[h].ask)

JobsConsistent == \A h \in Handlers : hpc[h] # "idle" => JobConsistent(h)

(* A wait in flight knows its ask and has been sent nothing before it      *)
(* registers nor after its timer fired.                                    *)
WaitConsistent(w) ==
    /\ wpc[w] # "idle" => wask[w] \in Asks /\ Known(wask[w])
    /\ wpc[w] \in {"idle", "register", "expired", "reread", "mark"} => mail[w] = Empty
    /\ wpc[w] = "attach" =>
          kind[wask[w]] = "approval" /\ mail[w].via = "dashboard"
    /\ wpc[w] = "mark" => HasRow(wask[w])
    /\ wpc[w] # "done" => mail[w].via # "timed_out"
    /\ w \in early => wpc[w] \in {"arm", "parked"}

WaitsConsistent == \A w \in Waits : WaitConsistent(w)

(* waiters (handlers.rs:21) and the parked waits agree: the sender in the  *)
(* map belongs to a wait that is still blocked on that ask, and every wait *)
(* that is still blocked has its sender there, so it can yet be woken.     *)
(* Timeouts that remove by ask id, evictions by a second wait, clients     *)
(* that leave and restarts all keep it.                                    *)
SlotOwnerIsBlocked ==
    \A n \in Asks, w \in Waits : waiters[n] = w <=> Blocked(w) /\ wask[w] = n

(* The lock rule (README.md:753): an answered approval ask holds what one  *)
(* stored grant says, and no other grant is stored for it; a plain ask has *)
(* no grants.                                                              *)
OneGrantPerApproval ==
    \A n \in Asks :
        /\ kind[n] = "plain" => GrantsOf(n) = {}
        /\ kind[n] = "approval" /\ stored[n] = "answered" =>
              answer[n] \in Grants /\ GrantsOf(n) = {answer[n]}

(* The strengthening OneGrantPerApproval and the refinement need: an       *)
(* approval ask that nobody closed has no grant and no answer, and its     *)
(* answer column only ever holds a grant stored for it.                    *)
ApprovalRows ==
    \A n \in Asks :
        /\ kind[n] = "approval" =>
              /\ stored[n] # "norow"
              /\ stored[n] \in {"unasked", "open", "muted"} =>
                    GrantsOf(n) = {} /\ answer[n] = None
              /\ answer[n] # None => answer[n] \in GrantsOf(n)
        /\ kind[n] = "plain" => answer[n] \in committed[n] \cup {None}
        /\ stored[n] = "answered" => answer[n] # None

(* Whatever a wait was sent or returns carries only what is in the tables: *)
(* for a plain ask an answer some UPDATE committed, for an approval ask    *)
(* the decision of a grant stored for that very ask; dismissed, cancelled, *)
(* timed-out and closed replies carry nothing (README.md:761).             *)
ReplyIsBacked(w) ==
    /\ mail[w].answer # None =>
          /\ mail[w].via \in {"dashboard", "ta"}
          /\ mail[w].answer \in IF kind[wask[w]] = "approval" THEN GrantsOf(wask[w])
                                                            ELSE committed[wask[w]]
    /\ mail[w].grant # None =>
          mail[w].via = "ta" /\ mail[w].grant \in GrantsOf(wask[w])

RepliesAreBacked == \A w \in Waits : ReplyIsBacked(w)

(* No lost wakeup for a registered wait: one that was parked before its    *)
(* ask was answered or dismissed and is still blocked will be woken by a   *)
(* handler on its way, unless the handler that closed the ask was dropped  *)
(* between its commit and its wake.                                        *)
RegisteredWaiterIsServed ==
    \A w \in early :
        Blocked(w) /\ stored[wask[w]] \in {"answered", "dismissed"} =>
            \/ wask[w] \in orphaned
            \/ \E h \in Handlers : hpc[h] \in {"reread", "wake"} /\ job[h].ask = wask[w]

(* A caller told "timed_out" left no open card behind: the row was closed  *)
(* by somebody, or marked, unless a query of the timeout branch failed.    *)
TimeoutClosesCard ==
    \A w \in Waits \ unrecorded :
        wpc[w] = "done" /\ mail[w].via = "timed_out" => stored[wask[w]] # "open"

(* The inductive invariant of AskLifecycle_proofs.                         *)
Inv ==
    /\ TypeOK
    /\ JobsConsistent
    /\ WaitsConsistent
    /\ SlotOwnerIsBlocked
    /\ OneGrantPerApproval
    /\ ApprovalRows
    /\ RepliesAreBacked
    /\ RegisteredWaiterIsServed
    /\ TimeoutClosesCard

(* The daemon keeps the ledger of ApprovalLedger: a grant is stored once,  *)
(* an approval ask is decided once, in the step that stores its grant, and *)
(* no race replaces the decision.  The decision is the answer with its     *)
(* grant: the status of a decided row may still be overwritten, by a       *)
(* timeout, a dismissal or a cancellation that checked it before.          *)
Ledger == INSTANCE ApprovalLedger
            WITH holder <- grantAsk,
                 decision <- [n \in Asks |->
                                IF kind[n] = "approval" THEN answer[n] ELSE None]

ImplementsLedger == Ledger!LedgerSpec

(* A wait in flight comes back (README.md:732): whoever answers, evicts it *)
(* or fails to wake it, the timer and its ceiling bound the wait.          *)
WaitReturns ==
    \A w \in Waits : wpc[w] \notin {"idle", "done"} ~> wpc[w] \in {"idle", "done"}

-----------------------------------------------------------------------------
(* Statements of the documentation that the code does not keep.            *)

(* handlers.rs:868, "Only transition if still open (a human may have just  *)
(* answered)": a timeout never takes an answered ask.                      *)
AnsweredNeverTimesOut ==
    [][\A n \in Asks : stored[n] = "answered" => stored'[n] # "timedout"]_vars

(* README.md:807, "Returns 409 for a notification that is no longer open": *)
(* an answer in place is not replaced by a second one.                     *)
AnswerIsNotReplaced ==
    [][\A n \in Asks : stored[n] = "answered" => answer'[n] = answer[n]]_vars

(* README.md:898, "In one transaction the grant is stored and the          *)
(* notification answered": no grant is stored for an unanswered ask.       *)
StoredGrantAnswers == \A n \in Asks : GrantsOf(n) # {} => answer[n] # None

(* README.md:902, "GET /wait on an already-answered approval ask returns   *)
(* the same": the grant a reply carries is the one that gave its answer.   *)
ReplyCarriesItsGrant ==
    \A w \in Waits : mail[w].grant # None => mail[w].answer = mail[w].grant
=============================================================================
