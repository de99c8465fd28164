---------------------------- MODULE BlockingClient ----------------------------
(***************************************************************************)
(* `sjbis ask --blocking` and `sjbis wait` (main.rs): a client posts an    *)
(* ask, waits for its answer in GET /wait, and repeats a wait that was     *)
(* interrupted for as long as its budget lasts.  One ask; several clients  *)
(* wait for it when they give the same --id.  Daemons come and go, see     *)
(* DaemonProcess; the row outlives them, the waiters map does not.  Time   *)
(* is relative: Tick moves every timer.                                    *)
(***************************************************************************)
EXTENDS Naturals

CONSTANTS Clients, None,
          MaxWait,    (* MAX_WAIT, how long the daemon holds a wait        *)
          Budget,     (* WAIT_RETRY_BUDGET                                 *)
          Deadlines   (* how far away a deadline may be                    *)

ASSUME ClientAssumption ==
    /\ MaxWait \in Nat \ {0} /\ Budget \in Nat /\ Deadlines \subseteq Nat
    /\ None \notin Clients \cup Nat

VARIABLES
    up,      (* a daemon listens on the port                               *)
    row,     (* the ask: "none" before, "norow" if a rule answered it,     *)
             (* "open" or muted, "answered", "closed", or "marked" as      *)
             (* timed out, which reads as open                             *)
    due,     (* time left to its deadline, or None                         *)
    checked, (* what requests that found the ask open will make of it      *)
    waking,  (* what handlers that closed the ask will tell the waiter     *)
    waiter,  (* the ask's entry in the waiters map, or None                *)
    cpc,     (* per client: what happens next                              *)
    left,    (* per client: how long the daemon will still hold the wait   *)
    spent,   (* per client: time since its first wait, up to Budget        *)
    result,  (* per client: how it ended                                   *)
    (* History, read by properties only. *)
    held,    (* per client: how long the last wait was held                *)
    shown    (* whether the tables ever held an answer, or a closed row    *)

askVars == <<row, checked, waking, shown>>
timers == <<due, left, spent, held>>
vars == <<up, askVars, waiter, cpc, result, timers>>

ReadsOpen == row \in {"open", "marked"}

Upto(n, max) == IF n > max THEN max ELSE n

ClientInit ==
    /\ up = FALSE
    /\ row = "none" /\ due = None /\ checked = {} /\ waking = {} /\ waiter = None
    /\ shown = {}
    /\ cpc = [c \in Clients |-> "new"]
    /\ left = [c \in Clients |-> 0] /\ spent = left /\ held = left
    /\ result = [c \in Clients |-> "none"]

End(c, how) ==
    /\ cpc' = [cpc EXCEPT ![c] = "ended"]
    /\ result' = [result EXCEPT ![c] = how]

-----------------------------------------------------------------------------
(* cmd_ask: the text, the choices, the files or the ttl are refused before *)
(* anything is sent, the post fails, or the ask is not a blocking one.     *)
(* With the caller's id an ask that exists is returned as it is.           *)
Ask(c) ==
    /\ cpc[c] = "new"
    /\ \/ End(c, "refused") /\ UNCHANGED <<row, due>>
       \/ ~up /\ End(c, "failed") /\ UNCHANGED <<row, due>>
       \/ /\ up
          /\ IF row = "none"
             THEN row' \in {"open", "norow"} /\ due' \in Deadlines \cup {None}
             ELSE UNCHANGED <<row, due>>
          /\ \/ cpc' = [cpc EXCEPT ![c] = "request"] /\ UNCHANGED result
             \/ End(c, "posted")
    /\ UNCHANGED <<up, checked, waking, shown, waiter, left, spent, held>>

(* cmd_wait *)
Wait(c) ==
    /\ cpc[c] = "new" /\ row # "none"
    /\ cpc' = [cpc EXCEPT ![c] = "request"]
    /\ UNCHANGED <<up, askVars, waiter, timers, result>>

(* What each client in S does about a wait that was interrupted.           *)
Interrupted(S) ==
    /\ cpc' = [c \in Clients |->
                  IF c \notin S THEN cpc[c]
                  ELSE IF spent[c] >= Budget THEN "ended" ELSE "pause"]
    /\ result' = [c \in Clients |->
                     IF c \in S /\ spent[c] >= Budget THEN "gave_up" ELSE result[c]]

(* Nobody listens on the port.                                             *)
Refused(c) ==
    /\ cpc[c] = "request" /\ ~up
    /\ Interrupted({c})
    /\ UNCHANGED <<up, askVars, waiter, timers>>

(* Mutant of Retry: every attempt has a budget of its own.                 *)
RetryAfresh(c) ==
    /\ cpc[c] = "pause"
    /\ cpc' = [cpc EXCEPT ![c] = "request"]
    /\ spent' = [spent EXCEPT ![c] = 0]
    /\ UNCHANGED <<up, askVars, waiter, due, left, result, held>>

(* After WAIT_RETRY_DELAY, which is short against a tick.                  *)
Retry(c) ==
    /\ cpc[c] = "pause"
    /\ cpc' = [cpc EXCEPT ![c] = "request"]
    /\ UNCHANGED <<up, askVars, waiter, timers, result>>

-----------------------------------------------------------------------------
(* The first half of GET /wait: a closed ask is answered from its row.     *)
(* The body of a reply may be cut off, which is not retried.               *)
Check(c) ==
    /\ cpc[c] = "request" /\ up
    /\ IF row \in {"answered", "closed"}
       THEN End(c, row) \/ End(c, "failed")
       ELSE cpc' = [cpc EXCEPT ![c] = "register"] /\ UNCHANGED result
    /\ UNCHANGED <<up, askVars, waiter, timers>>

(* Mutant of HoldFor: a wait without a deadline to meet is not held.       *)
HoldForDeadline == IF due = None \/ due > MaxWait THEN 0 ELSE due

(* The deadline, but no longer than the ceiling.                           *)
HoldFor == IF due = None THEN MaxWait ELSE Upto(due, MaxWait)

(* The request of c goes on to next, and the wait whose entry it took out  *)
(* of the map is cancelled, unless its time is over.                       *)
Displaces(c, next) ==
    LET evicted(d) == d # c /\ d = waiter /\ cpc[d] = "parked"
        over(d) == spent[d] >= Budget
    IN  /\ cpc' = [d \in Clients |->
                      CASE d = c -> next
                        [] evicted(d) -> IF over(d) THEN "ended" ELSE "pause"
                        [] OTHER -> cpc[d]]
        /\ result' = [d \in Clients |->
                         IF evicted(d) /\ over(d) THEN "gave_up" ELSE result[d]]

(* Its second half: the entry of another wait is replaced.  A deadline     *)
(* that cannot be read counts as none.                                     *)
Register(c) ==
    /\ cpc[c] = "register"
    /\ waiter' = c
    /\ \E hold \in {HoldFor, MaxWait} : left' = [left EXCEPT ![c] = hold]
    /\ held' = [held EXCEPT ![c] = 0]
    /\ Displaces(c, "parked")
    /\ UNCHANGED <<up, askVars, due, spent>>

(* That the client disconnects is not modelled: its own timeout is longer  *)
(* than any hold.                                                          *)
TimeIsOver(c) ==
    /\ cpc[c] = "parked" /\ left[c] = 0
    /\ cpc' = [cpc EXCEPT ![c] = "expired"]
    /\ UNCHANGED <<up, askVars, waiter, timers, result>>

(* The entry is removed, whose ever it is by now.                          *)
RemoveEntry(c) ==
    /\ cpc[c] = "expired"
    /\ waiter' = None
    /\ Displaces(c, "reread")
    /\ UNCHANGED <<up, askVars, timers>>

(* The reply says timed_out, whatever the row says by now.                 *)
ReplyTimedOut(c) == End(c, "timed_out") \/ End(c, "failed")

(* An open row is to be marked, unless it is muted or the query fails.     *)
Reread(c) ==
    /\ cpc[c] = "reread"
    /\ \/ ReadsOpen /\ cpc' = [cpc EXCEPT ![c] = "mark"] /\ UNCHANGED result
       \/ ReplyTimedOut(c)
    /\ UNCHANGED <<up, askVars, waiter, timers>>

(* The UPDATE names the row by its id alone; its failure is ignored.       *)
Mark(c) ==
    /\ cpc[c] = "mark"
    /\ row' \in {row, "marked"}
    /\ ReplyTimedOut(c)
    /\ UNCHANGED <<up, checked, waking, shown, waiter, timers>>

-----------------------------------------------------------------------------
(* POST /answer, /dismiss and /cancel read the row and decide on the copy. *)
(* A cancel may find it closed, and then changes nothing any more.         *)
Admit(outcome) ==
    /\ up /\ ReadsOpen
    /\ checked' = checked \cup {outcome}
    /\ UNCHANGED <<up, row, waking, shown, waiter, cpc, timers, result>>

(* The UPDATE overwrites what became of the row since then; others of its  *)
(* kind may still come.  A cancel wakes nobody.                            *)
Close(outcome) ==
    /\ outcome \in checked
    /\ checked' \in {checked, checked \ {outcome}}
    /\ row' = outcome /\ shown' = shown \cup {outcome}
    /\ \/ waking' = waking \cup {outcome}
       \/ outcome = "closed" /\ UNCHANGED waking
    /\ UNCHANGED <<up, waiter, cpc, timers, result>>

(* POST /grants checks and stores in one transaction; the row of an ask    *)
(* that was marked keeps its status.                                       *)
Grant ==
    /\ up /\ ReadsOpen
    /\ row' = IF row = "open" THEN "answered" ELSE row
    /\ shown' = shown \cup {"answered"} /\ waking' = waking \cup {"answered"}
    /\ UNCHANGED <<up, checked, waiter, cpc, timers, result>>

Wake(outcome) ==
    /\ outcome \in waking
    /\ waking' \in {waking, waking \ {outcome}}
    /\ waiter' = None
    /\ IF waiter = None \/ cpc[waiter] # "parked" THEN UNCHANGED <<cpc, result>>
       ELSE End(waiter, outcome) \/ End(waiter, "failed")
    /\ UNCHANGED <<up, row, checked, shown, timers>>

-----------------------------------------------------------------------------
Tick ==
    /\ due' = IF due = None THEN None ELSE IF due = 0 THEN 0 ELSE due - 1
    /\ left' = [c \in Clients |-> IF left[c] = 0 THEN 0 ELSE left[c] - 1]
    /\ held' = [c \in Clients |->
                   IF cpc[c] = "parked" THEN Upto(held[c] + 1, MaxWait) ELSE held[c]]
    /\ spent' = [c \in Clients |->
                    IF cpc[c] \in {"new", "ended"} THEN spent[c] ELSE Upto(spent[c] + 1, Budget)]
    /\ UNCHANGED <<up, askVars, waiter, cpc, result>>

DaemonComes ==
    /\ ~up /\ up' = TRUE
    /\ UNCHANGED <<askVars, waiter, cpc, timers, result>>

(* When a daemon ends, its map and every request it was serving end.       *)
DaemonGoes ==
    /\ up /\ up' = FALSE
    /\ waiter' = None /\ checked' = {} /\ waking' = {}
    /\ Interrupted({c \in Clients :
                      cpc[c] \in {"register", "parked", "expired", "reread", "mark"}})
    /\ UNCHANGED <<row, shown, timers>>

ClientNext ==
    \/ \E c \in Clients : \/ Ask(c) \/ Wait(c) \/ Refused(c) \/ Retry(c)
                          \/ Check(c) \/ Register(c) \/ TimeIsOver(c)
                          \/ RemoveEntry(c) \/ Reread(c) \/ Mark(c)
    \/ \E outcome \in {"answered", "closed"} : Admit(outcome) \/ Close(outcome) \/ Wake(outcome)
    \/ Grant
    \/ Tick \/ DaemonComes \/ DaemonGoes

(* Time passes, the client takes its steps and a daemon that is up serves. *)
(* Nothing is assumed of daemons, humans or stops.                         *)
Fairness ==
    /\ WF_vars(Tick)
    /\ \A c \in Clients : /\ WF_vars(Refused(c) \/ Check(c)) /\ WF_vars(Retry(c))
                          /\ WF_vars(Register(c)) /\ WF_vars(TimeIsOver(c))
                          /\ WF_vars(RemoveEntry(c)) /\ WF_vars(Reread(c) \/ Mark(c))

ClientSpec == ClientInit /\ [][ClientNext]_vars /\ Fairness

-----------------------------------------------------------------------------
(* A client that waited ends in one of three ways: with an answer or a     *)
(* dismissal that the tables have held, with timed_out when the deadline   *)
(* is over or the daemon held the wait as long as it does, or with an      *)
(* error, and with the budget used up if the error was an interruption.    *)
EndsForAReason ==
    \A c \in Clients :
        /\ result[c] \in {"answered", "closed"} => result[c] \in shown
        /\ result[c] = "timed_out" => due = 0 \/ held[c] = MaxWait
        /\ result[c] = "gave_up" => spent[c] = Budget

(* main.rs:441, for a bounded budget: a client that waits ends, however    *)
(* often daemons come and go and other clients take its place in the map.  *)
ClientEnds == \A c \in Clients : cpc[c] = "request" ~> cpc[c] = "ended"

(* main.rs:442, handlers.rs:840: timed_out is said past the deadline, and  *)
(* the ceiling is for asks without one.                                    *)
TimesOutPastDeadline ==
    \A c \in Clients : result[c] = "timed_out" => due \in {0, None}
=============================================================================
