---------------------------- MODULE IMessagePlugin ----------------------------
(***************************************************************************)
(* plugins/imessage: two tasks look for new messages, one in the database  *)
(* of the Messages app ("db"), one through the app ("app"), each with a    *)
(* clone of the DedupCache.  Both ask the human about what looks like a    *)
(* question and send the answer back.  The date of a message is not the    *)
(* time its row is inserted: one that is synced late bears an older date,  *)
(* and the clock of another machine may be ahead.                          *)
(***************************************************************************)
EXTENDS QuestionFilter, FiniteSets, SequencesExt

CONSTANTS IMs,      (* the messages that may arrive                        *)
          Handle,   (* the phone number or address each is exchanged with  *)
          Contact,  (* the name the app shows for a handle                 *)
          IMText,   (* its text, for the heuristic                         *)
          NullText, (* those whose row has no text, though the app may     *)
          Own,      (* those the human or the plugin sent                  *)
          Skews,    (* how far a date may be off the time of insertion     *)
          Recent,   (* five minutes, in ticks                              *)
          MaxIMTime (* bound on the clock                                  *)

ASSUME IMAssumption ==
    IsFiniteSet(IMs) /\ Skews \subseteq Int /\ Recent \in Nat /\ MaxIMTime \in Nat

VARIABLES
    imnow,
    imup, imstart,         (* the program runs; startup_time               *)
    impc, imbatch, imseen, (* per task: next step, messages left, cache    *)
    imlast,                (* last_check of the task "db"                  *)
    imdate,                (* the date of a message; 0: not yet inserted   *)
    (* History, read by properties only. *)
    imlate,                (* inserted with a query out, or dated too early*)
    imskipped,             (* rows that "db" fetched and could not convert *)
    imasked                (* the messages each task asked about this run  *)

imTaskVars == <<impc, imbatch, imseen, imlast, imskipped, imasked>>
imVars == <<imnow, imup, imstart, imTaskVars, imdate, imlate>>

IMTasks == {"db", "app"}
Arrived == {m \in IMs : imdate[m] > 0}

IMInit ==
    /\ imnow = 0
    /\ imup = FALSE /\ imstart = 0
    /\ impc = [t \in IMTasks |-> "poll"]
    /\ imbatch = [t \in IMTasks |-> <<>>]
    /\ imseen = [t \in IMTasks |-> {}]
    /\ imlast = 0
    /\ imdate = [m \in IMs |-> 0]
    /\ imlate = {} /\ imskipped = {}
    /\ imasked = [t \in IMTasks |-> <<>>]

(* Nothing is saved: every start begins with an empty cache, at the present.*)
IMStart ==
    /\ ~imup /\ imup' = TRUE
    /\ imstart' = imnow /\ imlast' = imnow
    /\ impc' = [t \in IMTasks |-> "poll"]
    /\ imbatch' = [t \in IMTasks |-> <<>>]
    /\ imseen' = [t \in IMTasks |-> {}]
    /\ imasked' = [t \in IMTasks |-> <<>>]
    /\ imlate' = {} /\ imskipped' = {}
    /\ UNCHANGED <<imnow, imdate>>

IMStop ==
    /\ imup /\ imup' = FALSE
    /\ UNCHANGED <<imnow, imstart, imTaskVars, imdate, imlate>>

(* A row is inserted.                                                      *)
IMArrives(m) ==
    /\ imdate[m] = 0 /\ imnow < MaxIMTime
    /\ imnow' = imnow + 1
    /\ \E date \in {imnow + 1 + skew : skew \in Skews} \cap (Nat \ {0}) :
          /\ imdate' = [imdate EXCEPT ![m] = date]
          /\ imlate' = IF impc["db"] = "clock" \/ date <= imlast THEN imlate \cup {m}
                       ELSE imlate
    /\ UNCHANGED <<imup, imstart, imTaskVars>>

IMTick ==
    /\ imnow < MaxIMTime /\ imnow' = imnow + 1
    /\ UNCHANGED <<imup, imstart, imTaskVars, imdate, imlate>>

-----------------------------------------------------------------------------
(* ORDER BY date                                                           *)
ByDate(S) == {s \in SetToSeqs(S) : \A i, j \in DOMAIN s : i < j => imdate[s[i]] <= imdate[s[j]]}

(* fetch_new_messages: incoming messages with a text and a date later than *)
(* last_check.  A row that cannot be converted, or read, is left out.      *)
Query ==
    /\ imup /\ impc["db"] = "poll"
    /\ LET new == {m \in Arrived \ (Own \cup NullText) : imdate[m] > imlast}
       IN  \E bad \in SUBSET new :
             /\ \E batch \in ByDate(new \ bad) : imbatch' = [imbatch EXCEPT !["db"] = batch]
             /\ imskipped' = imskipped \cup bad
    /\ impc' = [impc EXCEPT !["db"] = "clock"]
    /\ UNCHANGED <<imnow, imup, imstart, imseen, imlast, imdate, imlate, imasked>>

(* Mutant of QueryFails: the check counts although the query failed.       *)
QueryFailsAndCounts ==
    /\ imup /\ impc["db"] = "poll"
    /\ imlast' = imnow
    /\ UNCHANGED <<imnow, imup, imstart, impc, imbatch, imseen, imdate, imlate, imskipped,
                   imasked>>

(* The database is missing or locked: the next tick tries again.           *)
QueryFails == imup /\ impc["db"] = "poll" /\ UNCHANGED imVars

(* last_check is the time after the query, not that of the last message.   *)
ReadClock ==
    /\ imup /\ impc["db"] = "clock"
    /\ imlast' = imnow
    /\ impc' = [impc EXCEPT !["db"] = "next"]
    /\ UNCHANGED <<imnow, imup, imstart, imbatch, imseen, imdate, imlate, imskipped, imasked>>

(* The messages of the last five minutes, the human's own too, in the      *)
(* order of the chats; the script leaves out what it cannot read.          *)
RecentMessages ==
    UNION {SetToSeqs(s) : s \in SUBSET {m \in Arrived : imdate[m] > imnow - Recent}}

(* On a ping of the observer thread; a fetch that fails finds nothing.     *)
FetchRecent ==
    /\ imup /\ impc["app"] = "poll"
    /\ \E batch \in RecentMessages :
          imbatch' = [imbatch EXCEPT !["app"] = batch]
    /\ impc' = [impc EXCEPT !["app"] = "next"]
    /\ UNCHANGED <<imnow, imup, imstart, imseen, imlast, imdate, imlate, imskipped, imasked>>

IMBatchEnds(t) ==
    /\ imup /\ impc[t] = "next" /\ imbatch[t] = <<>>
    /\ impc' = [impc EXCEPT ![t] = "poll"]
    /\ UNCHANGED <<imnow, imup, imstart, imbatch, imseen, imlast, imdate, imlate, imskipped,
                   imasked>>

(* DedupKey: who and what, but not when.  A row names the handle, the app  *)
(* the contact.                                                            *)
DedupKey(t, m) == <<IF t = "db" THEN Handle[m] ELSE Contact[Handle[m]], IMText[m]>>

(* Mutant of Predates: the app's messages are not compared with the start. *)
NothingPredates(m) == FALSE

Predates(m) == imdate[m] < imstart

(* The next message: skipped if it is old, seen, own or no question, else  *)
(* asked about.  It is remembered before it is judged.                     *)
TakeMessage(t) ==
    /\ imup /\ impc[t] = "next" /\ imbatch[t] # <<>>
    /\ LET m == Head(imbatch[t])
           new == ~Predates(m) /\ DedupKey(t, m) \notin imseen[t]
           ask == new /\ m \notin Own /\ IMLooksLikeQuestion(IMText[m])
       IN  /\ imseen' = IF new THEN [imseen EXCEPT ![t] = @ \cup {DedupKey(t, m)}]
                               ELSE imseen
           /\ impc' = IF ask THEN [impc EXCEPT ![t] = "ask"] ELSE impc
           /\ imasked' = IF ask THEN [imasked EXCEPT ![t] = Append(@, m)] ELSE imasked
           /\ imbatch' = IF ask THEN imbatch ELSE [imbatch EXCEPT ![t] = Tail(@)]
    /\ UNCHANGED <<imnow, imup, imstart, imlast, imdate, imlate, imskipped>>

(* The child ends without an answer, or fails.                             *)
NoAnswer(t) ==
    /\ imup /\ impc[t] = "ask"
    /\ impc' = [impc EXCEPT ![t] = "next"]
    /\ imbatch' = [imbatch EXCEPT ![t] = Tail(@)]
    /\ UNCHANGED <<imnow, imup, imstart, imseen, imlast, imdate, imlate, imskipped, imasked>>

Answered(t) ==
    /\ imup /\ impc[t] = "ask"
    /\ impc' = [impc EXCEPT ![t] = "reply"]
    /\ UNCHANGED <<imnow, imup, imstart, imbatch, imseen, imlast, imdate, imlate, imskipped,
                   imasked>>

(* send_reply: a message that was sent is one of Own that arrives; one     *)
(* that was not is logged, or not even that.                               *)
ReplySent(t) ==
    /\ imup /\ impc[t] = "reply"
    /\ impc' = [impc EXCEPT ![t] = "next"]
    /\ imbatch' = [imbatch EXCEPT ![t] = Tail(@)]
    /\ UNCHANGED <<imnow, imup, imstart, imseen, imlast, imdate, imlate, imskipped, imasked>>

IMNext ==
    \/ IMStart \/ IMStop \/ IMTick
    \/ \E m \in IMs : IMArrives(m)
    \/ Query \/ QueryFails \/ ReadClock \/ FetchRecent
    \/ \E t \in IMTasks : \/ IMBatchEnds(t) \/ TakeMessage(t)
                          \/ NoAnswer(t) \/ Answered(t) \/ ReplySent(t)

-----------------------------------------------------------------------------
(* README of the plugin: new messages are polled.  What the database holds *)
(* for this run and last_check has passed is in the batch or was judged,   *)
(* or a message with its sender and text was; unless its row could not be  *)
(* converted, was inserted between a query and the reading of the clock,   *)
(* or came with a date that last_check had passed already.                 *)
LostForAReason ==
    imup => \A m \in Arrived \ (Own \cup NullText) :
        imdate[m] > imstart /\ imdate[m] <= imlast =>
            \/ m \in ToSet(imbatch["db"]) \/ DedupKey("db", m) \in imseen["db"]
            \/ m \in imlate \cup imskipped

(* Each task by itself asks about questions of this run only (main.rs:242),*)
(* never about the human's own, and once for all that say the same,        *)
(* however the batches of the app overlap.  The other task may ask about   *)
(* the same message.                                                       *)
AsksAreDue ==
    imup => \A t \in IMTasks : \A i \in DOMAIN imasked[t] :
        LET m == imasked[t][i]
        IN  /\ m \notin Own /\ imdate[m] >= imstart /\ IMLooksLikeQuestion(IMText[m])
            /\ \A j \in DOMAIN imasked[t] :
                  DedupKey(t, m) = DedupKey(t, imasked[t][j]) => i = j
=============================================================================
