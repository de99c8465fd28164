------------------------------- MODULE GogPlugin -------------------------------
(***************************************************************************)
(* plugins/gog: per Google profile one task that polls Gmail and one that  *)
(* polls Chat.  A task handles the messages of a poll one by one: it       *)
(* remembers the message, has it classified, asks the human through        *)
(* `sjbis ask --blocking`, sends the answer back and marks mail as read.   *)
(* The program may be stopped and started at any time; nothing is saved.   *)
(***************************************************************************)
EXTENDS QuestionFilter, FiniteSets, SequencesExt

CONSTANTS ProfileLists, (* the profiles a run may be given, see GogStart   *)
          Mails, Chats, (* Gmail threads and Chat messages                 *)
          SeenBy,       (* the profiles each of them is visible to         *)
          Body, Subject,(* their texts, for the heuristic                  *)
          PageSize,     (* --max: threads a search returns                 *)
          MaxRuns,      (* bound on the starts of the program              *)
          MaxTurns      (* bound on how often a thread turns unread again  *)

ASSUME GogAssumption ==
    /\ PageSize \in Nat \ {0} /\ MaxRuns \in Nat /\ MaxTurns \in Nat
    /\ ProfileLists \subseteq Seq(STRING) \ {<<>>}
    /\ IsFiniteSet(Mails \cup Chats) /\ Mails \cap Chats = {}

VARIABLES
    gprofiles,  (* the profiles this run polls; <<>> while it is stopped   *)
    gpc, gbatch, gseen,    (* per task: next step, messages left, DedupCache *)
    gread,      (* per message: "absent", "unread" or "read"               *)
    (* History, read by properties only. *)
    gruns,      (* starts of the program                                   *)
    greplies,   (* per task and message: replies sent in this run          *)
    gserved,    (* per message: runs in which a reply was sent to it       *)
    gunmarked,  (* replies after which the message was not marked as read  *)
    gturned     (* how often a thread turned unread again                  *)

gogHistory == <<gruns, greplies, gserved, gunmarked, gturned>>
gogVars == <<gprofiles, gpc, gbatch, gseen, gread, gogHistory>>

Items == Mails \cup Chats
Tasks == {"gmail", "chat"} \X UNION {DOMAIN list : list \in ProfileLists}
Sees(t, m) == /\ m \in IF t[1] = "gmail" THEN Mails ELSE Chats
              /\ gprofiles[t[2]] \in SeenBy[m]

GogInit ==
    /\ gprofiles = <<>>
    /\ gpc = [t \in Tasks |-> "down"]
    /\ gbatch = [t \in Tasks |-> <<>>]
    /\ gseen = [t \in Tasks |-> {}]
    /\ gread = [m \in Items |-> "absent"]
    /\ gruns = 0
    /\ greplies = [t \in Tasks |-> [m \in Items |-> 0]]
    /\ gserved = [m \in Items |-> 0] /\ gunmarked = gserved /\ gturned = gserved

(* No reply was sent to m in this run.                                     *)
FirstToAnswer(m) == \A t \in Tasks : greplies[t][m] = 0

(* A run polls the profiles of its command line or, if it has none, the    *)
(* clients that gog's config.json names for its accounts, and "default" if *)
(* there are none.  What is named twice is polled by two tasks.            *)
GogStart ==
    /\ gprofiles = <<>> /\ gruns < MaxRuns
    /\ \E list \in ProfileLists :
          /\ gprofiles' = list
          /\ gpc' = [t \in Tasks |-> IF t[2] \in DOMAIN list THEN "poll" ELSE "down"]
    /\ gruns' = gruns + 1
    /\ UNCHANGED <<gbatch, gseen, gread, greplies, gserved, gunmarked, gturned>>

(* A reply whose mail was about to be marked stays without its mark, and a *)
(* child that was sending one may have sent it.                            *)
GogStop ==
    /\ gprofiles # <<>>
    /\ gprofiles' = <<>>
    /\ gpc' = [t \in Tasks |-> "down"]
    /\ gbatch' = [t \in Tasks |-> <<>>]
    /\ gseen' = [t \in Tasks |-> {}]
    /\ greplies' = [t \in Tasks |-> [m \in Items |-> 0]]
    /\ \E sent \in SUBSET {t \in Tasks : gpc[t] = "reply"} :
          LET last == {Head(gbatch[t]) : t \in sent}
              unmarked == {Head(gbatch[t]) : t \in {u \in Tasks : gpc[u] = "markReplied"}}
          IN  /\ gserved' = [m \in Items |->
                    gserved[m] + IF m \in last /\ FirstToAnswer(m) THEN 1 ELSE 0]
              /\ gunmarked' = [m \in Items |->
                    gunmarked[m] + IF m \in last \cup unmarked THEN 1 ELSE 0]
    /\ UNCHANGED <<gread, gruns, gturned>>

(* Google, and the human at another client.                                *)
Arrives(m) ==
    /\ gread[m] = "absent"
    /\ gread' = [gread EXCEPT ![m] = "unread"]
    /\ UNCHANGED <<gprofiles, gpc, gbatch, gseen, gogHistory>>

(* Or it is a day old, which takes it out of the search as well.           *)
IsReadElsewhere(m) ==
    /\ m \in Mails /\ gread[m] = "unread"
    /\ gread' = [gread EXCEPT ![m] = "read"]
    /\ UNCHANGED <<gprofiles, gpc, gbatch, gseen, gogHistory>>

(* A thread gets a new message, or the human marks it as unread; or it had *)
(* another unread message than the one that was marked.                    *)
TurnsUnread(m) ==
    /\ m \in Mails /\ gread[m] = "read" /\ gturned[m] < MaxTurns
    /\ gread' = [gread EXCEPT ![m] = "unread"]
    /\ gturned' = [gturned EXCEPT ![m] = @ + 1]
    /\ UNCHANGED <<gprofiles, gpc, gbatch, gseen, gruns, greplies, gserved, gunmarked>>

-----------------------------------------------------------------------------
(* A page of the unread mail of the last day.                              *)
MailPages(t) ==
    LET found == {m \in Mails : Sees(t, m) /\ gread[m] = "unread"}
    IN  IF Cardinality(found) <= PageSize THEN {found}
        ELSE {s \in SUBSET found : Cardinality(s) = PageSize}

(* Every message of every space, read or not.                              *)
ChatPages(t) == {{m \in Chats : Sees(t, m) /\ gread[m] # "absent"}}

Poll(t) ==
    /\ gpc[t] = "poll"
    /\ \E s \in IF t[1] = "gmail" THEN MailPages(t) ELSE ChatPages(t) : \E batch \in SetToSeqs(s) :
          gbatch' = [gbatch EXCEPT ![t] = batch]
    /\ gpc' = [gpc EXCEPT ![t] = "next"]
    /\ UNCHANGED <<gprofiles, gseen, gread, gogHistory>>

(* After a failed search the task polls again, after ten minutes if it was *)
(* not let in; a ticker that is behind fires at once.                      *)
PollFails(t) ==
    /\ gpc[t] = "poll"
    /\ gpc' = [gpc EXCEPT ![t] = "backoff"]
    /\ UNCHANGED <<gprofiles, gbatch, gseen, gread, gogHistory>>

BackoffEnds(t) ==
    /\ gpc[t] = "backoff"
    /\ gpc' = [gpc EXCEPT ![t] = "poll"]
    /\ UNCHANGED <<gprofiles, gbatch, gseen, gread, gogHistory>>

BatchEnds(t) ==
    /\ gpc[t] = "next" /\ gbatch[t] = <<>>
    /\ gpc' = [gpc EXCEPT ![t] = "poll"]
    /\ UNCHANGED <<gprofiles, gbatch, gseen, gread, gogHistory>>

(* The task is done with the first message of its batch.                   *)
DoneWith(t) == gbatch' = [gbatch EXCEPT ![t] = Tail(@)]
               /\ gpc' = [gpc EXCEPT ![t] = "next"]

SkipSeen(t) ==
    /\ gpc[t] = "next" /\ gbatch[t] # <<>> /\ Head(gbatch[t]) \in gseen[t]
    /\ DoneWith(t)
    /\ UNCHANGED <<gprofiles, gseen, gread, gogHistory>>

(* Mutant of Remember: the cache is never filled.                          *)
RememberNothing(t) == UNCHANGED gseen

(* The cache of one task: its keys hold the service and the profile.       *)
Remember(t) == gseen' = [gseen EXCEPT ![t] = @ \cup {Head(gbatch[t])}]

Consider(t) ==
    /\ gpc[t] = "next" /\ gbatch[t] # <<>> /\ Head(gbatch[t]) \notin gseen[t]
    /\ Remember(t)
    /\ gpc' = [gpc EXCEPT ![t] = "classify"]
    /\ UNCHANGED <<gprofiles, gbatch, gread, gogHistory>>

(* The heuristic, when the model gave no answer: a mail whose body could   *)
(* not be fetched has its subject only, a message of Chat has no subject.  *)
Fallback(m) ==
    LET subject == IF m \in Mails THEN GogLooksLikeQuestion(Subject[m]) ELSE "no"
        body == GogLooksLikeQuestion(Body[m])
    IN  (IF m \in Mails THEN {subject} ELSE {})
           \cup {IF body = "no" THEN subject ELSE body}

(* is_question_for_user: the model says yes or no, or the call fails.      *)
Verdicts(m) == {"yes", "no"} \cup Fallback(m)

IsAQuestion(t) ==
    /\ gpc[t] = "classify" /\ "yes" \in Verdicts(Head(gbatch[t]))
    /\ gpc' = [gpc EXCEPT ![t] = "ask"]
    /\ UNCHANGED <<gprofiles, gbatch, gseen, gread, gogHistory>>

IsNoQuestion(t) ==
    /\ gpc[t] = "classify" /\ "no" \in Verdicts(Head(gbatch[t]))
    /\ DoneWith(t)
    /\ UNCHANGED <<gprofiles, gseen, gread, gogHistory>>

(* A panic ends the task; nobody joins it or starts it again.              *)
Panics(t) ==
    /\ gpc[t] = "classify" /\ "panic" \in Verdicts(Head(gbatch[t]))
    /\ gpc' = [gpc EXCEPT ![t] = "dead"]
    /\ UNCHANGED <<gprofiles, gbatch, gseen, gread, gogHistory>>

(* surface_question blocks until the child has an answer, ends without one *)
(* (the card was dismissed, muted or timed out) or fails.                  *)
AnswerComes(t) ==
    /\ gpc[t] = "ask"
    /\ gpc' = [gpc EXCEPT ![t] = "reply"]
    /\ UNCHANGED <<gprofiles, gbatch, gseen, gread, gogHistory>>

MailUnanswered(t) ==
    /\ gpc[t] = "ask"
    /\ gpc' = [gpc EXCEPT ![t] = "mark"]
    /\ UNCHANGED <<gprofiles, gbatch, gseen, gread, gogHistory>>

ChatUnanswered(t) ==
    /\ gpc[t] = "ask"
    /\ DoneWith(t)
    /\ UNCHANGED <<gprofiles, gseen, gread, gogHistory>>

AskFails(t) ==
    /\ gpc[t] = "ask"
    /\ DoneWith(t)
    /\ UNCHANGED <<gprofiles, gseen, gread, gogHistory>>

(* A reply of t has gone out.                                              *)
Sends(t) ==
    LET m == Head(gbatch[t]) IN
    /\ greplies' = [greplies EXCEPT ![t][m] = @ + 1]
    /\ gserved' = [gserved EXCEPT ![m] = IF FirstToAnswer(m) THEN @ + 1 ELSE @]

StaysUnmarked(m) == gunmarked' = [gunmarked EXCEPT ![m] = @ + 1]

MailReply(t) ==
    /\ gpc[t] = "reply"
    /\ Sends(t)
    /\ gpc' = [gpc EXCEPT ![t] = "markReplied"]
    /\ UNCHANGED <<gprofiles, gbatch, gseen, gread, gruns, gunmarked, gturned>>

ChatReply(t) ==
    /\ gpc[t] = "reply"
    /\ Sends(t)
    /\ DoneWith(t)
    /\ UNCHANGED <<gprofiles, gseen, gread, gruns, gunmarked, gturned>>

(* gog reports an error, before or after it has sent the reply: the        *)
(* message is remembered, and mail stays unread.                           *)
ReplyFails(t) ==
    /\ gpc[t] = "reply"
    /\ DoneWith(t)
    /\ \/ UNCHANGED <<greplies, gserved, gunmarked>>
       \/ Sends(t) /\ StaysUnmarked(Head(gbatch[t]))
    /\ UNCHANGED <<gprofiles, gseen, gread, gruns, gturned>>

MarkRead(t) ==
    /\ gpc[t] \in {"mark", "markReplied"}
    /\ gread' = [gread EXCEPT ![Head(gbatch[t])] = "read"]
    /\ DoneWith(t)
    /\ UNCHANGED <<gprofiles, gseen, gogHistory>>

MarkFails(t) ==
    /\ gpc[t] \in {"mark", "markReplied"}
    /\ DoneWith(t)
    /\ IF gpc[t] = "markReplied" THEN StaysUnmarked(Head(gbatch[t])) ELSE UNCHANGED gunmarked
    /\ UNCHANGED <<gprofiles, gseen, gread, gruns, greplies, gserved, gturned>>

CommonStep(t) ==
    \/ Poll(t) \/ PollFails(t) \/ BackoffEnds(t) \/ BatchEnds(t)
    \/ SkipSeen(t) \/ Consider(t) \/ IsAQuestion(t) \/ IsNoQuestion(t) \/ Panics(t)
    \/ AnswerComes(t) \/ AskFails(t) \/ ReplyFails(t)

MailTask(t) ==
    t[1] = "gmail" /\ \/ CommonStep(t) \/ MailUnanswered(t)
                      \/ MailReply(t) \/ MarkRead(t) \/ MarkFails(t)

ChatTask(t) ==
    t[1] = "chat" /\ (CommonStep(t) \/ ChatUnanswered(t) \/ ChatReply(t))

GogNext ==
    \/ GogStart \/ GogStop
    \/ \E m \in Items : Arrives(m) \/ IsReadElsewhere(m) \/ TurnsUnread(m)
    \/ \E t \in Tasks : MailTask(t) \/ ChatTask(t)

-----------------------------------------------------------------------------
(* README of the plugin, "Marks as read to prevent resurfacing": no task   *)
(* answers a message twice in a run, whatever its thread does meanwhile.   *)
(* A mail is answered in one run, and in one more run at most for each     *)
(* reply that it was not marked as read after, because a call failed or    *)
(* the program stopped, and each time it turned unread again.  Tasks that  *)
(* see the same mail may each answer it in that run, and a message of Chat *)
(* may be answered in every run.                                           *)
AnsweredInOneRun ==
    /\ \A t \in Tasks, m \in Items : greplies[t][m] <= 1
    /\ \A m \in Mails : gserved[m] <= 1 + gunmarked[m] + gturned[m]
=============================================================================
