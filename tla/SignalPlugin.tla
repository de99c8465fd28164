----------------------------- MODULE SignalPlugin -----------------------------
(***************************************************************************)
(* plugins/signal: one task that drains the account's queue with           *)
(* `signal-cli receive`, asks the human about the questions in it and      *)
(* sends the answers back.  What was received is nowhere but in memory.  A *)
(* message bears the time of its sender's clock, which may be off, and is  *)
(* queued any time later; no two of one sender bear the same time.         *)
(***************************************************************************)
EXTENDS QuestionFilter, SequencesExt

CONSTANTS Envelopes,    (* what may be queued                              *)
          Unparsed,     (* those whose line is not a SignalEnvelope        *)
          Sync,         (* those sent from the human's other devices       *)
          SigText,      (* the text of the others, or None                 *)
          SigSkews,     (* how far a sender's clock may be off             *)
          None,
          MaxDeliveries,(* bound on the deliveries of an envelope          *)
          MaxSigTime    (* bound on the clock                              *)

ASSUME SignalAssumption == 
    SigSkews \subseteq Int /\ MaxSigTime \in Nat /\ MaxDeliveries \in Nat

VARIABLES
    signow,
    sigup,
    sigpc, sigbatch, sigseen, siglast,  (* next step, batch, cache, last_check *)
    sigsent,    (* the time an envelope bears; 0: not yet sent             *)
    sigqueue,   (* the queue of the account                                *)
    sigcopies,  (* how often an envelope was queued                        *)
    (* History, read by properties only. *)
    sigtaken,   (* what left the queue                                     *)
    sigstart,   (* when this run, or the last, was started                 *)
    siglate,    (* on its way when last_check was set, or dated too early  *)
    sigdropped, (* lost with a run, a receive that failed, or a test       *)
    sigjudged,  (* envelopes judged in any run                             *)
    sigasked    (* times an envelope was asked about in this run           *)

sigWorld == <<signow, sigsent, sigqueue, sigcopies>>
sigTask == <<sigpc, sigbatch, sigseen, siglast>>
sigHistory == <<sigtaken, sigstart, siglate, sigdropped, sigjudged, sigasked>>
sigVars == <<sigWorld, sigup, sigTask, sigHistory>>

Sent == {e \in Envelopes : sigsent[e] > 0}

SigInit ==
    /\ signow = 0 /\ sigup = FALSE
    /\ sigpc = "poll" /\ sigbatch = <<>> /\ sigseen = {} /\ siglast = 0
    /\ sigsent = [e \in Envelopes |-> 0] /\ sigqueue = <<>>
    /\ sigcopies = [e \in Envelopes |-> 0]
    /\ sigtaken = {} /\ sigstart = 0 /\ siglate = {} /\ sigdropped = {} /\ sigjudged = {}
    /\ sigasked = [e \in Envelopes |-> 0]

SigStart ==
    /\ ~sigup /\ sigup' = TRUE
    /\ sigpc' = "poll" /\ sigbatch' = <<>> /\ sigseen' = {} /\ siglast' = signow
    /\ sigstart' = signow /\ sigasked' = [e \in Envelopes |-> 0]
    /\ siglate' = siglate \cup (Sent \ sigtaken)
    /\ UNCHANGED <<sigWorld, sigtaken, sigdropped, sigjudged>>

SigStop ==
    /\ sigup /\ sigup' = FALSE
    /\ sigdropped' = sigdropped \cup ToSet(sigbatch)
    /\ sigbatch' = <<>>
    /\ UNCHANGED <<sigWorld, sigpc, sigseen, siglast, sigtaken, sigstart, siglate,
                   sigjudged, sigasked>>

Send(e) ==
    /\ sigsent[e] = 0 /\ signow < MaxSigTime
    /\ signow' = signow + 1
    /\ \E date \in {signow + 1 + skew : skew \in SigSkews} \cap (Nat \ {0}) :
          /\ sigsent' = [sigsent EXCEPT ![e] = date]
          /\ siglate' = IF date <= siglast THEN siglate \cup {e} ELSE siglate
    /\ UNCHANGED <<sigqueue, sigcopies, sigup, sigTask, sigtaken, sigstart, sigdropped,
                   sigjudged, sigasked>>

(* The server may deliver an envelope again that was not acknowledged.     *)
Deliver(e) ==
    /\ e \in Sent \ ToSet(sigqueue) /\ sigcopies[e] < MaxDeliveries
    /\ sigqueue' = Append(sigqueue, e)
    /\ sigcopies' = [sigcopies EXCEPT ![e] = @ + 1]
    /\ UNCHANGED <<signow, sigsent, sigup, sigTask, sigHistory>>

-----------------------------------------------------------------------------
(* A line that is no SignalEnvelope is skipped, also one that holds an     *)
(* envelope in its field "envelope".                                       *)
Readable == {e \in Envelopes \ (Unparsed \cup Sync) : SigText[e] # None}

(* Neither the human's own, nor without a text, nor dated before last_check*)
(* (which, in nanoseconds, is never quite the time of an envelope).        *)
Relevant(e) == e \in Readable /\ sigsent[e] > siglast

(* The relevant of the queue, in its order; no envelope is in it twice.    *)
Kept == {b \in SetToSeqs({e \in ToSet(sigqueue) : Relevant(e)}) :
            \A i, j \in DOMAIN b : i < j =>
                \E k, l \in DOMAIN sigqueue :
                    k < l /\ b[i] = sigqueue[k] /\ b[j] = sigqueue[l]}

(* fetch_messages empties the queue, whatever it keeps of it.              *)
Receive ==
    /\ sigup /\ sigpc = "poll"
    /\ sigbatch' \in Kept
    /\ sigtaken' = sigtaken \cup ToSet(sigqueue)
    /\ sigqueue' = <<>>
    /\ sigpc' = "clock"
    /\ UNCHANGED <<signow, sigsent, sigcopies, sigup, sigseen, siglast, sigstart, siglate,
                   sigdropped, sigjudged, sigasked>>

(* Mutant of ReceiveFails: the check counts although nothing was received. *)
ReceiveFailsAndCounts ==
    /\ sigup /\ sigpc = "poll"
    /\ sigpc' = "backoff" /\ siglast' = signow
    /\ UNCHANGED <<sigWorld, sigup, sigbatch, sigseen, sigHistory>>

(* The first n of the queue are gone, and nothing of them is kept.         *)
Drains(n) ==
    LET gone == {sigqueue[i] : i \in 1 .. n}
    IN  /\ sigqueue' = SubSeq(sigqueue, n + 1, Len(sigqueue))
        /\ sigtaken' = sigtaken \cup gone
        /\ sigdropped' = sigdropped \cup gone

(* The output of a failed receive is discarded, whatever it had received.  *)
(* An account that is not registered is left alone for five minutes.       *)
ReceiveFails ==
    /\ sigup /\ sigpc = "poll"
    /\ \E n \in 0 .. Len(sigqueue) : Drains(n)
    /\ sigpc' = "backoff"
    /\ UNCHANGED <<signow, sigsent, sigcopies, sigup, sigbatch, sigseen, siglast, sigstart,
                   siglate, sigjudged, sigasked>>

(* The command `test` receives too, beside a run or without one, and only  *)
(* prints what would be asked.                                             *)
TestReceives ==
    /\ sigqueue # <<>> /\ Drains(Len(sigqueue))
    /\ UNCHANGED <<signow, sigsent, sigcopies, sigup, sigTask, sigstart, siglate, sigjudged,
                   sigasked>>

SigBackoffEnds ==
    /\ sigup /\ sigpc = "backoff"
    /\ sigpc' = "poll"
    /\ UNCHANGED <<sigWorld, sigup, sigbatch, sigseen, siglast, sigHistory>>

SigReadClock ==
    /\ sigup /\ sigpc = "clock"
    /\ siglast' = signow
    /\ siglate' = siglate \cup (Sent \ sigtaken)
    /\ sigpc' = "next"
    /\ UNCHANGED <<sigWorld, sigup, sigbatch, sigseen, sigtaken, sigstart, sigdropped,
                   sigjudged, sigasked>>

SigBatchEnds ==
    /\ sigup /\ sigpc = "next" /\ sigbatch = <<>>
    /\ sigpc' = "poll"
    /\ UNCHANGED <<sigWorld, sigup, sigbatch, sigseen, siglast, sigHistory>>

(* is_question_for_user, or the heuristic when the model gives no answer.  *)
SigVerdicts(e) == {TRUE, FALSE} \cup {SignalLooksLikeQuestion(SigText[e])}

(* Sender and time name a message; it is remembered, then judged.          *)
SigTake ==
    /\ sigup /\ sigpc = "next" /\ sigbatch # <<>>
    /\ LET e == Head(sigbatch) IN
       \E ask \in IF e \in sigseen THEN {FALSE} ELSE SigVerdicts(e) :
          /\ sigseen' = sigseen \cup {e}
          /\ sigjudged' = sigjudged \cup {e}
          /\ sigpc' = IF ask THEN "ask" ELSE sigpc
          /\ sigbatch' = IF ask THEN sigbatch ELSE Tail(sigbatch)
          /\ sigasked' = IF ask THEN [sigasked EXCEPT ![e] = @ + 1] ELSE sigasked
    /\ UNCHANGED <<sigWorld, sigup, siglast, sigtaken, sigstart, siglate, sigdropped>>

(* An answer is sent to the sender; a failure is logged; there may be none.*)
SigAskEnds ==
    /\ sigup /\ sigpc = "ask"
    /\ \/ sigpc' = "reply" /\ UNCHANGED sigbatch
       \/ sigpc' = "next" /\ sigbatch' = Tail(sigbatch)
    /\ UNCHANGED <<sigWorld, sigup, sigseen, siglast, sigHistory>>

SigReplyEnds ==
    /\ sigup /\ sigpc = "reply"
    /\ sigpc' = "next" /\ sigbatch' = Tail(sigbatch)
    /\ UNCHANGED <<sigWorld, sigup, sigseen, siglast, sigHistory>>

SigNext ==
    \/ SigStart \/ SigStop
    \/ \E e \in Envelopes : Send(e) \/ Deliver(e)
    \/ Receive \/ ReceiveFails \/ TestReceives \/ SigBackoffEnds \/ SigReadClock
    \/ SigBatchEnds \/ SigTake \/ SigAskEnds \/ SigReplyEnds

-----------------------------------------------------------------------------
(* A message whose line can be read and that left the queue is judged, in  *)
(* this run or an earlier one, unless it was on its way when some poll, or *)
(* a start, set last_check, came with a time that last_check had passed,   *)
(* was in the memory of a run that stopped, or was taken by a receive that *)
(* failed or by a test.  A run asks about a message once, and only if it   *)
(* is dated later than the start; so none is asked about in a later run    *)
(* unless its sender's clock was ahead (README of the plugin, "prevents    *)
(* the same message from surfacing twice").                                *)
TakenIsJudgedOnce ==
    \A e \in Envelopes :
        /\ e \in sigtaken \cap Readable =>
              e \in sigjudged \cup ToSet(sigbatch) \cup siglate \cup sigdropped
        /\ sigasked[e] <= 1 /\ (sigasked[e] = 1 => sigsent[e] > sigstart)
=============================================================================
