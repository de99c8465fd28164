------------------------ MODULE AskLifecycle_proofs ------------------------
(***************************************************************************)
(* Proofs that the invariants of AskLifecycle hold for any number of asks, *)
(* waits, handlers, answers and grants, and that it implements             *)
(* ApprovalLedger.                                                         *)
(***************************************************************************)
EXTENDS AskLifecycle, TLAPS

(* What the daemon does for one wait, and for one wait or nobody.          *)
WaitNext(w) == WaitBegins(w) \/ WaitStep(w) \/ WaitQueryFails(w) \/ WaitDrop(w)

-----------------------------------------------------------------------------
(* Frame lemmas: what a wait, and what a handler, leaves alone.            *)

(* A wait touches the row only to mark it timed out.                       *)
LEMMA WaitFrame ==
    ASSUME NEW w \in Waits, WaitNext(w)
    PROVE  /\ UNCHANGED <<kind, answer, grantAsk, committed, handlerVars>>
           /\ \/ UNCHANGED stored
              \/ wpc[w] = "mark" /\ stored' = [stored EXCEPT ![wask[w]] = "timedout"]
BY DEF WaitNext, WaitBegins, WaitStep, WaitSeesAnswer, WaitSeesClosed,
       WaitFallsThrough, BeginWait, WaitAttach, WaitRegister, WaitArm,
       WaitReceive, WaitTimerFires, WaitRemove, WaitReread, WaitMark,
       ReplyTimedOut, WaitQueryFails, WaitDrop, rowVars, handlerVars

(* A handler touches the waits only when it wakes one.                     *)
LEMMA HandlerFrame ==
    ASSUME NEW h \in Handlers, HandlerNext(h)
    PROVE  /\ UNCHANGED <<kind, wpc, wask, early, unrecorded>>
           /\ UNCHANGED waitVars \/ Wake(h)
BY DEF HandlerNext, AnswerCheck, CancelCheck, DismissCheck, GrantPost, AnswerWrite,
       DismissWrite, CancelWrite, AnswerReread, Wake, HandlerDies, waitVars

(* Envelopes are messages.                                                 *)
LEMMA EnvelopeType ==
    /\ Empty \in Message /\ Closed \in Message /\ TimedOut \in Message
    /\ Empty # Closed /\ Empty # TimedOut
    /\ \A via \in {"dashboard", "ta", "dismissed", "cancelled"},
          a \in Answers \cup Grants \cup {None}, g \in Grants \cup {None} :
          /\ Envelope(via, a, g) \in Message
          /\ Envelope(via, a, g) # Empty
          /\ Envelope(via, a, g).via = via
          /\ Envelope(via, a, g).answer = a
          /\ Envelope(via, a, g).grant = g
BY DEF Empty, Closed, TimedOut, Envelope, Message

-----------------------------------------------------------------------------
(* The daemon starts with empty tables and an empty waiters map.           *)
LEMMA InitInv == Init => Inv
<1> SUFFICES ASSUME Init PROVE Inv
    OBVIOUS
<1> USE Assumption DEF Init
<1>1. TypeOK
    BY EnvelopeType DEF TypeOK, Stored, Job, NoJob
<1>2. JobsConsistent
    BY DEF JobsConsistent
<1>3. WaitsConsistent
    BY DEF WaitsConsistent, WaitConsistent, Empty, Envelope
<1>4. SlotOwnerIsBlocked
    BY DEF SlotOwnerIsBlocked, Blocked
<1>5. OneGrantPerApproval /\ ApprovalRows
    BY DEF OneGrantPerApproval, ApprovalRows, GrantsOf
<1>6. RepliesAreBacked
    BY DEF RepliesAreBacked, ReplyIsBacked, Empty, Envelope
<1>7. RegisteredWaiterIsServed /\ TimeoutClosesCard
    BY DEF RegisteredWaiterIsServed, TimeoutClosesCard
<1>8. QED
    BY <1>1, <1>2, <1>3, <1>4, <1>5, <1>6, <1>7 DEF Inv

-----------------------------------------------------------------------------
(* Type correctness is inductive together with the consistency of the      *)
(* requests in flight: what a grant handler sends must be a grant.         *)
LEMMA TypeStep ==
    TypeOK /\ JobsConsistent /\ [Next]_vars => TypeOK'
<1> SUFFICES ASSUME TypeOK, JobsConsistent, [Next]_vars
             PROVE  TypeOK'
    OBVIOUS
<1> USE Assumption DEF TypeOK
<1>1. ASSUME NEW n \in Asks, AskInsert(n)
      PROVE  TypeOK'
    BY <1>1 DEF AskInsert, Stored, handlerVars, waitVars
<1>2. ASSUME NEW h \in Handlers, HandlerNext(h)
      PROVE  TypeOK'
  <2> USE DEF waitVars, Stored
  <2>1. ASSUME NEW n \in Asks, NEW v \in Answers, AnswerCheck(h, n, v)
        PROVE  TypeOK'
      BY <2>1 DEF AnswerCheck, Start, Job, rowVars
  <2>2. ASSUME NEW n \in Asks, CancelCheck(h, n)
        PROVE  TypeOK'
      BY <2>2 DEF CancelCheck, Start, Job, rowVars
  <2>10. ASSUME NEW n \in Asks, DismissCheck(h, n)
        PROVE  TypeOK'
      BY <2>10 DEF DismissCheck, Start, Job, rowVars
  <2>3. ASSUME NEW n \in Asks, NEW g \in Grants, GrantPost(h, n, g)
        PROVE  TypeOK'
    <3>1. /\ job' \in [Handlers -> Job]
          /\ hpc' \in [Handlers -> {"idle", "write", "reread", "wake"}]
        BY <2>3 DEF GrantPost, Start, Job
    <3>2. /\ stored' \in [Asks -> Stored]
          /\ answer' \in [Asks -> Answers \cup Grants \cup {None}]
          /\ grantAsk' \in [Grants -> Asks \cup {None}]
        BY <2>3 DEF GrantPost, StoreGrant
    <3>3. QED
        BY <2>3, <3>1, <3>2 DEF GrantPost, Start
  <2>4. CASE AnswerWrite(h)
      BY <2>4 DEF AnswerWrite, JobsConsistent, JobConsistent
  <2>5. CASE DismissWrite(h)
      BY <2>5 DEF DismissWrite, JobsConsistent, JobConsistent
  <2>11. CASE CancelWrite(h)
      BY <2>11 DEF CancelWrite, Finish, Job, NoJob
  <2>6. CASE AnswerReread(h)
      BY <2>6 DEF AnswerReread, rowVars
  <2>7. CASE Wake(h)
    <3>1. EnvelopeOf(job[h]) \in Message
        BY <2>7, EnvelopeType
        DEF Wake, EnvelopeOf, JobsConsistent, JobConsistent, GrantsOf
    <3>2. QED
        BY <2>7, <3>1 DEF Wake, Finish, Job, NoJob, rowVars
  <2>8. CASE HandlerDies(h)
      BY <2>8 DEF HandlerDies, Finish, Job, NoJob, JobsConsistent, JobConsistent, rowVars
  <2>9. QED
      BY <1>2, <2>1, <2>2, <2>3, <2>4, <2>5, <2>6, <2>7, <2>8, <2>10, <2>11
      DEF HandlerNext
<1>3. ASSUME NEW w \in Waits, WaitNext(w)
      PROVE  TypeOK'
  <2> USE DEF rowVars, handlerVars
  <2>1. CASE WaitBegins(w)
    <3>1. PICK n \in Asks, pc \in {"attach", "done", "register"}, m \in Message :
               BeginWait(w, n, pc, m)
        BY <2>1, EnvelopeType
        DEF WaitBegins, WaitSeesAnswer, WaitSeesClosed, WaitFallsThrough
    <3>2. QED
        BY <3>1 DEF BeginWait
  <2>2. CASE WaitAttach(w)
    <3>1. \A g \in Grants : Envelope("ta", mail[w].answer, g) \in Message
        BY DEF Envelope, Message
    <3>2. QED
        BY <2>2, <3>1 DEF WaitAttach, GrantsOf
  <2>3. CASE WaitRegister(w)
    <3>1. DropSender(wask[w]) \in [Waits -> Message]
        BY EnvelopeType DEF DropSender
    <3>2. /\ waiters' \in [Asks -> Waits \cup {None, Dead}]
          /\ early' \subseteq Waits
        BY <2>3 DEF WaitRegister
    <3>3. QED
        BY <2>3, <3>1, <3>2 DEF WaitRegister
  <2>10. CASE WaitRemove(w)
    <3>1. DropSender(wask[w]) \in [Waits -> Message]
        BY EnvelopeType DEF DropSender
    <3>2. waiters' \in [Asks -> Waits \cup {None, Dead}]
        BY <2>10 DEF WaitRemove
    <3>3. QED
        BY <2>10, <3>1, <3>2 DEF WaitRemove
  <2>4. CASE WaitArm(w) \/ WaitReceive(w)
      BY <2>4 DEF WaitArm, WaitReceive
  <2>5. CASE WaitTimerFires(w)
      BY <2>5 DEF WaitTimerFires, Abandon
  <2>6. CASE WaitReread(w)
    <3>1. CASE ReplyTimedOut(w) /\ UNCHANGED <<stored, unrecorded>>
        BY <3>1, EnvelopeType DEF ReplyTimedOut
    <3>2. CASE ~ReplyTimedOut(w)
        BY <2>6, <3>2 DEF WaitReread
    <3>3. QED
        BY <2>6, <3>1, <3>2 DEF WaitReread
  <2>11. CASE WaitMark(w)
    <3>1. stored' \in [Asks -> Stored]
        BY <2>11 DEF WaitMark, Stored
    <3>2. QED
        BY <2>11, <3>1, EnvelopeType DEF WaitMark, ReplyTimedOut
  <2>12. CASE WaitQueryFails(w)
      BY <2>12, EnvelopeType DEF WaitQueryFails, ReplyTimedOut
  <2>7. CASE WaitDrop(w)
      BY <2>7, EnvelopeType DEF WaitDrop, Abandon
  <2>8. QED
      BY <1>3, <2>1, <2>2, <2>3, <2>4, <2>5, <2>6, <2>7, <2>10, <2>11, <2>12
      DEF WaitNext, WaitStep
<1>4. CASE Restart
    BY <1>4, EnvelopeType DEF Restart, Job, NoJob, JobsConsistent, JobConsistent, rowVars
<1>5. CASE UNCHANGED vars
    BY <1>5 DEF vars, rowVars, handlerVars, waitVars
<1>6. QED
    BY <1>1, <1>2, <1>3, <1>4, <1>5 DEF Next, WaitNext

-----------------------------------------------------------------------------
(* What no step takes back: the kind of an ask, its existence, its row, a  *)
(* committed answer, a stored grant, and that it is not open.              *)
Grows(n) ==
    /\ kind' = kind
    /\ Known(n) => Known(n)'
    /\ HasRow(n) => HasRow(n)'
    /\ Known(n) /\ stored[n] # "open" => stored'[n] # "open"
    /\ committed[n] \subseteq committed'[n]
    /\ GrantsOf(n) \subseteq GrantsOf(n)'

(* No step reopens a closed row or forgets what was committed for an ask.  *)
LEMMA Monotone ==
    ASSUME TypeOK, JobsConsistent, [Next]_vars, NEW n \in Asks
    PROVE  Grows(n)
<1> USE Assumption DEF TypeOK, Grows, Known, HasRow, GrantsOf
<1>1. ASSUME NEW m \in Asks, AskInsert(m)
      PROVE  Grows(n)
    BY <1>1 DEF AskInsert
<1>2. ASSUME NEW h \in Handlers, HandlerNext(h)
      PROVE  Grows(n)
  <2>1. /\ kind' = kind
        /\ \/ stored' = stored
           \/ \E s \in {"answered", "cancelled", "dismissed"}, m \in Asks :
                 HasRow(m) /\ stored' = [stored EXCEPT ![m] = s]
      BY <1>2 DEF HandlerNext, AnswerCheck, CancelCheck, DismissCheck, GrantPost,
         AnswerWrite, DismissWrite, CancelWrite, AnswerReread, Wake, HandlerDies,
         GrantAllowed, ReadsOpen, JobsConsistent, JobConsistent, rowVars
  <2>2. \/ committed' = committed
        \/ committed' = [committed EXCEPT ![job[h].ask] = @ \cup {job[h].val}]
      BY <1>2 DEF HandlerNext, AnswerCheck, CancelCheck, DismissCheck, GrantPost,
         AnswerWrite, DismissWrite, CancelWrite, AnswerReread, Wake, HandlerDies, rowVars
  <2>3. \/ grantAsk' = grantAsk
        \/ \E g \in Grants, m \in Asks :
              grantAsk[g] = None /\ grantAsk' = [grantAsk EXCEPT ![g] = m]
      BY <1>2 DEF HandlerNext, AnswerCheck, CancelCheck, DismissCheck, GrantPost,
         AnswerWrite, DismissWrite, CancelWrite, AnswerReread, Wake, HandlerDies,
         StoreGrant, GrantAllowed, rowVars
  <2>4. (Known(n) => Known(n)') /\ (HasRow(n) => HasRow(n)')
      BY <2>1
  <2>5. Known(n) /\ stored[n] # "open" => stored'[n] # "open"
      BY <2>1
  <2>6. committed[n] \subseteq committed'[n]
      BY <2>2
  <2>7. GrantsOf(n) \subseteq GrantsOf(n)'
      BY <2>3
  <2>8. QED
      BY <2>1, <2>4, <2>5, <2>6, <2>7
<1>3. ASSUME NEW w \in Waits, WaitNext(w)
      PROVE  Grows(n)
  <2>1. stored' = stored \/ stored' = [stored EXCEPT ![wask[w]] = "timedout"]
      BY <1>3, WaitFrame
  <2>2. UNCHANGED <<kind, committed, grantAsk>>
      BY <1>3, WaitFrame
  <2>3. QED
      BY <2>1, <2>2
<1>4. CASE Restart \/ UNCHANGED vars
    BY <1>4 DEF Restart, vars, rowVars
<1>5. QED
    BY <1>1, <1>2, <1>3, <1>4 DEF Next, WaitNext

-----------------------------------------------------------------------------
(* The requests in flight stay consistent.                                 *)
LEMMA JobsStep ==
    ASSUME Inv, [Next]_vars
    PROVE  JobsConsistent'
<1> SUFFICES ASSUME NEW h \in Handlers, hpc'[h] # "idle"
             PROVE  JobConsistent(h)'
    BY DEF JobsConsistent
<1> USE Assumption DEF Inv, TypeOK
<1>1. CASE hpc'[h] = hpc[h] /\ job'[h] = job[h]
  <2>1. JobConsistent(h)
      BY <1>1 DEF JobsConsistent
  <2>2. Grows(job[h].ask)
      BY <2>1, Monotone DEF JobConsistent
  <2>3. QED
      BY <1>1, <2>1, <2>2 DEF JobConsistent, Grows
<1>2. ASSUME HandlerNext(h)
      PROVE  JobConsistent(h)'
  <2> USE DEF JobConsistent, JobsConsistent
  <2>1. ASSUME NEW n \in Asks, NEW v \in Answers, AnswerCheck(h, n, v)
        PROVE  JobConsistent(h)'
      BY <2>1 DEF AnswerCheck, Start, PlainAnswerAllowed, ReadsOpen, HasRow, rowVars
  <2>2. ASSUME NEW n \in Asks, CancelCheck(h, n)
        PROVE  JobConsistent(h)'
      BY <2>2 DEF CancelCheck, Start, HasRow, rowVars
  <2>3. ASSUME NEW n \in Asks, DismissCheck(h, n)
        PROVE  JobConsistent(h)'
      BY <2>3 DEF DismissCheck, Start, ReadsOpen, HasRow, rowVars
  <2>4. ASSUME NEW n \in Asks, NEW g \in Grants, GrantPost(h, n, g)
        PROVE  JobConsistent(h)'
    <3>1. job'[h] = [op |-> "grant", ask |-> n, val |-> g] /\ hpc'[h] = "wake"
        BY <2>4 DEF GrantPost, Start
    <3>2. HasRow(n)' /\ kind'[n] = "approval"
        BY <2>4, Monotone DEF GrantPost, GrantAllowed, ReadsOpen, Grows
    <3>3. g \in GrantsOf(n)'
        BY <2>4 DEF GrantPost, StoreGrant, GrantsOf
    <3>4. QED
        BY <3>1, <3>2, <3>3
  <2>5. CASE AnswerWrite(h)
    <3>1. HasRow(job[h].ask)' /\ kind' = kind
        BY <2>5, Monotone DEF AnswerWrite, Grows
    <3>2. QED
        BY <2>5, <3>1 DEF AnswerWrite
  <2>6. CASE DismissWrite(h)
      BY <2>6 DEF DismissWrite, HasRow
  <2>7. CASE AnswerReread(h)
      BY <2>7 DEF AnswerReread, rowVars, HasRow
  <2>8. CASE CancelWrite(h) \/ Wake(h) \/ HandlerDies(h)
      BY <2>8 DEF CancelWrite, Wake, HandlerDies, Finish
  <2>9. QED
      BY <1>2, <2>1, <2>2, <2>3, <2>4, <2>5, <2>6, <2>7, <2>8 DEF HandlerNext
<1>3. ASSUME NEW x \in Handlers, x # h, HandlerNext(x)
      PROVE  hpc'[h] = hpc[h] /\ job'[h] = job[h]
    BY <1>3 DEF HandlerNext, AnswerCheck, CancelCheck, DismissCheck, GrantPost,
       AnswerWrite, DismissWrite, CancelWrite, AnswerReread, Wake, HandlerDies,
       Start, Finish
<1>4. ASSUME NEW n \in Asks, AskInsert(n)
      PROVE  hpc' = hpc /\ job' = job
    BY <1>4 DEF AskInsert, handlerVars
<1>5. ASSUME NEW w \in Waits, WaitNext(w)
      PROVE  hpc' = hpc /\ job' = job
    BY <1>5, WaitFrame DEF handlerVars
<1>6. CASE Restart
    BY <1>6 DEF Restart
<1>7. CASE UNCHANGED vars
    BY <1>1, <1>7 DEF vars, handlerVars
<1>8. QED
    BY <1>1, <1>2, <1>3, <1>4, <1>5, <1>6, <1>7 DEF Next, WaitNext

-----------------------------------------------------------------------------
(* What a closing handler sends is a real envelope, and no timeout.        *)
LEMMA SentEnvelope ==
    ASSUME Inv, NEW h \in Handlers, Wake(h)
    PROVE  /\ job[h].ask \in Asks
           /\ EnvelopeOf(job[h]) \in Message
           /\ EnvelopeOf(job[h]) # Empty
           /\ EnvelopeOf(job[h]).via \in {"dashboard", "dismissed", "ta"}
<1>1. hpc[h] = "wake" /\ JobConsistent(h) /\ job[h].val \in Answers \cup Grants \cup {None}
    BY DEF Inv, Wake, JobsConsistent, TypeOK, Job
<1>2. CASE job[h].op = "answer"
    BY <1>1, <1>2, EnvelopeType DEF EnvelopeOf, JobConsistent
<1>3. CASE job[h].op = "dismiss"
    BY <1>1, <1>3, EnvelopeType DEF EnvelopeOf, JobConsistent
<1>4. CASE job[h].op = "grant"
    BY <1>1, <1>4, EnvelopeType DEF EnvelopeOf, JobConsistent, GrantsOf
<1>5. QED
    BY <1>1, <1>2, <1>3, <1>4 DEF JobConsistent

(* The map and the blocked waits stay in agreement.                        *)
LEMMA SlotStep ==
    ASSUME Inv, [Next]_vars
    PROVE  SlotOwnerIsBlocked'
<1> USE Assumption DEF Inv, TypeOK, SlotOwnerIsBlocked, Blocked
<1>1. CASE UNCHANGED waitVars
    BY <1>1 DEF waitVars
<1>2. ASSUME NEW h \in Handlers, Wake(h)
      PROVE  SlotOwnerIsBlocked'
  <2> DEFINE n == job[h].ask
  <2>1. n \in Asks /\ EnvelopeOf(job[h]) # Empty
      BY <1>2, SentEnvelope
  <2>2. waiters' = [waiters EXCEPT ![n] = None] /\ wpc' = wpc /\ wask' = wask
      BY <1>2 DEF Wake
  <2>3. CASE waiters[n] \in Waits
    <3>1. mail' = [mail EXCEPT ![waiters[n]] = EnvelopeOf(job[h])]
        BY <1>2, <2>3 DEF Wake
    <3>2. QED
        BY <2>1, <2>2, <2>3, <3>1
  <2>4. CASE waiters[n] \notin Waits
    <3>1. mail' = mail
        BY <1>2, <2>4 DEF Wake
    <3>2. QED
        BY <2>1, <2>2, <2>4, <3>1
  <2>5. QED
      BY <2>3, <2>4
<1>3. ASSUME NEW w \in Waits, WaitNext(w)
      PROVE  SlotOwnerIsBlocked'
  <2> USE DEF WaitsConsistent, WaitConsistent
  <2>1. CASE WaitBegins(w)
    <3>1. PICK n \in Asks, pc \in {"attach", "done", "register"}, m \in Message :
               BeginWait(w, n, pc, m)
        BY <2>1, EnvelopeType
        DEF WaitBegins, WaitSeesAnswer, WaitSeesClosed, WaitFallsThrough
    <3>2. QED
        BY <3>1 DEF BeginWait
  <2>2. CASE WaitAttach(w)
      BY <2>2 DEF WaitAttach
  <2>3. CASE WaitRegister(w)
      BY <2>3, EnvelopeType DEF WaitRegister, DropSender
  <2>4. CASE WaitArm(w) \/ WaitReceive(w)
      BY <2>4 DEF WaitArm, WaitReceive
  <2>5. CASE WaitTimerFires(w)
      BY <2>5 DEF WaitTimerFires, Abandon
  <2>6. CASE WaitRemove(w)
      BY <2>6, EnvelopeType DEF WaitRemove, DropSender
  <2>7. CASE WaitReread(w)
      BY <2>7 DEF WaitReread, ReplyTimedOut
  <2>8. CASE WaitMark(w) \/ WaitQueryFails(w)
      BY <2>8 DEF WaitMark, WaitQueryFails, ReplyTimedOut
  <2>9. CASE WaitDrop(w)
      BY <2>9 DEF WaitDrop, Abandon
  <2>10. QED
      BY <1>3, <2>1, <2>2, <2>3, <2>4, <2>5, <2>6, <2>7, <2>8, <2>9
      DEF WaitNext, WaitStep
<1>4. CASE Restart
    BY <1>4 DEF Restart
<1>5. ASSUME NEW n \in Asks, AskInsert(n)
      PROVE  UNCHANGED waitVars
    BY <1>5 DEF AskInsert
<1>6. ASSUME NEW h \in Handlers, HandlerNext(h)
      PROVE  SlotOwnerIsBlocked'
    BY <1>1, <1>2, <1>6, HandlerFrame
<1>7. CASE UNCHANGED vars
    BY <1>1, <1>7 DEF vars
<1>8. QED
    BY <1>1, <1>3, <1>4, <1>5, <1>6, <1>7 DEF Next, WaitNext

-----------------------------------------------------------------------------
(* What others do to a wait: at most, they send it one envelope or close   *)
(* its channel, and only while it is blocked.                              *)
LEMMA OthersMail ==
    ASSUME Inv, NEW x \in Waits, [Next]_vars, ~WaitNext(x), ~Restart
    PROVE  /\ wpc'[x] = wpc[x] /\ wask'[x] = wask[x]
           /\ x \in early' => x \in early
           /\ x \in unrecorded => x \in unrecorded'
           /\ \/ mail'[x] = mail[x]
              \/ Blocked(x) /\ mail'[x] = Closed
              \/ \E h \in Handlers : /\ Wake(h) /\ Blocked(x)
                                    /\ wask[x] = job[h].ask
                                    /\ mail'[x] = EnvelopeOf(job[h])
<1> DEFINE Goal == /\ wpc'[x] = wpc[x] /\ wask'[x] = wask[x]
                   /\ x \in early' => x \in early
                   /\ x \in unrecorded => x \in unrecorded'
                   /\ \/ mail'[x] = mail[x]
                      \/ Blocked(x) /\ mail'[x] = Closed
                      \/ \E h \in Handlers : /\ Wake(h) /\ Blocked(x)
                                            /\ wask[x] = job[h].ask
                                            /\ mail'[x] = EnvelopeOf(job[h])
<1> USE DEF Inv, TypeOK
<1>1. CASE UNCHANGED waitVars
    BY <1>1 DEF waitVars
<1>2. ASSUME NEW h \in Handlers, Wake(h)
      PROVE  Goal
  <2>1. job[h].ask \in Asks
      BY <1>2, SentEnvelope
  <2>2. CASE waiters[job[h].ask] = x
    <3>1. Blocked(x) /\ wask[x] = job[h].ask
        BY <2>1, <2>2 DEF SlotOwnerIsBlocked
    <3>2. mail'[x] = EnvelopeOf(job[h])
        BY <1>2, <2>2 DEF Wake
    <3>3. /\ wpc'[x] = wpc[x] /\ wask'[x] = wask[x]
          /\ early' = early /\ unrecorded' = unrecorded
        BY <1>2 DEF Wake
    <3>4. QED
        BY <1>2, <3>1, <3>2, <3>3
  <2>3. CASE waiters[job[h].ask] # x
      BY <1>2, <2>1, <2>3 DEF Wake
  <2>4. QED
      BY <2>2, <2>3
<1>3. ASSUME NEW h \in Handlers, HandlerNext(h)
      PROVE  Goal
    BY <1>1, <1>2, <1>3, HandlerFrame
<1>4. ASSUME NEW w \in Waits, w # x, WaitNext(w)
      PROVE  Goal
  <2>1. CASE WaitBegins(w)
      BY <1>4, <2>1 DEF WaitBegins, WaitSeesAnswer, WaitSeesClosed, WaitFallsThrough,
         BeginWait
  <2>2. CASE WaitRegister(w) \/ WaitRemove(w)
    <3>1. wask[w] \in Asks
        BY <2>2 DEF WaitRegister, WaitRemove, WaitsConsistent, WaitConsistent
    <3>2. mail' = DropSender(wask[w]) /\ wpc'[x] = wpc[x] /\ wask' = wask
          /\ unrecorded' = unrecorded /\ (x \in early' => x \in early)
        BY <1>4, <2>2 DEF WaitRegister, WaitRemove
    <3>3. CASE waiters[wask[w]] = x
        BY <3>1, <3>2, <3>3 DEF DropSender, SlotOwnerIsBlocked
    <3>4. CASE waiters[wask[w]] # x
        BY <3>1, <3>2, <3>4 DEF DropSender
    <3>5. QED
        BY <3>3, <3>4
  <2>3. CASE WaitAttach(w) \/ WaitArm(w) \/ WaitReceive(w)
      BY <1>4, <2>3 DEF WaitAttach, WaitArm, WaitReceive
  <2>4. CASE WaitTimerFires(w) \/ WaitDrop(w)
      BY <1>4, <2>4 DEF WaitTimerFires, WaitDrop
  <2>5. CASE WaitReread(w)
      BY <1>4, <2>5 DEF WaitReread, ReplyTimedOut
  <2>6. CASE WaitMark(w) \/ WaitQueryFails(w)
      BY <1>4, <2>6 DEF WaitMark, WaitQueryFails, ReplyTimedOut
  <2>7. QED
      BY <1>4, <2>1, <2>2, <2>3, <2>4, <2>5, <2>6 DEF WaitNext, WaitStep
<1>5. ASSUME NEW n \in Asks, AskInsert(n)
      PROVE  UNCHANGED waitVars
    BY <1>5 DEF AskInsert
<1>6. CASE UNCHANGED vars
    BY <1>1, <1>6 DEF vars
<1>7. QED
    BY <1>1, <1>3, <1>4, <1>5, <1>6 DEF Next, WaitNext

(* The waits in flight stay consistent.                                    *)
LEMMA WaitsStep ==
    ASSUME Inv, [Next]_vars
    PROVE  WaitsConsistent'
<1> SUFFICES ASSUME NEW x \in Waits
             PROVE  WaitConsistent(x)'
    BY DEF WaitsConsistent
<1>0. WaitConsistent(x) /\ TypeOK /\ \A n \in Asks : Grows(n)
    BY Monotone DEF Inv, WaitsConsistent
<1> USE <1>0 DEF TypeOK, WaitConsistent
<1>1. CASE WaitNext(x)
  <2>1. kind' = kind /\ \A n \in Asks : (Known(n) => Known(n)') /\ (HasRow(n) => HasRow(n)')
      BY <1>1, WaitFrame DEF Grows
  <2>2. CASE WaitBegins(x)
    <3>1. PICK n \in Asks : WaitSeesAnswer(x, n) \/ WaitSeesClosed(x, n)
                             \/ WaitFallsThrough(x, n)
        BY <2>2 DEF WaitBegins
    <3>2. x \notin early
        BY <3>1 DEF WaitSeesAnswer, WaitSeesClosed, WaitFallsThrough, BeginWait
    <3>3. Known(n)' /\ early' = early /\ wask'[x] = n
        BY <2>1, <3>1 DEF WaitSeesAnswer, WaitSeesClosed, WaitFallsThrough, BeginWait
    <3>4. CASE WaitSeesAnswer(x, n)
        BY <2>1, <3>2, <3>3, <3>4 DEF WaitSeesAnswer, BeginWait, Envelope
    <3>5. CASE WaitSeesClosed(x, n)
        BY <3>2, <3>3, <3>5 DEF WaitSeesClosed, BeginWait, Envelope
    <3>6. CASE WaitFallsThrough(x, n)
        BY <3>2, <3>3, <3>6 DEF WaitFallsThrough, BeginWait, Envelope, Empty
    <3>7. QED
        BY <3>1, <3>4, <3>5, <3>6
  <2>3. CASE WaitAttach(x)
      BY <2>1, <2>3 DEF WaitAttach
  <2>4. CASE WaitRegister(x)
    <3>1. waiters[wask[x]] # x
        BY <2>4 DEF WaitRegister, Inv, SlotOwnerIsBlocked, Blocked
    <3>2. DropSender(wask[x])[x] = mail[x]
        BY <3>1 DEF DropSender
    <3>3. QED
        BY <2>1, <2>4, <3>2 DEF WaitRegister, Empty, Envelope
  <2>5. CASE WaitArm(x) \/ WaitReceive(x)
      BY <2>1, <2>5 DEF WaitArm, WaitReceive
  <2>6. CASE WaitTimerFires(x)
      BY <2>1, <2>6 DEF WaitTimerFires
  <2>7. CASE WaitRemove(x)
    <3>1. waiters[wask[x]] # x
        BY <2>7 DEF WaitRemove, Inv, SlotOwnerIsBlocked, Blocked
    <3>2. DropSender(wask[x])[x] = mail[x]
        BY <3>1 DEF DropSender
    <3>3. QED
        BY <2>1, <2>7, <3>2 DEF WaitRemove, Empty, Envelope
  <2>8. CASE WaitReread(x)
      BY <2>1, <2>8 DEF WaitReread, ReplyTimedOut, ReadsOpen
  <2>9. CASE WaitMark(x) \/ WaitQueryFails(x)
      BY <2>1, <2>9 DEF WaitMark, WaitQueryFails, ReplyTimedOut
  <2>10. CASE WaitDrop(x)
      BY <2>10 DEF WaitDrop, Empty, Envelope
  <2>11. QED
      BY <1>1, <2>2, <2>3, <2>4, <2>5, <2>6, <2>7, <2>8, <2>9, <2>10 DEF WaitNext, WaitStep
<1>2. CASE Restart
    BY <1>2 DEF Restart, Empty, Envelope, Grows, Known, rowVars
<1>3. CASE ~WaitNext(x) /\ ~Restart
  <2>1. /\ wpc'[x] = wpc[x] /\ wask'[x] = wask[x]
        /\ x \in early' => x \in early
        /\ \/ mail'[x] = mail[x]
           \/ Blocked(x) /\ mail'[x].via # "timed_out"
      BY <1>3, OthersMail, SentEnvelope DEF Closed, Envelope
  <2>2. QED
      BY <2>1 DEF Blocked, Grows
<1>4. QED
    BY <1>1, <1>2, <1>3

-----------------------------------------------------------------------------
(* Approval rows and their grants stay in step: only the transaction that  *)
(* stores a grant answers an approval ask, and it finds the row open only  *)
(* when no grant was stored for the ask before.                            *)
RowsInv == OneGrantPerApproval /\ ApprovalRows

(* Every step keeps approval rows in step with their grants.               *)
LEMMA RowsStep ==
    ASSUME Inv, [Next]_vars
    PROVE  RowsInv'
<1> USE Assumption DEF Inv, TypeOK, RowsInv, OneGrantPerApproval, ApprovalRows, GrantsOf
<1>1. CASE UNCHANGED <<kind, rowVars>>
    BY <1>1 DEF rowVars
<1>2. ASSUME NEW n \in Asks, NEW s \in {"cancelled", "dismissed", "timedout"},
             stored' = [stored EXCEPT ![n] = s],
             UNCHANGED <<kind, answer, grantAsk, committed>>
      PROVE  RowsInv'
    BY <1>2
<1>3. ASSUME NEW n \in Asks, AskInsert(n)
      PROVE  RowsInv'
    BY <1>3 DEF AskInsert
<1>4. ASSUME NEW h \in Handlers, HandlerNext(h)
      PROVE  RowsInv'
  <2>1. CASE AnswerWrite(h)
    <3>1. /\ job[h].ask \in Asks /\ kind[job[h].ask] = "plain"
          /\ job[h].val \in Answers
        BY <2>1 DEF AnswerWrite, JobsConsistent, JobConsistent
    <3>2. QED
        BY <2>1, <3>1 DEF AnswerWrite
  <2>2. CASE DismissWrite(h)
      BY <1>2, <2>2 DEF DismissWrite, JobsConsistent, JobConsistent
  <2>3. CASE CancelWrite(h)
      BY <1>2, <2>3 DEF CancelWrite, JobsConsistent, JobConsistent
  <2>4. ASSUME NEW n \in Asks, NEW g \in Grants, GrantPost(h, n, g)
        PROVE  RowsInv'
    <3>1. /\ grantAsk[g] = None /\ kind[n] = "approval"
          /\ stored[n] \in {"open", "timedout"}
          /\ grantAsk' = [grantAsk EXCEPT ![g] = n]
          /\ UNCHANGED <<kind, committed>>
        BY <2>4 DEF GrantPost, GrantAllowed, ReadsOpen, HasRow, ParsedStatus, StoreGrant
    <3>2. CASE stored[n] = "open"
      <4>1. /\ stored' = [stored EXCEPT ![n] = "answered"]
            /\ answer' = [answer EXCEPT ![n] = g]
          BY <2>4, <3>2 DEF GrantPost, UpdateFindsRow
      <4>2. QED
          BY <3>1, <3>2, <4>1
    <3>3. CASE stored[n] = "timedout"
      <4>1. stored' = stored /\ answer' = answer
          BY <2>4, <3>3 DEF GrantPost, UpdateFindsRow
      <4>2. QED
          BY <3>1, <3>3, <4>1
    <3>4. QED
        BY <3>1, <3>2, <3>3
  <2>5. ASSUME NEW n \in Asks, CancelCheck(h, n) \/ DismissCheck(h, n)
                \/ \E v \in Answers : AnswerCheck(h, n, v)
        PROVE  UNCHANGED <<kind, rowVars>>
      BY <2>5 DEF CancelCheck, DismissCheck, AnswerCheck
  <2>6. CASE AnswerReread(h) \/ Wake(h) \/ HandlerDies(h)
      BY <1>1, <2>6 DEF AnswerReread, Wake, HandlerDies
  <2>7. QED
      BY <1>1, <1>4, <2>1, <2>2, <2>3, <2>4, <2>5, <2>6 DEF HandlerNext
<1>5. ASSUME NEW w \in Waits, WaitNext(w)
      PROVE  RowsInv'
  <2>1. CASE UNCHANGED stored
      BY <1>1, <1>5, <2>1, WaitFrame DEF rowVars
  <2>2. CASE wpc[w] = "mark" /\ stored' = [stored EXCEPT ![wask[w]] = "timedout"]
    <3>1. wask[w] \in Asks
        BY <2>2 DEF WaitsConsistent, WaitConsistent
    <3>2. QED
        BY <1>2, <1>5, <2>2, <3>1, WaitFrame
  <2>3. QED
      BY <1>5, <2>1, <2>2, WaitFrame
<1>6. CASE Restart \/ UNCHANGED vars
    BY <1>1, <1>6 DEF Restart, vars
<1>7. QED
    BY <1>3, <1>4, <1>5, <1>6 DEF Next, WaitNext

-----------------------------------------------------------------------------
(* What waits are sent and return stays backed by the tables.              *)
LEMMA RepliesStep ==
    ASSUME Inv, [Next]_vars
    PROVE  RepliesAreBacked'
<1> SUFFICES ASSUME NEW x \in Waits
             PROVE  ReplyIsBacked(x)'
    BY DEF RepliesAreBacked
<1>1. TypeOK /\ ReplyIsBacked(x) /\ WaitConsistent(x) /\ \A n \in Asks : Grows(n)
    BY Monotone DEF Inv, RepliesAreBacked, WaitsConsistent
<1>2. CASE wask'[x] = wask[x] /\ mail'[x] = mail[x]
  <2>1. CASE wask[x] \in Asks
      BY <1>1, <1>2, <2>1 DEF ReplyIsBacked, Grows
  <2>2. CASE wask[x] \notin Asks
      BY <1>1, <1>2, <2>2 DEF TypeOK, WaitConsistent, ReplyIsBacked, Empty, Envelope
  <2>3. QED
      BY <2>1, <2>2
<1>3. CASE mail'[x].answer = None /\ mail'[x].grant = None
    BY <1>3 DEF ReplyIsBacked
<1>4. ASSUME NEW h \in Handlers, Wake(h), wask'[x] = job[h].ask,
             mail'[x] = EnvelopeOf(job[h])
      PROVE  ReplyIsBacked(x)'
  <2>1. /\ JobConsistent(h) /\ hpc[h] = "wake"
        /\ UNCHANGED <<kind, committed, grantAsk>>
      BY <1>4 DEF Inv, JobsConsistent, Wake, rowVars
  <2>2. CASE job[h].op = "answer"
      BY <1>4, <2>1, <2>2 DEF JobConsistent, EnvelopeOf, Envelope, ReplyIsBacked
  <2>3. CASE job[h].op = "dismiss"
      BY <1>4, <2>1, <2>3 DEF JobConsistent, EnvelopeOf, Envelope, ReplyIsBacked
  <2>4. CASE job[h].op = "grant"
      BY <1>4, <2>1, <2>4 DEF JobConsistent, EnvelopeOf, Envelope, ReplyIsBacked, GrantsOf
  <2>5. QED
      BY <2>1, <2>2, <2>3, <2>4 DEF JobConsistent
<1>5. CASE WaitNext(x)
  <2> USE <1>1 DEF TypeOK
  <2>1. CASE WaitBegins(x)
    <3>1. PICK n \in Asks : WaitSeesAnswer(x, n) \/ WaitSeesClosed(x, n)
                             \/ WaitFallsThrough(x, n)
        BY <2>1 DEF WaitBegins
    <3>2. CASE WaitSeesAnswer(x, n)
      <4>1. /\ wask'[x] = n /\ mail'[x] = Envelope("dashboard", answer[n], None)
            /\ UNCHANGED <<kind, committed, grantAsk>>
          BY <3>2 DEF WaitSeesAnswer, BeginWait, rowVars
      <4>2. answer[n] = None \/ answer[n] \in IF kind[n] = "approval" THEN GrantsOf(n)
                                               ELSE committed[n]
          BY DEF Inv, ApprovalRows
      <4>3. QED
          BY <4>1, <4>2 DEF ReplyIsBacked, Envelope, GrantsOf
    <3>3. CASE WaitSeesClosed(x, n)
        BY <1>3, <3>3 DEF WaitSeesClosed, BeginWait, Envelope
    <3>4. CASE WaitFallsThrough(x, n)
        BY <1>3, <3>4 DEF WaitFallsThrough, BeginWait, Envelope, Empty
    <3>5. QED
        BY <3>1, <3>2, <3>3, <3>4
  <2>2. CASE WaitAttach(x)
    <3>1. CASE mail' = mail
        BY <1>2, <2>2, <3>1 DEF WaitAttach
    <3>2. ASSUME NEW g \in GrantsOf(wask[x]),
                 mail' = [mail EXCEPT ![x] = Envelope("ta", @.answer, g)]
          PROVE  ReplyIsBacked(x)'
        BY <2>2, <3>2 DEF WaitAttach, WaitConsistent, ReplyIsBacked, Envelope,
           GrantsOf, rowVars
    <3>3. QED
        BY <2>2, <3>1, <3>2 DEF WaitAttach
  <2>3. CASE WaitRegister(x) \/ WaitRemove(x)
    <3>1. waiters[wask[x]] # x
        BY <2>3 DEF WaitRegister, WaitRemove, WaitConsistent, Inv, SlotOwnerIsBlocked,
           Blocked
    <3>2. DropSender(wask[x])[x] = mail[x]
        BY <3>1 DEF DropSender
    <3>3. QED
        BY <1>2, <2>3, <3>2 DEF WaitRegister, WaitRemove
  <2>4. CASE WaitArm(x) \/ WaitReceive(x) \/ WaitTimerFires(x)
      BY <1>2, <2>4 DEF WaitArm, WaitReceive, WaitTimerFires
  <2>5. CASE ReplyTimedOut(x)
      BY <1>3, <2>5 DEF ReplyTimedOut, TimedOut, Envelope
  <2>6. CASE WaitReread(x) \/ WaitMark(x) \/ WaitQueryFails(x)
      BY <1>2, <2>5, <2>6 DEF WaitReread, WaitMark, WaitQueryFails
  <2>7. CASE WaitDrop(x)
      BY <1>3, <2>7 DEF WaitDrop, Empty, Envelope
  <2>8. QED
      BY <1>5, <2>1, <2>2, <2>3, <2>4, <2>6, <2>7 DEF WaitNext, WaitStep
<1>6. CASE Restart
    BY <1>1, <1>2, <1>3, <1>6 DEF Restart, Empty, Envelope
<1>7. CASE ~WaitNext(x) /\ ~Restart
  <2>1. wask'[x] = wask[x]
      BY <1>7, OthersMail
  <2>2. CASE mail'[x] = Closed
      BY <1>3, <2>2 DEF Closed, Envelope
  <2>3. QED
      BY <1>2, <1>4, <1>7, <2>1, <2>2, OthersMail
<1>8. QED
    BY <1>5, <1>6, <1>7

-----------------------------------------------------------------------------
(* A handler on its way to wake the waits of an ask.                       *)
Wakes(h, n) == hpc[h] \in {"reread", "wake"} /\ job[h].ask = n

(* No registered wait loses its wakeup: the step that closes an ask leaves *)
(* a handler on its way, and that handler either dies or finds the wait in *)
(* the map.                                                                *)
LEMMA ServedStep ==
    ASSUME Inv, [Next]_vars
    PROVE  RegisteredWaiterIsServed'
<1> SUFFICES ASSUME NEW x \in Waits, NEW n, n = wask'[x], x \in early', Blocked(x)',
                    stored'[n] \in {"answered", "dismissed"}, n \notin orphaned'
             PROVE  \E h \in Handlers : Wakes(h, n)'
  <2>1. early' \subseteq Waits
      BY TypeStep DEF Inv, TypeOK
  <2>2. QED
      BY <2>1 DEF RegisteredWaiterIsServed, Wakes
<1>1. TypeOK /\ JobsConsistent /\ WaitConsistent(x)
    BY DEF Inv, WaitsConsistent
<1> DEFINE Served == stored[n] \in {"answered", "dismissed"} =>
                        n \in orphaned \/ \E h \in Handlers : Wakes(h, n)
<1>2. CASE WaitNext(x)
  <2>1. WaitRegister(x) \/ WaitArm(x)
      BY <1>1, <1>2 DEF WaitNext, WaitBegins, WaitStep, WaitSeesAnswer, WaitSeesClosed,
         WaitFallsThrough, BeginWait, WaitAttach, WaitReceive, WaitTimerFires, WaitRemove,
         WaitReread, WaitMark, ReplyTimedOut, WaitQueryFails, WaitDrop, Blocked, TypeOK,
         WaitConsistent
  <2>2. CASE WaitRegister(x)
      BY <1>1, <2>2 DEF WaitRegister, WaitConsistent, rowVars
  <2>3. CASE WaitArm(x)
    <3>1. Blocked(x) /\ x \in early /\ UNCHANGED <<stored, wask, hpc, job, orphaned>>
        BY <1>1, <2>3 DEF WaitArm, Blocked, TypeOK, rowVars, handlerVars
    <3>2. Served
        BY <3>1 DEF Inv, RegisteredWaiterIsServed, Wakes
    <3>3. QED
        BY <3>1, <3>2 DEF Wakes
  <2>4. QED
      BY <2>1, <2>2, <2>3
<1>3. CASE Restart
    BY <1>1, <1>3 DEF Restart, TypeOK, Blocked
<1>4. CASE ~WaitNext(x) /\ ~Restart
  <2>1. wask[x] = n /\ x \in early /\ mail'[x] = Empty /\ Blocked(x)
    <3>1. \A h \in Handlers : Wake(h) => mail'[x] # EnvelopeOf(job[h])
        BY SentEnvelope DEF Blocked
    <3>2. QED
        BY <1>4, <3>1, OthersMail, EnvelopeType DEF Blocked
  <2>2. Served /\ n \in Asks
      BY <1>1, <2>1 DEF Inv, RegisteredWaiterIsServed, Wakes, WaitConsistent, Blocked
  <2>3. CASE UNCHANGED <<hpc, job, orphaned>> /\ stored'[n] = stored[n]
      BY <2>1, <2>2, <2>3 DEF Wakes
  <2>4. ASSUME NEW h \in Handlers, HandlerNext(h)
        PROVE  \E k \in Handlers : Wakes(k, n)'
    <3> USE <1>1 DEF TypeOK
    <3>1. \A k \in Handlers \ {h} : Wakes(k, n) => Wakes(k, n)'
        BY <2>4 DEF Wakes, HandlerNext, AnswerCheck, CancelCheck, DismissCheck, GrantPost,
           AnswerWrite, DismissWrite, CancelWrite, AnswerReread, Wake, HandlerDies,
           Start, Finish
    <3>2. orphaned \subseteq orphaned'
        BY <2>4 DEF HandlerNext, AnswerCheck, CancelCheck, DismissCheck, GrantPost,
           AnswerWrite, DismissWrite, CancelWrite, AnswerReread, Wake, HandlerDies, Start
    <3>3. CASE stored'[n] = stored[n]
      <4>1. PICK k \in Handlers : Wakes(k, n)
          BY <2>1, <2>2, <3>2, <3>3
      <4>2. CASE k # h
          BY <3>1, <4>1, <4>2
      <4>3. CASE k = h
        <5>1. CASE AnswerReread(h)
            BY <4>1, <4>3, <5>1 DEF AnswerReread, Wakes
        <5>2. CASE HandlerDies(h)
            BY <2>1, <4>1, <4>3, <5>2 DEF HandlerDies, Wakes
        <5>3. CASE Wake(h)
          <6>1. waiters[n] = x
              BY <2>1, <2>2 DEF Inv, SlotOwnerIsBlocked
          <6>2. mail'[x] = EnvelopeOf(job[h])
              BY <4>1, <4>3, <5>3, <6>1 DEF Wake, Wakes
          <6>3. QED
              BY <2>1, <5>3, <6>2, SentEnvelope
        <5>4. AnswerReread(h) \/ HandlerDies(h) \/ Wake(h)
            BY <2>4, <4>1, <4>3 DEF Wakes, HandlerNext, AnswerCheck, CancelCheck,
               DismissCheck, GrantPost, Start, AnswerWrite, DismissWrite, CancelWrite
        <5>5. QED
            BY <5>1, <5>2, <5>3, <5>4
      <4>4. QED
          BY <4>2, <4>3
    <3>4. CASE stored'[n] # stored[n]
      <4>1. CASE AnswerWrite(h)
          BY <2>1, <3>4, <4>1 DEF AnswerWrite, Wakes, JobsConsistent, JobConsistent
      <4>2. CASE DismissWrite(h)
          BY <2>1, <3>4, <4>2 DEF DismissWrite, Wakes, JobsConsistent, JobConsistent
      <4>3. CASE CancelWrite(h)
          BY <2>1, <3>4, <4>3 DEF CancelWrite, JobsConsistent, JobConsistent
      <4>4. ASSUME NEW m \in Asks, NEW g \in Grants, GrantPost(h, m, g)
            PROVE  Wakes(h, n)'
        <5>1. m = n
            BY <2>2, <3>4, <4>4 DEF GrantPost
        <5>2. hpc'[h] = "wake" /\ job'[h].ask = m
            BY <4>4 DEF GrantPost, Start
        <5>3. QED
            BY <5>1, <5>2 DEF Wakes
      <4>5. \/ AnswerWrite(h) \/ DismissWrite(h) \/ CancelWrite(h)
            \/ \E m \in Asks, g \in Grants : GrantPost(h, m, g)
        <5>1. ~AnswerReread(h) /\ ~Wake(h) /\ ~HandlerDies(h)
            BY <3>4 DEF AnswerReread, Wake, HandlerDies, rowVars
        <5>2. \A m \in Asks : /\ ~CancelCheck(h, m) /\ ~DismissCheck(h, m)
                             /\ \A v \in Answers : ~AnswerCheck(h, m, v)
            BY <3>4 DEF CancelCheck, DismissCheck, AnswerCheck, rowVars
        <5>3. QED
            BY <2>4, <5>1, <5>2 DEF HandlerNext
      <4>6. QED
          BY <4>1, <4>2, <4>3, <4>4, <4>5
    <3>5. QED
        BY <3>3, <3>4
  <2>5. ASSUME NEW w \in Waits, WaitNext(w)
        PROVE  UNCHANGED <<hpc, job, orphaned>> /\ stored'[n] = stored[n]
    <3>1. UNCHANGED <<hpc, job, orphaned>>
        BY <2>5, WaitFrame DEF handlerVars
    <3>2. CASE stored' = stored
        BY <3>1, <3>2
    <3>3. CASE stored' = [stored EXCEPT ![wask[w]] = "timedout"]
        BY <1>1, <2>1, <2>2, <3>1, <3>3 DEF TypeOK
    <3>4. QED
        BY <2>5, <3>2, <3>3, WaitFrame
  <2>6. ASSUME NEW m \in Asks, AskInsert(m)
        PROVE  UNCHANGED <<hpc, job, orphaned>> /\ stored'[n] = stored[n]
      BY <1>1, <2>1, <2>2, <2>6 DEF AskInsert, handlerVars, TypeOK
  <2>7. CASE UNCHANGED vars
      BY <2>3, <2>7 DEF vars, handlerVars, rowVars
  <2>8. QED
      BY <1>4, <2>1, <2>3, <2>4, <2>5, <2>6, <2>7 DEF Next, WaitNext
<1>5. QED
    BY <1>2, <1>3, <1>4

-----------------------------------------------------------------------------
(* A reply "timed_out" leaves no open card.                                *)
LEMMA TimeoutStep ==
    ASSUME Inv, [Next]_vars
    PROVE  TimeoutClosesCard'
<1> SUFFICES ASSUME NEW x \in Waits, x \notin unrecorded', wpc'[x] = "done",
                    mail'[x].via = "timed_out"
             PROVE  stored'[wask'[x]] # "open"
    BY DEF TimeoutClosesCard
<1>1. TypeOK /\ WaitConsistent(x) /\ \A n \in Asks : Grows(n)
    BY Monotone DEF Inv, WaitsConsistent
<1> USE <1>1 DEF TypeOK
<1>2. ASSUME wask'[x] = wask[x], wpc[x] = "done", mail[x].via = "timed_out",
             x \notin unrecorded
      PROVE  stored'[wask'[x]] # "open"
    BY <1>2 DEF Inv, TimeoutClosesCard, WaitConsistent, Grows
<1>3. CASE WaitNext(x)
  <2>1. CASE WaitBegins(x)
      BY <2>1 DEF WaitBegins, WaitSeesAnswer, WaitSeesClosed, WaitFallsThrough, BeginWait,
         Envelope, Empty, ParsedStatus
  <2>2. CASE WaitAttach(x)
      BY <2>2 DEF WaitAttach, WaitConsistent, Envelope
  <2>3. CASE WaitReceive(x)
      BY <2>3 DEF WaitReceive, WaitConsistent
  <2>4. CASE WaitReread(x)
      BY <2>4 DEF WaitReread, ReplyTimedOut, ReadsOpen, HasRow, ParsedStatus
  <2>5. CASE WaitMark(x)
      BY <2>5 DEF WaitMark, ReplyTimedOut, WaitConsistent
  <2>6. CASE WaitQueryFails(x)
      BY <2>6 DEF WaitQueryFails
  <2>7. CASE WaitRegister(x) \/ WaitArm(x) \/ WaitTimerFires(x) \/ WaitRemove(x)
             \/ WaitDrop(x)
      BY <2>7 DEF WaitRegister, WaitArm, WaitTimerFires, WaitRemove, WaitDrop
  <2>8. QED
      BY <1>3, <2>1, <2>2, <2>3, <2>4, <2>5, <2>6, <2>7 DEF WaitNext, WaitStep
<1>4. CASE Restart
    BY <1>2, <1>4 DEF Restart, Empty, Envelope
<1>5. CASE ~WaitNext(x) /\ ~Restart
  <2>1. \A h \in Handlers : Wake(h) => EnvelopeOf(job[h]).via # "timed_out"
      BY SentEnvelope
  <2>2. QED
      BY <1>2, <1>5, <2>1, OthersMail DEF Closed, Envelope
<1>6. QED
    BY <1>3, <1>4, <1>5

-----------------------------------------------------------------------------
(* The theorems.                                                           *)

(* Inv holds in every reachable state: the facts the other theorems draw   *)
(* on.                                                                     *)
THEOREM Invariance == Spec => []Inv
<1>1. Init => Inv
    BY InitInv
<1>2. Inv /\ [Next]_vars => Inv'
  <2> SUFFICES ASSUME Inv, [Next]_vars
               PROVE  Inv'
      OBVIOUS
  <2>1. TypeOK'
      BY TypeStep DEF Inv
  <2>2. QED
      BY <2>1, JobsStep, WaitsStep, SlotStep, RowsStep, RepliesStep, ServedStep, TimeoutStep
      DEF Inv, RowsInv
<1>3. QED
    BY <1>1, <1>2, PTL DEF Spec

(* Every variable keeps its type, whatever fails or restarts.              *)
THEOREM TypeCorrect == Spec => []TypeOK
BY Invariance, PTL DEF Inv

(* The waiters map and the parked waits agree, for any number of both.     *)
THEOREM WaitersMapAgrees == Spec => []SlotOwnerIsBlocked
BY Invariance, PTL DEF Inv

(* An answered approval ask holds the decision of its one stored grant.    *)
THEOREM ApprovalLock == Spec => []OneGrantPerApproval
BY Invariance, PTL DEF Inv

(* No reply to a wait carries what the tables do not back.                 *)
THEOREM RepliesBacked == Spec => []RepliesAreBacked
BY Invariance, PTL DEF Inv

(* No registered wait loses its wakeup unless the closing handler dies.    *)
THEOREM NoLostWakeup == Spec => []RegisteredWaiterIsServed
BY Invariance, PTL DEF Inv

(* A caller told "timed_out" left no open card behind.                     *)
THEOREM TimeoutCloses == Spec => []TimeoutClosesCard
BY Invariance, PTL DEF Inv

-----------------------------------------------------------------------------
(* Refinement: every step of the daemon is a step of the ledger or a       *)
(* stutter.                                                                *)
LEMMA LedgerStep ==
    ASSUME Inv, [Next]_vars
    PROVE  [Ledger!LedgerNext]_(Ledger!ledgerVars)
<1> DEFINE decision == [n \in Asks |-> IF kind[n] = "approval" THEN answer[n] ELSE None]
<1> USE Assumption DEF Inv, TypeOK
<1> SUFFICES ASSUME ~(grantAsk' = grantAsk /\ decision' = decision)
             PROVE  Ledger!LedgerNext
    BY DEF Ledger!ledgerVars
<1>1. CASE UNCHANGED <<kind, answer, grantAsk>>
    BY <1>1
<1>2. ASSUME NEW h \in Handlers, AnswerWrite(h)
      PROVE  Ledger!LedgerNext
  <2>1. kind[job[h].ask] = "plain" /\ job[h].ask \in Asks
      BY <1>2 DEF AnswerWrite, JobsConsistent, JobConsistent
  <2>2. decision' = decision /\ grantAsk' = grantAsk
      BY <1>2, <2>1 DEF AnswerWrite
  <2>3. QED
      BY <2>2
<1>3. ASSUME NEW h \in Handlers, NEW n \in Asks, NEW g \in Grants, GrantPost(h, n, g)
      PROVE  Ledger!LedgerNext
  <2>1. /\ grantAsk[g] = None /\ kind[n] = "approval" /\ kind' = kind
        /\ grantAsk' = [grantAsk EXCEPT ![g] = n]
      BY <1>3 DEF GrantPost, GrantAllowed, StoreGrant
  <2>2. CASE stored[n] = "open"
    <3>1. answer' = [answer EXCEPT ![n] = g]
        BY <1>3, <2>2 DEF GrantPost, UpdateFindsRow
    <3>2. answer[n] = None
        BY <2>1, <2>2 DEF ApprovalRows
    <3>3. decision[n] = None /\ decision' = [decision EXCEPT ![n] = g]
        BY <2>1, <3>1, <3>2
    <3>4. Ledger!Decide(g, n)
        BY <2>1, <3>3 DEF Ledger!Decide
    <3>5. QED
        BY <3>4 DEF Ledger!LedgerNext
  <2>3. CASE stored[n] # "open"
    <3>1. decision' = decision
        BY <1>3, <2>1, <2>3 DEF GrantPost, UpdateFindsRow
    <3>2. Ledger!StoreLate(g, n)
        BY <2>1, <3>1 DEF Ledger!StoreLate
    <3>3. QED
        BY <3>2 DEF Ledger!LedgerNext
  <2>4. QED
      BY <2>2, <2>3
<1>4. ASSUME NEW h \in Handlers, HandlerNext(h)
      PROVE  Ledger!LedgerNext
    BY <1>1, <1>2, <1>3, <1>4 DEF HandlerNext, AnswerCheck, CancelCheck, DismissCheck,
       DismissWrite, CancelWrite, AnswerReread, Wake, HandlerDies, rowVars
<1>5. ASSUME NEW w \in Waits, WaitNext(w)
      PROVE  UNCHANGED <<kind, answer, grantAsk>>
    BY <1>5, WaitFrame
<1>6. ASSUME NEW n \in Asks, AskInsert(n)
      PROVE  UNCHANGED <<kind, answer, grantAsk>>
    BY <1>6 DEF AskInsert
<1>7. CASE Restart \/ UNCHANGED vars
    BY <1>1, <1>7 DEF Restart, vars, rowVars
<1>8. QED
    BY <1>1, <1>4, <1>5, <1>6, <1>7 DEF Next, WaitNext

(* The daemon implements the ledger: grants are stored once and an         *)
(* approval ask is decided once, for good, by a grant stored in that step. *)
THEOREM LedgerRefinement == Spec => ImplementsLedger
<1>1. Init => Ledger!LedgerInit
    BY DEF Init, Ledger!LedgerInit
<1>2. Inv /\ [Next]_vars => [Ledger!LedgerNext]_(Ledger!ledgerVars)
    BY LedgerStep
<1>3. QED
    BY <1>1, <1>2, Invariance, PTL DEF Spec, ImplementsLedger, Ledger!LedgerSpec
=============================================================================
