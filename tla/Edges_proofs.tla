----------------------------- MODULE Edges_proofs -----------------------------
(***************************************************************************)
(* What holds of the processes, the pushes and the three plugins for any   *)
(* number of processes, phones, asks, profiles and messages.  They share   *)
(* no state: each has an inductive invariant of its own, and a step of     *)
(* Edges is one of one of them and none of the others.                     *)
(***************************************************************************)
EXTENDS Edges, FiniteSetTheorems, SequenceTheorems, TLAPS

(* What unmuddled starts and stops keep: one process runs at a time, and a *)
(* background one that runs is in the pidfile, or its starter is about to  *)
(* write it, or its stop to end it.                                        *)
ProcessTypeOK ==
    /\ proc \in [Pids -> {"none", "starting", "serving", "ended"}]
    /\ pidfile \in Pids \cup {NoPid}
    /\ stopping \in [pid : Pids \cup {NoPid}, next : {"read", "kill", "remove"}]
    /\ muddled \in BOOLEAN
    /\ launching \subseteq background
    /\ background \subseteq Pids
    /\ stopping.next = "read" => stopping = NoStop
    /\ stopping.next = "kill" => stopping.pid \in Pids

OneRuns ==
    /\ \A p, q \in Pids : Running(p) /\ Running(q) => p = q
    /\ \A p \in launching, q \in Pids : Running(q) => p = q
    /\ \A p, q \in launching : p = q

InPidfile == \A p \in background \ launching : Running(p) => pidfile = p

StopSeesIt ==
    stopping # NoStop =>
        /\ launching = {}
        /\ \A p \in background : Running(p) => stopping = [pid |-> p, next |-> "kill"]

ProcessInv ==
    /\ ProcessTypeOK
    /\ \A p \in background : proc[p] # "none"
    /\ ~muddled => OneRuns /\ InPidfile /\ StopSeesIt

(* No daemon runs and there is no pidfile at the start.                    *)
LEMMA ProcessInvInit == ProcessInit => ProcessInv
<1> SUFFICES ASSUME ProcessInit PROVE ProcessInv
  OBVIOUS
<1> USE DEF ProcessInit
<1>1. ProcessTypeOK
  BY DEF ProcessTypeOK, NoStop
<1>2. \A p \in Pids : ~Running(p)
  BY DEF Running
<1> QED BY <1>1, <1>2 DEF ProcessInv, OneRuns, InPidfile, StopSeesIt

(* Spawning the child of `start --background` keeps the invariant.         *)
LEMMA SpawnKeeps ==
    ASSUME ProcessInv, NEW p \in Pids, StartInline(p) \/ StartBackground(p)
    PROVE  ProcessInv'
<1> USE DEF ProcessInv, StartInline, StartBackground, Spawn
<1>1. ProcessTypeOK'
  BY DEF ProcessTypeOK, NoStop
<1>2. \A q \in background' : proc'[q] # "none"
  BY DEF ProcessTypeOK
<1>3. ASSUME ~muddled'
      PROVE  OneRuns' /\ InPidfile' /\ StopSeesIt'
  <2>1. /\ ~muddled /\ launching = {} /\ stopping = NoStop
        /\ \A q \in Pids : ~Running(q)
    BY <1>3 DEF ProcessTypeOK
  <2>2. \A q \in Pids : Running(q)' => q = p
    BY <2>1 DEF ProcessTypeOK, Running
  <2>3. launching' \subseteq {p} /\ stopping' = NoStop /\ background' \subseteq Pids
    BY <2>1 DEF ProcessTypeOK
  <2>4. OneRuns'
    BY <2>2, <2>3 DEF OneRuns
  <2>5. p \notin background' \ launching'
    BY DEF ProcessTypeOK
  <2>6. InPidfile'
    BY <2>2, <2>3, <2>5 DEF InPidfile
  <2> QED BY <2>3, <2>4, <2>6 DEF StopSeesIt, NoStop
<1> QED BY <1>1, <1>2, <1>3

(* Writing the pidfile keeps the invariant.                                *)
LEMMA WriteKeeps ==
    ASSUME ProcessInv, NEW p \in Pids, WritePidfile(p)
    PROVE  ProcessInv'
<1> USE DEF ProcessInv, WritePidfile
<1>1. ProcessTypeOK'
  <2>1. background' = background /\ launching' \subseteq launching /\ p \in Pids
    OBVIOUS
  <2>2. pidfile' \in Pids \cup {NoPid}
    BY DEF ProcessTypeOK
  <2>3. muddled' \in BOOLEAN
    BY Zenon DEF ProcessTypeOK
  <2> QED BY <2>1, <2>2, <2>3 DEF ProcessTypeOK, NoStop
<1>2. \A q \in background' : proc'[q] # "none"
  OBVIOUS
<1>3. ASSUME ~muddled'
      PROVE  OneRuns' /\ InPidfile' /\ StopSeesIt'
  <2>1. ~muddled /\ pidfile' = p
    BY <1>3
  <2>2. OneRuns'
    BY <2>1 DEF OneRuns, Running
  <2>3. InPidfile'
    BY <2>1 DEF InPidfile, OneRuns, Running, ProcessTypeOK
  <2>4. StopSeesIt'
    BY <2>1 DEF StopSeesIt, Running, NoStop
  <2> QED BY <2>2, <2>3, <2>4
<1> QED BY <1>1, <1>2, <1>3

(* Binding, failing to bind, stopping and crashing keep the invariant.     *)
LEMMA RestKeeps ==
    ASSUME ProcessInv,
           \/ \E p \in Pids : Bind(p) \/ Die(p)
           \/ StopReads \/ StopKills \/ StopRemoves
           \/ UNCHANGED processVars
    PROVE  ProcessInv'
<1> USE DEF ProcessInv
<1>1. ASSUME NEW p \in Pids, Bind(p)
      PROVE  ProcessInv'
  <2>1. ProcessTypeOK' BY <1>1 DEF Bind, ProcessTypeOK, NoStop
  <2>2. \A q \in background' : proc'[q] # "none" BY <1>1 DEF Bind, ProcessTypeOK
  <2>3. \A q \in Pids : Running(q)' <=> Running(q)
    BY <1>1 DEF Bind, Running, ProcessTypeOK
  <2> QED BY <1>1, <2>1, <2>2, <2>3
       DEF Bind, OneRuns, InPidfile, StopSeesIt, NoStop, ProcessTypeOK
<1>2. ASSUME NEW p \in Pids, Die(p)
      PROVE  ProcessInv'
  <2>1. ProcessTypeOK' BY <1>2 DEF Die, ProcessTypeOK, NoStop
  <2>2. \A q \in background' : proc'[q] # "none" BY <1>2 DEF Die, ProcessTypeOK
  <2>3. \A q \in Pids : Running(q)' => Running(q)
    BY <1>2 DEF Die, Running, ProcessTypeOK
  <2> QED BY <1>2, <2>1, <2>2, <2>3
       DEF Die, OneRuns, InPidfile, StopSeesIt, NoStop, ProcessTypeOK
<1>3. CASE StopReads
  <2>1. ProcessTypeOK' BY <1>3 DEF StopReads, ProcessTypeOK, NoStop
  <2>3. \A q \in Pids : Running(q)' <=> Running(q)
    BY <1>3 DEF StopReads, Running
  <2>4. ~muddled' => ~muddled /\ launching = {} BY <1>3 DEF StopReads, ProcessTypeOK
  <2>5. ~muddled' => StopSeesIt'
    BY <1>3, <2>3, <2>4 DEF StopReads, StopSeesIt, InPidfile, ProcessTypeOK
  <2> QED BY <1>3, <2>1, <2>3, <2>4, <2>5 DEF StopReads, OneRuns, InPidfile, ProcessTypeOK
<1>4. CASE StopKills
  <2>0. stopping # NoStop BY <1>4 DEF StopKills, NoStop
  <2>1. ProcessTypeOK' BY <1>4 DEF StopKills, ProcessTypeOK, NoStop
  <2>2. \A q \in background' : proc'[q] # "none" BY <1>4 DEF StopKills, ProcessTypeOK
  <2>3. \A q \in Pids : Running(q)' => Running(q) /\ q # stopping.pid
    BY <1>4 DEF StopKills, Running, ProcessTypeOK
  <2>4. ~muddled' => OneRuns' /\ InPidfile'
    BY <1>4, <2>3 DEF StopKills, OneRuns, InPidfile, ProcessTypeOK
  <2>5. ~muddled' => StopSeesIt'
    BY <1>4, <2>0, <2>3 DEF StopKills, StopSeesIt, ProcessTypeOK
  <2> QED BY <1>4, <2>1, <2>2, <2>4, <2>5
<1>5. CASE StopRemoves
  <2>0. stopping # NoStop BY <1>5 DEF StopRemoves, NoStop
  <2>1. ProcessTypeOK' BY <1>5, ProcessAssumption DEF StopRemoves, ProcessTypeOK, NoStop
  <2>3. \A q \in Pids : Running(q)' <=> Running(q)
    BY <1>5 DEF StopRemoves, Running
  <2>4. ~muddled => \A q \in background : ~Running(q)
    BY <1>5, <2>0 DEF StopRemoves, StopSeesIt
  <2>5. ~muddled' => OneRuns' /\ InPidfile'
    BY <1>5, <2>3, <2>4 DEF StopRemoves, OneRuns, InPidfile, ProcessTypeOK
  <2> QED BY <1>5, <2>1, <2>5 DEF StopRemoves, StopSeesIt
<1>6. CASE UNCHANGED processVars
  BY <1>6 DEF processVars, ProcessTypeOK, OneRuns, InPidfile, StopSeesIt, Running, NoStop
<1> QED BY <1>1, <1>2, <1>3, <1>4, <1>5, <1>6

(* Every step of the daemon processes keeps the invariant.                 *)
LEMMA ProcessInvStep == ProcessInv /\ [ProcessNext]_processVars => ProcessInv'
BY SpawnKeeps, WriteKeeps, RestKeeps DEF ProcessNext

(* The invariant says whose pid the pidfile holds.                         *)
LEMMA ProcessInvImplies == ProcessInv => PidfileNamesDaemon
BY DEF ProcessInv, PidfileNamesDaemon, InPidfile, Running

-----------------------------------------------------------------------------
(* A list without repetitions keeps none of a removed entry.               *)
LEMMA RemovedFrom ==
    ASSUME NEW S, NEW s \in Seq(S), NEW i \in DOMAIN s, IsInjective(s)
    PROVE  /\ RemoveAt(s, i) \in Seq(S)
           /\ IsInjective(RemoveAt(s, i))
           /\ s[i] \notin Range(RemoveAt(s, i))
<1> DEFINE n == Len(s)
           r == RemoveAt(s, i)
<1>1. n \in Nat /\ i \in 1..n /\ DOMAIN s = 1..n
  BY LenProperties
<1>2. \A k \in 1..n : s[k] \in S
  BY ElementOfSeq
<1>3. /\ SubSeq(s, 1, i-1) \in Seq(S)
      /\ Len(SubSeq(s, 1, i-1)) = i-1
      /\ \A k \in 1..i-1 : SubSeq(s, 1, i-1)[k] = s[k]
  <2>1. \A k \in 1..i-1 : s[k] \in S
    BY <1>1, <1>2
  <2> QED BY <1>1, <2>1, SubSeqProperties, Z3
<1>4. /\ SubSeq(s, i+1, n) \in Seq(S)
      /\ Len(SubSeq(s, i+1, n)) = n-i
      /\ \A k \in 1..n-i : SubSeq(s, i+1, n)[k] = s[k+i]
  <2>1. \A k \in i+1..n : s[k] \in S
    BY <1>1, <1>2
  <2> QED BY <1>1, <2>1, SubSeqProperties, Z3
<1>5. /\ r \in Seq(S) /\ Len(r) = n-1
      /\ \A k \in 1..n-1 : r[k] = IF k < i THEN s[k] ELSE s[k+1]
  <2> DEFINE x == SubSeq(s, 1, i-1)
             y == SubSeq(s, i+1, n)
  <2>1. /\ x \o y \in Seq(S) /\ Len(x \o y) = Len(x) + Len(y)
        /\ \A k \in 1..Len(x) + Len(y) : (x \o y)[k] = IF k <= Len(x) THEN x[k] ELSE y[k - Len(x)]
    BY <1>3, <1>4, ConcatProperties
  <2>2. r = x \o y
    BY DEF RemoveAt
  <2>3. \A k \in 1..n-1 : k < i => r[k] = s[k]
    <3> SUFFICES ASSUME NEW k \in 1..n-1, k < i PROVE r[k] = s[k]
      OBVIOUS
    <3>1. k \in 1..i-1 /\ k \in 1..Len(x) + Len(y) /\ k <= Len(x)
      BY <1>1, <1>3, <1>4
    <3>2. r[k] = x[k]
      BY <2>1, <2>2, <3>1
    <3> QED BY <1>3, <3>1, <3>2
  <2>4. \A k \in 1..n-1 : ~(k < i) => r[k] = s[k+1]
    <3> SUFFICES ASSUME NEW k \in 1..n-1, ~(k < i) PROVE r[k] = s[k+1]
      OBVIOUS
    <3>1. k - (i-1) \in 1..n-i /\ k - (i-1) + i = k+1
      BY <1>1
    <3>2. k \in 1..Len(x) + Len(y) /\ ~(k <= Len(x)) /\ Len(x) = i-1
      BY <1>1, <1>3, <1>4
    <3>3. r[k] = y[k - (i-1)]
      BY <2>1, <2>2, <3>2
    <3> QED BY <1>4, <3>1, <3>3
  <2>5. r \in Seq(S)
    BY <2>1, <2>2
  <2>6. Len(r) = n-1
    BY <1>1, <1>3, <1>4, <2>1, <2>2
  <2> HIDE DEF r
  <2> QED BY <2>3, <2>4, <2>5, <2>6
<1>6. DOMAIN r = 1..n-1
  BY <1>5, LenProperties
<1>7. \A a, b \in 1..n : s[a] = s[b] => a = b
  BY <1>1 DEF IsInjective
<1>8. IsInjective(r)
  BY <1>1, <1>5, <1>6, <1>7 DEF IsInjective
<1>9. s[i] \notin Range(r)
  BY <1>1, <1>5, <1>6, <1>7 DEF Range
<1> QED BY <1>5, <1>8, <1>9

-----------------------------------------------------------------------------
(* The subscription in a row, and every one a task has read from it, is    *)
(* one the browser made, and what a task has read is never newer than what *)
(* the row has now.                                                        *)
Known == {e \in [to : Phones, sub : Nat] :
            e.sub <= made[e.to] /\ (sub[e.to] = 0 \/ e.sub <= sub[e.to])}

RowsOK ==
    /\ devices \in Seq(Phones) /\ IsInjective(devices)
    /\ sub \in [Phones -> Nat] /\ live \in [Phones -> Nat] /\ made \in [Phones -> Nat]
    /\ \A d \in Phones : live[d] \in {0, made[d]} /\ sub[d] <= made[d]

JobsOK ==
    /\ job \in [Jobs -> [pc : {"idle", "list", "send", "record", "done"},
                         todo : Seq(Known), outcome : Outcomes]]
    /\ \A j \in Jobs : job[j].pc = "record" => job[j].todo # <<>>

RowsInv == RowsOK /\ JobsOK

(* There are no devices and no push tasks at the start.                    *)
LEMMA RowsInvInit == PushInit => RowsInv
<1> SUFFICES ASSUME PushInit PROVE RowsInv
  OBVIOUS
<1> USE DEF PushInit
<1>1. RowsOK
  BY EmptySeq DEF RowsOK, IsInjective
<1>2. <<>> \in Seq(Known)
  BY EmptySeq
<1>3. JobsOK
  BY <1>2 DEF JobsOK, Idle, Outcomes
<1> QED BY <1>1, <1>3 DEF RowsInv

(* What the browser and the page do.                                       *)
LEMMA RowsChange ==
    ASSUME RowsInv, NEW d \in Phones,
           Subscribe(d) \/ Unsubscribe(d) \/ Register(d) \/ Unregister(d)
    PROVE  RowsInv'
<1> USE DEF RowsInv
<1>1. job' = job
  BY DEF Subscribe, Unsubscribe, Register, Unregister
<1>2. devices' \in Seq(Phones) /\ IsInjective(devices')
  <2>1. CASE devices' = devices
    BY <2>1 DEF RowsOK
  <2>2. CASE devices' = Append(devices, d) /\ d \notin Range(devices)
    <3>1. /\ devices \in Seq(Phones) /\ DOMAIN devices = 1..Len(devices) /\ Len(devices) \in Nat
          /\ \A i, k \in 1..Len(devices) : devices[i] = devices[k] => i = k
      BY LenProperties DEF RowsOK, IsInjective
    <3>2. /\ devices' \in Seq(Phones) /\ Len(devices') = Len(devices) + 1
          /\ \A i \in 1..Len(devices) : devices'[i] = devices[i]
          /\ devices'[Len(devices) + 1] = d
      BY <2>2, <3>1, AppendProperties
    <3>3. DOMAIN devices' = 1..Len(devices) + 1
      BY <3>2, LenProperties
    <3>4. \A i \in 1..Len(devices) : devices'[i] # d
      BY <2>2, <3>1, <3>2 DEF Range
    <3>5. ASSUME NEW i \in 1..Len(devices) + 1, NEW k \in 1..Len(devices) + 1,
                 devices'[i] = devices'[k]
          PROVE  i = k
      <4>1. i \in 1..Len(devices) \/ i = Len(devices) + 1
        BY <3>1
      <4>2. k \in 1..Len(devices) \/ k = Len(devices) + 1
        BY <3>1
      <4> QED BY <3>1, <3>2, <3>4, <3>5, <4>1, <4>2
    <3> QED BY <3>2, <3>3, <3>5 DEF IsInjective
  <2>3. CASE \E i \in DOMAIN devices : devices' = RemoveAt(devices, i)
    BY <2>3, RemovedFrom DEF RowsOK
  <2> QED BY <2>1, <2>2, <2>3 DEF Subscribe, Unsubscribe, Register, Unregister
<1>3. RowsOK'
  <2>1. CASE Subscribe(d)
    BY <1>2, <2>1 DEF RowsOK, Subscribe
  <2>2. CASE Unsubscribe(d)
    BY <1>2, <2>2 DEF RowsOK, Unsubscribe
  <2>3. CASE Register(d)
    BY <1>2, <2>3 DEF RowsOK, Register, Upserted
  <2>4. CASE Unregister(d)
    BY <1>2, <2>4 DEF RowsOK, Unregister
  <2> QED BY <2>1, <2>2, <2>3, <2>4
<1>4. Known \subseteq Known'
  <2>1. CASE Subscribe(d)
    BY <2>1 DEF Known, RowsOK, Subscribe
  <2>2. CASE Unsubscribe(d)
    BY <2>2 DEF Known, RowsOK, Unsubscribe
  <2>3. CASE Register(d)
    BY <2>3 DEF Known, RowsOK, Register, Upserted
  <2>4. CASE Unregister(d)
    BY <2>4 DEF Known, RowsOK, Unregister
  <2> QED BY <2>1, <2>2, <2>3, <2>4
<1>5. \A s \in Seq(Known) : s \in Seq(Known')
  BY <1>4, SeqMonotonic
<1>6. JobsOK'
  BY <1>1, <1>5 DEF JobsOK
<1> QED BY <1>3, <1>6

(* So do the steps that create, list and send.                             *)
LEMMA JobsChange ==
    ASSUME RowsInv,
           \/ \E a \in Asks : PushCreated(a)
           \/ \E a \in Asks, how \in {"Answered", "Cancelled", "Dismissed"} : Close(a, how)
           \/ PushTest \/ TestDropped
           \/ \E j \in Jobs : PassOver(j) \/ ListDevices(j) \/ ListFails(j) \/ JobEnds(j)
           \/ \E j \in Jobs, outcome \in Outcomes : PushSend(j, outcome)
    PROVE  RowsInv'
<1> USE DEF RowsInv
<1>1. UNCHANGED phoneVars
  BY DEF PushCreated, Close, PushTest, TestDropped, PassOver, ListDevices, ListFails, JobEnds, PushSend
<1>2. RowsOK' /\ Known' = Known
  BY <1>1 DEF RowsOK, phoneVars, Known
<1>3. JobsOK'
  <2> USE <1>2 DEF JobsOK
  <2>1. ASSUME NEW j \in Jobs, job' = Spawned(j)
        PROVE  JobsOK'
    BY <2>1, EmptySeq DEF Spawned, Idle, Outcomes
  <2>2. ASSUME NEW j \in Jobs, ListDevices(j)
        PROVE  JobsOK'
    <3>1. \A d \in Phones : Entry(d) \in Known
      BY DEF Entry, Known, RowsOK
    <3>2. Listed \in Seq(Known)
      <4>1. DOMAIN devices = 1..Len(devices) /\ Len(devices) \in Nat
        BY LenProperties DEF RowsOK
      <4>2. \A i \in 1..Len(devices) : Entry(devices[i]) \in Known
        BY <3>1, ElementOfSeq DEF RowsOK
      <4> QED BY <4>1, <4>2 DEF Listed
    <3>3. \A d \in Phones : ListedOnly(d) \in Seq(Known)
      BY <3>1, EmptySeq DEF ListedOnly
    <3>4. PICK list \in {Listed} \cup {ListedOnly(d) : d \in {e \in Phones : j = Test}} :
             job' = [job EXCEPT ![j] = Sending(list)]
      BY <2>2 DEF ListDevices
    <3>5. list \in Seq(Known)
      BY <3>2, <3>3
    <3> QED BY <3>4, <3>5 DEF Sending, Outcomes
  <2>3. ASSUME NEW j \in Jobs, PassOver(j)
        PROVE  JobsOK'
    <3>1. Tail(job[j].todo) \in Seq(Known)
      BY <2>3, HeadTailProperties DEF PassOver
    <3> QED BY <2>3, <3>1 DEF PassOver, Sending, Outcomes
  <2>4. ASSUME NEW j \in Jobs, ListFails(j) \/ JobEnds(j)
        PROVE  JobsOK'
    BY <2>4 DEF ListFails, JobEnds
  <2>5. ASSUME NEW j \in Jobs, NEW outcome \in Outcomes, PushSend(j, outcome)
        PROVE  JobsOK'
    BY <2>5 DEF PushSend
  <2>6. ASSUME TestDropped PROVE JobsOK'
    BY <2>6, EmptySeq DEF TestDropped, Jobs, Idle, Outcomes
  <2>7. \A a \in Asks : [ask |-> a, kind |-> "ask"] \in Jobs /\ [ask |-> a, kind |-> "closed"] \in Jobs
    BY DEF Jobs, Push, Kinds
  <2>8. Test \in Jobs
    BY DEF Jobs
  <2> QED BY <2>1, <2>2, <2>3, <2>4, <2>5, <2>6, <2>7, <2>8 DEF PushCreated, Close, PushTest
<1> QED BY <1>2, <1>3

(* Recording the outcome of a push keeps the tasks as old as their rows.   *)
LEMMA RecordChanges ==
    ASSUME RowsInv, NEW j \in Jobs, RecordOutcome(j)
    PROVE  RowsInv'
<1> USE DEF RowsInv
<1>1. job[j].todo # <<>> /\ job[j].todo \in Seq(Known)
  BY DEF JobsOK, RecordOutcome
<1>2. Head(job[j].todo) \in Known /\ Tail(job[j].todo) \in Seq(Known)
  BY <1>1, HeadTailProperties
<1> DEFINE d == Head(job[j].todo).to
<1>3. d \in Phones
  BY <1>2 DEF Known
<1>4. sub' \in {sub, [sub EXCEPT ![d] = 0]}
  BY DEF RecordOutcome
<1>5. RowsOK'
  <2>1. UNCHANGED <<devices, live, made>>
    BY DEF RecordOutcome
  <2>2. CASE sub' = sub
    BY <2>1, <2>2 DEF RowsOK
  <2>3. CASE sub' = [sub EXCEPT ![d] = 0]
    <3>1. sub' \in [Phones -> Nat] /\ \A e \in Phones : sub'[e] = 0 \/ sub'[e] = sub[e]
      BY <1>3, <2>3 DEF RowsOK
    <3>2. \A e \in Phones : made[e] \in Nat /\ sub[e] <= made[e]
      BY DEF RowsOK
    <3>3. \A e \in Phones : sub'[e] <= made[e]
      BY <3>1, <3>2
    <3> QED BY <2>1, <3>1, <3>3 DEF RowsOK
  <2> QED BY <1>4, <2>2, <2>3
<1>6. Known \subseteq Known'
  BY <1>3, <1>4 DEF Known, RowsOK, RecordOutcome
<1>7. \A s \in Seq(Known) : s \in Seq(Known')
  BY <1>6, SeqMonotonic
<1>8. job' = [job EXCEPT ![j] = Sending(Tail(job[j].todo))]
  BY DEF RecordOutcome
<1>9. JobsOK'
  BY <1>2, <1>7, <1>8 DEF JobsOK, Outcomes, Sending
<1> QED BY <1>5, <1>9

(* Every step of the push tasks keeps what they hold at most as new as the *)
(* rows.                                                                   *)
LEMMA RowsInvStep == RowsInv /\ [PushNext]_pushVars => RowsInv'
<1> SUFFICES ASSUME RowsInv, [PushNext]_pushVars PROVE RowsInv'
  OBVIOUS
<1>1. ASSUME UNCHANGED <<devices, sub, live, made, job>>
      PROVE  RowsInv'
  <2>1. Known' = Known
    BY <1>1 DEF Known
  <2> QED BY <1>1, <2>1 DEF RowsInv, RowsOK, JobsOK
<1>2. ASSUME NEW d \in Phones, NEW p \in Push, PushDeliver(d, p) \/ Expire(d, p)
      PROVE  RowsInv'
  BY <1>1, <1>2 DEF PushDeliver, Expire, phoneVars
<1>3. ASSUME NEW d \in Phones, NEW a \in Asks, Tap(d, a)
      PROVE  RowsInv'
  BY <1>1, <1>3 DEF Tap, phoneVars
<1>4. ASSUME NEW a \in Asks, StoreAsk(a) \/ TimeOut(a)
      PROVE  RowsInv'
  BY <1>1, <1>4 DEF StoreAsk, TimeOut, phoneVars
<1>5. CASE UNCHANGED pushVars
  BY <1>1, <1>5 DEF pushVars
<1> QED BY <1>2, <1>3, <1>4, <1>5, RowsChange, JobsChange, RecordChanges DEF PushNext

(* A step that clears a subscription has the word of the push service for  *)
(* it.                                                                     *)
LEMMA ForgottenStep ==
    ASSUME RowsInv, [PushNext]_pushVars, NEW d \in Range(devices),
           sub[d] # 0, sub'[d] = 0, d \in Range(devices')
    PROVE  \E j \in Jobs : /\ job[j].pc = "record" /\ job[j].todo # <<>>
                           /\ Head(job[j].todo).to = d
                           /\ job[j].outcome = "Gone"
                           /\ Head(job[j].todo).sub <= sub[d]
<1>1. d \in Phones
  <2>1. PICK i \in DOMAIN devices : devices[i] = d
    BY DEF Range
  <2> QED BY <2>1, ElementOfSeq, LenProperties DEF RowsInv, RowsOK
<1>2. ASSUME NEW j \in Jobs, RecordOutcome(j)
      PROVE  /\ job[j].pc = "record" /\ job[j].todo # <<>>
             /\ Head(job[j].todo).to = d
             /\ job[j].outcome = "Gone"
             /\ Head(job[j].todo).sub <= sub[d]
  <2>1. /\ job[j].pc = "record" /\ job[j].todo # <<>> /\ job[j].todo \in Seq(Known)
    BY <1>2 DEF RowsInv, JobsOK, RecordOutcome
  <2>2. Head(job[j].todo) \in Known
    BY <2>1, HeadTailProperties
  <2>3. job[j].outcome = "Gone" /\ Head(job[j].todo).to = d
    BY <1>1, <1>2 DEF RecordOutcome, Cleared, RowsInv, RowsOK
  <2> QED BY <2>1, <2>2, <2>3 DEF Known
<1>3. ASSUME NEW e \in Phones, Unregister(e)
      PROVE  FALSE
  <2>1. PICK i \in DOMAIN devices : devices[i] = e /\ devices' = RemoveAt(devices, i)
    BY <1>3 DEF Unregister
  <2>2. e \notin Range(devices')
    BY <2>1, RemovedFrom DEF RowsInv, RowsOK
  <2>3. e # d
    BY <2>2
  <2> QED BY <1>1, <1>3, <2>3 DEF Unregister, RowsInv, RowsOK
<1>4. ASSUME NEW e \in Phones, Register(e)
      PROVE  FALSE
  BY <1>1, <1>4 DEF Register, Upserted, RowsInv, RowsOK
<1>5. sub' # sub
  OBVIOUS
<1>6. \/ \E j \in Jobs : RecordOutcome(j)
      \/ \E e \in Phones : Register(e) \/ Unregister(e)
  BY <1>5 DEF PushNext, pushVars, phoneVars, Subscribe, Unsubscribe, PushDeliver, Expire, Tap,
              StoreAsk, PushCreated, TimeOut, Close, PushTest, TestDropped,
              PassOver, ListDevices, ListFails, JobEnds, PushSend
<1> QED BY <1>2, <1>3, <1>4, <1>6

-----------------------------------------------------------------------------
(* A closing push that the service accepted and still holds, or has        *)
(* delivered, leaves no banner that asks: the first push of the ask was    *)
(* over before, so that nothing of it can be accepted after.               *)
Asking(a) == [ask |-> a, kind |-> "ask"]
Closing(a) == [ask |-> a, kind |-> "closed"]
Unclosed == {"new", "Open", "TimedOut"}

ServiceTypeOK ==
    /\ status \in [Asks -> Unclosed \cup {"Answered", "Cancelled", "Dismissed"}]
    /\ pending \in [Phones -> SUBSET Push]
    /\ accepted \in [Phones -> SUBSET Push]
    /\ dropped \in [Phones -> SUBSET Push]
    /\ banner \in [Phones -> [Asks -> {"none"} \cup Kinds]]
    /\ overlapped \in SUBSET Asks

ClosingFollows ==
    \A a \in Asks :
        /\ job[Closing(a)].pc # "idle" => status[a] \notin Unclosed
        /\ status[a] \notin Unclosed /\ a \notin overlapped => job[Asking(a)].pc = "done"
        /\ \A d \in Phones : Closing(a) \in accepted[d] => job[Closing(a)].pc # "idle"

ClosingHolds ==
    \A d \in Phones, a \in Asks :
        Closing(a) \in accepted[d] /\ Closing(a) \notin dropped[d] /\ a \notin overlapped
        => /\ Asking(a) \notin pending[d]
           /\ Closing(a) \in pending[d] \/ banner[d][a] # "ask"

BannerInv == ServiceTypeOK /\ ClosingFollows /\ ClosingHolds

(* The pushes of an ask, and the tasks that send them, are told apart.     *)
LEMMA PushShape ==
    /\ \A a \in Asks : /\ Asking(a) \in Push /\ Closing(a) \in Push
                       /\ Asking(a) \in Jobs /\ Closing(a) \in Jobs
                       /\ Asking(a) # Test /\ Closing(a) # Test
    /\ \A a, b \in Asks : /\ Asking(a) # Closing(b)
                          /\ Asking(a) = Asking(b) => a = b
                          /\ Closing(a) = Closing(b) => a = b
    /\ \A p \in Push : p.ask \in Asks /\ (p = Asking(p.ask) \/ p = Closing(p.ask))
    /\ \A a \in Asks : Asking(a).ask = a /\ Closing(a).ask = a
                       /\ Asking(a).kind = "ask" /\ Closing(a).kind = "closed"
    /\ \A j \in Jobs : j = Test \/ j \in Push
    /\ Test \in Jobs
BY DEF Asking, Closing, Push, Kinds, Jobs, Test

(* No banner shows at the start.                                           *)
LEMMA BannerInvInit == PushInit => BannerInv
<1> SUFFICES ASSUME PushInit PROVE BannerInv
  OBVIOUS
<1>1. ServiceTypeOK
  BY DEF PushInit, ServiceTypeOK, Unclosed
<1>2. ClosingFollows
  BY PushShape DEF PushInit, ClosingFollows, Unclosed, Idle
<1>3. ClosingHolds
  BY DEF PushInit, ClosingHolds
<1> QED BY <1>1, <1>2, <1>3 DEF BannerInv

(* An ask is stored, pushed, closed or timed out.                          *)
LEMMA AskKeeps ==
    ASSUME BannerInv, RowsInv, NEW a \in Asks,
           \/ StoreAsk(a) \/ PushCreated(a) \/ TimeOut(a)
           \/ \E how \in {"Answered", "Cancelled", "Dismissed"} : Close(a, how)
    PROVE  BannerInv'
<1> USE DEF BannerInv
<1>0. UNCHANGED serviceVars /\ job \in [Jobs -> [pc : {"idle", "list", "send", "record", "done"},
                         todo : Seq(Known), outcome : Outcomes]]
  BY DEF StoreAsk, PushCreated, TimeOut, Close, RowsInv, JobsOK
<1>1. overlapped \subseteq overlapped' /\ overlapped' \in SUBSET Asks
  BY DEF StoreAsk, PushCreated, TimeOut, Close, ServiceTypeOK
<1>2. ServiceTypeOK'
  BY <1>0, <1>1 DEF StoreAsk, PushCreated, TimeOut, Close, ServiceTypeOK, Unclosed, serviceVars
<1>3. ClosingHolds'
  BY <1>0, <1>1 DEF ClosingHolds, serviceVars
<1>4. ClosingFollows'
  <2>1. CASE StoreAsk(a) \/ TimeOut(a)
    BY <1>0, <2>1 DEF StoreAsk, TimeOut, ClosingFollows, ServiceTypeOK, Unclosed, serviceVars
  <2>2. CASE PushCreated(a)
    <3>1. /\ status' = status /\ accepted' = accepted
          /\ \A j \in Jobs : j # Asking(a) => job'[j] = job[j]
          /\ job[Asking(a)].pc = "idle"
      BY <1>0, <2>2, PushShape DEF PushCreated, Asking, Spawned, serviceVars
    <3>2. status[a] \notin Unclosed => a \in overlapped'
      BY <2>2 DEF PushCreated, Unclosed
    <3> QED BY <1>1, <3>1, <3>2, PushShape DEF ClosingFollows
  <2>3. ASSUME NEW how \in {"Answered", "Cancelled", "Dismissed"}, Close(a, how)
        PROVE  ClosingFollows'
    <3>1. /\ accepted' = accepted
          /\ \A j \in Jobs : j # Closing(a) => job'[j] = job[j]
          /\ job'[Closing(a)].pc = "list"
      BY <1>0, <2>3, PushShape DEF Close, Closing, Spawned, Idle, serviceVars
    <3>2. /\ \A b \in Asks : b # a => status'[b] = status[b]
          /\ status'[a] \notin Unclosed
      BY <2>3 DEF Close, ServiceTypeOK, Unclosed
    <3>3. a \notin overlapped' => job[Asking(a)].pc = "done"
      BY <2>3 DEF Close, Asking
    <3> QED BY <1>1, <3>1, <3>2, <3>3, PushShape DEF ClosingFollows
  <2> QED BY <2>1, <2>2, <2>3
<1> QED BY <1>2, <1>3, <1>4

(* A task walks its list.                                                  *)
LEMMA WalkKeeps ==
    ASSUME BannerInv, RowsInv,
           \/ \E j \in Jobs : PassOver(j) \/ ListDevices(j) \/ ListFails(j) \/ JobEnds(j)
                              \/ RecordOutcome(j)
           \/ PushTest \/ TestDropped
    PROVE  BannerInv'
<1> USE DEF BannerInv
<1>0. job \in [Jobs -> [pc : {"idle", "list", "send", "record", "done"},
                        todo : Seq(Known), outcome : Outcomes]]
  BY DEF RowsInv, JobsOK
<1>1. UNCHANGED <<serviceVars, askVars>>
  BY DEF PassOver, ListDevices, ListFails, JobEnds, RecordOutcome, PushTest, TestDropped
<1>2. ServiceTypeOK' /\ ClosingHolds'
  BY <1>1 DEF ServiceTypeOK, ClosingHolds, serviceVars, askVars
<1>3. \A j \in Push : /\ job[j].pc = "idle" <=> job'[j].pc = "idle"
                      /\ job[j].pc = "done" => job'[j].pc = "done"
  <2>1. Push \subseteq Jobs /\ Test \notin Push
    BY DEF Jobs, Push, Kinds, Test
  <2>2. ASSUME NEW i \in Jobs, PassOver(i) \/ ListDevices(i) \/ ListFails(i) \/ JobEnds(i)
                               \/ RecordOutcome(i)
        PROVE  /\ \A j \in Jobs : j # i => job'[j] = job[j]
               /\ job[i].pc \notin {"idle", "done"} /\ job'[i].pc # "idle"
    BY <1>0, <2>2 DEF PassOver, ListDevices, ListFails, JobEnds, RecordOutcome, Sending
  <2>3. CASE PushTest \/ TestDropped
    BY <1>0, <2>1, <2>3 DEF PushTest, Spawned, TestDropped
  <2> QED BY <2>1, <2>2, <2>3
<1>4. ClosingFollows'
  BY <1>1, <1>3, PushShape DEF ClosingFollows, serviceVars, askVars
<1> QED BY <1>2, <1>4

(* A push handed to the push service keeps the invariant of banners.       *)
LEMMA SendKeeps ==
    ASSUME BannerInv, RowsInv, NEW j \in Jobs, NEW outcome \in Outcomes, PushSend(j, outcome)
    PROVE  BannerInv'
<1> USE DEF BannerInv
<1> DEFINE d == Head(job[j].todo).to
<1>0. /\ job \in [Jobs -> [pc : {"idle", "list", "send", "record", "done"},
                           todo : Seq(Known), outcome : Outcomes]]
      /\ UNCHANGED askVars /\ job[j].pc = "send"
      /\ job' = [job EXCEPT ![j].pc = "record", ![j].outcome = outcome]
  BY DEF RowsInv, JobsOK, PushSend
<1>1. d \in Phones
  <2>1. job[j].todo # <<>> /\ job[j].todo \in Seq(Known)
    BY <1>0 DEF PushSend
  <2> QED BY <2>1, HeadTailProperties DEF Known
<1>2. /\ \A i \in Jobs : i # j => job'[i] = job[i]
      /\ job'[j].pc = "record"
  BY <1>0
<1>3. CASE UNCHANGED serviceVars
  <2>1. ServiceTypeOK' /\ ClosingHolds'
    BY <1>0, <1>3 DEF ServiceTypeOK, ClosingHolds, serviceVars, askVars
  <2>2. ClosingFollows'
    BY <1>0, <1>2, <1>3, PushShape DEF ClosingFollows, serviceVars, askVars
  <2> QED BY <2>1, <2>2
<1>4. CASE j # Test /\ Accept(d, j)
  <2>1. /\ j \in Push
        /\ pending' = [pending EXCEPT ![d] = Held(pending[d], j)]
        /\ accepted' = [accepted EXCEPT ![d] = accepted[d] \cup {j}]
        /\ banner' = banner /\ dropped' = dropped
        /\ status' = status /\ overlapped' = overlapped
    BY <1>0, <1>4, PushShape DEF Accept, askVars
  <2>2. ServiceTypeOK'
    BY <1>1, <2>1 DEF ServiceTypeOK, Held
  <2>3. ASSUME NEW e \in Phones, NEW p \in Push
        PROVE  p \in accepted'[e] <=> p \in accepted[e] \/ (e = d /\ p = j)
    BY <1>1, <2>1 DEF ServiceTypeOK
  <2>4. ASSUME NEW e \in Phones, NEW p \in Push
        PROVE  p \in pending'[e]
               <=> IF e = d THEN p = j \/ (p \in pending[e] /\ p.ask # j.ask) ELSE p \in pending[e]
    BY <1>1, <2>1 DEF ServiceTypeOK, Held
  <2>5. ClosingFollows'
    <3>1. ASSUME NEW a \in Asks
          PROVE  /\ job'[Closing(a)].pc # "idle" => job[Closing(a)].pc # "idle"
                 /\ job[Asking(a)].pc = "done" => job'[Asking(a)].pc = "done"
                 /\ job[Closing(a)].pc # "idle" => job'[Closing(a)].pc # "idle"
      BY <1>0, <1>2, PushShape
    <3>2. ASSUME NEW a \in Asks, NEW e \in Phones, Closing(a) \in accepted'[e]
          PROVE  job'[Closing(a)].pc # "idle"
      BY <1>2, <2>3, <3>1, <3>2, PushShape DEF ClosingFollows
    <3> QED BY <2>1, <3>1, <3>2 DEF ClosingFollows
  <2>6. ASSUME NEW e \in Phones, NEW a \in Asks,
               Closing(a) \in accepted'[e], Closing(a) \notin dropped[e], a \notin overlapped
        PROVE  /\ Asking(a) \notin pending'[e]
               /\ Closing(a) \in pending'[e] \/ banner[e][a] # "ask"
    <3>1. CASE e # d \/ j.ask # a
      <4>1. (j # Closing(a) /\ j # Asking(a)) \/ e # d
        BY <3>1, PushShape
      <4>2. Closing(a) \in accepted[e]
        BY <2>3, <2>6, <4>1, PushShape
      <4>3. /\ Asking(a) \notin pending[e]
            /\ Closing(a) \in pending[e] \/ banner[e][a] # "ask"
        BY <2>6, <4>2 DEF ClosingHolds
      <4>4. Asking(a).ask = a /\ Closing(a).ask = a /\ Asking(a) \in Push /\ Closing(a) \in Push
        BY PushShape
      <4> QED BY <2>4, <3>1, <4>1, <4>3, <4>4
    <3>2. CASE e = d /\ j = Closing(a)
      BY <2>4, <3>2, PushShape
    <3>3. CASE e = d /\ j = Asking(a)
      <4>1. Closing(a) \in accepted[e]
        BY <2>3, <2>6, <3>3, PushShape
      <4>2. job[Asking(a)].pc = "done"
        BY <2>6, <4>1 DEF ClosingFollows
      <4> QED BY <1>0, <3>3, <4>2
    <3> QED BY <2>1, <3>1, <3>2, <3>3, PushShape
  <2>7. ClosingHolds'
    BY <2>1, <2>6 DEF ClosingHolds
  <2> QED BY <2>2, <2>5, <2>7
<1> QED BY <1>3, <1>4 DEF PushSend, Accept

(* The service delivers or drops what it holds, and the phone is tapped.   *)
LEMMA PhoneKeeps ==
    ASSUME BannerInv, NEW d \in Phones,
           \/ \E p \in Push : PushDeliver(d, p) \/ Expire(d, p)
           \/ \E a \in Asks : Tap(d, a)
    PROVE  BannerInv'
<1> USE DEF BannerInv
<1>1. UNCHANGED <<status, overlapped, job, accepted>>
  BY DEF PushDeliver, Expire, Tap, askVars
<1>2. ClosingFollows'
  BY <1>1 DEF ClosingFollows
<1>3. ASSUME NEW p \in Push, PushDeliver(d, p)
      PROVE  ServiceTypeOK' /\ ClosingHolds'
  <2>1. p.ask \in Asks /\ p.kind \in Kinds
    BY DEF Push
  <2>2. ServiceTypeOK'
    BY <1>1, <1>3, <2>1 DEF PushDeliver, ServiceTypeOK
  <2>3. /\ \A e \in Phones, q \in Push : q \in pending'[e] <=> q \in pending[e] /\ (e # d \/ q # p)
        /\ \A e \in Phones, a \in Asks : banner'[e][a] = IF e = d /\ a = p.ask THEN p.kind ELSE banner[e][a]
        /\ dropped' = dropped /\ p \in pending[d]
    BY <1>3, <2>1 DEF PushDeliver, ServiceTypeOK
  <2>4. ASSUME NEW e \in Phones, NEW a \in Asks,
               Closing(a) \in accepted[e], Closing(a) \notin dropped[e], a \notin overlapped
        PROVE  /\ Asking(a) \notin pending'[e]
               /\ Closing(a) \in pending'[e] \/ banner'[e][a] # "ask"
    <3>1. /\ Asking(a) \notin pending[e]
          /\ Closing(a) \in pending[e] \/ banner[e][a] # "ask"
      BY <2>4 DEF ClosingHolds
    <3>2. CASE e = d /\ a = p.ask
      <4>1. p = Closing(a)
        BY <2>3, <3>1, <3>2, PushShape
      <4> QED BY <2>3, <3>1, <3>2, <4>1, PushShape
    <3>3. CASE ~(e = d /\ a = p.ask)
      BY <2>3, <3>1, <3>3, PushShape
    <3> QED BY <3>2, <3>3
  <2> QED BY <1>1, <2>2, <2>3, <2>4 DEF ClosingHolds
<1>4. ASSUME NEW p \in Push, Expire(d, p)
      PROVE  ServiceTypeOK' /\ ClosingHolds'
  <2>1. ServiceTypeOK'
    BY <1>1, <1>4 DEF Expire, ServiceTypeOK
  <2>2. /\ \A e \in Phones, q \in Push : q \in pending'[e] <=> q \in pending[e] /\ (e # d \/ q # p)
        /\ \A e \in Phones, q \in Push : q \in dropped'[e] <=> q \in dropped[e] \/ (e = d /\ q = p)
        /\ banner' = banner
    BY <1>4 DEF Expire, ServiceTypeOK
  <2>3. ASSUME NEW e \in Phones, NEW a \in Asks,
               Closing(a) \in accepted[e], Closing(a) \notin dropped'[e], a \notin overlapped
        PROVE  /\ Asking(a) \notin pending'[e]
               /\ Closing(a) \in pending'[e] \/ banner[e][a] # "ask"
    <3>1. Closing(a) \notin dropped[e] /\ ~(e = d /\ Closing(a) = p)
      BY <2>2, <2>3, PushShape
    <3>2. /\ Asking(a) \notin pending[e]
          /\ Closing(a) \in pending[e] \/ banner[e][a] # "ask"
      BY <2>3, <3>1 DEF ClosingHolds
    <3> QED BY <2>2, <3>1, <3>2, PushShape
  <2> QED BY <1>1, <2>1, <2>2, <2>3 DEF ClosingHolds
<1>5. ASSUME NEW a \in Asks, Tap(d, a)
      PROVE  ServiceTypeOK' /\ ClosingHolds'
  <2>1. ServiceTypeOK'
    BY <1>1, <1>5 DEF Tap, ServiceTypeOK
  <2>2. /\ UNCHANGED <<pending, dropped>>
        /\ \A e \in Phones, b \in Asks : banner'[e][b] \in {"none", banner[e][b]}
    BY <1>5 DEF Tap, ServiceTypeOK
  <2> QED BY <1>1, <2>1, <2>2 DEF ClosingHolds
<1> QED BY <1>2, <1>3, <1>4, <1>5

(* Every step keeps the invariant of banners.                              *)
LEMMA BannerInvStep == RowsInv /\ BannerInv /\ [PushNext]_pushVars => BannerInv'
<1> SUFFICES ASSUME RowsInv, BannerInv, [PushNext]_pushVars PROVE BannerInv'
  OBVIOUS
<1>1. ASSUME UNCHANGED <<job, askVars, serviceVars>> PROVE BannerInv'
  BY <1>1 DEF BannerInv, ServiceTypeOK, ClosingFollows, ClosingHolds, askVars, serviceVars
<1>2. ASSUME NEW d \in Phones, Subscribe(d) \/ Unsubscribe(d) \/ Register(d) \/ Unregister(d)
      PROVE  BannerInv'
  BY <1>1, <1>2 DEF Subscribe, Unsubscribe, Register, Unregister
<1>3. CASE UNCHANGED pushVars
  BY <1>1, <1>3 DEF pushVars, askVars, serviceVars
<1> QED BY <1>2, <1>3, AskKeeps, WalkKeeps, SendKeeps, PhoneKeeps DEF PushNext

(* The invariant of banners gives the property.                            *)
LEMMA BannerInvImplies == BannerInv => BannerIsReplaced
<1> SUFFICES ASSUME BannerInv, NEW d \in Phones, NEW a \in Asks,
                    banner[d][a] = "ask", {p \in pending[d] : p.ask = a} = {},
                    Closing(a) \in accepted[d], Closing(a) \notin dropped[d], a \notin overlapped
             PROVE  FALSE
  BY DEF BannerIsReplaced, Closing
<1>1. Closing(a) \in pending[d]
  BY DEF BannerInv, ClosingHolds
<1> QED BY <1>1, PushShape

-----------------------------------------------------------------------------
(* What the two tasks of the iMessage plugin know of the messages.         *)

-----------------------------------------------------------------------------
(* The plugins hold batches of messages.                                   *)

(* What is in a sequence after its first element was dropped.              *)
LEMMA TailSet ==
    ASSUME NEW S, NEW b \in Seq(S), b # <<>>
    PROVE  /\ Head(b) \in S /\ Tail(b) \in Seq(S)
           /\ Head(b) \in ToSet(b) /\ ToSet(Tail(b)) \subseteq ToSet(b)
           /\ ToSet(b) \subseteq ToSet(Tail(b)) \cup {Head(b)}
<1>1. /\ Len(b) \in Nat \ {0} /\ Head(b) = b[1] /\ Head(b) \in S
      /\ Tail(b) \in Seq(S) /\ Len(Tail(b)) = Len(b) - 1
      /\ \A k \in 1 .. Len(Tail(b)) : Tail(b)[k] = b[k + 1]
  BY HeadTailProperties, EmptySeq, LenProperties
<1>2. DOMAIN b = 1 .. Len(b) /\ DOMAIN Tail(b) = 1 .. Len(Tail(b))
  BY <1>1, LenProperties
<1>3. \A k \in 1 .. Len(b) : k = 1 \/ b[k] \in ToSet(Tail(b))
  <2> TAKE k \in 1 .. Len(b)
  <2>1. CASE k # 1
    <3> DEFINE j == k - 1
    <3>1. j \in 1 .. Len(Tail(b)) /\ j + 1 = k
      BY <1>1, <2>1
    <3>2. Tail(b)[j] = b[k]
      BY <1>1, <3>1
    <3> QED BY <1>2, <3>1, <3>2 DEF ToSet
  <2> QED BY <2>1
<1>4. ToSet(Tail(b)) \subseteq ToSet(b)
  <2> SUFFICES ASSUME NEW j \in 1 .. Len(Tail(b)) PROVE Tail(b)[j] \in ToSet(b)
    BY <1>2 DEF ToSet
  <2>1. j + 1 \in 1 .. Len(b) /\ Tail(b)[j] = b[j + 1]
    BY <1>1
  <2> QED BY <1>2, <2>1 DEF ToSet
<1>5. 1 \in 1 .. Len(b)
  BY <1>1
<1>6. Head(b) \in ToSet(b)
  BY <1>1, <1>2, <1>5 DEF ToSet
<1>7. ToSet(b) \subseteq ToSet(Tail(b)) \cup {Head(b)}
  BY <1>1, <1>2, <1>3 DEF ToSet
<1> QED BY <1>1, <1>4, <1>6, <1>7

(* A finite set, put in some order, has the elements it had.               *)
LEMMA OrderedSet ==
    ASSUME NEW T, NEW S \in SUBSET T, IsFiniteSet(S), NEW b \in SetToSeqs(S)
    PROVE  b \in Seq(T) /\ ToSet(b) = S
<1>1. Cardinality(S) \in Nat
  BY FS_CardinalityType
<1>2. /\ b \in [1 .. Cardinality(S) -> S]
      /\ \A i, j \in 1 .. Cardinality(S) : i # j => b[i] # b[j]
  BY DEF SetToSeqs
<1>3. b \in Seq(T)
  BY <1>1, <1>2
<1>4. ToSet(b) \subseteq S /\ DOMAIN b = 1 .. Cardinality(S)
  BY <1>2 DEF ToSet
<1>5. S \subseteq ToSet(b)
  <2>1. b \in Injection(1 .. Cardinality(S), S)
    BY <1>2 DEF Injection, IsInjective
  <2>2. Cardinality(1 .. Cardinality(S)) = Cardinality(S)
    BY <1>1, FS_Interval
  <2>3. b \in Surjection(1 .. Cardinality(S), S)
    BY <1>1, <2>1, <2>2, FS_Injection
  <2> QED BY <1>4, <2>3 DEF Surjection, ToSet
<1> QED BY <1>3, <1>4, <1>5

(* Nothing is in an empty one.                                             *)
LEMMA EmptyBatch ==
    ASSUME NEW S
    PROVE  <<>> \in Seq(S) /\ ToSet(<<>>) = {} /\ Len(<<>>) = 0
BY EmptySeq DEF ToSet

-----------------------------------------------------------------------------
(* What the two tasks of the iMessage plugin know of the messages.         *)
IMTypeOK ==
    /\ imnow \in Nat /\ imstart \in Nat /\ imlast \in Nat
    /\ imdate \in [IMs -> Nat]
    /\ impc \in [IMTasks -> {"poll", "clock", "next", "ask", "reply"}]
    /\ imbatch \in [IMTasks -> Seq(IMs)]
    /\ imasked \in [IMTasks -> Seq(IMs)]
    /\ DOMAIN imseen = IMTasks

(* A task that is waiting for an answer remembers what it asked about, and *)
(* one that polls is through with its batch.                               *)
BatchIsHeld ==
    \A t \in IMTasks :
        /\ impc[t] \in {"ask", "reply"} =>
              imbatch[t] # <<>> /\ DedupKey(t, Head(imbatch[t])) \in imseen[t]
        /\ impc[t] = "poll" => imbatch[t] = <<>>

InHand(m) ==
    \/ m \in ToSet(imbatch["db"]) \/ DedupKey("db", m) \in imseen["db"]
    \/ m \in imlate \cup imskipped

(* What is up to last_check is accounted for and, between a query and the  *)
(* reading of the clock, everything is.                                    *)
Accounted ==
    \A m \in Arrived \ (Own \cup NullText) :
        imdate[m] > imstart /\ (imdate[m] <= imlast \/ impc["db"] = "clock") => InHand(m)

(* What a task asked about is in its cache, under a key of its own.        *)
AskedBy(t) ==
    \A i \in 1 .. Len(imasked[t]) :
        /\ imasked[t][i] \notin Own /\ imdate[imasked[t][i]] >= imstart
        /\ IMLooksLikeQuestion(IMText[imasked[t][i]])
        /\ DedupKey(t, imasked[t][i]) \in imseen[t]
        /\ \A j \in 1 .. Len(imasked[t]) :
              DedupKey(t, imasked[t][i]) = DedupKey(t, imasked[t][j]) => i = j

AskedOnce == \A t \in IMTasks : AskedBy(t)

(* Of messages that have arrived only.                                     *)
TakesArrived == \A t \in IMTasks : ToSet(imbatch[t]) \cup ToSet(imasked[t]) \subseteq Arrived

IMInv == /\ IMTypeOK /\ BatchIsHeld /\ TakesArrived /\ AskedOnce
         /\ imup => Accounted

(* A poller that asks nothing keeps AskedBy while its cache only grows.    *)
LEMMA StillAsked ==
    ASSUME NEW t \in IMTasks, AskedBy(t), UNCHANGED <<imdate, imstart>>,
           imasked'[t] = imasked[t], imseen[t] \subseteq imseen'[t]
    PROVE  AskedBy(t)'
BY DEF AskedBy, DedupKey

(* A step that touches no cache keeps AskedBy of both pollers.             *)
LEMMA AllStillAsked ==
    ASSUME AskedOnce, UNCHANGED <<imdate, imstart, imasked, imseen>>
    PROVE  AskedOnce'
BY StillAsked DEF AskedOnce

(* Messages that arrived are finite in number.                             *)
LEMMA ArrivedType == Arrived \subseteq IMs /\ \A S \in SUBSET Arrived : IsFiniteSet(S)
BY IMAssumption, FS_Subset DEF Arrived

(* Nothing has arrived at the start.                                       *)
LEMMA IMInvInit == IMInit => IMInv
<1> SUFFICES ASSUME IMInit PROVE IMInv
  OBVIOUS
<1>1. <<>> \in Seq(IMs) /\ Len(<<>>) = 0 /\ ToSet(<<>>) = {}
  BY EmptyBatch
<1>2. IMTypeOK
  BY <1>1 DEF IMInit, IMTypeOK
<1>3. TakesArrived /\ AskedOnce /\ BatchIsHeld
  BY <1>1 DEF IMInit, TakesArrived, AskedOnce, AskedBy, BatchIsHeld
<1> QED BY <1>2, <1>3 DEF IMInit, IMInv

(* The program starts and stops, and time passes.                          *)
LEMMA RunKeeps ==
    ASSUME IMInv, IMStart \/ IMStop \/ IMTick
    PROVE  IMInv'
<1> USE DEF IMInv
<1>1. CASE IMStart
  <2>1. <<>> \in Seq(IMs) /\ Len(<<>>) = 0 /\ ToSet(<<>>) = {}
    BY EmptyBatch
  <2>2. IMTypeOK'
    BY <1>1, <2>1 DEF IMStart, IMTypeOK
  <2>3. AskedOnce' /\ TakesArrived' /\ BatchIsHeld'
    BY <1>1, <2>1 DEF IMStart, AskedOnce, AskedBy, TakesArrived, BatchIsHeld
  <2>4. Accounted'
    <3>1. imlast' = imstart' /\ imstart' \in Nat /\ impc'["db"] = "poll" /\ imdate' \in [IMs -> Nat]
      BY <1>1 DEF IMStart, IMTypeOK, IMTasks
    <3>2. \A m \in IMs : ~(imdate'[m] > imstart' /\ imdate'[m] <= imlast')
      BY <3>1
    <3> QED BY <3>1, <3>2 DEF Accounted, Arrived
  <2> QED BY <2>2, <2>3, <2>4
<1>2. CASE IMStop \/ IMTick
  <2>1. /\ UNCHANGED <<imstart, impc, imbatch, imseen, imlast, imskipped, imasked, imdate, imlate>>
        /\ imnow' \in Nat /\ (imup' => imup)
    BY <1>2 DEF IMStop, IMTick, imTaskVars, IMTypeOK
  <2>2. IMTypeOK' /\ TakesArrived' /\ BatchIsHeld'
    BY <2>1 DEF IMTypeOK, TakesArrived, Arrived, BatchIsHeld, DedupKey
  <2>3. Accounted => Accounted'
    BY <2>1 DEF Accounted, Arrived, InHand, DedupKey
  <2> QED BY <2>1, <2>2, <2>3, AllStillAsked
<1> QED BY <1>1, <1>2

(* A row is inserted: late, or later than last_check.                      *)
LEMMA ArriveKeeps ==
    ASSUME IMInv, NEW m \in IMs, IMArrives(m)
    PROVE  IMInv'
<1> USE DEF IMInv
<1>1. PICK date \in {imnow + 1 + skew : skew \in Skews} \cap (Nat \ {0}) :
         /\ imdate' = [imdate EXCEPT ![m] = date]
         /\ imlate' = IF impc["db"] = "clock" \/ date <= imlast THEN imlate \cup {m}
                      ELSE imlate
  BY DEF IMArrives
<1>2. /\ date \in Nat /\ date > 0 /\ imdate[m] = 0 /\ imnow' = imnow + 1
      /\ UNCHANGED <<imup, imstart, impc, imbatch, imseen, imlast, imskipped, imasked>>
  BY DEF IMArrives, imTaskVars
<1>3. /\ imdate' \in [IMs -> Nat] /\ imdate'[m] = date
      /\ \A n \in IMs : n # m => imdate'[n] = imdate[n]
  BY <1>1, <1>2 DEF IMTypeOK
<1>4. Arrived' = Arrived \cup {m} /\ m \notin Arrived /\ Arrived \subseteq IMs
  BY <1>2, <1>3 DEF Arrived
<1>5. IMTypeOK'
  BY <1>2, <1>3 DEF IMTypeOK
<1>6. TakesArrived' /\ BatchIsHeld'
  BY <1>2, <1>4 DEF TakesArrived, BatchIsHeld, DedupKey
<1>7. AskedOnce'
  <2> SUFFICES ASSUME NEW t \in IMTasks PROVE AskedBy(t)'
    BY DEF AskedOnce
  <2>1. AskedBy(t) /\ ToSet(imasked[t]) \subseteq Arrived /\ imasked[t] \in Seq(IMs)
    BY DEF AskedOnce, TakesArrived, IMTypeOK
  <2>2. \A i \in 1 .. Len(imasked[t]) : imasked[t][i] \in Arrived
    BY <2>1, LenProperties DEF ToSet
  <2>3. \A i \in 1 .. Len(imasked[t]) : imdate'[imasked[t][i]] = imdate[imasked[t][i]]
    BY <1>3, <1>4, <2>2
  <2> QED BY <1>2, <2>1, <2>3 DEF AskedBy, DedupKey
<1>8. ASSUME imup PROVE Accounted'
  <2> SUFFICES ASSUME NEW n \in Arrived' \ (Own \cup NullText), imdate'[n] > imstart,
                      imdate'[n] <= imlast \/ impc["db"] = "clock"
               PROVE  InHand(n)'
    BY <1>2 DEF Accounted
  <2>1. CASE n = m
    BY <1>1, <1>3, <2>1 DEF InHand
  <2>2. CASE n # m
    <3>1. n \in Arrived \ (Own \cup NullText) /\ imdate'[n] = imdate[n]
      BY <1>3, <1>4, <2>2
    <3>2. InHand(n)
      BY <1>8, <3>1 DEF Accounted
    <3> QED BY <1>1, <1>2, <3>2 DEF InHand, DedupKey
  <2> QED BY <2>1, <2>2
<1> QED BY <1>2, <1>5, <1>6, <1>7, <1>8

(* The task "db" queries: what it finds is in its batch, or skipped.       *)
LEMMA QueryKeeps ==
    ASSUME IMInv, Query
    PROVE  IMInv'
<1> USE DEF IMInv
<1> DEFINE new == {m \in Arrived \ (Own \cup NullText) : imdate[m] > imlast}
<1>0. PICK bad \in SUBSET new :
         /\ \E batch \in ByDate(new \ bad) : imbatch' = [imbatch EXCEPT !["db"] = batch]
         /\ imskipped' = imskipped \cup bad
  BY DEF Query
<1>1. PICK batch \in ByDate(new \ bad) : imbatch' = [imbatch EXCEPT !["db"] = batch]
  BY <1>0
<1>2. batch \in Seq(IMs) /\ ToSet(batch) = new \ bad
  <2>1. new \ bad \in SUBSET IMs /\ IsFiniteSet(new \ bad)
    BY ArrivedType
  <2>2. batch \in SetToSeqs(new \ bad)
    BY DEF ByDate
  <2> QED BY <2>1, <2>2, OrderedSet
<1>3. /\ UNCHANGED <<imnow, imup, imstart, imseen, imlast, imdate, imlate, imasked>>
      /\ impc' = [impc EXCEPT !["db"] = "clock"] /\ imup /\ impc["db"] = "poll"
  BY DEF Query
<1>4. /\ imbatch'["db"] = batch /\ imbatch'["app"] = imbatch["app"] /\ imbatch["db"] = <<>>
      /\ impc'["db"] = "clock" /\ impc'["app"] = impc["app"] /\ IMTasks = {"db", "app"}
  BY <1>1, <1>3 DEF IMTypeOK, IMTasks, BatchIsHeld
<1>5. IMTypeOK'
  BY <1>1, <1>2, <1>3 DEF IMTypeOK, IMTasks
<1>6. TakesArrived' /\ BatchIsHeld'
  BY <1>2, <1>3, <1>4 DEF TakesArrived, Arrived, BatchIsHeld, DedupKey
<1>7. Accounted'
  <2> SUFFICES ASSUME NEW m \in Arrived \ (Own \cup NullText), imdate[m] > imstart
               PROVE  InHand(m)'
    BY <1>3 DEF Accounted, Arrived
  <2>1. imdate[m] \in Nat /\ imlast \in Nat
    BY DEF IMTypeOK, Arrived
  <2>2. CASE imdate[m] > imlast
    BY <1>0, <1>2, <1>4, <2>2 DEF InHand
  <2>3. CASE imdate[m] <= imlast
    <3>1. InHand(m)
      BY <1>3, <2>3 DEF Accounted
    <3>2. m \notin ToSet(imbatch["db"])
      BY <1>4, EmptyBatch
    <3> QED BY <1>0, <1>3, <3>1, <3>2 DEF InHand, DedupKey
  <2> QED BY <2>1, <2>2, <2>3
<1> QED BY <1>3, <1>5, <1>6, <1>7, AllStillAsked

(* It reads the clock, or its query has failed.                            *)
LEMMA ClockKeeps ==
    ASSUME IMInv, ReadClock \/ QueryFails
    PROVE  IMInv'
<1> USE DEF IMInv
<1>1. CASE ReadClock
  <2>1. /\ UNCHANGED <<imnow, imup, imstart, imbatch, imseen, imdate, imlate, imskipped, imasked>>
        /\ imlast' = imnow /\ impc["db"] = "clock" /\ imup
        /\ impc' = [impc EXCEPT !["db"] = "next"]
    BY <1>1 DEF ReadClock
  <2>2. impc'["db"] = "next" /\ impc'["app"] = impc["app"] /\ IMTasks = {"db", "app"}
    BY <2>1 DEF IMTypeOK, IMTasks
  <2>3. IMTypeOK'
    BY <2>1 DEF IMTypeOK, IMTasks
  <2>4. TakesArrived' /\ BatchIsHeld'
    BY <2>1, <2>2 DEF TakesArrived, Arrived, BatchIsHeld, DedupKey
  <2>5. Accounted'
    BY <2>1 DEF Accounted, Arrived, InHand, DedupKey
  <2> QED BY <2>1, <2>3, <2>4, <2>5, AllStillAsked
<1>2. CASE QueryFails
  <2>1. UNCHANGED <<imnow, imup, imstart, impc, imbatch, imseen, imlast, imskipped, imasked,
                    imdate, imlate>>
    BY <1>2 DEF QueryFails, imVars, imTaskVars
  <2>2. IMTypeOK' /\ TakesArrived' /\ BatchIsHeld'
    BY <2>1 DEF IMTypeOK, TakesArrived, Arrived, BatchIsHeld, DedupKey
  <2>3. Accounted => Accounted'
    BY <2>1 DEF Accounted, Arrived, InHand, DedupKey
  <2> QED BY <2>1, <2>2, <2>3, AllStillAsked
<1> QED BY <1>1, <1>2

(* The task "app" fetches.                                                 *)
LEMMA AppKeeps ==
    ASSUME IMInv, FetchRecent
    PROVE  IMInv'
<1> USE DEF IMInv
<1>1. PICK batch \in RecentMessages : imbatch' = [imbatch EXCEPT !["app"] = batch]
  BY DEF FetchRecent
<1>2. PICK S \in SUBSET {m \in Arrived : imdate[m] > imnow - Recent} : batch \in SetToSeqs(S)
  BY DEF RecentMessages
<1>3. batch \in Seq(IMs) /\ ToSet(batch) = S /\ S \subseteq Arrived
  BY <1>2, ArrivedType, OrderedSet
<1>4. /\ UNCHANGED <<imnow, imup, imstart, imseen, imlast, imdate, imlate, imskipped, imasked>>
      /\ impc' = [impc EXCEPT !["app"] = "next"] /\ imup
  BY DEF FetchRecent
<1>5. /\ imbatch'["app"] = batch /\ imbatch'["db"] = imbatch["db"]
      /\ impc'["app"] = "next" /\ impc'["db"] = impc["db"] /\ IMTasks = {"db", "app"}
  BY <1>1, <1>4 DEF IMTypeOK, IMTasks
<1>6. IMTypeOK'
  BY <1>1, <1>3, <1>4 DEF IMTypeOK, IMTasks
<1>7. TakesArrived' /\ BatchIsHeld'
  BY <1>3, <1>4, <1>5 DEF TakesArrived, Arrived, BatchIsHeld, DedupKey
<1>8. Accounted'
  BY <1>4, <1>5 DEF Accounted, Arrived, InHand, DedupKey
<1> QED BY <1>4, <1>6, <1>7, <1>8, AllStillAsked

(* The steps that leave what was asked alone: a task is through with its   *)
(* batch, gets an answer, or is done with what it asked about.             *)
LEMMA GoOnKeeps ==
    ASSUME IMInv, NEW t \in IMTasks,
           IMBatchEnds(t) \/ NoAnswer(t) \/ Answered(t) \/ ReplySent(t)
    PROVE  IMInv'
<1> USE DEF IMInv
<1>1. UNCHANGED <<imnow, imup, imstart, imseen, imlast, imdate, imlate, imskipped, imasked>>
      /\ imup
  BY DEF IMBatchEnds, NoAnswer, Answered, ReplySent
<1>2. /\ \A u \in IMTasks : u # t => impc'[u] = impc[u] /\ imbatch'[u] = imbatch[u]
      /\ \/ imbatch'[t] = imbatch[t] /\ imbatch[t] = <<>> /\ impc'[t] = "poll"
         \/ imbatch'[t] = imbatch[t] /\ impc[t] = "ask" /\ impc'[t] = "reply"
         \/ /\ imbatch'[t] = Tail(imbatch[t]) /\ impc'[t] = "next"
            /\ impc[t] \in {"ask", "reply"}
      /\ DOMAIN impc' = IMTasks /\ DOMAIN imbatch' = IMTasks
      /\ impc' = [u \in IMTasks |-> impc'[u]] /\ imbatch' = [u \in IMTasks |-> imbatch'[u]]
  BY DEF IMBatchEnds, NoAnswer, Answered, ReplySent, IMTypeOK
<1>3. /\ imbatch[t] \in Seq(IMs)
      /\ impc[t] \in {"ask", "reply"} =>
            /\ DedupKey(t, Head(imbatch[t])) \in imseen[t] /\ Tail(imbatch[t]) \in Seq(IMs)
            /\ ToSet(Tail(imbatch[t])) \subseteq ToSet(imbatch[t])
            /\ ToSet(imbatch[t]) \subseteq ToSet(Tail(imbatch[t])) \cup {Head(imbatch[t])}
  BY TailSet DEF IMTypeOK, BatchIsHeld
<1>4. /\ imbatch'[t] \in Seq(IMs) /\ ToSet(imbatch'[t]) \subseteq ToSet(imbatch[t])
      /\ impc'[t] \in {"poll", "next", "reply"}
      /\ \A m \in ToSet(imbatch[t]) : m \in ToSet(imbatch'[t]) \/ DedupKey(t, m) \in imseen[t]
  BY <1>2, <1>3
<1>5. IMTypeOK'
  <2>1. \A u \in IMTasks : /\ imbatch'[u] \in Seq(IMs)
                           /\ impc'[u] \in {"poll", "clock", "next", "ask", "reply"}
    BY <1>2, <1>4 DEF IMTypeOK
  <2> QED BY <1>1, <1>2, <2>1 DEF IMTypeOK
<1>6. TakesArrived' /\ BatchIsHeld'
  BY <1>1, <1>2, <1>4 DEF TakesArrived, Arrived, BatchIsHeld, DedupKey
<1>7. Accounted'
  <2> SUFFICES ASSUME NEW m \in Arrived \ (Own \cup NullText), imdate[m] > imstart,
                      imdate[m] <= imlast \/ impc'["db"] = "clock"
               PROVE  InHand(m)'
    BY <1>1 DEF Accounted, Arrived
  <2>1. impc'["db"] = "clock" => impc["db"] = "clock"
    BY <1>2, <1>4 DEF IMTasks
  <2>2. InHand(m)
    BY <1>1, <2>1 DEF Accounted
  <2>3. CASE t = "db"
    BY <1>1, <1>4, <2>2, <2>3 DEF InHand, DedupKey
  <2>4. CASE t # "db"
    <3>1. imbatch'["db"] = imbatch["db"]
      BY <1>2, <2>4 DEF IMTasks
    <3> QED BY <1>1, <2>2, <3>1 DEF InHand, DedupKey
  <2> QED BY <2>3, <2>4
<1> QED BY <1>1, <1>5, <1>6, <1>7, AllStillAsked

(* Taking the next message of a batch keeps the invariant.                 *)
LEMMA TakeKeeps ==
    ASSUME IMInv, NEW t \in IMTasks, TakeMessage(t)
    PROVE  IMInv'
<1> USE DEF IMInv
<1> DEFINE m == Head(imbatch[t])
           new == ~Predates(m) /\ DedupKey(t, m) \notin imseen[t]
           asks == new /\ m \notin Own /\ IMLooksLikeQuestion(IMText[m])
<1>1. /\ imbatch[t] \in Seq(IMs) /\ imbatch[t] # <<>> /\ m \in IMs
      /\ Tail(imbatch[t]) \in Seq(IMs) /\ m \in ToSet(imbatch[t])
      /\ ToSet(Tail(imbatch[t])) \subseteq ToSet(imbatch[t])
      /\ ToSet(imbatch[t]) \subseteq ToSet(Tail(imbatch[t])) \cup {m}
  BY TailSet DEF IMTypeOK, TakeMessage
<1>2. /\ UNCHANGED <<imnow, imup, imstart, imlast, imdate, imlate, imskipped>>
      /\ imseen' = IF new THEN [imseen EXCEPT ![t] = @ \cup {DedupKey(t, m)}] ELSE imseen
      /\ impc[t] = "next" /\ imup
  BY DEF TakeMessage
<1>3. \/ /\ asks /\ impc' = [impc EXCEPT ![t] = "ask"] /\ imbatch' = imbatch
         /\ imasked' = [imasked EXCEPT ![t] = Append(imasked[t], m)]
      \/ /\ ~asks /\ impc' = impc /\ imasked' = imasked
         /\ imbatch' = [imbatch EXCEPT ![t] = Tail(imbatch[t])]
  BY DEF TakeMessage
<1>4. /\ DOMAIN imseen' = IMTasks
      /\ \A u \in IMTasks : imseen[u] \subseteq imseen'[u]
      /\ new => DedupKey(t, m) \in imseen'[t]
  BY <1>2 DEF IMTypeOK
<1>5. new \/ imdate[m] < imstart \/ DedupKey(t, m) \in imseen[t]
  BY DEF Predates
<1>6. asks => new /\ m \notin Own /\ IMLooksLikeQuestion(IMText[m])
                 /\ ~(imdate[m] < imstart) /\ DedupKey(t, m) \notin imseen[t]
  BY DEF Predates
<1> HIDE DEF m, new, asks
<1>7. IMTypeOK'
  <2>1. CASE asks
    <3>1. imasked[t] \in Seq(IMs)
      BY DEF IMTypeOK
    <3>2. Append(imasked[t], m) \in Seq(IMs)
      BY <1>1, <3>1, AppendProperties
    <3> QED BY <1>2, <1>3, <1>4, <2>1, <3>2 DEF IMTypeOK
  <2>2. CASE ~asks
    BY <1>1, <1>2, <1>3, <1>4, <2>2 DEF IMTypeOK
  <2> QED BY <2>1, <2>2
<1>8. BatchIsHeld'
  <2>1. CASE asks
    <3>1. /\ imbatch' = imbatch /\ impc'[t] = "ask"
          /\ \A u \in IMTasks : u # t => impc'[u] = impc[u]
      BY <1>3, <2>1 DEF IMTypeOK
    <3>2. DedupKey(t, Head(imbatch[t])) \in imseen'[t]
      BY <1>4, <1>6, <2>1 DEF m
    <3> QED BY <1>1, <1>4, <3>1, <3>2 DEF BatchIsHeld, DedupKey
  <2>2. CASE ~asks
    <3>1. impc' = impc /\ \A u \in IMTasks : u # t => imbatch'[u] = imbatch[u]
      BY <1>3, <2>2 DEF IMTypeOK
    <3> QED BY <1>2, <1>4, <3>1 DEF BatchIsHeld, DedupKey
  <2> QED BY <2>1, <2>2
<1>9. Accounted'
  <2> SUFFICES ASSUME NEW n \in Arrived \ (Own \cup NullText), imdate[n] > imstart,
                      imdate[n] <= imlast \/ impc'["db"] = "clock"
               PROVE  InHand(n)'
    BY <1>2 DEF Accounted, Arrived
  <2>1. impc'["db"] = "clock" => impc["db"] = "clock"
    BY <1>3 DEF IMTypeOK, IMTasks
  <2>2. InHand(n)
    BY <1>2, <2>1 DEF Accounted
  <2>3. imseen["db"] \subseteq imseen'["db"] /\ DedupKey("db", n)' = DedupKey("db", n)
    BY <1>4 DEF IMTasks, DedupKey
  <2>4. CASE n \in ToSet(imbatch["db"]) /\ n \notin ToSet(imbatch'["db"])
    <3>1. t = "db" /\ ~asks /\ imbatch'[t] = Tail(imbatch[t])
      BY <1>3, <2>4 DEF IMTypeOK, IMTasks
    <3>2. n = m
      BY <1>1, <2>4, <3>1
    <3>3. imdate[n] \in Nat /\ imstart \in Nat
      BY DEF IMTypeOK, Arrived
    <3>4. DedupKey("db", n) \in imseen'["db"]
      BY <1>4, <1>5, <2>3, <3>1, <3>2, <3>3
    <3> QED BY <2>3, <3>4 DEF InHand
  <2>5. CASE ~(n \in ToSet(imbatch["db"]) /\ n \notin ToSet(imbatch'["db"]))
    BY <1>2, <2>2, <2>3, <2>5 DEF InHand
  <2> QED BY <2>4, <2>5
<1>10. CASE ~asks
  <2>1. /\ imasked' = imasked /\ imbatch'[t] = Tail(imbatch[t])
        /\ \A u \in IMTasks : u # t => imbatch'[u] = imbatch[u]
    BY <1>3, <1>10 DEF IMTypeOK
  <2>2. TakesArrived'
    BY <1>1, <1>2, <2>1 DEF TakesArrived, Arrived
  <2>3. AskedOnce'
    BY <1>2, <1>4, <2>1, StillAsked DEF AskedOnce
  <2> QED BY <1>2, <1>7, <1>8, <1>9, <2>2, <2>3
<1>11. CASE asks
  <2>1. /\ UNCHANGED imbatch
        /\ \A u \in IMTasks : u # t => imasked'[u] = imasked[u]
        /\ imasked'[t] = Append(imasked[t], m)
    BY <1>3, <1>11 DEF IMTypeOK
  <2>2. /\ imasked[t] \in Seq(IMs) /\ imasked'[t] \in Seq(IMs)
        /\ Len(imasked'[t]) = Len(imasked[t]) + 1 /\ Len(imasked[t]) \in Nat
        /\ \A i \in 1 .. Len(imasked[t]) : imasked'[t][i] = imasked[t][i]
        /\ imasked'[t][Len(imasked[t]) + 1] = m
    <3>1. imasked[t] \in Seq(IMs)
      BY DEF IMTypeOK
    <3> QED BY <1>1, <2>1, <3>1, AppendProperties, LenProperties
  <2>3. \A i \in 1 .. Len(imasked'[t]) : i \in 1 .. Len(imasked[t]) \/ i = Len(imasked[t]) + 1
    BY <2>2
  <2>4. imdate[m] >= imstart
    BY <1>1, <1>6, <1>11 DEF IMTypeOK
  <2>5. TakesArrived'
    <3>1. ToSet(imasked'[t]) \subseteq ToSet(imasked[t]) \cup {m}
      <4>1. DOMAIN imasked[t] = 1 .. Len(imasked[t]) /\ DOMAIN imasked'[t] = 1 .. Len(imasked'[t])
        BY <2>2, LenProperties
      <4> QED BY <2>2, <2>3, <4>1 DEF ToSet
    <3> QED BY <1>1, <1>2, <2>1, <3>1 DEF TakesArrived, Arrived
  <2>6. AskedOnce'
    <3>1. ASSUME NEW i \in 1 .. Len(imasked'[t])
          PROVE  /\ imasked'[t][i] \notin Own /\ imdate[imasked'[t][i]] >= imstart
                 /\ IMLooksLikeQuestion(IMText[imasked'[t][i]])
                 /\ DedupKey(t, imasked'[t][i]) \in imseen'[t]
                 /\ i \in 1 .. Len(imasked[t]) => DedupKey(t, imasked'[t][i]) \in imseen[t]
      BY <1>4, <1>6, <1>11, <2>2, <2>3, <2>4 DEF AskedOnce, AskedBy
    <3>2. ASSUME NEW i \in 1 .. Len(imasked'[t]), NEW j \in 1 .. Len(imasked'[t]),
                 DedupKey(t, imasked'[t][i]) = DedupKey(t, imasked'[t][j])
          PROVE  i = j
      <4>1. CASE i \in 1 .. Len(imasked[t]) /\ j \in 1 .. Len(imasked[t])
        BY <2>2, <3>2, <4>1 DEF AskedOnce, AskedBy
      <4>2. CASE i = Len(imasked[t]) + 1 /\ j \in 1 .. Len(imasked[t])
        BY <1>6, <1>11, <2>2, <3>1, <3>2, <4>2
      <4>3. CASE i \in 1 .. Len(imasked[t]) /\ j = Len(imasked[t]) + 1
        BY <1>6, <1>11, <2>2, <3>1, <3>2, <4>3
      <4> QED BY <2>3, <4>1, <4>2, <4>3
    <3>3. AskedBy(t)'
      BY <1>2, <3>1, <3>2 DEF AskedBy, DedupKey
    <3>4. \A u \in IMTasks : u # t => AskedBy(u)'
      BY <1>2, <1>4, <2>1, StillAsked DEF AskedOnce
    <3> QED BY <3>3, <3>4 DEF AskedOnce
  <2> QED BY <1>2, <1>7, <1>8, <1>9, <2>5, <2>6
<1> QED BY <1>10, <1>11

(* Every step of both pollers keeps the invariant.                         *)
LEMMA IMInvStep == IMInv /\ [IMNext]_imVars => IMInv'
<1> SUFFICES ASSUME IMInv, [IMNext]_imVars PROVE IMInv'
  OBVIOUS
<1>1. CASE UNCHANGED imVars
  <2>1. UNCHANGED <<imnow, imup, imstart, impc, imbatch, imseen, imlast, imskipped, imasked,
                    imdate, imlate>>
    BY <1>1 DEF imVars, imTaskVars
  <2>2. IMTypeOK' /\ TakesArrived' /\ BatchIsHeld'
    BY <2>1 DEF IMInv, IMTypeOK, TakesArrived, Arrived, BatchIsHeld, DedupKey
  <2>3. Accounted => Accounted'
    BY <2>1 DEF Accounted, Arrived, InHand, DedupKey
  <2> QED BY <2>1, <2>2, <2>3, AllStillAsked DEF IMInv
<1> QED BY <1>1, RunKeeps, ArriveKeeps, QueryKeeps, ClockKeeps, AppKeeps, GoOnKeeps, TakeKeeps
        DEF IMNext

(* The invariant gives both properties of the iMessage plugin.             *)
LEMMA IMInvImplies == IMInv => LostForAReason /\ AsksAreDue
<1> SUFFICES ASSUME IMInv PROVE LostForAReason /\ AsksAreDue
  OBVIOUS
<1>1. LostForAReason
  BY DEF IMInv, Accounted, InHand, LostForAReason
<1>2. \A t \in IMTasks : DOMAIN imasked[t] = 1 .. Len(imasked[t])
  BY LenProperties DEF IMInv, IMTypeOK
<1> QED BY <1>1, <1>2 DEF IMInv, AskedOnce, AskedBy, AsksAreDue

-----------------------------------------------------------------------------
(* The gog plugin.  A task answers a message once in a run because its     *)
(* cache keeps what it considered.  A mail is answered in one run because  *)
(* one that was answered in an earlier run is read, unless it was not      *)
(* marked then or has turned unread since.                                 *)
Working == {"classify", "ask", "reply"}
Busy == Working \cup {"mark", "markReplied"}
Resting == {"down", "poll", "backoff", "next", "dead"}

GogTypeOK ==
    /\ gpc \in [Tasks -> Resting \cup Busy]
    /\ gbatch \in [Tasks -> Seq(Items)]
    /\ gseen \in [Tasks -> SUBSET Items]
    /\ gread \in [Items -> {"absent", "unread", "read"}]
    /\ greplies \in [Tasks -> [Items -> Nat]]
    /\ gserved \in [Items -> Nat] /\ gunmarked \in [Items -> Nat] /\ gturned \in [Items -> Nat]

HeadIs(t, m) == gbatch[t] # <<>> /\ Head(gbatch[t]) = m

(* A task remembers what it works on, and what it has answered it does not *)
(* work on again.                                                          *)
TaskInv(t) ==
    /\ ToSet(gbatch[t]) \subseteq IF t[1] = "gmail" THEN Mails ELSE Chats
    /\ gpc[t] \in Busy => gbatch[t] # <<>> /\ Head(gbatch[t]) \in gseen[t]
    /\ \A m \in Items :
          /\ greplies[t][m] <= 1
          /\ greplies[t][m] > 0 =>
                /\ gprofiles # <<>> /\ m \in gseen[t]
                /\ ~(gpc[t] \in Working /\ HeadIs(t, m))
    /\ gprofiles = <<>> => gpc[t] = "down"

(* There is room for another run to answer m.                              *)
Room(m) == gserved[m] <= gunmarked[m] + gturned[m]

Unread(m) == gread[m] \in {"absent", "unread"}
Unmarked(t, m) == gpc[t] = "markReplied" /\ HeadIs(t, m)

(* This run may answer m, or the next one may, only if there is room.      *)
MailInv(m) ==
    /\ gserved[m] <= 1 + gunmarked[m] + gturned[m]
    /\ FirstToAnswer(m) /\ (Unread(m) \/ \E t \in Tasks : m \in ToSet(gbatch[t])) => Room(m)
    /\ ~FirstToAnswer(m) /\ Unread(m) => Room(m) \/ \E t \in Tasks : Unmarked(t, m)

GogInv ==
    /\ GogTypeOK
    /\ \A t \in Tasks : TaskInv(t)
    /\ \A m \in Mails : MailInv(m)

(* Nothing runs and nothing was answered at the start.                     *)
LEMMA GogInvInit == GogInit => GogInv
<1> SUFFICES ASSUME GogInit PROVE GogInv
  OBVIOUS
<1>1. <<>> \in Seq(Items) /\ ToSet(<<>>) = {}
  BY EmptyBatch
<1>2. GogTypeOK
  BY <1>1 DEF GogInit, GogTypeOK, Resting
<1>3. ASSUME NEW t \in Tasks PROVE TaskInv(t)
  BY <1>1 DEF GogInit, TaskInv, Busy, Working
<1>4. ASSUME NEW m \in Mails PROVE MailInv(m)
  BY DEF GogInit, MailInv, FirstToAnswer, Room, Items
<1> QED BY <1>2, <1>3, <1>4 DEF GogInv

-----------------------------------------------------------------------------
(* A step of a task leaves the others alone.                               *)
Alone(t) ==
    /\ UNCHANGED <<gprofiles, gturned>> /\ gprofiles # <<>>
    /\ \A u \in Tasks \ {t} : /\ gpc'[u] = gpc[u] /\ gbatch'[u] = gbatch[u]
                              /\ gseen'[u] = gseen[u] /\ greplies'[u] = greplies[u]

(* To itself it does one of these: go on with its message, or without any; *)
(* be done with it; consider the next; or fetch a batch.                   *)
GoesOn(t) ==
    /\ gbatch'[t] = gbatch[t] /\ gseen'[t] = gseen[t]
    /\ gpc'[t] \in Busy => gpc[t] \in Working /\ gpc[t] # gpc'[t]
    /\ gpc'[t] = "markReplied" => gpc[t] = "reply"

IsDone(t) ==
    /\ gbatch[t] # <<>> /\ gbatch'[t] = Tail(gbatch[t]) /\ gseen'[t] = gseen[t]
    /\ gpc'[t] = "next"

Considers(t) ==
    /\ gbatch[t] # <<>> /\ Head(gbatch[t]) \notin gseen[t] /\ gbatch'[t] = gbatch[t]
    /\ gseen'[t] = gseen[t] \cup {Head(gbatch[t])}
    /\ gpc'[t] = "classify"

Polls(t) ==
    /\ ToSet(gbatch'[t]) \subseteq IF t[1] = "gmail" THEN Mails ELSE Chats
    /\ \A m \in ToSet(gbatch'[t]) : t[1] = "gmail" => gread[m] = "unread"
    /\ gseen'[t] = gseen[t] /\ gpc'[t] = "next"

(* To the messages it does one of these: nothing; answer one; mark one as  *)
(* read; or fail to mark it.                                               *)
Quiet(t) ==
    /\ UNCHANGED <<gread, greplies, gserved, gunmarked>>
    /\ gpc[t] # "markReplied" /\ gpc'[t] # "markReplied"
    /\ GoesOn(t) \/ IsDone(t) \/ Considers(t) \/ Polls(t)

Replies(t) ==
    /\ gpc[t] = "reply" /\ UNCHANGED gread /\ Sends(t)
    /\ \/ t[1] = "gmail" /\ gpc'[t] = "markReplied" /\ GoesOn(t) /\ UNCHANGED gunmarked
       \/ t[1] = "chat" /\ IsDone(t) /\ UNCHANGED gunmarked
       \/ IsDone(t) /\ StaysUnmarked(Head(gbatch[t]))

Marks(t) ==
    /\ IsDone(t) /\ gread' = [gread EXCEPT ![Head(gbatch[t])] = "read"]
    /\ UNCHANGED <<greplies, gserved, gunmarked>>

Misses(t) ==
    /\ IsDone(t) /\ gpc[t] = "markReplied" /\ StaysUnmarked(Head(gbatch[t]))
    /\ UNCHANGED <<gread, greplies, gserved>>

TaskDoes(t) == Quiet(t) \/ Replies(t) \/ Marks(t) \/ Misses(t)

(* Head and rest of what a task holds.                                     *)
LEMMA HeldBatch ==
    ASSUME GogTypeOK, NEW t \in Tasks, gbatch[t] # <<>>
    PROVE  /\ Head(gbatch[t]) \in Items /\ Tail(gbatch[t]) \in Seq(Items)
           /\ Head(gbatch[t]) \in ToSet(gbatch[t])
           /\ ToSet(Tail(gbatch[t])) \subseteq ToSet(gbatch[t])
BY TailSet DEF GogTypeOK

(* What a poll fetches.                                                    *)
LEMMA PageType ==
    ASSUME NEW t \in Tasks, NEW S \in MailPages(t) \cup ChatPages(t), NEW s \in SetToSeqs(S)
    PROVE  s \in Seq(Items) /\ ToSet(s) = S
<1>1. S \in SUBSET Items
  BY DEF MailPages, ChatPages, Items
<1>2. IsFiniteSet(S)
  BY <1>1, GogAssumption, FS_Subset DEF Items
<1> QED BY <1>1, <1>2, OrderedSet

(* Every step of a task is one of those, and leaves the state well typed.  *)
LEMMA TaskStep ==
    ASSUME GogInv, NEW t \in Tasks, MailTask(t) \/ ChatTask(t)
    PROVE  Alone(t) /\ TaskDoes(t) /\ GogTypeOK'
<1> USE DEF GogInv
<1>1. gpc[t] # "down" /\ gprofiles # <<>> /\ (gpc[t] \in Busy => gbatch[t] # <<>>)
  <2>1. gpc[t] # "down"
    BY DEF MailTask, ChatTask, CommonStep, Poll, PollFails, BackoffEnds, BatchEnds, SkipSeen,
           Consider, IsAQuestion, IsNoQuestion, Panics, AnswerComes, AskFails, ReplyFails,
           MailUnanswered, MailReply, MarkRead, MarkFails, ChatUnanswered, ChatReply
  <2> QED BY <2>1 DEF TaskInv
<1>2. gbatch[t] # <<>> => Head(gbatch[t]) \in Items /\ Tail(gbatch[t]) \in Seq(Items)
  BY HeldBatch
<1> USE DEF Busy, Working, Resting
<1>3. CASE Poll(t)
  <2>1. PICK S \in (IF t[1] = "gmail" THEN MailPages(t) ELSE ChatPages(t)) :
           \E batch \in SetToSeqs(S) : gbatch' = [gbatch EXCEPT ![t] = batch]
    BY <1>3 DEF Poll
  <2>2. PICK batch \in SetToSeqs(S) : gbatch' = [gbatch EXCEPT ![t] = batch]
    BY <2>1
  <2>3. batch \in Seq(Items) /\ ToSet(batch) = S
    BY PageType
  <2>4. /\ S \subseteq IF t[1] = "gmail" THEN Mails ELSE Chats
        /\ \A m \in S : t[1] = "gmail" => gread[m] = "unread"
    <3>1. CASE t[1] = "gmail"
      BY <3>1 DEF MailPages
    <3>2. CASE t[1] # "gmail"
      BY <3>2 DEF ChatPages
    <3> QED BY <3>1, <3>2
  <2>5. gbatch'[t] = batch /\ gpc[t] = "poll" /\ gpc'[t] = "next"
    BY <1>3, <2>2 DEF Poll, GogTypeOK
  <2>6. GogTypeOK'
    BY <1>3, <2>2, <2>3 DEF Poll, GogTypeOK, gogHistory
  <2>7. Alone(t)
    BY <1>1, <1>3, <2>2 DEF Poll, Alone, GogTypeOK, gogHistory
  <2>8. Quiet(t)
    BY <1>3, <2>3, <2>4, <2>5 DEF Poll, Quiet, Polls, GogTypeOK, gogHistory
  <2> QED BY <2>6, <2>7, <2>8 DEF TaskDoes
<1>4. CASE PollFails(t) \/ BackoffEnds(t) \/ BatchEnds(t) \/ IsAQuestion(t) \/ Panics(t)
           \/ AnswerComes(t) \/ MailUnanswered(t)
  <2> USE <1>4 DEF PollFails, BackoffEnds, BatchEnds, IsAQuestion, Panics, AnswerComes,
                   MailUnanswered, gogHistory
  <2>1. GogTypeOK'
    BY DEF GogTypeOK
  <2>2. Alone(t)
    BY <1>1 DEF Alone, GogTypeOK
  <2>3. Quiet(t)
    BY DEF Quiet, GoesOn, GogTypeOK
  <2> QED BY <2>1, <2>2, <2>3 DEF TaskDoes
<1>5. CASE SkipSeen(t) \/ IsNoQuestion(t) \/ ChatUnanswered(t) \/ AskFails(t)
  <2> USE <1>5 DEF SkipSeen, IsNoQuestion, ChatUnanswered, AskFails, DoneWith, gogHistory
  <2>1. gbatch[t] # <<>> /\ gpc[t] # "markReplied"
    BY <1>1
  <2>2. GogTypeOK'
    BY <1>2, <2>1 DEF GogTypeOK
  <2>3. Alone(t)
    BY <1>1 DEF Alone, GogTypeOK
  <2>4. Quiet(t)
    BY <2>1 DEF Quiet, IsDone, GogTypeOK
  <2> QED BY <2>2, <2>3, <2>4 DEF TaskDoes
<1>6. CASE Consider(t)
  <2> USE <1>6 DEF Consider, Remember, gogHistory
  <2>1. GogTypeOK'
    BY <1>2 DEF GogTypeOK
  <2>2. Alone(t)
    BY <1>1 DEF Alone, GogTypeOK
  <2>3. Quiet(t)
    BY DEF Quiet, Considers, GogTypeOK
  <2> QED BY <2>1, <2>2, <2>3 DEF TaskDoes
<1>7. CASE Sends(t) /\ \/ MailReply(t) /\ t[1] = "gmail"
                       \/ ChatReply(t) /\ t[1] = "chat"
                       \/ ReplyFails(t) /\ StaysUnmarked(Head(gbatch[t]))
  <2>1. /\ gpc[t] = "reply" /\ UNCHANGED <<gprofiles, gseen, gread, gturned>> /\ Sends(t)
        /\ \/ /\ t[1] = "gmail" /\ UNCHANGED <<gbatch, gunmarked>>
              /\ gpc' = [gpc EXCEPT ![t] = "markReplied"]
           \/ /\ t[1] = "chat" /\ UNCHANGED gunmarked /\ DoneWith(t)
           \/ /\ StaysUnmarked(Head(gbatch[t])) /\ DoneWith(t)
    BY <1>7 DEF MailReply, ChatReply, ReplyFails
  <2>2. gbatch[t] # <<>> /\ Head(gbatch[t]) \in Items /\ Tail(gbatch[t]) \in Seq(Items)
    BY <1>1, <1>2, <2>1
  <2>3. /\ greplies' \in [Tasks -> [Items -> Nat]] /\ gserved' \in [Items -> Nat]
        /\ \A u \in Tasks \ {t} : greplies'[u] = greplies[u]
    BY <2>1, <2>2 DEF Sends, GogTypeOK
  <2>4. gunmarked' \in [Items -> Nat]
    BY <2>1, <2>2 DEF StaysUnmarked, GogTypeOK
  <2>5. /\ gpc' \in [Tasks -> Resting \cup Busy] /\ gbatch' \in [Tasks -> Seq(Items)]
        /\ \A u \in Tasks \ {t} : gpc'[u] = gpc[u] /\ gbatch'[u] = gbatch[u]
        /\ \/ gpc' = [gpc EXCEPT ![t] = "markReplied"] /\ gbatch' = gbatch
              /\ gpc'[t] = "markReplied"
           \/ DoneWith(t) /\ gpc'[t] = "next" /\ gbatch'[t] = Tail(gbatch[t])
    BY <2>1, <2>2 DEF DoneWith, GogTypeOK
  <2>6. GogTypeOK'
    BY <2>1, <2>3, <2>4, <2>5 DEF GogTypeOK
  <2>7. Alone(t)
    BY <1>1, <2>1, <2>3, <2>5 DEF Alone
  <2>8. Replies(t)
    BY <2>1, <2>2, <2>5 DEF Replies, GoesOn, IsDone, DoneWith, GogTypeOK
  <2> QED BY <2>6, <2>7, <2>8 DEF TaskDoes
<1>8. CASE ReplyFails(t) /\ UNCHANGED <<greplies, gserved, gunmarked>>
  <2> USE <1>8 DEF ReplyFails, DoneWith
  <2>1. gbatch[t] # <<>> /\ gpc[t] = "reply"
    BY <1>1
  <2>2. GogTypeOK'
    BY <1>2, <2>1 DEF GogTypeOK
  <2>3. Alone(t)
    BY <1>1 DEF Alone, GogTypeOK
  <2>4. Quiet(t)
    BY <2>1 DEF Quiet, IsDone, GogTypeOK
  <2> QED BY <2>2, <2>3, <2>4 DEF TaskDoes
<1>9. CASE MarkRead(t)
  <2> USE <1>9 DEF MarkRead, DoneWith, gogHistory
  <2>1. gbatch[t] # <<>>
    BY <1>1
  <2>2. GogTypeOK'
    BY <1>2, <2>1 DEF GogTypeOK
  <2>3. Alone(t)
    BY <1>1 DEF Alone, GogTypeOK
  <2>4. Marks(t)
    BY <2>1 DEF Marks, IsDone, GogTypeOK
  <2> QED BY <2>2, <2>3, <2>4 DEF TaskDoes
<1>10. CASE MarkFails(t)
  <2>1. gbatch[t] # <<>>
    BY <1>1, <1>10 DEF MarkFails
  <2>2. gunmarked' \in [Items -> Nat]
    <3>1. \/ gunmarked' = [gunmarked EXCEPT ![Head(gbatch[t])] = @ + 1]
          \/ gunmarked' = gunmarked
      BY <1>10 DEF MarkFails, StaysUnmarked
    <3>2. gunmarked \in [Items -> Nat] /\ Head(gbatch[t]) \in Items
      BY <1>2, <2>1 DEF GogTypeOK
    <3> QED BY <3>1, <3>2
  <2> USE <1>10 DEF MarkFails, DoneWith
  <2>3. GogTypeOK'
    BY <1>2, <2>1, <2>2 DEF GogTypeOK
  <2>4. Alone(t)
    BY <1>1 DEF Alone, GogTypeOK
  <2>5. Misses(t) \/ Quiet(t)
    BY <2>1 DEF Misses, Quiet, IsDone, GogTypeOK
  <2> QED BY <2>3, <2>4, <2>5 DEF TaskDoes
<1>11. ReplyFails(t) => \/ UNCHANGED <<greplies, gserved, gunmarked>>
                        \/ Sends(t) /\ StaysUnmarked(Head(gbatch[t]))
  BY DEF ReplyFails
<1>12. (MailReply(t) => Sends(t)) /\ (ChatReply(t) => Sends(t))
  BY DEF MailReply, ChatReply
<1> QED BY <1>3, <1>4, <1>5, <1>6, <1>7, <1>8, <1>9, <1>10, <1>11, <1>12
        DEF MailTask, ChatTask, CommonStep

(* A reply counts once more for the message it answers, and in this run    *)
(* once at most.                                                           *)
LEMMA SendCounts ==
    ASSUME GogTypeOK, NEW t \in Tasks, gbatch[t] # <<>>, Sends(t),
           NEW m \in Items, m = Head(gbatch[t])
    PROVE  /\ greplies'[t][m] = greplies[t][m] + 1
           /\ gserved'[m] = IF FirstToAnswer(m) THEN gserved[m] + 1 ELSE gserved[m]
           /\ ~FirstToAnswer(m)'
           /\ \A n \in Items \ {m} :
                 greplies'[t][n] = greplies[t][n] /\ gserved'[n] = gserved[n]
<1>1. greplies'[t] = [greplies[t] EXCEPT ![m] = @ + 1]
  BY DEF Sends, GogTypeOK
<1>2. greplies[t] \in [Items -> Nat]
  BY DEF GogTypeOK
<1>3. /\ greplies'[t][m] = greplies[t][m] + 1 /\ greplies[t][m] \in Nat
      /\ \A n \in Items \ {m} : greplies'[t][n] = greplies[t][n]
  BY <1>1, <1>2
<1>4. /\ gserved'[m] = IF FirstToAnswer(m) THEN gserved[m] + 1 ELSE gserved[m]
      /\ \A n \in Items \ {m} : gserved'[n] = gserved[n]
  BY DEF Sends, GogTypeOK
<1>5. ~FirstToAnswer(m)'
  BY <1>3 DEF FirstToAnswer
<1> QED BY <1>3, <1>4, <1>5

(* A task keeps its part of the invariant.                                 *)
LEMMA TaskKeeps ==
    ASSUME GogInv, NEW t \in Tasks, Alone(t), TaskDoes(t), GogTypeOK'
    PROVE  \A u \in Tasks : TaskInv(u)'
<1> USE DEF GogInv
<1>1. ASSUME NEW u \in Tasks \ {t} PROVE TaskInv(u)'
  BY <1>1 DEF Alone, TaskInv, HeadIs
<1>2. TaskInv(t) /\ gprofiles # <<>> /\ gprofiles' = gprofiles
  BY DEF Alone
<1>3. \/ UNCHANGED greplies /\ (GoesOn(t) \/ IsDone(t) \/ Considers(t) \/ Polls(t))
      \/ /\ gpc[t] = "reply" /\ Sends(t)
         /\ gpc'[t] \in {"markReplied", "next"} /\ (GoesOn(t) \/ IsDone(t))
  BY DEF TaskDoes, Quiet, Replies, Marks, Misses, IsDone
<1>4. gbatch[t] # <<>> => ToSet(Tail(gbatch[t])) \subseteq ToSet(gbatch[t])
  BY HeldBatch
<1>5. ToSet(gbatch'[t]) \subseteq IF t[1] = "gmail" THEN Mails ELSE Chats
  BY <1>2, <1>3, <1>4 DEF TaskInv, GoesOn, IsDone, Considers, Polls
<1>6. gpc'[t] \in Busy => gbatch'[t] # <<>> /\ Head(gbatch'[t]) \in gseen'[t]
  BY <1>2, <1>3 DEF TaskInv, GoesOn, IsDone, Considers, Polls, Busy, Working
<1>7. ASSUME NEW m \in Items
      PROVE  /\ greplies'[t][m] <= 1
             /\ greplies'[t][m] > 0 => m \in gseen'[t] /\ ~(gpc'[t] \in Working /\ HeadIs(t, m)')
  <2>1. CASE greplies'[t][m] = greplies[t][m]
    <3>1. /\ greplies'[t][m] <= 1
          /\ greplies'[t][m] > 0 => m \in gseen[t] /\ ~(gpc[t] \in Working /\ HeadIs(t, m))
      BY <1>2, <2>1 DEF TaskInv
    <3>2. gseen[t] \subseteq gseen'[t]
      BY <1>3 DEF GoesOn, IsDone, Considers, Polls
    <3>3. gpc'[t] \in Working /\ HeadIs(t, m)' =>
             HeadIs(t, m) /\ (gpc[t] \in Working \/ m \notin gseen[t])
      BY <1>3 DEF GoesOn, IsDone, Considers, Polls, HeadIs, Busy, Working
    <3> QED BY <3>1, <3>2, <3>3
  <2>2. CASE gpc[t] = "reply" /\ Sends(t) /\ m = Head(gbatch[t])
    <3>1. gbatch[t] # <<>> /\ HeadIs(t, m) /\ m \in gseen[t] /\ ~(greplies[t][m] > 0)
      BY <1>2, <2>2 DEF TaskInv, HeadIs, Busy, Working
    <3>2. greplies[t][m] \in Nat /\ greplies'[t][m] = greplies[t][m] + 1
      BY <2>2, <3>1, SendCounts DEF GogTypeOK
    <3>3. gseen'[t] = gseen[t] /\ gpc'[t] \notin Working
      <4>1. greplies' # greplies
        BY <3>2
      <4> QED BY <1>3, <4>1 DEF IsDone, GoesOn, Working
    <3> QED BY <3>1, <3>2, <3>3
  <2>3. CASE gpc[t] = "reply" /\ Sends(t) /\ m # Head(gbatch[t])
    <3>1. gbatch[t] # <<>> /\ Head(gbatch[t]) \in Items
      BY <1>2, <2>3, HeldBatch DEF TaskInv, Busy, Working
    <3>2. greplies'[t][m] = greplies[t][m]
      BY <2>3, <3>1, SendCounts
    <3> QED BY <2>1, <3>2
  <2> QED BY <1>3, <2>1, <2>2, <2>3
<1>8. TaskInv(t)'
  BY <1>2, <1>5, <1>6, <1>7 DEF TaskInv
<1> QED BY <1>1, <1>8

(* It keeps that of the mails: what it answers had room, or was answered   *)
(* in this run before.                                                     *)
LEMMA MailKeeps ==
    ASSUME GogInv, NEW t \in Tasks, Alone(t), TaskDoes(t), GogTypeOK', NEW m \in Mails
    PROVE  MailInv(m)'
<1> USE DEF GogInv
<1>1. MailInv(m) /\ TaskInv(t) /\ m \in Items /\ m \notin Chats
  BY GogAssumption DEF Items
<1>2. /\ gserved[m] \in Nat /\ gunmarked[m] \in Nat /\ gturned[m] \in Nat
      /\ gturned'[m] = gturned[m]
      /\ \A u \in Tasks \ {t} : /\ gbatch'[u] = gbatch[u] /\ gpc'[u] = gpc[u]
                                /\ greplies'[u] = greplies[u]
  BY <1>1 DEF GogTypeOK, Alone
<1>3. \A u \in Tasks \ {t} : Unmarked(u, m)' = Unmarked(u, m)
  BY <1>2 DEF Unmarked, HeadIs
<1>4. gbatch[t] # <<>> => /\ Head(gbatch[t]) \in ToSet(gbatch[t])
                          /\ ToSet(Tail(gbatch[t])) \subseteq ToSet(gbatch[t])
  BY HeldBatch
<1> DEFINE held == \E u \in Tasks : m \in ToSet(gbatch[u])
           heldNext == \E u \in Tasks : m \in ToSet(gbatch'[u])
<1>5. (\E u \in Tasks : m \in ToSet(gbatch[u]))' <=> heldNext
  OBVIOUS
<1>6. m \in ToSet(gbatch'[t]) => m \in ToSet(gbatch[t]) \/ (gread[m] = "unread" /\ Quiet(t))
  <2>1. GoesOn(t) \/ IsDone(t) \/ Considers(t) => ToSet(gbatch'[t]) \subseteq ToSet(gbatch[t])
    BY <1>4 DEF GoesOn, IsDone, Considers
  <2>2. Polls(t) /\ m \in ToSet(gbatch'[t]) => gread[m] = "unread"
    BY <1>1 DEF Polls
  <2> QED BY <2>1, <2>2 DEF TaskDoes, Quiet, Replies, Marks, Misses
<1>7. heldNext => held \/ (gread[m] = "unread" /\ Quiet(t))
  BY <1>2, <1>6
<1>8. CASE Quiet(t)
  <2>1. UNCHANGED <<gread, greplies, gserved, gunmarked>> /\ ~Unmarked(t, m)
    BY <1>8 DEF Quiet, Unmarked
  <2>2. (FirstToAnswer(m)' <=> FirstToAnswer(m)) /\ (Unread(m)' <=> Unread(m)) /\ (Room(m)' <=> Room(m))
    BY <1>2, <2>1 DEF FirstToAnswer, Unread, Room
  <2>3. heldNext => held \/ Unread(m)
    BY <1>7 DEF Unread
  <2>4. (\E u \in Tasks : Unmarked(u, m)) => \E u \in Tasks : Unmarked(u, m)'
    BY <1>3, <2>1
  <2> QED BY <1>1, <1>2, <1>5, <2>1, <2>2, <2>3, <2>4 DEF MailInv
<1>9. CASE Marks(t)
  <2>1. UNCHANGED <<greplies, gserved, gunmarked>> /\ IsDone(t)
        /\ gread' = [gread EXCEPT ![Head(gbatch[t])] = "read"]
    BY <1>9 DEF Marks
  <2>2. /\ Unread(m)' => Unread(m) /\ Head(gbatch[t]) # m
        /\ (FirstToAnswer(m)' <=> FirstToAnswer(m)) /\ (Room(m)' <=> Room(m))
    BY <1>1, <1>2, <2>1 DEF FirstToAnswer, Unread, Room, GogTypeOK
  <2>4. heldNext => held
    <3>1. ToSet(gbatch'[t]) \subseteq ToSet(gbatch[t])
      BY <1>4, <2>1 DEF IsDone
    <3> QED BY <1>2, <3>1
  <2>5. Head(gbatch[t]) # m /\ (\E u \in Tasks : Unmarked(u, m)) =>
           \E u \in Tasks : Unmarked(u, m)'
    <3>1. Head(gbatch[t]) # m => ~Unmarked(t, m)
      BY DEF Unmarked, HeadIs
    <3> QED BY <1>3, <3>1
  <2> QED BY <1>1, <1>2, <1>5, <2>1, <2>2, <2>4, <2>5 DEF MailInv
<1>10. CASE Misses(t)
  <2>1. /\ UNCHANGED <<gread, greplies, gserved>> /\ IsDone(t)
        /\ gunmarked' = [gunmarked EXCEPT ![Head(gbatch[t])] = @ + 1]
    BY <1>10 DEF Misses, StaysUnmarked
  <2>2. /\ (Unread(m)' <=> Unread(m)) /\ (FirstToAnswer(m)' <=> FirstToAnswer(m))
        /\ gserved'[m] = gserved[m]
    BY <2>1 DEF FirstToAnswer, Unread
  <2>3. ToSet(gbatch'[t]) \subseteq ToSet(gbatch[t])
    BY <1>4, <2>1 DEF IsDone
  <2>4. heldNext => held
    BY <1>2, <2>3
  <2>5. CASE Head(gbatch[t]) = m
    <3>1. gunmarked'[m] = gunmarked[m] + 1
      BY <1>1, <2>1, <2>5 DEF GogTypeOK
    <3>2. Room(m)'
      BY <1>1, <1>2, <2>2, <3>1 DEF MailInv, Room
    <3> QED BY <1>1, <1>2, <2>2, <3>1, <3>2 DEF MailInv
  <2>6. CASE Head(gbatch[t]) # m
    <3>1. gunmarked'[m] = gunmarked[m] /\ ~Unmarked(t, m)
      BY <1>1, <2>1, <2>6 DEF GogTypeOK, Unmarked, HeadIs
    <3>2. (\E u \in Tasks : Unmarked(u, m)) => \E u \in Tasks : Unmarked(u, m)'
      BY <1>3, <3>1
    <3>3. Room(m)' <=> Room(m)
      BY <1>2, <2>2, <3>1 DEF Room
    <3> QED BY <1>1, <1>2, <1>5, <2>2, <2>4, <3>1, <3>2, <3>3 DEF MailInv
  <2> QED BY <2>5, <2>6
<1>11. CASE Replies(t)
  <2>1. gbatch[t] # <<>> /\ Sends(t) /\ UNCHANGED gread /\ gpc[t] = "reply"
    BY <1>1, <1>11 DEF Replies, TaskInv, Busy, Working
  <2>2. (Unread(m)' <=> Unread(m)) /\ ~Unmarked(t, m)
    BY <2>1 DEF Unread, Unmarked
  <2>3. heldNext => held
    <3>1. ~Quiet(t)
      <4>1. PICK n \in Items : n = Head(gbatch[t])
        BY <2>1, HeldBatch
      <4>2. greplies'[t][n] = greplies[t][n] + 1 /\ greplies[t][n] \in Nat
        BY <2>1, <4>1, SendCounts DEF GogTypeOK
      <4> QED BY <4>2 DEF Quiet
    <3> QED BY <1>7, <3>1
  <2>4. (\E u \in Tasks : Unmarked(u, m)) => \E u \in Tasks : Unmarked(u, m)'
    BY <1>3, <2>2
  <2>5. CASE Head(gbatch[t]) = m
    <3>1. /\ gserved'[m] = (IF FirstToAnswer(m) THEN gserved[m] + 1 ELSE gserved[m])
          /\ ~FirstToAnswer(m)'
      BY <1>1, <2>1, <2>5, SendCounts
    <3>2. t[1] # "chat"
      BY <1>1, <1>4, <2>1, <2>5 DEF TaskInv
    <3>3. FirstToAnswer(m) => Room(m)
      BY <1>1, <1>4, <2>1, <2>5 DEF MailInv
    <3>4. CASE gpc'[t] = "markReplied" /\ GoesOn(t) /\ UNCHANGED gunmarked
      <4>1. Unmarked(t, m)'
        BY <2>1, <2>5, <3>4 DEF Unmarked, HeadIs, GoesOn
      <4>2. gserved'[m] <= 1 + gunmarked'[m] + gturned'[m]
        BY <1>1, <1>2, <3>1, <3>3, <3>4 DEF MailInv, Room
      <4> QED BY <3>1, <4>1, <4>2 DEF MailInv
    <3>5. CASE IsDone(t) /\ StaysUnmarked(Head(gbatch[t]))
      <4>1. gunmarked'[m] = gunmarked[m] + 1
        BY <1>1, <2>5, <3>5 DEF StaysUnmarked, GogTypeOK
      <4>2. Room(m)' /\ gserved'[m] <= 1 + gunmarked'[m] + gturned'[m]
        BY <1>1, <1>2, <3>1, <3>3, <4>1 DEF MailInv, Room
      <4> QED BY <4>2 DEF MailInv
    <3> QED BY <1>11, <3>2, <3>4, <3>5 DEF Replies
  <2>6. CASE Head(gbatch[t]) # m
    <3>1. greplies'[t][m] = greplies[t][m] /\ gserved'[m] = gserved[m]
      BY <1>1, <2>1, <2>6, HeldBatch, SendCounts
    <3>2. gunmarked'[m] = gunmarked[m]
      BY <1>1, <1>11, <2>6 DEF Replies, StaysUnmarked, GogTypeOK
    <3>3. (FirstToAnswer(m)' <=> FirstToAnswer(m)) /\ (Room(m)' <=> Room(m))
      BY <1>2, <3>1, <3>2 DEF FirstToAnswer, Room
    <3> QED BY <1>1, <1>2, <1>5, <2>2, <2>3, <2>4, <3>1, <3>2, <3>3 DEF MailInv
  <2> QED BY <2>5, <2>6
<1> QED BY <1>8, <1>9, <1>10, <1>11 DEF TaskDoes

(* A stop ends the run: a reply that goes out with it is not marked.       *)
LEMMA StopKeeps == ASSUME GogInv, GogStop PROVE GogInv'
<1> USE DEF GogInv
<1>1. PICK sent \in SUBSET {t \in Tasks : gpc[t] = "reply"} :
         LET last == {Head(gbatch[t]) : t \in sent}
             unmarked == {Head(gbatch[t]) : t \in {u \in Tasks : gpc[u] = "markReplied"}}
         IN  /\ gserved' = [m \in Items |->
                   gserved[m] + IF m \in last /\ FirstToAnswer(m) THEN 1 ELSE 0]
             /\ gunmarked' = [m \in Items |->
                   gunmarked[m] + IF m \in last \cup unmarked THEN 1 ELSE 0]
  BY DEF GogStop
<1> DEFINE last == {Head(gbatch[t]) : t \in sent}
           unmarked == {Head(gbatch[t]) : t \in {u \in Tasks : gpc[u] = "markReplied"}}
<1>2. \A m \in Items :
         /\ gserved'[m] = gserved[m] + IF m \in last /\ FirstToAnswer(m) THEN 1 ELSE 0
         /\ gunmarked'[m] = gunmarked[m] + IF m \in last \cup unmarked THEN 1 ELSE 0
         /\ gserved[m] \in Nat /\ gunmarked[m] \in Nat /\ gturned[m] \in Nat
  BY <1>1 DEF GogTypeOK
<1>3. /\ gprofiles' = <<>> /\ gpc' = [t \in Tasks |-> "down"]
      /\ gbatch' = [t \in Tasks |-> <<>>] /\ gseen' = [t \in Tasks |-> {}]
      /\ greplies' = [t \in Tasks |-> [m \in Items |-> 0]] /\ UNCHANGED <<gread, gturned>>
  BY DEF GogStop
<1>4. <<>> \in Seq(Items) /\ ToSet(<<>>) = {}
  BY EmptyBatch
<1>5. GogTypeOK'
  <2>1. gserved' \in [Items -> Nat] /\ gunmarked' \in [Items -> Nat]
    <3>1. gserved' = [m \in Items |-> gserved'[m]] /\ gunmarked' = [m \in Items |-> gunmarked'[m]]
      BY <1>1
    <3>2. \A m \in Items : gserved'[m] \in Nat /\ gunmarked'[m] \in Nat
      BY <1>2
    <3> QED BY <3>1, <3>2
  <2>2. /\ gpc' \in [Tasks -> Resting \cup Busy] /\ gbatch' \in [Tasks -> Seq(Items)]
        /\ gseen' \in [Tasks -> SUBSET Items] /\ greplies' \in [Tasks -> [Items -> Nat]]
    BY <1>3, <1>4 DEF Resting
  <2> QED BY <1>3, <2>1, <2>2 DEF GogTypeOK
<1>6. ASSUME NEW t \in Tasks PROVE TaskInv(t)'
  BY <1>3, <1>4 DEF TaskInv, Busy, Working
<1>7. ASSUME NEW m \in Mails PROVE MailInv(m)'
  <2>1. MailInv(m) /\ m \in Items
    BY DEF Items
  <2>2. ~(\E t \in Tasks : m \in ToSet(gbatch'[t])) /\ (Unread(m)' <=> Unread(m)) /\ FirstToAnswer(m)'
    BY <1>3, <1>4, <2>1 DEF Unread, FirstToAnswer
  <2>4. ~FirstToAnswer(m) /\ (\E t \in Tasks : Unmarked(t, m)) => m \in unmarked
    BY DEF Unmarked, HeadIs
  <2>5. gturned'[m] = gturned[m]
    BY <1>3
  <2> HIDE DEF last, unmarked
  <2>6. /\ gserved'[m] <= 1 + gunmarked'[m] + gturned'[m]
    BY <1>2, <2>1, <2>5 DEF MailInv
  <2>7. Unread(m) => Room(m)'
    <3>1. CASE FirstToAnswer(m)
      BY <1>2, <2>1, <2>5, <3>1 DEF MailInv, Room
    <3>2. CASE ~FirstToAnswer(m)
      BY <1>2, <2>1, <2>4, <2>5, <3>2 DEF MailInv, Room
    <3> QED BY <3>1, <3>2
  <2> QED BY <2>2, <2>6, <2>7 DEF MailInv
<1> QED BY <1>5, <1>6, <1>7

(* A start, and what happens to the mail elsewhere.                        *)
LEMMA OutsideKeeps ==
    ASSUME GogInv,
           GogStart \/ \E m \in Items : Arrives(m) \/ IsReadElsewhere(m) \/ TurnsUnread(m)
    PROVE  GogInv'
<1> USE DEF GogInv
<1>1. CASE GogStart
  <2>1. /\ gprofiles = <<>> /\ UNCHANGED <<gbatch, gseen, gread, greplies, gserved, gunmarked, gturned>>
        /\ gprofiles' \in ProfileLists /\ gpc' \in [Tasks -> {"poll", "down"}]
    BY <1>1 DEF GogStart
  <2>2. gprofiles' # <<>>
    BY <2>1, GogAssumption
  <2>3. GogTypeOK'
    BY <2>1 DEF GogTypeOK, Resting
  <2>4. \A t \in Tasks : TaskInv(t)'
    BY <2>1, <2>2 DEF TaskInv, Busy, Working, HeadIs
  <2>5. \A m \in Items : FirstToAnswer(m)
    BY <2>1 DEF FirstToAnswer, TaskInv, GogTypeOK
  <2>6. ASSUME NEW m \in Mails PROVE MailInv(m)'
    BY <2>1, <2>5 DEF MailInv, FirstToAnswer, Room, Unread, Items
  <2> QED BY <2>3, <2>4, <2>6
<1>2. ASSUME NEW m \in Items, Arrives(m) \/ IsReadElsewhere(m) \/ TurnsUnread(m)
      PROVE  GogInv'
  <2>1. /\ UNCHANGED <<gprofiles, gpc, gbatch, gseen, greplies, gserved, gunmarked>>
        /\ gread' \in [Items -> {"absent", "unread", "read"}]
        /\ \A n \in Items : n # m => gread'[n] = gread[n] /\ gturned'[n] = gturned[n]
        /\ gturned' \in [Items -> Nat]
        /\ \/ Unread(m)' => Unread(m) /\ gturned'[m] = gturned[m]
           \/ gturned'[m] = gturned[m] + 1
        /\ gturned'[m] = gturned[m] \/ gturned'[m] = gturned[m] + 1
    <3>1. CASE Arrives(m)
      BY <3>1 DEF Arrives, gogHistory, GogTypeOK, Unread
    <3>2. CASE IsReadElsewhere(m)
      BY <3>2 DEF IsReadElsewhere, gogHistory, GogTypeOK, Unread
    <3>3. CASE TurnsUnread(m)
      BY <3>3 DEF TurnsUnread, GogTypeOK, Unread
    <3> QED BY <1>2, <3>1, <3>2, <3>3
  <2>2. GogTypeOK'
    BY <2>1 DEF GogTypeOK
  <2>3. \A t \in Tasks : TaskInv(t)'
    BY <2>1 DEF TaskInv, HeadIs
  <2>4. ASSUME NEW n \in Mails PROVE MailInv(n)'
    <3>1. /\ MailInv(n) /\ n \in Items
          /\ gserved[n] \in Nat /\ gunmarked[n] \in Nat /\ gturned[n] \in Nat
      BY DEF Items, GogTypeOK
    <3>2. /\ FirstToAnswer(n)' <=> FirstToAnswer(n)
          /\ \A t \in Tasks : Unmarked(t, n)' <=> Unmarked(t, n)
          /\ (\E t \in Tasks : n \in ToSet(gbatch[t]))' <=> \E t \in Tasks : n \in ToSet(gbatch[t])
      BY <2>1 DEF FirstToAnswer, Unmarked, HeadIs
    <3>3. CASE gturned'[n] = gturned[n] + 1
      <4>1. Room(n)' /\ gserved'[n] <= 1 + gunmarked'[n] + gturned'[n]
        BY <2>1, <3>1, <3>3 DEF MailInv, Room
      <4> QED BY <4>1 DEF MailInv
    <3>4. CASE gturned'[n] = gturned[n] /\ (Unread(n)' => Unread(n))
      <4>1. Room(n)' <=> Room(n)
        BY <2>1, <3>4 DEF Room
      <4> QED BY <2>1, <3>1, <3>2, <3>4, <4>1 DEF MailInv
    <3>5. n # m => gturned'[n] = gturned[n] /\ (Unread(n)' => Unread(n))
      BY <2>1, <3>1 DEF Unread
    <3> QED BY <2>1, <3>1, <3>3, <3>4, <3>5
  <2> QED BY <2>2, <2>3, <2>4
<1> QED BY <1>1, <1>2

(* Every step of the plugin keeps the invariant.                           *)
LEMMA GogInvStep == GogInv /\ [GogNext]_gogVars => GogInv'
<1> SUFFICES ASSUME GogInv, [GogNext]_gogVars PROVE GogInv'
  OBVIOUS
<1>1. ASSUME NEW t \in Tasks, MailTask(t) \/ ChatTask(t) PROVE GogInv'
  BY <1>1, TaskStep, TaskKeeps, MailKeeps DEF GogInv
<1>2. CASE UNCHANGED gogVars
  <2>1. UNCHANGED <<gprofiles, gpc, gbatch, gseen, gread, greplies, gserved, gunmarked, gturned>>
    BY <1>2 DEF gogVars, gogHistory
  <2>2. GogTypeOK' /\ \A t \in Tasks : TaskInv(t)'
    BY <2>1 DEF GogInv, GogTypeOK, TaskInv, HeadIs
  <2>3. \A m \in Mails : MailInv(m)'
    BY <2>1 DEF GogInv, MailInv, FirstToAnswer, Room, Unread, Unmarked, HeadIs
  <2> QED BY <2>2, <2>3 DEF GogInv
<1> QED BY <1>1, <1>2, StopKeeps, OutsideKeeps DEF GogNext

(* The invariant bounds the replies.                                       *)
LEMMA GogInvImplies == GogInv => AnsweredInOneRun
BY DEF GogInv, TaskInv, MailInv, AnsweredInOneRun

-----------------------------------------------------------------------------
(* The Signal plugin.  An envelope that is dated before last_check has     *)
(* been taken or is counted as late; what a run asked about is in its      *)
(* cache, and all it holds is dated later than its start.                  *)
SigTypeOK ==
    /\ signow \in Nat /\ siglast \in Nat /\ sigstart \in Nat
    /\ sigstart <= siglast /\ siglast <= signow /\ sigup \in BOOLEAN
    /\ sigpc \in {"poll", "backoff", "clock", "next", "ask", "reply"}
    /\ sigsent \in [Envelopes -> Nat]
    /\ sigqueue \in Seq(Envelopes) /\ sigbatch \in Seq(Envelopes)
    /\ sigseen \subseteq Envelopes /\ sigtaken \subseteq Sent
    /\ sigasked \in [Envelopes -> Nat]

(* Between polls, and while the program is stopped, no batch is left.      *)
BatchFollows ==
    /\ ToSet(sigqueue) \subseteq Sent /\ ToSet(sigbatch) \subseteq Sent
    /\ \A e \in ToSet(sigbatch) : sigsent[e] > sigstart
    /\ ~sigup \/ sigpc \in {"poll", "backoff"} => sigbatch = <<>>
    /\ sigpc \in {"ask", "reply"} /\ sigup =>
          sigbatch # <<>> /\ Head(sigbatch) \in sigseen \cap sigjudged

OldIsTakenOrLate == \A e \in Sent \ (sigtaken \cup siglate) : sigsent[e] > siglast

JudgedOrLost ==
    \A e \in sigtaken \cap Readable :
        e \in sigjudged \cup ToSet(sigbatch) \cup siglate \cup sigdropped

SigAskedOnce ==
    \A e \in Envelopes :
        /\ sigasked[e] <= 1
        /\ sigasked[e] > 0 => e \in sigseen /\ sigsent[e] > sigstart

SigInv == SigTypeOK /\ BatchFollows /\ OldIsTakenOrLate /\ JudgedOrLost /\ SigAskedOnce

(* What a receive keeps is of the queue and relevant.                      *)
LEMMA KeptType ==
    ASSUME SigTypeOK, NEW b \in Kept
    PROVE  /\ b \in Seq(Envelopes)
           /\ ToSet(b) = {e \in ToSet(sigqueue) : Relevant(e)}
<1> DEFINE S == {e \in ToSet(sigqueue) : Relevant(e)}
<1>1. sigqueue \in [1 .. Len(sigqueue) -> Envelopes] /\ Len(sigqueue) \in Nat
  BY LenProperties DEF SigTypeOK
<1>2. ToSet(sigqueue) \subseteq Envelopes /\ IsFiniteSet(ToSet(sigqueue))
  <2>1. IsFiniteSet(1 .. Len(sigqueue))
    BY <1>1, FS_Interval
  <2>2. ToSet(sigqueue) = {sigqueue[i] : i \in 1 .. Len(sigqueue)}
    BY <1>1 DEF ToSet
  <2>3. IsFiniteSet({sigqueue[i] : i \in 1 .. Len(sigqueue)})
    <3>1. sigqueue \in Surjection(1 .. Len(sigqueue), {sigqueue[i] : i \in 1 .. Len(sigqueue)})
      BY <1>1 DEF Surjection
    <3> QED BY <2>1, <3>1, FS_Surjection
  <2> QED BY <1>1, <2>2, <2>3
<1>3. S \in SUBSET Envelopes /\ IsFiniteSet(S)
  BY <1>2, FS_Subset
<1>4. b \in SetToSeqs(S)
  BY DEF Kept
<1> QED BY <1>3, <1>4, OrderedSet

(* Nothing was sent at the start.                                          *)
LEMMA SigInvInit == SigInit => SigInv
<1> SUFFICES ASSUME SigInit PROVE SigInv
  OBVIOUS
<1>1. <<>> \in Seq(Envelopes) /\ ToSet(<<>>) = {}
  BY EmptySeq DEF ToSet
<1>2. Sent = {}
  BY DEF SigInit, Sent
<1>3. SigTypeOK
  <2>1. /\ signow = 0 /\ siglast = 0 /\ sigstart = 0 /\ sigup = FALSE /\ sigpc = "poll" /\ sigbatch = <<>>
        /\ sigseen = {} /\ sigtaken = {} /\ sigqueue = <<>>
        /\ sigsent = [e \in Envelopes |-> 0] /\ sigasked = [e \in Envelopes |-> 0]
    BY DEF SigInit
  <2>2. /\ signow \in Nat /\ siglast \in Nat /\ sigstart \in Nat
        /\ sigstart <= siglast /\ siglast <= signow
    BY <2>1
  <2>3. sigsent \in [Envelopes -> Nat] /\ sigasked \in [Envelopes -> Nat]
    BY <2>1
  <2> QED BY <1>1, <2>1, <2>2, <2>3 DEF SigTypeOK
<1>4. BatchFollows /\ OldIsTakenOrLate /\ JudgedOrLost /\ SigAskedOnce
  BY <1>1, <1>2 DEF SigInit, BatchFollows, OldIsTakenOrLate, JudgedOrLost, SigAskedOnce
<1> QED BY <1>3, <1>4 DEF SigInv

(* The program starts: whatever was sent and not taken is late.            *)
LEMMA SigStartKeeps == ASSUME SigInv, SigStart PROVE SigInv'
<1> USE DEF SigInv
<1>1. /\ ~sigup /\ sigup' = TRUE /\ sigpc' = "poll" /\ sigbatch' = <<>> /\ sigseen' = {}
      /\ siglast' = signow /\ siglate' = siglate \cup (Sent \ sigtaken) /\ Sent' = Sent
      /\ sigstart' = signow /\ sigasked' = [e \in Envelopes |-> 0]
      /\ UNCHANGED <<signow, sigsent, sigqueue, sigtaken, sigdropped, sigjudged>>
  BY DEF SigStart, sigWorld, Sent
<1>2. <<>> \in Seq(Envelopes) /\ ToSet(<<>>) = {} /\ sigbatch = <<>>
  BY <1>1, EmptySeq DEF ToSet, BatchFollows
<1>3. SigTypeOK'
  BY <1>1, <1>2 DEF SigTypeOK
<1>4. BatchFollows'
  BY <1>1, <1>2 DEF BatchFollows
<1>5. OldIsTakenOrLate'
  BY <1>1 DEF OldIsTakenOrLate
<1>6. JudgedOrLost'
  BY <1>1, <1>2 DEF JudgedOrLost
<1>7. SigAskedOnce'
  BY <1>1 DEF SigAskedOnce
<1> QED BY <1>3, <1>4, <1>5, <1>6, <1>7

(* It stops: what was in its batch is dropped.                             *)
LEMMA SigStopKeeps == ASSUME SigInv, SigStop PROVE SigInv'
<1> USE DEF SigInv
<1>1. /\ sigup /\ sigup' = FALSE /\ sigbatch' = <<>> /\ Sent' = Sent
      /\ sigdropped' = sigdropped \cup ToSet(sigbatch)
      /\ UNCHANGED <<signow, sigsent, sigqueue, sigpc, sigseen, siglast, sigtaken, sigstart,
                     siglate, sigjudged, sigasked>>
  BY DEF SigStop, sigWorld, Sent
<1>2. <<>> \in Seq(Envelopes) /\ ToSet(<<>>) = {}
  BY EmptySeq DEF ToSet
<1>3. SigTypeOK'
  BY <1>1, <1>2 DEF SigTypeOK
<1>4. BatchFollows' /\ OldIsTakenOrLate'
  BY <1>1, <1>2 DEF BatchFollows, OldIsTakenOrLate
<1>5. JudgedOrLost'
  BY <1>1 DEF JudgedOrLost
<1>6. SigAskedOnce'
  BY <1>1 DEF SigAskedOnce
<1> QED BY <1>3, <1>4, <1>5, <1>6

(* An envelope is sent, late if it is dated before the last check, or      *)
(* queued.                                                                 *)
LEMMA SigWorldKeeps == ASSUME SigInv, NEW e \in Envelopes, Send(e) \/ Deliver(e) PROVE SigInv'
<1> USE DEF SigInv
<1>1. CASE Send(e)
  <2>1. PICK date \in {signow + 1 + skew : skew \in SigSkews} \cap (Nat \ {0}) :
           /\ sigsent' = [sigsent EXCEPT ![e] = date]
           /\ siglate' = IF date <= siglast THEN siglate \cup {e} ELSE siglate
    BY <1>1 DEF Send
  <2>2. /\ sigsent[e] = 0 /\ signow' = signow + 1 /\ sigsent'[e] = date /\ date \in Nat /\ date > 0
        /\ \A f \in Envelopes : f # e => sigsent'[f] = sigsent[f]
        /\ sigsent' \in [Envelopes -> Nat]
        /\ siglate \subseteq siglate' /\ (date <= siglast => e \in siglate')
        /\ UNCHANGED <<sigqueue, sigup, sigpc, sigbatch, sigseen, siglast, sigtaken, sigstart,
                       sigdropped, sigjudged, sigasked>>
    BY <1>1, <2>1 DEF Send, SigTypeOK, sigTask
  <2>3. Sent' = Sent \cup {e} /\ e \notin Sent
    BY <2>2 DEF Sent, SigTypeOK
  <2>4. SigTypeOK'
    <3>1. sigstart <= siglast' /\ siglast' <= signow' /\ signow' \in Nat
      BY <2>2 DEF SigTypeOK
    <3> QED BY <2>2, <2>3, <3>1 DEF SigTypeOK
  <2>5. BatchFollows'
    <3>1. \A f \in ToSet(sigbatch) : f \in Envelopes /\ f # e
      BY <2>3 DEF BatchFollows, Sent
    <3> QED BY <2>2, <2>3, <3>1 DEF BatchFollows
  <2>6. OldIsTakenOrLate'
    <3>1. e \in siglate' \/ sigsent'[e] > siglast
      BY <2>2 DEF SigTypeOK
    <3>2. \A f \in Sent' \ {e} : f \in Sent /\ sigsent'[f] = sigsent[f]
      BY <2>2, <2>3 DEF Sent
    <3> QED BY <2>2, <3>1, <3>2 DEF OldIsTakenOrLate
  <2>7. JudgedOrLost'
    BY <2>2 DEF JudgedOrLost
  <2>8. SigAskedOnce'
    <3>1. ~(sigsent[e] > sigstart)
      BY <2>2 DEF SigTypeOK
    <3>2. ~(sigasked[e] > 0)
      BY <3>1 DEF SigAskedOnce
    <3> QED BY <2>2, <3>2 DEF SigAskedOnce
  <2> QED BY <2>4, <2>5, <2>6, <2>7, <2>8
<1>2. CASE Deliver(e)
  <2>1. /\ sigqueue' = Append(sigqueue, e) /\ e \in Sent /\ Sent' = Sent
        /\ UNCHANGED <<signow, sigsent, sigup, sigpc, sigbatch, sigseen, siglast, sigtaken,
                       sigstart, siglate, sigdropped, sigjudged, sigasked>>
    BY <1>2 DEF Deliver, sigTask, sigHistory, Sent
  <2>2. sigqueue' \in Seq(Envelopes) /\ ToSet(sigqueue') = ToSet(sigqueue) \cup {e}
    <3>1. /\ sigqueue \in Seq(Envelopes) /\ sigqueue' \in Seq(Envelopes) /\ Len(sigqueue) \in Nat
          /\ Len(sigqueue') = Len(sigqueue) + 1
          /\ \A i \in 1 .. Len(sigqueue) : sigqueue'[i] = sigqueue[i]
          /\ sigqueue'[Len(sigqueue) + 1] = e
      BY <2>1, AppendProperties, LenProperties DEF SigTypeOK
    <3>2. DOMAIN sigqueue = 1 .. Len(sigqueue) /\ DOMAIN sigqueue' = 1 .. Len(sigqueue) + 1
      BY <3>1, LenProperties
    <3>3. 1 .. Len(sigqueue) + 1 = 1 .. Len(sigqueue) \cup {Len(sigqueue) + 1}
      BY <3>1
    <3> QED BY <3>1, <3>2, <3>3 DEF ToSet
  <2>3. SigTypeOK'
    BY <2>1, <2>2 DEF SigTypeOK
  <2>4. BatchFollows' /\ OldIsTakenOrLate' /\ JudgedOrLost' /\ SigAskedOnce'
    BY <2>1, <2>2 DEF BatchFollows, OldIsTakenOrLate, JudgedOrLost, SigAskedOnce
  <2> QED BY <2>3, <2>4
<1> QED BY <1>1, <1>2

(* A poll keeps what is relevant; the rest was late.                       *)
LEMMA ReceiveKeeps == ASSUME SigInv, Receive PROVE SigInv'
<1> USE DEF SigInv
<1>1. /\ sigup /\ sigpc = "poll" /\ sigpc' = "clock" /\ sigbatch' \in Kept
      /\ sigtaken' = sigtaken \cup ToSet(sigqueue) /\ sigqueue' = <<>> /\ Sent' = Sent
      /\ UNCHANGED <<signow, sigsent, sigup, sigseen, siglast, sigstart, siglate, sigdropped,
                     sigjudged, sigasked>>
  BY DEF Receive, Sent
<1>2. /\ sigbatch' \in Seq(Envelopes)
      /\ ToSet(sigbatch') = {e \in ToSet(sigqueue) : Relevant(e)}
  BY <1>1, KeptType
<1>3. <<>> \in Seq(Envelopes) /\ ToSet(<<>>) = {} /\ sigbatch = <<>>
  BY <1>1, EmptySeq DEF ToSet, BatchFollows
<1>4. SigTypeOK'
  BY <1>1, <1>2, <1>3 DEF SigTypeOK, BatchFollows
<1>5. BatchFollows'
  <2>1. \A e \in ToSet(sigbatch') : e \in ToSet(sigqueue) /\ sigsent[e] > siglast
    BY <1>2 DEF Relevant
  <2>2. \A e \in ToSet(sigbatch') : e \in Sent /\ sigsent[e] > sigstart
    BY <2>1 DEF BatchFollows, SigTypeOK, Sent
  <2> QED BY <1>1, <1>3, <2>2 DEF BatchFollows
<1>6. OldIsTakenOrLate'
  BY <1>1 DEF OldIsTakenOrLate
<1>7. JudgedOrLost'
  <2> SUFFICES ASSUME NEW e \in sigtaken' \cap Readable
               PROVE  e \in sigjudged \cup ToSet(sigbatch') \cup siglate \cup sigdropped
    BY <1>1 DEF JudgedOrLost
  <2>1. CASE e \in sigtaken
    BY <1>3, <2>1 DEF JudgedOrLost
  <2>2. CASE e \in ToSet(sigqueue) \ sigtaken
    <3>1. e \in siglate \/ sigsent[e] > siglast
      BY <2>2 DEF OldIsTakenOrLate, BatchFollows
    <3> QED BY <1>2, <2>2, <3>1 DEF Relevant
  <2> QED BY <1>1, <2>1, <2>2
<1>8. SigAskedOnce'
  BY <1>1 DEF SigAskedOnce
<1> QED BY <1>4, <1>5, <1>6, <1>7, <1>8

(* The clock is read: what was sent and not taken by now is late.          *)
LEMMA SigClockKeeps == ASSUME SigInv, SigReadClock PROVE SigInv'
<1> USE DEF SigInv
<1>1. /\ sigup /\ sigpc = "clock" /\ sigpc' = "next" /\ siglast' = signow
      /\ siglate' = siglate \cup (Sent \ sigtaken) /\ Sent' = Sent
      /\ UNCHANGED <<signow, sigsent, sigqueue, sigup, sigbatch, sigseen, sigtaken, sigstart,
                     sigdropped, sigjudged, sigasked>>
  BY DEF SigReadClock, sigWorld, Sent
<1>2. SigTypeOK'
  BY <1>1 DEF SigTypeOK
<1>3. BatchFollows' /\ OldIsTakenOrLate' /\ JudgedOrLost'
  BY <1>1 DEF BatchFollows, OldIsTakenOrLate, JudgedOrLost
<1>4. SigAskedOnce'
  BY <1>1 DEF SigAskedOnce
<1> QED BY <1>2, <1>3, <1>4

(* A message is remembered and judged; only one not remembered is asked    *)
(* about.                                                                  *)
LEMMA SigTakeKeeps == ASSUME SigInv, SigTake PROVE SigInv'
<1> USE DEF SigInv
<1> DEFINE e == Head(sigbatch)
<1>1. /\ sigup /\ sigpc = "next" /\ sigbatch # <<>> /\ Sent' = Sent
      /\ sigseen' = sigseen \cup {e} /\ sigjudged' = sigjudged \cup {e}
      /\ UNCHANGED <<signow, sigsent, sigqueue, sigup, siglast, sigtaken, sigstart, siglate,
                     sigdropped>>
  BY DEF SigTake, sigWorld, Sent
<1>2. /\ e \in Envelopes /\ Tail(sigbatch) \in Seq(Envelopes) /\ e \in ToSet(sigbatch)
      /\ ToSet(Tail(sigbatch)) \subseteq ToSet(sigbatch)
      /\ ToSet(sigbatch) \subseteq ToSet(Tail(sigbatch)) \cup {e}
  BY <1>1, TailSet DEF SigTypeOK
<1>3. \/ /\ e \notin sigseen /\ sigpc' = "ask" /\ sigbatch' = sigbatch
         /\ sigasked' = [sigasked EXCEPT ![e] = @ + 1]
      \/ /\ sigpc' = "next" /\ sigbatch' = Tail(sigbatch) /\ sigasked' = sigasked
  <2>1. PICK ask \in IF e \in sigseen THEN {FALSE} ELSE SigVerdicts(e) :
           /\ sigpc' = IF ask THEN "ask" ELSE sigpc
           /\ sigbatch' = IF ask THEN sigbatch ELSE Tail(sigbatch)
           /\ sigasked' = IF ask THEN [sigasked EXCEPT ![e] = @ + 1] ELSE sigasked
    BY DEF SigTake
  <2>2. CASE ask
    BY <2>1, <2>2
  <2>3. CASE ~ask
    BY <1>1, <2>1, <2>3
  <2> QED BY <2>2, <2>3
<1> HIDE DEF e
<1>4. SigTypeOK'
  <2>1. sigpc' \in {"next", "ask"} /\ sigbatch' \in Seq(Envelopes) /\ sigseen' \subseteq Envelopes
    BY <1>1, <1>2, <1>3 DEF SigTypeOK
  <2>2. sigasked' \in [Envelopes -> Nat]
    <3>1. CASE sigasked' = sigasked
      BY <3>1 DEF SigTypeOK
    <3>2. CASE sigasked' = [sigasked EXCEPT ![e] = @ + 1]
      BY <1>2, <3>2 DEF SigTypeOK
    <3> QED BY <1>3, <3>1, <3>2
  <2> QED BY <1>1, <2>1, <2>2 DEF SigTypeOK
<1>5. BatchFollows'
  BY <1>1, <1>2, <1>3 DEF BatchFollows, e
<1>6. OldIsTakenOrLate'
  BY <1>1 DEF OldIsTakenOrLate
<1>7. JudgedOrLost'
  BY <1>1, <1>2, <1>3 DEF JudgedOrLost
<1>8. SigAskedOnce'
  <2>1. CASE sigasked' = sigasked /\ ToSet(sigbatch') \subseteq ToSet(sigbatch)
    BY <1>1, <2>1 DEF SigAskedOnce
  <2>2. CASE /\ e \notin sigseen /\ sigbatch' = sigbatch
             /\ sigasked' = [sigasked EXCEPT ![e] = @ + 1]
    <3>1. sigasked[e] = 0
      BY <1>1, <1>2, <2>2 DEF SigAskedOnce, SigTypeOK
    <3>2. sigasked'[e] = 1 /\ \A f \in Envelopes : f # e => sigasked'[f] = sigasked[f]
      BY <1>2, <2>2, <3>1 DEF SigTypeOK
    <3> QED BY <1>1, <1>2, <2>2, <3>2 DEF SigAskedOnce, BatchFollows
  <2> QED BY <1>2, <1>3, <2>1, <2>2
<1> QED BY <1>4, <1>5, <1>6, <1>7, <1>8

(* A failed receive and a test take from the queue and drop what they took.*)
LEMMA DrainKeeps == ASSUME SigInv, ReceiveFails \/ TestReceives PROVE SigInv'
<1> USE DEF SigInv
<1>1. PICK n \in 0 .. Len(sigqueue) : Drains(n)
  <2>1. CASE TestReceives
    <3>1. Len(sigqueue) \in 0 .. Len(sigqueue)
      BY LenProperties DEF SigTypeOK
    <3> QED BY <2>1, <3>1 DEF TestReceives
  <2>2. CASE ReceiveFails
    BY <2>2 DEF ReceiveFails
  <2> QED BY <2>1, <2>2
<1>2. /\ UNCHANGED <<signow, sigsent, sigup, sigbatch, sigseen, siglast, sigstart, siglate,
                    sigjudged, sigasked>> /\ Sent' = Sent
      /\ \/ sigpc' = sigpc
         \/ sigpc = "poll" /\ sigpc' = "backoff"
  BY DEF ReceiveFails, TestReceives, sigTask, Sent
<1>3. PICK gone \in SUBSET ToSet(sigqueue) :
         /\ sigtaken' = sigtaken \cup gone /\ sigdropped' = sigdropped \cup gone
  <2> DEFINE gone == {sigqueue[i] : i \in 1 .. n}
  <2>1. gone \in SUBSET ToSet(sigqueue)
    <3>1. 1 .. n \subseteq DOMAIN sigqueue
      BY LenProperties DEF SigTypeOK
    <3> QED BY <3>1 DEF ToSet
  <2> QED BY <1>1, <2>1 DEF Drains
<1>4. sigqueue' \in Seq(Envelopes) /\ ToSet(sigqueue') \subseteq ToSet(sigqueue)
  <2> DEFINE rest == SubSeq(sigqueue, n + 1, Len(sigqueue))
  <2>1. sigqueue \in Seq(Envelopes) /\ Len(sigqueue) \in Nat /\ n \in Nat /\ n <= Len(sigqueue)
    BY LenProperties DEF SigTypeOK
  <2>2. sigqueue' = rest
    BY <1>1 DEF Drains
  <2>3. \A i \in (n + 1) .. Len(sigqueue) : sigqueue[i] \in Envelopes
    BY <2>1, ElementOfSeq
  <2>4. /\ rest \in Seq(Envelopes) /\ Len(rest) = Len(sigqueue) - n
        /\ \A i \in 1 .. Len(rest) : rest[i] = sigqueue[n + i]
    <3>1. CASE n + 1 <= Len(sigqueue)
      <4>1. Len(sigqueue) - (n + 1) + 1 = Len(sigqueue) - n
        BY <2>1
      <4>2. /\ rest \in Seq(Envelopes) /\ Len(rest) = Len(sigqueue) - (n + 1) + 1
            /\ \A i \in 1 .. Len(sigqueue) - (n + 1) + 1 : rest[i] = sigqueue[(n + 1) + i - 1]
        BY <2>1, <2>3, <3>1, SubSeqProperties
      <4>3. \A i \in 1 .. Len(sigqueue) - n : (n + 1) + i - 1 = n + i
        BY <2>1
      <4> QED BY <4>1, <4>2, <4>3
    <3>2. CASE n = Len(sigqueue)
      <4>1. rest = <<>>
        BY <2>1, <3>2
      <4> HIDE DEF rest
      <4>2. rest \in Seq(Envelopes) /\ Len(rest) = 0
        BY <4>1, EmptySeq
      <4> QED BY <2>1, <3>2, <4>2
    <3> QED BY <2>1, <3>1, <3>2
  <2> HIDE DEF rest
  <2>5. DOMAIN sigqueue = 1 .. Len(sigqueue) /\ DOMAIN rest = 1 .. Len(rest)
    BY <2>1, <2>4, LenProperties
  <2>6. \A i \in 1 .. Len(rest) : n + i \in 1 .. Len(sigqueue)
    BY <2>1, <2>4
  <2> QED BY <2>2, <2>4, <2>5, <2>6 DEF ToSet
<1>5. SigTypeOK' /\ BatchFollows'
  BY <1>2, <1>3, <1>4 DEF SigTypeOK, BatchFollows
<1>6. OldIsTakenOrLate' /\ JudgedOrLost' /\ SigAskedOnce'
  BY <1>2, <1>3 DEF OldIsTakenOrLate, JudgedOrLost, SigAskedOnce
<1> QED BY <1>5, <1>6

(* The other steps drop at most the message that was judged.               *)
LEMMA SigRestKeeps ==
    ASSUME SigInv,
           \/ SigBackoffEnds \/ SigBatchEnds \/ SigAskEnds \/ SigReplyEnds
           \/ UNCHANGED sigVars
    PROVE  SigInv'
<1> USE DEF SigInv
<1>1. /\ UNCHANGED <<signow, sigsent, sigqueue, sigup, sigseen, siglast, sigtaken, sigstart,
                     siglate, sigdropped, sigjudged, sigasked>> /\ Sent' = Sent
  BY DEF SigBackoffEnds, SigBatchEnds, SigAskEnds, SigReplyEnds, sigVars, sigWorld, sigTask,
         sigHistory, Sent
<1>2. \/ /\ sigbatch' = sigbatch
         /\ \/ sigpc' = sigpc
            \/ sigpc' = "poll" /\ sigbatch = <<>>
            \/ sigpc' = "reply" /\ sigpc = "ask"
      \/ /\ sigbatch' = Tail(sigbatch) /\ sigpc' = "next" /\ sigpc \in {"ask", "reply"} /\ sigup
  <2>1. CASE SigBackoffEnds
    BY <2>1 DEF SigBackoffEnds, BatchFollows
  <2>2. CASE SigBatchEnds
    BY <2>2 DEF SigBatchEnds
  <2>3. CASE SigAskEnds
    BY <2>3 DEF SigAskEnds
  <2>4. CASE SigReplyEnds
    BY <2>4 DEF SigReplyEnds
  <2>5. CASE UNCHANGED sigVars
    BY <2>5 DEF sigVars, sigTask
  <2> QED BY <2>1, <2>2, <2>3, <2>4, <2>5
<1>3. CASE sigbatch' = sigbatch
  <2>1. SigTypeOK' /\ BatchFollows'
    BY <1>1, <1>2, <1>3 DEF SigTypeOK, BatchFollows
  <2>2. OldIsTakenOrLate' /\ JudgedOrLost' /\ SigAskedOnce'
    BY <1>1, <1>3 DEF OldIsTakenOrLate, JudgedOrLost, SigAskedOnce
  <2> QED BY <2>1, <2>2
<1>4. CASE sigbatch' = Tail(sigbatch) /\ sigpc' = "next" /\ sigpc \in {"ask", "reply"} /\ sigup
  <2>1. sigbatch # <<>> /\ Head(sigbatch) \in sigjudged
    BY <1>4 DEF BatchFollows
  <2>2. /\ Tail(sigbatch) \in Seq(Envelopes)
        /\ ToSet(Tail(sigbatch)) \subseteq ToSet(sigbatch)
        /\ ToSet(sigbatch) \subseteq ToSet(Tail(sigbatch)) \cup {Head(sigbatch)}
    BY <2>1, TailSet DEF SigTypeOK
  <2>3. SigTypeOK' /\ BatchFollows'
    BY <1>1, <1>4, <2>2 DEF SigTypeOK, BatchFollows
  <2>4. OldIsTakenOrLate' /\ JudgedOrLost' /\ SigAskedOnce'
    BY <1>1, <1>4, <2>1, <2>2 DEF OldIsTakenOrLate, JudgedOrLost, SigAskedOnce
  <2> QED BY <2>3, <2>4
<1> QED BY <1>2, <1>3, <1>4

(* Every step of the plugin keeps its invariant.                           *)
LEMMA SigInvStep == SigInv /\ [SigNext]_sigVars => SigInv'
BY SigStartKeeps, SigStopKeeps, SigWorldKeeps, ReceiveKeeps, DrainKeeps, SigClockKeeps,
   SigTakeKeeps, SigRestKeeps DEF SigNext

(* It is what is promised of the envelopes taken.                          *)
LEMMA SigInvImplies == SigInv => TakenIsJudgedOnce
BY DEF SigInv, SigTypeOK, JudgedOrLost, SigAskedOnce, TakenIsJudgedOnce

-----------------------------------------------------------------------------
(* A step of Edges is a step or a stutter of each.                         *)
LEMMA EdgesSteps ==
    [EdgesNext]_edgeVars => /\ [GogNext]_gogVars
                            /\ [IMNext]_imVars
                            /\ [SigNext]_sigVars
                            /\ [PushNext]_pushVars
                            /\ [ProcessNext]_processVars
BY DEF EdgesNext, edgeVars

(* The composition starts each program in its initial state.               *)
LEMMA EdgesStarts == EdgesInit => GogInit /\ IMInit /\ SigInit /\ PushInit /\ ProcessInit
BY DEF EdgesInit

(* A background daemon that runs is the one in the pidfile, whatever was   *)
(* started, stopped or killed, as long as no two starts, or a start and a  *)
(* stop, overlapped: cmd_start and cmd_stop.                               *)
THEOREM DaemonIsInItsPidfile == EdgesSpec => []PidfileNamesDaemon
BY EdgesStarts, EdgesSteps, ProcessInvInit, ProcessInvStep, ProcessInvImplies, PTL
   DEF EdgesSpec

(* What the tasks hold of the rows is of subscriptions that were made, and *)
(* never newer than the rows are: list_push_devices and push_all.          *)
THEOREM TasksHoldOldRows == EdgesSpec => []RowsInv
BY EdgesStarts, EdgesSteps, RowsInvInit, RowsInvStep, PTL DEF EdgesSpec

(* Only the word of the push service makes the daemon forget, and what it  *)
(* forgets is as new as the subscription it asked about, or newer:         *)
(* record_outcome.                                                         *)
THEOREM OnlyTheGoneAreForgotten == EdgesSpec => ForgottenOnlyWhenGone
<1>1. RowsInv /\ [EdgesNext]_edgeVars =>
         [\A d \in Range(devices) :
             sub[d] # 0 /\ sub'[d] = 0 /\ d \in Range(devices')
             => \E j \in Jobs : /\ job[j].pc = "record" /\ job[j].todo # <<>>
                                /\ Head(job[j].todo).to = d
                                /\ job[j].outcome = "Gone"
                                /\ Head(job[j].todo).sub <= sub[d]]_pushVars
  BY EdgesSteps, ForgottenStep
<1> QED BY <1>1, TasksHoldOldRows, PTL DEF EdgesSpec, ForgottenOnlyWhenGone

(* A closing push that reached the phone's service replaces the banner:    *)
(* push_closed and phone-sw.js, for any number of phones, asks and tasks.  *)
THEOREM ClosedAsksStopAsking == EdgesSpec => []BannerIsReplaced
BY EdgesStarts, EdgesSteps, TasksHoldOldRows, BannerInvInit, BannerInvStep, BannerInvImplies, PTL
   DEF EdgesSpec

(* The iMessage task that reads the database loses a message of its run    *)
(* only if the row could not be converted, was inserted between a query    *)
(* and the reading of the clock, or came with a date that last_check had   *)
(* passed: fetch_new_messages and db_poller_task, for any messages and any *)
(* dates.                                                                  *)
THEOREM IMessagesAreLostForAReason == EdgesSpec => []LostForAReason
<1>1. IMInv => LostForAReason
  BY IMInvImplies
<1> QED BY <1>1, EdgesStarts, EdgesSteps, IMInvInit, IMInvStep, PTL DEF EdgesSpec

(* Each task of the iMessage plugin, by itself, asks only about a question *)
(* that is dated no earlier than the start and is not the human's own, and *)
(* once only about the same words of one contact: the cache and the start  *)
(* time of db_poller_task and notification_observer_task.                  *)
THEOREM IMessageAsksAreDue == EdgesSpec => []AsksAreDue
<1>1. IMInv => AsksAreDue
  BY IMInvImplies
<1> QED BY <1>1, EdgesStarts, EdgesSteps, IMInvInit, IMInvStep, PTL DEF EdgesSpec

(* No task of the gog plugin answers a message twice in a run; and a mail  *)
(* is answered in one run, and in one more at most for each reply after    *)
(* which it was not marked as read and each time it turned unread again:   *)
(* for any lists of profiles, with repetitions, any mails and any starts.  *)
THEOREM MailIsAnsweredInOneRun == EdgesSpec => []AnsweredInOneRun
BY EdgesStarts, EdgesSteps, GogInvInit, GogInvStep, GogInvImplies, PTL DEF EdgesSpec

(* The Signal poll judges every message it took whose line can be read,    *)
(* but for what was on its way when last_check was set or is dated before  *)
(* it, what a stopped run had in memory, and what a failed receive or a    *)
(* test took; and a run asks about none twice, nor about what is dated     *)
(* before its start: the poll loop of the signal plugin, for any envelopes *)
(* and any clocks of their senders.                                        *)
THEOREM TakenIsJudged == EdgesSpec => []TakenIsJudgedOnce
BY EdgesStarts, EdgesSteps, SigInvInit, SigInvStep, SigInvImplies, PTL DEF EdgesSpec
=============================================================================
