------------------------- MODULE BlockingClient_proofs -------------------------
(***************************************************************************)
(* How a blocking wait ends, for any number of clients and any times.      *)
(***************************************************************************)
EXTENDS BlockingClient, TLAPS

States == {"new", "request", "pause", "register", "parked", "expired", "reread", "mark", "ended"}
Outcomes == {"answered", "closed"}
Results == {"none", "refused", "failed", "posted", "answered", "closed", "timed_out", "gave_up"}

ClientTypeOK ==
    /\ row \in {"none", "norow", "open", "marked"} \cup Outcomes
    /\ due \in Nat \cup {None}
    /\ checked \subseteq Outcomes /\ waking \subseteq Outcomes
    /\ waiter \in Clients \cup {None}
    /\ cpc \in [Clients -> States]
    /\ result \in [Clients -> Results]
    /\ left \in [Clients -> 0 .. MaxWait]
    /\ held \in [Clients -> 0 .. MaxWait]
    /\ spent \in [Clients -> 0 .. Budget]

(* What a wait may be told, by the row or by a handler, the tables held.   *)
ToldIsShown == waking \subseteq shown /\ (row \in Outcomes => row \in shown)

(* A wait that is held runs down to the ceiling or beyond the deadline.    *)
RunsDown(c) == left[c] + held[c] = MaxWait \/ (due \in Nat /\ due <= left[c])

HeldToTheEnd ==
    \A c \in Clients :
        /\ cpc[c] = "parked" => RunsDown(c)
        /\ cpc[c] \in {"expired", "reread", "mark"} => due = 0 \/ held[c] = MaxWait

(* The deadline is fixed when the row is made.                             *)
WaitsForARow ==
    \A c \in Clients :
        cpc[c] \notin {"new", "ended"} \/ result[c] = "timed_out" => row # "none"

(* Only the end has a result, and nothing follows it.                      *)
EndsOnce == \A c \in Clients : cpc[c] # "ended" => result[c] = "none"

ClientInv == /\ ClientTypeOK /\ ToldIsShown /\ HeldToTheEnd /\ WaitsForARow
             /\ EndsOnce /\ EndsForAReason

(* At the start no client has called and no daemon holds a wait.           *)
LEMMA ClientInvInit == ClientInit => ClientInv
BY ClientAssumption
   DEF ClientInit, ClientInv, ClientTypeOK, ToldIsShown, HeldToTheEnd, WaitsForARow,
       EndsOnce, EndsForAReason, States, Results, Outcomes

(* The steps of a client that disturb no other.                            *)
LEMMA AskKeeps ==
    ASSUME ClientInv, NEW c \in Clients, Ask(c) \/ Wait(c)
    PROVE  ClientInv'
<1> USE ClientAssumption DEF ClientInv
<1>1. cpc[c] = "new"
  BY DEF Ask, Wait
<1>2. /\ cpc' \in [Clients -> States] /\ result' \in [Clients -> Results]
      /\ \A d \in Clients : d # c => cpc'[d] = cpc[d] /\ result'[d] = result[d]
      /\ cpc'[c] \in {"request", "ended"}
      /\ result'[c] \in {result[c], "refused", "failed", "posted"}
  BY DEF Ask, Wait, End, ClientTypeOK, States, Results
<1>3. /\ row # "none" => row' = row /\ due' = due
      /\ row' \in {row, "open", "norow"} /\ due' \in Nat \cup {None}
      /\ cpc'[c] = "request" => row' # "none"
      /\ row # "none" => row' # "none"
  BY DEF Ask, Wait, End, askVars, timers, ClientTypeOK
<1>4. UNCHANGED <<checked, waking, shown, waiter, left, spent, held>>
  BY DEF Ask, Wait, askVars, timers
<1>5. ClientTypeOK'
  BY <1>2, <1>3, <1>4 DEF ClientTypeOK
<1>6. ToldIsShown'
  BY <1>3, <1>4 DEF ToldIsShown, Outcomes
<1>7. HeldToTheEnd'
  BY <1>1, <1>2, <1>3, <1>4 DEF HeldToTheEnd, WaitsForARow, RunsDown
<1>8. WaitsForARow'
  BY <1>1, <1>2, <1>3 DEF WaitsForARow
<1>9. EndsForAReason'
  BY <1>2, <1>3, <1>4 DEF EndsForAReason, WaitsForARow
<1>10. EndsOnce'
  BY <1>1, <1>2 DEF EndsOnce, Ask, Wait, End, ClientTypeOK
<1> QED BY <1>5, <1>6, <1>7, <1>8, <1>9, <1>10

(* A poll that is refused, repeated, answered at once or over keeps the    *)
(* invariant, and so does the mark of a wait that timed out.               *)
LEMMA RequestKeeps ==
    ASSUME ClientInv, NEW c \in Clients,
           \/ Refused(c) \/ Retry(c) \/ Check(c) \/ TimeIsOver(c)
           \/ Reread(c) \/ Mark(c)
    PROVE  ClientInv'
<1> USE ClientAssumption DEF ClientInv
<1>1. /\ UNCHANGED <<due, checked, waking, shown, waiter, left, spent, held>>
      /\ row' = row \/ (row' = "marked" /\ cpc[c] = "mark")
  BY DEF Refused, Retry, Check, TimeIsOver, Reread, Mark, askVars, timers
<1>2. /\ cpc' \in [Clients -> States] /\ result' \in [Clients -> Results]
      /\ \A d \in Clients : d # c => cpc'[d] = cpc[d] /\ result'[d] = result[d]
  <2>1. CASE Refused(c)
    BY <2>1 DEF Refused, Interrupted, ClientTypeOK, States, Results
  <2>2. CASE Retry(c) \/ TimeIsOver(c)
    BY <2>2 DEF Retry, TimeIsOver, ClientTypeOK, States, Results
  <2>3. CASE Check(c) \/ Reread(c) \/ Mark(c)
    BY <2>3 DEF Check, Reread, Mark, ReplyTimedOut, End, ClientTypeOK, States, Results
  <2> QED BY <2>1, <2>2, <2>3
<1>3. /\ cpc[c] \notin {"new", "ended"} /\ cpc'[c] # "parked"
      /\ cpc'[c] \in {"expired", "reread", "mark"} =>
            \/ cpc[c] = "parked" /\ left[c] = 0
            \/ cpc[c] = "reread"
  BY DEF Refused, Interrupted, Retry, Check, End, TimeIsOver, Reread, Mark, ReplyTimedOut,
         ClientTypeOK
<1>4. \/ result'[c] = result[c]
      \/ cpc'[c] = "ended" /\ result'[c] = "failed"
      \/ cpc'[c] = "ended" /\ result'[c] \in Outcomes /\ row = result'[c]
      \/ cpc'[c] = "ended" /\ result'[c] = "timed_out" /\ cpc[c] \in {"reread", "mark"}
      \/ cpc'[c] = "ended" /\ result'[c] = "gave_up" /\ spent[c] >= Budget
  <2>1. CASE Refused(c)
    BY <2>1 DEF Refused, Interrupted, ClientTypeOK
  <2>2. CASE Retry(c) \/ TimeIsOver(c)
    BY <2>2 DEF Retry, TimeIsOver
  <2>3. CASE Check(c)
    BY <2>3 DEF Check, End, Outcomes, ClientTypeOK
  <2>4. CASE Reread(c) \/ Mark(c)
    BY <2>4 DEF Reread, Mark, ReplyTimedOut, End, ClientTypeOK
  <2> QED BY <2>1, <2>2, <2>3, <2>4
<1>5. ClientTypeOK' /\ ToldIsShown'
  BY <1>1, <1>2 DEF ClientTypeOK, ToldIsShown, Outcomes
<1>6. left[c] = 0 /\ RunsDown(c) => due = 0 \/ held[c] = MaxWait
  BY DEF RunsDown, ClientTypeOK
<1>7. HeldToTheEnd'
  BY <1>1, <1>2, <1>3, <1>6 DEF HeldToTheEnd, RunsDown
<1>8. WaitsForARow'
  BY <1>1, <1>2, <1>3 DEF WaitsForARow
<1>9. EndsForAReason'
  <2>1. spent[c] \in 0 .. Budget
    BY DEF ClientTypeOK
  <2>2. result'[c] = "gave_up" => spent[c] = Budget
    BY <1>4, <2>1 DEF EndsForAReason, Outcomes
  <2>3. result'[c] = "timed_out" => due = 0 \/ held[c] = MaxWait
    BY <1>4 DEF EndsForAReason, HeldToTheEnd, Outcomes
  <2>4. result'[c] \in Outcomes => result'[c] \in shown
    BY <1>4 DEF EndsForAReason, ToldIsShown, Outcomes
  <2> QED BY <1>1, <1>2, <2>2, <2>3, <2>4 DEF EndsForAReason, Outcomes
<1>10. EndsOnce'
  BY <1>2, <1>3, <1>4 DEF EndsOnce
<1> QED BY <1>5, <1>7, <1>8, <1>9, <1>10

(* A wait is registered or removed, which may interrupt another.           *)
LEMMA DisplaceKeeps ==
    ASSUME ClientInv, NEW c \in Clients, Register(c) \/ RemoveEntry(c)
    PROVE  ClientInv'
<1> USE ClientAssumption DEF ClientInv
<1>1. /\ UNCHANGED <<row, due, checked, waking, shown, spent>>
      /\ waiter' \in {c, None}
      /\ \A d \in Clients : d # c => left'[d] = left[d] /\ held'[d] = held[d]
  BY DEF Register, RemoveEntry, askVars, timers, ClientTypeOK
<1>2. /\ cpc' \in [Clients -> States] /\ result' \in [Clients -> Results]
      /\ result'[c] = result[c] /\ cpc[c] \notin {"new", "ended"}
      /\ \A d \in Clients : d # c =>
            \/ cpc'[d] = cpc[d] /\ result'[d] = result[d]
            \/ /\ cpc[d] = "parked"
               /\ \/ cpc'[d] = "ended" /\ result'[d] = "gave_up" /\ spent[d] >= Budget
                  \/ cpc'[d] = "pause" /\ result'[d] = result[d]
  BY DEF Register, RemoveEntry, Displaces, ClientTypeOK, States, Results
<1>3. HoldFor \in 0 .. MaxWait /\ (HoldFor = MaxWait \/ (due \in Nat /\ due <= HoldFor))
  BY DEF HoldFor, Upto, ClientTypeOK
<1>4. /\ left' \in [Clients -> 0 .. MaxWait] /\ held' \in [Clients -> 0 .. MaxWait]
      /\ cpc'[c] = "parked" => left'[c] \in {HoldFor, MaxWait} /\ held'[c] = 0
      /\ cpc'[c] \in {"expired", "reread", "mark"} => cpc[c] = "expired" /\ held'[c] = held[c]
      /\ cpc'[c] \in {"parked", "reread"}
  BY <1>3 DEF Register, RemoveEntry, Displaces, timers, ClientTypeOK
<1>5. ClientTypeOK' /\ ToldIsShown'
  BY <1>1, <1>2, <1>4 DEF ClientTypeOK, ToldIsShown
<1>6. HeldToTheEnd'
  <2>1. ASSUME NEW d \in Clients, cpc'[d] = "parked"
        PROVE  RunsDown(d)'
    BY <1>1, <1>2, <1>3, <1>4, <2>1 DEF HeldToTheEnd, RunsDown
  <2>2. ASSUME NEW d \in Clients, cpc'[d] \in {"expired", "reread", "mark"}
        PROVE  due' = 0 \/ held'[d] = MaxWait
    BY <1>1, <1>2, <1>4, <2>2 DEF HeldToTheEnd
  <2> QED BY <2>1, <2>2 DEF HeldToTheEnd
<1>7. WaitsForARow'
  BY <1>1, <1>2 DEF WaitsForARow
<1>8. EndsOnce'
  BY <1>2, <1>4 DEF EndsOnce
<1>9. EndsForAReason'
  <2>1. result[c] = "none" /\ \A d \in Clients : spent[d] \in 0 .. Budget
    BY <1>2 DEF EndsOnce, ClientTypeOK
  <2> QED BY <1>1, <1>2, <2>1 DEF EndsForAReason
<1> QED BY <1>5, <1>6, <1>7, <1>8, <1>9

(* Requests are admitted, write the row and tell the waiter.               *)
LEMMA CloseKeeps ==
    ASSUME ClientInv, NEW outcome \in Outcomes,
           Admit(outcome) \/ Close(outcome) \/ Grant \/ Wake(outcome)
    PROVE  ClientInv'
<1> USE ClientAssumption DEF ClientInv
<1>1. CASE Admit(outcome) \/ Close(outcome) \/ Grant
  <2>1. /\ UNCHANGED <<due, waiter, cpc, left, spent, held, result>>
        /\ shown \subseteq shown' /\ checked' \subseteq Outcomes
        /\ waking' \subseteq Outcomes /\ waking' \subseteq shown'
        /\ row' = row \/ row' \in Outcomes \cap shown'
    BY <1>1 DEF Admit, Close, Grant, timers, ClientTypeOK, ToldIsShown, Outcomes
  <2>2. ClientTypeOK' /\ ToldIsShown'
    BY <2>1 DEF ClientTypeOK, ToldIsShown
  <2>3. HeldToTheEnd' /\ WaitsForARow' /\ EndsOnce' /\ EndsForAReason'
    BY <2>1 DEF HeldToTheEnd, WaitsForARow, EndsOnce, EndsForAReason, RunsDown, Outcomes
  <2> QED BY <2>2, <2>3
<1>2. CASE Wake(outcome)
  <2>1. /\ UNCHANGED <<row, due, checked, shown, left, spent, held>>
        /\ waking' \subseteq waking /\ waiter' = None /\ outcome \in shown
    BY <1>2 DEF Wake, timers, ToldIsShown
  <2>2. CASE UNCHANGED <<cpc, result>>
    BY <2>1, <2>2 DEF ClientTypeOK, ToldIsShown, HeldToTheEnd, WaitsForARow, EndsOnce,
                      EndsForAReason, RunsDown
  <2>3. CASE waiter \in Clients /\ cpc[waiter] = "parked"
             /\ (End(waiter, outcome) \/ End(waiter, "failed"))
    <3> DEFINE c == waiter
    <3>1. /\ cpc' \in [Clients -> States] /\ result' \in [Clients -> Results]
          /\ \A d \in Clients : d # c => cpc'[d] = cpc[d] /\ result'[d] = result[d]
          /\ cpc'[c] = "ended" /\ result'[c] \in {outcome, "failed"}
      BY <2>3 DEF End, ClientTypeOK, States, Results, Outcomes
    <3>2. outcome \in {"answered", "closed"}
      BY DEF Outcomes
    <3>3. ClientTypeOK' /\ ToldIsShown'
      BY <2>1, <3>1 DEF ClientTypeOK, ToldIsShown
    <3>4. HeldToTheEnd' /\ WaitsForARow' /\ EndsOnce'
      BY <2>1, <3>1, <3>2 DEF HeldToTheEnd, WaitsForARow, EndsOnce, RunsDown
    <3>5. EndsForAReason'
      BY <2>1, <3>1, <3>2 DEF EndsForAReason
    <3> QED BY <3>3, <3>4, <3>5
  <2> QED BY <1>2, <2>2, <2>3 DEF Wake, ClientTypeOK
<1> QED BY <1>1, <1>2

(* Time passes: what is left goes to what was held.                        *)
LEMMA TickKeeps ==
    ASSUME ClientInv, Tick
    PROVE  ClientInv'
<1> USE ClientAssumption DEF ClientInv
<1>1. UNCHANGED <<up, row, checked, waking, shown, waiter, cpc, result>>
  BY DEF Tick, askVars
<1>2. /\ due' \in Nat \cup {None}
      /\ due = 0 => due' = 0
      /\ \A n \in Nat : due \in Nat /\ due <= n =>
            due' \in Nat /\ due' <= (IF n = 0 THEN 0 ELSE n - 1)
  BY DEF Tick, ClientTypeOK
<1>3. ASSUME NEW c \in Clients
      PROVE  /\ left'[c] = (IF left[c] = 0 THEN 0 ELSE left[c] - 1)
             /\ held'[c] = (IF cpc[c] = "parked" THEN Upto(held[c] + 1, MaxWait) ELSE held[c])
             /\ spent'[c] = (IF cpc[c] \in {"new", "ended"} THEN spent[c]
                             ELSE Upto(spent[c] + 1, Budget))
             /\ left[c] \in 0 .. MaxWait /\ held[c] \in 0 .. MaxWait /\ spent[c] \in 0 .. Budget
  BY DEF Tick, ClientTypeOK
<1>4. ASSUME NEW c \in Clients
      PROVE  /\ left'[c] \in 0 .. MaxWait /\ held'[c] \in 0 .. MaxWait
             /\ spent'[c] \in 0 .. Budget
             /\ held[c] = MaxWait => held'[c] = MaxWait
  BY <1>3 DEF Upto
<1>5. ClientTypeOK'
  <2>1. /\ left' \in [Clients -> 0 .. MaxWait] /\ held' \in [Clients -> 0 .. MaxWait]
        /\ spent' \in [Clients -> 0 .. Budget]
    BY <1>4 DEF Tick
  <2> QED BY <1>1, <1>2, <2>1 DEF ClientTypeOK
<1>6. ASSUME NEW c \in Clients, cpc[c] = "parked", RunsDown(c)
      PROVE  RunsDown(c)'
  <2>1. CASE left[c] + held[c] = MaxWait
    BY <1>3, <1>6, <2>1 DEF RunsDown, Upto
  <2>2. CASE due \in Nat /\ due <= left[c]
    BY <1>2, <1>3, <2>2 DEF RunsDown
  <2> QED BY <1>6, <2>1, <2>2 DEF RunsDown
<1>7. HeldToTheEnd'
  BY <1>1, <1>2, <1>4, <1>6 DEF HeldToTheEnd
<1>8. ToldIsShown' /\ WaitsForARow' /\ EndsOnce'
  BY <1>1 DEF ToldIsShown, WaitsForARow, EndsOnce
<1>9. EndsForAReason'
  <2>1. \A c \in Clients : result[c] = "gave_up" => spent'[c] = spent[c]
    BY <1>3 DEF EndsOnce
  <2>2. \A c \in Clients : result[c] = "timed_out" => due' = 0 \/ held'[c] = MaxWait
    BY <1>2, <1>4 DEF EndsForAReason
  <2> QED BY <1>1, <2>1, <2>2 DEF EndsForAReason
<1> QED BY <1>5, <1>7, <1>8, <1>9

(* Starts and crashes of the daemon keep the invariant.                    *)
LEMMA DaemonKeeps ==
    ASSUME ClientInv, DaemonComes \/ DaemonGoes
    PROVE  ClientInv'
<1> USE ClientAssumption DEF ClientInv
<1>1. /\ UNCHANGED <<row, shown, due, left, spent, held>>
      /\ checked' \subseteq checked /\ waking' \subseteq waking /\ waiter' \in {None, waiter}
  BY DEF DaemonComes, DaemonGoes, askVars, timers, ClientTypeOK
<1>2. /\ cpc' \in [Clients -> States] /\ result' \in [Clients -> Results]
      /\ \A d \in Clients :
            \/ cpc'[d] = cpc[d] /\ result'[d] = result[d]
            \/ /\ cpc[d] \in {"register", "parked", "expired", "reread", "mark"}
               /\ \/ cpc'[d] = "ended" /\ result'[d] = "gave_up" /\ spent[d] >= Budget
                  \/ cpc'[d] = "pause" /\ result'[d] = result[d]
  BY DEF DaemonComes, DaemonGoes, Interrupted, ClientTypeOK, States, Results
<1>3. ClientTypeOK' /\ ToldIsShown'
  BY <1>1, <1>2 DEF ClientTypeOK, ToldIsShown
<1>4. HeldToTheEnd' /\ WaitsForARow' /\ EndsOnce'
  BY <1>1, <1>2 DEF HeldToTheEnd, WaitsForARow, EndsOnce, RunsDown
<1>5. EndsForAReason'
  <2>1. \A d \in Clients : spent[d] \in 0 .. Budget
    BY DEF ClientTypeOK
  <2> QED BY <1>1, <1>2, <2>1 DEF EndsForAReason
<1> QED BY <1>3, <1>4, <1>5

(* Every step of clients, daemon and clock keeps the invariant.            *)
LEMMA ClientInvStep == ClientInv /\ [ClientNext]_vars => ClientInv'
<1> SUFFICES ASSUME ClientInv, [ClientNext]_vars PROVE ClientInv'
  OBVIOUS
<1>1. CASE UNCHANGED vars
  BY <1>1 DEF vars, askVars, timers, ClientInv, ClientTypeOK, ToldIsShown, HeldToTheEnd,
              WaitsForARow, EndsOnce, EndsForAReason, RunsDown
<1> QED BY <1>1, AskKeeps, RequestKeeps, DisplaceKeeps, CloseKeeps, TickKeeps, DaemonKeeps
        DEF ClientNext, Outcomes

(* Whatever the daemons, the other clients and the clock do, a wait ends   *)
(* with what the tables held, past its deadline or the ceiling, or with    *)
(* its budget used up: cmd_wait and wait_for_answer together.              *)
THEOREM WaitsEndForAReason == ClientSpec => []EndsForAReason
<1>1. ClientInv => EndsForAReason
  BY DEF ClientInv
<1> QED BY <1>1, ClientInvInit, ClientInvStep, PTL DEF ClientSpec
=============================================================================
