--------------------------- MODULE AskIntake_proofs ---------------------------
(***************************************************************************)
(* The idempotency key and the approvals of POST /ask, what its rules make *)
(* of an ask and what POST /rules stores of them, for any number of        *)
(* requests and creations, any rules and any router.                       *)
(***************************************************************************)
EXTENDS AskIntake, FiniteSetTheorems, WellFoundedInduction, TLAPS

(* An ask that a handler holds, before and after it was checked.           *)
Asked(r) == ask[r] \in Asks

Checked(r) ==
    /\ DOMAIN ask[r] = AskFields
    /\ ask[r].key \in {a.key : a \in Asks}
    /\ ask[r].kind \in {"ack"} \cup {a.kind : a \in Asks} \cup {s[1] : s \in Suggestions}
    /\ ask[r].ttl \in Int \cup {None} /\ ask[r].once \in BOOLEAN \cup {None}
    /\ ask[r].at \in Nat
    /\ ask[r].asked = "approval" => ask[r].kind = "approval" /\ ask[r].ttl # None
    /\ ask[r].asked # "approval" => ask[r].kind # "approval" /\ ask[r].once = None

(* A row is of a request that is over, and says what the request asked.    *)
RowIsOf(r) ==
    /\ apc[r] = "ok" /\ reply[r] = r
    /\ card[r].key = ask[r].key /\ card[r].kind = ask[r].kind /\ card[r].ttl = ask[r].ttl
    /\ card[r].once = ask[r].once /\ card[r].at \in Nat

(* The rows that were there before it, when it looked, were a day old.     *)
LookedUp(r) ==
    \A q \in earlier[r] :
        /\ card[q] # None /\ looked[r] # None
        /\ looked[r].failed \/ card[q].at + Window <= looked[r].at

Intake(r) ==
    /\ apc[r] \in {"lookup", "prepare"} => Asked(r)
    /\ apc[r] \in {"rules", "store"} => Checked(r)
    /\ apc[r] = "store" /\ ask[r].kind = "approval" => verdict[r].auto = None
    /\ card[r] # None => RowIsOf(r) /\ Checked(r)
    /\ earlier[r] \subseteq Requests
    /\ apc[r] = "lookup" => \A q \in earlier[r] : card[q] # None /\ card[q].key = ask[r].key
    /\ apc[r] \in {"prepare", "rules", "store"} \/ card[r] # None => LookedUp(r)
    /\ reply[r] # None => apc[r] = "ok"
    /\ reply[r] \notin {r, None} => /\ reply[r] \in Requests /\ card[reply[r]] # None
                                    /\ card[reply[r]].key = ask[r].key
    /\ reply[r] = r => Checked(r) /\ (ask[r].kind = "approval" => card[r] # None)

IntakeShape ==
    /\ now \in Nat
    /\ DOMAIN apc = Requests /\ DOMAIN ask = Requests /\ DOMAIN verdict = Requests
    /\ DOMAIN card = Requests /\ DOMAIN reply = Requests /\ DOMAIN earlier = Requests
    /\ DOMAIN looked = Requests

IntakeInv == IntakeShape /\ \A r \in Requests : Intake(r)

(* At the start no request has arrived and no card is stored.              *)
LEMMA IntakeInvInit == IntakeInit => IntakeInv
BY IntakeAssumption
   DEF IntakeInit, IntakeInv, IntakeShape, Intake, LookedUp, Asked, Checked, RowIsOf

(* What happens to one request leaves what is known of another as it is,   *)
(* as no row is changed.                                                   *)
LEMMA OthersKeep ==
    ASSUME IntakeInv, NEW r \in Requests, NEW q \in Requests, q # r,
           apc'[q] = apc[q], ask'[q] = ask[q], verdict'[q] = verdict[q], card'[q] = card[q],
           reply'[q] = reply[q], earlier'[q] = earlier[q], looked'[q] = looked[q],
           \A p \in Requests : card[p] # None => card'[p] = card[p]
    PROVE  Intake(q)'
<1>1. Intake(q)
  BY DEF IntakeInv
<1>2. LookedUp(q) => LookedUp(q)'
  BY <1>1 DEF LookedUp, Intake
<1>3. Checked(q)' <=> Checked(q)
  BY DEF Checked
<1>4. Asked(q)' <=> Asked(q)
  BY DEF Asked
<1>5. RowIsOf(q)' <=> RowIsOf(q)
  BY DEF RowIsOf
<1> QED BY <1>1, <1>2, <1>3, <1>4, <1>5 DEF Intake

(* Rules and the clock are no part of it.                                  *)
LEMMA FrameKeeps ==
    ASSUME IntakeInv, UNCHANGED askVars, now' \in Nat
    PROVE  IntakeInv'
<1>1. UNCHANGED <<apc, ask, verdict, card, reply, earlier, looked>>
  BY DEF askVars
<1>2. IntakeShape'
  BY <1>1 DEF IntakeInv, IntakeShape
<1>3. \A r \in Requests : Intake(r)'
  BY <1>1 DEF IntakeInv, Intake, LookedUp, Asked, Checked, RowIsOf
<1> QED BY <1>2, <1>3 DEF IntakeInv

(* A request that arrives (POST /ask) finds the cards stored before it.    *)
LEMMA ArrivesKeeps ==
    ASSUME IntakeInv, NEW r \in Requests, NEW a \in Asks, AskArrives(r, a)
    PROVE  IntakeInv'
<1>1. /\ UNCHANGED <<now, verdict, card, reply, looked>> /\ apc[r] = "idle"
      /\ apc'[r] = (IF a.key = None THEN "prepare" ELSE "lookup")
      /\ ask'[r] = a
      /\ earlier'[r] = (IF a.key = None THEN {}
                        ELSE {q \in Requests : card[q] # None /\ ask[q].key = a.key})
      /\ \A q \in Requests : q # r =>
            apc'[q] = apc[q] /\ ask'[q] = ask[q] /\ earlier'[q] = earlier[q]
      /\ IntakeShape'
  BY DEF AskArrives, IntakeInv, IntakeShape
<1>2. \A q \in Requests : q # r => Intake(q)'
  BY <1>1, OthersKeep
<1>3. Intake(r)'
  <2>1. card[r] = None /\ reply[r] = None
    BY <1>1 DEF IntakeInv, Intake, RowIsOf
  <2>2. \A q \in Requests : card[q] # None => card[q].key = ask[q].key /\ q # r
    BY <2>1 DEF IntakeInv, Intake, RowIsOf
  <2>3. LookedUp(r)' \/ apc'[r] = "lookup"
    BY <1>1 DEF LookedUp
  <2> QED BY <1>1, <2>1, <2>2, <2>3, IntakeAssumption DEF Intake, Asked
<1> QED BY <1>1, <1>2, <1>3 DEF IntakeInv

(* The lookup finds a row, or none of the last day, or fails.              *)
LEMMA LookupKeeps ==
    ASSUME IntakeInv, NEW r \in Requests, LookupKey(r) \/ LookupFails(r)
    PROVE  IntakeInv'
<1>1. /\ UNCHANGED <<now, ask, verdict, card, earlier>> /\ apc[r] = "lookup"
      /\ \A q \in Requests : q # r =>
            apc'[q] = apc[q] /\ reply'[q] = reply[q] /\ looked'[q] = looked[q]
      /\ IntakeShape'
  BY DEF LookupKey, LookupFails, IntakeInv, IntakeShape
<1>2. \A q \in Requests : q # r => Intake(q)'
  BY <1>1, OthersKeep
<1>3. /\ Asked(r) /\ card[r] = None /\ reply[r] = None /\ earlier[r] \subseteq Requests
      /\ \A q \in earlier[r] : card[q] # None /\ card[q].key = ask[r].key
  BY <1>1 DEF IntakeInv, Intake, RowIsOf
<1>4. Asked(r)'
  BY <1>1, <1>3 DEF Asked
<1>5. CASE LookupFails(r)
  <2>1. looked'[r] = [failed |-> TRUE, at |-> now] /\ apc'[r] = "prepare" /\ reply' = reply
    BY <1>5 DEF LookupFails, IntakeInv, IntakeShape
  <2>2. looked'[r] \in Looks /\ looked'[r].failed
    BY <2>1 DEF Looks, IntakeInv, IntakeShape
  <2>3. LookedUp(r)'
    BY <1>1, <1>3, <2>2, IntakeAssumption DEF LookedUp
  <2>4. Intake(r)'
    BY <1>1, <1>3, <1>4, <2>1, <2>3, IntakeAssumption DEF Intake
  <2> QED BY <1>1, <1>2, <2>4 DEF IntakeInv
<1>6. ASSUME NEW q \in RecentCards(ask[r].key), reply' = [reply EXCEPT ![r] = q],
             apc' = [apc EXCEPT ![r] = "ok"]
      PROVE  IntakeInv'
  <2>1. q \in Requests /\ card[q] # None /\ card[q].key = ask[r].key
    BY <1>6 DEF RecentCards, SameKey
  <2>2. q # r /\ apc'[r] = "ok" /\ reply'[r] = q
    BY <1>3, <1>6, <2>1 DEF IntakeInv, IntakeShape
  <2>3. Intake(r)'
    BY <1>1, <1>3, <2>1, <2>2 DEF Intake
  <2> QED BY <1>1, <1>2, <2>3 DEF IntakeInv
<1>7. ASSUME RecentCards(ask[r].key) = {}, apc' = [apc EXCEPT ![r] = "prepare"],
             looked' = [looked EXCEPT ![r] = [failed |-> FALSE, at |-> now]], reply' = reply
      PROVE  IntakeInv'
  <2>1. /\ looked'[r] = [failed |-> FALSE, at |-> now] /\ apc'[r] = "prepare"
        /\ now \in Nat
    BY <1>7 DEF IntakeInv, IntakeShape
  <2>2. looked'[r] \in Looks /\ looked'[r].at = now
    BY <2>1 DEF Looks
  <2>3. \A q \in earlier[r] : card[q].at + Window <= now
    <3>1. \A q \in earlier[r] : ~(card[q].at > now - Window)
      BY <1>3, <1>7 DEF RecentCards, SameKey
    <3>2. \A q \in earlier[r] : card[q].at \in Nat
      BY <1>3 DEF IntakeInv, Intake, RowIsOf
    <3> QED BY <2>1, <3>1, <3>2, IntakeAssumption
  <2>4. LookedUp(r)'
    BY <1>1, <1>3, <2>2, <2>3, IntakeAssumption DEF LookedUp
  <2>5. Intake(r)'
    BY <1>1, <1>3, <1>4, <1>7, <2>1, <2>4, IntakeAssumption DEF Intake
  <2> QED BY <1>1, <1>2, <2>5 DEF IntakeInv
<1> QED BY <1>5, <1>6, <1>7 DEF LookupKey

(* What the checks make of an ask.                                         *)
LEMMA ClassifiedIs ==
    ASSUME NEW b \in Asks, NEW a \in Classified(b), NEW t \in Nat, OnceValid(a)
    PROVE  LET c == [a EXCEPT !.ttl = Ttl(a), !.once = Once(a), !.at = t]
           IN  /\ DOMAIN c = AskFields /\ c.key = b.key /\ c.asked = b.asked
               /\ c.kind \in {"ack"} \cup {x.kind : x \in Asks} \cup {s[1] : s \in Suggestions}
               /\ c.ttl \in Int \cup {None} /\ c.once \in BOOLEAN \cup {None} /\ c.at = t
               /\ c.asked = "approval" => c.kind = "approval" /\ c.ttl # None
               /\ c.asked # "approval" => c.kind # "approval" /\ c.once = None
<1>1. /\ DOMAIN b = AskFields /\ b.kind = b.asked
      /\ b.ttl \in Int \cup {None} /\ b.once \in BOOLEAN \cup {None}
  BY AsksAssumption
<1>2. /\ DOMAIN a = AskFields
      /\ a.key = b.key /\ a.asked = b.asked /\ a.ttl = b.ttl /\ a.once = b.once
      /\ b.kind # None => a.kind = b.kind
      /\ b.kind = None => a.kind # "approval"
                          /\ a.kind \in {"ack"} \cup {s[1] : s \in Suggestions}
  <2>1. CASE b.kind # None
    BY <1>1, <2>1 DEF Classified
  <2>2. CASE b.kind = None
    <3>1. PICK s \in RouterResults :
             a = [b EXCEPT !.kind = IF s[1] \in {None, "approval"} THEN "ack" ELSE s[1],
                           !.urgency = Or(s[2], b.urgency)]
      BY <2>2 DEF Classified
    <3>2. s[1] \in {None} \cup {x[1] : x \in Suggestions}
      BY DEF RouterResults
    <3>3. a.kind = IF s[1] \in {None, "approval"} THEN "ack" ELSE s[1]
      BY <1>1, <3>1 DEF AskFields
    <3>4. DOMAIN a = AskFields /\ a.key = b.key /\ a.asked = b.asked /\ a.ttl = b.ttl
          /\ a.once = b.once
      BY <1>1, <3>1 DEF AskFields
    <3> QED BY <2>2, <3>2, <3>3, <3>4
  <2> QED BY <2>1, <2>2
<1> DEFINE c == [a EXCEPT !.ttl = Ttl(a), !.once = Once(a), !.at = t]
<1>3. /\ DOMAIN c = AskFields /\ c.key = a.key /\ c.asked = a.asked /\ c.kind = a.kind
      /\ c.ttl = Ttl(a) /\ c.once = Once(a) /\ c.at = t
  BY <1>2 DEF AskFields
<1>4. a.kind = "approval" <=> b.kind = "approval"
  BY <1>2, IntakeAssumption
<1>5. Ttl(a) \in Int \cup {None} /\ (a.kind = "approval" => Ttl(a) # None)
  BY <1>1, <1>2, IntakeAssumption DEF Ttl
<1>6. Once(a) \in BOOLEAN \cup {None} /\ (a.kind # "approval" => Once(a) = None)
  BY <1>1, <1>2, Zenon DEF Once
<1>7. a.kind \in {"ack"} \cup {x.kind : x \in Asks} \cup {s[1] : s \in Suggestions}
  BY <1>2
<1> HIDE DEF c
<1> QED BY <1>1, <1>2, <1>3, <1>4, <1>5, <1>6, <1>7 DEF c

(* evaluate leaves an approval without an automatic answer.                *)
LEMMA NoAutoApproval ==
    ASSUME NEW list, NEW n, NEW t, n.kind = "approval"
    PROVE  Evaluate(list, n, t).auto = None
BY DEF Evaluate, AutoAnswerOf

(* Classifying an ask and checking its ttl and once keep the invariant.    *)
LEMMA PrepareKeeps ==
    ASSUME IntakeInv, NEW r \in Requests, Prepare(r)
    PROVE  IntakeInv'
<1>1. /\ UNCHANGED <<now, verdict, card, reply, earlier, looked>> /\ apc[r] = "prepare"
      /\ \A q \in Requests : q # r => apc'[q] = apc[q] /\ ask'[q] = ask[q]
      /\ IntakeShape'
  BY DEF Prepare, IntakeInv, IntakeShape
<1>2. \A q \in Requests : q # r => Intake(q)'
  BY <1>1, OthersKeep
<1>3. /\ ask[r] \in Asks /\ card[r] = None /\ reply[r] = None /\ earlier[r] \subseteq Requests
      /\ LookedUp(r) /\ now \in Nat
  BY <1>1 DEF IntakeInv, IntakeShape, Intake, RowIsOf, Asked
<1>4. LookedUp(r)'
  BY <1>1, <1>3 DEF LookedUp
<1>5. CASE apc'[r] = "failed"
  <2>1. Intake(r)'
    BY <1>1, <1>3, <1>4, <1>5, IntakeAssumption DEF Intake
  <2> QED BY <1>1, <1>2, <2>1 DEF IntakeInv
<1>6. CASE apc'[r] = "rules"
  <2>1. PICK a \in Classified(ask[r]) :
           OnceValid(a) /\ ask'[r] = [a EXCEPT !.ttl = Ttl(a), !.once = Once(a), !.at = now]
    BY <1>1, <1>6 DEF Prepare, IntakeInv, IntakeShape
  <2>2. Checked(r)'
    BY <1>3, <2>1, ClassifiedIs DEF Checked
  <2>3. Intake(r)'
    BY <1>1, <1>3, <1>4, <1>6, <2>2, IntakeAssumption DEF Intake
  <2> QED BY <1>1, <1>2, <2>3 DEF IntakeInv
<1> QED BY <1>5, <1>6 DEF Prepare, IntakeInv, IntakeShape

(* Judging an ask by the rules, or dropping it, keeps the invariant.       *)
LEMMA JudgeKeeps ==
    ASSUME IntakeInv, NEW r \in Requests, ReadRules(r) \/ AskStops(r)
    PROVE  IntakeInv'
<1>1. /\ UNCHANGED <<now, card, reply, earlier, looked>>
      /\ apc[r] \in {"prepare", "rules", "store"}
      /\ \A q \in Requests : q # r =>
            apc'[q] = apc[q] /\ ask'[q] = ask[q] /\ verdict'[q] = verdict[q]
      /\ IntakeShape'
  BY DEF ReadRules, AskStops, IntakeInv, IntakeShape
<1>2. \A q \in Requests : q # r => Intake(q)'
  BY <1>1, OthersKeep
<1>3. /\ card[r] = None /\ reply[r] = None /\ earlier[r] \subseteq Requests /\ LookedUp(r)
  BY <1>1 DEF IntakeInv, Intake, RowIsOf
<1>4. LookedUp(r)'
  BY <1>1 , <1>3 DEF LookedUp
<1>5. CASE AskStops(r)
  <2>1. apc'[r] = "failed"
    BY <1>5 DEF AskStops, IntakeInv, IntakeShape
  <2>2. Intake(r)'
    BY <1>1, <1>3, <2>1, IntakeAssumption DEF Intake
  <2> QED BY <1>1, <1>2, <2>2 DEF IntakeInv
<1>6. CASE ReadRules(r)
  <2>1. apc'[r] = "store" /\ ask' = ask /\ apc[r] = "rules"
    BY <1>6 DEF ReadRules, IntakeInv, IntakeShape
  <2>2. PICK list \in Listings : verdict'[r] = Evaluate(list, ask[r], now)
    BY <1>6 DEF ReadRules, IntakeInv, IntakeShape
  <2>3. ask[r].kind = "approval" => verdict'[r].auto = None
    BY <2>2, NoAutoApproval
  <2>4. Checked(r)'
    BY <2>1 DEF IntakeInv, Intake, Checked
  <2>5. Intake(r)'
    BY <1>1, <1>3, <1>4, <2>1, <2>3, <2>4, IntakeAssumption DEF Intake
  <2> QED BY <1>1, <1>2, <2>5 DEF IntakeInv
<1> QED BY <1>5, <1>6

(* The end of an ask: with a row, or with an answer and none.              *)
LEMMA StoreKeeps ==
    ASSUME IntakeInv, NEW r \in Requests, AutoAnswer(r) \/ StoreCard(r)
    PROVE  IntakeInv'
<1>1. /\ UNCHANGED <<now, ask, earlier, looked>> /\ apc[r] = "store"
      /\ apc'[r] = "ok" /\ reply'[r] = r
      /\ \A q \in Requests : q # r =>
            apc'[q] = apc[q] /\ verdict'[q] = verdict[q] /\ card'[q] = card[q]
            /\ reply'[q] = reply[q]
      /\ IntakeShape'
  BY DEF AutoAnswer, StoreCard, IntakeInv, IntakeShape
<1>2. /\ card[r] = None /\ Checked(r) /\ earlier[r] \subseteq Requests /\ LookedUp(r)
      /\ ask[r].kind = "approval" => verdict[r].auto = None
  BY <1>1 DEF IntakeInv, Intake, RowIsOf
<1>3. \A q \in Requests : card[q] # None => card'[q] = card[q] /\ q # r
  BY <1>1, <1>2
<1>4. \A q \in Requests : q # r => Intake(q)'
  BY <1>1, <1>3, OthersKeep
<1>5. LookedUp(r)'
  BY <1>1, <1>2, <1>3 DEF LookedUp
<1>6. Checked(r)'
  BY <1>1, <1>2 DEF Checked
<1>7. CASE AutoAnswer(r)
  <2>1. card'[r] = None /\ ask[r].kind # "approval"
    BY <1>2, <1>7 DEF AutoAnswer
  <2>2. Intake(r)'
    BY <1>1, <1>2, <1>5, <1>6, <2>1, IntakeAssumption DEF Intake
  <2> QED BY <1>1, <1>4, <2>2 DEF IntakeInv
<1>8. CASE StoreCard(r)
  <2>1. card'[r] = CardOf(ask[r], verdict[r].status = "muted", ask[r].key)
    BY <1>8 DEF StoreCard, IntakeInv, IntakeShape
  <2>2. card'[r] \in CardRows
    BY <1>2, <2>1 DEF CardOf, CardRows, Checked
  <2>3. RowIsOf(r)'
    BY <1>1, <1>2, <2>1 DEF RowIsOf, CardOf, Checked
  <2>4. Intake(r)'
    BY <1>1, <1>2, <1>5, <1>6, <2>2, <2>3, IntakeAssumption DEF Intake
  <2> QED BY <1>1, <1>4, <2>4 DEF IntakeInv
<1> QED BY <1>7, <1>8

(* Every step of a request or of a rule keeps the invariant.               *)
LEMMA IntakeInvStep == IntakeInv /\ [IntakeNext]_vars => IntakeInv'
<1> SUFFICES ASSUME IntakeInv, [IntakeNext]_vars PROVE IntakeInv'
  OBVIOUS
<1>1. now \in Nat
  BY DEF IntakeInv, IntakeShape
<1>2. ASSUME UNCHANGED askVars, now' \in {now, now + 1}
      PROVE  IntakeInv'
  BY <1>1, <1>2, FrameKeeps
<1>3. CASE Tick
  BY <1>2, <1>3 DEF Tick
<1>4. CASE UNCHANGED vars
  BY <1>2, <1>4 DEF vars
<1>5. ASSUME NEW c \in Creations,
             \/ \E body \in RuleLines : CreateArrives(c, body)
             \/ RouterCompiles(c) \/ InsertRule(c) \/ CreateStops(c)
      PROVE  IntakeInv'
  BY <1>2, <1>5 DEF CreateArrives, RouterCompiles, InsertRule, CreateStops
<1>6. ASSUME NEW id \in RuleIds, DeleteRule(id)
      PROVE  IntakeInv'
  BY <1>2, <1>6 DEF DeleteRule
<1> QED BY <1>3, <1>4, <1>5, <1>6, ArrivesKeeps, LookupKeeps, PrepareKeeps, JudgeKeeps,
           StoreKeeps DEF IntakeNext

-----------------------------------------------------------------------------
(* The rules.  What POST /rules has stored of a request is a beginning of  *)
(* its plan, whose rows after the first are exceptions to the first; so an *)
(* exception that is stored follows the mute of its own request.           *)
Paired(m, x) ==
    /\ m.filter.verb = "mute" /\ x.filter.verb = "surface"
    /\ m.filter.match.agent = x.filter.match.agent
    /\ m.expires = x.expires

RowsPlanned(rows) ==
    /\ DOMAIN rows = 1 .. Len(rows) /\ Len(rows) \in Nat
    /\ \A i \in DOMAIN rows : /\ i \in Nat \ {0} /\ rows[i].priority \in Int
                              /\ i > 1 /\ 1 \in DOMAIN rows => Paired(rows[1], rows[i])

RulesNamed ==
    /\ IsFiniteSet(rules)
    /\ \A x \in rules : /\ \E c \in Creations, i \in Nat \ {0} : x.id = <<c, i>>
                        /\ x.priority \in Int

RulesPaired ==
    \A x \in rules : x.id[2] > 1 =>
        /\ <<x.id[1], 1>> \in RuleIds \cup deleted
        /\ \A m \in rules : m.id = <<x.id[1], 1>> => Paired(m, x)

Creating(c) ==
    LET k == creation[c] IN
    /\ DOMAIN k = {"rows", "done", "at", "body"}
    /\ crpc[c] \in {"idle", "router"} => k.done = 0
    /\ crpc[c] = "router" => k.body \in RuleLines
    /\ crpc[c] = "insert" => RowsPlanned(k.rows)
    /\ crpc[c] \in {"idle", "router", "insert"} =>
          /\ k.done \in Nat
          /\ \A x \in rules : x.id[1] = c => x.id[2] <= k.done
    /\ crpc[c] = "insert" /\ k.done > 0 =>
          /\ 1 \in DOMAIN k.rows /\ <<c, 1>> \in RuleIds \cup deleted
          /\ \A m \in rules : m.id = <<c, 1>> => m = StoredRule(c, 1, k.rows[1], k.at)

StoredOrDeleted(c, i) ==
    \/ StoredRule(c, i, creation[c].rows[i], creation[c].at) \in rules
    \/ <<c, i>> \in deleted

KeepsItsRules(c) ==
    /\ crpc[c] = "insert" =>
          \A i \in DOMAIN creation[c].rows : i <= creation[c].done => StoredOrDeleted(c, i)
    /\ crpc[c] = "ok" => \A i \in DOMAIN creation[c].rows : StoredOrDeleted(c, i)

RulesInv ==
    /\ DOMAIN crpc = Creations /\ DOMAIN creation = Creations
    /\ RulesNamed /\ RulesPaired /\ \A c \in Creations : Creating(c) /\ KeepsItsRules(c)

(* A mute and the exceptions to it.                                        *)
LEMMA MuteThenSurfaceIs ==
    ASSUME NEW agent, NEW contacts, NEW body, body.priority \in Int \cup {None}, NEW expires
    PROVE  RowsPlanned(MuteThenSurface(agent, contacts, body, expires))
<1> DEFINE rows == MuteThenSurface(agent, contacts, body, expires)
<1>1. \A d \in Int : Or(body.priority, d) \in Int
  BY DEF Or
<1>2. /\ DOMAIN rows = 1 .. Len(contacts) + 1
      /\ \A i \in DOMAIN rows : i \in Nat \ {0}
  BY DEF MuteThenSurface
<1>3. 1 \in DOMAIN rows =>
        rows[1] = Row(Filter("mute", None, ForAgent(agent)), TRUE, Or(body.priority, 10), expires)
  BY DEF MuteThenSurface
<1>4. \A i \in DOMAIN rows : i > 1 =>
         \E cs : rows[i] = Row(Filter("surface", None, FromContacts(agent, cs)),
                               FALSE, Or(body.priority, 20), expires)
  <2> SUFFICES ASSUME NEW i \in DOMAIN rows, i > 1
               PROVE  \E cs : rows[i] = Row(Filter("surface", None, FromContacts(agent, cs)),
                                            FALSE, Or(body.priority, 20), expires)
    OBVIOUS
  <2>1. i # 1 /\ i \in 1 .. Len(contacts) + 1
    BY <1>2
  <2>2. rows[i] = Row(Filter("surface", None, FromContacts(agent, <<contacts[i - 1]>>)),
                      FALSE, Or(body.priority, 20), expires)
    BY <2>1 DEF MuteThenSurface
  <2> QED BY <2>2, Zenon
<1>2a. DOMAIN rows = 1 .. Len(rows) /\ Len(rows) \in Nat
  BY <1>2
<1> HIDE DEF rows
<1>5. ForAgent(agent).agent = FromContacts(agent, <<>>).agent
      /\ \A cs : FromContacts(agent, cs).agent = ForAgent(agent).agent
  BY DEF FromContacts, ForAgent, NoMatch
<1>6. \A i \in DOMAIN rows : rows[i].priority \in Int
  <2> TAKE i \in DOMAIN rows
  <2>1. CASE i = 1
    BY <1>1, <1>3, <2>1 DEF Row
  <2>2. CASE i > 1
    <3>1. PICK cs : rows[i] = Row(Filter("surface", None, FromContacts(agent, cs)),
                                  FALSE, Or(body.priority, 20), expires)
      BY <1>4, <2>2
    <3> QED BY <1>1, <3>1 DEF Row
  <2> QED BY <1>2, <2>1, <2>2
<1>7. \A i \in DOMAIN rows : i > 1 /\ 1 \in DOMAIN rows => Paired(rows[1], rows[i])
  <2> SUFFICES ASSUME NEW i \in DOMAIN rows, i > 1, 1 \in DOMAIN rows
               PROVE  Paired(rows[1], rows[i])
    OBVIOUS
  <2>1. PICK cs : rows[i] = Row(Filter("surface", None, FromContacts(agent, cs)),
                                FALSE, Or(body.priority, 20), expires)
    BY <1>4
  <2> QED BY <1>3, <1>5, <2>1 DEF Paired, Row, Filter
<1>8. RowsPlanned(rows)
  BY <1>2, <1>6, <1>7, <1>2a DEF RowsPlanned
<1> QED BY <1>8 DEF rows

(* A rule of its own.                                                      *)
LEMMA OneRowIs ==
    ASSUME NEW filter, NEW mute, NEW expires, NEW priority \in Int
    PROVE  RowsPlanned(<<Row(filter, mute, priority, expires)>>)
BY DEF RowsPlanned, Row

(* A line the offline compiler takes makes one of the two.                 *)
LEMMA OfflinePlanIs ==
    ASSUME NEW body, body.priority \in Int \cup {None}, OfflinePlan(body) # None
    PROVE  RowsPlanned(OfflinePlan(body))
<1>1. PlanExcept(body) # None => RowsPlanned(PlanExcept(body))
  BY MuteThenSurfaceIs DEF PlanExcept
<1>2. \A p : PlanAllowAfter(p, body) # None => RowsPlanned(PlanAllowAfter(p, body))
  BY MuteThenSurfaceIs DEF PlanAllowAfter
<1>3. PlanAllow(body) # None => RowsPlanned(PlanAllow(body))
  BY <1>2 DEF PlanAllow, FirstOf
<1>4. PlanSingle(body) # None => RowsPlanned(PlanSingle(body))
  <2>1. Or(body.priority, 0) \in Int
    BY DEF Or
  <2> QED BY <2>1, OneRowIs DEF PlanSingle
<1> QED BY <1>1, <1>3, <1>4 DEF OfflinePlan, Or

(* At the start there are no rules and no creations.                       *)
LEMMA RulesInvInit == IntakeInit => RulesInv
<1> SUFFICES ASSUME IntakeInit PROVE RulesInv
  OBVIOUS
<1>1. /\ rules = {} /\ crpc = [c \in Creations |-> "idle"]
      /\ creation = [c \in Creations |-> NoCreation]
  BY DEF IntakeInit
<1>2. RulesNamed /\ RulesPaired
  BY <1>1, FS_EmptySet DEF RulesNamed, RulesPaired
<1>3. \A c \in Creations : Creating(c) /\ KeepsItsRules(c)
  BY <1>1 DEF Creating, KeepsItsRules, NoCreation
<1> QED BY <1>1, <1>2, <1>3 DEF RulesInv

(* What is known of a creation is of it alone.                             *)
LEMMA OthersCreate ==
    ASSUME NEW c \in Creations, NEW d \in Creations, d # c, Creating(d),
           KeepsItsRules(d),
           crpc'[d] = crpc[d], creation'[d] = creation[d],
           RuleIds \cup deleted \subseteq (RuleIds \cup deleted)',
           \A x \in rules' : x \in rules \/ \E i : x.id = <<c, i>>,
           deleted \subseteq deleted',
           \A x \in rules : x \in rules' \/ x.id \in deleted'
    PROVE  Creating(d)' /\ KeepsItsRules(d)'
<1>1. \A x \in rules' : x.id[1] = d => x \in rules
  OBVIOUS
<1>2. \A x \in rules' : x.id = <<d, 1>> => x \in rules
  OBVIOUS
<1>3. \A i : StoredOrDeleted(d, i) => StoredOrDeleted(d, i)'
  BY DEF StoredOrDeleted, StoredRule
<1>4. Creating(d)'
  BY <1>1, <1>2 DEF Creating
<1> QED BY <1>3, <1>4 DEF KeepsItsRules

(* A plan is made, by the daemon or by its router.                         *)
LEMMA PlanKeeps ==
    ASSUME RulesInv, NEW c \in Creations,
           (\E body \in RuleLines : CreateArrives(c, body)) \/ RouterCompiles(c)
    PROVE  RulesInv'
<1> USE DEF RulesInv
<1>1. /\ UNCHANGED <<rules, deleted>> /\ (RuleIds \cup deleted)' = RuleIds \cup deleted
      /\ DOMAIN crpc' = Creations /\ DOMAIN creation' = Creations
      /\ \A d \in Creations : d # c => crpc'[d] = crpc[d] /\ creation'[d] = creation[d]
  BY DEF CreateArrives, RouterCompiles, RuleIds
<1>2. RulesNamed' /\ RulesPaired'
  BY <1>1 DEF RulesNamed, RulesPaired
<1>3. \A d \in Creations : d # c => Creating(d)' /\ KeepsItsRules(d)'
  BY <1>1, OthersCreate
<1>4. ASSUME NEW body \in RuleLines, CreateArrives(c, body) PROVE Creating(c)'
  <2>1. body.priority \in Int \cup {None}
    BY RuleLinesAssumption
  <2>2. \A x \in rules : x.id[1] = c => x.id[2] <= 0
    BY <1>4 DEF CreateArrives, Creating
  <2>3. CASE OfflinePlan(body) = None
    <3>1. /\ crpc'[c] = "router"
          /\ creation'[c] = [rows |-> <<>>, done |-> 0, at |-> now, body |-> body]
      BY <1>4, <2>3 DEF CreateArrives
    <3> QED BY <1>1, <2>2, <3>1 DEF Creating
  <2>4. CASE OfflinePlan(body) # None
    <3>1. /\ crpc'[c] = "insert"
          /\ creation'[c] = [rows |-> OfflinePlan(body), done |-> 0, at |-> now, body |-> None]
      BY <1>4, <2>4 DEF CreateArrives
    <3>2. RowsPlanned(OfflinePlan(body))
      BY <2>1, <2>4, OfflinePlanIs
    <3> QED BY <1>1, <2>2, <3>1, <3>2 DEF Creating
  <2> QED BY <2>3, <2>4
<1>5. ASSUME RouterCompiles(c) PROVE Creating(c)'
  <2>1. PICK f \in RouterFilters \cup {None} :
           creation' = [creation EXCEPT ![c].rows = RouterPlan(creation[c].body, f),
                                        ![c].body = None]
    BY <1>5 DEF RouterCompiles
  <2>2. /\ crpc[c] = "router" /\ crpc'[c] = "insert" /\ creation[c].body \in RuleLines
        /\ DOMAIN creation[c] = {"rows", "done", "at", "body"} /\ creation[c].done = 0
        /\ \A x \in rules : x.id[1] = c => x.id[2] <= 0
    <3>1. crpc[c] = "router" /\ crpc'[c] = "insert" /\ Creating(c)
      BY <1>5 DEF RouterCompiles
    <3>2. creation[c].done = 0
      BY <3>1 DEF Creating
    <3>3. \A x \in rules : x.id[1] = c => x.id[2] <= creation[c].done
      BY <3>1 DEF Creating
    <3>4. DOMAIN creation[c] = {"rows", "done", "at", "body"} /\ creation[c].body \in RuleLines
      BY <3>1 DEF Creating
    <3> QED BY <3>1, <3>2, <3>3, <3>4
  <2>3. /\ DOMAIN creation'[c] = {"rows", "done", "at", "body"} /\ creation'[c].done = 0
        /\ creation'[c].rows = RouterPlan(creation[c].body, f)
    BY <2>1, <2>2
  <2>4. RowsPlanned(creation'[c].rows)
    <3>1. Or(creation[c].body.priority, 0) \in Int
      BY <2>2, RuleLinesAssumption DEF Or
    <3> QED BY <2>3, <3>1, OneRowIs DEF RouterPlan
  <2> QED BY <1>1, <2>2, <2>3, <2>4 DEF Creating
<1>6. KeepsItsRules(c)'
  <2>1. crpc'[c] \in {"router", "insert"} /\ creation'[c].done = 0
    <3>1. ASSUME NEW body \in RuleLines, CreateArrives(c, body)
          PROVE  crpc'[c] \in {"router", "insert"} /\ creation'[c].done = 0
      BY <3>1 DEF CreateArrives
    <3>2. ASSUME RouterCompiles(c)
          PROVE  crpc'[c] \in {"router", "insert"} /\ creation'[c].done = 0
      BY <3>2 DEF RouterCompiles, Creating
    <3> QED BY <3>1, <3>2
  <2>2. crpc'[c] = "insert" => RowsPlanned(creation'[c].rows)
    <3>1. Creating(c)'
      BY <1>4, <1>5
    <3> QED BY <3>1 DEF Creating
  <2>3. crpc'[c] = "insert" => \A i \in DOMAIN creation'[c].rows : ~(i <= creation'[c].done)
    BY <2>1, <2>2 DEF RowsPlanned
  <2> QED BY <2>1, <2>3 DEF KeepsItsRules
<1> QED BY <1>1, <1>2, <1>3, <1>4, <1>5, <1>6

(* The next row of a plan is stored.                                       *)
LEMMA InsertKeeps ==
    ASSUME RulesInv, NEW c \in Creations, InsertRule(c)
    PROVE  RulesInv'
<1> USE DEF RulesInv
<1> DEFINE k == creation[c]
           i == k.done + 1
           new == StoredRule(c, i, k.rows[i], k.at)
<1>1. /\ crpc[c] = "insert" /\ i \in DOMAIN k.rows /\ rules' = rules \cup {new}
      /\ deleted' = deleted /\ creation' = [creation EXCEPT ![c].done = i]
      /\ crpc'[c] \in {"insert", "ok"}
      /\ DOMAIN crpc' = Creations /\ DOMAIN creation' = Creations
      /\ \A d \in Creations : d # c => crpc'[d] = crpc[d] /\ creation'[d] = creation[d]
  BY DEF InsertRule
<1>2. /\ DOMAIN k = {"rows", "done", "at", "body"} /\ k.done \in Nat /\ i \in Nat /\ i > 0
      /\ RowsPlanned(k.rows)
      /\ \A x \in rules : x.id[1] = c => x.id[2] <= k.done
      /\ k.done > 0 =>
            /\ 1 \in DOMAIN k.rows /\ <<c, 1>> \in RuleIds \cup deleted
            /\ \A m \in rules : m.id = <<c, 1>> => m = StoredRule(c, 1, k.rows[1], k.at)
  BY <1>1 DEF Creating
<1>3. /\ DOMAIN creation'[c] = {"rows", "done", "at", "body"} /\ creation'[c].done = i
      /\ creation'[c].rows = k.rows /\ creation'[c].at = k.at
  BY <1>1, <1>2
<1>4. /\ new.id = <<c, i>> /\ new.id[1] = c /\ new.id[2] = i /\ new.filter = k.rows[i].filter
      /\ new.priority = k.rows[i].priority /\ new.expires = Absolute(k.rows[i].expires, k.at)
  BY DEF StoredRule
<1>5. k.rows[i].priority \in Int
  BY <1>1, <1>2 DEF RowsPlanned
<1> HIDE DEF k, i, new
<1>6. /\ RuleIds' = RuleIds \cup {<<c, i>>}
      /\ (RuleIds \cup deleted)' = RuleIds \cup deleted \cup {<<c, i>>}
  <2>1. RuleIds' = {x.id : x \in rules'}
    BY DEF RuleIds
  <2>2. \A y \in RuleIds' : y \in RuleIds \/ y = <<c, i>>
    <3> SUFFICES ASSUME NEW y \in RuleIds' PROVE y \in RuleIds \/ y = <<c, i>>
      OBVIOUS
    <3>1. PICK x \in rules' : y = x.id
      BY <2>1
    <3>2. CASE x = new
      BY <1>4, <3>1, <3>2
    <3>3. CASE x \in rules
      BY <3>1, <3>3 DEF RuleIds
    <3> QED BY <1>1, <3>2, <3>3
  <2>3. RuleIds \subseteq RuleIds'
    BY <1>1, <2>1 DEF RuleIds
  <2>4. <<c, i>> \in RuleIds'
    BY <1>1, <1>4, <2>1
  <2>5. RuleIds' = RuleIds \cup {<<c, i>>}
    BY <2>2, <2>3, <2>4
  <2> QED BY <1>1, <2>5
<1>7. RulesNamed'
  <2>1. IsFiniteSet(rules')
    BY <1>1, FS_AddElement DEF RulesNamed
  <2>2. \E d \in Creations, j \in Nat \ {0} : new.id = <<d, j>>
    BY <1>2, <1>4
  <2> QED BY <1>1, <1>4, <1>5, <2>1, <2>2 DEF RulesNamed
<1>8. \A m \in rules : m.id = <<c, 1>> => k.done > 0
  <2>1. \A m \in rules : m.id = <<c, 1>> => m.id[1] = c /\ m.id[2] = 1
    OBVIOUS
  <2> QED BY <1>2, <2>1
<1>9. i > 1 => /\ 1 \in DOMAIN k.rows /\ k.done > 0 /\ Paired(k.rows[1], k.rows[i])
  <2>1. i > 1 => k.done > 0
    BY <1>2 DEF i
  <2> QED BY <1>1, <1>2, <2>1 DEF RowsPlanned
<1>10. RulesPaired'
  <2> SUFFICES ASSUME NEW x \in rules', x.id[2] > 1
               PROVE  /\ <<x.id[1], 1>> \in (RuleIds \cup deleted)'
                      /\ \A m \in rules' : m.id = <<x.id[1], 1>> => Paired(m, x)
    BY DEF RulesPaired
  <2>1. CASE x = new
    <3>1. x.id[1] = c /\ i > 1
      BY <1>4, <2>1
    <3>2. \A m \in rules' : m.id = <<c, 1>> => m \in rules
      BY <1>1, <1>4, <3>1
    <3>3. \A m \in rules : m.id = <<c, 1>> => m = StoredRule(c, 1, k.rows[1], k.at)
      BY <1>2, <1>9, <3>1
    <3>4. Paired(StoredRule(c, 1, k.rows[1], k.at), new)
      BY <1>4, <1>9, <3>1 DEF Paired, StoredRule
    <3>5. <<c, 1>> \in RuleIds \cup deleted
      BY <1>2, <1>9, <3>1
    <3> QED BY <1>6, <2>1, <3>1, <3>2, <3>3, <3>4, <3>5
  <2>2. CASE x \in rules
    <3>1. /\ <<x.id[1], 1>> \in RuleIds \cup deleted
          /\ \A m \in rules : m.id = <<x.id[1], 1>> => Paired(m, x)
      BY <2>2 DEF RulesPaired
    <3>2. new.id # <<x.id[1], 1>>
      <4>1. SUFFICES ASSUME new.id = <<x.id[1], 1>> PROVE FALSE
        OBVIOUS
      <4>2. x.id[1] = c /\ i = 1
        BY <1>4, <4>1
      <4>3. k.done = 0 /\ x.id[2] \in Nat
        BY <1>2, <2>2, <4>2 DEF i, RulesNamed
      <4> QED BY <1>2, <2>2, <4>2, <4>3
    <3> QED BY <1>1, <1>6, <3>1, <3>2
  <2> QED BY <1>1, <2>1, <2>2
<1>11. \A d \in Creations : d # c => Creating(d)' /\ KeepsItsRules(d)'
  <2>1. RuleIds \cup deleted \subseteq (RuleIds \cup deleted)'
    BY <1>6
  <2>2. \A x \in rules' : x \in rules \/ \E j : x.id = <<c, j>>
    BY <1>1, <1>4
  <2>3. deleted \subseteq deleted' /\ \A x \in rules : x \in rules'
    BY <1>1
  <2> QED BY <1>1, <2>1, <2>2, <2>3, OthersCreate
<1>12. Creating(c)'
  <2>1. \A x \in rules' : x.id[1] = c => x.id[2] <= i
    <3>1. \A x \in rules : x.id[2] \in Nat
      BY DEF RulesNamed
    <3>2. \A x \in rules : x.id[1] = c => x.id[2] <= i
      BY <1>2, <3>1 DEF i
    <3> QED BY <1>1, <1>2, <1>4, <3>2
  <2>2. 1 \in DOMAIN k.rows /\ <<c, 1>> \in (RuleIds \cup deleted)'
    <3>1. CASE i = 1
      BY <1>1, <1>6, <3>1
    <3>2. CASE i > 1
      BY <1>2, <1>6, <1>9, <3>2
    <3> QED BY <1>2, <3>1, <3>2
  <2>3. \A m \in rules' : m.id = <<c, 1>> => m = StoredRule(c, 1, k.rows[1], k.at)
    <3>1. CASE i = 1
      BY <1>1, <1>8, <3>1, <1>2 DEF i, new
    <3>2. CASE i > 1
      BY <1>1, <1>2, <1>4, <1>9, <3>2
    <3> QED BY <1>2, <3>1, <3>2
  <2> QED BY <1>1, <1>2, <1>3, <2>1, <2>2, <2>3 DEF Creating
<1>13. KeepsItsRules(c)'
  <2>1. ASSUME NEW j \in DOMAIN k.rows, j <= i PROVE StoredOrDeleted(c, j)'
    <3>1. StoredOrDeleted(c, j)' <=>
             StoredRule(c, j, k.rows[j], k.at) \in rules' \/ <<c, j>> \in deleted'
      BY <1>3 DEF StoredOrDeleted, StoredRule, Absolute
    <3>2. CASE j = i
      BY <1>1, <3>1, <3>2 DEF new
    <3>3. CASE j # i
      <4>1. j <= k.done
        BY <1>2, <2>1, <3>3 DEF i, RowsPlanned
      <4>2. StoredOrDeleted(c, j)
        BY <1>1, <4>1 DEF KeepsItsRules, k
      <4> QED BY <1>1, <3>1, <4>2 DEF StoredOrDeleted, k
    <3> QED BY <3>2, <3>3
  <2>2. crpc'[c] = "ok" => \A j \in DOMAIN k.rows : j <= i
    <3>1. crpc'[c] = "ok" => i = Len(k.rows)
      BY <1>1 DEF InsertRule, k, i
    <3> QED BY <1>2, <3>1 DEF RowsPlanned
  <2> QED BY <1>3, <2>1, <2>2 DEF KeepsItsRules
<1> QED BY <1>1, <1>7, <1>10, <1>11, <1>12, <1>13

(* A creation ends where it is, or a rule is deleted.                      *)
LEMMA StopKeeps ==
    ASSUME RulesInv, NEW c \in Creations, CreateStops(c)
    PROVE  RulesInv'
<1> USE DEF RulesInv
<1>1. /\ UNCHANGED <<rules, deleted>> /\ (RuleIds \cup deleted)' = RuleIds \cup deleted
      /\ DOMAIN crpc' = Creations /\ DOMAIN creation' = Creations
      /\ crpc'[c] = "failed" /\ creation'[c] = NoCreation
      /\ \A d \in Creations : d # c => crpc'[d] = crpc[d] /\ creation'[d] = creation[d]
  BY DEF CreateStops, RuleIds
<1>2. RulesNamed' /\ RulesPaired'
  BY <1>1 DEF RulesNamed, RulesPaired
<1>3. \A d \in Creations : d # c => Creating(d)' /\ KeepsItsRules(d)'
  BY <1>1, OthersCreate
<1>4. Creating(c)' /\ KeepsItsRules(c)'
  BY <1>1 DEF Creating, KeepsItsRules, NoCreation
<1> QED BY <1>1, <1>2, <1>3, <1>4

(* The name of a deleted rule is remembered.                               *)
LEMMA DeleteKeeps ==
    ASSUME RulesInv, NEW id \in RuleIds, DeleteRule(id)
    PROVE  RulesInv'
<1> USE DEF RulesInv
<1>1. /\ rules' \subseteq rules /\ UNCHANGED <<crpc, creation>>
      /\ rules' = {x \in rules : x.id # id} /\ deleted' = deleted \cup {id}
  BY DEF DeleteRule
<1>2. (RuleIds \cup deleted)' = RuleIds \cup deleted
  BY <1>1 DEF RuleIds
<1>3. RulesNamed'
  BY <1>1, FS_Subset DEF RulesNamed
<1>4. RulesPaired'
  BY <1>1, <1>2 DEF RulesPaired
<1>5. \A c \in Creations : Creating(c)'
  BY <1>1, <1>2 DEF Creating
<1>6. \A c \in Creations : KeepsItsRules(c)'
  <2> TAKE c \in Creations
  <2>1. \A i : StoredOrDeleted(c, i) => StoredOrDeleted(c, i)'
    <3> SUFFICES ASSUME NEW i, StoredOrDeleted(c, i) PROVE StoredOrDeleted(c, i)'
      OBVIOUS
    <3>1. StoredRule(c, i, creation[c].rows[i], creation[c].at).id = <<c, i>>
      BY DEF StoredRule
    <3> QED BY <1>1, <3>1 DEF StoredOrDeleted, StoredRule
  <2> QED BY <1>1, <2>1 DEF KeepsItsRules
<1> QED BY <1>1, <1>3, <1>4, <1>5, <1>6

(* Every step keeps what is known of the rules.                            *)
LEMMA RulesInvStep == RulesInv /\ [IntakeNext]_vars => RulesInv'
<1> SUFFICES ASSUME RulesInv, [IntakeNext]_vars PROVE RulesInv'
  OBVIOUS
<1>1. ASSUME UNCHANGED ruleVars PROVE RulesInv'
  <2>1. UNCHANGED <<rules, crpc, creation, deleted>>
    BY <1>1 DEF ruleVars
  <2>2. RulesNamed' /\ RulesPaired'
    BY <2>1 DEF RulesInv, RulesNamed, RulesPaired, RuleIds
  <2>3. \A c \in Creations : Creating(c)'
    BY <2>1 DEF RulesInv, Creating, RuleIds
  <2>4. \A c \in Creations : KeepsItsRules(c)'
    BY <2>1 DEF RulesInv, KeepsItsRules, StoredOrDeleted
  <2> QED BY <2>1, <2>2, <2>3, <2>4 DEF RulesInv
<1>2. CASE Tick \/ UNCHANGED vars
  BY <1>1, <1>2 DEF Tick, vars
<1>3. ASSUME NEW c \in Creations,
             \/ \E body \in RuleLines : CreateArrives(c, body)
             \/ RouterCompiles(c) \/ InsertRule(c) \/ CreateStops(c)
      PROVE  RulesInv'
  BY <1>3, PlanKeeps, InsertKeeps, StopKeeps
<1>4. ASSUME NEW r \in Requests,
             \/ \E a \in Asks : AskArrives(r, a)
             \/ LookupKey(r) \/ LookupFails(r) \/ Prepare(r) \/ ReadRules(r)
             \/ AutoAnswer(r) \/ StoreCard(r) \/ AskStops(r)
      PROVE  RulesInv'
  BY <1>1, <1>4 DEF AskArrives, LookupKey, LookupFails, Prepare, ReadRules, AutoAnswer, StoreCard,
                    AskStops
<1> QED BY <1>2, <1>3, <1>4, DeleteKeeps DEF IntakeNext

(* Answered rules are stored, and exceptions follow their mute.            *)
LEMMA RulesInvImplies == RulesInv => AnsweredRulesAreStored
BY DEF RulesInv, RulesPaired, Paired, KeepsItsRules, StoredOrDeleted,
   AnsweredRulesAreStored

-----------------------------------------------------------------------------
(* The order of evaluation.  Before is a strict total order of a list, so  *)
(* every place of EvaluationOrder is taken by one rule.                    *)
Ahead(list, i) == {j \in DOMAIN list : Before(list, j, i)}

(* A key is the negated priority, but for the least one.                   *)
LEMMA KeysAre ==
    ASSUME NEW p \in Int
    PROVE  /\ SortKey(p) \in Int
           /\ p # -(2^(Width - 1)) => SortKey(p) = -p
<1>1. -p \in Int
  OBVIOUS
<1>2. SortKey(p) = p \/ SortKey(p) = -p
  BY Zenon DEF SortKey
<1>3. p # -(2^(Width - 1)) => SortKey(p) = -p
  BY Zenon DEF SortKey
<1> QED BY <1>1, <1>2, <1>3

(* Of two rules one comes before the other.                                *)
LEMMA BeforeIsTotal ==
    ASSUME NEW list, NEW n \in Nat, DOMAIN list = 1 .. n,
           \A i \in 1 .. n : list[i].priority \in Int
    PROVE  /\ \A i \in 1 .. n : ~Before(list, i, i)
           /\ \A i, j \in 1 .. n : i = j \/ Before(list, i, j) \/ Before(list, j, i)
           /\ \A i, j, k \in 1 .. n :
                 Before(list, i, j) /\ Before(list, j, k) => Before(list, i, k)
<1>1. \A i \in 1 .. n : SortKey(list[i].priority) \in Int
  BY KeysAre
<1>2. \A i \in 1 .. n : ~Before(list, i, i)
  BY <1>1 DEF Before
<1>3. \A i, j \in 1 .. n : i = j \/ Before(list, i, j) \/ Before(list, j, i)
  BY <1>1 DEF Before
<1>4. \A i, j, k \in 1 .. n :
         Before(list, i, j) /\ Before(list, j, k) => Before(list, i, k)
  BY <1>1 DEF Before
<1> QED BY <1>2, <1>3, <1>4

(* EvaluationOrder sorts, as sort_by_key does (rules.rs:18): every rule of *)
(* any list with integer priorities has one place in it, and an earlier    *)
(* place has the smaller key, or the same key and the earlier rule.        *)
THEOREM EvaluationOrderSorts ==
    ASSUME NEW list, NEW n \in Nat, DOMAIN list = 1 .. n,
           \A i \in 1 .. n : list[i].priority \in Int
    PROVE  LET order == EvaluationOrder(list) IN
           /\ order \in [1 .. n -> 1 .. n]
           /\ \A i \in 1 .. n : \E k \in 1 .. n : order[k] = i
           /\ \A k, l \in 1 .. n : k < l => Before(list, order[k], order[l])
<1> DEFINE rank == [i \in 1 .. n |-> Cardinality(Ahead(list, i))]
           order == EvaluationOrder(list)
<1>1. IsFiniteSet(1 .. n) /\ Cardinality(1 .. n) = n
  BY FS_Interval
<1>2. \A i \in 1 .. n :
         /\ Ahead(list, i) \subseteq (1 .. n) \ {i} /\ IsFiniteSet(Ahead(list, i))
         /\ rank[i] \in 0 .. n - 1
  <2> TAKE i \in 1 .. n
  <2>1. Ahead(list, i) \subseteq (1 .. n) \ {i}
    BY BeforeIsTotal DEF Ahead
  <2>2. /\ IsFiniteSet((1 .. n) \ {i}) /\ Cardinality((1 .. n) \ {i}) = n - 1
    BY <1>1, FS_RemoveElement
  <2>3. /\ IsFiniteSet(Ahead(list, i)) /\ Cardinality(Ahead(list, i)) \in Nat
        /\ Cardinality(Ahead(list, i)) <= n - 1
    BY <2>1, <2>2, FS_Subset, FS_CardinalityType
  <2> QED BY <2>1, <2>3
<1>3. \A i, j \in 1 .. n : Before(list, i, j) => rank[i] < rank[j]
  <2> SUFFICES ASSUME NEW i \in 1 .. n, NEW j \in 1 .. n, Before(list, i, j)
               PROVE  Cardinality(Ahead(list, i)) < Cardinality(Ahead(list, j))
    OBVIOUS
  <2>1. Ahead(list, i) \subseteq Ahead(list, j)
    BY BeforeIsTotal DEF Ahead
  <2>2. i \in Ahead(list, j) /\ i \notin Ahead(list, i)
    BY BeforeIsTotal DEF Ahead
  <2>3. Ahead(list, i) # Ahead(list, j)
    BY <2>2
  <2>4. IsFiniteSet(Ahead(list, j))
    BY <1>2
  <2> HIDE DEF rank
  <2>5. Cardinality(Ahead(list, i)) <= Cardinality(Ahead(list, j))
    BY <2>1, <2>4, FS_Subset
  <2>6. /\ Cardinality(Ahead(list, i)) # Cardinality(Ahead(list, j))
        /\ Cardinality(Ahead(list, i)) \in Nat /\ Cardinality(Ahead(list, j)) \in Nat
    BY <1>2, <2>1, <2>3, <2>4, FS_Subset, FS_CardinalityType
  <2> QED BY <2>5, <2>6
<1>4. rank \in Injection(1 .. n, 0 .. n - 1)
  <2>1. rank \in [1 .. n -> 0 .. n - 1]
    BY <1>2
  <2>2. \A i, j \in 1 .. n : rank[i] = rank[j] => i = j
    <3> SUFFICES ASSUME NEW i \in 1 .. n, NEW j \in 1 .. n, rank[i] = rank[j], i # j
                 PROVE  FALSE
      OBVIOUS
    <3>1. Before(list, i, j) \/ Before(list, j, i)
      BY BeforeIsTotal
    <3>2. rank[i] < rank[j] \/ rank[j] < rank[i]
      BY <1>3, <3>1
    <3>3. rank[i] \in Int /\ rank[j] \in Int
      BY <1>2
    <3> HIDE DEF rank
    <3> QED BY <3>2, <3>3
  <2> HIDE DEF rank
  <2> QED BY <2>1, <2>2 DEF Injection, IsInjective
<1>5. rank \in Surjection(1 .. n, 0 .. n - 1)
  <2>1. IsFiniteSet(0 .. n - 1) /\ Cardinality(0 .. n - 1) = n
    <3>1. 0 \in Int /\ n - 1 \in Int /\ (IF 0 > n - 1 THEN 0 ELSE n - 1 - 0 + 1) = n
      OBVIOUS
    <3> QED BY <3>1, FS_Interval
  <2> HIDE DEF rank
  <2> QED BY <1>1, <1>4, <2>1, FS_Injection
<1>6. \A k \in 1 .. n : order[k] \in 1 .. n /\ rank[order[k]] = k - 1
  <2> TAKE k \in 1 .. n
  <2>1. PICK i \in 1 .. n : rank[i] = k - 1
    <3>1. k - 1 \in 0 .. n - 1
      OBVIOUS
    <3> HIDE DEF rank
    <3> QED BY <1>5, <3>1 DEF Surjection
  <2>2. order[k] = CHOOSE j \in 1 .. n : Cardinality(Ahead(list, j)) = k - 1
    BY DEF EvaluationOrder, Ahead
  <2>3. \E j \in 1 .. n : Cardinality(Ahead(list, j)) = k - 1
    BY <2>1
  <2>4. order[k] \in 1 .. n /\ Cardinality(Ahead(list, order[k])) = k - 1
    <3> HIDE DEF order
    <3> QED BY <2>2, <2>3, Zenon
  <2> QED BY <2>4
<1>7. order \in [1 .. n -> 1 .. n]
  <2>1. \A k \in 1 .. n : order[k] \in 1 .. n
    BY <1>6
  <2> QED BY <2>1 DEF EvaluationOrder
<1> HIDE DEF rank, order
<1>8. \A i \in 1 .. n : \E k \in 1 .. n : order[k] = i
  <2> TAKE i \in 1 .. n
  <2> DEFINE k == rank[i] + 1
  <2>1. k \in 1 .. n /\ k - 1 = rank[i]
    BY <1>2
  <2>2. rank[order[k]] = rank[i] /\ order[k] \in 1 .. n
    BY <1>6, <2>1
  <2>3. order[k] = i
    BY <1>4, <2>2 DEF Injection, IsInjective
  <2> QED BY <2>1, <2>3
<1>9. \A k, l \in 1 .. n : k < l => Before(list, order[k], order[l])
  <2> SUFFICES ASSUME NEW k \in 1 .. n, NEW l \in 1 .. n, k < l
               PROVE  Before(list, order[k], order[l])
    OBVIOUS
  <2>1. rank[order[k]] < rank[order[l]] /\ order[k] \in 1 .. n /\ order[l] \in 1 .. n
    BY <1>6
  <2>2. order[k] # order[l] /\ ~Before(list, order[l], order[k])
    BY <1>2, <1>3, <2>1
  <2> QED BY <2>1, <2>2, BeforeIsTotal
<1> QED BY <1>7, <1>8, <1>9 DEF order

-----------------------------------------------------------------------------
(* Induction, for a set of numbers.                                        *)
LEMMA AllNumbers ==
    ASSUME NEW S \in SUBSET Nat, 0 \in S, \A k \in S : k + 1 \in S
    PROVE  S = Nat
<1> DEFINE Rest == Nat \ S
<1> SUFFICES ASSUME Rest # {} PROVE FALSE
  OBVIOUS
<1>1. \E m \in Rest : \A n \in Rest : ~(<<n, m>> \in OpToRel(<, Nat))
  <2>1. Rest \subseteq Nat /\ Rest # {}
    OBVIOUS
  <2> HIDE DEF Rest
  <2> QED BY <2>1, NatLessThanWellFounded, WFMin, Zenon
<1>2. PICK m \in Rest : \A n \in Rest : ~(<<n, m>> \in OpToRel(<, Nat))
  BY <1>1
<1>3. \A n \in Rest : ~(n < m)
  BY <1>2 DEF OpToRel
<1>4. m \in Nat /\ m # 0 /\ m \notin S
  OBVIOUS
<1>5. m - 1 \in Nat /\ m - 1 < m /\ (m - 1) + 1 = m
  BY <1>4
<1>6. m - 1 \in S
  BY <1>3, <1>5
<1> QED BY <1>4, <1>5, <1>6

(* The fold of evaluate, step by step.                                     *)
EachApplied(after, list, n, t) ==
    /\ after[0] = [n EXCEPT !.status = "open", !.auto = None]
    /\ \A k \in 1 .. Len(list) :
          after[k] = ApplyRule(list[EvaluationOrder(list)[k]], after[k - 1], t)

(* The recursive function is defined, for a list of any length.            *)
LEMMA AppliedIs ==
    ASSUME NEW list, NEW n, NEW t, Len(list) \in Nat
    PROVE  EachApplied(Applied(list, n, t), list, n, t)
<1> DEFINE order == EvaluationOrder(list)
           len == Len(list)
           Start == [n EXCEPT !.status = "open", !.auto = None]
           Step(k, acc) == ApplyRule(list[order[k]], acc, t)
           IsFold(g, m) == g = [k \in 0 .. m |-> IF k = 0 THEN Start ELSE Step(k, g[k - 1])]
           S == {m \in Nat : \E g : IsFold(g, m)}
<1>1. Applied(list, n, t) = CHOOSE g : IsFold(g, len)
  BY DEF Applied
<1>len. len \in Nat
  OBVIOUS
<1> HIDE DEF order, Start, Step, len, IsFold
<1>2. 0 \in S
  <2>1. IsFold([k \in 0 .. 0 |-> Start], 0)
    <3>1. \A k \in 0 .. 0 : k = 0
      OBVIOUS
    <3> QED BY <3>1 DEF IsFold
  <2> QED BY <2>1
<1>3. \A m \in S : m + 1 \in S
  <2> SUFFICES ASSUME NEW m \in Nat, NEW g, IsFold(g, m) PROVE \E h : IsFold(h, m + 1)
    OBVIOUS
  <2> USE DEF IsFold
  <2> DEFINE h == [k \in 0 .. m + 1 |-> IF k = m + 1 THEN Step(m + 1, g[m]) ELSE g[k]]
  <2>1. \A k \in 0 .. m : h[k] = g[k]
    OBVIOUS
  <2>2. h[m + 1] = Step(m + 1, h[m])
    BY <2>1
  <2>3. \A k \in 0 .. m : h[k] = IF k = 0 THEN Start ELSE Step(k, h[k - 1])
    <3> TAKE k \in 0 .. m
    <3>1. CASE k = 0
      BY <2>1, <3>1
    <3>2. CASE k # 0
      <4>1. k - 1 \in 0 .. m
        BY <3>2
      <4>2. h[k] = g[k] /\ h[k - 1] = g[k - 1]
        BY <2>1, <4>1
      <4>3. g[k] = Step(k, g[k - 1])
        BY <3>2
      <4> QED BY <3>2, <4>2, <4>3
    <3> QED BY <3>1, <3>2
  <2>4. \A k \in 0 .. m + 1 : h[k] = IF k = 0 THEN Start ELSE Step(k, h[k - 1])
    <3> TAKE k \in 0 .. m + 1
    <3>1. CASE k \in 0 .. m
      BY <2>3, <3>1
    <3>2. CASE k = m + 1
      <4>1. k # 0 /\ k - 1 = m
        BY <3>2
      <4> QED BY <2>2, <3>2, <4>1
    <3> QED BY <3>1, <3>2
  <2>5. h = [k \in 0 .. m + 1 |-> h[k]]
    OBVIOUS
  <2> HIDE DEF h
  <2>6. IsFold(h, m + 1)
    BY <2>4, <2>5
  <2> QED BY <2>6
<1>4. len \in S
  <2> HIDE DEF S
  <2>1. S \subseteq Nat /\ len \in Nat
    BY <1>len DEF S
  <2> QED BY <1>2, <1>3, <2>1, AllNumbers
<1>5. \E g : IsFold(g, len)
  BY <1>4
<1>6. IsFold(Applied(list, n, t), len)
  BY <1>1, <1>5, Zenon
<1> DEFINE after == Applied(list, n, t)
<1>7. after = [k \in 0 .. len |-> IF k = 0 THEN Start ELSE Step(k, after[k - 1])]
  BY <1>6 DEF IsFold
<1> HIDE DEF after
<1>8. after[0] = Start
  BY <1>7, <1>len
<1>9. \A k \in 1 .. len : after[k] = Step(k, after[k - 1])
  <2> TAKE k \in 1 .. len
  <2>1. k \in 0 .. len /\ k # 0
    OBVIOUS
  <2> QED BY <1>7, <2>1
<1> QED BY <1>8, <1>9 DEF after, order, Start, Step, len, EachApplied

(* A rule sees of an ask its agent, source, question and urgency.          *)
Alike(a, b) ==
    /\ a.agent = b.agent /\ a.src = b.src /\ a.question = b.question /\ a.urgency = b.urgency

(* No rule can tell such asks apart.                                       *)
LEMMA MatchAlike ==
    ASSUME NEW m, NEW a, NEW b, Alike(a, b)
    PROVE  Matches(m, a) <=> Matches(m, b)
BY DEF Alike, Matches

(* What an action makes of an ask, when it does not change its urgency.    *)
LEMMA ActIs ==
    ASSUME NEW f, NEW a, DOMAIN a = AskFields, f.verb # "reprioritize"
    PROVE  /\ DOMAIN Act(f, a) = AskFields /\ Alike(Act(f, a), a)
           /\ Act(f, a).status = IF f.verb \in {"mute", "surface"}
                                   THEN IF f.verb = "mute" THEN "muted" ELSE "open"
                                   ELSE a.status
           /\ Act(f, a).auto = IF f.verb = "auto_answer" THEN f.arg ELSE a.auto
<1>1. CASE f.verb = "mute"
  <2>1. Act(f, a) = [a EXCEPT !.status = "muted"]
    BY <1>1 DEF Act
  <2> QED BY <1>1, <2>1 DEF AskFields, Alike
<1>2. CASE f.verb = "surface"
  <2>1. Act(f, a) = [a EXCEPT !.status = "open"]
    BY <1>2 DEF Act
  <2> QED BY <1>2, <2>1 DEF AskFields, Alike
<1>3. CASE f.verb = "auto_answer"
  <2>1. Act(f, a) = [a EXCEPT !.auto = f.arg]
    BY <1>3 DEF Act
  <2> QED BY <1>3, <2>1 DEF AskFields, Alike
<1>4. CASE f.verb = "snooze" /\ f.arg # None
  <2>1. Act(f, a) = [a EXCEPT !.deadline = f.arg]
    BY <1>4 DEF Act
  <2> QED BY <1>4, <2>1 DEF AskFields, Alike
<1>5. CASE f.verb \notin {"mute", "surface", "auto_answer"} /\ ~(f.verb = "snooze" /\ f.arg # None)
  <2>1. Act(f, a) = a
    BY <1>5 DEF Act
  <2> QED BY <1>5, <2>1 DEF Alike
<1> QED BY <1>1, <1>2, <1>3, <1>4, <1>5

(* A rule has a say exactly when it bears on the ask as it came in.        *)
LEMMA ApplyIs ==
    ASSUME NEW list, NEW i \in DOMAIN list, Ordinary(list), NEW n, NEW a,
           DOMAIN a = AskFields, Alike(a, n)
    PROVE  LET out == ApplyRule(list[i], a, now) IN
           /\ DOMAIN out = AskFields /\ Alike(out, n)
           /\ out.status = IF i \in Bears(list, n, {"mute", "surface"})
                             THEN StatusBy(list[i]) ELSE a.status
           /\ out.auto = IF i \in Bears(list, n, {"auto_answer"})
                           THEN list[i].filter.arg ELSE a.auto
<1> DEFINE r == list[i]
           out == ApplyRule(r, a, now)
           S == Bears(list, n, {"mute", "surface"})
           A == Bears(list, n, {"auto_answer"})
<1> SUFFICES /\ DOMAIN out = AskFields /\ Alike(out, n)
             /\ out.status = IF i \in S THEN StatusBy(r) ELSE a.status
             /\ out.auto = IF i \in A THEN r.filter.arg ELSE a.auto
  OBVIOUS
<1>1. /\ i \in S <=> /\ InForce(r, now)
                     /\ IF r.filter = None THEN r.mute
                        ELSE r.filter.verb \in {"mute", "surface"} /\ Matches(r.filter.match, n)
      /\ i \in A <=> /\ InForce(r, now) /\ r.filter # None
                     /\ r.filter.verb = "auto_answer" /\ Matches(r.filter.match, n)
  BY DEF Bears
<1> HIDE DEF S, A
<1>2. CASE ~InForce(r, now)
  <2>1. out = a
    BY <1>2 DEF ApplyRule
  <2> QED BY <1>1, <1>2, <2>1
<1>3. CASE InForce(r, now) /\ r.filter = None
  <2>1. CASE r.mute
    <3>1. out = [a EXCEPT !.status = "muted"] /\ StatusBy(r) = "muted"
      BY <1>3, <2>1 DEF ApplyRule, StatusBy
    <3>2. /\ DOMAIN out = AskFields /\ Alike(out, a) /\ out.status = "muted" /\ out.auto = a.auto
      BY <3>1 DEF AskFields, Alike
    <3>3. Alike(out, n)
      BY <3>2 DEF Alike
    <3> QED BY <1>1, <1>3, <2>1, <3>1, <3>2, <3>3
  <2>2. CASE ~r.mute
    <3>1. out = a
      BY <1>3, <2>2 DEF ApplyRule
    <3> QED BY <1>1, <1>3, <2>2, <3>1
  <2> QED BY <2>1, <2>2
<1>4. CASE InForce(r, now) /\ r.filter # None
  <2>1. Matches(r.filter.match, a) <=> Matches(r.filter.match, n)
    BY MatchAlike
  <2>2. CASE ~Matches(r.filter.match, n)
    <3>1. out = a
      BY <1>4, <2>1, <2>2 DEF ApplyRule
    <3> QED BY <1>1, <1>4, <2>2, <3>1
  <2>3. CASE Matches(r.filter.match, n)
    <3>1. out = Act(r.filter, a)
      BY <1>4, <2>1, <2>3 DEF ApplyRule
    <3>2. r.filter.verb # "reprioritize"
      BY <1>4 DEF Ordinary
    <3>3. /\ DOMAIN out = AskFields /\ Alike(out, a)
          /\ out.status = IF r.filter.verb \in {"mute", "surface"}
                            THEN IF r.filter.verb = "mute" THEN "muted" ELSE "open"
                            ELSE a.status
          /\ out.auto = IF r.filter.verb = "auto_answer" THEN r.filter.arg ELSE a.auto
      BY <3>1, <3>2, ActIs
    <3>4. Alike(out, n)
      BY <3>3 DEF Alike
    <3>5. i \in S => StatusBy(r) = IF r.filter.verb = "mute" THEN "muted" ELSE "open"
      BY <1>4 DEF StatusBy
    <3> HIDE DEF out, r
    <3> QED BY <1>1, <1>4, <2>3, <3>3, <3>4, <3>5 DEF r
  <2> QED BY <2>2, <2>3
<1> QED BY <1>2, <1>3, <1>4

(* The last in an order of those that bear has the last word.              *)
Speak(len, order, B, says, word) ==
    \A k \in 1 .. len : word[k] = IF order[k] \in B THEN says[order[k]] ELSE word[k - 1]

(* By induction over the order.                                            *)
LEMMA LastWord ==
    ASSUME NEW len \in Nat, NEW order, NEW B, NEW says, NEW word, Speak(len, order, B, says, word)
    PROVE  \/ (\A j \in 1 .. len : order[j] \notin B) /\ word[len] = word[0]
           \/ \E j \in 1 .. len : /\ order[j] \in B /\ word[len] = says[order[j]]
                                  /\ \A l \in 1 .. len : l > j => order[l] \notin B
<1> DEFINE Said(k) ==
             \/ (\A j \in 1 .. k : order[j] \notin B) /\ word[k] = word[0]
             \/ \E j \in 1 .. k : /\ order[j] \in B /\ word[k] = says[order[j]]
                                  /\ \A l \in 1 .. k : l > j => order[l] \notin B
           S == {k \in Nat : k <= len => Said(k)}
<1> USE DEF Speak
<1>1. 0 \in S
  OBVIOUS
<1>2. \A k \in S : k + 1 \in S
  <2> SUFFICES ASSUME NEW k \in Nat, k + 1 <= len, Said(k) PROVE Said(k + 1)
    OBVIOUS
  <2>1. k + 1 \in 1 .. len /\ (k + 1) - 1 = k
    OBVIOUS
  <2>2. \A j \in 1 .. k + 1 : j \in 1 .. k \/ j = k + 1
    OBVIOUS
  <2>3. CASE order[k + 1] \in B
    <3>1. word[k + 1] = says[order[k + 1]]
      BY <2>1, <2>3
    <3>2. k + 1 \in 1 .. k + 1 /\ \A l \in 1 .. k + 1 : ~(l > k + 1)
      OBVIOUS
    <3> QED BY <2>3, <3>1, <3>2
  <2>4. CASE order[k + 1] \notin B
    <3>1. word[k + 1] = word[k]
      BY <2>1, <2>4
    <3>2. CASE (\A j \in 1 .. k : order[j] \notin B) /\ word[k] = word[0]
      BY <2>2, <2>4, <3>1, <3>2
    <3>3. ASSUME NEW j \in 1 .. k, order[j] \in B, word[k] = says[order[j]],
                 \A l \in 1 .. k : l > j => order[l] \notin B
          PROVE  Said(k + 1)
      <4>1. j \in 1 .. k + 1
        OBVIOUS
      <4>2. \A l \in 1 .. k + 1 : l > j => order[l] \notin B
        BY <2>2, <2>4, <3>3
      <4> QED BY <3>1, <3>3, <4>1, <4>2
    <3> QED BY <3>2, <3>3
  <2> QED BY <2>3, <2>4
<1>3. len \in S
  <2>1. S \subseteq Nat
    OBVIOUS
  <2> HIDE DEF S
  <2> QED BY <1>1, <1>2, <2>1, AllNumbers
<1> QED BY <1>3

(* It is the one of the lowest priority, the oldest among equals.          *)
LEMMA DeciderIs ==
    ASSUME NEW list, NEW len \in Nat, DOMAIN list = 1 .. len,
           \A i \in 1 .. len : list[i].priority \in Int, Ordinary(list),
           NEW B \in SUBSET (1 .. len), NEW j \in 1 .. len, EvaluationOrder(list)[j] \in B,
           \A l \in 1 .. len : l > j => EvaluationOrder(list)[l] \notin B
    PROVE  Decider(list, B) = EvaluationOrder(list)[j]
<1> DEFINE order == EvaluationOrder(list)
           Over(h, i) == \/ list[h].priority < list[i].priority
                         \/ list[h].priority = list[i].priority /\ h > i
<1>1. /\ order \in [1 .. len -> 1 .. len]
      /\ \A i \in 1 .. len : \E k \in 1 .. len : order[k] = i
      /\ \A k, l \in 1 .. len : k < l => Before(list, order[k], order[l])
  BY EvaluationOrderSorts
<1>2. \A h, i \in 1 .. len : Before(list, i, h) => Over(h, i)
  <2> SUFFICES ASSUME NEW h \in 1 .. len, NEW i \in 1 .. len, Before(list, i, h) PROVE Over(h, i)
    OBVIOUS
  <2>1. /\ SortKey(list[h].priority) = -list[h].priority
        /\ SortKey(list[i].priority) = -list[i].priority
    BY KeysAre DEF Ordinary
  <2>2. list[h].priority \in Int /\ list[i].priority \in Int
    OBVIOUS
  <2>3. \/ -list[i].priority < -list[h].priority
        \/ -list[i].priority = -list[h].priority /\ i < h
    BY <2>1 DEF Before
  <2> QED BY <2>2, <2>3
<1> HIDE DEF order
<1>3. \A i \in B \ {order[j]} : Over(order[j], i)
  <2> TAKE i \in B \ {order[j]}
  <2>1. PICK l \in 1 .. len : order[l] = i
    BY <1>1
  <2>2. l < j
    BY <2>1 DEF order
  <2> HIDE DEF Over
  <2> QED BY <1>1, <1>2, <2>1, <2>2
<1>4. \A h, i \in B : Over(h, i) /\ Over(i, h) => FALSE
  <2> TAKE h, i \in B
  <2>1. list[h].priority \in Int /\ list[i].priority \in Int /\ h \in Int /\ i \in Int
    OBVIOUS
  <2> QED BY <2>1
<1> DEFINE Best(h) == \A i \in B \ {h} : Over(h, i)
<1>5. order[j] \in B /\ Best(order[j])
  BY <1>3 DEF order
<1>6. Decider(list, B) = CHOOSE h \in B : Best(h)
  BY DEF Decider
<1>7. Decider(list, B) \in B /\ Best(Decider(list, B))
  <2> HIDE DEF Best
  <2> QED BY <1>5, <1>6, Zenon
<1> HIDE DEF Over
<1> QED BY <1>4, <1>5, <1>7 DEF order

(* evaluate (rules.rs:12), for any list of rules and any ask: of the rules *)
(* that bear on it the one of the lowest priority has its way with its     *)
(* status, and likewise with its automatic answer.                         *)
THEOREM EvaluateDecides ==
    ASSUME NEW list, Len(list) \in Nat, DOMAIN list = 1 .. Len(list),
           \A i \in DOMAIN list : list[i].priority \in Int,
           NEW n, DOMAIN n = AskFields
    PROVE  DecidedByLowest(list, n, Evaluate(list, n, now))
<1> DEFINE len == Len(list)
           order == EvaluationOrder(list)
           after == Applied(list, n, now)
           S == Bears(list, n, {"mute", "surface"})
           A == Bears(list, n, {"auto_answer"})
           out == Evaluate(list, n, now)
<1>0. len \in Nat /\ DOMAIN list = 1 .. len
  OBVIOUS
<1>a. \A i \in 1 .. len : list[i].priority \in Int
  OBVIOUS
<1> SUFFICES ASSUME Ordinary(list)
             PROVE  /\ out.status = IF S = {} THEN "open" ELSE StatusBy(list[Decider(list, S)])
                    /\ out.auto = IF A = {} \/ n.kind = "approval" THEN None
                                  ELSE list[Decider(list, A)].filter.arg
  BY DEF DecidedByLowest
<1>1. /\ order \in [1 .. len -> 1 .. len]
      /\ \A i \in 1 .. len : \E k \in 1 .. len : order[k] = i
  BY EvaluationOrderSorts
<1>2. /\ after[0] = [n EXCEPT !.status = "open", !.auto = None]
      /\ \A k \in 1 .. len : after[k] = ApplyRule(list[order[k]], after[k - 1], now)
  <2>1. EachApplied(after, list, n, now)
    BY AppliedIs
  <2> HIDE DEF after
  <2> QED BY <2>1 DEF EachApplied
<1>3. out.status = after[len].status /\ out.auto = AutoAnswerOf(n.kind, after[len].auto)
  BY DEF Evaluate
<1>4. S \in SUBSET (1 .. len) /\ A \in SUBSET (1 .. len)
  BY DEF Bears
<1> HIDE DEF len, order, after, S, A, out
<1>5. \A k \in 0 .. len : DOMAIN after[k] = AskFields /\ Alike(after[k], n)
  <2> DEFINE K == {k \in Nat : k <= len => DOMAIN after[k] = AskFields /\ Alike(after[k], n)}
  <2>1. 0 \in K
    BY <1>2 DEF AskFields, Alike
  <2>2. \A k \in K : k + 1 \in K
    <3> SUFFICES ASSUME NEW k \in Nat, k + 1 <= len,
                        DOMAIN after[k] = AskFields, Alike(after[k], n)
                 PROVE  DOMAIN after[k + 1] = AskFields /\ Alike(after[k + 1], n)
      BY <1>0
    <3>1. k + 1 \in 1 .. len /\ (k + 1) - 1 = k
      BY <1>0
    <3>2. after[k + 1] = ApplyRule(list[order[k + 1]], after[k], now)
      BY <1>2, <3>1
    <3>3. order[k + 1] \in DOMAIN list
      BY <1>0, <1>1, <3>1
    <3> DEFINE i == order[k + 1]
               a == after[k]
    <3>4. /\ i \in DOMAIN list /\ DOMAIN a = AskFields /\ Alike(a, n)
          /\ after[k + 1] = ApplyRule(list[i], a, now)
      BY <3>2, <3>3
    <3> HIDE DEF i, a
    <3> QED BY <3>4, ApplyIs
  <2>3. K = Nat
    <3>1. K \subseteq Nat
      OBVIOUS
    <3> HIDE DEF K
    <3> QED BY <2>1, <2>2, <3>1, AllNumbers
  <2> QED BY <1>0, <2>3
<1>6. \A k \in 1 .. len :
         /\ after[k].status = IF order[k] \in S THEN StatusBy(list[order[k]])
                              ELSE after[k - 1].status
         /\ after[k].auto = IF order[k] \in A THEN list[order[k]].filter.arg
                            ELSE after[k - 1].auto
  <2> TAKE k \in 1 .. len
  <2>1. k - 1 \in 0 .. len
    BY <1>0
  <2>2. order[k] \in DOMAIN list
    BY <1>0, <1>1
  <2> QED BY <1>2, <1>5, <2>1, <2>2, ApplyIs DEF S, A
<1>7. after[0].status = "open" /\ after[0].auto = None
  BY <1>2 DEF AskFields
<1>8. \A B \in SUBSET (1 .. len) : B # {} => \E j \in 1 .. len : order[j] \in B
  BY <1>1
<1>9. after[len].status = IF S = {} THEN "open" ELSE StatusBy(list[Decider(list, S)])
  <2> DEFINE word == [k \in 0 .. len |-> after[k].status]
             says == [i \in 1 .. len |-> StatusBy(list[i])]
  <2>1. Speak(len, order, S, says, word)
    <3> SUFFICES ASSUME NEW k \in 1 .. len
                 PROVE  word[k] = IF order[k] \in S THEN says[order[k]] ELSE word[k - 1]
      BY DEF Speak
    <3>1. k \in 0 .. len /\ k - 1 \in 0 .. len
      BY <1>0
    <3>2. order[k] \in 1 .. len
      BY <1>1
    <3> QED BY <1>6, <3>1, <3>2
  <2>2. word[len] = after[len].status /\ word[0] = after[0].status
    BY <1>0
  <2>3. \A i \in 1 .. len : says[i] = StatusBy(list[i])
    OBVIOUS
  <2> HIDE DEF word, says
  <2>4. CASE (\A j \in 1 .. len : order[j] \notin S) /\ word[len] = word[0]
    BY <1>4, <1>7, <1>8, <2>2, <2>4
  <2>5. ASSUME NEW j \in 1 .. len, order[j] \in S, word[len] = says[order[j]],
               \A l \in 1 .. len : l > j => order[l] \notin S
        PROVE  after[len].status = StatusBy(list[Decider(list, S)])
    <3>1. Decider(list, S) = order[j]
      BY <1>0, <1>a, <1>4, <2>5, DeciderIs DEF order
    <3>2. order[j] \in 1 .. len
      BY <1>1
    <3> QED BY <2>2, <2>3, <2>5, <3>1, <3>2
  <2>6. \/ (\A j \in 1 .. len : order[j] \notin S) /\ word[len] = word[0]
        \/ \E j \in 1 .. len : /\ order[j] \in S /\ word[len] = says[order[j]]
                               /\ \A l \in 1 .. len : l > j => order[l] \notin S
    BY <1>0, <2>1, LastWord
  <2> QED BY <2>4, <2>5, <2>6
<1>10. after[len].auto = IF A = {} THEN None ELSE list[Decider(list, A)].filter.arg
  <2> DEFINE word == [k \in 0 .. len |-> after[k].auto]
             says == [i \in 1 .. len |-> list[i].filter.arg]
  <2>1. Speak(len, order, A, says, word)
    <3> SUFFICES ASSUME NEW k \in 1 .. len
                 PROVE  word[k] = IF order[k] \in A THEN says[order[k]] ELSE word[k - 1]
      BY DEF Speak
    <3>1. k \in 0 .. len /\ k - 1 \in 0 .. len
      BY <1>0
    <3>2. order[k] \in 1 .. len
      BY <1>1
    <3> QED BY <1>6, <3>1, <3>2
  <2>2. word[len] = after[len].auto /\ word[0] = after[0].auto
    BY <1>0
  <2>3. \A i \in 1 .. len : says[i] = list[i].filter.arg
    OBVIOUS
  <2> HIDE DEF word, says
  <2>4. CASE (\A j \in 1 .. len : order[j] \notin A) /\ word[len] = word[0]
    BY <1>4, <1>7, <1>8, <2>2, <2>4
  <2>5. ASSUME NEW j \in 1 .. len, order[j] \in A, word[len] = says[order[j]],
               \A l \in 1 .. len : l > j => order[l] \notin A
        PROVE  after[len].auto = list[Decider(list, A)].filter.arg
    <3>1. Decider(list, A) = order[j]
      BY <1>0, <1>a, <1>4, <2>5, DeciderIs DEF order
    <3>2. order[j] \in 1 .. len
      BY <1>1
    <3> QED BY <2>2, <2>3, <2>5, <3>1, <3>2
  <2>6. \/ (\A j \in 1 .. len : order[j] \notin A) /\ word[len] = word[0]
        \/ \E j \in 1 .. len : /\ order[j] \in A /\ word[len] = says[order[j]]
                               /\ \A l \in 1 .. len : l > j => order[l] \notin A
    BY <1>0, <2>1, LastWord
  <2> QED BY <2>4, <2>5, <2>6
<1> QED BY <1>3, <1>9, <1>10 DEF AutoAnswerOf

(* An ask is judged by the rules of one listing, as they stand.            *)
LEMMA OnlyReadRulesJudges ==
    ASSUME IntakeInv, IntakeNext, NEW r \in Requests, Judged(r)
    PROVE  ReadRules(r)
<1> USE DEF Judged
<1>1. DOMAIN apc = Requests /\ apc[r] = "rules" /\ apc'[r] = "store"
  BY DEF IntakeInv, IntakeShape
<1>2. apc' # apc
  BY <1>1
<1>3. ~(Tick \/ \E id \in RuleIds : DeleteRule(id))
  BY <1>2 DEF Tick, DeleteRule, askVars
<1>4. ASSUME NEW c \in Creations,
             \/ \E body \in RuleLines : CreateArrives(c, body)
             \/ RouterCompiles(c) \/ InsertRule(c) \/ CreateStops(c)
      PROVE  FALSE
  BY <1>2, <1>4 DEF CreateArrives, RouterCompiles, InsertRule, CreateStops, askVars
<1>5. ASSUME NEW q \in Requests,
             \/ \E a \in Asks : AskArrives(q, a)
             \/ LookupKey(q) \/ LookupFails(q) \/ Prepare(q)
             \/ AutoAnswer(q) \/ StoreCard(q) \/ AskStops(q)
      PROVE  FALSE
  <2>1. \E v \in {"prepare", "lookup", "ok", "rules", "failed"} : apc' = [apc EXCEPT ![q] = v]
    BY <1>5 DEF AskArrives, LookupKey, LookupFails, Prepare, AutoAnswer, StoreCard, AskStops
  <2> QED BY <1>1, <2>1
<1>6. ASSUME NEW q \in Requests, ReadRules(q)
      PROVE  ReadRules(r)
  <2>1. apc' = [apc EXCEPT ![q] = "store"]
    BY <1>6 DEF ReadRules
  <2>2. q = r
    BY <1>1, <2>1
  <2> QED BY <1>6, <2>2
<1> QED BY <1>3, <1>4, <1>5, <1>6 DEF IntakeNext

(* What list_rules returns is a sequence, and its priorities are integers. *)
LEMMA ListingIs ==
    ASSUME RulesInv, NEW list \in Listings
    PROVE  /\ Len(list) \in Nat /\ DOMAIN list = 1 .. Len(list)
           /\ \A i \in DOMAIN list : list[i].priority \in Int
<1>1. /\ IsFiniteSet(rules) /\ Cardinality(rules) \in Nat
      /\ \A x \in rules : x.priority \in Int
  BY FS_CardinalityType DEF RulesInv, RulesNamed
<1>2. list \in [1 .. Cardinality(rules) -> rules]
  BY DEF Listings, SetToSeqs
<1>3. list \in Seq(rules)
  BY <1>1, <1>2
<1>4. Len(list) \in Nat /\ DOMAIN list = 1 .. Len(list)
  BY <1>3
<1> QED BY <1>1, <1>2, <1>4

(* So an ask is judged by the lowest priority of that listing.             *)
LEMMA JudgedByLowest ==
    ASSUME IntakeInv, RulesInv, IntakeNext, NEW r \in Requests, Judged(r)
    PROVE  \E list \in Listings : DecidedByLowest(list, ask[r], verdict'[r])
<1>1. ReadRules(r)
  BY OnlyReadRulesJudges
<1>2. PICK list \in Listings : verdict' = [verdict EXCEPT ![r] = Evaluate(list, ask[r], now)]
  BY <1>1 DEF ReadRules
<1>3. verdict'[r] = Evaluate(list, ask[r], now)
  BY <1>2 DEF IntakeInv, IntakeShape
<1>4. /\ Len(list) \in Nat /\ DOMAIN list = 1 .. Len(list)
      /\ \A i \in DOMAIN list : list[i].priority \in Int
  BY ListingIs
<1>5. DOMAIN ask[r] = AskFields
  BY <1>1 DEF ReadRules, IntakeInv, Intake, Checked
<1>6. DecidedByLowest(list, ask[r], Evaluate(list, ask[r], now))
  BY <1>4, <1>5, EvaluateDecides
<1> QED BY <1>3, <1>6

-----------------------------------------------------------------------------
(* What AskLifecycle takes POST /ask for, its AskInsert.  The status it    *)
(* knows the ask of a request by:                                          *)
InsertedAs(r) ==
    IF card[r] # None THEN card[r].status ELSE IF reply[r] = r THEN "norow" ELSE "unasked"

(* At most one new ask at a time, open or muted or, if it is no approval,  *)
(* answered without a row; the card of an ask that is there stays as it is.*)
OneIsInserted ==
    \/ \A r \in Requests : InsertedAs(r)' = InsertedAs(r) /\ card'[r] = card[r]
    \/ \E r \in Requests :
          /\ InsertedAs(r) = "unasked"
          /\ InsertedAs(r)' \in {"open", "muted", "norow"}
          /\ InsertedAs(r)' = "norow" => ask[r].kind # "approval"
          /\ card'[r] # None => (card'[r].kind = "approval" <=> ask[r].kind = "approval")
          /\ \A q \in Requests \ {r} :
                InsertedAs(q)' = InsertedAs(q) /\ card'[q] = card[q]

(* The INSERT, or the automatic answer, makes one ask known.               *)
LEMMA RequestInserts ==
    ASSUME IntakeInv, NEW r \in Requests, AutoAnswer(r) \/ StoreCard(r)
    PROVE  OneIsInserted
<1>1. /\ apc[r] = "store" /\ reply'[r] = r
      /\ \A q \in Requests \ {r} : card'[q] = card[q] /\ reply'[q] = reply[q]
  BY DEF AutoAnswer, StoreCard, IntakeInv, IntakeShape
<1>2. /\ card[r] = None /\ reply[r] = None /\ Checked(r) /\ r # None
      /\ ask[r].kind = "approval" => verdict[r].auto = None
  BY <1>1, IntakeAssumption DEF IntakeInv, Intake, RowIsOf
<1>3. /\ InsertedAs(r) = "unasked"
      /\ \A q \in Requests \ {r} : InsertedAs(q)' = InsertedAs(q)
  BY <1>1, <1>2 DEF InsertedAs
<1>4. CASE AutoAnswer(r)
  <2>1. card'[r] = None /\ ask[r].kind # "approval" /\ InsertedAs(r)' = "norow"
    BY <1>1, <1>2, <1>4 DEF AutoAnswer, InsertedAs
  <2> QED BY <1>1, <1>3, <2>1 DEF OneIsInserted
<1>5. CASE StoreCard(r)
  <2>1. card'[r] = CardOf(ask[r], verdict[r].status = "muted", ask[r].key)
    BY <1>5 DEF StoreCard, IntakeInv, IntakeShape
  <2>2. card'[r] \in CardRows /\ card'[r].kind = ask[r].kind
    BY <1>2, <2>1 DEF CardOf, CardRows, Checked
  <2>3. card'[r] # None /\ card'[r].status \in {"open", "muted"}
    BY <2>2, IntakeAssumption DEF CardRows
  <2>4. InsertedAs(r)' \in {"open", "muted"}
    BY <2>3 DEF InsertedAs
  <2> QED BY <1>1, <1>3, <2>2, <2>4 DEF OneIsInserted
<1> QED BY <1>4, <1>5

(* No other step makes an ask known: a lookup answers with one that is.    *)
LEMMA StepInserts == ASSUME IntakeInv, [IntakeNext]_vars PROVE OneIsInserted
<1>1. ASSUME UNCHANGED <<card, reply>> PROVE OneIsInserted
  BY <1>1 DEF OneIsInserted, InsertedAs
<1>2. CASE Tick \/ UNCHANGED vars
  BY <1>1, <1>2 DEF Tick, vars, askVars
<1>3. ASSUME NEW c \in Creations,
             \/ \E body \in RuleLines : CreateArrives(c, body)
             \/ RouterCompiles(c) \/ InsertRule(c) \/ CreateStops(c)
      PROVE  OneIsInserted
  BY <1>1, <1>3 DEF CreateArrives, RouterCompiles, InsertRule, CreateStops, askVars
<1>4. ASSUME NEW id \in RuleIds, DeleteRule(id) PROVE OneIsInserted
  BY <1>1, <1>4 DEF DeleteRule, askVars
<1>5. ASSUME NEW r \in Requests,
             \/ \E a \in Asks : AskArrives(r, a)
             \/ LookupFails(r) \/ Prepare(r) \/ ReadRules(r) \/ AskStops(r)
      PROVE  OneIsInserted
  BY <1>1, <1>5 DEF AskArrives, LookupFails, Prepare, ReadRules, AskStops
<1>6. ASSUME NEW r \in Requests, LookupKey(r) PROVE OneIsInserted
  <2>1. /\ apc[r] = "lookup" /\ UNCHANGED card
        /\ reply' = reply \/ \E q \in SameKey(ask[r].key) : reply' = [reply EXCEPT ![r] = q]
    BY <1>6 DEF LookupKey, RecentCards
  <2>2. card[r] = None /\ reply[r] = None /\ r # None /\ DOMAIN reply = Requests
    BY <2>1, IntakeAssumption DEF IntakeInv, IntakeShape, Intake, RowIsOf
  <2>3. reply'[r] # r /\ \A q \in Requests \ {r} : reply'[q] = reply[q]
    BY <2>1, <2>2 DEF SameKey
  <2>4. \A q \in Requests : InsertedAs(q)' = InsertedAs(q) /\ card'[q] = card[q]
    BY <2>1, <2>2, <2>3 DEF InsertedAs
  <2> QED BY <2>4 DEF OneIsInserted
<1> QED BY <1>2, <1>3, <1>4, <1>5, <1>6, RequestInserts DEF IntakeNext

-----------------------------------------------------------------------------
(* --id keeps a caller from asking twice, whatever runs beside it: the     *)
(* lookup and the INSERT of post_ask.                                      *)
THEOREM KeysAreIdempotent == IntakeSpec => []OneCardPerKey
<1>1. ASSUME IntakeInv PROVE OneCardPerKey
  <2>1. \A r \in Requests : card[r] # None => LookedUp(r)
    BY <1>1 DEF IntakeInv, Intake
  <2>2. \A r \in Requests : reply[r] \notin {r, None} => ask[reply[r]].key = ask[r].key
    BY <1>1 DEF IntakeInv, Intake, RowIsOf
  <2> QED BY <2>1, <2>2 DEF OneCardPerKey, LookedUp
<1> QED BY <1>1, IntakeInvInit, IntakeInvStep, PTL DEF IntakeSpec

(* No rule and no router keeps an approval from the store, or makes one:   *)
(* post_ask and evaluate together, for any rules.                          *)
THEOREM ApprovalsReachTheStore == IntakeSpec => []ApprovalIsStored
<1>1. ASSUME IntakeInv PROVE ApprovalIsStored
  BY <1>1 DEF IntakeInv, Intake, RowIsOf, Checked, ApprovalIsStored
<1> QED BY <1>1, IntakeInvInit, IntakeInvStep, PTL DEF IntakeSpec

(* A POST /rules that answers has stored all it compiled, and exceptions   *)
(* come after their mute, for its agent and its end; one that is broken    *)
(* off, and a DELETE, may leave a part: phases 1 to 4 of create_rule and   *)
(* delete_rule, for any lines, groups, durations and priorities.           *)
THEOREM AnsweredRulesStay == IntakeSpec => []AnsweredRulesAreStored
BY RulesInvInit, RulesInvStep, RulesInvImplies, PTL DEF IntakeSpec

(* evaluate sorts by the negated priority and lets the last rule decide:   *)
(* of any number of rules that bear on an ask, the one of the lowest       *)
(* priority has its way, the oldest among equals; whatever is stored or    *)
(* deleted meanwhile.                                                      *)
THEOREM LowestPriorityHasTheLastWord == IntakeSpec => LowestPriorityDecides
<1>1. ASSUME IntakeInv, RulesInv, [IntakeNext]_vars
      PROVE  [\A r \in Requests : Judged(r) =>
                 \E list \in Listings : DecidedByLowest(list, ask[r], verdict'[r])]_vars
  BY <1>1, JudgedByLowest
<1> QED BY <1>1, IntakeInvInit, IntakeInvStep, RulesInvInit, RulesInvStep, PTL
        DEF IntakeSpec, LowestPriorityDecides

(* Whatever the rules, the router, lookups that fail and clients that      *)
(* leave do, POST /ask is for the rest of the daemon what AskLifecycle     *)
(* takes it for: asks appear one at a time, open, muted or answered        *)
(* without a row, which an approval never is, and a row that is there is   *)
(* not written again (post_ask, from the lookup to the INSERT).            *)
THEOREM AsksAppearAsInserted == IntakeSpec => [][OneIsInserted]_vars
<1>1. ASSUME IntakeInv, [IntakeNext]_vars PROVE [OneIsInserted]_vars
  BY <1>1, StepInserts
<1> QED BY <1>1, IntakeInvInit, IntakeInvStep, PTL DEF IntakeSpec
=============================================================================
