------------------------------ MODULE AskIntake ------------------------------
(***************************************************************************)
(* POST /ask up to the row it inserts, and the requests that change the    *)
(* rules it is judged by: POST /rules and DELETE /rules/{id}.  Each query  *)
(* of a handler is a step; between two of them other handlers run.  A      *)
(* request whose query fails, or whose client leaves, stops where it is.   *)
(* Rules and cards are created at most once per request, so a request's    *)
(* own name stands for the id it generates.                                *)
(***************************************************************************)
EXTENDS RuleCompiler

CONSTANTS Requests,     (* POST /ask requests                              *)
          Creations,    (* POST /rules requests                            *)
          Asks,         (* what a caller may ask: records, see Arrive      *)
          RuleLines,    (* what a user may post to /rules                  *)
          RouterFilters,(* filters the AI router may compile               *)
          Suggestions,  (* <<renderer, urgency or None>> the router may suggest *)
          Window,       (* 24 h, in ticks                                  *)
          DefaultTtl,   (* DEFAULT_APPROVAL_TTL_SECS                       *)
          MaxTime       (* bound on the clock                              *)

AskFields == {"key", "asked", "kind", "agent", "src", "question", "urgency", "deadline",
              "ttl", "once", "status", "auto", "at"}

(* What a row and a look at one may be; none of it is the absent value.    *)
CardRows == [key : {a.key : a \in Asks}, status : {"open", "muted"},
             kind : {"ack"} \cup {a.kind : a \in Asks} \cup {s[1] : s \in Suggestions},
             ttl : Int \cup {None}, once : BOOLEAN \cup {None}, at : Nat]
Looks == [failed : BOOLEAN, at : Nat]

ASSUME IntakeAssumption ==
    /\ None \notin Requests \cup Creations \cup Nat \cup CardRows \cup Looks
    /\ None # "approval"
    /\ DefaultTtl \in Nat \ {0} /\ Window \in Nat /\ MaxTime \in Nat

(* An ask arrives with the type its caller gave, if any.                   *)
ASSUME AsksAssumption ==
    \A a \in Asks : /\ DOMAIN a = AskFields /\ a.kind = a.asked
                    /\ a.ttl \in Int \cup {None} /\ a.once \in BOOLEAN \cup {None}

(* A priority is a number of the request, or the phase's own.              *)
ASSUME RuleLinesAssumption == \A b \in RuleLines : b.priority \in Int \cup {None}

VARIABLES
    now,
    rules,    (* the rules table                                           *)
    crpc,     (* what a creation does next                                 *)
    creation, (* its rows, how many are in, and when it arrived            *)
    apc,      (* what an ask does next                                     *)
    ask,      (* the ask as the handler holds it                           *)
    verdict,  (* what the rules made of it                                 *)
    card,     (* notifications table: the row this request inserted        *)
    reply,    (* the id a request was answered with                        *)
    (* History, read by properties only. *)
    deleted,  (* ids of the rules deleted so far                           *)
    earlier,  (* the rows with its caller id that an ask arrived after     *)
    looked    (* how and when an ask looked its key up                     *)

ruleVars == <<rules, crpc, creation, deleted>>
askVars == <<apc, ask, verdict, card, reply, earlier, looked>>
vars == <<now, ruleVars, askVars>>

RuleIds == {r.id : r \in rules}
NoCreation == [rows |-> <<>>, done |-> 0, at |-> 0, body |-> None]

IntakeInit ==
    /\ now = 0
    /\ rules = {} /\ deleted = {}
    /\ crpc = [c \in Creations |-> "idle"]
    /\ creation = [c \in Creations |-> NoCreation]
    /\ apc = [r \in Requests |-> "idle"]
    /\ ask = [r \in Requests |-> None]
    /\ verdict = [r \in Requests |-> None]
    /\ card = [r \in Requests |-> None]
    /\ reply = [r \in Requests |-> None]
    /\ earlier = [r \in Requests |-> {}]
    /\ looked = [r \in Requests |-> None]

Tick ==
    /\ now < MaxTime
    /\ now' = now + 1
    /\ UNCHANGED <<ruleVars, askVars>>

-----------------------------------------------------------------------------
(* POST /rules: phases 1 to 3 are computed at once, phase 4 asks the       *)
(* router first.  All rows of a request carry the time it arrived.         *)
Absolute(expires, at) == IF expires = None THEN None ELSE at + expires

CreateArrives(c, body) ==
    /\ crpc[c] = "idle"
    /\ LET plan == OfflinePlan(body) IN
       /\ crpc' = [crpc EXCEPT ![c] = IF plan = None THEN "router" ELSE "insert"]
       /\ creation' = [creation EXCEPT ![c] =
             [rows |-> IF plan = None THEN <<>> ELSE plan, done |-> 0, at |-> now,
              body |-> IF plan = None THEN body ELSE None]]
    /\ UNCHANGED <<now, rules, deleted, askVars>>

(* A router that is missing or fails compiles nothing.                     *)
RouterCompiles(c) ==
    /\ crpc[c] = "router"
    /\ \E f \in RouterFilters \cup {None} :
          creation' = [creation EXCEPT ![c].rows = RouterPlan(creation[c].body, f),
                                       ![c].body = None]
    /\ crpc' = [crpc EXCEPT ![c] = "insert"]
    /\ UNCHANGED <<now, rules, deleted, askVars>>

StoredRule(c, i, row, at) ==
    [id |-> <<c, i>>, at |-> at, filter |-> row.filter, mute |-> row.mute,
     priority |-> row.priority, expires |-> Absolute(row.expires, at)]

(* Mutant of InsertRule: a row that cannot be inserted is passed over.     *)
InsertRuleOrSkip(c) ==
    LET k == creation[c]
        i == k.done + 1
    IN  /\ crpc[c] = "insert" /\ i \in DOMAIN k.rows
        /\ rules' \in {rules, rules \cup {StoredRule(c, i, k.rows[i], k.at)}}
        /\ creation' = [creation EXCEPT ![c].done = i]
        /\ crpc' = [crpc EXCEPT ![c] = IF i = Len(k.rows) THEN "ok" ELSE @]
        /\ UNCHANGED <<now, deleted, askVars>>

(* One INSERT of the request, outside any transaction, while it has a row  *)
(* left; the reply lists the rules once all are in.                        *)
InsertRule(c) ==
    LET k == creation[c]
        i == k.done + 1
    IN  /\ crpc[c] = "insert" /\ i \in DOMAIN k.rows
        /\ rules' = rules \cup {StoredRule(c, i, k.rows[i], k.at)}
        /\ creation' = [creation EXCEPT ![c].done = i]
        /\ crpc' = [crpc EXCEPT ![c] = IF i = Len(k.rows) THEN "ok" ELSE @]
        /\ UNCHANGED <<now, deleted, askVars>>

(* The rows already inserted stay.                                         *)
CreateStops(c) ==
    /\ crpc[c] \in {"router", "insert"}
    /\ crpc' = [crpc EXCEPT ![c] = "failed"]
    /\ creation' = [creation EXCEPT ![c] = NoCreation]
    /\ UNCHANGED <<now, rules, deleted, askVars>>

DeleteRule(id) ==
    /\ rules' = {r \in rules : r.id # id}
    /\ deleted' = deleted \cup {id}
    /\ UNCHANGED <<now, crpc, creation, askVars>>

(* ORDER BY created_at DESC says nothing about rules created together.     *)
Listings ==
    {s \in SetToSeqs(rules) : \A i, j \in DOMAIN s : i < j => s[i].at >= s[j].at}

-----------------------------------------------------------------------------
(* POST /ask.  A card is a row with the caller's idempotency key.          *)
SameKey(key) == {r \in Requests : card[r] # None /\ card[r].key = key}

AskArrives(r, a) ==
    /\ apc[r] = "idle"
    /\ apc' = [apc EXCEPT ![r] = IF a.key = None THEN "prepare" ELSE "lookup"]
    /\ ask' = [ask EXCEPT ![r] = a]
    /\ earlier' = [earlier EXCEPT ![r] =
          IF a.key = None THEN {}
          ELSE {q \in Requests : card[q] # None /\ ask[q].key = a.key}]
    /\ UNCHANGED <<now, ruleVars, verdict, card, reply, looked>>

(* The rows of the last 24 hours, newest first; a failed query counts as   *)
(* nothing found.                                                          *)
RecentCards(key) == {q \in SameKey(key) : card[q].at > now - Window}

(* Mutant of LookupKey: the key is not looked up.                          *)
SkipLookup(r) ==
    /\ apc[r] = "lookup"
    /\ apc' = [apc EXCEPT ![r] = "prepare"]
    /\ UNCHANGED <<now, ruleVars, ask, verdict, card, reply, earlier, looked>>

LookupKey(r) ==
    /\ apc[r] = "lookup"
    /\ LET found == RecentCards(ask[r].key) IN
       \/ \E q \in found :
             /\ \A p \in found : card[p].at <= card[q].at
             /\ reply' = [reply EXCEPT ![r] = q]
             /\ apc' = [apc EXCEPT ![r] = "ok"]
             /\ UNCHANGED looked
       \/ /\ found = {}
          /\ apc' = [apc EXCEPT ![r] = "prepare"]
          /\ looked' = [looked EXCEPT ![r] = [failed |-> FALSE, at |-> now]]
          /\ UNCHANGED reply
    /\ UNCHANGED <<now, ruleVars, ask, verdict, card, earlier>>

LookupFails(r) ==
    /\ apc[r] = "lookup"
    /\ apc' = [apc EXCEPT ![r] = "prepare"]
    /\ looked' = [looked EXCEPT ![r] = [failed |-> TRUE, at |-> now]]
    /\ UNCHANGED <<now, ruleVars, ask, verdict, card, reply, earlier>>

(* What the router suggests: a renderer and, when it is confident, an      *)
(* urgency.  A call that fails, and a daemon without a router, suggest     *)
(* nothing.                                                                *)
RouterResults == Suggestions \cup {<<None, None>>}

(* The router is asked only when the caller gave no type, and never makes  *)
(* an ask an approval.                                                     *)
Classified(a) ==
    IF a.kind # None THEN {a}
    ELSE {[a EXCEPT !.kind = IF s[1] \in {None, "approval"} THEN "ack" ELSE s[1],
                    !.urgency = Or(s[2], @)] : s \in RouterResults}

(* resolve_ttl_secs: any ttl must be positive, an approval always has one. *)
TtlValid(a) == a.ttl # None => a.ttl > 0
Ttl(a) == IF a.ttl = None /\ a.kind = "approval" THEN DefaultTtl ELSE a.ttl

(* resolve_once: single use is for approvals.                              *)
OnceValid(a) == a.once = TRUE => a.kind = "approval"
Once(a) == IF a.kind = "approval" THEN a.once ELSE None

(* The request is checked and the ask built, with its creation time.       *)
Prepare(r) ==
    /\ apc[r] = "prepare"
    /\ \E a \in Classified(ask[r]) :
          \/ /\ TtlValid(a) /\ OnceValid(a)
             /\ ask' = [ask EXCEPT ![r] =
                    [a EXCEPT !.ttl = Ttl(a), !.once = Once(a), !.at = now]]
             /\ apc' = [apc EXCEPT ![r] = "rules"]
          \/ /\ ~(TtlValid(a) /\ OnceValid(a))
             /\ apc' = [apc EXCEPT ![r] = "failed"]
             /\ ask' = [ask EXCEPT ![r] = None]
    /\ UNCHANGED <<now, ruleVars, verdict, card, reply, earlier, looked>>

(* The ask is judged by the rules as one query returned them.              *)
ReadRules(r) ==
    /\ apc[r] = "rules"
    /\ \E list \in Listings :
          verdict' = [verdict EXCEPT ![r] = Evaluate(list, ask[r], now)]
    /\ apc' = [apc EXCEPT ![r] = "store"]
    /\ UNCHANGED <<now, ruleVars, ask, card, reply, earlier, looked>>

(* An auto-answer is only an UPDATE, of a row that does not exist: the id  *)
(* is handed out without a card.                                           *)
AutoAnswer(r) ==
    /\ apc[r] = "store"
    /\ verdict[r].auto # None
    /\ reply' = [reply EXCEPT ![r] = r]
    /\ apc' = [apc EXCEPT ![r] = "ok"]
    /\ verdict' = [verdict EXCEPT ![r] = None]
    /\ UNCHANGED <<now, ruleVars, ask, card, earlier, looked>>

CardOf(a, muted, key) ==
    [key |-> key, kind |-> a.kind, status |-> IF muted THEN "muted" ELSE "open",
     ttl |-> a.ttl, once |-> a.once, at |-> a.at]

(* The row is inserted open or muted, as the rules left it.                *)
StoreCard(r) ==
    /\ apc[r] = "store"
    /\ verdict[r].auto = None
    /\ card' = [card EXCEPT ![r] = CardOf(ask[r], verdict[r].status = "muted", ask[r].key)]
    /\ reply' = [reply EXCEPT ![r] = r]
    /\ apc' = [apc EXCEPT ![r] = "ok"]
    /\ verdict' = [verdict EXCEPT ![r] = None]
    /\ UNCHANGED <<now, ruleVars, ask, earlier, looked>>

AskStops(r) ==
    /\ apc[r] \in {"prepare", "rules", "store"}
    /\ apc' = [apc EXCEPT ![r] = "failed"]
    /\ ask' = [ask EXCEPT ![r] = None]
    /\ verdict' = [verdict EXCEPT ![r] = None]
    /\ UNCHANGED <<now, ruleVars, card, reply, earlier, looked>>

-----------------------------------------------------------------------------
IntakeNext ==
    \/ Tick
    \/ \E c \in Creations :
          \/ \E body \in RuleLines : CreateArrives(c, body)
          \/ RouterCompiles(c)
          \/ InsertRule(c)
          \/ CreateStops(c)
    \/ \E id \in RuleIds : DeleteRule(id)
    \/ \E r \in Requests :
          \/ \E a \in Asks : AskArrives(r, a)
          \/ LookupKey(r)
          \/ LookupFails(r)
          \/ Prepare(r)
          \/ ReadRules(r)
          \/ AutoAnswer(r)
          \/ StoreCard(r)
          \/ AskStops(r)

IntakeSpec == IntakeInit /\ [][IntakeNext]_vars

-----------------------------------------------------------------------------
(* Type correctness of the control state.                                  *)
IntakeTypeOK ==
    /\ now \in 0 .. MaxTime
    /\ crpc \in [Creations -> {"idle", "router", "insert", "ok", "failed"}]
    /\ apc \in [Requests -> {"idle", "lookup", "prepare", "rules", "store", "ok", "failed"}]
    /\ reply \in [Requests -> Requests \cup {None}]
    /\ earlier \in [Requests -> SUBSET Requests]
    /\ RuleIds \cap deleted = {}

(* --id is an idempotency key (README.md:428, handlers.rs:84): a request   *)
(* that arrived when a card with its key existed makes no second card,     *)
(* unless that card was a day old or the lookup query failed, whatever     *)
(* other requests with the key were doing meanwhile; and it is answered    *)
(* with a card of its own key.                                             *)
OneCardPerKey ==
    \A r \in Requests :
        /\ card[r] # None => \A q \in earlier[r] :
              /\ looked[r] # None
              /\ looked[r].failed \/ card[q].at + Window <= looked[r].at
        /\ reply[r] \notin {r, None} => ask[reply[r]].key = ask[r].key

(* An approval is opt-in and never escapes the store: an ask that asked    *)
(* for one and was answered has a card to post a grant for, with a ttl,    *)
(* whatever the rules said; no other ask becomes one (handlers.rs:105,     *)
(* rules.rs:77).                                                           *)
ApprovalIsStored ==
    \A r \in Requests :
        /\ apc[r] = "ok" /\ reply[r] = r /\ ask[r].asked = "approval" =>
              card[r] # None /\ card[r].kind = "approval" /\ card[r].ttl # None
        /\ card[r] # None /\ ask[r].asked # "approval" =>
              card[r].kind # "approval" /\ card[r].once = None

(* A POST /rules that was answered has stored every rule it compiled, and  *)
(* each stays until it is deleted; so a mute is without one of its         *)
(* exceptions only while the request runs, after it was broken off (the    *)
(* rows already inserted stay, nothing takes them back), or after a        *)
(* DELETE.  An exception is stored after its mute, for the same agent and  *)
(* the same end; it may outlive a mute that is deleted                     *)
(* (handlers.rs:560-607, 645-692).                                         *)
AnsweredRulesAreStored ==
    /\ \A c \in Creations : crpc[c] = "ok" =>
          \A i \in DOMAIN creation[c].rows :
              \/ StoredRule(c, i, creation[c].rows[i], creation[c].at) \in rules
              \/ <<c, i>> \in deleted
    /\ \A x \in rules : x.id[2] > 1 =>
          /\ <<x.id[1], 1>> \in RuleIds \cup deleted
          /\ \A m \in rules : m.id = <<x.id[1], 1>> =>
                /\ m.filter.verb = "mute" /\ x.filter.verb = "surface"
                /\ m.filter.match.agent = x.filter.match.agent
                /\ m.expires = x.expires

(* Which rules of a list bear on a status or an auto-answer.               *)
Bears(list, n, verbs) ==
    {i \in DOMAIN list :
        /\ InForce(list[i], now)
        /\ IF list[i].filter = None THEN list[i].mute /\ "mute" \in verbs
           ELSE list[i].filter.verb \in verbs /\ Matches(list[i].filter.match, n)}

StatusBy(rule) ==
    IF rule.filter = None \/ rule.filter.verb = "mute" THEN "muted" ELSE "open"

(* Every rule sees the urgency it was written for, and no priority wraps.  *)
Ordinary(list) ==
    \A i \in DOMAIN list : /\ list[i].priority # -(2^(Width - 1))
                           /\ list[i].filter # None => list[i].filter.verb # "reprioritize"

Decider(list, S) ==
    CHOOSE i \in S : \A j \in S \ {i} :
        \/ list[i].priority < list[j].priority
        \/ list[i].priority = list[j].priority /\ i > j

DecidedByLowest(list, n, out) ==
    LET S == Bears(list, n, {"mute", "surface"})
        A == Bears(list, n, {"auto_answer"})
    IN  Ordinary(list) =>
          /\ out.status = IF S = {} THEN "open" ELSE StatusBy(list[Decider(list, S)])
          /\ out.auto = IF A = {} \/ n.kind = "approval" THEN None
                        ELSE list[Decider(list, A)].filter.arg

Judged(r) == apc[r] = "rules" /\ apc'[r] = "store"

(* What evaluate comes to: of the rules that bear on an ask, the one with  *)
(* the lowest priority, the oldest among equals, has the last word on its  *)
(* status, and likewise on its automatic answer (rules.rs:12).             *)
LowestPriorityDecides ==
    [][\A r \in Requests : Judged(r) =>
          \E list \in Listings : DecidedByLowest(list, ask[r], verdict'[r])]_vars

-----------------------------------------------------------------------------
(* A statement of the documentation that the code does not keep.           *)

(* rules.rs:16, "highest priority wins (applied last, can override)", and  *)
(* the exceptions of rules.rs:11: a rule of higher priority than all that  *)
(* bear on an ask decides its status.                                      *)
HighestPriorityWins ==
    [][\A r \in Requests : Judged(r) =>
          \A list \in Listings :
             LET S == Bears(list, ask[r], {"mute", "surface"}) IN
             \A i \in S :
                (\A j \in S \ {i} : list[i].priority > list[j].priority) =>
                   verdict'[r].status = StatusBy(list[i])]_vars
=============================================================================
