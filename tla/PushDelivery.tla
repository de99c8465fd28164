----------------------------- MODULE PushDelivery -----------------------------
(***************************************************************************)
(* Web Push: phones register with the daemon (push_handlers.rs, the table  *)
(* push_subscriptions), a new ask is pushed to every one of them and a     *)
(* second push replaces the banner once the ask is closed.  Each push of   *)
(* an ask is a task of its own that walks a list of devices read at its    *)
(* start; the push service keeps what it accepted until the phone is       *)
(* online or the push expires.  The test push is the same walk, made by    *)
(* its handler.                                                            *)
(***************************************************************************)
EXTENDS Naturals, SequencesExt, FiniteSets

CONSTANTS Phones, Asks,
          MaxSubs  (* bound on the subscriptions a browser makes           *)

ASSUME PushAssumption == MaxSubs \in Nat

VARIABLES
    devices,   (* the rows' ids by created_at                              *)
    sub,       (* per phone: the row's subscription; 0: none               *)
    live,      (* per phone: the browser's own subscription; 0: none       *)
    made,      (* per phone: the subscriptions its browser made so far     *)
    status,    (* per ask                                                  *)
    job,       (* per push: its task                                       *)
    pending,   (* per phone: what the push service holds for it            *)
    banner,    (* per phone and ask: what it shows                         *)
    (* History, read by properties only. *)
    accepted,  (* per phone and ask: the pushes the service accepted       *)
    dropped,   (* per phone: pushes that expired or were lost              *)
    overlapped (* asks closed before their first push was over             *)

pushVars == <<devices, sub, live, made, status, job, pending, banner,
              accepted, dropped, overlapped>>
phoneVars == <<devices, sub, live, made>>
askVars == <<status, overlapped>>
serviceVars == <<pending, banner, accepted, dropped>>

Kinds == {"ask", "closed"}
Push == [ask : Asks, kind : Kinds]
Test == [ask |-> "test", kind |-> "test"]
Jobs == Push \cup {Test}
Outcomes == {"Sent", "Gone", "Failed"}

Idle == [pc |-> "idle", todo |-> <<>>, outcome |-> "Failed"]
Sending(list) == [pc |-> "send", todo |-> list, outcome |-> "Failed"]
Over(j) == job[j].pc \in {"idle", "done"}

PushInit ==
    /\ devices = <<>>
    /\ sub = [d \in Phones |-> 0] /\ live = sub /\ made = sub
    /\ status = [a \in Asks |-> "new"]
    /\ job = [j \in Jobs |-> Idle]
    /\ pending = [d \in Phones |-> {}]
    /\ banner = [d \in Phones |-> [a \in Asks |-> "none"]]
    /\ accepted = [d \in Phones |-> {}] /\ dropped = accepted
    /\ overlapped = {}

-----------------------------------------------------------------------------
(* The browser makes a new subscription, which ends the one before, or     *)
(* loses the one it has.                                                   *)
Subscribe(d) ==
    /\ made[d] < MaxSubs
    /\ made' = [made EXCEPT ![d] = @ + 1]
    /\ live' = [live EXCEPT ![d] = made[d] + 1]
    /\ UNCHANGED <<devices, sub, job, askVars, serviceVars>>

Unsubscribe(d) ==
    /\ live[d] # 0
    /\ live' = [live EXCEPT ![d] = 0]
    /\ UNCHANGED <<devices, sub, made, job, askVars, serviceVars>>

(* COALESCE: a registration without a subscription keeps the row's own.    *)
Upserted(d, given) == [sub EXCEPT ![d] = IF given = 0 THEN @ ELSE given]

(* POST /push/register: the page sends the subscription it has, or none.   *)
Register(d) ==
    /\ devices' = IF d \in Range(devices) THEN devices ELSE Append(devices, d)
    /\ sub' = Upserted(d, live[d])
    /\ UNCHANGED <<live, made, job, askVars, serviceVars>>

(* POST /push/unregister deletes the row.                                  *)
Unregister(d) ==
    /\ \E i \in DOMAIN devices : devices[i] = d /\ devices' = RemoveAt(devices, i)
    /\ sub' = [sub EXCEPT ![d] = 0]
    /\ UNCHANGED <<live, made, job, askVars, serviceVars>>

-----------------------------------------------------------------------------
Spawned(j) == [job EXCEPT ![j] = [Idle EXCEPT !.pc = "list"]]

(* The handler of POST /ask stores the ask and then spawns its push.       *)
StoreAsk(a) ==
    /\ status[a] = "new"
    /\ status' = [status EXCEPT ![a] = "Open"]
    /\ UNCHANGED <<phoneVars, job, serviceVars, overlapped>>

PushCreated(a) ==
    /\ status[a] # "new" /\ job[[ask |-> a, kind |-> "ask"]].pc = "idle"
    /\ job' = Spawned([ask |-> a, kind |-> "ask"])
    /\ overlapped' = IF status[a] = "Open" THEN overlapped ELSE overlapped \cup {a}
    /\ UNCHANGED <<phoneVars, status, serviceVars>>

(* A timed-out ask reads as open: see AskLifecycle.                        *)
ReadsOpen(a) == status[a] \in {"Open", "TimedOut"}

(* An answer, plain or a grant, a dismissal or a cancel, each of which     *)
(* spawns the closing push.  A cancel takes a closed ask too and pushes    *)
(* the same once more: left out.                                           *)
Close(a, how) ==
    /\ ReadsOpen(a)
    /\ job[[ask |-> a, kind |-> "closed"]].pc = "idle"
    /\ status' = [status EXCEPT ![a] = how]
    /\ job' = Spawned([ask |-> a, kind |-> "closed"])
    /\ overlapped' = IF job[[ask |-> a, kind |-> "ask"]].pc = "done"
                     THEN overlapped ELSE overlapped \cup {a}
    /\ UNCHANGED <<phoneVars, serviceVars>>

(* A wait past the deadline; it pushes nothing.                            *)
TimeOut(a) ==
    /\ status[a] = "Open"
    /\ status' = [status EXCEPT ![a] = "TimedOut"]
    /\ UNCHANGED <<phoneVars, job, serviceVars, overlapped>>

PushTest ==
    /\ Over(Test)
    /\ job' = Spawned(Test)
    /\ UNCHANGED <<phoneVars, askVars, serviceVars>>

-----------------------------------------------------------------------------
(* list_push_devices: the rows by created_at, with the subscription of     *)
(* each.                                                                   *)
Entry(d) == [to |-> d, sub |-> sub[d]]
Listed == [i \in DOMAIN devices |-> Entry(devices[i])]

(* The test push may be for one device only.                               *)
ListedOnly(d) == IF d \in Range(devices) THEN <<Entry(d)>> ELSE <<>>

(* push_all and test_push.                                                 *)
ListDevices(j) ==
    /\ job[j].pc = "list"
    /\ \E list \in {Listed} \cup {ListedOnly(d) : d \in {e \in Phones : j = Test}} :
          job' = [job EXCEPT ![j] = Sending(list)]
    /\ UNCHANGED <<phoneVars, askVars, serviceVars>>

(* The listing fails, or the payload is too long to be pushed.             *)
ListFails(j) ==
    /\ job[j].pc = "list"
    /\ job' = [job EXCEPT ![j].pc = "done"]
    /\ UNCHANGED <<phoneVars, askVars, serviceVars>>

JobEnds(j) ==
    /\ job[j].pc = "send" /\ job[j].todo = <<>>
    /\ job' = [job EXCEPT ![j].pc = "done"]
    /\ UNCHANGED <<phoneVars, askVars, serviceVars>>

(* The client of a test push leaves, which drops its handler.              *)
TestDropped ==
    /\ ~Over(Test)
    /\ job' = [job EXCEPT ![Test] = [Idle EXCEPT !.pc = "done"]]
    /\ UNCHANGED <<phoneVars, askVars, serviceVars>>

(* A row without a subscription is passed over.                            *)
PassOver(j) ==
    /\ job[j].pc = "send" /\ job[j].todo # <<>> /\ Head(job[j].todo).sub = 0
    /\ job' = [job EXCEPT ![j] = Sending(Tail(job[j].todo))]
    /\ UNCHANGED <<phoneVars, askVars, serviceVars>>

(* Mutant of Held: the push carries no Topic.                              *)
HeldBeside(held, j) == held \cup {j}

(* The Topic of a push is its ask: what is still held of it is replaced.   *)
Held(held, j) == {p \in held : p.ask # j.ask} \cup {j}

Accept(d, j) ==
    IF j = Test THEN UNCHANGED serviceVars
    ELSE /\ pending' = [pending EXCEPT ![d] = Held(@, j)]
         /\ accepted' = [accepted EXCEPT ![d] = @ \cup {j}]
         /\ UNCHANGED <<banner, dropped>>

(* WebPush::send: a subscription that is no longer the browser's is gone.  *)
(* A request that failed may have been accepted all the same.              *)
PushSend(j, outcome) ==
    /\ job[j].pc = "send" /\ job[j].todo # <<>> /\ Head(job[j].todo).sub # 0
    /\ LET d == Head(job[j].todo).to
           current == Head(job[j].todo).sub = live[d]
       IN  /\ outcome = "Gone" => ~current
           /\ outcome = "Sent" => current
           /\ \/ outcome # "Gone" /\ current /\ Accept(d, j)
              \/ outcome # "Sent" /\ UNCHANGED serviceVars
    /\ job' = [job EXCEPT ![j].pc = "record", ![j].outcome = outcome]
    /\ UNCHANGED <<phoneVars, askVars>>

(* Mutant of Cleared: an error forgets the subscription too.               *)
ClearedOnFailure(outcome) == outcome # "Sent"

(* Only a push service that knows the subscription no more clears it.      *)
Cleared(outcome) == outcome = "Gone"

(* record_outcome: the time and the error of the last push are not         *)
(* modelled; an update that fails is logged.                               *)
RecordOutcome(j) ==
    /\ job[j].pc = "record"
    /\ LET d == Head(job[j].todo).to
       IN  sub' \in {sub, IF Cleared(job[j].outcome) THEN [sub EXCEPT ![d] = 0] ELSE sub}
    /\ job' = [job EXCEPT ![j] = Sending(Tail(job[j].todo))]
    /\ UNCHANGED <<devices, live, made, askVars, serviceVars>>

-----------------------------------------------------------------------------
(* phone-sw.js: every push shows a banner; those of one ask share a tag,   *)
(* so that the later replaces the earlier.                                 *)
PushDeliver(d, p) ==
    /\ p \in pending[d]
    /\ pending' = [pending EXCEPT ![d] = @ \ {p}]
    /\ banner' = [banner EXCEPT ![d][p.ask] = p.kind]
    /\ UNCHANGED <<phoneVars, askVars, job, accepted, dropped>>

(* The TTL ends, or the subscription with what was held for it.            *)
Expire(d, p) ==
    /\ p \in pending[d]
    /\ pending' = [pending EXCEPT ![d] = @ \ {p}]
    /\ dropped' = [dropped EXCEPT ![d] = @ \cup {p}]
    /\ UNCHANGED <<phoneVars, askVars, job, banner, accepted>>

(* notificationclick closes the banner.                                    *)
Tap(d, a) ==
    /\ banner[d][a] # "none"
    /\ banner' = [banner EXCEPT ![d][a] = "none"]
    /\ UNCHANGED <<phoneVars, askVars, job, pending, accepted, dropped>>

PushNext ==
    \/ \E d \in Phones : \/ Subscribe(d) \/ Unsubscribe(d)
                         \/ Register(d) \/ Unregister(d)
                         \/ \E p \in Push : PushDeliver(d, p) \/ Expire(d, p)
                         \/ \E a \in Asks : Tap(d, a)
    \/ \E a \in Asks : \/ StoreAsk(a) \/ PushCreated(a) \/ TimeOut(a)
                       \/ \E how \in {"Answered", "Cancelled", "Dismissed"} : Close(a, how)
    \/ PushTest \/ TestDropped
    \/ \E j \in Jobs : \/ PassOver(j) \/ ListDevices(j) \/ ListFails(j) \/ JobEnds(j) \/ RecordOutcome(j)
                       \/ \E outcome \in Outcomes : PushSend(j, outcome)

PushSpec == PushInit /\ [][PushNext]_pushVars

-----------------------------------------------------------------------------
(* Phones, pushes and registrations are what they should be, and no row is *)
(* left with a subscription that no browser made.                          *)
PushTypeOK ==
    /\ devices \in SeqOf(Phones, Cardinality(Phones)) /\ IsInjective(devices)
    /\ \A d \in Phones : live[d] \in 0..made[d] /\ made[d] <= MaxSubs
    /\ \A d \in Phones : sub[d] \in 0..made[d]
    /\ pending \in [Phones -> SUBSET Push]

(* push_handlers.rs:285, webpush.rs:55: only the word of the push service  *)
(* that a subscription of this phone is dead makes the daemon forget the   *)
(* one in its row.  It may then be a newer one: see StaysReachable.        *)
ForgottenOnlyWhenGone ==
    [][\A d \in Range(devices) :
          sub[d] # 0 /\ sub'[d] = 0 /\ d \in Range(devices')
          => \E j \in Jobs : /\ job[j].pc = "record" /\ job[j].todo # <<>>
                             /\ Head(job[j].todo).to = d
                             /\ job[j].outcome = "Gone"
                             /\ Head(job[j].todo).sub <= sub[d]]_pushVars

(* README:383, a dead subscription is dropped.  The one a phone has now,   *)
(* registered while an older one was found gone, is dropped as well.       *)
StaysReachable ==
    [][\A d \in Range(devices) :
          sub[d] # 0 /\ sub[d] = live[d] /\ d \in Range(devices') => sub'[d] # 0]_pushVars

(* push_handlers.rs:393, the banner of a closed ask is replaced.  Once its *)
(* pushes are over and the phone has what was accepted for it, a banner    *)
(* still asks only if the closing push did not reach this phone's service, *)
(* or expired there, or the ask was closed before its first push was over. *)
BannerIsReplaced ==
    \A d \in Phones, a \in Asks :
        LET closing == [ask |-> a, kind |-> "closed"]
        IN  /\ banner[d][a] = "ask"
            /\ job[closing].pc = "done"
            /\ {p \in pending[d] : p.ask = a} = {}
            => closing \notin accepted[d] \/ closing \in dropped[d] \/ a \in overlapped
=============================================================================
