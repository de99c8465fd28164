----------------------------- MODULE DaemonProcess -----------------------------
(***************************************************************************)
(* The daemon as a process: `sjbis daemon start` and `stop`, which find    *)
(* each other through the pidfile only, and the port, which one process    *)
(* can listen on.  All daemons are started for the same port.              *)
(***************************************************************************)
CONSTANTS Pids, NoPid

ASSUME ProcessAssumption == NoPid \notin Pids

VARIABLES
    proc,      (* per pid: what the process does                           *)
    launching, (* background daemons whose pidfile is not written yet      *)
    pidfile,   (* the pid in it, or NoPid: there is no file                 *)
    stopping,  (* the pid a `daemon stop` read, and what it does next      *)
    (* History, read by properties only. *)
    background, (* started with --background                               *)
    muddled    (* a start met a start, a daemon or a stop, or could not    *)
               (* write its pidfile                                        *)

processVars == <<proc, launching, pidfile, stopping, background, muddled>>

Running(p) == proc[p] \in {"starting", "serving"}
Up == \E p \in Pids : proc[p] = "serving"
NoStop == [pid |-> NoPid, next |-> "read"]

ProcessInit ==
    /\ proc = [p \in Pids |-> "none"]
    /\ launching = {} /\ background = {}
    /\ pidfile = NoPid
    /\ stopping = NoStop
    /\ muddled = FALSE

Spawn(p) ==
    /\ proc[p] = "none"
    /\ proc' = [proc EXCEPT ![p] = "starting"]
    /\ muddled' = (muddled \/ launching # {} \/ stopping # NoStop
                           \/ \E q \in Pids : Running(q))
    /\ UNCHANGED <<pidfile, stopping>>

StartInline(p) == Spawn(p) /\ UNCHANGED <<launching, background>>

(* spawn_background_daemon: nothing looks whether a daemon is running, and *)
(* the pid is written whatever becomes of the child.                       *)
StartBackground(p) ==
    /\ Spawn(p)
    /\ launching' = launching \cup {p}
    /\ background' = background \cup {p}

WritePidfile(p) ==
    /\ p \in launching
    /\ launching' = launching \ {p}
    /\ \/ pidfile' = p /\ UNCHANGED muddled
       \/ muddled' = TRUE /\ UNCHANGED pidfile
    /\ UNCHANGED <<proc, stopping, background>>

(* run_daemon: the database and the signing keys, then the port.           *)
Bind(p) ==
    /\ proc[p] = "starting" /\ ~Up
    /\ proc' = [proc EXCEPT ![p] = "serving"]
    /\ UNCHANGED <<launching, pidfile, stopping, background, muddled>>

(* The start fails, as it does when the port is taken, or the daemon dies. *)
Die(p) ==
    /\ Running(p)
    /\ proc' = [proc EXCEPT ![p] = "ended"]
    /\ UNCHANGED <<launching, pidfile, stopping, background, muddled>>

StopReads ==
    /\ stopping = NoStop /\ pidfile # NoPid
    /\ stopping' = [pid |-> pidfile, next |-> "kill"]
    /\ muddled' = (muddled \/ launching # {})
    /\ UNCHANGED <<proc, launching, pidfile, background>>

(* Mutant of StopKills: the signal is not sent, and nobody looks.          *)
StopSpares ==
    /\ stopping.next = "kill"
    /\ stopping' = [stopping EXCEPT !.next = "remove"]
    /\ UNCHANGED <<proc, launching, pidfile, background, muddled>>

(* SIGTERM; the result of kill is not read.  A pid is not used again.      *)
StopKills ==
    /\ stopping.next = "kill"
    /\ proc' = [proc EXCEPT ![stopping.pid] = "ended"]
    /\ stopping' = [stopping EXCEPT !.next = "remove"]
    /\ UNCHANGED <<launching, pidfile, background, muddled>>

StopRemoves ==
    /\ stopping.next = "remove"
    /\ pidfile' = NoPid
    /\ stopping' = NoStop
    /\ UNCHANGED <<proc, launching, background, muddled>>

ProcessNext ==
    \/ \E p \in Pids : \/ StartInline(p) \/ StartBackground(p)
                       \/ WritePidfile(p) \/ Bind(p) \/ Die(p)
    \/ StopReads \/ StopKills \/ StopRemoves

-----------------------------------------------------------------------------
(* main.rs:675-732, `daemon stop` reaches the daemon that was started in   *)
(* the background: as long as starts and stops came one after another and  *)
(* no daemon was started beside a running one, a daemon that serves is the *)
(* one the pidfile names.                                                  *)
PidfileNamesDaemon ==
    ~muddled => \A p \in background \ launching :
        proc[p] = "serving" => pidfile = p
=============================================================================
