--------------------------------- MODULE Edges ---------------------------------
(***************************************************************************)
(* What stands around the daemon, for model checking: the three plugins,   *)
(* the phones it pushes to, and the processes it runs in.  They share no   *)
(* state, so a behaviour is one of one of them; the others stay as they    *)
(* are.                                                                    *)
(***************************************************************************)
EXTENDS GogPlugin, IMessagePlugin, SignalPlugin, PushDelivery, DaemonProcess

VARIABLE program

edgeVars == <<program, gogVars, imVars, sigVars, pushVars, processVars>>

EdgesInit ==
    /\ program \in {"gog", "imessage", "signal", "push", "process"}
    /\ GogInit /\ IMInit /\ SigInit /\ PushInit /\ ProcessInit

EdgesNext ==
    \/ program = "gog" /\ GogNext
       /\ UNCHANGED <<program, imVars, sigVars, pushVars, processVars>>
    \/ program = "imessage" /\ IMNext
       /\ UNCHANGED <<program, gogVars, sigVars, pushVars, processVars>>
    \/ program = "signal" /\ SigNext
       /\ UNCHANGED <<program, gogVars, imVars, pushVars, processVars>>
    \/ program = "push" /\ PushNext
       /\ UNCHANGED <<program, gogVars, imVars, sigVars, processVars>>
    \/ program = "process" /\ ProcessNext
       /\ UNCHANGED <<program, gogVars, imVars, sigVars, pushVars>>

EdgesSpec == EdgesInit /\ [][EdgesNext]_edgeVars
=============================================================================
