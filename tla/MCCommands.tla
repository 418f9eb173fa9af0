------------------------------ MODULE MCCommands -------------------------------
(* Instances of the commands of ca-server, for TLC: those that work on the     *)
(* certificates and keys of the installation, and those that work on the       *)
(* schedules.  They share no variable, so a behavior is of one of the two and  *)
(* the other stays as it began.                                                *)
EXTENDS Lifecycle, ScheduleStore, TLC

CONSTANTS
    p1, p2, n1, n2, alice, r1, r2,
    MaxKilledCommands,  \* bound on the commands in a behavior with a kill
    MaxKilledOps        \* bound on the operations in a behavior with a kill

VARIABLE part

\* Processes and the names of rules are alike; of the two clients only n2, whom init
\* does not know, has a schedule approved.
Permuted ==
    {f @@ g : f \in Permutations(Procs), g \in Permutations(RuleNames)}

MCInit ==
    /\ part \in {"installation", "schedules"}
    /\ LifecycleInit /\ StoreInit
    /\ part = "schedules" => dir

InstallationNext ==
    /\ part = "installation"
    /\ LifecycleNext
    /\ schedules'[n1] = 0
    /\ crashes' > 0 => commands' <= MaxKilledCommands
    /\ UNCHANGED <<storeVars, part>>

SchedulesNext ==
    /\ part = "schedules"
    /\ StoreNext
    /\ kills' > 0 => ops' <= MaxKilledOps
    /\ UNCHANGED <<allVars, part>>

MCSpec == MCInit /\ [][InstallationNext \/ SchedulesNext]_<<allVars, storeVars, part>>
=============================================================================
