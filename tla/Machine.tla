------------------------------- MODULE Machine -------------------------------
(***************************************************************************)
(* A machine on which the deploy and install commands run one after the    *)
(* other: they share the firmware.                                         *)
(***************************************************************************)
EXTENDS Deploy, Install

CONSTANT MaxCommands  \* bound on commands, and on their failures, together

ASSUME MachineAssumption == MaxCommands \in Nat

vars == << deployVars, installVars, firmwareVars >>

Init == DeployInit /\ InstallInit /\ FirmwareInit

Next ==
    /\ \/ DeployNext /\ ipc \notin {"copy", "copying"} /\ UNCHANGED installVars
       \/ InstallNext /\ ~Running /\ UNCHANGED deployVars
    /\ deploys' + installs' <= MaxCommands
    /\ faults' + errors' <= 1

Spec == Init /\ [][Next]_vars

\* The state of each command and of the firmware is well-formed.
TypeOK ==
    /\ DeployTypeOK
    /\ boot_next \in BootIds \cup {NoNext} /\ Listed \subseteq BootIds
    /\ DOMAIN boot = BootIds /\ DOMAIN esp = Paths

\* A deployment that reports success (deploy.rs) has made a disk that boots:
\* both tables are right for its size and durable, the filesystem fits its
\* partition, and the firmware's next boot is on it.
DeploymentIsSound == TypeOK /\ DeployedDisk /\ FilesystemFits /\ NextBootIsDeployed
=============================================================================
