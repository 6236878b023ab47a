------------------------------- MODULE Builder -------------------------------
(***************************************************************************)
(* `goldboot build`: for each element of the configuration a working disk, *)
(* an installation medium and a virtual machine that the element's script  *)
(* drives; then the image.  A build may fail or be killed at any step and  *)
(* be run again, with what the last one left in the caches.                *)
(***************************************************************************)
EXTENDS Scripts, SequencesExt, FiniteSets, Integers

CONSTANTS
    Configs,    \* sequences of operating systems
    Patience,   \* polls without a change after which a wait is given up
    MaxTries,   \* attempts to connect to a guest
    MaxRuns,    \* bound: builds of the same directory, one after the other
    MaxFaults   \* bound: hangs, crashes, lost connections and kills

ASSUME BuilderAssumption ==
    /\ \A c \in Configs : c \in Seq(Names) /\ c # << >>
    /\ Patience \in Nat /\ MaxTries \in Nat /\ MaxRuns \in Nat /\ MaxFaults \in Nat

VARIABLES
    config,     \* the elements
    source,     \* by operating system, the cached medium: "absent", "bad" or "whole"
    qcow,       \* by element, the cached working disk
    vm,         \* the virtual machine of the element being built
    build,      \* the process
    runs, faults

vars == << config, source, qcow, vm, build, runs, faults >>

Elements == DOMAIN config
Os == config[build.i]
ThisDisk == qcow[build.i]

\* alias: the number of the snapshot whose table the disk uses since a revert.
\* orphan: a machine that an earlier build left running has the disk locked.
\* mishap (history): while it was written a machine died or an SSH connection
\* was replaced by another.
NoQcow == [ there |-> FALSE, broken |-> FALSE, disk |-> "blank", snapshots |-> << >>,
            alias |-> 0, orphan |-> FALSE, mishap |-> FALSE ]
Off == [ st |-> "off", doing |-> "boot", typed |-> << >>, sshd |-> FALSE,
         authorized |-> FALSE, said |-> FALSE ]
Idle == [ pc |-> "idle", i |-> 1, k |-> 1, known |-> {}, silent |-> 0, tries |-> 0,
          result |-> "none" ]

Init ==
    /\ config \in Configs
    /\ source = [os \in ToSet(config) |-> "absent"]
    /\ qcow = [i \in Elements |-> NoQcow]
    /\ vm = Off
    /\ build = Idle
    /\ runs = 0 /\ faults = 0

At(pc) == build.pc = pc
Goto(pc) == build' = [build EXCEPT !.pc = pc]

\* What the machine writes after a revert goes to the snapshot's clusters too.
Holding(q, d) ==
    [q EXCEPT !.disk = d,
              !.snapshots = [s \in DOMAIN @ |-> IF s = q.alias THEN [@[s] EXCEPT !.disk = d]
                                                              ELSE @[s]]]
SetDisk(d) == qcow' = [qcow EXCEPT ![build.i] = Holding(@, d)]
Bounds == UNCHANGED << config, runs, faults >>

End(result) == [build EXCEPT !.pc = "ended", !.result = result]

(***************************************************************************)
(* Builder::run.                                                           *)
(***************************************************************************)
Begin ==
    /\ At("idle") \/ At("ended")
    /\ runs < MaxRuns /\ runs' = runs + 1
    /\ \E clean \in BOOLEAN : qcow' = IF clean THEN [i \in Elements |-> NoQcow] ELSE qcow
    /\ build' = [Idle EXCEPT !.pc = "prepare"]
    /\ UNCHANGED << config, source, vm, faults >>

PrepareFrom(kept) ==
    /\ At("prepare")
    /\ IF kept.broken
       THEN build' = End("error") /\ UNCHANGED qcow
       ELSE /\ qcow' = [qcow EXCEPT ![build.i] =
                 IF kept.snapshots = << >> THEN [kept EXCEPT !.there = TRUE]
                 ELSE [kept EXCEPT !.disk = Last(kept.snapshots).disk,
                                   !.alias = Len(kept.snapshots)]]
            /\ build' = [build EXCEPT !.pc = "source",
                                      !.known = {s.name : s \in ToSet(kept.snapshots)}]
    /\ UNCHANGED << source, vm >> /\ Bounds

\* Slip: a disk without snapshots is used again.
Prepare_reuse == PrepareFrom(ThisDisk)

\* A readable disk without snapshots is discarded; one with snapshots is
\* reverted to the last.
Prepare ==
    PrepareFrom(IF ThisDisk.snapshots = << >> /\ ~ThisDisk.broken THEN NoQcow ELSE ThisDisk)

\* The element is built: its machine was seen to exit.
ElementDone ==
    build' = IF build.i < Len(config)
             THEN [build EXCEPT !.pc = "prepare", !.i = @ + 1, !.k = 1, !.known = {}]
             ELSE [build EXCEPT !.pc = "image"]

\* The disks are merged if there are several, converted, and the image is
\* promoted to the library or left at the path given.
MakeImage ==
    /\ At("image")
    /\ build' = End("ok")
    /\ UNCHANGED << source, qcow, vm >> /\ Bounds

(***************************************************************************)
(* SourceCache::get.                                                       *)
(***************************************************************************)
CheckSource ==
    /\ At("source")
    /\ IF source[Os] = "absent"
       THEN Goto("fetch") /\ source' = [source EXCEPT ![Os] = "bad"]
       ELSE IF HasChecksum(Os) /\ source[Os] = "bad"
       THEN source' = [source EXCEPT ![Os] = "absent"] /\ UNCHANGED build
       ELSE Goto("start") /\ UNCHANGED source
    /\ UNCHANGED << qcow, vm >> /\ Bounds

FetchVerifying(verified) ==
    /\ At("fetch")
    /\ \E content \in {"bad", "whole"} :
         /\ source' = [source EXCEPT ![Os] = content]
         /\ IF content = "bad" /\ verified THEN build' = End("error") ELSE Goto("start")
    /\ UNCHANGED << qcow, vm >> /\ Bounds

\* Slip: only files found in the cache are verified.
Fetch_unverified == FetchVerifying(FALSE)

\* The file that was created grows to what the server sends.
Fetch == FetchVerifying(HasChecksum(Os))

(***************************************************************************)
(* QemuBuilder::start.                                                     *)
(***************************************************************************)

\* The machine boots its medium, whatever the disk holds.
Spawn ==
    /\ At("start")
    /\ vm' = [Off EXCEPT !.st = IF ThisDisk.orphan THEN "exited" ELSE "on"]
    /\ Goto("connect")
    /\ UNCHANGED << source, qcow >> /\ Bounds

\* Connections are tried until the machine has exited.
Connect ==
    /\ At("connect")
    /\ IF vm.st = "on" THEN Goto("script") /\ UNCHANGED vm
       ELSE build' = End("error") /\ vm' = Off
    /\ UNCHANGED << source, qcow >> /\ Bounds

(***************************************************************************)
(* The script.                                                             *)
(***************************************************************************)
Current == Script(Os)[build.k]
Skipped(step) == step.unless \in build.known
Doing(kinds) == At("script") /\ ~Skipped(Current) /\ Current.do \in kinds

NextStep == [build EXCEPT !.k = @ + 1, !.silent = 0, !.tries = 0]
Advance == build' = NextStep /\ UNCHANGED << source, qcow, vm >> /\ Bounds

\* The process is dropped: the machine and its TPM emulator are killed.
GiveUp == build' = End("error") /\ vm' = Off /\ UNCHANGED << source, qcow >> /\ Bounds

Skip ==
    /\ At("script") /\ Skipped(Current)
    /\ Advance

Sleep == Doing({"timer"}) /\ Advance

\* Text typed during the boot may be lost; otherwise the guest gets to it in
\* order.
Type ==
    /\ Doing({"keys"})
    /\ IF vm.st = "exited" THEN GiveUp
       ELSE /\ build' = NextStep
            /\ \/ vm' = [vm EXCEPT !.typed = Append(@, Current.what)]
               \/ vm.doing = "boot" /\ UNCHANGED vm
            /\ UNCHANGED << source, qcow >> /\ Bounds

Quiet == vm.st = "on" /\ vm.doing = "idle" /\ vm.typed = << >>
Shows(step) ==
    CASE step.do = "serial" -> vm.said
      [] OTHER -> \/ step.what = "prompt" /\ Quiet
                  \/ step.what = "installed" /\ Quiet /\ ThisDisk.disk = "installed"

\* Whether a poll may find the screen or the console changed.
MayChange == {FALSE} \cup (IF vm.st = "on" /\ vm.doing # "hung" THEN {TRUE} ELSE {})

PollWith(counting) ==
    /\ Doing({"screen", "serial", "rect", "ocr"})
    /\ CASE Shows(Current) -> Advance
         [] ~Shows(Current) /\ vm.st = "exited" /\ Current.do # "serial" -> GiveUp
         [] OTHER ->
              \E changed \in MayChange :
                IF Current.do \notin counting \/ changed
                THEN build' = [build EXCEPT !.silent = 0] /\ UNCHANGED << source, qcow, vm >> /\ Bounds
                ELSE IF build.silent > Patience THEN GiveUp
                ELSE build' = [build EXCEPT !.silent = @ + 1]
                     /\ UNCHANGED << source, qcow, vm >> /\ Bounds

\* Slip: only the console's silence is counted.
Poll_screen_forever == PollWith({"serial"})

\* Slip: only the screen's polls are counted.
Poll_serial_forever == PollWith({"screen"})

\* A wait for a whole screen and one for console text count; one for a part of
\* the screen and one for recognised text do not.  A lost VNC connection ends
\* all but the console's.
Poll == PollWith({"screen", "serial"})

Answers == vm.st = "on" /\ vm.doing # "hung" /\ vm.sshd

Ssh_trying(tries) ==
    /\ Doing({"ssh"})
    /\ IF Answers THEN Advance
       ELSE IF build.tries >= tries THEN GiveUp
       ELSE build' = [build EXCEPT !.tries = @ + 1] /\ UNCHANGED << source, qcow, vm >> /\ Bounds

\* Slip: one attempt too many.
Ssh_connect_more == Ssh_trying(MaxTries + 1)

Ssh_connect == Ssh_trying(MaxTries)

\* A command that the server starts once the guest is free.
Exec_begin ==
    /\ Doing({"exec", "exec_ignored"})
    /\ IF ~Answers THEN GiveUp
       ELSE /\ vm.doing = "idle"
            /\ vm' = [vm EXCEPT !.typed = << Current.what >>]
            /\ Goto("exec")
            /\ UNCHANGED << source, qcow >> /\ Bounds

Succeeded == Current.what # "install" \/ ThisDisk.disk = "installed"

ExecEndsChecking(kinds) ==
    /\ At("exec") /\ Quiet
    /\ IF Succeeded \/ Current.do \notin kinds
       THEN build' = [NextStep EXCEPT !.pc = "script"] /\ UNCHANGED << source, qcow, vm >> /\ Bounds
       ELSE GiveUp

\* Slip: the status is not looked at.
Exec_end_unchecked == ExecEndsChecking({})

Exec_end == ExecEndsChecking({"exec"})

\* The connection is lost while the command runs, be it that the machine went
\* away or not: the first connection that succeeds counts as status 0.
Reconnect ==
    /\ At("exec")
    /\ \/ vm.st = "exited" /\ UNCHANGED faults
       \/ vm.st = "on" /\ faults < MaxFaults /\ faults' = faults + 1
    /\ IF Answers
       THEN /\ build' = [NextStep EXCEPT !.pc = "script"]
            /\ vm' = [vm EXCEPT !.doing = "idle", !.typed = << >>]
            /\ qcow' = [qcow EXCEPT ![build.i].mishap = TRUE]
       ELSE build' = End("error") /\ vm' = Off /\ UNCHANGED qcow
    /\ UNCHANGED << config, source, runs >>

\* The first line read is taken for the response to savevm; an event that the
\* pause causes may come before it, and then errors go unnoticed.
Checkpoint ==
    /\ Doing({"checkpoint"})
    /\ IF vm.st = "exited" THEN GiveUp
       ELSE \E saved \in BOOLEAN, event_first \in BOOLEAN :
              IF saved
              THEN /\ qcow' = [qcow EXCEPT ![build.i].snapshots =
                        Append(@, [name |-> Current.what, disk |-> ThisDisk.disk])]
                   /\ build' = NextStep /\ UNCHANGED << source, vm >> /\ Bounds
              ELSE IF event_first THEN Advance
              ELSE GiveUp

\* SshConnection::shutdown: free space is wiped and the guest told to power off.
Shutdown_guest ==
    /\ Doing({"shutdown"})
    /\ IF ~Answers THEN GiveUp
       ELSE /\ vm' = [vm EXCEPT !.typed = Append(@, "poweroff")]
            /\ build' = NextStep
            /\ UNCHANGED << source, qcow >> /\ Bounds

\* The exit status of the machine is not looked at.
Shutdown_wait ==
    /\ Doing({"exit"}) /\ vm.st = "exited"
    /\ vm' = Off
    /\ ElementDone
    /\ UNCHANGED << source, qcow >> /\ Bounds

\* Any step before the script, of the script or after it may fail.  The machine
\* is killed if start has returned; before, its process is left running.
Fails ==
    /\ build.pc \in {"prepare", "source", "fetch", "start", "connect", "image"}
    /\ build' = End("error")
    /\ vm' = Off
    /\ qcow' = [qcow EXCEPT ![build.i].orphan = @ \/ (At("connect") /\ vm.st = "on")]
    /\ UNCHANGED source /\ Bounds

(***************************************************************************)
(* The guest, and what may befall it and the build.                        *)
(***************************************************************************)
GuestUnchanged == UNCHANGED << config, source, build, runs >>

\* A boot ends at a prompt; of an installed disk, with the system's own server
\* running for whoever has its key.
GuestBoots ==
    /\ vm.st = "on" /\ vm.doing = "boot"
    /\ vm' = [vm EXCEPT !.doing = "idle", !.sshd = vm.authorized /\ ThisDisk.disk = "installed"]
    /\ UNCHANGED << qcow, faults >> /\ GuestUnchanged

GuestInstalls ==
    /\ vm.st = "on" /\ vm.doing = "install"
    /\ \E d \in {"partial", "installed"} :
         /\ SetDisk(d)
         /\ vm' = [vm EXCEPT !.doing = "idle", !.said = @ \/ d = "installed"]
    /\ UNCHANGED faults /\ GuestUnchanged

GuestObeys ==
    /\ vm.st = "on" /\ vm.doing = "idle" /\ vm.typed # << >>
    /\ LET effect == Head(vm.typed)
           rest == [vm EXCEPT !.typed = Tail(@)]
       IN  /\ vm' = CASE effect = "none" -> rest
                      [] effect = "sshd" -> [rest EXCEPT !.sshd = TRUE]
                      [] effect = "authorize" -> [rest EXCEPT !.authorized = TRUE]
                      [] effect = "install" -> [rest EXCEPT !.doing = "install"]
                      [] effect = "reboot" -> [rest EXCEPT !.doing = "boot", !.sshd = FALSE]
                      [] effect = "poweroff" -> [rest EXCEPT !.st = "exited"]
           /\ IF effect = "install" THEN SetDisk("partial") ELSE UNCHANGED qcow
    /\ UNCHANGED faults /\ GuestUnchanged

Fault == faults < MaxFaults /\ faults' = faults + 1

GuestHangs ==
    /\ vm.st = "on" /\ vm.doing # "hung"
    /\ vm' = [vm EXCEPT !.doing = "hung"]
    /\ Fault
    /\ UNCHANGED qcow /\ GuestUnchanged

\* QEMU dies, with tables of the disk not written.
VmCrashes ==
    /\ vm.st = "on"
    /\ vm' = [vm EXCEPT !.st = "exited"]
    /\ LET d == IF ThisDisk.disk = "blank" THEN "blank" ELSE "partial"
       IN  qcow' = [qcow EXCEPT ![build.i] = [Holding(@, d) EXCEPT !.mishap = TRUE]]
    /\ Fault
    /\ GuestUnchanged

\* goldboot is killed; the machine runs on for a while.
Killed ==
    /\ build.pc \notin {"idle", "ended"}
    /\ build' = End("killed")
    /\ vm' = Off
    /\ \E broken \in IF At("prepare") /\ ThisDisk.snapshots = << >> THEN BOOLEAN ELSE {FALSE} :
         qcow' = [qcow EXCEPT ![build.i].orphan = @ \/ vm.st = "on",
                              ![build.i].broken = @ \/ broken, ![build.i].there = @ \/ broken]
    /\ Fault
    /\ UNCHANGED << config, source, runs >>

OrphanExits ==
    /\ \E i \in Elements : qcow[i].orphan /\ qcow' = [qcow EXCEPT ![i].orphan = FALSE]
    /\ UNCHANGED << vm, faults >> /\ GuestUnchanged

Step_of_build ==
    \/ Prepare \/ MakeImage \/ CheckSource \/ Fetch \/ Spawn \/ Connect
    \/ Skip \/ Sleep \/ Type \/ Poll \/ Ssh_connect
    \/ Exec_begin \/ Exec_end \/ Reconnect \/ Checkpoint
    \/ Shutdown_guest \/ Shutdown_wait

Next ==
    \/ Step_of_build \/ Begin \/ Fails
    \/ GuestBoots \/ GuestInstalls \/ GuestObeys
    \/ GuestHangs \/ VmCrashes \/ Killed \/ OrphanExits

\* The build is one thread: it takes its next step while it can.  Nothing is
\* assumed of the guest.
Spec == Init /\ [][Next]_vars /\ WF_vars(Step_of_build)

(***************************************************************************)
(* Properties.                                                             *)
(***************************************************************************)
TypeOK ==
    /\ \A i \in Elements :
         /\ qcow[i].disk \in {"blank", "partial", "installed"}
         /\ qcow[i].alias \in 0..Len(qcow[i].snapshots)
    /\ \A os \in DOMAIN source : source[os] \in {"absent", "bad", "whole"}
    /\ vm.st \in {"off", "on", "exited"}
    /\ vm.doing \in {"boot", "idle", "install", "hung"}
    /\ build.i \in Elements /\ build.k \in 1..Len(Script(Os))
    /\ build.silent \in 0..Patience + 1 /\ build.tries \in 0..MaxTries

\* A build that reports success made its image of disks that no machine was
\* writing, each of them holding an installation that its script saw succeed in
\* this build or before the checkpoint it resumed from, whatever failed builds left
\* behind; a machine that died and a connection that came back apart, whose status
\* nobody looks at.
SuccessIsInstalled ==
    build.result = "ok" =>
        /\ vm.st = "off"
        /\ \A i \in Elements :
             SeesOutcome(config[i]) /\ ~qcow[i].mishap => qcow[i].disk = "installed"

\* An installer only ever begins on a blank disk, over any sequence of builds: what
\* one that failed or was killed left is discarded, or lies behind a checkpoint after
\* which nothing installs again (Builder::run, has_checkpoint), although a resumed
\* disk shares its checkpoint's table and an earlier checkpoint may be missing.
InstallsOnBlankDisk ==
    [][ vm.doing # "install" /\ vm'.doing = "install" => ThisDisk.disk = "blank" ]_vars

\* A machine never boots a medium that is not the one its checksum names
\* (SourceCache::get), whatever interrupted earlier downloads.
BootsVerifiedMedium ==
    vm.st = "on" /\ HasChecksum(Os) => source[Os] = "whole"

\* A build ends well (Builder::run) only with disks that were installed, from
\* media that were verified.
BuildIsSound == TypeOK /\ SuccessIsInstalled /\ BootsVerifiedMedium

\* A machine that exits is noticed at whatever step the build is: by the loop
\* that connects, by every kind of wait, by SSH, and by the final wait.
ExitIsNoticed == vm.st = "exited" ~> vm.st = "off"

\* "we should exit if nothing happens for a really long time" (vnc.rs, serial.rs):
\* a wait for a screen or for console text does not outlast a frozen guest.
FrozenGuestIsGivenUp ==
    (vm.doing = "hung" /\ Doing({"screen", "serial"})) ~> ~Doing({"screen", "serial"})
=============================================================================
