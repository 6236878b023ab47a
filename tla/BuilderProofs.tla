---------------------------- MODULE BuilderProofs ----------------------------
(***************************************************************************)
(* `goldboot build` ends well only with disks that were installed, from    *)
(* media that were verified, and installs only on blank disks.             *)
(*                                                                         *)
(* A build resumes from checkpoints that earlier builds left, so the       *)
(* invariant says of every snapshot what was seen before it was taken      *)
(* (SnapshotInv), of the script's place what has been seen so far          *)
(* (OutcomeInv), and of the guest's queue that nothing in it undoes that   *)
(* (Pending).                                                              *)
(***************************************************************************)
EXTENDS Builder, SequenceTheorems, TLAPS

(***************************************************************************)
(* The scripts.                                                            *)
(***************************************************************************)
Effects == {"none", "sshd", "authorize", "install", "reboot", "poweroff"}
Commands == {"keys", "exec", "exec_ignored"}

\* The step that sees the installation succeed.
OutcomeAt(os) == CASE os = "arch" -> 7 [] os = "alpine" -> 4 [] os = "debian" -> 5

\* The one step that starts the installation.
InstallAt(os) ==
    IF os = "arch" THEN 7 ELSE IF os = "alpine" THEN 3
    ELSE IF os \in {"nix", "nix_post", "debian"} THEN 4 ELSE 2

\* The fields of a step.
Is(step, do, what, unless) == step.do = do /\ step.what = what /\ step.unless = unless

\* What the proofs need to know of every step.
Fits(os, k, step, n) ==
    /\ step.do = "exit" <=> k = n
    /\ step.do \in Commands => step.what \in Effects
    /\ step.unless \in {Always, "boot", "install"} /\ (step.unless # Always => os = "arch")
    /\ step.do = "exit" => step.unless = Always
    /\ step.do = "checkpoint" => /\ os = "arch" /\ step.what \in {"boot", "install"}
                                 /\ step.unless = step.what /\ (step.what = "install" <=> k = 8)
                                 /\ step.what = "boot" => k = 5
    /\ step.do \in Commands /\ step.what = "install" => k = InstallAt(os)
    /\ step.do \in {"exec", "exec_ignored"} => k >= InstallAt(os)
    /\ os = "arch" /\ k <= 5 => step.unless = "boot"
    /\ os = "arch" /\ k = 6 => step.do = "ssh" /\ step.unless = Always

\* The steps no checkpoint makes superfluous.
LEMMA AlwaysFacts == Always # "boot" /\ Always # "install"
  BY DEF Always

\* Read off the scripts (builder/os): which step is last, what is typed, where the
\* checkpoints and the step that sees the installation succeed are.
LEMMA ScriptFacts ==
    ASSUME NEW os \in Names
    PROVE  /\ Len(Script(os)) \in Nat /\ Len(Script(os)) >= 1
           /\ SeesOutcome(os) => OutcomeAt(os) \in 1..Len(Script(os)) - 1
           /\ \A k \in 1..Len(Script(os)) : Fits(os, k, Script(os)[k], Len(Script(os)))
           /\ os = "arch" => Is(Script(os)[7], "exec", "install", "install")
           /\ os = "alpine" => /\ Is(Script(os)[3], "keys", "install", Always)
                               /\ Is(Script(os)[4], "serial", "installed", Always)
           /\ os = "debian" => Is(Script(os)[5], "screen", "installed", Always)
<1>1. CASE os = "arch"
  <2>1. /\ Len(Script(os)) = 10
        /\ InstallAt(os) = 7
        /\ Is(Script(os)[1], "timer", "prompt", "boot")
        /\ Is(Script(os)[2], "ocr", "prompt", "boot")
        /\ Is(Script(os)[3], "keys", "none", "boot")
        /\ Is(Script(os)[4], "keys", "sshd", "boot")
        /\ Is(Script(os)[5], "checkpoint", "boot", "boot")
        /\ Is(Script(os)[6], "ssh", "any", Always)
        /\ Is(Script(os)[7], "exec", "install", "install")
        /\ Is(Script(os)[8], "checkpoint", "install", "install")
        /\ Is(Script(os)[9], "shutdown", "poweroff", Always)
        /\ Is(Script(os)[10], "exit", "any", Always)
    BY <1>1 DEF Script, ArchLinux, install_ssh, Timer, Keys, Wait, Ssh, Exec, ExecIgnored, Shutdown, Exit, Unless, Step, Is, InstallAt
  <2>2. /\ Fits(os, 1, Script(os)[1], 10)
        /\ Fits(os, 2, Script(os)[2], 10)
        /\ Fits(os, 3, Script(os)[3], 10)
        /\ Fits(os, 4, Script(os)[4], 10)
    BY <1>1, <2>1, AlwaysFacts DEF Is, Fits, Effects, Commands
  <2>3. /\ Fits(os, 5, Script(os)[5], 10)
        /\ Fits(os, 6, Script(os)[6], 10)
        /\ Fits(os, 7, Script(os)[7], 10)
    BY <1>1, <2>1, AlwaysFacts DEF Is, Fits, Effects, Commands
  <2>4. /\ Fits(os, 8, Script(os)[8], 10)
        /\ Fits(os, 9, Script(os)[9], 10)
        /\ Fits(os, 10, Script(os)[10], 10)
    BY <1>1, <2>1, AlwaysFacts DEF Is, Fits, Effects, Commands
  <2>5. \A k \in 1..10 : k \in {1, 2, 3, 4, 5, 6, 7, 8, 9, 10}
    OBVIOUS
  <2>6. SeesOutcome(os) => OutcomeAt(os) \in 1..10 - 1
    BY <1>1 DEF SeesOutcome, OutcomeAt
  <2>7. QED
    BY <2>1, <2>2, <2>3, <2>4, <2>5, <2>6, <1>1
<1>2. CASE os = "nix"
  <2>1. /\ Len(Script(os)) = 6
        /\ InstallAt(os) = 4
        /\ Is(Script(os)[1], "timer", "prompt", Always)
        /\ Is(Script(os)[2], "ocr", "prompt", Always)
        /\ Is(Script(os)[3], "keys", "none", Always)
        /\ Is(Script(os)[4], "keys", "install", Always)
        /\ Is(Script(os)[5], "keys", "poweroff", Always)
        /\ Is(Script(os)[6], "exit", "any", Always)
    BY <1>2 DEF Script, Nix, Timer, Keys, Wait, Ssh, Exec, ExecIgnored, Shutdown, Exit, Unless, Step, Is, InstallAt
  <2>2. /\ Fits(os, 1, Script(os)[1], 6)
        /\ Fits(os, 2, Script(os)[2], 6)
        /\ Fits(os, 3, Script(os)[3], 6)
        /\ Fits(os, 4, Script(os)[4], 6)
        /\ Fits(os, 5, Script(os)[5], 6)
        /\ Fits(os, 6, Script(os)[6], 6)
    BY <1>2, <2>1, AlwaysFacts DEF Is, Fits, Effects, Commands
  <2>3. \A k \in 1..6 : k \in {1, 2, 3, 4, 5, 6}
    OBVIOUS
  <2>4. SeesOutcome(os) => OutcomeAt(os) \in 1..6 - 1
    BY <1>2 DEF SeesOutcome, OutcomeAt
  <2>5. QED
    BY <2>1, <2>2, <2>3, <2>4, <1>2
<1>3. CASE os = "nix_post"
  <2>1. /\ Len(Script(os)) = 10
        /\ InstallAt(os) = 4
        /\ Is(Script(os)[1], "timer", "prompt", Always)
        /\ Is(Script(os)[2], "ocr", "prompt", Always)
        /\ Is(Script(os)[3], "keys", "none", Always)
        /\ Is(Script(os)[4], "keys", "install", Always)
        /\ Is(Script(os)[5], "keys", "authorize", Always)
        /\ Is(Script(os)[6], "keys", "reboot", Always)
        /\ Is(Script(os)[7], "ssh", "any", Always)
        /\ Is(Script(os)[8], "exec", "none", Always)
        /\ Is(Script(os)[9], "shutdown", "poweroff", Always)
        /\ Is(Script(os)[10], "exit", "any", Always)
    BY <1>3 DEF Script, NixPostSteps, Timer, Keys, Wait, Ssh, Exec, ExecIgnored, Shutdown, Exit, Unless, Step, Is, InstallAt
  <2>2. /\ Fits(os, 1, Script(os)[1], 10)
        /\ Fits(os, 2, Script(os)[2], 10)
        /\ Fits(os, 3, Script(os)[3], 10)
        /\ Fits(os, 4, Script(os)[4], 10)
    BY <1>3, <2>1, AlwaysFacts DEF Is, Fits, Effects, Commands
  <2>3. /\ Fits(os, 5, Script(os)[5], 10)
        /\ Fits(os, 6, Script(os)[6], 10)
        /\ Fits(os, 7, Script(os)[7], 10)
    BY <1>3, <2>1, AlwaysFacts DEF Is, Fits, Effects, Commands
  <2>4. /\ Fits(os, 8, Script(os)[8], 10)
        /\ Fits(os, 9, Script(os)[9], 10)
        /\ Fits(os, 10, Script(os)[10], 10)
    BY <1>3, <2>1, AlwaysFacts DEF Is, Fits, Effects, Commands
  <2>5. \A k \in 1..10 : k \in {1, 2, 3, 4, 5, 6, 7, 8, 9, 10}
    OBVIOUS
  <2>6. SeesOutcome(os) => OutcomeAt(os) \in 1..10 - 1
    BY <1>3 DEF SeesOutcome, OutcomeAt
  <2>7. QED
    BY <2>1, <2>2, <2>3, <2>4, <2>5, <2>6, <1>3
<1>4. CASE os = "alpine"
  <2>1. /\ Len(Script(os)) = 10
        /\ InstallAt(os) = 3
        /\ Is(Script(os)[1], "timer", "prompt", Always)
        /\ Is(Script(os)[2], "keys", "none", Always)
        /\ Is(Script(os)[3], "keys", "install", Always)
        /\ Is(Script(os)[4], "serial", "installed", Always)
        /\ Is(Script(os)[5], "keys", "authorize", Always)
        /\ Is(Script(os)[6], "keys", "reboot", Always)
        /\ Is(Script(os)[7], "ssh", "any", Always)
        /\ Is(Script(os)[8], "exec_ignored", "none", Always)
        /\ Is(Script(os)[9], "shutdown", "poweroff", Always)
        /\ Is(Script(os)[10], "exit", "any", Always)
    BY <1>4 DEF Script, AlpineLinux, Timer, Keys, Wait, Ssh, Exec, ExecIgnored, Shutdown, Exit, Unless, Step, Is, InstallAt
  <2>2. /\ Fits(os, 1, Script(os)[1], 10)
        /\ Fits(os, 2, Script(os)[2], 10)
        /\ Fits(os, 3, Script(os)[3], 10)
        /\ Fits(os, 4, Script(os)[4], 10)
    BY <1>4, <2>1, AlwaysFacts DEF Is, Fits, Effects, Commands
  <2>3. /\ Fits(os, 5, Script(os)[5], 10)
        /\ Fits(os, 6, Script(os)[6], 10)
        /\ Fits(os, 7, Script(os)[7], 10)
    BY <1>4, <2>1, AlwaysFacts DEF Is, Fits, Effects, Commands
  <2>4. /\ Fits(os, 8, Script(os)[8], 10)
        /\ Fits(os, 9, Script(os)[9], 10)
        /\ Fits(os, 10, Script(os)[10], 10)
    BY <1>4, <2>1, AlwaysFacts DEF Is, Fits, Effects, Commands
  <2>5. \A k \in 1..10 : k \in {1, 2, 3, 4, 5, 6, 7, 8, 9, 10}
    OBVIOUS
  <2>6. SeesOutcome(os) => OutcomeAt(os) \in 1..10 - 1
    BY <1>4 DEF SeesOutcome, OutcomeAt
  <2>7. QED
    BY <2>1, <2>2, <2>3, <2>4, <2>5, <2>6, <1>4
<1>5. CASE os = "debian"
  <2>1. /\ Len(Script(os)) = 9
        /\ InstallAt(os) = 4
        /\ Is(Script(os)[1], "rect", "prompt", Always)
        /\ Is(Script(os)[2], "keys", "none", Always)
        /\ Is(Script(os)[3], "screen", "prompt", Always)
        /\ Is(Script(os)[4], "keys", "install", Always)
        /\ Is(Script(os)[5], "screen", "installed", Always)
        /\ Is(Script(os)[6], "keys", "none", Always)
        /\ Is(Script(os)[7], "ssh", "any", Always)
        /\ Is(Script(os)[8], "shutdown", "poweroff", Always)
        /\ Is(Script(os)[9], "exit", "any", Always)
    BY <1>5 DEF Script, Debian, Timer, Keys, Wait, Ssh, Exec, ExecIgnored, Shutdown, Exit, Unless, Step, Is, InstallAt
  <2>2. /\ Fits(os, 1, Script(os)[1], 9)
        /\ Fits(os, 2, Script(os)[2], 9)
        /\ Fits(os, 3, Script(os)[3], 9)
        /\ Fits(os, 4, Script(os)[4], 9)
    BY <1>5, <2>1, AlwaysFacts DEF Is, Fits, Effects, Commands
  <2>3. /\ Fits(os, 5, Script(os)[5], 9)
        /\ Fits(os, 6, Script(os)[6], 9)
        /\ Fits(os, 7, Script(os)[7], 9)
    BY <1>5, <2>1, AlwaysFacts DEF Is, Fits, Effects, Commands
  <2>4. /\ Fits(os, 8, Script(os)[8], 9)
        /\ Fits(os, 9, Script(os)[9], 9)
    BY <1>5, <2>1, AlwaysFacts DEF Is, Fits, Effects, Commands
  <2>5. \A k \in 1..9 : k \in {1, 2, 3, 4, 5, 6, 7, 8, 9}
    OBVIOUS
  <2>6. SeesOutcome(os) => OutcomeAt(os) \in 1..9 - 1
    BY <1>5 DEF SeesOutcome, OutcomeAt
  <2>7. QED
    BY <2>1, <2>2, <2>3, <2>4, <2>5, <2>6, <1>5
<1>6. CASE os = "ubuntu"
  <2>1. /\ Len(Script(os)) = 7
        /\ InstallAt(os) = 2
        /\ Is(Script(os)[1], "rect", "never", Always)
        /\ Is(Script(os)[2], "keys", "install", Always)
        /\ Is(Script(os)[3], "rect", "never", Always)
        /\ Is(Script(os)[4], "keys", "none", Always)
        /\ Is(Script(os)[5], "ssh", "any", Always)
        /\ Is(Script(os)[6], "shutdown", "poweroff", Always)
        /\ Is(Script(os)[7], "exit", "any", Always)
    BY <1>6 DEF Script, Ubuntu, Timer, Keys, Wait, Ssh, Exec, ExecIgnored, Shutdown, Exit, Unless, Step, Is, InstallAt
  <2>2. /\ Fits(os, 1, Script(os)[1], 7)
        /\ Fits(os, 2, Script(os)[2], 7)
        /\ Fits(os, 3, Script(os)[3], 7)
        /\ Fits(os, 4, Script(os)[4], 7)
        /\ Fits(os, 5, Script(os)[5], 7)
        /\ Fits(os, 6, Script(os)[6], 7)
        /\ Fits(os, 7, Script(os)[7], 7)
    BY <1>6, <2>1, AlwaysFacts DEF Is, Fits, Effects, Commands
  <2>3. \A k \in 1..7 : k \in {1, 2, 3, 4, 5, 6, 7}
    OBVIOUS
  <2>4. SeesOutcome(os) => OutcomeAt(os) \in 1..7 - 1
    BY <1>6 DEF SeesOutcome, OutcomeAt
  <2>5. QED
    BY <2>1, <2>2, <2>3, <2>4, <1>6
<1>7. CASE os = "pop"
  <2>1. /\ Len(Script(os)) = 10
        /\ InstallAt(os) = 2
        /\ Is(Script(os)[1], "timer", "prompt", Always)
        /\ Is(Script(os)[2], "keys", "install", Always)
        /\ Is(Script(os)[3], "rect", "never", Always)
        /\ Is(Script(os)[4], "keys", "reboot", Always)
        /\ Is(Script(os)[5], "timer", "prompt", Always)
        /\ Is(Script(os)[6], "keys", "none", Always)
        /\ Is(Script(os)[7], "ssh", "any", Always)
        /\ Is(Script(os)[8], "exec_ignored", "none", Always)
        /\ Is(Script(os)[9], "shutdown", "poweroff", Always)
        /\ Is(Script(os)[10], "exit", "any", Always)
    BY <1>7 DEF Script, PopOs, Timer, Keys, Wait, Ssh, Exec, ExecIgnored, Shutdown, Exit, Unless, Step, Is, InstallAt
  <2>2. /\ Fits(os, 1, Script(os)[1], 10)
        /\ Fits(os, 2, Script(os)[2], 10)
        /\ Fits(os, 3, Script(os)[3], 10)
        /\ Fits(os, 4, Script(os)[4], 10)
    BY <1>7, <2>1, AlwaysFacts DEF Is, Fits, Effects, Commands
  <2>3. /\ Fits(os, 5, Script(os)[5], 10)
        /\ Fits(os, 6, Script(os)[6], 10)
        /\ Fits(os, 7, Script(os)[7], 10)
    BY <1>7, <2>1, AlwaysFacts DEF Is, Fits, Effects, Commands
  <2>4. /\ Fits(os, 8, Script(os)[8], 10)
        /\ Fits(os, 9, Script(os)[9], 10)
        /\ Fits(os, 10, Script(os)[10], 10)
    BY <1>7, <2>1, AlwaysFacts DEF Is, Fits, Effects, Commands
  <2>5. \A k \in 1..10 : k \in {1, 2, 3, 4, 5, 6, 7, 8, 9, 10}
    OBVIOUS
  <2>6. SeesOutcome(os) => OutcomeAt(os) \in 1..10 - 1
    BY <1>7 DEF SeesOutcome, OutcomeAt
  <2>7. QED
    BY <2>1, <2>2, <2>3, <2>4, <2>5, <2>6, <1>7
<1>8. CASE os = "tinycore"
  <2>1. /\ Len(Script(os)) = 10
        /\ InstallAt(os) = 2
        /\ Is(Script(os)[1], "timer", "prompt", Always)
        /\ Is(Script(os)[2], "keys", "install", Always)
        /\ Is(Script(os)[3], "rect", "never", Always)
        /\ Is(Script(os)[4], "keys", "none", Always)
        /\ Is(Script(os)[5], "rect", "never", Always)
        /\ Is(Script(os)[6], "keys", "reboot", Always)
        /\ Is(Script(os)[7], "ssh", "any", Always)
        /\ Is(Script(os)[8], "exec_ignored", "none", Always)
        /\ Is(Script(os)[9], "shutdown", "poweroff", Always)
        /\ Is(Script(os)[10], "exit", "any", Always)
    BY <1>8 DEF Script, TinyCore, Timer, Keys, Wait, Ssh, Exec, ExecIgnored, Shutdown, Exit, Unless, Step, Is, InstallAt
  <2>2. /\ Fits(os, 1, Script(os)[1], 10)
        /\ Fits(os, 2, Script(os)[2], 10)
        /\ Fits(os, 3, Script(os)[3], 10)
        /\ Fits(os, 4, Script(os)[4], 10)
    BY <1>8, <2>1, AlwaysFacts DEF Is, Fits, Effects, Commands
  <2>3. /\ Fits(os, 5, Script(os)[5], 10)
        /\ Fits(os, 6, Script(os)[6], 10)
        /\ Fits(os, 7, Script(os)[7], 10)
    BY <1>8, <2>1, AlwaysFacts DEF Is, Fits, Effects, Commands
  <2>4. /\ Fits(os, 8, Script(os)[8], 10)
        /\ Fits(os, 9, Script(os)[9], 10)
        /\ Fits(os, 10, Script(os)[10], 10)
    BY <1>8, <2>1, AlwaysFacts DEF Is, Fits, Effects, Commands
  <2>5. \A k \in 1..10 : k \in {1, 2, 3, 4, 5, 6, 7, 8, 9, 10}
    OBVIOUS
  <2>6. SeesOutcome(os) => OutcomeAt(os) \in 1..10 - 1
    BY <1>8 DEF SeesOutcome, OutcomeAt
  <2>7. QED
    BY <2>1, <2>2, <2>3, <2>4, <2>5, <2>6, <1>8
<1>9. CASE os = "windows"
  <2>1. /\ Len(Script(os)) = 3
        /\ InstallAt(os) = 2
        /\ Is(Script(os)[1], "timer", "prompt", Always)
        /\ Is(Script(os)[2], "keys", "install", Always)
        /\ Is(Script(os)[3], "exit", "any", Always)
    BY <1>9 DEF Script, Windows, Timer, Keys, Wait, Ssh, Exec, ExecIgnored, Shutdown, Exit, Unless, Step, Is, InstallAt
  <2>2. /\ Fits(os, 1, Script(os)[1], 3)
        /\ Fits(os, 2, Script(os)[2], 3)
        /\ Fits(os, 3, Script(os)[3], 3)
    BY <1>9, <2>1, AlwaysFacts DEF Is, Fits, Effects, Commands
  <2>3. \A k \in 1..3 : k \in {1, 2, 3}
    OBVIOUS
  <2>4. SeesOutcome(os) => OutcomeAt(os) \in 1..3 - 1
    BY <1>9 DEF SeesOutcome, OutcomeAt
  <2>5. QED
    BY <2>1, <2>2, <2>3, <2>4, <1>9
<1>10. QED
  BY <1>1, <1>2, <1>3, <1>4, <1>5, <1>6, <1>7, <1>8, <1>9 DEF Names

(***************************************************************************)
(* The invariant.                                                          *)
(***************************************************************************)
Disks == {"blank", "partial", "installed"}
Snapshots == [name : {"boot", "install"}, disk : Disks]
Qcows == [ there : BOOLEAN, broken : BOOLEAN, disk : Disks, snapshots : Seq(Snapshots),
           alias : Nat, orphan : BOOLEAN, mishap : BOOLEAN ]
Machines == [ st : {"off", "on", "exited"}, doing : {"boot", "idle", "install", "hung"},
              typed : Seq(Effects), sshd : BOOLEAN, authorized : BOOLEAN, said : BOOLEAN ]
Before == {"prepare", "source", "fetch", "start", "connect"}
During == {"script", "exec"}
Builds == [ pc : Before \cup During \cup {"idle", "ended", "image"}, i : Nat, k : Nat,
            known : SUBSET {"boot", "install"}, silent : 0..Patience + 1, tries : 0..MaxTries,
            result : {"none", "ok", "error", "killed"} ]

TypeInv ==
    /\ config \in Seq(Names) /\ config # << >>
    /\ source \in [ToSet(config) -> {"absent", "bad", "whole"}]
    /\ qcow \in [Elements -> Qcows] /\ \A i \in Elements : qcow[i].alias \in 0..Len(qcow[i].snapshots)
    /\ vm \in Machines
    /\ build \in Builds /\ build.i \in Elements /\ build.k \in 1..Len(Script(Os))

\* An installation is under way or will be.
Pending(v) == v.doing = "install" \/ \E n \in DOMAIN v.typed : v.typed[n] = "install"

\* What the process is doing.
PlaceInv ==
    /\ build.pc \in Before => build.k = 1
    /\ build.pc = "exec" => Current.do \in {"exec", "exec_ignored"}
    /\ build.pc = "image" => build.i = Len(config)
    /\ build.result = "ok" => build.pc = "ended"
    /\ vm.st # "off" => build.pc \in {"connect"} \cup During
    /\ build.pc \notin During => ~Pending(vm) /\ ~vm.said

\* The medium was verified before the machine starts.
MediumInv ==
    build.pc \in {"start", "connect"} \cup During /\ HasChecksum(Os) => source[Os] = "whole"

\* What SuccessIsInstalled claims of a disk.
Good(q) == q.mishap \/ q.disk = "installed"

\* There is a checkpoint of the installed system.
HasInstalled(q) == \E s \in DOMAIN q.snapshots : q.snapshots[s].name = "install"

\* Only Arch Linux has checkpoints; from the one after the installation on, every
\* one is of an installed disk.
SnapshotInv ==
    \A i \in Elements :
        /\ qcow[i].snapshots # << >> => config[i] = "arch"
        /\ HasInstalled(qcow[i]) => Good(qcow[i])
        /\ \A s, t \in DOMAIN qcow[i].snapshots :
             s <= t /\ qcow[i].snapshots[s].name = "install" =>
                qcow[i].mishap \/ qcow[i].snapshots[t].disk = "installed"

\* The checkpoints that the build knows of are there; one made since is behind it.
KnownInv ==
    build.pc \in Before \cup During /\ build.pc # "prepare" =>
        /\ \A name \in build.known :
             \E s \in DOMAIN ThisDisk.snapshots : ThisDisk.snapshots[s].name = name
        /\ HasInstalled(ThisDisk) => "install" \in build.known \/ (Os = "arch" /\ build.k > 8)

\* From then on the disk holds an installation and nothing will install again.
OutcomeInv ==
    build.pc \in During /\ SeesOutcome(Os) /\ (build.k > OutcomeAt(Os) \/ HasInstalled(ThisDisk)) =>
        ThisDisk.mishap \/ (ThisDisk.disk = "installed" /\ ~Pending(vm))

\* The installer of Alpine Linux is started at most once.
AlpineInv ==
    build.pc \in During /\ Os = "alpine" =>
        /\ build.k <= 3 => ~Pending(vm) /\ ~vm.said
        /\ build.k = 4 =>
             /\ \A n \in DOMAIN vm.typed :
                  vm.typed[n] = "install" => n = Len(vm.typed) /\ vm.doing # "install" /\ ~vm.said
             /\ vm.doing = "install" => ~vm.said
             /\ vm.said => Good(ThisDisk)

\* The elements built so far.
DoneInv ==
    /\ build.pc \in Before \cup During =>
         \A j \in 1..build.i - 1 : SeesOutcome(config[j]) => Good(qcow[j])
    /\ build.pc = "image" \/ build.result = "ok" =>
         \A j \in Elements : SeesOutcome(config[j]) => Good(qcow[j])

BuilderInv ==
    /\ TypeInv /\ PlaceInv /\ MediumInv /\ SnapshotInv /\ KnownInv
    /\ OutcomeInv /\ AlpineInv /\ DoneInv

(***************************************************************************)
(* Steps of the process.                                                   *)
(***************************************************************************)
\* Going on to the next step of the script.
LEMMA NextFacts ==
    ASSUME TypeInv
    PROVE  /\ NextStep.pc = build.pc /\ NextStep.i = build.i /\ NextStep.k = build.k + 1
           /\ NextStep.known = build.known /\ NextStep.result = build.result
           /\ NextStep \in Builds
           /\ [NextStep EXCEPT !.pc = "script"] \in Builds
           /\ LET s == [NextStep EXCEPT !.pc = "script"]
              IN  /\ s.pc = "script" /\ s.i = build.i /\ s.k = build.k + 1
                  /\ s.known = build.known /\ s.result = build.result
<1>1. build \in Builds /\ MaxTries \in Nat /\ Patience \in Nat
  BY BuilderAssumption DEF TypeInv
<1>2. 0 \in 0..Patience + 1 /\ 0 \in 0..MaxTries
  BY <1>1
<1>3. build.k \in Nat /\ build.k + 1 \in Nat
  BY <1>1 DEF Builds
<1>4. QED
  BY <1>1, <1>2, <1>3 DEF Builds, NextStep, Before, During

\* A build that ends keeps its place.
LEMMA EndFacts ==
    ASSUME TypeInv, NEW r \in {"ok", "error", "killed"}
    PROVE  /\ End(r) \in Builds
           /\ End(r).pc = "ended" /\ End(r).i = build.i /\ End(r).k = build.k
           /\ End(r).known = build.known /\ End(r).result = r
  BY DEF TypeInv, Builds, End, Before, During

\* Going on to another place of the function changes nothing else.
LEMMA GotoFacts ==
    ASSUME TypeInv, NEW pc \in Before \cup During \cup {"image"}, Goto(pc)
    PROVE  /\ build' \in Builds
           /\ build'.pc = pc /\ build'.i = build.i /\ build'.k = build.k
           /\ build'.known = build.known /\ build'.result = build.result
  BY DEF TypeInv, Builds, Goto, Before, During

\* The step that the build is at.
LEMMA CurrentFacts ==
    ASSUME TypeInv
    PROVE  /\ Os \in Names /\ build.k \in 1..Len(Script(Os)) /\ Len(Script(Os)) \in Nat
           /\ Fits(Os, build.k, Current, Len(Script(Os)))
           /\ Current.do # "exit" => build.k + 1 \in 1..Len(Script(Os))
<1>1. Os \in Names
  BY DEF TypeInv, Os, Elements
<1>2. Len(Script(Os)) \in Nat /\ \A k \in 1..Len(Script(Os)) : Fits(Os, k, Script(Os)[k], Len(Script(Os)))
  BY <1>1, ScriptFacts
<1>3. build.k \in 1..Len(Script(Os))
  BY DEF TypeInv
<1>4. Fits(Os, build.k, Current, Len(Script(Os)))
  BY <1>2, <1>3 DEF Current
<1>5. Current.do # "exit" => build.k # Len(Script(Os))
  BY <1>4 DEF Fits
<1>6. QED
  BY <1>1, <1>2, <1>3, <1>4, <1>5

\* A build that ends, whatever it did, leaves the disks as they are.
LEMMA EndKept ==
    ASSUME BuilderInv, config' = config, source' \in [ToSet(config) -> {"absent", "bad", "whole"}],
           NEW r \in {"error", "killed"}, build' = End(r),
           vm' \in Machines, vm'.st = "off", ~Pending(vm'), ~vm'.said,
           qcow' \in [Elements -> Qcows],
           \A i \in Elements : /\ qcow'[i].disk = qcow[i].disk /\ qcow'[i].snapshots = qcow[i].snapshots
                               /\ qcow'[i].alias = qcow[i].alias /\ qcow'[i].mishap = qcow[i].mishap
    PROVE  BuilderInv'
<1>1. TypeInv
  BY DEF BuilderInv
<1>2. /\ build' \in Builds /\ build'.pc = "ended" /\ build'.i = build.i /\ build'.k = build.k
      /\ build'.result = r /\ r # "ok"
  BY <1>1, EndFacts
<1>3. TypeInv'
  BY <1>1, <1>2 DEF TypeInv, Os, Elements
<1>4. PlaceInv'
  BY <1>2 DEF PlaceInv, Before, During
<1>5. MediumInv' /\ KnownInv' /\ OutcomeInv' /\ AlpineInv' /\ DoneInv'
  BY <1>2 DEF MediumInv, KnownInv, OutcomeInv, AlpineInv, DoneInv, Before, During
<1>6. SnapshotInv'
  BY DEF BuilderInv, SnapshotInv, HasInstalled, Good, Elements
<1>7. QED
  BY <1>3, <1>4, <1>5, <1>6 DEF BuilderInv

\* A step within the script, of the process, the guest or fate.
LEMMA DuringKept ==
    ASSUME BuilderInv, build.pc \in During, config' = config, source' = source,
           build' \in Builds, build'.pc \in During, build'.i = build.i,
           build'.k \in 1..Len(Script(Os)), build'.known = build.known,
           build'.result = build.result, build'.pc = "exec" => Current.do \in {"exec", "exec_ignored"} /\ build'.k = build.k,
           vm' \in Machines, qcow' \in [Elements -> Qcows],
           \A i \in Elements : i # build.i => qcow'[i] = qcow[i],
           ThisDisk'.alias \in 0..Len(ThisDisk'.snapshots),
           vm.st = "on" \/ vm'.st = vm.st \/ vm'.st = "off",
           SnapshotInv', KnownInv', OutcomeInv', AlpineInv'
    PROVE  BuilderInv'
<1>1. TypeInv /\ DoneInv /\ PlaceInv /\ MediumInv
  BY DEF BuilderInv
<1>2. Os' = Os /\ Elements' = Elements
  BY DEF Os, Elements
<1>3. TypeInv'
  <2>1. build'.i \in Elements /\ build.i \in Elements
    BY <1>1 DEF TypeInv
  <2>2. \A i \in Elements : qcow'[i].alias \in 0..Len(qcow'[i].snapshots)
    BY <1>1, <2>1 DEF TypeInv, ThisDisk
  <2>3. QED
    BY <1>1, <1>2, <2>1, <2>2 DEF TypeInv
<1>4. PlaceInv'
  <2>1. build.result # "ok"
    BY <1>1 DEF PlaceInv, During
  <2>2. build'.pc = "exec" => Current' = Current
    BY <1>2 DEF Current
  <2>3. QED
    BY <1>1, <2>1, <2>2 DEF PlaceInv, Before, During
<1>5. MediumInv'
  BY <1>1, <1>2 DEF MediumInv, During
<1>7. DoneInv'
  <2>1. build.result # "ok"
    BY <1>1 DEF PlaceInv, During
  <2>2. \A j \in 1..build.i - 1 : j \in Elements /\ j # build.i /\ qcow'[j] = qcow[j]
    BY <1>1 DEF TypeInv, Elements
  <2>3. QED
    BY <1>1, <2>1, <2>2 DEF DoneInv, Before, During
<1>8. QED
  BY <1>3, <1>4, <1>5, <1>7 DEF BuilderInv

\* The same when the disks stay as they are and nothing new will install.
LEMMA DiskKept ==
    ASSUME BuilderInv, build.pc \in During, config' = config, source' = source,
           qcow' = qcow,
           build' \in Builds, build'.pc \in During, build'.i = build.i,
           build'.k \in {build.k, build.k + 1}, build'.k \in 1..Len(Script(Os)),
           build'.known = build.known,
           build'.result = build.result, build'.pc = "exec" => Current.do \in {"exec", "exec_ignored"} /\ build'.k = build.k,
           vm' \in Machines, vm.st = "on" \/ vm'.st = vm.st \/ vm'.st = "off",
           OutcomeInv', AlpineInv'
    PROVE  BuilderInv'
<1>1. TypeInv /\ SnapshotInv /\ KnownInv
  BY DEF BuilderInv
<1>2. Os' = Os /\ Elements' = Elements /\ ThisDisk' = ThisDisk
  BY DEF Os, Elements, ThisDisk
<1>3. SnapshotInv'
  BY <1>1, <1>2 DEF SnapshotInv, HasInstalled, Good
<1>4. build'.k >= build.k
  BY <1>1 DEF TypeInv, Builds
<1>5. KnownInv'
  <2>1. build.pc # "prepare" /\ build.pc \in Before \cup During
    BY DEF During
  <2>2. KnownInv!2
    BY <1>1, <2>1 DEF KnownInv
  <2>3. build.k \in Nat /\ build'.k \in Nat
    BY <1>1 DEF TypeInv, Builds
  <2>4. QED
    BY <1>2, <1>4, <2>2, <2>3 DEF KnownInv, HasInstalled
<1>6. qcow' \in [Elements -> Qcows] /\ ThisDisk'.alias \in 0..Len(ThisDisk'.snapshots)
  BY <1>1, <1>2 DEF TypeInv, ThisDisk
<1>7. QED
  BY <1>3, <1>5, <1>6, DuringKept

\* The step is done and nothing else happens.
LEMMA AdvanceKept ==
    ASSUME BuilderInv, build.pc \in During, config' = config, source' = source,
           qcow' = qcow, vm' = vm,
           build' = NextStep \/ build' = [NextStep EXCEPT !.pc = "script"], build'.pc = "script",
           Current.do # "exit",
           SeesOutcome(Os) /\ build.k = OutcomeAt(Os) =>
               ThisDisk.mishap \/ (ThisDisk.disk = "installed" /\ ~Pending(vm)),
           Os = "alpine" /\ build.k = 3 => FALSE
    PROVE  BuilderInv'
<1>1. TypeInv /\ OutcomeInv /\ AlpineInv
  BY DEF BuilderInv
<1>2. /\ build' \in Builds /\ build'.i = build.i /\ build'.k = build.k + 1
      /\ build'.known = build.known /\ build'.result = build.result
  BY <1>1, NextFacts
<1>3. build.k + 1 \in 1..Len(Script(Os)) /\ build.k \in Nat /\ Os \in Names
  BY <1>1, CurrentFacts
<1>4. Os' = Os /\ ThisDisk' = ThisDisk
  BY <1>2 DEF Os, ThisDisk
<1>5. OutcomeInv'
  <2>1. SUFFICES ASSUME SeesOutcome(Os), build.k + 1 > OutcomeAt(Os) \/ HasInstalled(ThisDisk)
                 PROVE  ThisDisk.mishap \/ (ThisDisk.disk = "installed" /\ ~Pending(vm))
    BY <1>2, <1>4 DEF OutcomeInv, Pending
  <2>2. OutcomeAt(Os) \in Nat
    BY <1>3, <2>1 DEF SeesOutcome, OutcomeAt
  <2>3. build.k = OutcomeAt(Os) \/ build.k > OutcomeAt(Os) \/ HasInstalled(ThisDisk)
    BY <1>3, <2>1, <2>2
  <2>4. QED
    BY <1>1, <2>1, <2>3 DEF OutcomeInv
<1>6. AlpineInv'
  BY <1>1, <1>2, <1>3, <1>4 DEF AlpineInv, Pending
<1>7. vm' \in Machines
  BY <1>1 DEF TypeInv
<1>8. build'.pc \in During
  BY DEF During
<1>9. QED
  BY <1>2, <1>3, <1>5, <1>6, <1>7, <1>8, DiskKept

\* A step fails: the machine is killed and the disk left as it is.
LEMMA GiveUpKept == ASSUME BuilderInv, GiveUp PROVE BuilderInv'
<1>1. TypeInv
  BY DEF BuilderInv
<1>2. vm' \in Machines /\ vm'.st = "off" /\ ~vm'.said /\ vm'.typed = << >> /\ vm'.doing = "boot"
  BY DEF GiveUp, Off, Machines
<1>3. ~Pending(vm')
  BY <1>2 DEF Pending
<1>4. QED
  BY <1>1, <1>2, <1>3, EndKept DEF GiveUp, Bounds, TypeInv

\* A step behind a checkpoint that the build resumed from; where the installation is
\* skipped, the checkpoint is of an installed disk.
LEMMA SkipKept == ASSUME BuilderInv, Skip PROVE BuilderInv'
<1>1. TypeInv /\ KnownInv /\ OutcomeInv
  BY DEF BuilderInv
<1>2. Fits(Os, build.k, Current, Len(Script(Os))) /\ Os \in Names /\ build.k \in Nat
  BY <1>1, CurrentFacts
<1>3. build.known \in SUBSET {"boot", "install"}
  BY <1>1 DEF TypeInv, Builds
<1>4. Current.unless # Always /\ Current.do # "exit" /\ Os = "arch"
  BY <1>2, <1>3 DEF Skip, Skipped, Fits, Always
<1>5. ASSUME build.k = 7 PROVE HasInstalled(ThisDisk)
  <2>1. Current.unless = "install"
    BY <1>2, <1>4, <1>5, ScriptFacts DEF Current, Is
  <2>2. QED
    BY <1>1, <2>1 DEF Skip, Skipped, At, KnownInv, HasInstalled, Before, During
<1>6. build.k = OutcomeAt(Os) => ThisDisk.mishap \/ (ThisDisk.disk = "installed" /\ ~Pending(vm))
  BY <1>1, <1>4, <1>5 DEF OutcomeInv, OutcomeAt, SeesOutcome, Skip, At, During
<1>7. NextStep.pc = "script"
  BY <1>1, NextFacts DEF Skip, At
<1>8. QED
  BY <1>4, <1>6, <1>7, AdvanceKept DEF Skip, Advance, Bounds, At, During

\* A step that is neither skipped nor the final wait nor what sees the outcome.
LEMMA DoneKept ==
    ASSUME BuilderInv, Advance, NEW kinds, Doing(kinds),
           kinds \cap {"exit", "keys", "exec", "serial", "screen"} = {}
    PROVE  BuilderInv'
<1>1. TypeInv
  BY DEF BuilderInv
<1>2. Current.do \notin {"exit", "keys", "exec", "serial", "screen"} /\ At("script")
  BY DEF Doing
<1>3. Os \in Names
  BY <1>1, CurrentFacts
<1>4. SeesOutcome(Os) => build.k # OutcomeAt(Os)
  BY <1>2, <1>3, ScriptFacts DEF Current, Is, SeesOutcome, OutcomeAt
<1>5. Os = "alpine" => build.k # 3
  BY <1>2, <1>3, ScriptFacts DEF Current, Is
<1>6. NextStep.pc = "script"
  BY <1>1, <1>2, NextFacts DEF At
<1>7. QED
  BY <1>2, <1>4, <1>5, <1>6, AdvanceKept DEF Advance, Bounds, At, During

\* A fixed delay.
LEMMA SleepKept == ASSUME BuilderInv, Sleep PROVE BuilderInv'
  BY DoneKept DEF Sleep

\* What a wait for the outcome says of the disk.
LEMMA ShownOutcome ==
    ASSUME BuilderInv, Doing({"screen", "serial", "rect", "ocr"}), Shows(Current),
           SeesOutcome(Os), build.k = OutcomeAt(Os)
    PROVE  ThisDisk.mishap \/ (ThisDisk.disk = "installed" /\ ~Pending(vm))
<1>1. TypeInv /\ AlpineInv
  BY DEF BuilderInv
<1>2. Os \in Names
  BY <1>1, CurrentFacts
<1>3. CASE Os = "arch"
  BY <1>2, <1>3, ScriptFacts DEF Current, Is, OutcomeAt, Doing
<1>4. CASE Os = "debian"
  <2>1. Current.do = "screen" /\ Current.what = "installed"
    BY <1>2, <1>4, ScriptFacts DEF Current, Is, OutcomeAt
  <2>2. vm.doing = "idle" /\ vm.typed = << >> /\ ThisDisk.disk = "installed"
    BY <2>1 DEF Shows, Quiet
  <2>3. QED
    BY <2>2 DEF Pending
<1>5. CASE Os = "alpine"
  <2>1. Current.do = "serial" /\ build.k = 4
    BY <1>2, <1>5, ScriptFacts DEF Current, Is, OutcomeAt
  <2>2. vm.said
    BY <2>1 DEF Shows
  <2>3. QED
    BY <1>1, <1>5, <2>1, <2>2 DEF AlpineInv, Doing, At, During, Good, Pending
<1>6. QED
  BY <1>3, <1>4, <1>5 DEF SeesOutcome

\* A wait goes on; only its counters change.
LEMMA WaitKept ==
    ASSUME BuilderInv, At("script"), config' = config, source' = source, qcow' = qcow,
           vm' = vm, NEW s \in 0..Patience + 1, NEW t \in 0..MaxTries,
           build' = [build EXCEPT !.silent = s, !.tries = t]
    PROVE  BuilderInv'
<1>1. TypeInv /\ OutcomeInv /\ AlpineInv
  BY DEF BuilderInv
<1>2. /\ build' \in Builds /\ build'.pc = build.pc /\ build'.i = build.i /\ build'.k = build.k
      /\ build'.known = build.known /\ build'.result = build.result /\ build.pc = "script"
  BY <1>1 DEF TypeInv, Builds, At
<1>3. Os' = Os /\ ThisDisk' = ThisDisk
  BY <1>2 DEF Os, ThisDisk
<1>4. OutcomeInv' /\ AlpineInv'
  BY <1>1, <1>2, <1>3 DEF OutcomeInv, AlpineInv, Pending
<1>5. vm' \in Machines /\ build.k \in 1..Len(Script(Os))
  BY <1>1 DEF TypeInv
<1>6. QED
  BY <1>2, <1>4, <1>5, DiskKept DEF During

\* A poll sees what it waits for, gives up or goes on waiting.
LEMMA PollKept == ASSUME BuilderInv, Poll PROVE BuilderInv'
<1>1. TypeInv
  BY DEF BuilderInv
<1>2. Doing({"screen", "serial", "rect", "ocr"}) /\ At("script")
      /\ Current.do \in {"screen", "serial", "rect", "ocr"}
  BY DEF Poll, PollWith, Doing
<1>3. build \in Builds /\ Patience \in Nat /\ MaxTries \in Nat
  BY <1>1, BuilderAssumption DEF TypeInv
<1>4. CASE Shows(Current)
  <2>1. Advance
    BY <1>4 DEF Poll, PollWith
  <2>2. SeesOutcome(Os) /\ build.k = OutcomeAt(Os) =>
            ThisDisk.mishap \/ (ThisDisk.disk = "installed" /\ ~Pending(vm))
    BY <1>2, <1>4, ShownOutcome
  <2>3. Os = "alpine" => build.k # 3
    BY <1>1, <1>2, CurrentFacts, ScriptFacts DEF Current, Is
  <2>4. NextStep.pc = "script"
    BY <1>1, <1>2, NextFacts DEF At
  <2>5. QED
    BY <1>2, <2>1, <2>2, <2>3, <2>4, AdvanceKept DEF Advance, Bounds, At, During
<1>5. CASE GiveUp
  BY <1>5, GiveUpKept
<1>6. CASE /\ UNCHANGED << source, qcow, vm >> /\ Bounds
           /\ build' = [build EXCEPT !.silent = 0]
  <2>1. build' = [build EXCEPT !.silent = 0, !.tries = build.tries]
    BY <1>3, <1>6 DEF Builds
  <2>2. 0 \in 0..Patience + 1 /\ build.tries \in 0..MaxTries
    BY <1>3 DEF Builds
  <2>3. QED
    BY <1>2, <1>6, <2>1, <2>2, WaitKept DEF Bounds
<1>7. CASE /\ UNCHANGED << source, qcow, vm >> /\ Bounds /\ ~(build.silent > Patience)
           /\ build' = [build EXCEPT !.silent = @ + 1]
  <2>1. build' = [build EXCEPT !.silent = build.silent + 1, !.tries = build.tries]
    BY <1>3, <1>7 DEF Builds
  <2>2. build.silent + 1 \in 0..Patience + 1 /\ build.tries \in 0..MaxTries
    BY <1>3, <1>7 DEF Builds
  <2>3. QED
    BY <1>2, <1>7, <2>1, <2>2, WaitKept DEF Bounds
<1>8. QED
  BY <1>4, <1>5, <1>6, <1>7 DEF Poll, PollWith

\* One attempt to connect.
LEMMA Ssh_connectKept == ASSUME BuilderInv, Ssh_connect PROVE BuilderInv'
<1>1. TypeInv
  BY DEF BuilderInv
<1>2. Doing({"ssh"}) /\ At("script")
  BY DEF Ssh_connect, Ssh_trying, Doing
<1>3. build \in Builds /\ Patience \in Nat /\ MaxTries \in Nat
  BY <1>1, BuilderAssumption DEF TypeInv
<1>4. CASE Answers
  <2>1. Advance
    BY <1>4 DEF Ssh_connect, Ssh_trying
  <2>2. QED
    BY <1>2, <2>1, DoneKept
<1>5. CASE GiveUp
  BY <1>5, GiveUpKept
<1>6. CASE /\ UNCHANGED << source, qcow, vm >> /\ Bounds /\ ~(build.tries >= MaxTries)
           /\ build' = [build EXCEPT !.tries = @ + 1]
  <2>1. build' = [build EXCEPT !.silent = build.silent, !.tries = build.tries + 1]
    BY <1>3, <1>6 DEF Builds
  <2>2. build.silent \in 0..Patience + 1 /\ build.tries + 1 \in 0..MaxTries
    BY <1>3, <1>6 DEF Builds
  <2>3. QED
    BY <1>2, <1>6, <2>1, <2>2, WaitKept DEF Bounds
<1>7. QED
  BY <1>4, <1>5, <1>6 DEF Ssh_connect, Ssh_trying

\* A command ends; of the installation only its status lets the build go on.
LEMMA Exec_endKept == ASSUME BuilderInv, Exec_end PROVE BuilderInv'
<1>1. TypeInv /\ PlaceInv
  BY DEF BuilderInv
<1>2. At("exec") /\ Quiet /\ Current.do \in {"exec", "exec_ignored"}
  BY <1>1 DEF Exec_end, ExecEndsChecking, PlaceInv, At
<1>3. CASE GiveUp
  BY <1>3, GiveUpKept
<1>4. CASE /\ Succeeded \/ Current.do \notin {"exec"}
           /\ build' = [NextStep EXCEPT !.pc = "script"] /\ UNCHANGED << source, qcow, vm >> /\ Bounds
  <2>1. Os \in Names
    BY <1>1, CurrentFacts
  <2>2. ASSUME SeesOutcome(Os), build.k = OutcomeAt(Os)
        PROVE  ThisDisk.disk = "installed" /\ ~Pending(vm)
    <3>1. Os = "arch"
      BY <1>2, <2>1, <2>2, ScriptFacts DEF Current, Is, SeesOutcome, OutcomeAt
    <3>2. Current.do = "exec" /\ Current.what = "install"
      BY <2>1, <2>2, <3>1, ScriptFacts DEF Current, Is, OutcomeAt
    <3>3. QED
      BY <1>2, <1>4, <3>2 DEF Succeeded, Quiet, Pending
  <2>3. Os = "alpine" => build.k # 3
    BY <1>2, <2>1, ScriptFacts DEF Current, Is
  <2>4. build'.pc = "script"
    BY <1>1, <1>4, NextFacts
  <2>5. QED
    BY <1>2, <1>4, <2>2, <2>3, <2>4, AdvanceKept DEF Bounds, At, During
<1>5. QED
  BY <1>3, <1>4 DEF Exec_end, ExecEndsChecking

\* What is appended to the text typed.
LEMMA TypedMore ==
    ASSUME NEW v \in Machines, NEW what \in Effects, NEW w,
           w = [v EXCEPT !.typed = Append(@, what)]
    PROVE  /\ w \in Machines /\ w.st = v.st /\ w.doing = v.doing /\ w.said = v.said
           /\ w.typed = Append(v.typed, what)
           /\ Pending(w) => Pending(v) \/ what = "install"
           /\ \A n \in DOMAIN w.typed : n = Len(w.typed) \/ (n \in DOMAIN v.typed /\ w.typed[n] = v.typed[n])
<1>1. v.typed \in Seq(Effects) /\ Append(v.typed, what) \in Seq(Effects)
  BY DEF Machines
<1>2. /\ w \in Machines /\ w.st = v.st /\ w.doing = v.doing /\ w.said = v.said
      /\ w.typed = Append(v.typed, what)
  BY <1>1 DEF Machines
<1>3. \A n \in DOMAIN w.typed :
        \/ n = Len(w.typed) /\ w.typed[n] = what
        \/ n \in DOMAIN v.typed /\ w.typed[n] = v.typed[n]
  BY <1>1, <1>2
<1>4. QED
  BY <1>2, <1>3 DEF Pending

\* Text typed to the guest: the installation is only typed before its outcome is seen.
LEMMA TypingKept ==
    ASSUME BuilderInv, At("script"), ~Skipped(Current), Current.do \in {"keys", "shutdown"},
           config' = config, source' = source, qcow' = qcow, build' = NextStep,
           NEW what \in Effects, what = "install" => Current.do = "keys" /\ Current.what = what,
           vm' = [vm EXCEPT !.typed = Append(@, what)] \/ vm' = vm
    PROVE  BuilderInv'
<1>1. TypeInv /\ OutcomeInv /\ AlpineInv /\ SnapshotInv
  BY DEF BuilderInv
<1>2. /\ build' \in Builds /\ build'.i = build.i /\ build'.k = build.k + 1 /\ build'.pc = "script"
      /\ build'.known = build.known /\ build'.result = build.result /\ build.pc = "script"
  BY <1>1, NextFacts DEF At
<1>3. /\ Os \in Names /\ build.k + 1 \in 1..Len(Script(Os)) /\ build.k \in Nat
      /\ Fits(Os, build.k, Current, Len(Script(Os)))
  BY <1>1, CurrentFacts
<1>4. Os' = Os /\ ThisDisk' = ThisDisk
  BY <1>2 DEF Os, ThisDisk
<1>5. /\ vm' \in Machines /\ vm'.st = vm.st /\ vm'.doing = vm.doing /\ vm'.said = vm.said
      /\ Pending(vm') => Pending(vm) \/ what = "install"
      /\ \A n \in DOMAIN vm'.typed : n = Len(vm'.typed) \/ (n \in DOMAIN vm.typed /\ vm'.typed[n] = vm.typed[n])
  <2>1. vm \in Machines
    BY <1>1 DEF TypeInv
  <2>2. CASE vm' = vm
    <3>1. \A n \in DOMAIN vm'.typed : n \in DOMAIN vm.typed /\ vm'.typed[n] = vm.typed[n]
      BY <2>2
    <3>2. Pending(vm') => Pending(vm)
      BY <2>2 DEF Pending
    <3>3. QED
      BY <2>1, <2>2, <3>1, <3>2
  <2>3. CASE vm' = [vm EXCEPT !.typed = Append(@, what)]
    BY <2>1, <2>3, TypedMore
  <2>4. QED
    BY <2>2, <2>3
<1>6. OutcomeInv'
  <2>1. SUFFICES ASSUME SeesOutcome(Os), build.k + 1 > OutcomeAt(Os) \/ HasInstalled(ThisDisk)
                 PROVE  ThisDisk.mishap \/ (ThisDisk.disk = "installed" /\ ~Pending(vm'))
    BY <1>2, <1>4 DEF OutcomeInv, Pending
  <2>2. OutcomeAt(Os) \in Nat /\ build.k # OutcomeAt(Os)
    BY <1>3, <2>1, ScriptFacts DEF SeesOutcome, OutcomeAt, Current, Is
  <2>3. build.k > OutcomeAt(Os) \/ HasInstalled(ThisDisk)
    BY <1>3, <2>1, <2>2
  <2>4. ThisDisk.mishap \/ (ThisDisk.disk = "installed" /\ ~Pending(vm))
    BY <1>1, <1>2, <2>1, <2>3 DEF OutcomeInv, During
  <2>5. what # "install"
    <3>1. SUFFICES ASSUME what = "install" PROVE FALSE
      OBVIOUS
    <3>2. build.k = InstallAt(Os)
      BY <1>3, <2>1, <3>1 DEF Fits, Commands
    <3>3. Os # "arch"
      BY <1>3, <3>1, <3>2, ScriptFacts DEF InstallAt, Current, Is
    <3>4. ~HasInstalled(ThisDisk)
      BY <1>1, <3>3 DEF SnapshotInv, HasInstalled, ThisDisk, Os, TypeInv
    <3>5. QED
      BY <2>1, <2>3, <3>2, <3>3, <3>4 DEF InstallAt, OutcomeAt, SeesOutcome
  <2>6. QED
    BY <1>5, <2>4, <2>5
<1>7. AlpineInv'
  <2>1. SUFFICES ASSUME Os = "alpine"
                 PROVE  /\ build.k + 1 <= 3 => ~Pending(vm') /\ ~vm'.said
                        /\ build.k + 1 = 4 =>
                              /\ \A n \in DOMAIN vm'.typed :
                                   vm'.typed[n] = "install" => n = Len(vm'.typed) /\ vm'.doing # "install" /\ ~vm'.said
                              /\ vm'.doing = "install" => ~vm'.said
                              /\ vm'.said => Good(ThisDisk)
    BY <1>2, <1>4 DEF AlpineInv
  <2>2. build.k <= 3 => ~Pending(vm) /\ ~vm.said
    BY <1>1, <1>2, <2>1 DEF AlpineInv, During
  <2>3. what = "install" => build.k = 3
    BY <1>3, <2>1 DEF Fits, Commands, InstallAt, SeesOutcome
  <2>4. build.k + 1 <= 3 => ~Pending(vm') /\ ~vm'.said
    BY <1>3, <1>5, <2>2, <2>3
  <2>5. build.k + 1 = 4 => ~vm'.said /\ vm'.doing # "install"
                           /\ \A n \in DOMAIN vm.typed : vm.typed[n] # "install"
    BY <1>3, <1>5, <2>2 DEF Pending
  <2>6. QED
    BY <1>5, <2>4, <2>5
<1>8. QED
  BY <1>2, <1>3, <1>5, <1>6, <1>7, DiskKept DEF During

\* Keys are typed, or lost during a boot.
LEMMA TypeKept == ASSUME BuilderInv, Type PROVE BuilderInv'
<1>1. TypeInv
  BY DEF BuilderInv
<1>2. CASE GiveUp
  BY <1>2, GiveUpKept
<1>3. ASSUME ~GiveUp PROVE BuilderInv'
  <2>1. Doing({"keys"}) /\ At("script") /\ ~Skipped(Current) /\ Current.do = "keys"
    BY DEF Type, Doing
  <2>2. Current.what \in Effects
    BY <1>1, <2>1, CurrentFacts DEF Fits, Commands
  <2>3. /\ build' = NextStep /\ UNCHANGED << source, qcow >> /\ Bounds
        /\ vm' = [vm EXCEPT !.typed = Append(@, Current.what)] \/ vm' = vm
    BY <1>3 DEF Type
  <2>4. QED
    BY <2>1, <2>2, <2>3, TypingKept DEF Bounds
<1>4. QED
  BY <1>2, <1>3

\* The guest is told to power off.
LEMMA Shutdown_guestKept == ASSUME BuilderInv, Shutdown_guest PROVE BuilderInv'
<1>1. CASE GiveUp
  BY <1>1, GiveUpKept
<1>2. ASSUME ~GiveUp PROVE BuilderInv'
  <2>1. At("script") /\ ~Skipped(Current) /\ Current.do = "shutdown" /\ "poweroff" \in Effects
    BY DEF Shutdown_guest, Doing, Effects
  <2>2. /\ build' = NextStep /\ UNCHANGED << source, qcow >> /\ Bounds
        /\ vm' = [vm EXCEPT !.typed = Append(@, "poweroff")]
    BY <1>2 DEF Shutdown_guest
  <2>3. QED
    BY <2>1, <2>2, TypingKept DEF Bounds
<1>3. QED
  BY <1>1, <1>2

\* A command starts; an installation only where no checkpoint of one is known.
LEMMA Exec_beginKept == ASSUME BuilderInv, Exec_begin PROVE BuilderInv'
<1>1. TypeInv /\ OutcomeInv /\ AlpineInv /\ SnapshotInv /\ KnownInv
  BY DEF BuilderInv
<1>2. CASE GiveUp
  BY <1>2, GiveUpKept
<1>3. ASSUME ~GiveUp PROVE BuilderInv'
  <2>1. build.pc = "script" /\ ~Skipped(Current) /\ Current.do \in {"exec", "exec_ignored"}
    BY DEF Exec_begin, Doing, At
  <2>2. /\ Goto("exec") /\ UNCHANGED << source, qcow >> /\ Bounds
        /\ vm.doing = "idle" /\ vm' = [vm EXCEPT !.typed = << Current.what >>]
    BY <1>3 DEF Exec_begin
  <2>3. /\ Os \in Names /\ build.k \in 1..Len(Script(Os)) /\ Len(Script(Os)) \in Nat
        /\ Fits(Os, build.k, Current, Len(Script(Os)))
    BY <1>1, CurrentFacts
  <2>4. Current.what \in Effects
    BY <2>1, <2>3 DEF Fits, Commands
  <2>5. /\ build' \in Builds /\ build'.pc = "exec" /\ build'.i = build.i /\ build'.k = build.k
        /\ build'.known = build.known /\ build'.result = build.result
    BY <1>1, <2>2, GotoFacts DEF During
  <2>6. Os' = Os /\ ThisDisk' = ThisDisk
    BY <2>2, <2>5 DEF Os, ThisDisk, Bounds
  <2>7. /\ vm' \in Machines /\ vm'.st = vm.st /\ vm'.doing = "idle" /\ vm'.said = vm.said
        /\ vm'.typed = << Current.what >>
    <3>1. << Current.what >> \in Seq(Effects)
      BY <2>4
    <3>2. vm \in Machines
      BY <1>1 DEF TypeInv
    <3>3. QED
      BY <2>2, <3>1, <3>2 DEF Machines
  <2>8. Pending(vm') => Current.what = "install"
    BY <2>7 DEF Pending
  <2>9. OutcomeInv'
    <3>1. SUFFICES ASSUME SeesOutcome(Os), build.k > OutcomeAt(Os) \/ HasInstalled(ThisDisk)
                   PROVE  ThisDisk.mishap \/ (ThisDisk.disk = "installed" /\ ~Pending(vm'))
      BY <2>5, <2>6 DEF OutcomeInv, Pending
    <3>2. ThisDisk.mishap \/ ThisDisk.disk = "installed"
      BY <1>1, <2>1, <3>1 DEF OutcomeInv, During
    <3>3. Current.what # "install"
      <4>1. SUFFICES ASSUME Current.what = "install" PROVE FALSE
        OBVIOUS
      <4>2. build.k = InstallAt(Os)
        BY <2>1, <2>3, <3>1, <4>1 DEF Fits, Commands
      <4>3. Os = "arch" /\ build.k = 7
        <5>1. Os = "alpine" => FALSE
          BY <2>1, <2>3, <4>2, ScriptFacts DEF InstallAt, Current, Is
        <5>2. Os = "debian" => ~HasInstalled(ThisDisk)
          BY <1>1 DEF SnapshotInv, HasInstalled, ThisDisk, Os, TypeInv
        <5>3. QED
          BY <3>1, <4>2, <5>1, <5>2 DEF InstallAt, OutcomeAt, SeesOutcome
      <4>4. HasInstalled(ThisDisk)
        BY <3>1, <4>3 DEF OutcomeAt
      <4>5. "install" \in build.known
        BY <1>1, <2>1, <4>3, <4>4 DEF KnownInv, Before, During
      <4>6. Current.unless = "install"
        BY <2>3, <4>3, ScriptFacts DEF Current, Is
      <4>7. QED
        BY <2>1, <4>5, <4>6 DEF Skipped
    <3>4. QED
      BY <2>8, <3>2, <3>3
  <2>10. AlpineInv'
    <3>1. SUFFICES ASSUME Os = "alpine" PROVE build.k # 4 /\ (build.k <= 3 => ~Pending(vm') /\ ~vm'.said)
      BY <2>5, <2>6 DEF AlpineInv
    <3>2. build.k # 4 /\ build.k # 3
      BY <2>1, <2>3, <3>1, ScriptFacts DEF Current, Is
    <3>3. Current.what # "install"
      BY <2>1, <2>3, <3>1, <3>2 DEF Fits, Commands, InstallAt, SeesOutcome
    <3>4. build.k <= 3 => ~vm.said
      BY <1>1, <2>1, <3>1 DEF AlpineInv, During
    <3>5. QED
      BY <2>7, <2>8, <3>2, <3>3, <3>4
  <2>11. QED
    BY <2>1, <2>2, <2>3, <2>5, <2>7, <2>9, <2>10, DiskKept DEF During, Bounds
<1>4. QED
  BY <1>2, <1>3

\* What an assignment to one field of this element's disk leaves of the others.
LEMMA ThisChanged ==
    ASSUME TypeInv, NEW q \in Qcows, qcow' = [qcow EXCEPT ![build.i] = q], build'.i = build.i
    PROVE  /\ qcow' \in [Elements -> Qcows] /\ ThisDisk' = q
           /\ \A i \in Elements : i # build.i => qcow'[i] = qcow[i]
           /\ ThisDisk \in Qcows /\ ThisDisk = qcow[build.i] /\ ThisDisk.alias \in 0..Len(ThisDisk.snapshots)
  BY DEF TypeInv, ThisDisk

\* The connection of a command is replaced: from then on nothing is claimed of the disk.
LEMMA ReconnectKept == ASSUME BuilderInv, Reconnect PROVE BuilderInv'
<1>1. TypeInv /\ PlaceInv /\ SnapshotInv /\ KnownInv /\ AlpineInv
  BY DEF BuilderInv
<1>2. build.pc = "exec" /\ Current.do \in {"exec", "exec_ignored"}
  BY <1>1 DEF Reconnect, PlaceInv, At
<1>3. config' = config /\ source' = source
  BY DEF Reconnect
<1>4. CASE ~Answers
  <2>1. build' = End("error") /\ vm' = Off /\ qcow' = qcow
    BY <1>4 DEF Reconnect
  <2>2. vm' \in Machines /\ vm'.st = "off" /\ ~vm'.said /\ vm'.typed = << >> /\ vm'.doing = "boot"
    BY <2>1 DEF Off, Machines
  <2>3. ~Pending(vm')
    BY <2>2 DEF Pending
  <2>4. QED
    BY <1>1, <1>3, <2>1, <2>2, <2>3, EndKept DEF TypeInv
<1>5. CASE Answers
  <2>1. /\ build' = [NextStep EXCEPT !.pc = "script"]
        /\ vm' = [vm EXCEPT !.doing = "idle", !.typed = << >>]
        /\ qcow' = [qcow EXCEPT ![build.i].mishap = TRUE]
    BY <1>5 DEF Reconnect
  <2>2. /\ build' \in Builds /\ build'.i = build.i /\ build'.k = build.k + 1 /\ build'.pc = "script"
        /\ build'.known = build.known /\ build'.result = build.result
    BY <1>1, <2>1, NextFacts
  <2>3. /\ Os \in Names /\ build.k + 1 \in 1..Len(Script(Os)) /\ build.k \in Nat
        /\ Fits(Os, build.k, Current, Len(Script(Os)))
    BY <1>1, <1>2, CurrentFacts
  <2>4. vm' \in Machines /\ vm'.st = vm.st /\ vm'.said = vm.said /\ vm'.doing = "idle" /\ vm'.typed = << >>
    <3>1. << >> \in Seq(Effects)
      OBVIOUS
    <3>2. QED
      BY <1>1, <2>1, <3>1 DEF TypeInv, Machines
  <2>5. /\ ThisDisk \in Qcows /\ build.i \in Elements
        /\ qcow' = [qcow EXCEPT ![build.i] = [ThisDisk EXCEPT !.mishap = TRUE]]
        /\ [ThisDisk EXCEPT !.mishap = TRUE] \in Qcows
    BY <1>1, <2>1 DEF TypeInv, ThisDisk, Qcows
  <2>6. /\ qcow' \in [Elements -> Qcows]
        /\ ThisDisk'.mishap /\ ThisDisk'.snapshots = ThisDisk.snapshots /\ ThisDisk'.alias = ThisDisk.alias
        /\ \A i \in Elements : i # build.i => qcow'[i] = qcow[i]
        /\ ThisDisk.alias \in 0..Len(ThisDisk.snapshots)
        /\ ThisDisk = qcow[build.i] /\ ThisDisk' = qcow'[build.i]
    BY <1>1, <2>2, <2>5, ThisChanged DEF Qcows, ThisDisk
  <2>7. Os' = Os /\ Elements' = Elements
    BY <1>3, <2>2 DEF Os, Elements
  <2>8. SnapshotInv'
    BY <1>1, <1>3, <2>6, <2>7 DEF SnapshotInv, HasInstalled, Good
  <2>9. KnownInv'
    <3>1. KnownInv!2
      BY <1>1, <1>2 DEF KnownInv, During
    <3>2. QED
      BY <2>2, <2>3, <2>6, <2>7, <3>1 DEF KnownInv, HasInstalled
  <2>10. OutcomeInv'
    BY <2>6 DEF OutcomeInv
  <2>11. AlpineInv'
    <3>1. SUFFICES ASSUME Os = "alpine" PROVE build.k + 1 # 4 /\ (build.k + 1 <= 3 => ~Pending(vm') /\ ~vm'.said)
      BY <2>2, <2>7 DEF AlpineInv
    <3>2. build.k # 3
      BY <1>2, <2>3, <3>1, ScriptFacts DEF Current, Is
    <3>3. QED
      BY <1>1, <1>2, <2>3, <2>4, <3>1, <3>2 DEF AlpineInv, During, Pending
  <2>12. QED
    BY <1>2, <1>3, <2>2, <2>3, <2>4, <2>6, <2>8, <2>9, <2>10, <2>11, DuringKept DEF During
<1>6. QED
  BY <1>4, <1>5

\* A snapshot is taken, and holds what the disk holds.
LEMMA CheckpointKept == ASSUME BuilderInv, Checkpoint PROVE BuilderInv'
<1>1. TypeInv /\ PlaceInv /\ SnapshotInv /\ KnownInv /\ AlpineInv /\ OutcomeInv
  BY DEF BuilderInv
<1>2. build.pc = "script" /\ Current.do = "checkpoint" /\ Doing({"checkpoint"})
  BY DEF Checkpoint, Doing, At
<1>3. CASE GiveUp
  BY <1>3, GiveUpKept
<1>4. CASE Advance
  BY <1>2, <1>4, DoneKept
<1>5. CASE /\ qcow' = [qcow EXCEPT ![build.i].snapshots =
                        Append(@, [name |-> Current.what, disk |-> ThisDisk.disk])]
           /\ build' = NextStep /\ UNCHANGED << source, vm >> /\ Bounds
  <2>1. /\ build' \in Builds /\ build'.i = build.i /\ build'.k = build.k + 1 /\ build'.pc = "script"
        /\ build'.known = build.known /\ build'.result = build.result /\ config' = config /\ source' = source
    BY <1>1, <1>2, <1>5, NextFacts DEF Bounds
  <2>2. /\ Os = "arch" /\ build.k + 1 \in 1..Len(Script(Os)) /\ build.k \in Nat
        /\ Current.what \in {"boot", "install"} /\ (Current.what = "install" => build.k = 8)
        /\ Os \in Names
    BY <1>1, <1>2, CurrentFacts DEF Fits
  <2> DEFINE new == [name |-> Current.what, disk |-> ThisDisk.disk]
             all == Append(ThisDisk.snapshots, new)
  <2>3. ThisDisk \in Qcows /\ build.i \in Elements /\ ThisDisk.alias \in 0..Len(ThisDisk.snapshots)
    BY <1>1 DEF TypeInv, ThisDisk
  <2>4. ThisDisk.snapshots \in Seq(Snapshots) /\ new \in Snapshots /\ all \in Seq(Snapshots)
    <3>1. ThisDisk.snapshots \in Seq(Snapshots) /\ new \in Snapshots
      BY <2>2, <2>3 DEF Qcows, Snapshots
    <3>2. QED
      BY <3>1
  <2>5. /\ qcow' = [qcow EXCEPT ![build.i] = [ThisDisk EXCEPT !.snapshots = all]]
        /\ [ThisDisk EXCEPT !.snapshots = all] \in Qcows
    BY <1>1, <1>5, <2>3, <2>4 DEF ThisDisk, Qcows
  <2>6. /\ qcow' \in [Elements -> Qcows]
        /\ ThisDisk'.mishap = ThisDisk.mishap /\ ThisDisk'.snapshots = all /\ ThisDisk'.alias = ThisDisk.alias
        /\ ThisDisk'.disk = ThisDisk.disk
        /\ \A i \in Elements : i # build.i => qcow'[i] = qcow[i]
        /\ ThisDisk = qcow[build.i] /\ ThisDisk' = qcow'[build.i]
    BY <1>1, <2>1, <2>3, <2>5, ThisChanged DEF Qcows, ThisDisk
  <2>7. /\ Len(all) = Len(ThisDisk.snapshots) + 1 /\ Len(ThisDisk.snapshots) \in Nat
        /\ all[Len(all)] = new
        /\ \A s \in DOMAIN ThisDisk.snapshots : s \in DOMAIN all /\ s < Len(all) /\ s \in Nat /\ all[s] = ThisDisk.snapshots[s]
        /\ \A s \in DOMAIN all : s \in Nat /\ (s = Len(all) \/ s \in DOMAIN ThisDisk.snapshots)
        /\ new.name = Current.what /\ new.disk = ThisDisk.disk
    BY <2>4
  <2> HIDE DEF all, new
  <2>8. Os' = Os /\ Elements' = Elements /\ config[build.i] = "arch"
    BY <2>1, <2>2 DEF Os, Elements
  <2>9. HasInstalled(ThisDisk') => HasInstalled(ThisDisk) \/ Current.what = "install"
    <3>1. SUFFICES ASSUME NEW s \in DOMAIN all, all[s].name = "install"
                   PROVE  HasInstalled(ThisDisk) \/ Current.what = "install"
      BY <2>6 DEF HasInstalled
    <3>2. CASE s = Len(all)
      BY <2>7, <3>1, <3>2
    <3>3. CASE s \in DOMAIN ThisDisk.snapshots
      BY <2>7, <3>1, <3>3 DEF HasInstalled
    <3>4. QED
      BY <2>7, <3>2, <3>3
  <2>10. HasInstalled(ThisDisk) \/ Current.what = "install" =>
             ThisDisk.mishap \/ (ThisDisk.disk = "installed" /\ ~Pending(vm))
    BY <1>1, <1>2, <2>2 DEF OutcomeInv, OutcomeAt, SeesOutcome, During
  <2>11. SnapshotInv'
    <3>1. SUFFICES ASSUME NEW i \in Elements
                   PROVE  /\ qcow'[i].snapshots # << >> => config[i] = "arch"
                          /\ HasInstalled(qcow'[i]) => Good(qcow'[i])
                          /\ \A s, t \in DOMAIN qcow'[i].snapshots :
                               s <= t /\ qcow'[i].snapshots[s].name = "install" =>
                                  qcow'[i].mishap \/ qcow'[i].snapshots[t].disk = "installed"
      BY <2>1, <2>8 DEF SnapshotInv
    <3>2. CASE i # build.i
      BY <1>1, <2>6, <3>2 DEF SnapshotInv
    <3>3. CASE i = build.i
      <4>1. HasInstalled(ThisDisk') => Good(ThisDisk')
        BY <2>6, <2>9, <2>10 DEF Good
      <4>2. ASSUME NEW s \in DOMAIN all, NEW t \in DOMAIN all, s <= t, all[s].name = "install"
            PROVE  ThisDisk.mishap \/ all[t].disk = "installed"
        <5>1. CASE t = Len(all)
          <6>1. CASE s = Len(all)
            BY <2>7, <2>10, <4>2, <5>1, <6>1
          <6>2. CASE s \in DOMAIN ThisDisk.snapshots
            <7>1. ThisDisk.snapshots[s].name = "install"
              BY <2>7, <4>2, <6>2
            <7>2. HasInstalled(ThisDisk)
              BY <6>2, <7>1 DEF HasInstalled
            <7>3. QED
              BY <2>7, <2>10, <5>1, <7>2
          <6>3. QED
            BY <2>7, <6>1, <6>2
        <5>2. CASE t # Len(all)
          <6>1. s \in DOMAIN ThisDisk.snapshots /\ t \in DOMAIN ThisDisk.snapshots
            BY <2>7, <4>2, <5>2
          <6>2. ThisDisk.snapshots[s].name = "install"
            BY <2>7, <4>2, <6>1
          <6>3. ThisDisk.mishap \/ ThisDisk.snapshots[t].disk = "installed"
            BY <1>1, <2>3, <2>6, <4>2, <6>1, <6>2 DEF SnapshotInv
          <6>4. QED
            BY <2>7, <6>1, <6>3
        <5>3. QED
          BY <5>1, <5>2
      <4>3. QED
        BY <2>6, <2>8, <3>3, <4>1, <4>2
    <3>4. QED
      BY <3>2, <3>3
  <2>12. KnownInv'
    <3>1. KnownInv!2
      BY <1>1, <1>2 DEF KnownInv, During
    <3>2. \A name \in build.known :
             \E s \in DOMAIN ThisDisk'.snapshots : ThisDisk'.snapshots[s].name = name
      BY <2>6, <2>7, <3>1
    <3>3. HasInstalled(ThisDisk') => "install" \in build.known \/ (Os = "arch" /\ build.k + 1 > 8)
      BY <2>2, <2>9, <3>1
    <3>4. QED
      BY <2>1, <2>8, <3>2, <3>3 DEF KnownInv
  <2>13. OutcomeInv'
    <3>1. vm' = vm /\ OutcomeAt(Os) = 7 /\ build.k # 7
      BY <1>1, <1>2, <1>5, <2>2, ScriptFacts DEF Current, Is, OutcomeAt
    <3>2. SeesOutcome(Os) /\ (build.k + 1 > 7 \/ HasInstalled(ThisDisk')) =>
              ThisDisk.mishap \/ (ThisDisk.disk = "installed" /\ ~Pending(vm))
      BY <1>1, <1>2, <2>2, <2>9, <2>10, <3>1 DEF OutcomeInv, During
    <3>3. QED
      BY <2>1, <2>6, <2>8, <3>1, <3>2 DEF OutcomeInv, Pending
  <2>14. AlpineInv'
    BY <2>2, <2>8 DEF AlpineInv
  <2>15. vm' = vm /\ vm' \in Machines
    BY <1>1, <1>5 DEF TypeInv
  <2>16. ThisDisk'.alias \in 0..Len(ThisDisk'.snapshots)
    BY <2>3, <2>6, <2>7
  <2>17. QED
    BY <1>2, <2>1, <2>2, <2>6, <2>11, <2>12, <2>13, <2>14, <2>15, <2>16, DuringKept DEF During
<1>6. QED
  BY <1>2, <1>3, <1>4, <1>5 DEF Checkpoint

\* An element is built: its outcome was seen, and no machine writes to its disk.
LEMMA Shutdown_waitKept == ASSUME BuilderInv, Shutdown_wait PROVE BuilderInv'
<1>1. TypeInv /\ PlaceInv /\ SnapshotInv /\ OutcomeInv /\ DoneInv
  BY DEF BuilderInv
<1>2. /\ build.pc = "script" /\ Current.do = "exit" /\ vm' = Off /\ ElementDone
      /\ config' = config /\ source' = source /\ qcow' = qcow
  BY DEF Shutdown_wait, Doing, At, Bounds
<1>3. vm' \in Machines /\ vm'.st = "off" /\ ~vm'.said /\ ~Pending(vm')
  <2>1. vm' \in Machines /\ vm'.st = "off" /\ ~vm'.said /\ vm'.typed = << >> /\ vm'.doing = "boot"
    BY <1>2 DEF Off, Machines
  <2>2. QED
    BY <2>1 DEF Pending
<1>4. /\ Os \in Names /\ build.k = Len(Script(Os)) /\ build.k \in Nat /\ config[build.i] = Os
      /\ build.i \in 1..Len(config) /\ Elements = 1..Len(config) /\ Len(config) \in Nat
  BY <1>1, <1>2, CurrentFacts DEF Fits, TypeInv, Elements, Os
<1>5. SeesOutcome(Os) => Good(ThisDisk)
  <2>1. SeesOutcome(Os) => build.k > OutcomeAt(Os)
    BY <1>4, ScriptFacts
  <2>2. QED
    BY <1>1, <1>2, <2>1 DEF OutcomeInv, Good, During
<1>6. build.result # "ok"
  BY <1>1, <1>2 DEF PlaceInv
<1>7. Elements' = Elements
  BY <1>2 DEF Elements
<1>8. \A j \in 1..build.i : SeesOutcome(config[j]) => Good(qcow[j])
  <2>1. \A j \in 1..build.i - 1 : SeesOutcome(config[j]) => Good(qcow[j])
    BY <1>1, <1>2 DEF DoneInv, During
  <2>2. QED
    BY <1>4, <1>5, <2>1 DEF ThisDisk
<1>9. SnapshotInv'
  BY <1>1, <1>2, <1>7 DEF SnapshotInv, HasInstalled, Good
<1>10. CASE build.i < Len(config)
  <2>1. build' = [build EXCEPT !.pc = "prepare", !.i = build.i + 1, !.k = 1, !.known = {}]
    BY <1>2, <1>10 DEF ElementDone
  <2>2. /\ build' \in Builds /\ build'.pc = "prepare" /\ build'.i = build.i + 1 /\ build'.k = 1
        /\ build'.result = build.result
    <3>1. build \in Builds /\ build.i + 1 \in Nat /\ 1 \in Nat
      BY <1>1, <1>4 DEF TypeInv
    <3>2. QED
      BY <2>1, <3>1 DEF Builds, Before, During
  <2>3. build.i + 1 \in Elements /\ config[build.i + 1] \in Names
    BY <1>1, <1>4, <1>10 DEF TypeInv
  <2>4. TypeInv'
    <3>1. 1 \in 1..Len(Script(config[build.i + 1]))
      BY <2>3, ScriptFacts
    <3>2. Os' = config[build.i + 1]
      BY <1>2, <2>2 DEF Os
    <3>3. QED
      BY <1>1, <1>2, <1>3, <1>7, <2>2, <2>3, <3>1, <3>2 DEF TypeInv
  <2>5. PlaceInv'
    BY <1>3, <1>6, <2>2 DEF PlaceInv, Before, During
  <2>6. MediumInv' /\ KnownInv' /\ OutcomeInv' /\ AlpineInv'
    BY <2>2 DEF MediumInv, KnownInv, OutcomeInv, AlpineInv, During
  <2>7. DoneInv'
    <3>1. (build.i + 1) - 1 = build.i
      BY <1>4
    <3>2. QED
      BY <1>2, <1>6, <1>8, <2>2, <3>1 DEF DoneInv, During
  <2>8. QED
    BY <1>9, <2>4, <2>5, <2>6, <2>7 DEF BuilderInv
<1>11. CASE ~(build.i < Len(config))
  <2>1. build' = [build EXCEPT !.pc = "image"]
    BY <1>2, <1>11 DEF ElementDone
  <2>2. /\ build' \in Builds /\ build'.pc = "image" /\ build'.i = build.i /\ build'.k = build.k
        /\ build'.result = build.result
    BY <1>1, <2>1 DEF TypeInv, Builds
  <2>3. build.i = Len(config)
    BY <1>4, <1>11
  <2>4. TypeInv'
    BY <1>1, <1>2, <1>3, <1>7, <2>2 DEF TypeInv, Os
  <2>5. PlaceInv'
    BY <1>2, <1>3, <1>6, <2>2, <2>3 DEF PlaceInv, Before, During
  <2>6. MediumInv' /\ KnownInv' /\ OutcomeInv' /\ AlpineInv'
    BY <2>2 DEF MediumInv, KnownInv, OutcomeInv, AlpineInv, Before, During
  <2>7. DoneInv'
    BY <1>2, <1>4, <1>7, <1>8, <2>2, <2>3 DEF DoneInv, Before, During
  <2>8. QED
    BY <1>9, <2>4, <2>5, <2>6, <2>7 DEF BuilderInv
<1>12. QED
  BY <1>10, <1>11

(***************************************************************************)
(* Before the script, and the end.                                         *)
(***************************************************************************)
Starting == {"source", "fetch", "start", "connect"}

\* A step between the disk's preparation and the script.
LEMMA StartingKept ==
    ASSUME BuilderInv, build.pc \in Starting, build'.pc \in Starting \cup {"script"},
           build' \in Builds, build'.i = build.i, build'.k = build.k,
           build'.known = build.known, build'.result = build.result,
           config' = config, source' \in [ToSet(config) -> {"absent", "bad", "whole"}],
           qcow' = qcow, vm' \in Machines, ~Pending(vm'), ~vm'.said,
           vm'.st # "off" => build'.pc \in {"connect", "script"},
           build'.pc \in {"source", "fetch", "start"} => build.pc \in {"source", "fetch", "start"},
           MediumInv'
    PROVE  BuilderInv'
<1>1. TypeInv /\ PlaceInv /\ SnapshotInv /\ KnownInv /\ DoneInv
  BY DEF BuilderInv
<1>2. Os' = Os /\ Elements' = Elements /\ ThisDisk' = ThisDisk /\ build.i \in Elements /\ Os \in Names
  BY <1>1, CurrentFacts DEF Os, Elements, ThisDisk, TypeInv
<1>3. TypeInv'
  BY <1>1, <1>2 DEF TypeInv
<1>4. build.k = 1 /\ build.result # "ok"
  BY <1>1 DEF PlaceInv, Before, Starting
<1>5. PlaceInv'
  BY <1>1, <1>4 DEF PlaceInv, Before, During, Starting
<1>7. SnapshotInv'
  BY <1>1, <1>2 DEF SnapshotInv, HasInstalled, Good
<1>8. KnownInv'
  <2>1. KnownInv!2
    BY <1>1 DEF KnownInv, Before, Starting
  <2>2. QED
    BY <1>2, <2>1 DEF KnownInv, HasInstalled
<1>9. OutcomeInv'
  <2>1. HasInstalled(ThisDisk) => Good(ThisDisk)
    BY <1>1, <1>2 DEF SnapshotInv, ThisDisk
  <2>2. SeesOutcome(Os) => ~(1 > OutcomeAt(Os))
    BY <1>2 DEF SeesOutcome, OutcomeAt
  <2>3. QED
    BY <1>2, <1>4, <2>1, <2>2 DEF OutcomeInv, Good, HasInstalled
<1>10. AlpineInv'
  BY <1>4 DEF AlpineInv
<1>11. DoneInv'
  BY <1>1, <1>2, <1>4 DEF DoneInv, Before, During, Starting, Good
<1>12. QED
  BY <1>3, <1>5, <1>7, <1>8, <1>9, <1>10, <1>11 DEF BuilderInv

\* A medium found in the cache is verified or removed.
LEMMA CheckSourceKept == ASSUME BuilderInv, CheckSource PROVE BuilderInv'
<1>1. TypeInv /\ PlaceInv /\ MediumInv
  BY DEF BuilderInv
<1>2. build.pc = "source" /\ config' = config /\ qcow' = qcow /\ vm' = vm
  BY DEF CheckSource, At, Bounds
<1>3. vm' \in Machines /\ ~Pending(vm') /\ ~vm'.said /\ vm'.st = "off"
  BY <1>1, <1>2 DEF TypeInv, PlaceInv, During, Pending
<1>4. Os \in ToSet(config) /\ source \in [ToSet(config) -> {"absent", "bad", "whole"}]
  BY <1>1 DEF TypeInv, Os, Elements, ToSet
<1>5. source' \in [ToSet(config) -> {"absent", "bad", "whole"}]
  BY <1>4 DEF CheckSource
<1>6. CASE build' = build
  BY <1>1, <1>2, <1>3, <1>5, <1>6, StartingKept DEF Starting, MediumInv, During, TypeInv
<1>7. CASE Goto("fetch")
  <2>1. build' \in Builds /\ build'.pc = "fetch" /\ build'.i = build.i /\ build'.k = build.k
        /\ build'.known = build.known /\ build'.result = build.result
    BY <1>1, <1>7, GotoFacts DEF Before
  <2>2. MediumInv'
    BY <2>1 DEF MediumInv, During
  <2>3. QED
    BY <1>2, <1>3, <1>5, <2>1, <2>2, StartingKept DEF Starting
<1>8. CASE Goto("start") /\ source' = source /\ source[Os] # "absent" /\ ~(HasChecksum(Os) /\ source[Os] = "bad")
  <2>1. build' \in Builds /\ build'.pc = "start" /\ build'.i = build.i /\ build'.k = build.k
        /\ build'.known = build.known /\ build'.result = build.result
    BY <1>1, <1>8, GotoFacts DEF Before
  <2>2. MediumInv'
    BY <1>2, <1>4, <1>8, <2>1 DEF MediumInv, Os
  <2>3. QED
    BY <1>2, <1>3, <1>5, <2>1, <2>2, StartingKept DEF Starting
<1>9. QED
  BY <1>6, <1>7, <1>8 DEF CheckSource

\* A medium is downloaded and verified.
LEMMA FetchKept == ASSUME BuilderInv, Fetch PROVE BuilderInv'
<1>1. TypeInv /\ PlaceInv
  BY DEF BuilderInv
<1>2. build.pc = "fetch" /\ config' = config /\ qcow' = qcow /\ vm' = vm
  BY DEF Fetch, FetchVerifying, At, Bounds
<1>3. vm' \in Machines /\ ~Pending(vm') /\ ~vm'.said /\ vm'.st = "off"
  BY <1>1, <1>2 DEF TypeInv, PlaceInv, During, Pending
<1>4. Os \in ToSet(config) /\ source \in [ToSet(config) -> {"absent", "bad", "whole"}]
  BY <1>1 DEF TypeInv, Os, Elements, ToSet
<1>5. PICK content \in {"bad", "whole"} :
         /\ source' = [source EXCEPT ![Os] = content]
         /\ IF content = "bad" /\ HasChecksum(Os) THEN build' = End("error") ELSE Goto("start")
  BY DEF Fetch, FetchVerifying
<1>6. source' \in [ToSet(config) -> {"absent", "bad", "whole"}] /\ source'[Os] = content
  BY <1>4, <1>5
<1>7. CASE build' = End("error")
  BY <1>1, <1>2, <1>3, <1>6, <1>7, EndKept DEF TypeInv
<1>8. CASE Goto("start") /\ ~(content = "bad" /\ HasChecksum(Os))
  <2>1. build' \in Builds /\ build'.pc = "start" /\ build'.i = build.i /\ build'.k = build.k
        /\ build'.known = build.known /\ build'.result = build.result
    BY <1>1, <1>8, GotoFacts DEF Before
  <2>2. MediumInv'
    BY <1>2, <1>6, <1>8, <2>1 DEF MediumInv, Os
  <2>3. QED
    BY <1>2, <1>3, <1>6, <2>1, <2>2, StartingKept DEF Starting
<1>9. QED
  BY <1>5, <1>7, <1>8

\* The machine is started, with nothing typed.
LEMMA SpawnKept == ASSUME BuilderInv, Spawn PROVE BuilderInv'
<1>1. TypeInv /\ MediumInv
  BY DEF BuilderInv
<1>2. build.pc = "start" /\ config' = config /\ qcow' = qcow /\ source' = source
      /\ vm' = [Off EXCEPT !.st = IF ThisDisk.orphan THEN "exited" ELSE "on"]
  BY DEF Spawn, At, Bounds
<1>3. vm' \in Machines /\ ~Pending(vm') /\ ~vm'.said
  <2>1. PICK st \in {"on", "exited"} : vm' = [Off EXCEPT !.st = st]
    BY <1>2
  <2>2. vm' \in Machines /\ vm'.typed = << >> /\ vm'.doing = "boot" /\ ~vm'.said
    <3>1. Off \in Machines /\ Off.typed = << >> /\ Off.doing = "boot" /\ ~Off.said
      BY DEF Off, Machines
    <3>2. QED
      BY <2>1, <3>1 DEF Machines
  <2>3. QED
    BY <2>2 DEF Pending
<1>4. build' \in Builds /\ build'.pc = "connect" /\ build'.i = build.i /\ build'.k = build.k
      /\ build'.known = build.known /\ build'.result = build.result
  BY <1>1, GotoFacts DEF Spawn, Before
<1>5. MediumInv'
  BY <1>1, <1>2, <1>4 DEF MediumInv, Os
<1>6. source' \in [ToSet(config) -> {"absent", "bad", "whole"}]
  BY <1>1, <1>2 DEF TypeInv
<1>7. QED
  BY <1>2, <1>3, <1>4, <1>5, <1>6, StartingKept DEF Starting

\* The process connects to the machine, or gives up.
LEMMA ConnectKept == ASSUME BuilderInv, Connect PROVE BuilderInv'
<1>1. TypeInv /\ MediumInv /\ PlaceInv
  BY DEF BuilderInv
<1>2. build.pc = "connect" /\ config' = config /\ qcow' = qcow /\ source' = source
  BY DEF Connect, At, Bounds
<1>3. CASE Goto("script") /\ vm' = vm
  <2>1. build' \in Builds /\ build'.pc = "script" /\ build'.i = build.i /\ build'.k = build.k
        /\ build'.known = build.known /\ build'.result = build.result
    BY <1>1, <1>3, GotoFacts DEF During
  <2>2. MediumInv'
    BY <1>1, <1>2, <2>1 DEF MediumInv, Os
  <2>3. source' \in [ToSet(config) -> {"absent", "bad", "whole"}]
        /\ vm' \in Machines /\ ~Pending(vm') /\ ~vm'.said
    BY <1>1, <1>2, <1>3 DEF TypeInv, PlaceInv, During, Pending
  <2>4. QED
    BY <1>2, <2>1, <2>2, <2>3, StartingKept DEF Starting
<1>4. CASE build' = End("error") /\ vm' = Off
  <2>1. GiveUp
    BY <1>4 DEF Connect, GiveUp
  <2>2. QED
    BY <2>1, GiveUpKept
<1>5. QED
  BY <1>3, <1>4 DEF Connect

\* A step outside the script fails.
LEMMA FailsKept == ASSUME BuilderInv, Fails PROVE BuilderInv'
<1>1. TypeInv
  BY DEF BuilderInv
<1>2. /\ config' = config /\ source' = source /\ build' = End("error") /\ vm' = Off
      /\ qcow' = [qcow EXCEPT ![build.i].orphan = @ \/ (At("connect") /\ vm.st = "on")]
  BY DEF Fails, Bounds
<1>3. vm' \in Machines /\ vm'.st = "off" /\ ~vm'.said /\ ~Pending(vm')
  <2>1. vm' \in Machines /\ vm'.st = "off" /\ ~vm'.said /\ vm'.typed = << >> /\ vm'.doing = "boot"
    BY <1>2 DEF Off, Machines
  <2>2. QED
    BY <2>1 DEF Pending
<1> DEFINE o == ThisDisk.orphan \/ (At("connect") /\ vm.st = "on")
<1>4. /\ o \in BOOLEAN
      /\ qcow' = [qcow EXCEPT ![build.i] = [ThisDisk EXCEPT !.orphan = o]]
  BY <1>2 DEF ThisDisk
<1> HIDE DEF o
<1>5. /\ qcow' \in [Elements -> Qcows]
      /\ \A i \in Elements : /\ qcow'[i].disk = qcow[i].disk /\ qcow'[i].snapshots = qcow[i].snapshots
                             /\ qcow'[i].alias = qcow[i].alias /\ qcow'[i].mishap = qcow[i].mishap
  <2> DEFINE new == [ThisDisk EXCEPT !.orphan = o]
  <2>1. qcow \in [Elements -> Qcows] /\ build.i \in Elements /\ ThisDisk = qcow[build.i]
    BY <1>1 DEF TypeInv, ThisDisk
  <2>2. new \in Qcows /\ new.disk = ThisDisk.disk /\ new.snapshots = ThisDisk.snapshots
        /\ new.alias = ThisDisk.alias /\ new.mishap = ThisDisk.mishap
    BY <1>1, <1>4, <2>1 DEF Qcows
  <2>3. qcow' = [qcow EXCEPT ![build.i] = new]
    BY <1>1, <1>4
  <2> HIDE DEF new
  <2>4. QED
    BY <2>1, <2>2, <2>3
<1>6. QED
  BY <1>1, <1>2, <1>3, <1>5, EndKept DEF TypeInv

\* goldboot is killed.
LEMMA KilledKept == ASSUME BuilderInv, Killed PROVE BuilderInv'
<1>1. TypeInv
  BY DEF BuilderInv
<1>2. /\ config' = config /\ source' = source /\ build' = End("killed") /\ vm' = Off
  BY DEF Killed
<1>3. PICK broken \in BOOLEAN :
         qcow' = [qcow EXCEPT ![build.i].orphan = @ \/ vm.st = "on",
                              ![build.i].broken = @ \/ broken, ![build.i].there = @ \/ broken]
  BY DEF Killed
<1>4. vm' \in Machines /\ vm'.st = "off" /\ ~vm'.said /\ ~Pending(vm')
  <2>1. vm' \in Machines /\ vm'.st = "off" /\ ~vm'.said /\ vm'.typed = << >> /\ vm'.doing = "boot"
    BY <1>2 DEF Off, Machines
  <2>2. QED
    BY <2>1 DEF Pending
<1> DEFINE o == ThisDisk.orphan \/ vm.st = "on"
           b == ThisDisk.broken \/ broken
           t == ThisDisk.there \/ broken
<1>5. /\ o \in BOOLEAN /\ b \in BOOLEAN /\ t \in BOOLEAN
      /\ qcow' = [qcow EXCEPT ![build.i] = [ThisDisk EXCEPT !.orphan = o, !.broken = b, !.there = t]]
  BY <1>1, <1>3 DEF ThisDisk, TypeInv, Qcows
<1> HIDE DEF o, b, t
<1>6. /\ qcow' \in [Elements -> Qcows]
      /\ \A i \in Elements : /\ qcow'[i].disk = qcow[i].disk /\ qcow'[i].snapshots = qcow[i].snapshots
                             /\ qcow'[i].alias = qcow[i].alias /\ qcow'[i].mishap = qcow[i].mishap
  <2> DEFINE new == [ThisDisk EXCEPT !.orphan = o, !.broken = b, !.there = t]
  <2>1. qcow \in [Elements -> Qcows] /\ build.i \in Elements /\ ThisDisk = qcow[build.i]
    BY <1>1 DEF TypeInv, ThisDisk
  <2>2. new \in Qcows /\ new.disk = ThisDisk.disk /\ new.snapshots = ThisDisk.snapshots
        /\ new.alias = ThisDisk.alias /\ new.mishap = ThisDisk.mishap
    BY <1>1, <1>5, <2>1 DEF Qcows
  <2>3. qcow' = [qcow EXCEPT ![build.i] = new]
    BY <1>1, <1>5
  <2> HIDE DEF new
  <2>4. QED
    BY <2>1, <2>2, <2>3
<1>7. QED
  BY <1>1, <1>2, <1>4, <1>6, EndKept DEF TypeInv

\* The image is made of the elements built.
LEMMA MakeImageKept == ASSUME BuilderInv, MakeImage PROVE BuilderInv'
<1>1. TypeInv /\ PlaceInv /\ SnapshotInv /\ DoneInv
  BY DEF BuilderInv
<1>2. /\ build.pc = "image" /\ config' = config /\ source' = source /\ qcow' = qcow /\ vm' = vm
      /\ build' = End("ok")
  BY DEF MakeImage, At, Bounds
<1>3. /\ build' \in Builds /\ build'.pc = "ended" /\ build'.i = build.i /\ build'.k = build.k
  BY <1>1, <1>2, EndFacts
<1>4. Os' = Os /\ Elements' = Elements
  BY <1>2, <1>3 DEF Os, Elements
<1>5. TypeInv'
  BY <1>1, <1>2, <1>3, <1>4 DEF TypeInv
<1>6. PlaceInv'
  BY <1>1, <1>2, <1>3 DEF PlaceInv, Before, During, Pending
<1>7. SnapshotInv'
  BY <1>1, <1>2, <1>4 DEF SnapshotInv, HasInstalled, Good
<1>8. MediumInv' /\ KnownInv' /\ OutcomeInv' /\ AlpineInv'
  BY <1>3 DEF MediumInv, KnownInv, OutcomeInv, AlpineInv, Before, During
<1>9. DoneInv'
  BY <1>1, <1>2, <1>3, <1>4 DEF DoneInv, Before, During, Good
<1>10. QED
  BY <1>5, <1>6, <1>7, <1>8, <1>9 DEF BuilderInv

\* A build begins with what earlier ones left, or without it.
LEMMA BeginKept == ASSUME BuilderInv, Begin PROVE BuilderInv'
<1>1. TypeInv /\ PlaceInv /\ SnapshotInv
  BY DEF BuilderInv
<1>2. /\ build.pc \in {"idle", "ended"} /\ config' = config /\ source' = source /\ vm' = vm
      /\ build' = [Idle EXCEPT !.pc = "prepare"]
      /\ qcow' = [i \in Elements |-> NoQcow] \/ qcow' = qcow
  BY DEF Begin, At
<1>3. /\ build' \in Builds /\ build'.pc = "prepare" /\ build'.i = 1 /\ build'.k = 1
      /\ build'.result = "none"
  <2>1. 0 \in 0..Patience + 1 /\ 0 \in 0..MaxTries /\ {} \in SUBSET {"boot", "install"}
    BY BuilderAssumption
  <2>2. QED
    BY <1>2, <2>1 DEF Builds, Idle, Before
<1>4. vm' \in Machines /\ vm'.st = "off" /\ ~Pending(vm') /\ ~vm'.said
  BY <1>1, <1>2 DEF TypeInv, PlaceInv, During, Pending
<1>5. NoQcow \in Qcows /\ NoQcow.alias = 0 /\ NoQcow.snapshots = << >>
  BY DEF NoQcow, Qcows, Disks
<1>6. 1 \in Elements /\ config[1] \in Names
  <2>1. Len(config) \in Nat /\ Len(config) # 0
    BY <1>1 DEF TypeInv
  <2>2. 1 \in 1..Len(config)
    BY <2>1
  <2>3. QED
    BY <1>1, <2>2 DEF TypeInv, Elements
<1>7. TypeInv'
  <2>1. qcow' \in [Elements -> Qcows] /\ \A i \in Elements : qcow'[i].alias \in 0..Len(qcow'[i].snapshots)
    BY <1>1, <1>2, <1>5 DEF TypeInv
  <2>2. Os' = config[1] /\ Elements' = Elements
    BY <1>2, <1>3 DEF Os, Elements
  <2>3. 1 \in 1..Len(Script(config[1]))
    BY <1>6, ScriptFacts
  <2>4. QED
    BY <1>1, <1>2, <1>3, <1>4, <1>6, <2>1, <2>2, <2>3 DEF TypeInv
<1>8. PlaceInv'
  BY <1>3, <1>4 DEF PlaceInv, Before, During
<1>9. MediumInv' /\ KnownInv' /\ OutcomeInv' /\ AlpineInv'
  BY <1>3 DEF MediumInv, KnownInv, OutcomeInv, AlpineInv, During
<1>10. SnapshotInv'
  <2>1. Elements' = Elements
    BY <1>2 DEF Elements
  <2>2. CASE qcow' = qcow
    BY <1>1, <1>2, <2>1, <2>2 DEF SnapshotInv, HasInstalled, Good
  <2>3. CASE qcow' = [i \in Elements |-> NoQcow]
    <3>1. \A i \in Elements : qcow'[i].snapshots = << >>
      BY <1>5, <2>3
    <3>2. DOMAIN << >> = {}
      OBVIOUS
    <3>3. \A i \in Elements : ~HasInstalled(qcow'[i])
      BY <3>1, <3>2 DEF HasInstalled
    <3>4. QED
      BY <2>1, <3>1, <3>2, <3>3 DEF SnapshotInv
  <2>4. QED
    BY <1>2, <2>2, <2>3
<1>11. DoneInv'
  <2>1. 1..1 - 1 = {}
    OBVIOUS
  <2>2. QED
    BY <1>3, <2>1 DEF DoneInv, Before, During
<1>12. QED
  BY <1>7, <1>8, <1>9, <1>10, <1>11 DEF BuilderInv

\* The disk is discarded or reverted: it is clean, and what was known of it holds.
LEMMA PrepareKept == ASSUME BuilderInv, Prepare PROVE BuilderInv'
<1>1. TypeInv /\ PlaceInv /\ SnapshotInv /\ DoneInv
  BY DEF BuilderInv
<1> DEFINE kept == IF ThisDisk.snapshots = << >> /\ ~ThisDisk.broken THEN NoQcow ELSE ThisDisk
           clean == IF kept.snapshots = << >> THEN [kept EXCEPT !.there = TRUE]
                    ELSE [kept EXCEPT !.disk = Last(kept.snapshots).disk,
                                      !.alias = Len(kept.snapshots)]
           known == {s.name : s \in ToSet(kept.snapshots)}
<1>2. /\ build.pc = "prepare" /\ config' = config /\ source' = source /\ vm' = vm
      /\ IF kept.broken THEN build' = End("error") /\ qcow' = qcow
         ELSE /\ qcow' = [qcow EXCEPT ![build.i] = clean]
              /\ build' = [build EXCEPT !.pc = "source", !.known = known]
  BY DEF Prepare, PrepareFrom, At, Bounds
<1>3. vm' \in Machines /\ vm'.st = "off" /\ ~Pending(vm') /\ ~vm'.said
  BY <1>1, <1>2 DEF TypeInv, PlaceInv, During, Pending
<1>4. CASE kept.broken
  <2>1. build' = End("error") /\ qcow' = qcow
    BY <1>2, <1>4
  <2>2. QED
    BY <1>1, <1>2, <1>3, <2>1, EndKept DEF TypeInv
<1>5. CASE ~kept.broken
  <2>1. /\ qcow' = [qcow EXCEPT ![build.i] = clean]
        /\ build' = [build EXCEPT !.pc = "source", !.known = known]
    BY <1>2, <1>5
  <2>2. ThisDisk \in Qcows /\ build.i \in Elements /\ ThisDisk = qcow[build.i]
        /\ ThisDisk.alias \in 0..Len(ThisDisk.snapshots)
    BY <1>1 DEF TypeInv, ThisDisk
  <2>3. NoQcow \in Qcows /\ NoQcow.alias = 0 /\ NoQcow.snapshots = << >> /\ NoQcow.disk = "blank"
    BY DEF NoQcow, Qcows, Disks
  <2>4. \/ kept = NoQcow
        \/ kept = ThisDisk /\ ThisDisk.snapshots # << >>
    BY <1>5
  <2> DEFINE all == kept.snapshots
  <2>5. kept \in Qcows /\ all \in Seq(Snapshots) /\ kept.alias \in 0..Len(all)
    BY <2>2, <2>3, <2>4 DEF Qcows
  <2>6. /\ clean \in Qcows /\ clean.snapshots = all /\ clean.mishap = kept.mishap
        /\ clean.alias \in 0..Len(all)
        /\ \/ all = << >> /\ clean.disk = "blank"
           \/ all # << >> /\ Len(all) \in DOMAIN all /\ clean.disk = all[Len(all)].disk
    <3>1. CASE all = << >>
      <4>1. clean = [kept EXCEPT !.there = TRUE] /\ kept = NoQcow
        BY <2>4, <3>1
      <4>2. QED
        BY <2>3, <2>5, <3>1, <4>1 DEF Qcows
    <3>2. CASE all # << >>
      <4>1. Len(all) \in DOMAIN all /\ all[Len(all)] \in Snapshots /\ Len(all) \in Nat /\ Len(all) \in 0..Len(all)
        BY <2>5, <3>2
      <4>2. Last(all).disk \in Disks /\ Last(all) = all[Len(all)]
        BY <4>1 DEF Last, Snapshots
      <4>3. clean = [kept EXCEPT !.disk = Last(all).disk, !.alias = Len(all)]
        BY <3>2
      <4>4. QED
        BY <2>5, <3>2, <4>1, <4>2, <4>3 DEF Qcows
    <3>3. QED
      BY <3>1, <3>2
  <2>7. all # << >> => kept = ThisDisk
    BY <2>3, <2>4
  <2>8. \A n \in DOMAIN all : all[n] \in Snapshots /\ n \in Nat /\ n <= Len(all)
    BY <2>5
  <2>9. known = {all[n].name : n \in DOMAIN all}
    BY DEF ToSet
  <2> HIDE DEF kept, clean, known, all
  <2>10. known \in SUBSET {"boot", "install"}
    <3>1. \A n \in DOMAIN all : all[n].name \in {"boot", "install"}
      BY <2>8 DEF Snapshots
    <3>2. QED
      BY <2>9, <3>1
  <2>11. /\ build' \in Builds /\ build'.pc = "source" /\ build'.i = build.i /\ build'.k = build.k
         /\ build'.known = known /\ build'.result = build.result
    BY <1>1, <2>1, <2>10 DEF TypeInv, Builds, Before
  <2>12. /\ qcow' \in [Elements -> Qcows] /\ ThisDisk' = clean
         /\ \A i \in Elements : i # build.i => qcow'[i] = qcow[i]
         /\ ThisDisk' = qcow'[build.i]
    BY <1>1, <2>1, <2>2, <2>6, <2>11, ThisChanged DEF ThisDisk
  <2>13. Os' = Os /\ Elements' = Elements
    BY <1>2, <2>11 DEF Os, Elements
  <2>14. TypeInv'
    <3>1. \A i \in Elements : qcow'[i].alias \in 0..Len(qcow'[i].snapshots)
      BY <1>1, <2>6, <2>12 DEF TypeInv
    <3>2. QED
      BY <1>1, <1>2, <1>3, <2>11, <2>12, <2>13, <3>1 DEF TypeInv
  <2>15. PlaceInv'
    BY <1>1, <1>2, <1>3, <2>11 DEF PlaceInv, Before, During
  <2>16. MediumInv' /\ OutcomeInv' /\ AlpineInv'
    BY <2>11 DEF MediumInv, OutcomeInv, AlpineInv, During
  <2>18. SnapshotInv'
    <3>1. SUFFICES ASSUME NEW i \in Elements
                   PROVE  /\ qcow'[i].snapshots # << >> => config[i] = "arch"
                          /\ HasInstalled(qcow'[i]) => Good(qcow'[i])
                          /\ \A s, t \in DOMAIN qcow'[i].snapshots :
                               s <= t /\ qcow'[i].snapshots[s].name = "install" =>
                                  qcow'[i].mishap \/ qcow'[i].snapshots[t].disk = "installed"
      BY <1>2, <2>13 DEF SnapshotInv
    <3>2. CASE i # build.i
      BY <1>1, <2>12, <3>2 DEF SnapshotInv
    <3>3. CASE i = build.i /\ all = << >>
      <4>1. DOMAIN << >> = {}
        OBVIOUS
      <4>2. QED
        BY <2>6, <2>12, <3>3, <4>1 DEF HasInstalled
    <3>4. CASE i = build.i /\ all # << >>
      <4>1. all = ThisDisk.snapshots /\ clean.mishap = ThisDisk.mishap
        BY <2>6, <2>7, <3>4 DEF all
      <4>2. /\ config[i] = "arch"
            /\ \A s, t \in DOMAIN all :
                 s <= t /\ all[s].name = "install" => ThisDisk.mishap \/ all[t].disk = "installed"
        BY <1>1, <2>2, <3>4, <4>1 DEF SnapshotInv
      <4>3. HasInstalled(clean) => Good(clean)
        BY <2>6, <2>8, <3>4, <4>1, <4>2 DEF HasInstalled, Good
      <4>4. QED
        BY <2>6, <2>12, <3>4, <4>1, <4>2, <4>3
    <3>5. QED
      BY <3>2, <3>3, <3>4
  <2>19. KnownInv'
    <3>1. \A name \in known : \E s \in DOMAIN all : all[s].name = name
      BY <2>9
    <3>2. HasInstalled(clean) => "install" \in known
      BY <2>6, <2>9 DEF HasInstalled
    <3>3. QED
      BY <2>6, <2>11, <2>12, <3>1, <3>2 DEF KnownInv
  <2>20. DoneInv'
    <3>1. \A j \in 1..build.i - 1 : j \in Elements /\ j # build.i /\ qcow'[j] = qcow[j]
      BY <1>1, <2>12 DEF TypeInv, Elements
    <3>2. build.result # "ok"
      BY <1>1, <1>2 DEF PlaceInv
    <3>3. QED
      BY <1>1, <1>2, <2>11, <3>1, <3>2 DEF DoneInv, Before, During
  <2>21. QED
    BY <2>14, <2>15, <2>16, <2>18, <2>19, <2>20 DEF BuilderInv
<1>6. QED
  BY <1>4, <1>5

(***************************************************************************)
(* The guest, and what befalls it.                                         *)
(***************************************************************************)

\* What the machine writes changes what this disk and its checkpoint hold.
LEMMA HoldingFacts ==
    ASSUME NEW q \in Qcows, q.alias \in 0..Len(q.snapshots), NEW d \in Disks
    PROVE  LET h == Holding(q, d)
           IN  /\ h \in Qcows /\ h.disk = d /\ h.mishap = q.mishap /\ h.alias = q.alias
               /\ Len(h.snapshots) = Len(q.snapshots) /\ DOMAIN h.snapshots = DOMAIN q.snapshots
               /\ h.snapshots # << >> => q.snapshots # << >>
               /\ \A s \in DOMAIN q.snapshots : h.snapshots[s].name = q.snapshots[s].name
<1> DEFINE all == [s \in DOMAIN q.snapshots |-> IF s = q.alias THEN [q.snapshots[s] EXCEPT !.disk = d]
                                                ELSE q.snapshots[s]]
<1>1. q.snapshots \in Seq(Snapshots)
  BY DEF Qcows
<1>2. \A s \in DOMAIN q.snapshots : all[s] \in Snapshots /\ all[s].name = q.snapshots[s].name
  <2>1. \A e \in Snapshots : /\ [e EXCEPT !.disk = d] \in Snapshots
                              /\ [e EXCEPT !.disk = d].name = e.name
    BY DEF Snapshots
  <2>2. \A s \in DOMAIN q.snapshots : q.snapshots[s] \in Snapshots
    BY <1>1
  <2>3. QED
    BY <2>1, <2>2
<1>3. DOMAIN all = 1..Len(q.snapshots) /\ DOMAIN q.snapshots = 1..Len(q.snapshots) /\ Len(q.snapshots) \in Nat
  BY <1>1
<1>4. all \in Seq(Snapshots) /\ Len(all) = Len(q.snapshots)
  <2>1. all \in [1..Len(q.snapshots) -> Snapshots]
    BY <1>2, <1>3
  <2>2. QED
    BY <1>3, <2>1, LenProperties, IsASeq
<1>5. Holding(q, d) = [q EXCEPT !.disk = d, !.snapshots = all]
  BY DEF Holding
<1>6. all # << >> => q.snapshots # << >>
  BY <1>1, <1>3, <1>4
<1> HIDE DEF all
<1>7. QED
  BY <1>2, <1>3, <1>4, <1>5, <1>6 DEF Qcows

\* The machine writes to the disk.
LEMMA DiskWritten ==
    ASSUME BuilderInv, build.pc \in During \cup {"connect"},
           config' = config, source' = source, build' = build,
           NEW q \in Qcows, qcow' = [qcow EXCEPT ![build.i] = q],
           q.alias = ThisDisk.alias, Len(q.snapshots) = Len(ThisDisk.snapshots),
           DOMAIN q.snapshots = DOMAIN ThisDisk.snapshots,
           q.snapshots # << >> => ThisDisk.snapshots # << >>,
           \A s \in DOMAIN q.snapshots : q.snapshots[s].name = ThisDisk.snapshots[s].name,
           HasInstalled(ThisDisk) => q.mishap,
           vm' \in Machines, vm.st = "on",
           build.pc = "connect" => ~Pending(vm') /\ ~vm'.said,
           OutcomeInv', AlpineInv'
    PROVE  BuilderInv'
<1>1. TypeInv /\ PlaceInv /\ MediumInv /\ SnapshotInv /\ KnownInv /\ DoneInv
  BY DEF BuilderInv
<1>2. /\ qcow' \in [Elements -> Qcows] /\ ThisDisk' = q
      /\ \A i \in Elements : i # build.i => qcow'[i] = qcow[i]
      /\ ThisDisk = qcow[build.i] /\ ThisDisk.alias \in 0..Len(ThisDisk.snapshots)
      /\ qcow'[build.i] = q /\ build.i \in Elements
  BY <1>1, ThisChanged DEF TypeInv
<1>3. Os' = Os /\ Elements' = Elements
  BY DEF Os, Elements
<1>4. HasInstalled(q) <=> HasInstalled(ThisDisk)
  BY DEF HasInstalled
<1>5. TypeInv'
  <2>1. \A i \in Elements : qcow'[i].alias \in 0..Len(qcow'[i].snapshots)
    BY <1>1, <1>2 DEF TypeInv
  <2>2. QED
    BY <1>1, <1>2, <1>3, <2>1 DEF TypeInv
<1>6. PlaceInv'
  <2>1. Current' = Current
    BY <1>3 DEF Current
  <2>2. build.pc \notin During => build.pc = "connect"
    OBVIOUS
  <2>3. QED
    BY <1>1, <2>1, <2>2 DEF PlaceInv
<1>7. MediumInv'
  BY <1>1, <1>3 DEF MediumInv
<1>9. SnapshotInv'
  <2>1. SUFFICES ASSUME NEW i \in Elements
                 PROVE  /\ qcow'[i].snapshots # << >> => config[i] = "arch"
                        /\ HasInstalled(qcow'[i]) => Good(qcow'[i])
                        /\ \A s, t \in DOMAIN qcow'[i].snapshots :
                             s <= t /\ qcow'[i].snapshots[s].name = "install" =>
                                qcow'[i].mishap \/ qcow'[i].snapshots[t].disk = "installed"
    BY <1>3 DEF SnapshotInv
  <2>2. CASE i # build.i
    BY <1>1, <1>2, <2>2 DEF SnapshotInv
  <2>3. CASE i = build.i
    <3>1. q.snapshots # << >> => config[i] = "arch"
      BY <1>1, <1>2, <2>3 DEF SnapshotInv
    <3>2. HasInstalled(q) => Good(q)
      BY <1>4 DEF Good
    <3>3. \A s \in DOMAIN q.snapshots : q.snapshots[s].name = "install" => q.mishap
      BY <1>4 DEF HasInstalled
    <3>4. QED
      BY <1>2, <2>3, <3>1, <3>2, <3>3
  <2>4. QED
    BY <2>2, <2>3
<1>10. KnownInv'
  <2>1. KnownInv!2
    BY <1>1 DEF KnownInv, Before, During
  <2>2. QED
    BY <1>2, <1>3, <1>4, <2>1 DEF KnownInv
<1>11. DoneInv'
  <2>1. \A j \in 1..build.i - 1 : j \in Elements /\ j # build.i /\ qcow'[j] = qcow[j]
    BY <1>1, <1>2 DEF TypeInv, Elements
  <2>2. build.result # "ok" /\ build.pc # "image"
    BY <1>1 DEF PlaceInv, During
  <2>3. QED
    BY <1>1, <2>1, <2>2 DEF DoneInv, Before, During
<1>12. QED
  BY <1>5, <1>6, <1>7, <1>9, <1>10, <1>11 DEF BuilderInv

\* The guest does something that does not change the disk.
LEMMA GuestKept ==
    ASSUME BuilderInv, vm.st = "on", config' = config, source' = source, build' = build, qcow' = qcow,
           vm' \in Machines, Pending(vm') => Pending(vm), vm'.said = vm.said,
           \A n \in DOMAIN vm'.typed : vm'.typed[n] = "install" =>
               \E m \in DOMAIN vm.typed : /\ vm.typed[m] = "install"
                                          /\ m = Len(vm.typed) => n = Len(vm'.typed) /\ vm'.doing # "install",
           vm'.doing = "install" => ~vm.said \/ vm.doing = "install" \/ Os # "alpine" \/ build.k # 4 \/ build.pc \notin During
    PROVE  BuilderInv'
<1>1. TypeInv /\ PlaceInv /\ MediumInv /\ OutcomeInv /\ AlpineInv
  BY DEF BuilderInv
<1>2. Os' = Os /\ ThisDisk' = ThisDisk
  BY DEF Os, ThisDisk
<1>3. build.pc \in During \cup {"connect"}
  BY <1>1 DEF PlaceInv
<1>4. OutcomeInv'
  BY <1>1, <1>2 DEF OutcomeInv, HasInstalled
<1>5. AlpineInv'
  BY <1>1, <1>2 DEF AlpineInv, Good
<1>6. CASE build.pc \in During
  BY <1>1, <1>4, <1>5, <1>6, DiskKept DEF TypeInv, PlaceInv
<1>7. CASE build.pc = "connect"
  <2>1. ~Pending(vm') /\ ~vm'.said /\ MediumInv'
    BY <1>1, <1>2, <1>7 DEF PlaceInv, During, MediumInv
  <2>2. QED
    BY <1>1, <1>7, <2>1, StartingKept DEF Starting, TypeInv
<1>8. QED
  BY <1>3, <1>6, <1>7

\* A boot ends.
LEMMA GuestBootsKept == ASSUME BuilderInv, GuestBoots PROVE BuilderInv'
<1>1. TypeInv /\ ThisDisk \in Qcows
  BY DEF BuilderInv, TypeInv, ThisDisk
<1> DEFINE sshd == vm.authorized /\ ThisDisk.disk = "installed"
<1>2. vm' = [vm EXCEPT !.doing = "idle", !.sshd = sshd] /\ sshd \in BOOLEAN /\ vm.st = "on"
  BY DEF GuestBoots
<1> HIDE DEF sshd
<1>3. vm' \in Machines /\ vm'.doing = "idle" /\ vm'.typed = vm.typed /\ vm'.said = vm.said
  BY <1>1, <1>2 DEF TypeInv, Machines
<1>4. Pending(vm') => Pending(vm)
  BY <1>3 DEF Pending
<1>5. QED
  BY <1>2, <1>3, <1>4, GuestKept DEF GuestBoots, GuestUnchanged

\* The guest freezes.
LEMMA GuestHangsKept == ASSUME BuilderInv, GuestHangs PROVE BuilderInv'
<1>1. TypeInv
  BY DEF BuilderInv
<1>2. vm' = [vm EXCEPT !.doing = "hung"] /\ vm.st = "on"
  BY DEF GuestHangs
<1>3. vm' \in Machines /\ vm'.doing = "hung" /\ vm'.typed = vm.typed /\ vm'.said = vm.said
  BY <1>1, <1>2 DEF TypeInv, Machines
<1>4. Pending(vm') => Pending(vm)
  BY <1>3 DEF Pending
<1>5. QED
  BY <1>2, <1>3, <1>4, GuestKept DEF GuestHangs, GuestUnchanged

\* An installation under way: none was seen to succeed on this disk, unless its
\* history does not count.
LEMMA InstallingFacts ==
    ASSUME BuilderInv, vm.st = "on", Pending(vm)
    PROVE  /\ build.pc \in During
           /\ SeesOutcome(Os) /\ (build.k > OutcomeAt(Os) \/ HasInstalled(ThisDisk)) => ThisDisk.mishap
           /\ HasInstalled(ThisDisk) => ThisDisk.mishap
<1>1. build.pc \in During
  BY DEF BuilderInv, PlaceInv
<1>2. SeesOutcome(Os) /\ (build.k > OutcomeAt(Os) \/ HasInstalled(ThisDisk)) => ThisDisk.mishap
  BY <1>1 DEF BuilderInv, OutcomeInv
<1>3. HasInstalled(ThisDisk) => Os = "arch"
  <2>1. DOMAIN << >> = {}
    OBVIOUS
  <2>2. QED
    BY <2>1 DEF BuilderInv, SnapshotInv, HasInstalled, ThisDisk, Os, TypeInv
<1>4. QED
  BY <1>1, <1>2, <1>3 DEF SeesOutcome

\* An installation ends, well or not: none had been seen to succeed.
LEMMA GuestInstallsKept == ASSUME BuilderInv, GuestInstalls PROVE BuilderInv'
<1>1. TypeInv /\ AlpineInv
  BY DEF BuilderInv
<1>2. vm.st = "on" /\ vm.doing = "install" /\ Pending(vm)
      /\ config' = config /\ source' = source /\ build' = build
  BY DEF GuestInstalls, Pending, GuestUnchanged
<1>3. PICK d \in {"partial", "installed"} :
         /\ qcow' = [qcow EXCEPT ![build.i] = Holding(@, d)]
         /\ vm' = [vm EXCEPT !.doing = "idle", !.said = @ \/ d = "installed"]
  BY DEF GuestInstalls, SetDisk
<1>4. ThisDisk \in Qcows /\ ThisDisk.alias \in 0..Len(ThisDisk.snapshots) /\ ThisDisk = qcow[build.i]
  BY <1>1 DEF TypeInv, ThisDisk
<1> DEFINE q == Holding(ThisDisk, d)
<1>5. /\ q \in Qcows /\ q.disk = d /\ q.mishap = ThisDisk.mishap /\ q.alias = ThisDisk.alias
      /\ Len(q.snapshots) = Len(ThisDisk.snapshots) /\ DOMAIN q.snapshots = DOMAIN ThisDisk.snapshots
      /\ q.snapshots # << >> => ThisDisk.snapshots # << >>
      /\ \A s \in DOMAIN ThisDisk.snapshots : q.snapshots[s].name = ThisDisk.snapshots[s].name
  BY <1>4, HoldingFacts DEF Disks
<1>6. qcow' = [qcow EXCEPT ![build.i] = q]
  BY <1>3, <1>4
<1> HIDE DEF q
<1> DEFINE said == vm.said \/ d = "installed"
<1>7. vm' \in Machines /\ vm'.doing = "idle" /\ vm'.typed = vm.typed /\ (vm'.said <=> vm.said \/ d = "installed")
  <2>1. vm' = [vm EXCEPT !.doing = "idle", !.said = said] /\ said \in BOOLEAN /\ vm \in Machines
    BY <1>1, <1>3 DEF TypeInv
  <2>2. HIDE DEF said
  <2>3. vm' \in Machines /\ vm'.doing = "idle" /\ vm'.typed = vm.typed /\ vm'.said = said
    BY <2>1 DEF Machines
  <2>4. QED
    BY <2>3 DEF said
<1> HIDE DEF said
<1>8. /\ build.pc \in During
      /\ SeesOutcome(Os) /\ (build.k > OutcomeAt(Os) \/ HasInstalled(ThisDisk)) => ThisDisk.mishap
      /\ HasInstalled(ThisDisk) => ThisDisk.mishap
  BY <1>2, InstallingFacts
<1>9. Os' = Os /\ ThisDisk' = q /\ (HasInstalled(q) <=> HasInstalled(ThisDisk))
  <2>1. ThisDisk' = q
    BY <1>1, <1>2, <1>5, <1>6, ThisChanged
  <2>2. QED
    BY <1>2, <1>5, <2>1 DEF Os, HasInstalled
<1>10. OutcomeInv'
  BY <1>2, <1>5, <1>8, <1>9 DEF OutcomeInv
<1>11. AlpineInv'
  <2>1. SUFFICES ASSUME Os = "alpine"
                 PROVE  /\ build.k <= 3 => FALSE
                        /\ build.k = 4 =>
                              /\ \A n \in DOMAIN vm'.typed : vm'.typed[n] # "install"
                              /\ vm'.said => Good(q)
    BY <1>2, <1>7, <1>9 DEF AlpineInv
  <2>2. QED
    BY <1>1, <1>2, <1>5, <1>7, <1>8, <2>1 DEF AlpineInv, Good
<1>12. QED
  BY <1>2, <1>5, <1>6, <1>7, <1>8, <1>10, <1>11, DiskWritten DEF During

\* The machine dies: from then on nothing is claimed of the disk.
LEMMA VmCrashesKept == ASSUME BuilderInv, VmCrashes PROVE BuilderInv'
<1>1. TypeInv /\ AlpineInv /\ PlaceInv
  BY DEF BuilderInv
<1>2. vm.st = "on" /\ vm' = [vm EXCEPT !.st = "exited"]
      /\ config' = config /\ source' = source /\ build' = build
  BY DEF VmCrashes, GuestUnchanged
<1>3. PICK d \in {"blank", "partial"} :
         qcow' = [qcow EXCEPT ![build.i] = [Holding(@, d) EXCEPT !.mishap = TRUE]]
  BY DEF VmCrashes
<1>4. ThisDisk \in Qcows /\ ThisDisk.alias \in 0..Len(ThisDisk.snapshots) /\ ThisDisk = qcow[build.i]
  BY <1>1 DEF TypeInv, ThisDisk
<1> DEFINE h == Holding(ThisDisk, d)
           q == [h EXCEPT !.mishap = TRUE]
<1>5. /\ h \in Qcows /\ h.alias = ThisDisk.alias
      /\ Len(h.snapshots) = Len(ThisDisk.snapshots) /\ DOMAIN h.snapshots = DOMAIN ThisDisk.snapshots
      /\ h.snapshots # << >> => ThisDisk.snapshots # << >>
      /\ \A s \in DOMAIN ThisDisk.snapshots : h.snapshots[s].name = ThisDisk.snapshots[s].name
  BY <1>4, HoldingFacts DEF Disks
<1>6. qcow' = [qcow EXCEPT ![build.i] = q]
  BY <1>3, <1>4
<1> HIDE DEF h
<1>7. q \in Qcows /\ q.mishap /\ q.snapshots = h.snapshots /\ q.alias = h.alias
  BY <1>5 DEF Qcows
<1> HIDE DEF q
<1>8. vm' \in Machines /\ vm'.doing = vm.doing /\ vm'.typed = vm.typed /\ vm'.said = vm.said
  BY <1>1, <1>2 DEF TypeInv, Machines
<1>9. Os' = Os /\ ThisDisk' = q
  <2>1. ThisDisk' = q
    BY <1>1, <1>2, <1>6, <1>7, ThisChanged
  <2>2. QED
    BY <1>2, <2>1 DEF Os
<1>10. build.pc \in During \cup {"connect"}
  BY <1>1, <1>2 DEF PlaceInv
<1>11. build.pc = "connect" => ~Pending(vm') /\ ~vm'.said
  BY <1>1, <1>8 DEF PlaceInv, During, Pending
<1>12. OutcomeInv'
  BY <1>7, <1>9 DEF OutcomeInv
<1>13. AlpineInv'
  BY <1>1, <1>2, <1>7, <1>8, <1>9 DEF AlpineInv, Good, Pending
<1>14. /\ q.alias = ThisDisk.alias /\ Len(q.snapshots) = Len(ThisDisk.snapshots)
       /\ DOMAIN q.snapshots = DOMAIN ThisDisk.snapshots
       /\ q.snapshots # << >> => ThisDisk.snapshots # << >>
       /\ \A s \in DOMAIN q.snapshots : q.snapshots[s].name = ThisDisk.snapshots[s].name
  BY <1>5, <1>7
<1>15. QED
  BY <1>2, <1>6, <1>7, <1>8, <1>10, <1>11, <1>12, <1>13, <1>14, DiskWritten

\* The guest gets to what was typed; an installation makes the disk partial.
LEMMA GuestObeysKept == ASSUME BuilderInv, GuestObeys PROVE BuilderInv'
<1>1. TypeInv /\ AlpineInv
  BY DEF BuilderInv
<1> DEFINE effect == Head(vm.typed)
           rest == [vm EXCEPT !.typed = Tail(@)]
<1>2. vm.st = "on" /\ vm.doing = "idle" /\ vm.typed # << >>
      /\ config' = config /\ source' = source /\ build' = build
  BY DEF GuestObeys, GuestUnchanged
<1>3. /\ vm.typed \in Seq(Effects) /\ Tail(vm.typed) \in Seq(Effects) /\ effect \in Effects
      /\ effect = vm.typed[1] /\ 1 \in DOMAIN vm.typed /\ Len(vm.typed) \in Nat
      /\ Len(Tail(vm.typed)) = Len(vm.typed) - 1
      /\ \A n \in DOMAIN Tail(vm.typed) : /\ n + 1 \in DOMAIN vm.typed /\ Tail(vm.typed)[n] = vm.typed[n + 1]
                                          /\ n \in Nat /\ n + 1 # 1
  <2>1. vm.typed \in Seq(Effects)
    BY <1>1 DEF TypeInv, Machines
  <2>2. QED
    BY <1>2, <2>1
<1>4. /\ rest \in Machines /\ rest.st = "on" /\ rest.doing = "idle" /\ rest.typed = Tail(vm.typed)
      /\ rest.said = vm.said
  BY <1>1, <1>2, <1>3 DEF TypeInv, Machines
<1>5. /\ vm' = CASE effect = "none" -> rest
                 [] effect = "sshd" -> [rest EXCEPT !.sshd = TRUE]
                 [] effect = "authorize" -> [rest EXCEPT !.authorized = TRUE]
                 [] effect = "install" -> [rest EXCEPT !.doing = "install"]
                 [] effect = "reboot" -> [rest EXCEPT !.doing = "boot", !.sshd = FALSE]
                 [] effect = "poweroff" -> [rest EXCEPT !.st = "exited"]
      /\ IF effect = "install" THEN SetDisk("partial") ELSE qcow' = qcow
  BY DEF GuestObeys
<1> HIDE DEF effect, rest
<1>6. /\ vm' \in Machines /\ vm'.typed = Tail(vm.typed) /\ vm'.said = vm.said
      /\ effect = "install" <=> vm'.doing = "install"
  BY <1>3, <1>4, <1>5 DEF Effects, Machines
<1>7. Pending(vm') => Pending(vm)
  BY <1>3, <1>6 DEF Pending
<1>8. CASE effect # "install"
  <2>1. \A n \in DOMAIN vm'.typed : vm'.typed[n] = "install" =>
               \E m \in DOMAIN vm.typed : /\ vm.typed[m] = "install"
                                          /\ m = Len(vm.typed) => n = Len(vm'.typed) /\ vm'.doing # "install"
    <3>1. ASSUME NEW n \in DOMAIN Tail(vm.typed), Tail(vm.typed)[n] = "install"
          PROVE  /\ n + 1 \in DOMAIN vm.typed /\ vm.typed[n + 1] = "install"
                 /\ n + 1 = Len(vm.typed) => n = Len(Tail(vm.typed))
      BY <1>3, <3>1
    <3>2. QED
      BY <1>6, <1>8, <3>1
  <2>2. qcow' = qcow
    BY <1>5, <1>8
  <2>3. QED
    BY <1>2, <1>6, <1>7, <1>8, <2>1, <2>2, GuestKept
<1>9. CASE effect = "install"
  <2>1. ThisDisk \in Qcows /\ ThisDisk.alias \in 0..Len(ThisDisk.snapshots) /\ ThisDisk = qcow[build.i]
    BY <1>1 DEF TypeInv, ThisDisk
  <2> DEFINE q == Holding(ThisDisk, "partial")
  <2>2. /\ q \in Qcows /\ q.mishap = ThisDisk.mishap /\ q.alias = ThisDisk.alias
        /\ Len(q.snapshots) = Len(ThisDisk.snapshots) /\ DOMAIN q.snapshots = DOMAIN ThisDisk.snapshots
        /\ q.snapshots # << >> => ThisDisk.snapshots # << >>
        /\ \A s \in DOMAIN ThisDisk.snapshots : q.snapshots[s].name = ThisDisk.snapshots[s].name
    BY <2>1, HoldingFacts DEF Disks
  <2>3. qcow' = [qcow EXCEPT ![build.i] = q]
    BY <1>5, <1>9, <2>1 DEF SetDisk
  <2> HIDE DEF q
  <2>4. Pending(vm)
    BY <1>3, <1>9 DEF Pending
  <2>5. /\ build.pc \in During
        /\ SeesOutcome(Os) /\ (build.k > OutcomeAt(Os) \/ HasInstalled(ThisDisk)) => ThisDisk.mishap
        /\ HasInstalled(ThisDisk) => ThisDisk.mishap
    BY <1>2, <2>4, InstallingFacts
  <2>6. ThisDisk' = q /\ Os' = Os /\ (HasInstalled(q) <=> HasInstalled(ThisDisk))
    <3>1. ThisDisk' = q
      BY <1>1, <1>2, <2>2, <2>3, ThisChanged
    <3>2. QED
      BY <1>2, <2>2, <3>1 DEF Os, HasInstalled
  <2>7. OutcomeInv'
    BY <1>2, <2>2, <2>5, <2>6 DEF OutcomeInv
  <2>8. AlpineInv'
    <3>1. SUFFICES ASSUME Os = "alpine"
                   PROVE  /\ build.k <= 3 => FALSE
                          /\ build.k = 4 =>
                                /\ \A n \in DOMAIN vm'.typed : vm'.typed[n] # "install"
                                /\ ~vm'.said
      BY <1>2, <2>6 DEF AlpineInv
    <3>2. build.k = 4 => Len(vm.typed) = 1 /\ ~vm.said
      BY <1>1, <1>3, <1>9, <2>5, <3>1 DEF AlpineInv
    <3>3. build.k = 4 => \A n \in DOMAIN vm'.typed : FALSE
      <4>1. ASSUME build.k = 4 PROVE DOMAIN Tail(vm.typed) = {}
        BY <1>3, <3>2, <4>1
      <4>2. QED
        BY <1>6, <4>1
    <3>4. build.k <= 3 => FALSE
      BY <1>1, <2>4, <2>5, <3>1 DEF AlpineInv
    <3>5. QED
      BY <1>6, <3>2, <3>3, <3>4
  <2>9. QED
    BY <1>2, <1>6, <2>2, <2>3, <2>5, <2>7, <2>8, DiskWritten DEF During
<1>10. QED
  BY <1>8, <1>9

\* What only matters to later builds changes: a machine left running exits.
LEMMA OrphanExitsKept == ASSUME BuilderInv, OrphanExits PROVE BuilderInv'
<1>1. TypeInv /\ PlaceInv /\ MediumInv /\ SnapshotInv /\ KnownInv /\ OutcomeInv /\ AlpineInv /\ DoneInv
  BY DEF BuilderInv
<1>2. /\ config' = config /\ source' = source /\ build' = build /\ vm' = vm
      /\ \E i \in Elements : qcow' = [qcow EXCEPT ![i].orphan = FALSE]
  BY DEF OrphanExits, GuestUnchanged
<1>3. /\ qcow' \in [Elements -> Qcows]
      /\ \A i \in Elements : /\ qcow'[i].disk = qcow[i].disk /\ qcow'[i].snapshots = qcow[i].snapshots
                             /\ qcow'[i].alias = qcow[i].alias /\ qcow'[i].mishap = qcow[i].mishap
  <2>1. PICK i \in Elements : qcow' = [qcow EXCEPT ![i].orphan = FALSE]
    BY <1>2
  <2>2. /\ qcow' = [qcow EXCEPT ![i] = [qcow[i] EXCEPT !.orphan = FALSE]]
        /\ qcow \in [Elements -> Qcows] /\ qcow[i] \in Qcows
    BY <1>1, <2>1 DEF TypeInv
  <2>3. /\ [qcow[i] EXCEPT !.orphan = FALSE] \in Qcows
        /\ [qcow[i] EXCEPT !.orphan = FALSE].disk = qcow[i].disk
        /\ [qcow[i] EXCEPT !.orphan = FALSE].snapshots = qcow[i].snapshots
        /\ [qcow[i] EXCEPT !.orphan = FALSE].alias = qcow[i].alias
        /\ [qcow[i] EXCEPT !.orphan = FALSE].mishap = qcow[i].mishap
    BY <2>2 DEF Qcows
  <2>4. QED
    BY <2>2, <2>3
<1>4. /\ Os' = Os /\ Elements' = Elements /\ build.i \in Elements /\ Current' = Current
      /\ ThisDisk'.disk = ThisDisk.disk /\ ThisDisk'.snapshots = ThisDisk.snapshots
      /\ ThisDisk'.alias = ThisDisk.alias /\ ThisDisk'.mishap = ThisDisk.mishap
  BY <1>1, <1>2, <1>3 DEF Os, Elements, ThisDisk, TypeInv, Current
<1>5. TypeInv'
  BY <1>1, <1>2, <1>3, <1>4 DEF TypeInv
<1>6. PlaceInv'
  BY <1>1, <1>2, <1>4 DEF PlaceInv, Pending
<1>7. MediumInv'
  BY <1>1, <1>2, <1>4 DEF MediumInv
<1>9. SnapshotInv'
  BY <1>1, <1>2, <1>3, <1>4 DEF SnapshotInv, HasInstalled, Good
<1>10. KnownInv'
  BY <1>1, <1>2, <1>4 DEF KnownInv, HasInstalled
<1>11. OutcomeInv'
  BY <1>1, <1>2, <1>4 DEF OutcomeInv, HasInstalled, Pending
<1>12. AlpineInv'
  BY <1>1, <1>2, <1>4 DEF AlpineInv, Good, Pending
<1>13. DoneInv'
  <2>1. \A j \in 1..build.i - 1 : j \in Elements
    BY <1>1 DEF TypeInv, Elements
  <2>2. \A j \in Elements : Good(qcow'[j]) <=> Good(qcow[j])
    BY <1>3 DEF Good
  <2>3. QED
    BY <1>1, <1>2, <1>4, <2>1, <2>2 DEF DoneInv, Good
<1>14. QED
  BY <1>5, <1>6, <1>7, <1>9, <1>10, <1>11, <1>12, <1>13 DEF BuilderInv

(***************************************************************************)
(* The theorems.                                                           *)
(***************************************************************************)
LEMMA InitInv == Init => BuilderInv
<1> SUFFICES ASSUME Init PROVE BuilderInv
  OBVIOUS
<1>1. config \in Seq(Names) /\ config # << >>
  BY BuilderAssumption DEF Init
<1>2. 1 \in Elements /\ config[1] \in Names
  <2>1. Len(config) \in Nat /\ Len(config) # 0
    BY <1>1
  <2>2. 1 \in 1..Len(config)
    BY <2>1
  <2>3. QED
    BY <1>1, <2>2 DEF Elements
<1>3. /\ build \in Builds /\ build.pc = "idle" /\ build.i = 1 /\ build.k = 1 /\ build.result = "none"
  <2>1. 0 \in 0..Patience + 1 /\ 0 \in 0..MaxTries /\ {} \in SUBSET {"boot", "install"}
    BY BuilderAssumption
  <2>2. QED
    BY <2>1 DEF Init, Builds, Idle
<1>4. vm \in Machines /\ vm.st = "off" /\ vm.typed = << >> /\ vm.doing = "boot" /\ ~vm.said
  BY DEF Init, Off, Machines
<1>5. NoQcow \in Qcows /\ NoQcow.alias = 0 /\ NoQcow.snapshots = << >>
  BY DEF NoQcow, Qcows, Disks
<1>6. TypeInv
  <2>1. qcow \in [Elements -> Qcows] /\ \A i \in Elements : qcow[i].alias \in 0..Len(qcow[i].snapshots)
    BY <1>5 DEF Init
  <2>2. 1 \in 1..Len(Script(config[1]))
    BY <1>2, ScriptFacts
  <2>3. QED
    BY <1>1, <1>2, <1>3, <1>4, <2>1, <2>2 DEF TypeInv, Init, Os
<1>7. PlaceInv
  BY <1>3, <1>4 DEF PlaceInv, Before, Pending
<1>8. MediumInv /\ KnownInv /\ OutcomeInv /\ AlpineInv /\ DoneInv
  BY <1>3 DEF MediumInv, KnownInv, OutcomeInv, AlpineInv, DoneInv, Before, During
<1>9. SnapshotInv
  <2>1. \A i \in Elements : qcow[i].snapshots = << >>
    BY <1>5 DEF Init
  <2>2. DOMAIN << >> = {}
    OBVIOUS
  <2>3. QED
    BY <2>1, <2>2 DEF SnapshotInv, HasInstalled
<1>10. QED
  BY <1>6, <1>7, <1>8, <1>9 DEF BuilderInv

\* Every step preserves the invariant.
LEMMA StepInv == BuilderInv /\ [Next]_vars => BuilderInv'
<1>1. ASSUME BuilderInv, Step_of_build PROVE BuilderInv'
  BY <1>1, PrepareKept, MakeImageKept, CheckSourceKept, FetchKept, SpawnKept, ConnectKept,
     SkipKept, SleepKept, TypeKept, PollKept, Ssh_connectKept, Exec_beginKept, Exec_endKept,
     ReconnectKept, CheckpointKept, Shutdown_guestKept, Shutdown_waitKept DEF Step_of_build
<1>2. ASSUME BuilderInv, UNCHANGED vars PROVE BuilderInv'
  BY <1>2 DEF vars, BuilderInv, TypeInv, PlaceInv, MediumInv, SnapshotInv, KnownInv,
     OutcomeInv, AlpineInv, DoneInv, Os, ThisDisk, Elements, Current, HasInstalled, Good, Pending
<1>3. QED
  BY <1>1, <1>2, BeginKept, FailsKept, GuestBootsKept, GuestInstallsKept, GuestObeysKept,
     GuestHangsKept, VmCrashesKept, KilledKept, OrphanExitsKept DEF Next

\* What every state of every build satisfies.
THEOREM BuilderInvariant == Spec => []BuilderInv
  BY InitInv, StepInv, PTL DEF Spec

\* A build ends well (Builder::run) only with disks that were installed, from
\* media that were verified: for any configurations, any numbers of builds and
\* faults and any patience.
THEOREM AlwaysSoundBuild == Spec => []BuildIsSound
<1>1. BuilderInv => BuildIsSound
  <2> SUFFICES ASSUME BuilderInv PROVE BuildIsSound
    OBVIOUS
  <2>1. TypeOK
    BY DEF BuilderInv, TypeInv, TypeOK, Qcows, Machines, Builds, Disks
  <2>2. SuccessIsInstalled
    <3>1. SUFFICES ASSUME build.result = "ok" PROVE SuccessIsInstalled
      BY DEF SuccessIsInstalled
    <3>2. build.pc = "ended" /\ vm.st = "off"
      BY <3>1 DEF BuilderInv, PlaceInv, TypeInv, Machines, During
    <3>3. \A j \in Elements : SeesOutcome(config[j]) => Good(qcow[j])
      BY <3>1 DEF BuilderInv, DoneInv
    <3>4. QED
      BY <3>2, <3>3 DEF SuccessIsInstalled, Good
  <2>3. BootsVerifiedMedium
    BY DEF BuilderInv, PlaceInv, MediumInv, BootsVerifiedMedium
  <2>4. QED
    BY <2>1, <2>2, <2>3 DEF BuildIsSound
<1>2. QED
  BY <1>1, BuilderInvariant, PTL

(***************************************************************************)
(* Installers find a blank disk.                                           *)
(*                                                                         *)
(* Nothing but an installation writes to a disk, so that a disk is blank   *)
(* until the script is behind the step that starts it, and a checkpoint    *)
(* without one of the installed system before it is of a blank disk.  A    *)
(* resumed build starts on such a disk, and never gets a connection.       *)
(***************************************************************************)
Running == Starting \cup During

\* The script has started the installation, or is about to.
Behind == build.k > InstallAt(Os) \/ build.pc = "exec"

\* The checkpoints before the installation's.
BlankSnapshots(q) == ~HasInstalled(q) => \A s \in DOMAIN q.snapshots : q.snapshots[s].disk = "blank"

\* Behind the checkpoint of the boot nobody starts the SSH server.
Unreached ==
    "boot" \in build.known =>
        /\ build.k <= 6 /\ build.pc # "exec"
        /\ vm.st # "off" => vm.typed = << >> /\ ~vm.sshd /\ ~vm.authorized

\* An installation that the guest has yet to get to, at most one, finds a blank disk.
InstallsOnce ==
    \A n \in DOMAIN vm.typed : vm.typed[n] = "install" =>
        /\ ThisDisk.disk = "blank" /\ vm.doing # "install"
        /\ \A m \in DOMAIN vm.typed : vm.typed[m] = "install" => m = n

RunningInv ==
    /\ ThisDisk.alias # 0 => build.known # {}
    /\ "install" \notin build.known /\ ~Behind => ThisDisk.disk = "blank"
    /\ ~Behind \/ build.known # {} => ~Pending(vm)
    /\ Unreached /\ InstallsOnce

FreshInv ==
    /\ \A i \in Elements : BlankSnapshots(qcow[i])
    /\ build.pc \in Running => RunningInv

\* A build that knows checkpoints is of Arch Linux.
LEMMA KnownFacts ==
    ASSUME BuilderInv, build.pc \in Running
    PROVE  /\ build.known # {} => Os = "arch" /\ ThisDisk.snapshots # << >>
           /\ "install" \in build.known => HasInstalled(ThisDisk)
           /\ build.known \subseteq {"boot", "install"}
<1>1. \A name \in build.known : \E s \in DOMAIN ThisDisk.snapshots : ThisDisk.snapshots[s].name = name
  BY DEF BuilderInv, KnownInv, Before, Running, Starting, During
<1>2. ThisDisk.snapshots # << >> => Os = "arch"
  BY DEF BuilderInv, SnapshotInv, TypeInv, ThisDisk, Os
<1>3. build.known # {} => ThisDisk.snapshots # << >>
  <2>1. DOMAIN << >> = {}
    OBVIOUS
  <2>2. QED
    BY <1>1, <2>1
<1>4. build.known \subseteq {"boot", "install"}
  BY DEF BuilderInv, TypeInv, Builds
<1>5. QED
  BY <1>1, <1>2, <1>3, <1>4 DEF HasInstalled

\* Behind the checkpoint of the boot only the attempts to connect are left.
LEMMA ResumedFacts ==
    ASSUME BuilderInv, FreshInv, build.pc \in During, "boot" \in build.known
    PROVE  /\ build.pc = "script" /\ ~Answers /\ build.k + 1 \in Nat
           /\ Skipped(Current) => build.k + 1 <= 6
           /\ ~Skipped(Current) => Current.do = "ssh"
<1>1. build.pc = "script" /\ (vm.st = "on" => ~vm.sshd) /\ build.k <= 6
  BY DEF FreshInv, RunningInv, Unreached, Running, During
<1>2. Os = "arch" /\ build.known \subseteq {"boot", "install"}
  BY KnownFacts DEF Running
<1>3. Fits(Os, build.k, Current, Len(Script(Os))) /\ build.k \in Nat
  BY CurrentFacts DEF BuilderInv
<1>4. CASE build.k <= 5
  BY <1>1, <1>2, <1>3, <1>4 DEF Fits, Skipped, Answers
<1>5. CASE build.k = 6
  <2>1. Current.do = "ssh" /\ Current.unless \notin {"boot", "install"}
    BY <1>2, <1>3, <1>5 DEF Fits, Always
  <2>2. QED
    BY <1>1, <1>2, <1>5, <2>1 DEF Skipped, Answers
<1>6. QED
  BY <1>1, <1>3, <1>4, <1>5

\* The build ends, or the element: the disks are as they were.
LEMMA FreshEnd ==
    ASSUME BuilderInv, FreshInv, config' = config, build'.pc \notin Running,
           \A i \in Elements : qcow'[i].snapshots = qcow[i].snapshots
    PROVE  FreshInv'
<1>1. Elements' = Elements
  BY DEF Elements
<1>2. QED
  BY <1>1 DEF FreshInv, BlankSnapshots, HasInstalled, Running, During, Starting

\* A step of a running build that leaves the disk as it is and starts no installation.
LEMMA FreshKept ==
    ASSUME BuilderInv, FreshInv, config' = config, build.pc \in Running, build'.pc \in Running,
           build'.i = build.i, build'.known = build.known,
           build'.k \in {build.k, build.k + 1}, build.pc = "exec" => build'.pc = "exec" \/ build'.k = build.k + 1,
           \A i \in Elements : /\ qcow'[i].disk = qcow[i].disk /\ qcow'[i].alias = qcow[i].alias
                               /\ qcow'[i].snapshots = qcow[i].snapshots \/ BlankSnapshots(qcow'[i]),
           Pending(vm') => Pending(vm),
           InstallsOnce', Unreached'
    PROVE  FreshInv'
<1>1. Elements' = Elements /\ Os' = Os /\ build.i \in Elements
  BY DEF Elements, Os, BuilderInv, TypeInv
<1>2. ThisDisk'.disk = ThisDisk.disk /\ ThisDisk'.alias = ThisDisk.alias
  BY <1>1 DEF ThisDisk
<1>3. \A i \in Elements : BlankSnapshots(qcow'[i])
  BY DEF FreshInv, BlankSnapshots, HasInstalled
<1>4. Behind => Behind'
  <2>1. build.k \in Nat /\ Os \in Names /\ Fits(Os, build.k, Current, Len(Script(Os)))
    BY CurrentFacts DEF BuilderInv
  <2>2. InstallAt(Os) \in Nat
    BY DEF InstallAt
  <2>3. build.pc = "exec" => build.k >= InstallAt(Os)
    BY <2>1 DEF Fits, BuilderInv, PlaceInv
  <2>4. QED
    BY <1>1, <2>1, <2>2, <2>3 DEF Behind
<1>5. RunningInv
  BY DEF FreshInv
<1>6. (Pending(vm))' => Pending(vm)
  BY DEF Pending
<1>7. RunningInv'
  BY <1>2, <1>4, <1>5, <1>6 DEF RunningInv
<1>8. QED
  BY <1>1, <1>3, <1>7 DEF FreshInv

\* Nothing happens to the machine.
LEMMA FreshStep ==
    ASSUME BuilderInv, FreshInv, config' = config, build.pc \in Running, build'.pc \in Running,
           build'.i = build.i, build'.known = build.known,
           build'.k \in {build.k, build.k + 1}, build.pc = "exec" => build'.pc = "exec" \/ build'.k = build.k + 1,
           qcow' = qcow, vm' = vm,
           "boot" \in build.known => build'.k <= 6 /\ build'.pc # "exec"
    PROVE  FreshInv'
<1>1. RunningInv
  BY DEF FreshInv
<1>2. Unreached'
  BY <1>1 DEF RunningInv, Unreached
<1>3. InstallsOnce'
  BY <1>1 DEF RunningInv, InstallsOnce, ThisDisk
<1>4. QED
  BY <1>2, <1>3, FreshKept

\* The build gives up.
LEMMA FreshGiveUp == ASSUME BuilderInv, FreshInv, GiveUp PROVE FreshInv'
<1>1. build'.pc = "ended"
  BY EndFacts DEF GiveUp, BuilderInv
<1>2. QED
  BY <1>1, FreshEnd DEF GiveUp, Bounds, Running, Starting, During

\* The script goes on.
LEMMA FreshAdvance ==
    ASSUME BuilderInv, FreshInv, build.pc \in During,
           build' = NextStep \/ build' = [NextStep EXCEPT !.pc = "script"],
           UNCHANGED << source, qcow, vm >>, Bounds, Skipped(Current) \/ "boot" \notin build.known
    PROVE  FreshInv'
<1>1. /\ build'.pc \in During /\ build'.i = build.i /\ build'.k = build.k + 1 /\ build'.known = build.known
      /\ build.pc = "script" => build'.pc = "script"
  BY NextFacts DEF BuilderInv, During
<1>2. "boot" \in build.known => build.pc = "script" /\ build.k + 1 <= 6
  BY ResumedFacts
<1>3. QED
  BY <1>1, <1>2, FreshStep DEF Bounds, Running, During

\* A wait goes on.
LEMMA FreshWait ==
    ASSUME BuilderInv, FreshInv, At("script"), UNCHANGED << source, qcow, vm >>, Bounds,
           NEW s, NEW t, build' = [build EXCEPT !.silent = s, !.tries = t]
    PROVE  FreshInv'
<1>1. build'.pc = build.pc /\ build'.i = build.i /\ build'.k = build.k /\ build'.known = build.known
      /\ build.pc = "script"
  BY DEF At, BuilderInv, TypeInv, Builds
<1>2. "boot" \in build.known => build.k <= 6
  BY <1>1 DEF FreshInv, RunningInv, Unreached, Running, During
<1>3. QED
  BY <1>1, <1>2, FreshStep DEF Bounds, Running, During

\* The steps that change neither the disk nor the machine, or end the build.
LEMMA FreshScript ==
    ASSUME BuilderInv, FreshInv, Skip \/ Sleep \/ Poll \/ Ssh_connect \/ Exec_end
    PROVE  FreshInv'
<1>1. TypeInv /\ build \in Builds
  BY DEF BuilderInv, TypeInv
<1>2. CASE GiveUp
  BY <1>2, FreshGiveUp
<1>3. CASE Skip
  BY <1>3, FreshAdvance DEF Skip, Advance, At, During
<1>4. CASE Sleep
  <2>1. Doing({"timer"}) /\ Advance
    BY <1>4 DEF Sleep
  <2>2. build.pc = "script" /\ "boot" \notin build.known
    BY <2>1, ResumedFacts DEF Doing, At, During
  <2>3. QED
    BY <2>1, <2>2, FreshAdvance DEF Advance, During
<1>5. CASE Poll /\ ~GiveUp
  <2>1. Doing({"screen", "serial", "rect", "ocr"}) /\ build.pc = "script"
    BY <1>5 DEF Poll, PollWith, Doing, At
  <2>2. "boot" \notin build.known
    BY <2>1, ResumedFacts DEF Doing, During
  <2>3. CASE Advance
    BY <2>1, <2>2, <2>3, FreshAdvance DEF Advance, During
  <2>4. CASE /\ UNCHANGED << source, qcow, vm >> /\ Bounds
             /\ build' = [build EXCEPT !.silent = 0] \/ build' = [build EXCEPT !.silent = @ + 1]
    <3>1. PICK s \in {0, build.silent + 1} : build' = [build EXCEPT !.silent = s, !.tries = build.tries]
      BY <1>1, <2>4 DEF Builds
    <3>2. QED
      BY <2>1, <2>4, <3>1, FreshWait DEF At
  <2>5. QED
    BY <1>5, <2>3, <2>4 DEF Poll, PollWith
<1>6. CASE Ssh_connect /\ ~GiveUp
  <2>1. Doing({"ssh"}) /\ build.pc = "script"
    BY <1>6 DEF Ssh_connect, Ssh_trying, Doing, At
  <2>2. CASE Answers /\ Advance
    <3>1. "boot" \notin build.known
      BY <2>1, <2>2, ResumedFacts DEF During
    <3>2. QED
      BY <2>1, <2>2, <3>1, FreshAdvance DEF Advance, During
  <2>3. CASE UNCHANGED << source, qcow, vm >> /\ Bounds /\ build' = [build EXCEPT !.tries = @ + 1]
    <3>1. build' = [build EXCEPT !.silent = build.silent, !.tries = build.tries + 1]
      BY <1>1, <2>3 DEF Builds
    <3>2. QED
      BY <2>1, <2>3, <3>1, FreshWait DEF At
  <2>4. QED
    BY <1>6, <2>2, <2>3 DEF Ssh_connect, Ssh_trying
<1>7. CASE Exec_end /\ ~GiveUp
  <2>1. /\ build.pc = "exec" /\ build' = [NextStep EXCEPT !.pc = "script"]
        /\ UNCHANGED << source, qcow, vm >> /\ Bounds
    BY <1>7 DEF Exec_end, ExecEndsChecking, At
  <2>2. "boot" \notin build.known
    BY <2>1, ResumedFacts DEF During
  <2>3. QED
    BY <2>1, <2>2, FreshAdvance DEF During
<1>8. QED
  BY <1>2, <1>3, <1>4, <1>5, <1>6, <1>7

\* The process leaves the running builds, or has yet to become one.
LEMMA FreshOutside ==
    ASSUME BuilderInv, FreshInv, MakeImage \/ Shutdown_wait \/ Fails \/ Killed
    PROVE  FreshInv'
<1>1. TypeInv
  BY DEF BuilderInv
<1>2. config' = config
  BY DEF MakeImage, Shutdown_wait, Fails, Killed, Bounds
<1>3. build'.pc \notin Running
  <2>1. CASE MakeImage \/ Fails \/ Killed
    <3>1. PICK r \in {"ok", "error", "killed"} : build' = End(r)
      BY <2>1 DEF MakeImage, Fails, Killed
    <3>2. build'.pc = "ended"
      BY <1>1, <3>1, EndFacts
    <3>3. QED
      BY <3>2 DEF Running, Starting, During
  <2>2. CASE Shutdown_wait
    <3>1. build'.pc \in {"prepare", "image"}
      BY <1>1, <2>2 DEF Shutdown_wait, ElementDone, TypeInv, Builds
    <3>2. QED
      BY <3>1 DEF Running, Starting, During
  <2>3. QED
    BY <2>1, <2>2
<1>4. \A i \in Elements : qcow'[i].snapshots = qcow[i].snapshots
  <2>1. CASE qcow' = qcow
    BY <2>1
  <2>2. CASE Fails
    <3>1. PICK o : qcow' = [qcow EXCEPT ![build.i].orphan = o]
      BY <2>2 DEF Fails
    <3>2. QED
      BY <1>1, <3>1 DEF TypeInv, Qcows
  <2>3. CASE Killed
    <3>1. PICK broken \in BOOLEAN :
             qcow' = [qcow EXCEPT ![build.i].orphan = @ \/ vm.st = "on",
                                  ![build.i].broken = @ \/ broken, ![build.i].there = @ \/ broken]
      BY <2>3 DEF Killed
    <3>2. QED
      BY <1>1, <3>1 DEF TypeInv, Qcows
  <2>4. QED
    BY <2>1, <2>2, <2>3 DEF MakeImage, Shutdown_wait
<1>5. QED
  BY <1>2, <1>3, <1>4, FreshEnd

\* A build begins.
LEMMA FreshBegin == ASSUME BuilderInv, FreshInv, Begin PROVE FreshInv'
<1>1. config' = config /\ build'.pc \notin Running
  BY DEF Begin, Idle, Running, Starting, During
<1>2. CASE qcow' = qcow
  BY <1>1, <1>2, FreshEnd
<1>3. CASE qcow' = [i \in Elements |-> NoQcow]
  <2>1. DOMAIN NoQcow.snapshots = {}
    BY DEF NoQcow
  <2>2. \A i \in Elements : BlankSnapshots(qcow'[i])
    BY <1>3, <2>1 DEF BlankSnapshots
  <2>3. QED
    BY <1>1, <2>2 DEF FreshInv, Elements
<1>4. QED
  BY <1>2, <1>3 DEF Begin

\* Between the disk's preparation and the script nothing happens to the disk.
LEMMA FreshStarting ==
    ASSUME BuilderInv, FreshInv, CheckSource \/ Fetch \/ Spawn \/ Connect
    PROVE  FreshInv'
<1>1. TypeInv
  BY DEF BuilderInv
<1>2. /\ config' = config /\ qcow' = qcow
      /\ build.pc \in Starting /\ build.k = 1
  BY DEF CheckSource, Fetch, FetchVerifying, Spawn, Connect, Bounds, At, Starting, BuilderInv, PlaceInv, Before
<1>3. CASE build' = End("error")
  <2>1. build'.pc \notin Running
    BY <1>1, <1>3, EndFacts DEF Running, Starting, During
  <2>2. QED
    BY <1>2, <2>1, FreshEnd
<1>4. ASSUME build' # End("error")
      PROVE  /\ build'.pc \in Starting \cup {"script"} /\ build'.i = build.i /\ build'.k = build.k
             /\ build'.known = build.known
  <2>1. build' = build \/ \E pc \in {"fetch", "start", "connect", "script"} : Goto(pc)
    BY <1>4 DEF CheckSource, Fetch, FetchVerifying, Spawn, Connect
  <2>2. CASE build' = build
    BY <1>2, <2>2
  <2>3. ASSUME NEW pc \in {"fetch", "start", "connect", "script"}, Goto(pc)
        PROVE  build'.pc = pc /\ build'.i = build.i /\ build'.k = build.k /\ build'.known = build.known
    BY <1>1, <2>3, GotoFacts DEF Before, During
  <2>4. QED
    BY <2>1, <2>2, <2>3 DEF Starting
<1>5. CASE build' # End("error") /\ vm' = vm
  BY <1>2, <1>4, <1>5, FreshStep DEF Running, Starting, During
<1>6. CASE build' # End("error") /\ Spawn
  <2>1. vm'.typed = << >> /\ vm'.doing = "boot" /\ ~vm'.sshd /\ ~vm'.authorized
    BY <1>6 DEF Spawn, Off
  <2>2. DOMAIN vm'.typed = {}
    BY <2>1
  <2>3. ~Pending(vm') /\ InstallsOnce'
    BY <2>1, <2>2 DEF Pending, InstallsOnce
  <2>4. Unreached'
    BY <1>2, <1>4, <1>6, <2>1 DEF Unreached, Starting
  <2>5. QED
    BY <1>2, <1>4, <1>6, <2>3, <2>4, FreshKept DEF Running, Starting, During
<1>7. QED
  BY <1>3, <1>5, <1>6 DEF CheckSource, Fetch, FetchVerifying, Spawn, Connect

\* The disk is discarded, or reverted to a checkpoint that is blank unless there
\* is one of the installed system.
LEMMA FreshPrepare == ASSUME BuilderInv, FreshInv, Prepare PROVE FreshInv'
<1>1. TypeInv /\ ThisDisk \in Qcows /\ build.i \in Elements /\ ThisDisk = qcow[build.i]
  BY DEF BuilderInv, TypeInv, ThisDisk
<1> DEFINE kept == IF ThisDisk.snapshots = << >> /\ ~ThisDisk.broken THEN NoQcow ELSE ThisDisk
           all == kept.snapshots
           clean == IF all = << >> THEN [kept EXCEPT !.there = TRUE]
                    ELSE [kept EXCEPT !.disk = Last(all).disk, !.alias = Len(all)]
           known == {s.name : s \in ToSet(all)}
<1>2. /\ build.pc = "prepare" /\ config' = config /\ vm' = vm
      /\ IF kept.broken THEN build' = End("error") /\ qcow' = qcow
         ELSE /\ qcow' = [qcow EXCEPT ![build.i] = clean]
              /\ build' = [build EXCEPT !.pc = "source", !.known = known]
  BY DEF Prepare, PrepareFrom, At, Bounds
<1>3. CASE kept.broken
  <2>1. build' = End("error") /\ qcow' = qcow
    BY <1>2, <1>3
  <2>2. build'.pc \notin Running
    BY <1>1, <2>1, EndFacts DEF Running, Starting, During
  <2>3. QED
    BY <1>2, <2>1, <2>2, FreshEnd
<1>4. CASE ~kept.broken
  <2>1. /\ qcow' = [qcow EXCEPT ![build.i] = clean]
        /\ build' = [build EXCEPT !.pc = "source", !.known = known]
    BY <1>2, <1>4
  <2>2. NoQcow \in Qcows /\ NoQcow.alias = 0 /\ NoQcow.snapshots = << >> /\ NoQcow.disk = "blank"
    BY DEF NoQcow, Qcows, Disks
  <2>3. \/ kept = NoQcow
        \/ kept = ThisDisk /\ ThisDisk.snapshots # << >>
    BY <1>4
  <2>4. kept \in Qcows /\ all \in Seq(Snapshots) /\ (all # << >> => kept = ThisDisk)
    BY <1>1, <2>2, <2>3 DEF Qcows
  <2>5. BlankSnapshots(kept)
    <3>1. DOMAIN << >> = {}
      OBVIOUS
    <3>2. CASE kept = NoQcow
      BY <2>2, <3>1, <3>2 DEF BlankSnapshots
    <3>3. CASE kept = ThisDisk
      BY <1>1, <3>3 DEF FreshInv
    <3>4. QED
      BY <2>3, <3>2, <3>3
  <2>6. /\ clean.snapshots = all
        /\ \/ all = << >> /\ clean.disk = "blank" /\ clean.alias = 0
           \/ all # << >> /\ Len(all) \in DOMAIN all /\ clean.disk = all[Len(all)].disk
    <3>1. CASE all = << >>
      <4>1. clean = [kept EXCEPT !.there = TRUE] /\ kept = NoQcow
        BY <1>4, <2>3, <3>1
      <4>2. QED
        BY <2>2, <3>1, <4>1 DEF Qcows
    <3>2. CASE all # << >>
      <4>1. Len(all) \in DOMAIN all
        BY <2>4, <3>2
      <4>2. clean = [kept EXCEPT !.disk = Last(all).disk, !.alias = Len(all)]
        BY <3>2
      <4>3. QED
        BY <2>4, <3>2, <4>1, <4>2 DEF Qcows, Last
    <3>3. QED
      BY <3>1, <3>2
  <2>7. known = {all[n].name : n \in DOMAIN all}
    BY DEF ToSet
  <2>8. HasInstalled(kept) <=> "install" \in known
    BY <2>7 DEF HasInstalled
  <2>9. BlankSnapshots(clean) /\ ("install" \notin known => clean.disk = "blank") /\ (clean.alias # 0 => known # {})
    <3> HIDE DEF kept, clean, known
    <3>1. HasInstalled(clean) <=> HasInstalled(kept)
      BY <2>6 DEF HasInstalled
    <3>2. BlankSnapshots(clean)
      BY <2>5, <2>6, <3>1 DEF BlankSnapshots
    <3>3. "install" \notin known => clean.disk = "blank"
      BY <2>5, <2>6, <2>8 DEF BlankSnapshots
    <3>4. clean.alias # 0 => known # {}
      BY <2>6, <2>7
    <3>5. QED
      BY <3>2, <3>3, <3>4
  <2> HIDE DEF kept, clean, known
  <2>10. /\ build'.pc = "source" /\ build'.i = build.i /\ build'.known = known /\ build'.k = 1
    BY <1>1, <1>2, <2>1 DEF TypeInv, Builds, BuilderInv, PlaceInv, Before
  <2>11. /\ ThisDisk' = clean /\ \A i \in Elements : i # build.i => qcow'[i] = qcow[i]
         /\ qcow'[build.i] = clean /\ Elements' = Elements
    BY <1>1, <1>2, <2>1, <2>10 DEF ThisDisk, Elements, TypeInv
  <2>12. \A i \in Elements : BlankSnapshots(qcow'[i])
    BY <2>9, <2>11 DEF FreshInv
  <2>13. vm.st = "off" /\ ~Pending(vm)
    BY <1>2 DEF BuilderInv, PlaceInv, During
  <2>14. \A n \in DOMAIN vm.typed : vm.typed[n] # "install"
    BY <2>13 DEF Pending
  <2>15. RunningInv'
    BY <1>2, <2>9, <2>10, <2>11, <2>13, <2>14 DEF RunningInv, Unreached, InstallsOnce, Pending
  <2>16. QED
    BY <2>11, <2>12, <2>15 DEF FreshInv
<1>5. QED
  BY <1>3, <1>4

\* Text typed to the guest; the installation once, and then the script is behind it.
LEMMA FreshTyping ==
    ASSUME BuilderInv, FreshInv, At("script"), ~Skipped(Current), Current.do \in {"keys", "shutdown"},
           config' = config, qcow' = qcow, build' = NextStep,
           NEW what \in Effects, what = "install" => Current.do = "keys" /\ Current.what = what,
           vm' = [vm EXCEPT !.typed = Append(@, what)] \/ vm' = vm
    PROVE  FreshInv'
<1>1. TypeInv /\ vm \in Machines /\ build.pc = "script" /\ RunningInv
  BY DEF BuilderInv, TypeInv, At, FreshInv, Running, During
<1>2. /\ build'.i = build.i /\ build'.k = build.k + 1 /\ build'.pc = "script" /\ build'.known = build.known
  BY <1>1, NextFacts
<1>3. /\ Os \in Names /\ build.k \in Nat /\ Fits(Os, build.k, Current, Len(Script(Os)))
  BY <1>1, CurrentFacts
<1>4. "boot" \notin build.known
  BY <1>1, ResumedFacts DEF During
<1>5. Os' = Os /\ ThisDisk' = ThisDisk /\ Elements' = Elements
  BY <1>2 DEF Os, ThisDisk, Elements
<1>6. Unreached'
  BY <1>2, <1>4 DEF Unreached
<1>7. CASE vm' = vm
  BY <1>1, <1>2, <1>4, <1>7, FreshStep DEF Running, During
<1>8. ASSUME vm' = [vm EXCEPT !.typed = Append(@, what)]
      PROVE  /\ vm'.doing = vm.doing
             /\ Pending(vm') => Pending(vm) \/ what = "install"
             /\ \A n \in DOMAIN vm'.typed :
                  \/ n = Len(vm'.typed) /\ vm'.typed[n] = what
                  \/ n \in DOMAIN vm.typed /\ vm'.typed[n] = vm.typed[n]
  <2>1. vm.typed \in Seq(Effects) /\ vm'.typed = Append(vm.typed, what) /\ vm'.doing = vm.doing
    BY <1>1, <1>8 DEF Machines
  <2>2. \A n \in DOMAIN vm'.typed :
          \/ n = Len(vm'.typed) /\ vm'.typed[n] = what
          \/ n \in DOMAIN vm.typed /\ vm'.typed[n] = vm.typed[n]
    BY <2>1
  <2>3. QED
    BY <2>1, <2>2 DEF Pending
<1>9. CASE vm' = [vm EXCEPT !.typed = Append(@, what)] /\ what # "install"
  <2>1. InstallsOnce'
    BY <1>1, <1>5, <1>8, <1>9 DEF RunningInv, InstallsOnce
  <2>2. QED
    BY <1>1, <1>2, <1>6, <1>8, <1>9, <2>1, FreshKept DEF Running, During
<1>10. CASE vm' = [vm EXCEPT !.typed = Append(@, what)] /\ what = "install"
  <2>1. build.k = InstallAt(Os) /\ Current.do = "keys"
    BY <1>3, <1>10 DEF Fits, Commands
  <2>2. Os # "arch"
    BY <1>3, <2>1, ScriptFacts DEF InstallAt, Current, Is
  <2>3. build.known = {}
    BY <1>1, <2>2, KnownFacts DEF Running, During
  <2>4. ~Behind /\ Behind'
    BY <1>1, <1>2, <1>3, <1>5, <2>1 DEF Behind
  <2>5. ThisDisk.disk = "blank" /\ ~Pending(vm) /\ ThisDisk.alias = 0
    BY <1>1, <2>3, <2>4 DEF RunningInv
  <2>6. InstallsOnce'
    <3>1. \A n \in DOMAIN vm.typed : vm.typed[n] # "install"
      BY <2>5 DEF Pending
    <3>2. \A n \in DOMAIN vm'.typed : vm'.typed[n] = "install" => n = Len(vm'.typed)
      BY <1>8, <1>10, <3>1
    <3>3. vm'.doing # "install"
      BY <1>8, <1>10, <2>5 DEF Pending
    <3>4. QED
      BY <1>5, <2>5, <3>2, <3>3 DEF InstallsOnce
  <2>7. RunningInv'
    BY <1>2, <1>5, <1>6, <2>3, <2>4, <2>5, <2>6 DEF RunningInv
  <2>8. QED
    BY <1>5, <2>7 DEF FreshInv
<1>11. QED
  BY <1>7, <1>9, <1>10

\* Keys are typed, or the guest is told to power off.
LEMMA FreshKeys == ASSUME BuilderInv, FreshInv, Type \/ Shutdown_guest PROVE FreshInv'
<1>1. CASE GiveUp
  BY <1>1, FreshGiveUp
<1>2. CASE Type /\ ~GiveUp
  <2>1. At("script") /\ ~Skipped(Current) /\ Current.do = "keys"
    BY <1>2 DEF Type, Doing
  <2>2. Current.what \in Effects
    BY <2>1, CurrentFacts DEF Fits, Commands, BuilderInv
  <2>3. /\ build' = NextStep /\ UNCHANGED << source, qcow >> /\ Bounds
        /\ vm' = [vm EXCEPT !.typed = Append(@, Current.what)] \/ vm' = vm
    BY <1>2 DEF Type
  <2>4. QED
    BY <2>1, <2>2, <2>3, FreshTyping DEF Bounds
<1>3. CASE Shutdown_guest /\ ~GiveUp
  <2>1. At("script") /\ ~Skipped(Current) /\ Current.do = "shutdown" /\ "poweroff" \in Effects
    BY <1>3 DEF Shutdown_guest, Doing, Effects
  <2>2. /\ build' = NextStep /\ UNCHANGED << source, qcow >> /\ Bounds
        /\ vm' = [vm EXCEPT !.typed = Append(@, "poweroff")]
    BY <1>3 DEF Shutdown_guest
  <2>3. QED
    BY <2>1, <2>2, FreshTyping DEF Bounds
<1>4. QED
  BY <1>1, <1>2, <1>3

\* A command starts; the installation's only where no checkpoint is known.
LEMMA FreshExec_begin == ASSUME BuilderInv, FreshInv, Exec_begin PROVE FreshInv'
<1>1. CASE GiveUp
  BY <1>1, FreshGiveUp
<1>2. ASSUME ~GiveUp PROVE FreshInv'
  <2>1. /\ build.pc = "script" /\ ~Skipped(Current) /\ Current.do \in {"exec", "exec_ignored"}
        /\ TypeInv /\ RunningInv
    BY DEF Exec_begin, Doing, At, BuilderInv, FreshInv, Running, During
  <2>2. /\ Goto("exec") /\ UNCHANGED << source, qcow >> /\ Bounds
        /\ vm.doing = "idle" /\ vm' = [vm EXCEPT !.typed = << Current.what >>]
    BY <1>2 DEF Exec_begin
  <2>3. Os \in Names /\ build.k \in Nat /\ Fits(Os, build.k, Current, Len(Script(Os)))
    BY <2>1, CurrentFacts
  <2>4. build'.pc = "exec" /\ build'.i = build.i /\ build'.k = build.k /\ build'.known = build.known
    BY <2>1, <2>2, GotoFacts DEF During
  <2>5. Os' = Os /\ ThisDisk' = ThisDisk /\ Elements' = Elements
    BY <2>2, <2>4 DEF Os, ThisDisk, Elements, Bounds
  <2>6. vm'.typed = << Current.what >> /\ vm'.doing = "idle"
    BY <2>1, <2>2 DEF TypeInv, Machines
  <2>7. DOMAIN vm'.typed = {1} /\ vm'.typed[1] = Current.what
    BY <2>6
  <2>8. "boot" \notin build.known
    BY <2>1, ResumedFacts DEF During
  <2>9. Unreached'
    BY <2>4, <2>8 DEF Unreached
  <2>10. CASE Current.what # "install"
    <3>1. ~Pending(vm') /\ InstallsOnce'
      BY <2>6, <2>7, <2>10 DEF Pending, InstallsOnce
    <3>2. QED
      BY <2>1, <2>2, <2>4, <2>9, <3>1, FreshKept DEF Running, During, Bounds
  <2>11. CASE Current.what = "install"
    <3>1. build.k = InstallAt(Os)
      BY <2>1, <2>3, <2>11 DEF Fits, Commands
    <3>2. Os = "arch" => "install" \notin build.known
      BY <2>1, <2>3, <3>1, ScriptFacts DEF InstallAt, Current, Is, Skipped
    <3>3. build.known = {}
      BY <2>1, <2>8, <3>2, KnownFacts DEF Running, During
    <3>4. ~Behind /\ Behind'
      BY <2>1, <2>3, <2>4, <3>1 DEF Behind, InstallAt
    <3>5. ThisDisk.disk = "blank" /\ ThisDisk.alias = 0
      BY <2>1, <3>3, <3>4 DEF RunningInv
    <3>6. InstallsOnce'
      BY <2>5, <2>6, <2>7, <3>5 DEF InstallsOnce
    <3>7. RunningInv'
      BY <2>4, <2>5, <2>9, <3>3, <3>4, <3>5, <3>6 DEF RunningInv
    <3>8. QED
      BY <2>2, <2>5, <3>7 DEF FreshInv
  <2>12. QED
    BY <2>10, <2>11
<1>3. QED
  BY <1>1, <1>2

\* A command's connection is replaced.
LEMMA FreshReconnect == ASSUME BuilderInv, FreshInv, Reconnect PROVE FreshInv'
<1>1. TypeInv /\ build.pc = "exec" /\ config' = config
  BY DEF Reconnect, At, BuilderInv
<1>2. CASE ~Answers
  <2>1. build' = End("error") /\ qcow' = qcow
    BY <1>2 DEF Reconnect
  <2>2. build'.pc \notin Running
    BY <1>1, <2>1, EndFacts DEF Running, Starting, During
  <2>3. QED
    BY <1>1, <2>1, <2>2, FreshEnd
<1>3. CASE Answers
  <2>1. /\ build' = [NextStep EXCEPT !.pc = "script"]
        /\ vm' = [vm EXCEPT !.doing = "idle", !.typed = << >>]
        /\ qcow' = [qcow EXCEPT ![build.i].mishap = TRUE]
    BY <1>3 DEF Reconnect
  <2>2. build'.pc = "script" /\ build'.i = build.i /\ build'.k = build.k + 1 /\ build'.known = build.known
    BY <1>1, <2>1, NextFacts
  <2>3. vm'.typed = << >> /\ vm'.doing = "idle" /\ DOMAIN vm'.typed = {}
    BY <1>1, <2>1 DEF TypeInv, Machines
  <2>4. ~Pending(vm') /\ InstallsOnce'
    BY <2>3 DEF Pending, InstallsOnce
  <2>5. Unreached'
    BY <1>1, <2>2, ResumedFacts DEF Unreached, During
  <2>6. \A i \in Elements : /\ qcow'[i].disk = qcow[i].disk /\ qcow'[i].alias = qcow[i].alias
                            /\ qcow'[i].snapshots = qcow[i].snapshots
    BY <1>1, <2>1 DEF TypeInv, Qcows
  <2>7. QED
    BY <1>1, <2>2, <2>4, <2>5, <2>6, FreshKept DEF Running, During
<1>4. QED
  BY <1>2, <1>3

\* A checkpoint of the boot is of a blank disk, unless the system was installed
\* before an earlier checkpoint.
LEMMA FreshCheckpoint == ASSUME BuilderInv, FreshInv, Checkpoint PROVE FreshInv'
<1>1. TypeInv /\ build.pc = "script" /\ Doing({"checkpoint"}) /\ ~Skipped(Current) /\ RunningInv
  BY DEF Checkpoint, Doing, At, BuilderInv, FreshInv, Running, During
<1>2. "boot" \notin build.known
  BY <1>1, ResumedFacts DEF Doing, During
<1>3. CASE GiveUp
  BY <1>3, FreshGiveUp
<1>4. CASE Advance
  BY <1>1, <1>2, <1>4, FreshAdvance DEF Advance, During
<1>5. CASE /\ qcow' = [qcow EXCEPT ![build.i].snapshots =
                        Append(@, [name |-> Current.what, disk |-> ThisDisk.disk])]
           /\ build' = NextStep /\ UNCHANGED << source, vm >> /\ Bounds
  <2>1. build'.i = build.i /\ build'.k = build.k + 1 /\ build'.pc = "script"
        /\ build'.known = build.known /\ config' = config
    BY <1>1, <1>5, NextFacts DEF Bounds
  <2>2. /\ Os = "arch" /\ build.k \in Nat /\ Current.what \in {"boot", "install"}
        /\ Current.what = "boot" => build.k = 5
    BY <1>1, CurrentFacts DEF Fits, Doing
  <2> DEFINE new == [name |-> Current.what, disk |-> ThisDisk.disk]
             all == Append(ThisDisk.snapshots, new)
  <2>3. /\ ThisDisk \in Qcows /\ build.i \in Elements /\ ThisDisk = qcow[build.i]
        /\ ThisDisk.snapshots \in Seq(Snapshots) /\ new \in Snapshots
    BY <1>1, <2>2 DEF TypeInv, ThisDisk, Qcows, Snapshots
  <2>4. \A i \in Elements : /\ qcow'[i].disk = qcow[i].disk /\ qcow'[i].alias = qcow[i].alias
                            /\ i # build.i => qcow'[i].snapshots = qcow[i].snapshots
                            /\ i = build.i => qcow'[i].snapshots = all
    BY <1>1, <1>5, <2>3 DEF TypeInv, Qcows, ThisDisk
  <2>5. /\ Len(all) \in DOMAIN all /\ all[Len(all)] = new
        /\ \A s \in DOMAIN ThisDisk.snapshots : s \in DOMAIN all /\ all[s] = ThisDisk.snapshots[s]
        /\ \A s \in DOMAIN all : s = Len(all) \/ s \in DOMAIN ThisDisk.snapshots
        /\ new.name = Current.what /\ new.disk = ThisDisk.disk
    BY <2>3
  <2> HIDE DEF all, new
  <2>6. BlankSnapshots(qcow'[build.i])
    <3>1. SUFFICES ASSUME \A s \in DOMAIN all : all[s].name # "install"
                   PROVE  \A s \in DOMAIN all : all[s].disk = "blank"
      BY <2>3, <2>4 DEF BlankSnapshots, HasInstalled
    <3>2. ~HasInstalled(ThisDisk) /\ Current.what = "boot"
      BY <2>2, <2>5, <3>1 DEF HasInstalled
    <3>3. "install" \notin build.known
      BY <1>1, <3>2, KnownFacts DEF Running, During
    <3>4. ~Behind
      BY <1>1, <2>2, <3>2 DEF Behind, InstallAt
    <3>5. ThisDisk.disk = "blank"
      BY <1>1, <3>3, <3>4 DEF RunningInv
    <3>6. \A s \in DOMAIN ThisDisk.snapshots : ThisDisk.snapshots[s].disk = "blank"
      BY <2>3, <3>2 DEF FreshInv, BlankSnapshots
    <3>7. QED
      BY <2>5, <3>5, <3>6
  <2>7. vm' = vm /\ ThisDisk'.disk = ThisDisk.disk
    BY <1>5, <2>1, <2>3, <2>4 DEF ThisDisk
  <2>8. InstallsOnce' /\ Unreached'
    BY <1>1, <1>2, <2>1, <2>7 DEF RunningInv, InstallsOnce, Unreached
  <2>9. QED
    BY <1>1, <2>1, <2>4, <2>6, <2>7, <2>8, FreshKept DEF Running, During
<1>6. QED
  BY <1>3, <1>4, <1>5 DEF Checkpoint

\* What the machine writes is in the disk and, since a revert, in its checkpoint.
LEMMA HoldingDisks ==
    ASSUME NEW q \in Qcows, NEW d \in Disks
    PROVE  LET h == Holding(q, d)
           IN  /\ h.disk = d /\ h.alias = q.alias
               /\ q.alias = 0 => h.snapshots = q.snapshots
               /\ DOMAIN h.snapshots = DOMAIN q.snapshots
               /\ \A s \in DOMAIN q.snapshots :
                    /\ h.snapshots[s].name = q.snapshots[s].name
                    /\ h.snapshots[s].disk \in {d, q.snapshots[s].disk}
<1> DEFINE all == [s \in DOMAIN q.snapshots |-> IF s = q.alias THEN [q.snapshots[s] EXCEPT !.disk = d]
                                                ELSE q.snapshots[s]]
<1>1. q.snapshots \in Seq(Snapshots)
  BY DEF Qcows
<1>2. \A s \in DOMAIN q.snapshots : q.snapshots[s] \in Snapshots /\ s # 0
  BY <1>1
<1>3. \A s \in DOMAIN q.snapshots : /\ all[s].name = q.snapshots[s].name
                                    /\ all[s].disk \in {d, q.snapshots[s].disk}
  BY <1>2 DEF Snapshots
<1>4. q.alias = 0 => all = q.snapshots
  <2>1. SUFFICES ASSUME q.alias = 0 PROVE all = q.snapshots
    OBVIOUS
  <2>2. \A s \in DOMAIN q.snapshots : all[s] = q.snapshots[s]
    BY <1>2, <2>1
  <2>3. DOMAIN all = DOMAIN q.snapshots
    OBVIOUS
  <2>4. q.snapshots = [s \in DOMAIN q.snapshots |-> q.snapshots[s]]
    BY <1>1
  <2>5. QED
    BY <2>2, <2>3, <2>4
<1>5. Holding(q, d) = [q EXCEPT !.disk = d, !.snapshots = all]
  BY DEF Holding
<1>6. DOMAIN all = DOMAIN q.snapshots
  OBVIOUS
<1> HIDE DEF all
<1>7. QED
  BY <1>3, <1>4, <1>5, <1>6 DEF Qcows

\* While an installation is under way or to come, the script is behind the step
\* that starts it, no checkpoint is known and the disk shares none.
LEMMA PendingFacts ==
    ASSUME BuilderInv, FreshInv, vm.st = "on", Pending(vm)
    PROVE  build.pc \in Running /\ RunningInv /\ Behind /\ build.known = {} /\ ThisDisk.alias = 0
<1>1. build.pc \in During
  BY DEF BuilderInv, PlaceInv
<1>2. QED
  BY <1>1 DEF FreshInv, RunningInv, Running

\* The machine writes to the disk.
LEMMA FreshWritten ==
    ASSUME BuilderInv, FreshInv, config' = config, build' = build, build.pc \in Running,
           NEW q, qcow' = [qcow EXCEPT ![build.i] = q], BlankSnapshots(q), q.alias = ThisDisk.alias,
           "install" \notin build.known /\ ~Behind => q.disk = "blank",
           Pending(vm') => Pending(vm), InstallsOnce', Unreached'
    PROVE  FreshInv'
<1>1. Elements' = Elements /\ Os' = Os /\ build.i \in Elements /\ qcow \in [Elements -> Qcows]
  BY DEF Elements, Os, BuilderInv, TypeInv
<1>2. ThisDisk' = q /\ \A i \in Elements : BlankSnapshots(qcow'[i])
  BY <1>1 DEF ThisDisk, FreshInv
<1>3. Behind' <=> Behind
  BY <1>1 DEF Behind
<1>4. (Pending(vm))' => Pending(vm)
  BY DEF Pending
<1>5. RunningInv
  BY DEF FreshInv
<1>6. RunningInv'
  BY <1>2, <1>3, <1>4, <1>5 DEF RunningInv
<1>7. QED
  BY <1>1, <1>2, <1>6 DEF FreshInv

\* A boot ends or the guest freezes.
LEMMA FreshGuest == ASSUME BuilderInv, FreshInv, GuestBoots \/ GuestHangs PROVE FreshInv'
<1>1. /\ vm.st = "on" /\ vm \in Machines /\ config' = config /\ build' = build /\ qcow' = qcow
      /\ build.pc \in Running
  BY DEF GuestBoots, GuestHangs, GuestUnchanged, BuilderInv, TypeInv, PlaceInv, Running, Starting
<1>2. /\ vm'.doing \in {"idle", "hung"} /\ vm'.typed = vm.typed /\ vm'.st = "on" /\ vm'.authorized = vm.authorized
      /\ ~vm.authorized /\ ~vm.sshd => ~vm'.sshd
  <2>1. CASE GuestBoots
    <3>1. vm' = [vm EXCEPT !.doing = "idle", !.sshd = vm.authorized /\ ThisDisk.disk = "installed"]
      BY <2>1 DEF GuestBoots
    <3>2. QED
      BY <1>1, <3>1 DEF Machines
  <2>2. CASE GuestHangs
    <3>1. vm' = [vm EXCEPT !.doing = "hung"]
      BY <2>2 DEF GuestHangs
    <3>2. QED
      BY <1>1, <3>1 DEF Machines
  <2>3. QED
    BY <2>1, <2>2
<1>3. RunningInv /\ ThisDisk' = ThisDisk
  BY <1>1 DEF FreshInv, ThisDisk
<1>4. Pending(vm') => Pending(vm)
  BY <1>2 DEF Pending
<1>5. InstallsOnce' /\ Unreached'
  BY <1>1, <1>2, <1>3 DEF RunningInv, InstallsOnce, Unreached
<1>6. QED
  BY <1>1, <1>4, <1>5, FreshKept

\* An installation ends.
LEMMA FreshInstalls == ASSUME BuilderInv, FreshInv, GuestInstalls PROVE FreshInv'
<1>1. /\ vm.st = "on" /\ vm.doing = "install" /\ Pending(vm) /\ vm \in Machines
      /\ config' = config /\ build' = build
      /\ ThisDisk \in Qcows /\ ThisDisk = qcow[build.i] /\ build.i \in Elements
  BY DEF GuestInstalls, GuestUnchanged, Pending, BuilderInv, TypeInv, ThisDisk
<1>2. build.pc \in Running /\ RunningInv /\ Behind /\ build.known = {} /\ ThisDisk.alias = 0
  BY <1>1, PendingFacts
<1>3. PICK d \in {"partial", "installed"} :
         /\ qcow' = [qcow EXCEPT ![build.i] = Holding(@, d)]
         /\ vm' = [vm EXCEPT !.doing = "idle", !.said = @ \/ d = "installed"]
  BY DEF GuestInstalls, SetDisk
<1> DEFINE q == Holding(ThisDisk, d)
<1>4. qcow' = [qcow EXCEPT ![build.i] = q] /\ q.alias = ThisDisk.alias /\ q.snapshots = ThisDisk.snapshots
  BY <1>1, <1>2, <1>3, HoldingDisks DEF Disks
<1> HIDE DEF q
<1>5. BlankSnapshots(q)
  BY <1>1, <1>4 DEF FreshInv, BlankSnapshots, HasInstalled
<1>6. vm'.typed = vm.typed /\ vm'.doing = "idle"
  BY <1>1, <1>3 DEF Machines
<1>7. InstallsOnce'
  BY <1>1, <1>2, <1>6 DEF RunningInv, InstallsOnce
<1>8. Unreached'
  BY <1>1, <1>2 DEF Unreached
<1>9. QED
  BY <1>1, <1>2, <1>4, <1>5, <1>7, <1>8, FreshWritten

\* The machine dies: a disk that nothing was installed on stays blank.
LEMMA FreshCrashes == ASSUME BuilderInv, FreshInv, VmCrashes PROVE FreshInv'
<1>1. /\ vm.st = "on" /\ vm \in Machines /\ vm' = [vm EXCEPT !.st = "exited"]
      /\ config' = config /\ build' = build
      /\ ThisDisk \in Qcows /\ ThisDisk = qcow[build.i] /\ build.i \in Elements
      /\ build.pc \in Running
  BY DEF VmCrashes, GuestUnchanged, BuilderInv, TypeInv, ThisDisk, PlaceInv, Running, Starting
<1>2. RunningInv /\ BlankSnapshots(ThisDisk)
  BY <1>1 DEF FreshInv
<1> DEFINE d == IF ThisDisk.disk = "blank" THEN "blank" ELSE "partial"
           h == Holding(ThisDisk, d)
           q == [h EXCEPT !.mishap = TRUE]
<1>3. d \in Disks /\ (d = "blank" <=> ThisDisk.disk = "blank")
  BY DEF Disks
<1>4. qcow' = [qcow EXCEPT ![build.i] = q]
  BY <1>1 DEF VmCrashes
<1>5. h \in Qcows
  BY <1>1, <1>3, HoldingFacts DEF BuilderInv, TypeInv
<1> HIDE DEF d
<1>6. /\ h.disk = d /\ h.alias = ThisDisk.alias
      /\ ThisDisk.alias = 0 => h.snapshots = ThisDisk.snapshots
      /\ DOMAIN h.snapshots = DOMAIN ThisDisk.snapshots
      /\ \A s \in DOMAIN ThisDisk.snapshots :
           /\ h.snapshots[s].name = ThisDisk.snapshots[s].name
           /\ h.snapshots[s].disk \in {d, ThisDisk.snapshots[s].disk}
  BY <1>1, <1>3, HoldingDisks
<1> HIDE DEF h
<1>7. q.disk = d /\ q.alias = ThisDisk.alias /\ q.snapshots = h.snapshots
  BY <1>5, <1>6 DEF Qcows
<1> HIDE DEF q
<1>8. BlankSnapshots(q)
  <2>1. SUFFICES ASSUME ~HasInstalled(q) PROVE \A s \in DOMAIN q.snapshots : q.snapshots[s].disk = "blank"
    BY DEF BlankSnapshots
  <2>2. ~HasInstalled(ThisDisk)
    BY <1>6, <1>7, <2>1 DEF HasInstalled
  <2>3. \A s \in DOMAIN ThisDisk.snapshots : ThisDisk.snapshots[s].disk = "blank"
    BY <1>2, <2>2 DEF BlankSnapshots
  <2>4. CASE ThisDisk.alias = 0
    BY <1>6, <1>7, <2>3, <2>4
  <2>5. CASE ThisDisk.alias # 0
    <3>1. build.known # {} /\ "install" \notin build.known /\ build.known \subseteq {"boot", "install"}
          /\ Os = "arch"
      BY <1>1, <1>2, <2>2, <2>5, KnownFacts DEF RunningInv
    <3>2. "boot" \in build.known /\ build.k <= 6 /\ build.pc # "exec"
      BY <1>2, <3>1 DEF RunningInv, Unreached
    <3>3. build.k \in Nat
      BY DEF BuilderInv, TypeInv, Builds
    <3>4. ~Behind
      BY <3>1, <3>2, <3>3 DEF Behind, InstallAt
    <3>5. d = "blank"
      BY <1>2, <1>3, <3>1, <3>4 DEF RunningInv
    <3>6. QED
      BY <1>6, <1>7, <2>3, <3>5
  <2>6. QED
    BY <2>4, <2>5
<1>9. vm'.typed = vm.typed /\ vm'.doing = vm.doing /\ vm'.sshd = vm.sshd /\ vm'.authorized = vm.authorized
  BY <1>1 DEF Machines
<1>10. ThisDisk' = q
  BY <1>1, <1>4 DEF ThisDisk, BuilderInv, TypeInv
<1>11. InstallsOnce' /\ Unreached' /\ (Pending(vm') => Pending(vm))
  BY <1>1, <1>2, <1>3, <1>7, <1>9, <1>10 DEF RunningInv, InstallsOnce, Unreached, Pending
<1>12. "install" \notin build.known /\ ~Behind => q.disk = "blank"
  BY <1>2, <1>3, <1>7 DEF RunningInv
<1>13. QED
  BY <1>1, <1>4, <1>7, <1>8, <1>11, <1>12, FreshWritten

\* The guest gets to what was typed: an installation was typed once.
LEMMA FreshObeys == ASSUME BuilderInv, FreshInv, GuestObeys PROVE FreshInv'
<1>1. /\ vm.st = "on" /\ vm.doing = "idle" /\ vm.typed # << >> /\ vm \in Machines
      /\ config' = config /\ build' = build
      /\ ThisDisk \in Qcows /\ ThisDisk = qcow[build.i] /\ build.i \in Elements
      /\ build.pc \in Running
  BY DEF GuestObeys, GuestUnchanged, BuilderInv, TypeInv, ThisDisk, PlaceInv, Running, Starting
<1>2. RunningInv
  BY <1>1 DEF FreshInv
<1> DEFINE effect == Head(vm.typed)
           rest == [vm EXCEPT !.typed = Tail(@)]
<1>3. /\ effect \in Effects /\ effect = vm.typed[1] /\ 1 \in DOMAIN vm.typed
      /\ \A n \in DOMAIN Tail(vm.typed) : /\ n + 1 \in DOMAIN vm.typed /\ Tail(vm.typed)[n] = vm.typed[n + 1]
                                          /\ n \in Nat /\ n + 1 # 1
      /\ Tail(vm.typed) \in Seq(Effects)
  <2>1. vm.typed \in Seq(Effects)
    BY <1>1 DEF Machines
  <2>2. QED
    BY <1>1, <2>1
<1>4. /\ rest \in Machines /\ rest.doing = "idle" /\ rest.typed = Tail(vm.typed)
  BY <1>1, <1>3 DEF Machines
<1>5. /\ vm' = CASE effect = "none" -> rest
                 [] effect = "sshd" -> [rest EXCEPT !.sshd = TRUE]
                 [] effect = "authorize" -> [rest EXCEPT !.authorized = TRUE]
                 [] effect = "install" -> [rest EXCEPT !.doing = "install"]
                 [] effect = "reboot" -> [rest EXCEPT !.doing = "boot", !.sshd = FALSE]
                 [] effect = "poweroff" -> [rest EXCEPT !.st = "exited"]
      /\ IF effect = "install" THEN SetDisk("partial") ELSE qcow' = qcow
  BY DEF GuestObeys
<1> HIDE DEF effect, rest
<1>6. vm'.typed = Tail(vm.typed) /\ (effect = "install" <=> vm'.doing = "install")
  BY <1>3, <1>4, <1>5 DEF Effects, Machines
<1>7. "boot" \notin build.known
  BY <1>1, <1>2 DEF RunningInv, Unreached
<1>8. Unreached'
  BY <1>1, <1>7 DEF Unreached
<1>9. CASE effect # "install"
  <2>1. qcow' = qcow /\ ThisDisk' = ThisDisk
    BY <1>1, <1>5, <1>9 DEF ThisDisk
  <2>2. Pending(vm') => Pending(vm)
    BY <1>3, <1>6, <1>9 DEF Pending
  <2>3. InstallsOnce'
    <3>1. SUFFICES ASSUME NEW n \in DOMAIN Tail(vm.typed), Tail(vm.typed)[n] = "install"
                   PROVE  /\ ThisDisk.disk = "blank"
                          /\ \A m \in DOMAIN Tail(vm.typed) : Tail(vm.typed)[m] = "install" => m = n
      BY <1>6, <1>9, <2>1 DEF InstallsOnce
    <3>2. n + 1 \in DOMAIN vm.typed /\ vm.typed[n + 1] = "install" /\ n \in Nat
      BY <1>3, <3>1
    <3>3. ThisDisk.disk = "blank" /\ \A m \in DOMAIN vm.typed : vm.typed[m] = "install" => m = n + 1
      BY <1>2, <3>2 DEF RunningInv, InstallsOnce
    <3>4. ASSUME NEW m \in DOMAIN Tail(vm.typed), Tail(vm.typed)[m] = "install" PROVE m = n
      <4>1. m + 1 \in DOMAIN vm.typed /\ vm.typed[m + 1] = "install" /\ m \in Nat
        BY <1>3, <3>4
      <4>2. m + 1 = n + 1
        BY <3>3, <4>1
      <4>3. QED
        BY <3>2, <4>1, <4>2
    <3>5. QED
      BY <3>3, <3>4
  <2>4. QED
    BY <1>1, <1>8, <2>1, <2>2, <2>3, FreshKept
<1>10. CASE effect = "install"
  <2>1. Pending(vm)
    BY <1>3, <1>10 DEF Pending
  <2>2. Behind /\ build.known = {} /\ ThisDisk.alias = 0
    BY <1>1, <2>1, PendingFacts
  <2> DEFINE q == Holding(ThisDisk, "partial")
  <2>3. qcow' = [qcow EXCEPT ![build.i] = q] /\ q.alias = ThisDisk.alias /\ q.snapshots = ThisDisk.snapshots
    BY <1>1, <1>5, <1>10, <2>2, HoldingDisks DEF Disks, SetDisk
  <2> HIDE DEF q
  <2>4. BlankSnapshots(q)
    BY <1>1, <2>3 DEF FreshInv, BlankSnapshots, HasInstalled
  <2>5. \A n \in DOMAIN Tail(vm.typed) : Tail(vm.typed)[n] # "install"
    <3>1. \A m \in DOMAIN vm.typed : vm.typed[m] = "install" => m = 1
      BY <1>2, <1>3, <1>10 DEF RunningInv, InstallsOnce
    <3>2. QED
      BY <1>3, <3>1
  <2>6. InstallsOnce'
    BY <1>6, <2>5 DEF InstallsOnce
  <2>7. QED
    BY <1>1, <1>8, <2>1, <2>2, <2>3, <2>4, <2>6, FreshWritten
<1>11. QED
  BY <1>9, <1>10

\* A machine left running exits.
LEMMA FreshOrphan == ASSUME BuilderInv, FreshInv, OrphanExits PROVE FreshInv'
<1>1. config' = config /\ build' = build /\ vm' = vm
  BY DEF OrphanExits, GuestUnchanged
<1>2. PICK j \in Elements : qcow' = [qcow EXCEPT ![j].orphan = FALSE]
  BY DEF OrphanExits
<1>3. \A i \in Elements : /\ qcow'[i].disk = qcow[i].disk /\ qcow'[i].alias = qcow[i].alias
                          /\ qcow'[i].snapshots = qcow[i].snapshots
  BY <1>2 DEF BuilderInv, TypeInv, Qcows
<1>4. CASE build.pc \notin Running
  BY <1>1, <1>3, <1>4, FreshEnd
<1>5. CASE build.pc \in Running
  <2>1. RunningInv /\ ThisDisk'.disk = ThisDisk.disk /\ build.k \in Nat
    BY <1>1, <1>3, <1>5 DEF FreshInv, ThisDisk, BuilderInv, TypeInv, Builds
  <2>2. InstallsOnce' /\ Unreached' /\ (Pending(vm') => Pending(vm))
    BY <1>1, <2>1 DEF RunningInv, InstallsOnce, Unreached
  <2>3. QED
    BY <1>1, <1>3, <1>5, <2>2, FreshKept
<1>6. QED
  BY <1>4, <1>5

\* Every build leaves the disks to the next one's installers as they must be.
LEMMA FreshStepInv == BuilderInv /\ FreshInv /\ [Next]_vars => FreshInv'
<1>1. ASSUME BuilderInv, FreshInv, Step_of_build PROVE FreshInv'
  BY <1>1, FreshPrepare, FreshOutside, FreshStarting, FreshScript, FreshKeys, FreshExec_begin,
     FreshReconnect, FreshCheckpoint DEF Step_of_build
<1>2. ASSUME FreshInv, UNCHANGED vars PROVE FreshInv'
  BY <1>2 DEF vars, FreshInv, BlankSnapshots, RunningInv, Unreached, InstallsOnce, Behind, Pending,
     HasInstalled, Os, ThisDisk, Elements
<1>3. QED
  BY <1>1, <1>2, FreshBegin, FreshOutside, FreshGuest, FreshInstalls, FreshObeys, FreshCrashes,
     FreshOrphan DEF Next

\* Only a guest that gets to an installation's command starts one.
LEMMA OnlyObeysInstalls ==
    ASSUME BuilderInv, Next, vm.doing # "install", vm'.doing = "install"
    PROVE  vm.st = "on" /\ Pending(vm) /\ 1 \in DOMAIN vm.typed /\ vm.typed[1] = "install"
<1>1. vm \in Machines /\ Off.doing = "boot"
  BY DEF BuilderInv, TypeInv, Off
<1>2. CASE GuestObeys
  <2>1. vm.typed \in Seq(Effects) /\ vm.typed # << >> /\ vm.st = "on"
    BY <1>1, <1>2 DEF GuestObeys, Machines
  <2>2. Head(vm.typed) = vm.typed[1] /\ 1 \in DOMAIN vm.typed /\ Head(vm.typed) \in Effects
        /\ Tail(vm.typed) \in Seq(Effects)
    BY <2>1
  <2>3. Head(vm.typed) = "install"
    BY <1>1, <1>2, <2>2 DEF GuestObeys, Effects, Machines
  <2>4. QED
    BY <2>1, <2>2, <2>3 DEF Pending
<1>3. ASSUME Type \/ Exec_begin \/ Shutdown_guest \/ Reconnect PROVE FALSE
  BY <1>1, <1>3 DEF Type, Exec_begin, Shutdown_guest, Reconnect, GiveUp, Machines
<1>4. ASSUME Skip \/ Sleep \/ Poll \/ Ssh_connect \/ Exec_end \/ Checkpoint PROVE FALSE
  BY <1>1, <1>4 DEF Skip, Sleep, Poll, PollWith, Ssh_connect, Ssh_trying, Exec_end, ExecEndsChecking,
     Checkpoint, GiveUp, Advance
<1>5. ASSUME Prepare \/ MakeImage \/ CheckSource \/ Fetch \/ Connect \/ Shutdown_wait PROVE FALSE
  BY <1>1, <1>5 DEF Prepare, PrepareFrom, MakeImage, CheckSource, Fetch, FetchVerifying, Connect, Shutdown_wait
<1>6. ASSUME Spawn PROVE FALSE
  BY <1>6 DEF Spawn, Off
<1>7. ASSUME Begin \/ Fails \/ Killed \/ OrphanExits PROVE FALSE
  BY <1>1, <1>7 DEF Begin, Fails, Killed, OrphanExits
<1>8. ASSUME GuestBoots \/ GuestInstalls \/ GuestHangs \/ VmCrashes PROVE FALSE
  BY <1>1, <1>8 DEF GuestBoots, GuestInstalls, GuestHangs, VmCrashes, Machines
<1>9. QED
  BY <1>2, <1>3, <1>4, <1>5, <1>6, <1>7, <1>8 DEF Next, Step_of_build

\* An installer only ever begins on a blank disk (Builder::run, has_checkpoint), over
\* any sequence of builds that fail, are killed or resume: for any configurations,
\* numbers of builds and faults and any patience.
THEOREM AlwaysInstallsOnBlank == Spec => InstallsOnBlankDisk
<1>1. Init => FreshInv
  <2>1. DOMAIN NoQcow.snapshots = {}
    BY DEF NoQcow
  <2>2. QED
    BY <2>1 DEF Init, Idle, FreshInv, BlankSnapshots, Elements, Running, Starting, During
<1>2. Spec => []FreshInv
  BY <1>1, BuilderInvariant, FreshStepInv, PTL DEF Spec
<1>3. ASSUME BuilderInv, FreshInv, [Next]_vars
      PROVE  [vm.doing # "install" /\ vm'.doing = "install" => ThisDisk.disk = "blank"]_vars
  <2>1. CASE UNCHANGED vars
    BY <2>1
  <2>2. ASSUME Next, vm.doing # "install", vm'.doing = "install"
        PROVE  ThisDisk.disk = "blank"
    <3>1. vm.st = "on" /\ Pending(vm) /\ 1 \in DOMAIN vm.typed /\ vm.typed[1] = "install"
      BY <1>3, <2>2, OnlyObeysInstalls
    <3>2. RunningInv
      BY <1>3, <3>1, PendingFacts
    <3>3. QED
      BY <3>1, <3>2 DEF RunningInv, InstallsOnce
  <2>3. QED
    BY <1>3, <2>1, <2>2
<1>4. QED
  BY <1>2, <1>3, BuilderInvariant, PTL DEF Spec, InstallsOnBlankDisk
=============================================================================
