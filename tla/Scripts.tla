------------------------------- MODULE Scripts -------------------------------
(***************************************************************************)
(* What the operating system builders do to their virtual machine, as      *)
(* sequences of steps.                                                     *)
(*                                                                         *)
(* Typed text is abstracted to its effect on the guest, runs of steps with *)
(* the same effect to one step, and a condition awaited to what it says of *)
(* the guest: it is at a prompt, it is at a prompt of the installed        *)
(* system, or nothing at all (a hash that no screen has).                  *)
(***************************************************************************)
EXTENDS Sequences

Step(do, what, unless) == [do |-> do, what |-> what, unless |-> unless]
Always == ""

\* A step that a checkpoint of the given name makes superfluous.
Timer == Step("timer", "prompt", Always)
Keys(effect) == Step("keys", effect, Always)
Wait(kind, shown) == Step(kind, shown, Always)
Ssh == Step("ssh", "any", Always)
Exec(effect) == Step("exec", effect, Always)           \* a status other than 0 fails the build
ExecIgnored(effect) == Step("exec_ignored", effect, Always)
Shutdown == Step("shutdown", "poweroff", Always)
Exit == Step("exit", "any", Always)
Unless(checkpoint, step) == [step EXCEPT !.unless = checkpoint]

\* Its keys mount the drive with the SSH server and start it.
install_ssh == << Keys("none"), Keys("sshd") >>

ArchLinux ==
    << Unless("boot", Timer), Unless("boot", Wait("ocr", "prompt")),
       Unless("boot", install_ssh[1]), Unless("boot", install_ssh[2]),
       Unless("boot", Step("checkpoint", "boot", Always)),
       Ssh,
       Unless("install", Exec("install")),
       Unless("install", Step("checkpoint", "install", Always)),
       Shutdown, Exit >>

\* The installer powers the guest down itself where post-steps are not to follow.
Nix ==
    << Timer, Wait("ocr", "prompt"), Keys("none"), Keys("install"), Keys("poweroff"), Exit >>

NixPostSteps ==
    << Timer, Wait("ocr", "prompt"), Keys("none"), Keys("install"), Keys("authorize"),
       Keys("reboot"), Ssh, Exec("none"), Shutdown, Exit >>

AlpineLinux ==
    << Timer, Keys("none"), Keys("install"), Wait("serial", "installed"),
       Keys("authorize"), Keys("reboot"), Ssh, ExecIgnored("none"), Shutdown, Exit >>

Debian ==
    << Wait("rect", "prompt"), Keys("none"), Wait("screen", "prompt"), Keys("install"),
       Wait("screen", "installed"), Keys("none"), Ssh, Shutdown, Exit >>

Ubuntu ==
    << Wait("rect", "never"), Keys("install"), Wait("rect", "never"), Keys("none"),
       Ssh, Shutdown, Exit >>

PopOs ==
    << Timer, Keys("install"), Wait("rect", "never"), Keys("reboot"), Timer, Keys("none"),
       Ssh, ExecIgnored("none"), Shutdown, Exit >>

TinyCore ==
    << Timer, Keys("install"), Wait("rect", "never"), Keys("none"), Wait("rect", "never"),
       Keys("reboot"), Ssh, ExecIgnored("none"), Shutdown, Exit >>

Windows == << Timer, Keys("install"), Exit >>

Names == { "arch", "nix", "nix_post", "alpine", "debian", "ubuntu", "pop", "tinycore", "windows" }

Script(os) ==
    CASE os = "arch" -> ArchLinux
      [] os = "nix" -> Nix
      [] os = "nix_post" -> NixPostSteps
      [] os = "alpine" -> AlpineLinux
      [] os = "debian" -> Debian
      [] os = "ubuntu" -> Ubuntu
      [] os = "pop" -> PopOs
      [] os = "tinycore" -> TinyCore
      [] os = "windows" -> Windows

\* Whether the script learns that the installation succeeded: from the status of
\* a command or from text or a screen that only then appears.
SeesOutcome(os) == os \in {"arch", "alpine", "debian"}

\* Whether the configuration gives a checksum of the installation medium: those
\* of Arch Linux, Tiny Core and the Windows builders have none by default.
HasChecksum(os) == os \notin {"arch", "tinycore", "windows"}
=============================================================================
