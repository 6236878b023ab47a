------------------------------- MODULE Install -------------------------------
(***************************************************************************)
(* The install command: goldboot's boot loader and some images of the      *)
(* library are copied to a mounted EFI system partition, and the firmware  *)
(* is told to boot the loader next.                                        *)
(***************************************************************************)
EXTENDS Firmware

CONSTANTS
    LibraryImages,  \* records [name, id]: the file name of an image, and which it is
    MaxErrors,      \* bound on failed copies and kills
    MaxInstalls     \* bound on commands

\* The partition's paths: the firmware's default loader, goldboot's own.
FallbackPath == "EFI/BOOT/BOOTX64.EFI"
OwnPath == "goldboot/goldboot.efi"
\* The path that the boot entry names.
EntryPath == "EFI/Boot/goldboot.efi"
Paths == {FallbackPath, OwnPath, EntryPath} \cup {i.name : i \in LibraryImages}

\* The library's files are <tag>.gb, so that no image has a loader's path.
ASSUME InstallAssumption ==
    /\ MaxErrors \in Nat /\ MaxInstalls \in Nat
    /\ \A i \in LibraryImages : i.name \notin {FallbackPath, OwnPath, EntryPath}

VARIABLES
    esp,       \* the files on the system partition
    ipc,
    install,   \* options and images of the command under way
    copies,    \* files it still has to copy: << path, content >>
    installs,  \* commands begun
    errors

installVars == << esp, ipc, install, copies, installs, errors >>

Absent == "absent"
Partial == "partial"
Loader == "goldboot"
OtherLoader == "other"

MountedEsp == [index |-> 1, guid |-> "system"]

NoInstall == [takeover |-> FALSE, boot |-> FALSE, include |-> << >>]

InstallInit ==
    /\ esp \in [Paths -> {Absent, OtherLoader}]
    /\ \A p \in Paths \ {FallbackPath} : esp[p] = Absent
    /\ ipc = "idle" /\ install = NoInstall /\ copies = << >>
    /\ installs = 0 /\ errors = 0

EfiDest == IF install'.takeover THEN FallbackPath ELSE OwnPath

\* The partition is mounted and the loader present, the images are found and
\* the plan is confirmed; include may name an image twice.
InstallBegin ==
    /\ ipc \in {"idle", "installed", "refused"} /\ installs < MaxInstalls
    /\ installs' = installs + 1
    /\ \E takeover, boot_mount \in BOOLEAN,
          include \in UNION {[1..n -> LibraryImages] : n \in 0..2} :
         install' = [takeover |-> takeover, boot |-> boot_mount, include |-> include]
    /\ copies' = << << EfiDest, Loader >> >>
                    \o [k \in DOMAIN install'.include |->
                          << install'.include[k].name, install'.include[k].id >>]
    /\ ipc' = "copy"
    /\ UNCHANGED << esp, errors, firmwareVars >>

\* The library lacks the loader or an image, the partition is not vfat, or the
\* user declines.
InstallRefuse ==
    /\ ipc \in {"idle", "installed"}
    /\ ipc' = "refused"
    /\ UNCHANGED << esp, install, copies, installs, errors, firmwareVars >>

\* std::fs::copy empties the file first.
CopyStart ==
    /\ ipc = "copy" /\ copies # << >>
    /\ esp' = [esp EXCEPT ![Head(copies)[1]] = Partial]
    /\ ipc' = "copying"
    /\ UNCHANGED << install, copies, installs, errors, firmwareVars >>

CopyEnd ==
    /\ ipc = "copying"
    /\ esp' = [esp EXCEPT ![Head(copies)[1]] = Head(copies)[2]]
    /\ copies' = Tail(copies)
    /\ ipc' = "copy"
    /\ UNCHANGED << install, installs, errors, firmwareVars >>

RegisterWhen(copied) ==
    /\ ipc = "copy" /\ copied
    /\ ~install.takeover /\ install.boot
    /\ \E id \in pick_boot_id("goldboot") :
         /\ boot' = [boot EXCEPT ![id] = BootEntry("goldboot", MountedEsp, EntryPath)]
         /\ order' \in {order, IF id \in Listed THEN order ELSE Append(order, id)}
         /\ boot_next' = id
    /\ ipc' = "installed"
    /\ UNCHANGED << esp, install, copies, installs, errors >>

\* Slip: the entry is registered as soon as the loader is there.
Register_early == RegisterWhen(Len(copies) = Len(install.include))

Register == RegisterWhen(copies = << >>)

\* No entry wanted, or it could not be registered, which is a warning.
InstallEnds ==
    /\ ipc = "copy" /\ copies = << >>
    /\ \/ install.takeover \/ ~install.boot
       \/ pick_boot_id("goldboot") = {} \/ errors < MaxErrors
    /\ errors' = IF install.takeover \/ ~install.boot \/ pick_boot_id("goldboot") = {}
                 THEN errors ELSE errors + 1
    /\ ipc' = "installed"
    /\ UNCHANGED << esp, install, copies, installs, firmwareVars >>

\* The partition is full or the command is killed.
InstallFails ==
    /\ ipc \in {"copy", "copying"} /\ errors < MaxErrors
    /\ ipc' = "refused" /\ errors' = errors + 1 /\ copies' = << >>
    /\ UNCHANGED << esp, install, installs, firmwareVars >>

InstallNext ==
    \/ InstallBegin \/ InstallRefuse \/ CopyStart \/ CopyEnd
    \/ Register \/ InstallEnds \/ InstallFails

(***************************************************************************)
(* Properties.                                                             *)
(***************************************************************************)

\* When the install command (install.rs) tells the firmware to boot goldboot
\* next, loader and included images are on the partition as a whole, whatever
\* earlier attempts that failed in a copy have left there.
NextBootIsInstalled ==
    [][ipc = "copy" /\ boot_next' # boot_next =>
         /\ esp[OwnPath] = Loader
         /\ \A k \in DOMAIN install.include :
              esp[install.include[k].name] \in {i.id : i \in LibraryImages}]_<< ipc, boot_next >>

\* install.rs: BootNext is set "so the firmware boots goldboot.efi on the next
\* reboot": the entry it names has a path that exists.
NextBootFindsLoader ==
    \A id \in BootIds : boot_next = id /\ boot[id].guid = MountedEsp.guid =>
        esp[boot[id].path] = Loader
=============================================================================
