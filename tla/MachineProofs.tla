---------------------------- MODULE MachineProofs ----------------------------
(***************************************************************************)
(* The machine's invariants: what DeployProofs shows of the deploy command *)
(* alone also holds when install commands use the same firmware.           *)
(***************************************************************************)
EXTENDS Machine, DeployProofs

(***************************************************************************)
(* The install command.  While it copies, every file of its plan is either *)
(* still to be copied or on the partition with a content that belongs      *)
(* there.                                                                  *)
(***************************************************************************)
Planned ==
    {IF install.takeover THEN FallbackPath ELSE OwnPath}
        \cup {install.include[k].name : k \in DOMAIN install.include}

Rightful(path) ==
    IF path \in {FallbackPath, OwnPath} THEN {Loader} ELSE {i.id : i \in LibraryImages}

\* Types, with copies that bring each path what belongs there.
InstallTypeInv ==
    /\ esp = [p \in Paths |-> esp[p]]
    /\ install.include \in Seq(LibraryImages)
    /\ copies \in Seq({w \in Paths \X ({Loader} \cup {i.id : i \in LibraryImages}) :
                         w[2] \in Rightful(w[1])})

\* What is not still to be copied is there.
PlanInv ==
    /\ ipc = "copying" => copies # << >>
    /\ ipc \in {"copy", "copying"} =>
         \A p \in Planned :
            (\E k \in DOMAIN copies : copies[k][1] = p) \/ esp[p] \in Rightful(p)

InstallInv == InstallTypeInv /\ PlanInv

MachineInv == DeployInv /\ InstallInv

\* The invariant of the install command holds at first.
LEMMA InstallInitial == InstallInit => InstallInv
BY DEF InstallInit, InstallInv, InstallTypeInv, PlanInv, NoInstall, Paths

\* A plan names the loader's destination and the images by their own names, and
\* all of it is still to be copied.
LEMMA InstallBeginKept == ASSUME InstallInv, InstallBegin PROVE InstallInv'
<1> DEFINE Content == {Loader} \cup {i.id : i \in LibraryImages}
           Copy == {w \in Paths \X Content : w[2] \in Rightful(w[1])}
           n == Len(install'.include)
           file == << EfiDest, Loader >>
           files == [k \in DOMAIN install'.include |->
                       << install'.include[k].name, install'.include[k].id >>]
<1>1. /\ install'.include \in Seq(LibraryImages) /\ ipc' = "copy" /\ esp' = esp
      /\ copies' = << file >> \o files
  <2>1. PICK takeover, boot_mount \in BOOLEAN,
             include \in UNION {[1..m -> LibraryImages] : m \in 0..2} :
           install' = [takeover |-> takeover, boot |-> boot_mount, include |-> include]
    BY DEF InstallBegin
  <2>2. include \in Seq(LibraryImages)
    <3>1. PICK m \in 0..2 : include \in [1..m -> LibraryImages]
      BY <2>1
    <3>2. m \in Nat
      OBVIOUS
    <3>3. QED
      BY <3>1, <3>2
  <2>3. install'.include = include
    BY <2>1
  <2>4. QED
    BY <2>2, <2>3 DEF InstallBegin
<1>2. n \in Nat /\ DOMAIN install'.include = 1..n /\ \A k \in 1..n : install'.include[k] \in LibraryImages
  BY <1>1
<1>3. file \in Copy /\ EfiDest \in Paths
  BY DEF EfiDest, Rightful, Paths
<1>4. files \in Seq(Copy) /\ DOMAIN files = 1..n /\ Len(files) = n
  <2>1. ASSUME NEW i \in LibraryImages PROVE << i.name, i.id >> \in Copy
    BY InstallAssumption DEF Rightful, Paths
  <2>2. files = [k \in 1..n |-> files[k]] /\ \A k \in 1..n : files[k] \in Copy
    BY <1>2, <2>1
  <2> HIDE DEF files, Copy, n
  <2>3. QED
    BY <1>2, <2>2
<1>5. /\ copies' \in Seq(Copy) /\ DOMAIN copies' = 1..n + 1 /\ copies'[1] = file
      /\ \A k \in 1..n : copies'[k + 1] = files[k]
  <2> HIDE DEF file, files, Copy, n
  <2>1. << file >> \in Seq(Copy) /\ Len(<< file >>) = 1 /\ << file >>[1] = file
    BY <1>3
  <2>2. QED
    BY <1>1, <1>2, <1>4, <2>1
<1>6. InstallTypeInv'
  BY <1>1, <1>5, Zenon DEF InstallTypeInv, InstallInv
<1>7. ASSUME NEW p \in Planned' PROVE \E k \in DOMAIN copies' : copies'[k][1] = p
  <2>1. CASE p = EfiDest
    BY <1>2, <1>5, <2>1
  <2>2. CASE \E k \in 1..n : p = install'.include[k].name
    <3>1. PICK k \in 1..n : p = install'.include[k].name
      BY <2>2
    <3>2. copies'[k + 1] = << install'.include[k].name, install'.include[k].id >>
      BY <1>2, <1>5
    <3>3. k + 1 \in DOMAIN copies'
      BY <1>2, <1>5
    <3>4. QED
      BY <3>1, <3>2, <3>3
  <2>3. QED
    BY <1>2, <2>1, <2>2 DEF Planned, EfiDest
<1>8. QED
  BY <1>1, <1>6, <1>7 DEF InstallInv, PlanInv

\* A copy that starts is still to be done; one that ends is the rightful content
\* of its path, though it may replace what was already there.
LEMMA CopyKept == ASSUME InstallInv, CopyStart \/ CopyEnd PROVE InstallInv'
<1> DEFINE Content == {Loader} \cup {i.id : i \in LibraryImages}
           Copy == {w \in Paths \X Content : w[2] \in Rightful(w[1])}
           path == Head(copies)[1]
<1>1. /\ copies # << >> /\ ipc \in {"copy", "copying"} /\ ipc' \in {"copy", "copying"}
      /\ install' = install
  BY DEF CopyStart, CopyEnd, InstallInv, PlanInv
<1>2. copies \in Seq(Copy)
  BY DEF InstallInv, InstallTypeInv
<1>3. Head(copies) \in Copy /\ Head(copies) = copies[1] /\ 1 \in DOMAIN copies
  <2> HIDE DEF Copy
  <2>1. QED
    BY <1>1, <1>2
<1>4. path \in Paths /\ Head(copies)[2] \in Rightful(path)
  BY <1>3
<1>5. Planned' = Planned
  BY <1>1 DEF Planned
<1>6. CASE CopyStart
  <2>1. esp' = [esp EXCEPT ![path] = Partial] /\ copies' = copies /\ ipc' = "copying"
    BY <1>6 DEF CopyStart
  <2>2. esp' = [p \in Paths |-> esp'[p]] /\ \A p \in Paths \ {path} : esp'[p] = esp[p]
    BY <2>1 DEF InstallInv, InstallTypeInv
  <2>3. InstallTypeInv'
    BY <1>1, <1>2, <2>1, <2>2, Zenon DEF InstallInv, InstallTypeInv
  <2>4. PlanInv'
    BY <1>1, <1>3, <1>5, <2>1 DEF InstallInv, PlanInv, InstallTypeInv
  <2>5. QED
    BY <2>3, <2>4 DEF InstallInv
<1>7. CASE CopyEnd
  <2>1. esp' = [esp EXCEPT ![path] = Head(copies)[2]] /\ copies' = Tail(copies) /\ ipc' = "copy"
    BY <1>7 DEF CopyEnd
  <2>2. /\ esp' = [p \in Paths |-> esp'[p]] /\ \A p \in Paths \ {path} : esp'[p] = esp[p]
        /\ esp'[path] \in Rightful(path)
    BY <1>4, <2>1 DEF InstallInv, InstallTypeInv
  <2>3. /\ copies' \in Seq(Copy) /\ DOMAIN copies' = 1..Len(copies) - 1
        /\ \A k \in 1..Len(copies) - 1 : copies'[k] = copies[k + 1]
        /\ Len(copies) \in Nat /\ DOMAIN copies = 1..Len(copies)
    <3> HIDE DEF Copy
    <3>1. QED
      BY <1>1, <1>2, <2>1
  <2>4. InstallTypeInv'
    BY <1>1, <2>2, <2>3, Zenon DEF InstallInv, InstallTypeInv
  <2>5. ASSUME NEW p \in Planned, p # path, NEW k \in DOMAIN copies, copies[k][1] = p
        PROVE  \E j \in DOMAIN copies' : copies'[j][1] = p
    <3>1. k # 1
      BY <1>3, <2>5
    <3>2. k - 1 \in DOMAIN copies' /\ copies'[k - 1] = copies[k]
      BY <2>3, <3>1
    <3>3. QED
      BY <2>5, <3>2
  <2>6. ASSUME NEW p \in Planned, ~ \E k \in DOMAIN copies' : copies'[k][1] = p
        PROVE  esp'[p] \in Rightful(p)
    <3>1. CASE p = path
      BY <2>2, <3>1
    <3>2. CASE p # path
      <4>1. esp[p] \in Rightful(p)
        BY <1>1, <2>5, <2>6, <3>2 DEF InstallInv, PlanInv
      <4>2. p \in Paths
        BY DEF Planned, Paths, InstallInv, InstallTypeInv
      <4>3. QED
        BY <2>2, <3>2, <4>1, <4>2
    <3>3. QED
      BY <3>1, <3>2
  <2>7. PlanInv'
    BY <1>5, <2>1, <2>6 DEF PlanInv
  <2>8. QED
    BY <2>4, <2>7 DEF InstallInv
<1>8. QED
  BY <1>6, <1>7

\* Every step of the install command keeps its invariant.
LEMMA InstallStep == ASSUME InstallInv, InstallNext PROVE InstallInv'
<1>1. CASE Register \/ InstallEnds \/ InstallRefuse
  <2>1. esp' = esp /\ install' = install /\ copies' = copies /\ ipc' \in {"installed", "refused"}
    BY <1>1 DEF Register, RegisterWhen, InstallEnds, InstallRefuse
  <2>2. QED
    BY <2>1 DEF InstallInv, InstallTypeInv, PlanInv
<1>2. CASE InstallFails
  <2>1. esp' = esp /\ install' = install /\ copies' = << >> /\ ipc' = "refused"
    BY <1>2 DEF InstallFails
  <2>2. QED
    BY <2>1 DEF InstallInv, InstallTypeInv, PlanInv
<1>3. QED
  BY <1>1, <1>2, InstallBeginKept, CopyKept DEF InstallNext

(***************************************************************************)
(* Both commands.                                                          *)
(***************************************************************************)
LEMMA FirmwareInitial == FirmwareInit => FirmwareInv
BY BootAssumption DEF FirmwareInit, FirmwareInv, NoNext

\* The initial states satisfy both invariants.
LEMMA MachineInitial == Init => MachineInv
BY DeployInitial, InstallInitial, FirmwareInitial DEF Init, MachineInv

\* The deploy command's invariant only depends on its own variables and, for the
\* boot entry, on the firmware.
LEMMA DeployInvRest ==
    ASSUME DeployInv, FirmwareInv', BootInv',
           UNCHANGED << device, disk, platter, kernel, pc, command, todo, extended, written,
                        new_id, deploys, faults >>
    PROVE  DeployInv'
<1> USE DEF DeployInv
<1>1. TypeInv' /\ TodoInv'
  BY SameCommand DEF TypeInv, TodoInv, Under
<1>2. PhaseInv'
  BY SameCommand DEF PhaseInv
<1>3. DiskInv'
  <2>1. FsInv => FsInv'
    BY SameCommand DEF FsInv
  <2>2. QED
    BY <2>1, SameCommand DEF DiskInv
<1>4. StageInv'
  BY SameCommand DEF StageInv, Late, Reached
<1>5. KernelInv'
  BY SameTables DEF KernelInv
<1>6. QED
  BY <1>1, <1>2, <1>3, <1>4, <1>5

\* An install command uses the boot entry that a deployment made, but names
\* another file in it.
LEMMA DeployInvKept == ASSUME DeployInv, InstallNext, UNCHANGED deployVars PROVE DeployInv'
<1>1. UNCHANGED << device, disk, platter, kernel, pc, command, todo, extended, written, new_id,
                   deploys, faults >>
  BY DEF deployVars, deviceVars
<1>2. CASE Register
  <2>1. PICK id \in pick_boot_id("goldboot") :
          /\ boot' = [boot EXCEPT ![id] = BootEntry("goldboot", MountedEsp, EntryPath)]
          /\ order' \in {order, IF id \in Listed THEN order ELSE Append(order, id)}
          /\ boot_next' = id
    BY <1>2 DEF Register, RegisterWhen
  <2>2. FirmwareInv /\ id \in BootIds /\ Append(order, id) \in Seq(BootIds)
    BY <2>1, PickedIds DEF DeployInv
  <2>3. FirmwareInv'
    BY <2>1, <2>2 DEF FirmwareInv
  <2>4. \A i \in BootIds : boot'[i] = boot[i] \/ boot'[i].path # "fallback"
    BY <2>1, <2>2 DEF FirmwareInv, BootEntry, EntryPath
  <2>5. DOMAIN boot = BootIds
    BY <2>2 DEF FirmwareInv
  <2>6. BootInv'
    <3>1. new_id \in BootIds \cup {NoNext}
      BY DEF DeployInv, TypeInv
    <3>2. QED
      BY <1>1, <2>4, <3>1, SameCommand DEF DeployInv, BootInv
  <2>7. QED
    BY <1>1, <2>3, <2>6, DeployInvRest
<1>3. CASE UNCHANGED firmwareVars
  <2>1. FirmwareInv' /\ BootInv'
    BY <1>1, <1>3, SameCommand DEF DeployInv, FirmwareInv, BootInv, firmwareVars
  <2>2. QED
    BY <1>1, <2>1, DeployInvRest
<1>4. QED
  BY <1>2, <1>3 DEF InstallNext, InstallBegin, InstallRefuse, CopyStart, CopyEnd, InstallEnds,
     InstallFails

\* Every step of the machine keeps both invariants.
LEMMA MachineStep == MachineInv /\ [Next]_vars => MachineInv'
<1> SUFFICES ASSUME MachineInv, [Next]_vars PROVE MachineInv'
  OBVIOUS
<1>1. CASE DeployNext /\ UNCHANGED installVars
  <2>1. DeployInv'
    BY <1>1, DeployStep DEF MachineInv
  <2>2. InstallInv'
    BY <1>1 DEF MachineInv, InstallInv, InstallTypeInv, PlanInv, Planned, installVars
  <2>3. QED
    BY <2>1, <2>2 DEF MachineInv
<1>2. CASE InstallNext /\ UNCHANGED deployVars
  BY <1>2, DeployInvKept, InstallStep DEF MachineInv
<1>3. CASE UNCHANGED vars
  <2>1. UNCHANGED deployVars /\ UNCHANGED firmwareVars /\ UNCHANGED installVars
    BY <1>3 DEF vars
  <2>2. UNCHANGED << device, disk, platter, kernel, pc, command, todo, extended, written, new_id,
                   deploys, faults >>
    BY <2>1 DEF deployVars, deviceVars
  <2>3. FirmwareInv' /\ BootInv'
    BY <2>1, <2>2, SameCommand DEF MachineInv, DeployInv, FirmwareInv, BootInv, firmwareVars
  <2>4. DeployInv'
    BY <2>2, <2>3, DeployInvRest DEF MachineInv
  <2>5. InstallInv'
    BY <2>1 DEF MachineInv, InstallInv, InstallTypeInv, PlanInv, Planned, installVars
  <2>6. QED
    BY <2>4, <2>5 DEF MachineInv
<1>4. QED
  BY <1>1, <1>2, <1>3 DEF Next

\* Both invariants hold in every state.
LEMMA MachineAlways == Spec => []MachineInv
<1>1. QED
  BY MachineInitial, MachineStep, PTL DEF Spec

(***************************************************************************)
(* What the runs check, for every value of the constants.                  *)
(***************************************************************************)

\* Every component of the state keeps its type.
LEMMA MachineTypes == MachineInv => TypeOK
BY TypesHold DEF MachineInv, DeployInv, FirmwareInv, InstallInv, InstallTypeInv, TypeOK, Listed

\* From the moment the image is written, both fixups and every kill between their
\* writes leave a valid table, the image's.
THEOREM AlwaysTableSurvives == Spec => []TableSurvives
<1>1. MachineInv => TableSurvives
  BY TableSurvivesAlways DEF MachineInv
<1>2. QED
  BY <1>1, MachineAlways, PTL

\* A deployment that reports success has left two valid, durable tables that agree
\* with the image and the size of the disk, and a next boot that is on it.
THEOREM AlwaysDeployedDisk == Spec => [](TypeOK /\ DeployedDisk /\ NextBootIsDeployed)
<1>1. MachineInv => TypeOK /\ DeployedDisk /\ NextBootIsDeployed
  BY MachineTypes, DeployedDiskAlways, NextBootAlways DEF MachineInv
<1>2. QED
  BY <1>1, MachineAlways, PTL

\* All that the runs ask of a deployment, with the filesystem's size; for this
\* NoLookalike is needed, since fs.rs compares the sizes of partitions only.
THEOREM AlwaysSoundDeployment == ASSUME NoLookalike PROVE Spec => []DeploymentIsSound
<1>1. MachineInv => DeploymentIsSound
  BY MachineTypes, DeployedDiskAlways, FilesystemFitsAlways, NextBootAlways
     DEF MachineInv, DeploymentIsSound
<1>2. QED
  BY <1>1, MachineAlways, PTL

\* A step changes no listed entry of another system.
LEMMA OthersKept ==
    ASSUME MachineInv, [Next]_vars, NEW id \in Listed, boot[id] = Foreign
    PROVE  boot'[id] = Foreign
<1>1. FirmwareInv
  BY DEF MachineInv, DeployInv
<1>2. id \in BootIds
  BY <1>1 DEF FirmwareInv, Listed
<1>3. ASSUME NEW picked \in pick_boot_id("goldboot"), NEW entry,
             boot' = [boot EXCEPT ![picked] = entry]
      PROVE  boot'[id] = boot[id]
  <2>1. picked # id
    BY <1>1, PickedIds DEF Foreign, BootEntry
  <2>2. QED
    BY <1>1, <1>2, <1>3, <2>1 DEF FirmwareInv
<1>4. CASE AddEntry
  BY <1>3, <1>4 DEF AddEntry, AddBootEntry
<1>5. CASE Register
  BY <1>3, <1>5 DEF Register, RegisterWhen
<1>6. CASE SetNext
  BY <1>6 DEF SetNext, SetBootNext
<1>7. CASE DeployNext /\ ~AddEntry /\ ~SetNext
  <2>1. UNCHANGED firmwareVars
    BY <1>7 DEF DeployNext, Begin, WriteImage, DeviceTooSmall, Extend, Fixup, WriteTable, Sync,
       Refresh, Resize, ResizeTo, KernelStale, NoBootEntry, BootEntryFails, Fail, PowerLoss
  <2>2. QED
    BY <2>1 DEF firmwareVars
<1>8. CASE InstallNext /\ ~Register
  <2>1. UNCHANGED firmwareVars
    BY <1>8 DEF InstallNext, InstallBegin, InstallRefuse, CopyStart, CopyEnd, InstallEnds,
       InstallFails
  <2>2. QED
    BY <2>1 DEF firmwareVars
<1>9. QED
  BY <1>4, <1>5, <1>6, <1>7, <1>8 DEF Next, vars, firmwareVars

\* Entries of other systems that BootOrder lists survive any commands.
THEOREM AlwaysOthersSurvive == Spec => OthersEntriesSurvive
<1>1. MachineInv /\ [Next]_vars
        => [\A id \in Listed : boot[id] = Foreign => boot'[id] = Foreign]_boot
  BY OthersKept
<1>2. QED
  BY <1>1, MachineAlways, PTL DEF Spec, OthersEntriesSurvive

\* Only Register sets BootNext during an install, when nothing is left to copy.
LEMMA InstalledFirst ==
    ASSUME MachineInv, [Next]_vars, ipc = "copy", boot_next' # boot_next
    PROVE  /\ esp[OwnPath] = Loader
           /\ \A k \in DOMAIN install.include :
                esp[install.include[k].name] \in {i.id : i \in LibraryImages}
<1>1. Register
  BY DEF Next, vars, firmwareVars, InstallNext, InstallBegin, InstallRefuse, CopyStart, CopyEnd,
     InstallEnds, InstallFails
<1>2. copies = << >> /\ ~install.takeover
  BY <1>1 DEF Register, RegisterWhen
<1>3. \A p \in Planned : esp[p] \in Rightful(p)
  BY <1>2 DEF MachineInv, InstallInv, PlanInv
<1>4. OwnPath \in Planned /\ Rightful(OwnPath) = {Loader}
  BY <1>2 DEF Planned, Rightful
<1>5. ASSUME NEW k \in DOMAIN install.include
      PROVE  /\ install.include[k].name \in Planned
             /\ Rightful(install.include[k].name) = {i.id : i \in LibraryImages}
  <2>1. install.include[k] \in LibraryImages
    BY DEF MachineInv, InstallInv, InstallTypeInv
  <2>2. QED
    BY <2>1, InstallAssumption DEF Planned, Rightful
<1>6. QED
  BY <1>3, <1>4, <1>5

\* When install sets BootNext, loader and images are whole on the partition.
THEOREM AlwaysInstalledFirst == Spec => NextBootIsInstalled
<1>1. MachineInv /\ [Next]_vars
        => [ipc = "copy" /\ boot_next' # boot_next =>
              /\ esp[OwnPath] = Loader
              /\ \A k \in DOMAIN install.include :
                   esp[install.include[k].name] \in {i.id : i \in LibraryImages}]_<< ipc, boot_next >>
  BY InstalledFirst
<1>2. QED
  BY <1>1, MachineAlways, PTL DEF Spec, NextBootIsInstalled
=============================================================================
