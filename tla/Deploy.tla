-------------------------------- MODULE Deploy --------------------------------
(***************************************************************************)
(* The deploy command: an image is written over a disk or file, the last   *)
(* partition may be extended, both partition tables are fixed up and       *)
(* synchronised, the filesystem may be grown into its partition and a boot *)
(* entry registered.  The command may fail or be killed at every step, the *)
(* machine may lose power, and a command may follow another.               *)
(*                                                                         *)
(* How an image's blocks reach the disk is the matter of ImageWrite; here  *)
(* they do, or an unknown part of them does.                               *)
(***************************************************************************)
EXTENDS PartitionTable, Firmware

CONSTANTS
    Images,     \* records [last, entries, fs]; entries are << >> without a table
    DiskLasts,  \* last sectors of block devices
    MaxFaults,  \* bound on failures, kills and power failures
    MaxDeploys  \* bound on commands

ASSUME DeployAssumption ==
    /\ MaxFaults \in Nat /\ MaxDeploys \in Nat
    /\ \A i \in Images :
         /\ i.last \in Nat \ {0} /\ i.fs \in {"ext", "other"}
         /\ WellFormed(i.entries, i.last)
    /\ \A l \in DiskLasts : l \in Nat

NoImage == [last |-> 0, entries |-> NoEntries, fs |-> "other"]

VARIABLES
    device,    \* the output: block device or file, and its last sector
    disk,      \* its sectors, as a program reads them
    platter,   \* and as they are after a power failure
    kernel,    \* the entries of which the kernel has partition devices
    pc,
    command,   \* image and options of the command under way
    todo,      \* writes the step under way still has to make
    extended,  \* the command has extended a partition
    written,   \* history: the image is on the disk as a whole, also after a power failure
    new_id,    \* the boot entry being registered
    deploys,   \* commands begun
    faults

deviceVars == << device, disk, platter, kernel >>
deployVars == << deviceVars, pc, command, todo, extended, written, new_id, deploys, faults >>

(***************************************************************************)
(* Images on disks.                                                        *)
(***************************************************************************)
TrailingOf(image) == image.entries[Trailing(image.entries)]
FsLba(image) == TrailingOf(image).first
Filesystem(type, sectors) == [kind |-> "fs", type |-> type, sectors |-> sectors]

Lasts == {i.last : i \in Images} \cup DiskLasts
Places ==
    {0, 1, 2} \cup Lasts \cup {BackupEntriesLba(l) : l \in Lasts}
        \cup {FsLba(i) : i \in {j \in Images : j.entries # NoEntries}}

\* Where the disk at hand has its tables.
TablePlaces == {1, 2, BackupEntriesLba(device.last), device.last}

\* What an image holds at a place: the installer that partitioned its disk
\* left both tables and a filesystem that fills the last partition.
Holds(image, p) ==
    IF image.entries = NoEntries THEN Data
    ELSE CASE p = 0 -> ProtectiveMbr(image.last)
           [] p = 1 -> Header(1, image.last, LastUsable(image.last), 2, image.entries)
           [] p = image.last ->
                Header(p, 1, LastUsable(p), BackupEntriesLba(p), image.entries)
           [] p \in {2, BackupEntriesLba(image.last)} -> EntryArray(image.entries)
           [] p = FsLba(image) -> Filesystem(image.fs, Sectors(TrailingOf(image)))
           [] OTHER -> Data

Overwritten(image, places) ==
    [p \in Places |-> IF p \in places THEN Holds(image, p) ELSE disk[p]]

NoCommand == [image |-> NoImage, extend_fs |-> FALSE, boot_entry |-> FALSE]

DeployInit ==
    /\ device \in [block : {TRUE}, last : DiskLasts] \cup [block : {FALSE}, last : {0}]
    /\ disk = [p \in Places |-> Data]
    /\ platter = disk
    /\ kernel = NoEntries
    /\ pc = "idle" /\ command = NoCommand /\ todo = << >>
    /\ extended = FALSE /\ written = FALSE /\ new_id = NoNext
    /\ deploys = 0 /\ faults = 0

(***************************************************************************)
(* The command.                                                            *)
(***************************************************************************)

\* Image found and loaded, device not mounted, overwriting confirmed.
Begin ==
    /\ pc \in {"idle", "success", "failure"} /\ deploys < MaxDeploys
    /\ deploys' = deploys + 1
    /\ \E image \in Images, extend_fs, boot_entry \in BOOLEAN :
         command' = [image |-> image, extend_fs |-> extend_fs, boot_entry |-> boot_entry]
    /\ pc' = "write" /\ extended' = FALSE /\ todo' = << >> /\ new_id' = NoNext
    /\ written' = FALSE
    /\ UNCHANGED << deviceVars, faults, firmwareVars >>

\* A file takes the length of the image.
WriteImage ==
    /\ pc = "write"
    /\ device.block => command.image.last <= device.last
    /\ disk' = Overwritten(command.image, {p \in Places : p <= command.image.last})
    /\ device' = IF device.block THEN device ELSE [device EXCEPT !.last = command.image.last]
    /\ written' = TRUE
    /\ pc' = "extend"
    /\ UNCHANGED << platter, kernel, command, todo, extended, new_id, deploys, faults, firmwareVars >>

DeviceTooSmall ==
    /\ pc = "write" /\ device.block /\ command.image.last > device.last
    /\ disk' = Overwritten(command.image, {p \in Places : p <= device.last})
    /\ pc' = "failure"
    /\ UNCHANGED << device, platter, kernel, command, todo, extended, written, new_id, deploys, faults,
                    firmwareVars >>

Extend ==
    /\ pc = "extend" /\ todo = << >>
    /\ IF command.extend_fs /\ ~extended /\ Extensible(disk, device.last)
       THEN /\ todo' = extend_last_partition(disk, device.last)
            /\ extended' = TRUE
            /\ UNCHANGED pc
       ELSE /\ pc' = "fixup"
            /\ UNCHANGED << todo, extended >>
    /\ UNCHANGED << deviceVars, command, written, new_id, deploys, faults, firmwareVars >>

Fixup ==
    /\ pc = "fixup"
    /\ todo' = IF HasGpt(disk) THEN fixup_backup_gpt(disk, device.last) ELSE << >>
    /\ pc' = "sync"
    /\ UNCHANGED << deviceVars, command, extended, written, new_id, deploys, faults, firmwareVars >>

\* One write of extend_last_partition or fixup_backup_gpt.
WriteTable ==
    /\ todo # << >>
    /\ disk' = [disk EXCEPT ![Head(todo)[1]] = Head(todo)[2]]
    /\ todo' = Tail(todo)
    /\ UNCHANGED << device, platter, kernel, pc, command, extended, written, new_id, deploys, faults,
                    firmwareVars >>

Sync ==
    /\ pc = "sync" /\ todo = << >>
    /\ platter' = disk
    /\ pc' = IF extended /\ device.block THEN "refresh" ELSE "boot"
    /\ UNCHANGED << device, disk, kernel, command, todo, extended, written, new_id, deploys, faults,
                    firmwareVars >>

(***************************************************************************)
(* resize_partition_fs.                                                    *)
(***************************************************************************)

\* refresh_partition_table: partprobe and partx may both fail, and their
\* failure is ignored.
Refresh ==
    /\ pc = "refresh"
    /\ kernel' \in {kernel, Resolved(disk, device.last)}
    /\ pc' = "resize"
    /\ UNCHANGED << device, disk, platter, command, todo, extended, written, new_id, deploys, faults,
                    firmwareVars >>

KernelPartition(entries) == {k \in DOMAIN kernel : kernel[k].index = entries.index}

ResizeTo(kernel_agrees) ==
    /\ pc = "resize" /\ kernel_agrees
    /\ \E k \in KernelPartition(TrailingOf(command.image)) :
         LET lba == kernel[k].first IN
         disk' = IF lba \in Places /\ disk[lba].kind = "fs" /\ disk[lba].type = "ext"
                 THEN [disk EXCEPT ![lba] = Filesystem("ext", Sectors(kernel[k]))] ELSE disk
    /\ platter' = [p \in Places |-> IF disk'[p] # disk[p] THEN disk'[p] ELSE platter[p]]
    /\ pc' = "boot"
    /\ UNCHANGED << device, kernel, command, todo, extended, written, new_id, deploys, faults,
                    firmwareVars >>

KernelAgrees ==
    \E k \in KernelPartition(TrailingOf(command.image)) :
        Sectors(kernel[k]) =
            LastUsable(device.last) - TrailingOf(command.image).first + 1

\* Sizes are compared, not where the partitions begin.  That is enough unless a
\* table that the kernel may still hold has, in the same slot, another partition
\* of exactly the size that the last one grows to.
NoLookalike ==
    \A i, j \in Images, l \in DiskLasts : j.entries # NoEntries =>
        \A k \in DOMAIN i.entries :
            /\ i.entries[k].index = TrailingOf(j).index
            /\ Sectors(i.entries[k]) = LastUsable(l) - FsLba(j) + 1
            => i.entries[k].first = FsLba(j)

\* Slip: the size of the partition device is not compared with the table.
Resize_unchecked == ResizeTo(KernelPartition(TrailingOf(command.image)) # {})

\* Only ext filesystems are grown; resize2fs synchronises what it writes.
Resize == ResizeTo(KernelAgrees)

KernelStale ==
    /\ pc = "resize" /\ ~KernelAgrees
    /\ pc' = "failure"
    /\ UNCHANGED << deviceVars, command, todo, extended, written, new_id, deploys, faults, firmwareVars >>

(***************************************************************************)
(* Boot entry; its failures are warnings.                                  *)
(***************************************************************************)
EspsFound == IF HasGpt(disk) THEN find_esp(EntriesOf(disk)) ELSE {}

AddEntry ==
    /\ pc = "boot" /\ command.boot_entry /\ device.block
    /\ \E esp \in EspsFound, id \in pick_boot_id("goldboot") :
         /\ AddBootEntry(id, BootEntry("goldboot", esp, "fallback"))
         /\ new_id' = id
    /\ pc' = "next"
    /\ UNCHANGED << deviceVars, command, todo, extended, written, deploys, faults >>

SetNext ==
    /\ pc = "next"
    /\ SetBootNext(new_id)
    /\ pc' = "success"
    /\ UNCHANGED << deviceVars, command, todo, extended, written, new_id, deploys, faults >>

NoBootEntry ==
    /\ pc = "boot"
    /\ \/ ~command.boot_entry \/ ~device.block
       \/ EspsFound = {} \/ pick_boot_id("goldboot") = {}
    /\ pc' = "success"
    /\ UNCHANGED << deviceVars, command, todo, extended, written, new_id, deploys, faults,
                    firmwareVars >>

\* The firmware refuses a variable.
BootEntryFails ==
    /\ pc = "next" \/ (pc = "boot" /\ command.boot_entry /\ device.block)
    /\ faults < MaxFaults
    /\ pc' = "success" /\ faults' = faults + 1
    /\ UNCHANGED << deviceVars, command, todo, extended, written, new_id, deploys, firmwareVars >>

(***************************************************************************)
(* Failures.                                                               *)
(***************************************************************************)
Running == pc \notin {"idle", "success", "failure"}

\* An error of the image or the device ends the command, or the user kills it.
\* Blocks are written in the order of the disk.
Fail ==
    /\ Running /\ faults < MaxFaults
    /\ pc' = "failure" /\ faults' = faults + 1 /\ todo' = << >>
    /\ IF pc = "write"
       THEN \E end \in Places :
              disk' = Overwritten(command.image,
                        {p \in Places : p < end /\ p <= command.image.last /\ p <= device.last})
       ELSE UNCHANGED disk
    /\ UNCHANGED << device, platter, kernel, command, extended, written, new_id, deploys,
                    firmwareVars >>

\* Any of the writes since the last synchronisation may be lost, those outside
\* the tables all or none; the kernel reads the table anew.
PowerLoss ==
    /\ device.block /\ faults < MaxFaults
    /\ faults' = faults + 1
    /\ \E tables \in SUBSET {p \in TablePlaces : disk[p] # platter[p]},
          others \in {{}, Places \ TablePlaces} : LET kept == tables \cup others IN
         disk' = [p \in Places |-> IF p \in kept THEN disk[p] ELSE platter[p]]
    /\ platter' = disk'
    /\ written' = (written /\ disk' = disk)
    /\ kernel' = Resolved(disk', device.last)
    /\ pc' = (IF Running THEN "failure" ELSE pc) /\ todo' = << >>
    /\ UNCHANGED << device, command, extended, new_id, deploys, firmwareVars >>

DeployNext ==
    \/ Begin \/ WriteImage \/ DeviceTooSmall \/ Extend \/ Fixup \/ WriteTable \/ Sync
    \/ Refresh \/ Resize \/ KernelStale
    \/ AddEntry \/ SetNext \/ NoBootEntry \/ BootEntryFails
    \/ Fail \/ PowerLoss

(***************************************************************************)
(* Properties.                                                             *)
(***************************************************************************)
DeployTypeOK ==
    /\ device \in [block : BOOLEAN, last : Lasts \cup {0}]
    /\ DOMAIN disk = Places /\ DOMAIN platter = Places
    /\ pc \in {"idle", "write", "extend", "fixup", "sync", "refresh", "resize", "boot", "next",
               "success", "failure"}
    /\ command \in [image : Images \cup {NoImage}, extend_fs : BOOLEAN, boot_entry : BOOLEAN]
    /\ \A k \in DOMAIN todo : todo[k][1] \in Places
    /\ extended \in BOOLEAN /\ written \in BOOLEAN
    /\ new_id \in BootIds \cup {NoNext}
    /\ deploys \in 0..MaxDeploys /\ faults \in 0..MaxFaults

\* The entries a deployed disk should have, from the image and the disk's size.
Deployed ==
    LET e == command.image.entries
    IN  IF command.extend_fs /\ e # NoEntries
             /\ TrailingOf(command.image).last + Slack < LastUsable(device.last)
        THEN [e EXCEPT ![Trailing(e)].last = LastUsable(device.last)] ELSE e

\* From the moment an image is on the disk (deploy.rs), through both fixups and
\* every kill between their writes, and after power failures that lose nothing,
\* the disk has a valid table and it is the image's, not one that an earlier
\* deployment left at its end.  Only extending gives up the primary table before
\* there is a backup: for the write between entries and header no promise is made.
TableSurvives ==
    written /\ command.image.entries # NoEntries /\ ~extended =>
        Resolved(disk, device.last) = command.image.entries

\* A deployment that succeeds (deploy.rs, gpt.rs) leaves, on any disk and
\* whatever was there before, two valid tables that agree with each other, the
\* image and the size of the disk, all of it durable.
DeployedDisk ==
    pc = "success" /\ written /\ command.image.entries # NoEntries =>
        LET last == device.last IN
        /\ Valid(disk, 1) /\ Valid(disk, last)
        /\ disk[1] = Header(1, last, LastUsable(last), 2, Deployed)
        /\ disk[last] = Header(last, 1, LastUsable(last), BackupEntriesLba(last), Deployed)
        /\ disk[0] = ProtectiveMbr(last)
        /\ platter = disk

\* No filesystem is larger than its partition; after a deployment that extended
\* the partition of an ext filesystem it fills it (fs.rs: "a stale kernel size
\* silently turns resize2fs into a no-op").
FilesystemFits ==
    written /\ command.image.entries # NoEntries /\ todo = << >> =>
        LET fs == disk[FsLba(command.image)]
            table == Resolved(disk, device.last)
        IN  /\ Valid(disk, 1) => fs.sectors <= Sectors(table[Trailing(table)])
            /\ pc = "success" /\ extended /\ device.block /\ fs.type = "ext" =>
                 fs.sectors = Sectors(table[Trailing(table)])

\* The entry that register_boot_entry makes the firmware boot next lies on the
\* first system partition of the disk just deployed, as long as no other command
\* took over the entry.
NextBootIsDeployed ==
    pc = "success" /\ written /\ new_id # NoNext /\ boot_next = new_id
       /\ boot[new_id].path = "fallback" =>
        LET table == Resolved(disk, device.last) IN
        \E k \in DOMAIN table :
            /\ table[k].type = "esp" /\ \A j \in 1..k - 1 : table[j].type # "esp"
            /\ boot[new_id].part = table[k].index /\ boot[new_id].guid = table[k].guid

\* Entries of other systems that BootOrder lists are never overwritten
\* (boot.rs pick_boot_id), by any sequence of commands.
OthersEntriesSurvive ==
    [][\A id \in Listed : boot[id] = Foreign => boot'[id] = Foreign]_boot
=============================================================================
