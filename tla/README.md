# A TLA+ development of goldboot

goldboot builds images of whole disks ("golden images"), keeps them in a local
library or a registry, and writes them to disks. A build runs virtual machines,
converts the qcow2 disk they leave into a compressed, deduplicated, optionally
encrypted image file (`.gb`), and a deployment writes such an image to a device
from the library, or straight from a registry, and then fixes up partition
tables and boot entries.

This directory holds specifications translated from the Rust source, the TLC
configurations that check them on small instances, and proofs that TLAPS
checks. `PROJECT.json` maps every definition to the lines it models and lists
runs, mutants, findings, hazards and theorems.

    tlc -workers 2 -config ImageBuild.cfg MCImageBuild     # a run
    tlapm ImageBuildProofs.tla                             # the proofs

## 1. Inventory

| Component (source) | State | Operations | What is hard |
|---|---|---|---|
| qcow2 tables (`goldboot-image/src/qcow`) | L1/L2 tables, header, snapshots of a disk file | `open`, `create`, `count_clusters`, `read_contents`, `revert`, streaming `reader` | flags that are only accurate in active tables; I/O errors taken for absent tables; a reverted disk shares its L1 table with the snapshot |
| image builder (`goldboot-image/src/lib.rs` `from_qcow`) | destination file, digest table, nonce table, counters, offsets | one pass over the tables | two traversals of one table; nonces indexed by the order of writing and looked up by the order of first mention; deduplication; truncation of the last block; a crash anywhere |
| image writer (`write`, `stream_write`, `verify`) | the destination, a position in the cluster stream | one call at a time, repeated after failure | interrupted calls, holes, the last block, devices that are too small, clusters of another version than the manifest |
| image loading (`open`, `load`, `ManifestBlob`, `parse_manifest`, `compute_content_id`) | handle: headers, tables, id | open, decrypt, serialise the metadata | files a crashed build left |
| image references (`ImageRef`) | none | parse, validate, format | ambiguous host, name and tag |
| registry server (`goldboot-registry/src`) | a tree of `.gb` files | list, manifest, clusters (with ranges), push | concurrent pushes through one partial file; handlers that open the file several times |
| registry client (`goldboot/src/registry`) | login configuration | push, pull to a file, stream to a device | one image fetched by two requests |
| library (`goldboot/src/library.rs`) | a tree of `.gb` files | add, delete, find, download, prune | deletion racing a build; several matches for a reference |
| build orchestration (`goldboot/src/builder/mod.rs`) | elements, checkpoints in the disk's snapshots | run, resume | resuming from a checkpoint |
| virtual machine control (`qemu`, `vnc`, `ssh`, `serial`, `http`) | the process, screen, output buffer | commands and waits | waits that match too early or never |
| multi-boot merge (`alloy.rs`) | layout of a merged disk | copy partitions, write a table | alignment, sizes, table at its limit |
| partition tables (`gpt.rs`, `fs.rs`) | primary and backup tables of a disk | read, fix up, extend, resize | crash between writes; disk larger than the image |
| deploy, install, drift (`cli/cmd`) | none of their own | write, fix up, extend, resize, register | one step of several failing |
| boot entries (`boot.rs`, `boot_scan.rs`) | firmware variables | choose an id, register | ids in use, order |
| graphical interface (`gui`) | screens, shared progress, dialogs | select, confirm, write, verify, log in | threads that report into state the screen has left or sized otherwise |
| operating system builders (`builder/os`) | none | scripts of key strokes and waits | only the waits |

How they interact: the builder creates a temporary `.gb` with `from_qcow` and
moves it into the library; a push reads the file from the library and the
server renames it into its store; pulls and streams read the store through the
manifest and clusters handlers; `write` and `stream_write` put an image on a
device, after which the partition tables are adapted to it and the firmware is
told to boot it. `deploy` and `install` share the firmware's entry of one name;
the boot scan of the graphical interface reads the disks they wrote. The
interfaces between them are the file format (module `ImageFormat`), the order of
sections and clusters in it, on which `stream_write` relies, the paths of the
library (module `References`), the partition tables (module `PartitionTable`)
and the variables of the firmware (module `Firmware`).

What makes each correct:

- builder: the image is that of the disk, decodable by a reader that has only
  what is on disk, and never taken for complete when it is not;
- writer: what is reported is true, nothing is destroyed that need not be, a
  repeated attempt finishes the job;
- registry and library: a name resolves to one complete image at every moment;
- partition tables: one valid table survives every crash;
- orchestration: a build that succeeds holds what its scripts installed, on a disk
  that no failed build left half-way;
- deployments: the next boot finds what was deployed, and other systems still boot;
- interface and waits: threads end, report into the right state, and do not
  wait for ever.

## 2. Modules

| Module | Models | Kind |
|---|---|---|
| `Qcow` | L2 entries, which are allocated, what `read_contents` returns for one, `count_clusters` | operators |
| `ImageFormat` | digest entries, clusters, the ordinal by which a reader finds a nonce, what a well-made image is | operators |
| `ImageBuild` | `ImageHandle::from_qcow` | state machine |
| `ImageReference` | the image a disk must give, from the set of its allocated entries | reference definition |
| `ImageWrite` | `write`, `stream_write`, `verify` on one destination | state machine |
| `Restore` | what writing an image promises | abstract specification |
| `Registry` | pushes, reads and pulls of one image on the registry server, crashes | state machine |
| `AtomicStore` | what the registry promises to those who push | abstract specification |
| `References` | `ImageRef`: parsing, printing, validity, the path of a reference | operators |
| `Library` | build, pull, delete, find, list and push over one tree of files, by several processes | state machine |
| `PartitionTable` | reading, writing, extending and fixing up GUID partition tables | operators |
| `Alloy` | the layout of a merged disk and the copies that fill it | operators |
| `Firmware` | boot entries, `BootOrder`, `BootNext`, the choice of a number | variables and operators |
| `Deploy` | the deploy command on a device or file, with crashes and power failures | state machine |
| `Install` | the install command onto a mounted system partition | state machine |
| `Machine` | deploy and install commands on one machine, sharing the firmware | composition |
| `Scripts` | the operating system builders as sequences of steps | operators |
| `Builder` | `goldboot build`: caches, virtual machine, script, guest, image | state machine |
| `BootScan` | the loaders found on the disks, and chain-loading one | operators |
| `Gui` | the interface: frames, keys, and the connect, list and write threads | state machine |
| `MC...` | small instances for TLC | instances |
| `ImageBuildProofs`, `ImageWriteProofs`, `RegistryProofs`, `DeployProofs`, `MachineProofs`, `LibraryProofs`, `BuilderProofs`, `GuiProofs` | theorems about the module each is named for; `DeployProofs` holds the lemmas of the deploy command, `MachineProofs` the theorems of deploy, install and firmware together | proofs |

### ImageBuild

`pc` is the place in the function: `"start"` (before the headers), `"l1"` and
`"l2"` (head of the two loops), `"directory"`, `"primary"` (before the last two
sections) and three ends. `x`, `y`, `block_offset`, `cluster_offset`, `i`,
`cluster_count`, `nonce_table` and `digest_table` are the function's variables
(loop indices count from 1). `file` is the destination, section by section:
the model keeps what is on disk apart from what is in memory, because a reader
has only the first. `WriteHeaders` also makes `count_clusters`' traversal.
Each L2 entry is one step: `SkipEntry`, `WriteCluster`, `ReuseCluster`, or
`NonceOutOfBounds` where Rust would panic. `Fail` ends the function anywhere.

Abstractions. A block is a sequence of few units. A digest stands for the bytes
it was computed from (SHA-256 free of collisions). Random nonces are distinct,
the n-th one drawn is n. The compressed and encrypted size of a block is a
constant function of it, `EncodedSize`; the headers end at `RegionStart`.
Integers keep their widths where the code casts or wraps: `U32` and `U64` are
the numbers of values, set small by the runs.

### ImageWrite

`image` is the handle as loaded, with the clusters of its file; `dest` is the
destination, `is_file` tells a file from a device. `op` is the call under way,
`todo` the set of entries it still visits, in order, `offsets` and `stream_pos` the stream side
of `stream_write`. A block takes two steps, as in the code: compare its hash
(`SkipClean`, `FindDirty`), then write it (`WriteBlock`); a kill between or
inside the two leaves any prefix of the block (`PartlyWritten`). `states` is
what the progress callback has told the user. A call ends in `Finish`, in
`Abort` (an error that need not happen, bounded by `MaxAborts`), in `DeviceFull`
or in `Refuse` (the image is at fault). Any call may follow any other. The
clusters need not be of the version the manifest describes (`OfOneVersion`):
a streamed image comes in two requests.

Decryption succeeds only with the nonce the cluster was encrypted with; at an
offset where no cluster starts, the bytes found do not decode.

`Restore` reduces the destination to the set of blocks it holds. `ImageWrite`
implements it: the run checks `Restores`, the refinement mapping that takes the
blocks held and the outcome of the last writing call.

### Registry

One image reference on the server. `names` is the directory: what `<tag>.gb` and
`<tag>.gb.partial` name; `stable` is the directory as the disk has it. Names
point to inodes, `content` is what an inode holds, and `dirty` are those not yet
synchronised, so that a reader that has opened a file keeps it when a push
renames another one over its name, and two pushes that open the partial file
share one inode. `push` holds each push request's place in the handler and in
`Storage::put`; `answer` what its client knows, which is "timeout" when the client
stopped waiting while the server goes on. `pull` holds a reader's place in the
two requests of `pull_to_file`, each of which opens the file by name twice
(`ManifestOpen`, `ManifestRead`, `ClustersLocate`, `ClustersOpen`), or in a
single request for a range of the clusters. `calm` is history: no push has
renamed a file between two of the reader's opens.

An upload is a sequence of units: headers, one per cluster, and the tail
(digest table with directory). `ServerCrash` ends all requests; `PowerLoss` also
takes names back to `stable` and cuts files that were not synchronised anywhere;
`FlushNames` may happen any time, for the code does not synchronise the
directory.

`Serial` is an assumption about the clients: the next push of this image begins
when the server is done with the last one. With `Serial` false a user may push
again after any answer, a timeout included, and `PublishedIsWhole` fails
(section 5); so the atomicity that `AtomicStore` states holds only with it.

`AtomicStore` has one image behind the name and one that survives a power
failure. `Registry` implements it (`PublishesAtomically`): the refinement takes
the upload whose units the final name's inode holds, and the status of each
request.

### References and Library

Strings are sequences of tokens, of which colon, slash, dot and the two schemes
are the ones `ImageRef::parse` looks for; `parse` and `display` follow the code's
searches from the right and its checks of segments.

In `Library` every action is one call of the file system by one process (`proc`
holds what it is doing): `MakeDir` for each `mkdir` of `create_dir_all`,
`Rename`, `RemoveFile`, one `rmdir` per step of `prune_empty_parents`, one
directory read or file opened per step of `Walk` and `Scan`, `Stat` and `Upload`
of a push. `always` and `ever` are history: what was in the library during the
whole command, and at some time of it. A listing records what kind of entry it read,
and opens or descends later; hidden top directories are skipped. A name may end in
`.gb` like a file, in which case a file can be in the place of a directory
(`MakeDir` fails) and the other way round.

### PartitionTable, Deploy, Install, Machine, Alloy

A disk is a function on the sectors that matter: where tables are or may come to
be, and the first sector of the last partition. A header's checksum is the
entries it was computed from, so `Valid` is what firmware and kernel check.
Operations are sequences of writes that `Deploy`'s `WriteTable` makes one by one.
`disk` is what a program reads, `platter` what a power failure leaves of it,
`kernel` the partitions the kernel knows. `PowerLoss` keeps any of the
unsynchronised writes to tables, and those elsewhere together or not at all.
`Fail` ends a command at any step, in the middle of the image too.
`Overwritten` abstracts the writing of blocks, which is `ImageWrite`'s matter.

`Firmware` has the variables that survive crashes; whether the library for
firmware variables adds a number to `BootOrder` is left open. `Install` copies
files in two steps each (emptied, then whole). `Machine` interleaves commands of
both kinds, one at a time. `Alloy` is a fold over the partitions of all elements;
`MCMachine` compares its layouts with what `merge_disks` promises.

### Scripts and Builder

A script is a sequence of steps: keys, waits (for a whole screen, a part of it,
recognised text, console text), SSH, commands, checkpoints, shutdown. Text typed is
abstracted to its effect on the guest, and what a wait waits for to "a prompt", "the
installed system" or "never" (a placeholder hash that no screen has). `Builder`
keeps the caches that survive a build (`source`, the medium; `qcow`, disk and
snapshots of each element), the machine (`vm`) and the process (`build`).
`Step_of_build` is the build's one thread; the guest boots, installs and obeys
in its own time, may hang, and the machine may die. `Killed` ends goldboot
itself and may leave the machine running, which keeps the disk locked
(`orphan`). A build may be run again with what is left. Two things are history:
`mishap` marks a disk whose machine died, or whose command's connection was
replaced, so that the status of the command was taken for 0.

### BootScan and Gui

A frame is a function of the interface's state, in the order of `GuiApp::ui`:
keys of the application, polling of the threads' channels, the screen, the login
dialog, the sudo dialog. All of them see the same key. `connect`, `list` and
`worker` are threads with their channels, `progress` is the structure that
`WriteProgress`'s mutex protects, `poisoned` when a thread has panicked with it.
`client` with a host is the shared registry client, whose lock the list and
write threads hold (`Locked`). The interface's own thread waits for it in the
middle of a frame (`worker.phase = "lock"`, ended by `StartStream`), and draws no
frame and takes no result meanwhile. `Replace` puts another image of another length behind the same
name, while it is still to be read again. `seen` is history: presses since the screen was entered. The program adds
0.01 to a floating-point number per press and compares it with 1.0, which rounding
makes 101 presses; the model counts presses as integers up to `Presses`. A disk of
which a partition lies outside its bounds, which ends the scan of that disk
(boot_scan.rs:141), is left out of `BootScan`.

## 3. Runs

| Run | Shows |
|---|---|
| `build_image` | all disks of two L2 tables of two entries made from seven kinds of entries or missing tables, sizes aligned and not, encrypted and not, killed anywhere; of the largest disks also faulty ones, whose tables may be unreadable in either traversal (428 164 states) |
| `write_image` | the images of three disks (a hole, a shared block, a cut last block), encrypted or not, and each with the clusters of another, every content of small files and devices, any sequence of calls, two of which fail (238 158 states) |
| `registry_pushes` | two pushes of accepted, misnamed and too large uploads of two sizes, two crashes or power failures at any step (250 573 states) |
| `registry_reads` | a pull and a range request, two pushes that replace the image meanwhile, by uploads of two sizes or an encrypted one (3 959 188 states) |
| `machine` | two commands, deploy or install, on a file or on disks just large enough or much larger, for an installer's image, a merged one and one without a table; one failure, kill or power failure at any step; three states of the firmware; every merge of up to three of three disks (1 019 478 states) |
| `library` | three processes, a local name that is also a host's, several tags and times; every string of up to five tokens as a reference, a remote name that ends in `.gb` where a file lies (611 308 states) |
| `builder` | every script alone and two multi-boot configurations, three builds of one directory, two faults (337 523 states) |
| `gui` | four machines (with and without a boot menu, EFI, root), on one of which one logs in twice, so that the second login's lister has the client when a write of an image that the first one listed is started; one replaced image (283 766 states) |
| `registry_retry`, `write_holes`, `install_boot_entry`, `gui_confirm` | each violates one statement of a comment or text of the program (section 5) |

Some properties are conjunctions of named parts, one per aspect of the same
hazard: `DeploymentIsSound`, `TreeIsSound`, `BuildIsSound`, `ProgressIsTrue`,
`BootMenuIsSound`, `BuildsReference`. Each part has a mutant of its own.

What the properties say, beyond types:

- builder of images: `DigestsResolve`, `NonceAgreement`, `StreamOrder`,
  `Deduplicated`, `PrimaryHeaderLast`, `TableMatchesSource`, `NoPanic` at every
  step; `BuildsReference` at the end, which contains `HandleCounts` and
  `ImageIsWellMade`;
- writer: `ReportsTrue`, `WrittenFileIsExact`, `VerifyFindsLoss`,
  `ImagesAccepted`, `OnlyLostBlocksChange`, `StreamStaysInsideDisk`, and the
  refinement `Restores`;
- registry: `PublishedIsWhole` and the refinement `PublishesAtomically`;
  `ResponseFromOneImage`, `CalmReadsAreExact`;
- machine: from the moment an image is on a disk its table is found, and not an
  older one, through every kill and power failure (`TableSurvives`); a
  deployment that succeeds leaves both tables right and durable, a filesystem
  that fits, and a next boot on that disk (`DeploymentIsSound`); other systems'
  entries stay (`OthersEntriesSurvive`); the next boot is changed by an install
  only when loader and images are there as a whole (`NextBootIsInstalled`);
  `MergeIsSound`;
- library: `ListingIsComplete` and `FindsNewest` relate a command's result to
  what was there all the while, `TreeIsSound` is about the tree itself;
  `ParsesWhatItPrints`;
- builds: `BuildIsSound`, and `InstallsOnBlankDisk`: an operating system's
  installer begins on a blank disk, whatever earlier builds, failed, killed or
  resumed, left of disks and checkpoints;
- interface: `ProgressIsTrue`, `NoPowerOffWhileWriting`, `BootMenuIsSound`;
  `LoginSettles` and `WriteSettles`, of logins and writes that meet.

What some of them do not say: `PublishesAtomically` and `PublishedIsWhole` are
about pushes one at a time in `registry_pushes` (`Serial`), and `registry_retry`
shows the others. `CalmReadsAreExact` is not about a push between the two requests
of a pull, nor about an empty region. `ProgressIsTrue` allows a panic once an image
was replaced. What the code does in these cases is in section 5.

Why the bounds are enough. Two L2 tables are needed for a missing one to shift
the next; two entries per table for a boundary between tables to fall between
blocks; four blocks and three host clusters, two with equal bytes, let a
duplicate come before, between and after new clusters, which is where ordinals,
counts and nonces could part; a disk of 5 or 7 units cuts its last block. Two
failing attempts are enough for an attempt to follow one that itself started on
the remains of another. Destinations are shorter than, as long as and longer
than the images. For the registry, two pushes let one find the other's left-over
partial file, longer or shorter than its own upload; a crash in each of them is
enough for a push to start on what both kinds of crash leave; uploads of one and
two clusters put a tail where the other has a cluster. Readers do not change
files, so one of each kind stands for any number. There are more inodes than
names and handles. For the machine, a second deployment finds the tables, the
filesystem and the boot entry that a first one, complete or not, has left; one
disk leaves no room to extend and one does; the numbers of firmware variables
suffice to be listed, taken but unlisted, and free. For the library, three
processes let an addition, a deletion and a reader meet, and two of them race
for one directory while the third lists it. For builds, a second run meets every
cache a first one leaves, and a third what is left by one that was resumed from a
checkpoint and shares its table; `Patience` of one poll and `MaxTries` of two
connections keep the counters' boundaries. For the interface, one registry is a
bound of run time. A registry's images can be chosen only when a lister has ended,
so a second login is what brings lister and write together; by
the same token a lister whose login was replaced is never waited for, and `list`
keeps the last one only. `Presses` stands for the hundred presses.

Fairness. `Builder` assumes weak fairness of `Step_of_build`: the build is a
sequential program that is never blocked on anything the model does not have;
nothing is assumed of the guest. `ExitIsNoticed` and `FrozenGuestIsGivenUp` rest
on it. `Gui` assumes it of the connect and list threads and the worker, whose
requests have timeouts (60 seconds, client.rs:101; 30 minutes for a stream,
client.rs:172), of the interface that waits for the client (`StartStream`), and of
a frame without a key, for every thread but the lister requests repaints. `LoginSettles` and `WriteSettles` rest on it; both allow the
machine to be switched off. No other specification needs fairness: the rest are
invariants, action properties and refinements.

`CHECK_DEADLOCK FALSE` is set where a bounded number of commands, requests or
builds ends: everything but `write_image`.

## 4. Proofs

Every safety property that a run checks is also proved for every value of the
constants, but for three named at the end of this section. What the theorems
assume of the constants are the `ASSUME`s of the modules, which TLC evaluates on
every run, and four hypotheses that the theorems state themselves (`DisksFit`,
`RegionsInOrder`, `NoLookalike`, `EspsDiffer`), which the `MC` modules assert of what they check.
None of the proofs bounds the number of processes, requests, commands, blocks,
partitions, targets or failures. None of the properties is inductive alone; the
invariants below say what each rests on.

### Image builder (`ImageBuildProofs`)

For any cluster size, table length, disk, faulty or not, encoded sizes and
integer widths, `ImageBuild` keeps its type, and `DigestsResolve`,
`NonceAgreement`, `Deduplicated`, `StreamOrder` and `PrimaryHeaderLast` hold.
`ImageInv` adds:

- `Region`: the clusters tile the file from `RegionStart` to `cluster_offset`,
  so a cluster is identified by its offset and a new one is past all others;
- `ClustersNamed`: every cluster is mentioned by a digest entry, so that "no
  entry has this digest" implies "no cluster encodes it" (`Deduplicated`);
- `Ordinals`: the number of distinct offsets mentioned is `i`, and the c-th
  cluster has ordinal c - 1, which ties the builder's counter to the reader's
  order of first mention;
- `FirstSeenAscending`: first mentions are in increasing order of offset;
- `Nonces`: the table in memory is a prefix of the one on disk, and the c-th
  cluster was encrypted under the c-th nonce;
- `Sections`: what the trailing sections say once written.

A step either leaves file and table alone or appends one entry that names an
old cluster or one new one (`StepKinds`, `AppendGrows`); each conjunct is then
preserved by a lemma of its own.

`TableMatchesSource`, `NoPanic`, `HandleCounts` and `ImageIsWellMade` need disks
that fit the file: `DisksFit` says that sizes are below 2^64, that there are fewer than 2^32
allocated clusters, and that no block lies past the end, which holds of what qemu
writes unless the disk was reverted to a snapshot with VM state (section 5). They
follow from `SourceInv`, of disks whose tables can be read: `Position` ties
`block_offset` to the loop indices, `Listing` says that the table lists just the
blocks passed, in order, and `Counts` that `cluster_count` and the entries made
add up to the blocks counted and the clusters written. The last is why a nonce
dropped for a reused cluster is never missed. `ImageIsWellMade` adds `Laid`
(clusters and blocks lie one after the other and behind the builder's position, and
the header on disk has a nonce for each cluster) and `Inside` (no block recorded
reaches past the end of the disk).

### Writer (`ImageWriteProofs`)

`ReportsTrue`, `VerifyFindsLoss`, `WrittenFileIsExact`, `StreamStaysInsideDisk`,
`OnlyLostBlocksChange` and the refinement of `Restore` (initial states, and each
step a step or a stutter). The images are those a builder can have made: blocks
apart, none longer than a block, none past the size. `WriteInv`: `Covered`, a block
that is not still to be visited is on the destination; `Told`, what was reported
of blocks is true; `Cleared`, an emptied file is zero wherever no block was
written; `Found`, what `verify` has passed and does not find was reported.
Only `Covered`, `Told` and `Cleared` need clusters of the manifest's version.

`ImagesAccepted` supposes `RegionsInOrder`: in every image each cluster begins after
the one before it has ended, and none encodes to more than four blocks, above which
`stream_write` takes a size for damage. `Ahead`: what is still to be read lies at or
after the stream's position. The two components join here: `ImageAlwaysWellMade`
says that what `ImageBuild` finishes is `WellMade` (a term of `ImageFormat`), which
contains what `ImageWrite` assumes of an image and the order of its region, and
`WellMadeIsOneVersion` that the clusters of such an image are those its manifest
describes. That a block encodes to at most four is taken from the compressor, which
adds a few bytes at worst.

### Registry (`RegistryProofs`)

Under `Serial` (section 2) `PublishedIsWhole`, the refinement of `AtomicStore` and
`ResponseFromOneImage`; `CalmReadsAreExact` of uploads with clusters, for an
empty cluster region is answered with a byte too many (section 5). Without
`Serial` only the types are claimed. `PublishInv`: what the final name names, in
memory and on disk, is a whole upload and synchronised; the partial file is
never one of these, and holds what the one push under way has written so far.
Ranges are parsed as u64 and so are natural numbers.

### Deploy, install, firmware (`DeployProofs`, `MachineProofs`)

`TableSurvives`, `OthersEntriesSurvive`, `NextBootIsInstalled`, and, under
`NoLookalike`, `DeploymentIsSound`. Images have tables as partitioning tools write
them (`WellFormed`). `DeployInv` says of every write planned by extending or
fixing up that its target is on the disk or still to be written (`TodoInv`), which
sectors a disk with a written image can have (`DiskInv`), what each stage has
reached (`StageInv`) and from which tables the kernel's partitions are
(`KernelInv`). `NoLookalike` is there because the code tells a stale kernel view by
sizes only (fs.rs:120): no table the kernel may still hold has, in the same slot,
another partition of just the size grown to. `PlanInv` is the same idea for
`install`: each file of the plan is still to be copied or there as a whole. That
image names differ from the loader's paths is assumed.

### Library (`LibraryProofs`)

`TreeIsSound`, `FindsNewest`, `ListingIsComplete`, for any processes and images of
validated references with headers that match, also with names that end in `.gb`. No
file lies at first where a directory is. `TreeInv`: files and directories are
apart and every entry's parents are directories; `LeafInv`: an empty directory
has a process that excuses it, by being about to fill or prune it, or by having
failed; `SearchInv` and `WalkInv`: an image there all the time was dealt with, or
it or a directory above it is still to be visited (`Awaits`). Their stability
under other processes' steps is proved once for all histories.

### Builds (`BuilderProofs`)

`BuildIsSound` and `InstallsOnBlankDisk`, for every configuration of any number of the
elements and any number of builds and faults. What the proofs use of a script (where
it sees the installation's outcome, what follows, where its checkpoints are)
is read off the scripts themselves, in one lemma each (`ScriptFacts`). `BuilderInv`:
`OutcomeInv`, once the outcome was seen the disk is installed and nothing that the
guest has yet to do installs again (`Pending`); `SnapshotInv`, checkpoints from the
installation's on are of installed disks; `KnownInv`, a resumed
build starts from one it knows of; `AlpineInv`, the one installer that asks and
installs in separate steps; `MediumInv`, `PlaceInv`, `DoneInv`. `FreshInv`, for
`InstallsOnBlankDisk`, relates the disk to the place of the script: before the step
that begins the installation (`InstallAt`) the disk is blank, and so are the
snapshots made before it (`BlankSnapshots`), which a resumed build shares but never
gets a connection to write to (`Unreached`); the guest has at most one installation
still to get to (`InstallsOnce`).

### Interface (`GuiProofs`)

`ProgressIsTrue`, `NoPowerOffWhileWriting` and, under `EspsDiffer`,
`BootMenuIsSound`, for every machine, library, registry and number of presses.
`GuiInv`: `Behind`, a thread works behind the last screen only, shows its dialog when
it ends, and the program has not ended before; `Covered`, blocks behind the
thread are done with; `OneLength`, unless an image was replaced the thread and the
vector agree in length. A frame is a composition of functions, so what each part of
it may change is a lemma of its own (`Keeps`, `ScreenEffect`). `EspsDiffer`:
partitions that are read have identifiers of their own, which a cloned disk
breaks. The menu is a concatenation of concatenations of sorted loaders:
`LoadersSorted` shows that counting the loaders before each one enumerates them
in order, `FlattenMadeOf` that the library's recursive `FlattenSeq` puts
sequences one after another (from a least number of sequences for which it
would not), and `MenuFound` gives each entry its disk, partition and place.

### What only TLC checks

- Liveness: `ExitIsNoticed`, `FrozenGuestIsGivenUp`, `LoginSettles`,
  `WriteSettles`, out of this prover's reach.
- `BuildsReference`'s comparison with `ImageReference`, whose order and sums are the
  library's folds; its parts `HandleCounts` and `ImageIsWellMade` are proved, and
  `TableMatchesSource`, `StreamOrder` and `DigestsResolve` say the same of the parts of the image.
- `MergeIsSound` and `ParsesWhatItPrints`, about what folds and searches compute.

## 5. Where the code and its documentation differ

Each property below is violated by a run of its own; the statement it renders is
quoted in `PROJECT.json`.

- `HolesReadZero`: blocks without a cluster keep the device's old data.
- `PublishedIsWhole`, without `Serial`: a push repeated after a timeout shares the
  partial file with the first one, and a mixture is published.
- `NextBootFindsLoader`: install registers `\EFI\Boot\goldboot.efi` as the next
  boot but copies the loader to `goldboot/goldboot.efi`.
- `ConfirmedEachTime`: the count of confirming presses is kept after a write that
  could not start, so that one press confirms the next.

The following was met while modelling. The models follow the code in each case;
no run is spent on it.

Image format. A zero cluster over a preallocated host cluster shared with a
snapshot is imaged with the host's bytes (levels.rs:102, against levels.rs:148).
After `revert` to a snapshot with VM state, blocks past the disk's size are
imaged (lib.rs:1464, against lib.rs:390). The `cluster_count` on disk is the one
before deduplication (lib.rs:1407, against lib.rs:479). `digest_count` differs from
the number of entries when an L2 table is unreadable in one of the two
traversals only (lib.rs:530). `verify` reports the cut last block of a disk that
is not block-aligned as corrupt right after a write (lib.rs:1283, against
lib.rs:2053). `stream_write` never hashes the bytes it writes (lib.rs:1234,
against gui/state.rs:601).

Registry. A push between the two requests of a pull gives a file made of two
images, reported as success (client.rs:212, against client.rs:195). For an empty
cluster region `parse_range_header` answers the inclusive range 0 to 0, one byte
too many (images.rs:161).

Deployments. While the last partition is extended, the primary table is not
valid between the write of its entries and that of its header; what is found
then is an older backup, or nothing. An image without a table leaves the backup
table of an earlier deployment at the end of the disk. `deploy` and `install` use
one description, "goldboot", and so one boot entry. A number in use but not in
`BootOrder` is taken for free. The check against a stale kernel view compares sizes
only. Two included images of one file name overwrite each other.

Library. Names that begin with a dot are hidden from listings, and a directory
pruned during a listing makes it fail. An addition fails if another process
prunes its directory before the rename. A failed build leaves its staged file. A
push reads length and content apart: a file replaced by a longer one is sent cut.

Builds. Only the disk is reverted to a checkpoint; the machine starts cold, with
another SSH key and port, so that an Arch Linux build resumed after its boot
checkpoint never connects. A revert makes the disk share the snapshot's table,
so that writing to it changes the checkpoint. A command whose connection is
replaced counts as status 0. Debian, Ubuntu, Pop!_OS and Tiny Core never install
the SSH server they wait for; the last three wait for hashes that no screen has;
the Windows scripts never shut down. Waits for a part of the screen or for text
have no bound. `start` that fails after the machine was spawned leaves it
running. A disk whose creation was interrupted makes every later build fail
until `--clean`. A medium without a checksum (Arch Linux, Tiny Core, Windows) is
taken from the cache even if its download was cut. The line read as the reply to
`savevm` may be an event (qemu.rs:174): an error after it goes unnoticed, and the
build goes on without the checkpoint (qemu.rs:145).

Interface. Escape during the boot countdown restarts the machine at once; a key
that closes the error dialog is handled by the screen as well.
A device chosen for a smaller image stays chosen for a larger one.
`start_stream_write` ignores the host of the selection. Choosing "Verify" for a
registry's image hides the dialog for good. A write that fails shows no dialog;
one that found differences still says that it is complete. A panic in
`record_cluster` poisons the lock and leaves the screen without a way out. The
question about sudo can end the program during a write.

## 6. What is not modelled

- Rendering, layout and themes of the interface, and the macros: no state, or
  code generated at compile time.
- Prompts and values of build options; text typed by the scripts, beyond its
  effect; the HTTP server and the recording of a build's screen.
- `drift`, which reads and reports.
- The download of goldboot's own boot image (library.rs:248), one write in place.
- Authentication and start-up of the registry, and `list`, which reads.
- `compute_content_id`, and `load` beyond what the writer takes from it.
- qcow2: compressed clusters' bytes, the streaming reader, creation. Snapshots
  and revert appear in `Builder` as the disk they restore.
- What a filesystem or a system partition contains.

## 7. Plan

What is left to prove: `MergeIsSound`, whose fold over partitions would need an
argument like that for `FlattenSeq`; and `ParsesWhatItPrints`, for references
without empty parts.
