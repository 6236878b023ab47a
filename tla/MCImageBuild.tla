---------------------------- MODULE MCImageBuild ----------------------------
(***************************************************************************)
(* Small instances of ImageBuild: clusters of two units over two values,   *)
(* L2 tables of two entries, four host clusters of which two hold the same *)
(* bytes and one is zero.                                                  *)
(***************************************************************************)
EXTENDS ImageBuild, ImageReference

MCHostOffsets == 1..3
MCHostData == << << 1, 1 >>, << 1, 1 >>, << 1, 0 >> >>
MCData == UNION {[1..n -> Bytes] : n \in 0..ClusterSize}
\* Encoded sizes differ between blocks.
MCEncodedSize == [d \in MCData |-> IF d = << 1, 1 >> THEN 1 ELSE 2]

Entry(zero, used, host) ==
    [compressed |-> FALSE, all_zeroes |-> zero, is_used |-> used, host |-> host]
CompressedEntry(host) ==
    [compressed |-> TRUE, all_zeroes |-> FALSE, is_used |-> FALSE, host |-> host]

Unallocated == Entry(FALSE, FALSE, 0)

\* What qemu leaves in the active tables of a disk without snapshots: holes,
\* data clusters owned alone, zero clusters with and without preallocation.
OwnedEntries ==
    {Unallocated, Entry(TRUE, FALSE, 0), Entry(TRUE, TRUE, 3), CompressedEntry(1)}
        \cup {Entry(FALSE, TRUE, h) : h \in 2..3}

Tables(entries) == [1..L2Entries -> entries] \cup {NoL2}

\* Disks of n L2 tables whose last one is cut by the end of the disk: no entry
\* past the end is allocated.
Disk(sizes, l1s, faulty) ==
    {q \in [size : sizes, l1 : l1s, faulty : {faulty}] :
        \A a \in DOMAIN q.l1, b \in 1..L2Entries :
            q.l1[a] # NoL2 /\ BlockOffset(a, b) >= q.size => ~is_allocated(q.l1[a][b])}

\* Any of them is sound; of the largest ones any may be faulty.
OwnedDisks ==
    Disk({5, 7, 8}, [1..2 -> Tables(OwnedEntries)], FALSE)
        \cup Disk({8}, [1..2 -> Tables(OwnedEntries)], TRUE)

ASSUME OwnedDisksFit == DisksFit

\* A finished build has written the image of its source as ImageReference
\* defines it, whatever the order and the number of reused clusters: the same
\* sections, offsets and nonces; readers find it well made, and the handle that is
\* returned counts its parts.
BuildsReference ==
    /\ HandleCounts /\ ImageIsWellMade
    /\ pc = "done" /\ ~source.faulty =>
        LoadedImage = ImageOf(source, encrypted)
=============================================================================
