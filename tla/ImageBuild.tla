----------------------------- MODULE ImageBuild -----------------------------
(***************************************************************************)
(* ImageHandle::from_qcow: one pass over the L1 and L2 tables of a qcow2   *)
(* disk that appends a cluster to the destination file for every block     *)
(* whose bytes it has not met yet, then the digest table and the           *)
(* directory, and last of all the primary header again.                    *)
(*                                                                         *)
(* Every state is a state of the destination file a crash or a full disk   *)
(* can leave behind: the file is written in place and in this order.       *)
(***************************************************************************)
EXTENDS Qcow, ImageFormat

CONSTANTS
    Qcows,  \* source disks: records [size, l1, faulty]; of a faulty one reading an
            \* L2 table may fail
    U32,    \* number of values of a u32
    U64     \* number of values of a u64

ASSUME ImageBuildAssumption ==
    /\ U32 \in Nat \ {0}
    /\ U64 \in Nat \ {0}
    /\ \A q \in Qcows :
         /\ q.size \in Nat \ {0}
         /\ q.l1 \in Seq(L2Table \cup {NoL2})
         /\ q.faulty \in BOOLEAN
    /\ UNION {[1..n -> Bytes] : n \in 0..ClusterSize} \subseteq Data

\* A disk that is not faulty, as qemu leaves it when no snapshot is reverted to: its
\* size and the number of its blocks fit the file's integers, and none of them lies
\* past its end.
DisksFit ==
    \A q \in Qcows : ~q.faulty =>
        /\ q.size < U64
        /\ count_clusters(q.l1, {}) < U32
        /\ \A p \in AllocatedIn(q.l1, L2Visible(q.l1, {})) : BlockOffset(p[1], p[2]) < q.size

VARIABLES
    pc,             \* where from_qcow stands
    source,         \* the qcow being converted: size and active L1 table
    encrypted,      \* a password was given
    x, y,           \* current L1 and L2 index
    block_offset,   \* offset into the data
    cluster_offset, \* where the next cluster goes
    i,              \* ordinal of the next cluster
    cluster_count,  \* protected_header.cluster_count, in memory
    nonce_table,    \* protected_header.nonce_table, in memory
    digest_count,   \* digest_table.digest_count
    digest_table,   \* digest_table.digest_table
    file            \* the destination file, section by section

vars == << pc, source, encrypted, x, y, block_offset, cluster_offset, i,
           cluster_count, nonce_table, digest_count, digest_table, file >>

loopVars == << cluster_offset, i, cluster_count, nonce_table, digest_table, file >>

\* A section of the file that has not been written.
Absent == [written |-> FALSE]

EmptyFile ==
    [primary |-> Absent, protected |-> Absent, clusters |-> << >>,
     digests |-> Absent, directory |-> Absent]

Running == {"start", "l1", "l2", "directory", "primary"}

Init ==
    /\ pc = "start"
    /\ source \in Qcows
    /\ encrypted \in BOOLEAN
    /\ x = 1 /\ y = 1
    /\ block_offset = 0
    /\ cluster_offset = RegionStart
    /\ i = 0
    /\ cluster_count = 0
    /\ nonce_table = << >>
    /\ digest_count = 0
    /\ digest_table = << >>
    /\ file = EmptyFile

(***************************************************************************)
(* The headers.  The primary header is a placeholder: its directory offset *)
(* is zero until the very end.  Nonces are random and distinct: the n-th   *)
(* one drawn is n.  The protected header is not written again.             *)
(***************************************************************************)
Placeholder == [written |-> TRUE, directory_offset |-> 0]

WriteHeaders ==
    /\ pc = "start"
    /\ \E unreadable \in IF source.faulty THEN SUBSET DOMAIN source.l1 ELSE {{}} :
         cluster_count' = count_clusters(source.l1, unreadable) % U32
    /\ nonce_table' = IF encrypted THEN [k \in 1..cluster_count' |-> k] ELSE << >>
    /\ digest_count' = cluster_count'
    /\ file' = [file EXCEPT
         !.primary = Placeholder,
         !.protected = [written |-> TRUE, cluster_count |-> cluster_count',
                        nonce_table |-> nonce_table']]
    /\ pc' = "l1"
    /\ UNCHANGED << source, encrypted, x, y, block_offset, cluster_offset, i,
                    digest_table >>

(***************************************************************************)
(* The loop over the L1 table.                                             *)
(***************************************************************************)
\* Slip: a missing L2 table is taken for one cluster.
SkipL2Table_short ==
    /\ pc = "l1" /\ x \in DOMAIN source.l1
    /\ source.l1[x] = NoL2 \/ source.faulty
    /\ block_offset' = block_offset + ClusterSize
    /\ x' = x + 1
    /\ UNCHANGED << pc, source, encrypted, y, digest_count >>
    /\ UNCHANGED loopVars

SkipL2Table ==
    /\ pc = "l1" /\ x \in DOMAIN source.l1
    /\ source.l1[x] = NoL2 \/ source.faulty
    /\ block_offset' = block_offset + ClusterSize * L2Entries
    /\ x' = x + 1
    /\ UNCHANGED << pc, source, encrypted, y, digest_count >>
    /\ UNCHANGED loopVars

EnterL2Table ==
    /\ pc = "l1" /\ x \in DOMAIN source.l1
    /\ source.l1[x] # NoL2
    /\ pc' = "l2"
    /\ y' = 1
    /\ UNCHANGED << source, encrypted, x, block_offset, digest_count >>
    /\ UNCHANGED loopVars

(***************************************************************************)
(* The loop over an L2 table.                                              *)
(***************************************************************************)
\* Slip: the last index of a table is off by one.
NextEntry_overrun ==
    /\ block_offset' = block_offset + ClusterSize
    /\ IF y <= L2Entries
       THEN y' = y + 1 /\ UNCHANGED << pc, x >>
       ELSE pc' = "l1" /\ x' = x + 1 /\ y' = 1
    /\ UNCHANGED << source, encrypted, digest_count >>

NextEntry ==
    /\ block_offset' = block_offset + ClusterSize
    /\ IF y < L2Entries
       THEN y' = y + 1 /\ UNCHANGED << pc, x >>
       ELSE pc' = "l1" /\ x' = x + 1 /\ y' = 1
    /\ UNCHANGED << source, encrypted, digest_count >>

CurrentEntry == source.l1[x][y]

\* Slip: the last block is not cut.
BlockData_uncut == read_contents(CurrentEntry)

\* The bytes of the current block: the last one is cut at the end of the
\* disk.  The length is computed in u64 and wraps past the end.
BlockData ==
    LET contents == read_contents(CurrentEntry)
    IN  IF block_offset + ClusterSize > source.size
        THEN Truncate(contents, (source.size - block_offset) % U64)
        ELSE contents

\* Slip: only the previous entry is compared.
SameDigest_last ==
    {k \in DOMAIN digest_table :
        k = Len(digest_table) /\ digest_table[k].digest = BlockData}

SameDigest == {k \in DOMAIN digest_table : digest_table[k].digest = BlockData}

Record(offset) ==
    digest_table' = Append(digest_table,
        [cluster_offset |-> offset, block_offset |-> block_offset,
         digest |-> BlockData])

SkipEntry ==
    /\ pc = "l2" /\ ~HasContents(CurrentEntry)
    /\ NextEntry
    /\ UNCHANGED loopVars

\* Slips: the nonce is taken from the end of the table; it is consumed; the
\* size field is not counted in the offset.
WriteClusterWith(nonce, nonces, size) ==
    /\ pc = "l2" /\ HasContents(CurrentEntry)
    /\ SameDigest = {}
    /\ encrypted => i < Len(nonce_table)
    /\ Record(cluster_offset)
    /\ file' = [file EXCEPT !.clusters = Append(@,
         [at |-> cluster_offset, data |-> BlockData,
          nonce |-> IF encrypted THEN nonce_table[nonce] ELSE 0])]
    /\ cluster_offset' = cluster_offset + size
    /\ i' = i + 1
    /\ NextEntry
    /\ nonce_table' = SubSeq(nonce_table, 1, nonces)
    /\ UNCHANGED cluster_count

WriteCluster_last_nonce ==
    WriteClusterWith(Len(nonce_table), Len(nonce_table), SizeField + EncodedSize[BlockData])
WriteCluster_consume ==
    WriteClusterWith(i + 1, Len(nonce_table) - 1, SizeField + EncodedSize[BlockData])
WriteCluster_no_size_field ==
    WriteClusterWith(i + 1, Len(nonce_table), EncodedSize[BlockData])

WriteCluster ==
    /\ pc = "l2" /\ HasContents(CurrentEntry)
    /\ SameDigest = {}
    /\ encrypted => i < Len(nonce_table)
    /\ Record(cluster_offset)
    /\ file' = [file EXCEPT !.clusters = Append(@,
         [at |-> cluster_offset, data |-> BlockData,
          nonce |-> IF encrypted THEN nonce_table[i + 1] ELSE 0])]
    /\ cluster_offset' = cluster_offset + SizeField + EncodedSize[BlockData]
    /\ i' = i + 1
    /\ NextEntry
    /\ UNCHANGED << cluster_count, nonce_table >>

\* Slips: a reused cluster is recorded at the next offset; it is not discounted.
ReuseCluster_next_offset ==
    /\ pc = "l2" /\ HasContents(CurrentEntry)
    /\ SameDigest # {}
    /\ Record(cluster_offset)
    /\ NextEntry
    /\ UNCHANGED << cluster_offset, i, file, cluster_count, nonce_table >>
ReuseCluster_no_discount ==
    /\ pc = "l2" /\ HasContents(CurrentEntry)
    /\ \E k \in SameDigest : Record(digest_table[k].cluster_offset)
    /\ NextEntry
    /\ UNCHANGED << cluster_offset, i, file, cluster_count, nonce_table >>

ReuseCluster ==
    /\ pc = "l2" /\ HasContents(CurrentEntry)
    /\ \E k \in SameDigest :
         /\ \A j \in SameDigest : k <= j
         /\ Record(digest_table[k].cluster_offset)
    /\ cluster_count' = (cluster_count - 1) % U32
    /\ nonce_table' =
         IF nonce_table = << >> THEN << >>
         ELSE SubSeq(nonce_table, 1, Len(nonce_table) - 1)
    /\ NextEntry
    /\ UNCHANGED << cluster_offset, i, file >>

\* nonce_table[i] with i out of bounds.
NonceOutOfBounds ==
    /\ pc = "l2" /\ HasContents(CurrentEntry)
    /\ SameDigest = {}
    /\ encrypted /\ i >= Len(nonce_table)
    /\ pc' = "panic"
    /\ UNCHANGED << source, encrypted, x, y, block_offset, digest_count >>
    /\ UNCHANGED loopVars

(***************************************************************************)
(* The trailing sections and the completed primary header.                 *)
(***************************************************************************)
finishVars == << source, encrypted, x, y, block_offset, cluster_offset, i,
                 cluster_count, nonce_table, digest_count, digest_table >>

\* A digest table is a u32 count and 48 bytes for each entry, and a tag of 16
\* bytes when it is encrypted.
DirectoryOffset ==
    cluster_offset + 4 + 48 * Len(digest_table) + (IF encrypted THEN 16 ELSE 0)

\* Slip: the primary header is completed as soon as its values are known.
WriteDigestTable_header_first ==
    /\ pc = "l1" /\ x \notin DOMAIN source.l1
    /\ file' = [file EXCEPT !.digests =
         [written |-> TRUE, at |-> cluster_offset, digest_count |-> digest_count,
          digest_table |-> digest_table],
         !.primary = [written |-> TRUE, directory_offset |-> DirectoryOffset]]
    /\ pc' = "directory"
    /\ UNCHANGED finishVars

WriteDigestTable ==
    /\ pc = "l1" /\ x \notin DOMAIN source.l1
    /\ file' = [file EXCEPT !.digests =
         [written |-> TRUE, at |-> cluster_offset, digest_count |-> digest_count,
          digest_table |-> digest_table]]
    /\ pc' = "directory"
    /\ UNCHANGED finishVars

WriteDirectory ==
    /\ pc = "directory"
    /\ file' = [file EXCEPT !.directory =
         [written |-> TRUE, at |-> DirectoryOffset,
          digest_table_offset |-> file.digests.at]]
    /\ pc' = "primary"
    /\ UNCHANGED finishVars

WritePrimaryHeader ==
    /\ pc = "primary"
    /\ file' = [file EXCEPT !.primary =
         [written |-> TRUE, directory_offset |-> file.directory.at]]
    /\ pc' = "done"
    /\ UNCHANGED finishVars

\* Any of the calls that end in `?` fails, or the process is killed.
Fail ==
    /\ pc \in Running
    /\ pc' = "failed"
    /\ UNCHANGED finishVars /\ UNCHANGED file

Step ==
    \/ WriteHeaders
    \/ SkipL2Table \/ EnterL2Table
    \/ SkipEntry \/ WriteCluster \/ ReuseCluster \/ NonceOutOfBounds
    \/ WriteDigestTable \/ WriteDirectory \/ WritePrimaryHeader

Next == Step \/ Fail

Spec == Init /\ [][Next]_vars
(***************************************************************************)
(* Properties.                                                             *)
(***************************************************************************)

\* Every variable keeps its type, and the file holds sections of its format.
TypeOK ==
    /\ pc \in Running \cup {"done", "failed", "panic"}
    /\ source \in Qcows
    /\ encrypted \in BOOLEAN
    /\ x \in 1..Len(source.l1) + 1
    /\ y \in 1..L2Entries
    /\ block_offset \in Nat /\ cluster_offset \in Nat /\ i \in Nat
    /\ cluster_count \in Nat /\ digest_count \in Nat
    /\ nonce_table \in Seq(Nat)
    /\ digest_table \in Seq(DigestTableEntry)
    /\ file.clusters \in Seq(Cluster)
    /\ {"primary", "protected", "clusters", "digests", "directory"} = DOMAIN file

\* The positions the loops have passed.
Visited ==
    {p \in (DOMAIN source.l1) \X (1..L2Entries) :
        \/ p[1] < x
        \/ p[1] = x /\ p[2] < y}

\* What a block of the source must look like in the image: the bytes read
\* through its entry, cut at the end of the disk.
SourceBlock(p) ==
    CutAtEnd(read_contents(source.l1[p[1]][p[2]]), BlockOffset(p[1], p[2]),
             source.size, ClusterSize)

\* The digest table lists exactly the blocks of the visited entries that hold
\* data, each with the digest of its own bytes, in increasing block order: no
\* block is lost, doubled or given the bytes of another across skipped L2
\* tables, holes and reused clusters.  Of a faulty disk tables may be missing.
TableMatchesSource == ~source.faulty =>
    /\ {<< e.block_offset, e.digest >> : e \in {digest_table[k] : k \in DOMAIN digest_table}}
         = {<< BlockOffset(p[1], p[2]), SourceBlock(p) >> : p \in
              {q \in Visited : source.l1[q[1]] # NoL2 /\ HasContents(source.l1[q[1]][q[2]])}}
    /\ \A j, k \in DOMAIN digest_table :
         j < k => digest_table[j].block_offset < digest_table[k].block_offset

\* Every digest entry names a cluster that is in the file already and that
\* encodes the very bytes of the entry's digest, also when the cluster was
\* written for an earlier block.
DigestsResolve ==
    \A k \in DOMAIN digest_table : \E c \in DOMAIN file.clusters :
        /\ file.clusters[c].at = digest_table[k].cluster_offset
        /\ file.clusters[c].data = digest_table[k].digest

\* A reader finds the right nonce: it has only the protected header as it is
\* on disk and counts distinct cluster offsets, while the builder counted the
\* clusters it wrote and shortened its own nonce table on the way.
NonceAgreement ==
    encrypted => \A k \in DOMAIN digest_table, c \in DOMAIN file.clusters :
        file.clusters[c].at = digest_table[k].cluster_offset =>
            file.clusters[c].nonce = file.protected.nonce_table[
                ClusterOrdinal(digest_table, digest_table[k].cluster_offset) + 1]

\* No cluster finds the nonce table exhausted: one nonce is dropped for each
\* reused cluster, and the count the table was sized with still covers the rest,
\* unless tables were readable in the second traversal only.
NoPanic == pc = "panic" => source.faulty

\* The cluster region is laid out as stream_write's doc requires: clusters
\* back to back from the end of the headers, in the order in which the digest
\* table first names them.
StreamOrder ==
    /\ \A c \in DOMAIN file.clusters :
         file.clusters[c].at =
            IF c = 1 THEN RegionStart ELSE ClusterEnd(file.clusters[c - 1])
    /\ \A j, k \in DOMAIN digest_table :
         /\ FirstSeen(digest_table, j) /\ FirstSeen(digest_table, k) /\ j < k
         => digest_table[j].cluster_offset < digest_table[k].cluster_offset

\* Deduplication is complete: no two clusters of an image encode equal blocks.
Deduplicated ==
    \A c, d \in DOMAIN file.clusters :
        file.clusters[c].data = file.clusters[d].data => c = d

\* The finished handle agrees with what was written: as many clusters and
\* nonces as there are clusters in the file, as many digests as entries.
HandleCounts ==
    pc = "done" /\ ~source.faulty =>
        /\ cluster_count = Len(file.clusters)
        /\ encrypted => Len(nonce_table) = Len(file.clusters)
        /\ file.digests.digest_count = Len(file.digests.digest_table)

\* Whenever the process may die: a primary header that names a directory is
\* found only in a complete file, with each section where its pointer says.
PrimaryHeaderLast ==
    file.primary # Absent /\ file.primary # Placeholder =>
        /\ file.directory.written /\ file.digests.written /\ file.protected.written
        /\ file.primary.directory_offset = file.directory.at
        /\ file.directory.digest_table_offset = file.digests.at
        /\ file.digests.at =
             IF file.clusters = << >> THEN RegionStart
             ELSE ClusterEnd(file.clusters[Len(file.clusters)])
        /\ file.digests.digest_table = digest_table

\* The image a reader loads from a finished file.
LoadedImage ==
    [ size |-> source.size, encrypted |-> encrypted,
      nonce_table |-> file.protected.nonce_table,
      clusters |-> file.clusters,
      digest_table |-> file.digests.digest_table ]

\* A finished file is an image as its readers expect one: what the builder dropped
\* on the way, nonces and the end of the last block, no reader misses.
ImageIsWellMade == pc = "done" /\ ~source.faulty => WellMade(LoadedImage, ClusterSize)
=============================================================================
