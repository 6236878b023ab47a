----------------------------- MODULE ImageWrite -----------------------------
(***************************************************************************)
(* ImageHandle::write, stream_write and verify on one destination, which   *)
(* is a regular file or a block device, with attempts that fail or are     *)
(* killed half-way and later attempts over what they left.                 *)
(*                                                                         *)
(* The destination is the sequence dest: the unit at offset o is           *)
(* dest[o + 1].  Each block takes two steps, as in the code: it is read    *)
(* and hashed, and then, if its hash differs from the digest, written.     *)
(***************************************************************************)
EXTENDS ImageFormat

CONSTANTS
    Bytes,       \* values a unit of data may take
    ZeroByte,    \* what set_len fills a file with
    BlockSize,   \* protected_header.block_size
    Images,      \* the images that may be written, as loaded
    Dests,       \* initial destinations: records [is_file, bytes]
    MaxAborts    \* bound on the attempts that fail

ASSUME ImageWriteAssumption ==
    /\ ZeroByte \in Bytes
    /\ BlockSize \in Nat \ {0}
    /\ MaxAborts \in Nat
    /\ Data \subseteq UNION {[1..n -> Bytes] : n \in 0..BlockSize}
    /\ \A img \in Images :
         /\ img.size \in Nat \ {0}
         /\ img.digest_table \in Seq(DigestTableEntry)
         /\ img.clusters \in Seq(Cluster)
         /\ \A k \in DOMAIN img.digest_table :    \* the last block is cut
              img.digest_table[k].block_offset + Len(img.digest_table[k].digest) <= img.size
         /\ \A j, k \in DOMAIN img.digest_table : j < k =>    \* one entry for a block
              \/ img.digest_table[j].block_offset + BlockSize <= img.digest_table[k].block_offset
              \/ img.digest_table[k].block_offset + BlockSize <= img.digest_table[j].block_offset
    /\ \A d \in Dests : d.is_file \in BOOLEAN /\ d.bytes \in Seq(Bytes)

\* The clusters of every image lie in the order of their offsets, as from_qcow
\* writes them and replacing a whole image by another leaves them, and none is so
\* large that its size field is taken for damage.
RegionsInOrder ==
    \A img \in Images :
        /\ InOrder(img.clusters)
        /\ \A c \in DOMAIN img.clusters : EncodedSize[img.clusters[c].data] <= 4 * BlockSize

VARIABLES
    image,     \* the handle: size, encrypted, nonce_table, clusters, digest_table
    is_file,   \* the destination is a regular file
    dest,      \* its contents
    op,        \* the call under way: "idle", "write", "stream" or "verify"
    todo,      \* entries still to visit, the first one next
    offsets,   \* stream_write: cluster offsets still to come
    stream_pos,\* stream_write: position in the cluster region
    writing,   \* the current block was found dirty and is being written
    states,    \* what progress reported for each entry
    outcome,   \* how the last write or stream_write ended
    aborts     \* attempts that failed so far

vars == << image, is_file, dest, op, todo, offsets, stream_pos, writing,
           states, outcome, aborts >>

Entry(k) == image.digest_table[k]
Entries == DOMAIN image.digest_table
UniqueOffsets == {Entry(k).cluster_offset : k \in Entries}

Init ==
    /\ image \in Images
    /\ \E d \in Dests : is_file = d.is_file /\ dest = d.bytes
    /\ op = "idle"
    /\ todo = {}
    /\ offsets = {}
    /\ stream_pos = 0
    /\ writing = FALSE
    /\ states = [k \in Entries |-> "pending"]
    /\ outcome = "none"
    /\ aborts = 0

(***************************************************************************)
(* The destination.                                                        *)
(***************************************************************************)

\* read_exact of a whole block at offset o succeeds and finds d: a hash of
\* fewer bytes is the hash of another block.
ReadsAs(o, d) ==
    /\ o + BlockSize <= Len(dest)
    /\ SubSeq(dest, o + 1, o + BlockSize) = d

\* set_len: a regular file that is too short grows with zeros.
Extended(bytes) ==
    IF is_file /\ Len(bytes) < image.size
    THEN [n \in 1..image.size |-> IF n <= Len(bytes) THEN bytes[n] ELSE ZeroByte]
    ELSE bytes

\* dest once d is written at offset o; a file grows where needed.
Overwritten(o, d) ==
    IF d = << >> THEN dest ELSE
    [n \in 1..(IF o + Len(d) > Len(dest) THEN o + Len(d) ELSE Len(dest)) |->
        IF n \in o+1..o+Len(d) THEN d[n - o]
        ELSE IF n <= Len(dest) THEN dest[n] ELSE ZeroByte]

\* A device cannot grow.
Fits(o, d) == is_file \/ o + Len(d) <= Len(dest)

(***************************************************************************)
(* Decoding a cluster: decryption succeeds only with the nonce it was      *)
(* encrypted with, which is looked up by the ordinal of its offset.  Where *)
(* no cluster begins, the bytes found do not decode.                       *)
(***************************************************************************)
ClustersAt(offset) == {c \in DOMAIN image.clusters : image.clusters[c].at = offset}

Decodes(c, offset) ==
    image.encrypted =>
        LET n == ClusterOrdinal(image.digest_table, offset)
        IN  /\ n < Len(image.nonce_table)
            /\ image.clusters[c].nonce = image.nonce_table[n + 1]

\* The bytes of entry k's cluster, read afresh.
Plain(k) ==
    image.clusters[CHOOSE c \in ClustersAt(Entry(k).cluster_offset) : TRUE].data

\* Slip: the bytes past the end of the disk are not dropped.
ToWrite_whole(k) == Plain(k)

\* write puts down all of the cluster, stream_write what fits on the disk.
ToWrite(k) ==
    IF op = "stream"
    THEN Truncate(Plain(k), IF image.size < Entry(k).block_offset THEN 0
                            ELSE image.size - Entry(k).block_offset)
    ELSE Plain(k)

(***************************************************************************)
(* The calls.                                                              *)
(***************************************************************************)
Begin(call) ==
    /\ op = "idle"
    /\ op' = call
    /\ states' = [k \in Entries |-> "pending"]
    /\ UNCHANGED << image, is_file, writing, aborts >>

\* Slip: indices from 0.
ToVisit_from_zero == {k - 1 : k \in Entries}

\* Every entry, in the order of the table.
ToVisit == Entries
IsFirst(k) == k \in todo /\ \A j \in todo : k <= j

BeginWriteOver(bytes) ==
    /\ Begin("write")
    /\ dest' = Extended(bytes)
    /\ todo' = ToVisit
    /\ outcome' = "busy"
    /\ UNCHANGED << offsets, stream_pos >>

\* Slip: a file is not truncated.
BeginWrite_keep == BeginWriteOver(dest)

\* write opens the destination with truncate(true), which empties a regular
\* file and does nothing to a block device.
BeginWrite == BeginWriteOver(IF is_file THEN << >> ELSE dest)

BeginStreamOver(bytes) ==
    /\ Begin("stream")
    /\ dest' = Extended(bytes)
    /\ todo' = {}
    /\ offsets' = UniqueOffsets
    /\ stream_pos' = RegionStart
    /\ outcome' = "busy"

\* Slip: the destination is truncated, as in write.
BeginStream_truncate == BeginStreamOver(IF is_file THEN << >> ELSE dest)

\* stream_write keeps what is there.
BeginStream == BeginStreamOver(dest)

BeginVerify ==
    /\ Begin("verify")
    /\ todo' = ToVisit
    /\ UNCHANGED << dest, offsets, stream_pos, outcome >>

(***************************************************************************)
(* stream_write takes the next cluster of the region: it skips forward to  *)
(* its offset, refuses one that lies behind or is too large, and places it *)
(* at every block that refers to it.                                       *)
(***************************************************************************)
IsNext(offset) == offset \in offsets /\ \A o \in offsets : offset <= o

CanTake(c, offset) ==
    /\ offset >= stream_pos
    /\ EncodedSize[image.clusters[c].data] <= 4 * BlockSize
    /\ Decodes(c, offset)

NextClusterEndingAt(offset, past) ==
    /\ op = "stream" /\ todo = {} /\ IsNext(offset)
    /\ \E c \in ClustersAt(offset) :
         /\ CanTake(c, offset)
         /\ stream_pos' = ClusterEnd(image.clusters[c]) + past
    /\ offsets' = offsets \ {offset}
    /\ todo' = {k \in Entries : Entry(k).cluster_offset = offset}
    /\ UNCHANGED << image, is_file, dest, op, writing, states, outcome, aborts >>

\* Slip: the size field is counted twice.
NextCluster_size_twice(offset) == NextClusterEndingAt(offset, SizeField)

NextCluster(offset) == NextClusterEndingAt(offset, 0)

(***************************************************************************)
(* One block of write or stream_write.                                     *)
(***************************************************************************)
Writes == op \in {"write", "stream"}

is_dirty(k) == ~ReadsAs(Entry(k).block_offset, Entry(k).digest)

SkipClean(k) ==
    /\ Writes /\ IsFirst(k) /\ ~writing
    /\ ~is_dirty(k)
    /\ states' = [states EXCEPT ![k] = "clean"]
    /\ todo' = todo \ {k}
    /\ UNCHANGED << image, is_file, dest, op, offsets, stream_pos, writing,
                    outcome, aborts >>

FindDirty(k) ==
    /\ Writes /\ IsFirst(k) /\ ~writing
    /\ is_dirty(k)
    /\ states' = [states EXCEPT ![k] = "writing"]
    /\ writing' = TRUE
    /\ UNCHANGED << image, is_file, dest, op, todo, offsets, stream_pos,
                    outcome, aborts >>

Readable(k) ==
    \E c \in ClustersAt(Entry(k).cluster_offset) : Decodes(c, Entry(k).cluster_offset)

WriteBlockAfter(k, skip) ==
    /\ writing /\ IsFirst(k)
    /\ Readable(k)
    /\ Fits(Entry(k).block_offset + skip, ToWrite(k))
    /\ dest' = Overwritten(Entry(k).block_offset + skip, ToWrite(k))
    /\ states' = [states EXCEPT ![k] = "written"]
    /\ todo' = todo \ {k}
    /\ writing' = FALSE
    /\ UNCHANGED << image, is_file, op, offsets, stream_pos, outcome, aborts >>

\* Slip: the position is where reading the block left it.
WriteBlock_no_seek(k) == WriteBlockAfter(k, BlockSize)

WriteBlock(k) == WriteBlockAfter(k, 0)

VerifyBlockAs(k, matches) ==
    /\ op = "verify" /\ IsFirst(k)
    /\ states' = [states EXCEPT ![k] = IF matches THEN "ok" ELSE "bad"]
    /\ todo' = todo \ {k}
    /\ UNCHANGED << image, is_file, dest, op, offsets, stream_pos, writing,
                    outcome, aborts >>

\* Slip: a block that cannot be read is passed over.
VerifyBlock_unreadable(k) ==
    VerifyBlockAs(k, Entry(k).block_offset + BlockSize <= Len(dest) => ~is_dirty(k))

VerifyBlock(k) == VerifyBlockAs(k, ~is_dirty(k))

\* Slip: stream_write returns after the first cluster.
Finish_early ==
    /\ op # "idle" /\ todo = {}
    /\ op' = "idle"
    /\ outcome' = IF Writes THEN "ok" ELSE outcome
    /\ UNCHANGED << image, is_file, dest, todo, offsets, stream_pos, writing,
                    states, aborts >>

Finish ==
    /\ op # "idle" /\ todo = {}
    /\ op = "stream" => offsets = {}
    /\ op' = "idle"
    /\ outcome' = IF Writes THEN "ok" ELSE outcome
    /\ UNCHANGED << image, is_file, dest, todo, offsets, stream_pos, writing,
                    states, aborts >>

(***************************************************************************)
(* The call returns an error or the process is killed.                     *)
(***************************************************************************)
EndWith(result) ==
    /\ op' = "idle"
    /\ todo' = {}
    /\ offsets' = {}
    /\ writing' = FALSE
    /\ outcome' = IF Writes THEN result ELSE outcome
    /\ UNCHANGED << image, is_file, stream_pos, states >>

\* A block that was being written may be there in part.
PartlyWritten(k) ==
    \E n \in 0..Len(ToWrite(k)) :
        LET d == Truncate(ToWrite(k), n)
        IN  /\ Fits(Entry(k).block_offset, d)
            /\ dest' = Overwritten(Entry(k).block_offset, d)

Broken ==
    /\ op # "idle"
    /\ EndWith("err")
    /\ IF writing /\ \E k \in todo : IsFirst(k) /\ Readable(k)
       THEN \E k \in todo : IsFirst(k) /\ PartlyWritten(k)
       ELSE UNCHANGED dest

\* An I/O error, a stream that ends early, a crash: they need not happen, and
\* are bounded.
Abort ==
    /\ aborts < MaxAborts
    /\ Broken
    /\ aborts' = aborts + 1

\* A device that is too small fails every time.
DeviceFull ==
    /\ \E k \in todo :
         /\ writing /\ IsFirst(k) /\ Readable(k)
         /\ ~Fits(Entry(k).block_offset, ToWrite(k))
    /\ Broken
    /\ UNCHANGED aborts

\* The image itself is at fault: write finds a cluster that does not decode;
\* stream_write finds the next cluster behind its position, too large, not
\* decoding, or no cluster at all where one should start.
Refuse ==
    /\ \/ op = "write" /\ writing /\ \E k \in todo : IsFirst(k) /\ ~Readable(k)
       \/ /\ op = "stream" /\ todo = {}
          /\ \E offset \in offsets :
               /\ IsNext(offset)
               /\ \A c \in ClustersAt(offset) : ~CanTake(c, offset)
    /\ EndWith("refused")
    /\ UNCHANGED << dest, aborts >>

Next ==
    \/ BeginWrite \/ BeginStream \/ BeginVerify
    \/ \E offset \in offsets : NextCluster(offset)
    \/ \E k \in todo : SkipClean(k) \/ FindDirty(k) \/ WriteBlock(k) \/ VerifyBlock(k)
    \/ Finish \/ Abort \/ DeviceFull \/ Refuse

Spec == Init /\ [][Next]_vars

(***************************************************************************)
(* Properties.                                                             *)
(***************************************************************************)

\* Every variable keeps its type.
TypeOK ==
    /\ image \in Images /\ is_file \in BOOLEAN
    /\ dest \in Seq(Bytes)
    /\ op \in {"idle", "write", "stream", "verify"}
    /\ todo \subseteq Entries
    /\ offsets \subseteq UniqueOffsets /\ stream_pos \in Nat
    /\ writing \in BOOLEAN
    /\ states \in [Entries -> {"pending", "clean", "writing", "written", "ok", "bad"}]
    /\ outcome \in {"none", "busy", "ok", "err", "refused"}
    /\ aborts \in 0..MaxAborts

\* The destination holds the bytes of the block of entry k.
Holds(k) ==
    \A n \in 1..Len(Entry(k).digest) :
        /\ Entry(k).block_offset + n <= Len(dest)
        /\ dest[Entry(k).block_offset + n] = Entry(k).digest[n]

\* The clusters of the handle are those its manifest describes: not so when they
\* were fetched apart and the image was replaced in between.
OfOneVersion ==
    \A k \in Entries : \E c \in ClustersAt(Entry(k).cluster_offset) :
        /\ Decodes(c, Entry(k).cluster_offset)
        /\ Plain(k) = Entry(k).digest

\* What progress tells the user is true at every moment of every call, also of
\* a call that comes after an aborted one: a block reported clean, written or
\* verified is on the destination, and a call reports success only when every
\* block is; of an image of one version, that is: clusters are not compared
\* with the digests on the way, and verify finds the others out.
ReportsTrue ==
  OfOneVersion =>
    /\ \A k \in Entries : states[k] \in {"clean", "written", "ok"} => Holds(k)
    /\ outcome = "ok" => \A k \in Entries : Holds(k)

\* No call destroys data it has no business with: on a device, and in
\* stream_write, a unit changes only inside a block that the destination did
\* not hold, so an interrupted restore can be repeated without undoing it and
\* the space after the image survives.
OnlyLostBlocksChange ==
    [][ OfOneVersion /\ ~(is_file /\ op = "idle" /\ op' = "write") =>
          /\ Len(dest') >= Len(dest)
          /\ \A n \in 1..Len(dest) : dest'[n] # dest[n] =>
               \E k \in Entries :
                  /\ ~Holds(k)
                  /\ n - Entry(k).block_offset \in 1..Len(Entry(k).digest) ]_vars

\* What a guest finds at offset n - 1 of the image: the byte of the block that
\* covers it, and zero where there is none.
ImageByte(n) ==
    LET covering == {k \in Entries : n - Entry(k).block_offset \in 1..Len(Entry(k).digest)}
    IN  IF covering = {} THEN ZeroByte
        ELSE LET k == CHOOSE j \in covering : TRUE
             IN  Entry(k).digest[n - Entry(k).block_offset]

\* write makes a regular file the exact disk, holes and length included,
\* whatever the file held before: hold on to it until the next call.
WrittenFileIsExact ==
    OfOneVersion /\ is_file /\ op = "write" /\ todo = {} =>
        /\ Len(dest) = image.size
        /\ \A n \in 1..image.size : dest[n] = ImageByte(n)

\* verify misses nothing: when it has passed over every entry, a block the
\* destination does not hold has been reported bad.
VerifyFindsLoss ==
    op = "verify" /\ todo = {} =>
        \A k \in Entries : ~Holds(k) => states[k] = "bad"

\* No image that from_qcow writes is refused: whatever blocks share clusters,
\* the next cluster is never behind the stream's position, and the nonce at its
\* ordinal is the one it was encrypted with.
ImagesAccepted == OfOneVersion => outcome # "refused"

\* The blocks of the image are all that stream_write may touch, and nothing
\* past the end of the disk, even when the clusters it is sent belong to another
\* version of the image and are longer than the blocks they are placed at.
StreamStaysInsideDisk ==
    [][ op = "stream" =>
          \A n \in 1..Len(dest) : dest'[n] # dest[n] => n <= image.size ]_vars

\* The calls implement Restore, for an image of one version.
RestoreSpec ==
    INSTANCE Restore WITH
        blocks <- Entries,
        good <- {k \in Entries : Holds(k)},
        erasable <- is_file,
        attempt <- IF outcome = "refused" THEN "err" ELSE outcome
Restores ==
    /\ OfOneVersion => RestoreSpec!Init
    /\ [][OfOneVersion => RestoreSpec!Next]_(RestoreSpec!vars)

(***************************************************************************)
(* Statements of the repository that the code contradicts.                 *)
(***************************************************************************)

\* lib.rs, ImageHandle: "If a block does not have an associated cluster, that
\* block is zero."  On a block device it keeps what it held before.
HolesReadZero ==
    outcome = "ok" => \A n \in 1..image.size : dest[n] = ImageByte(n)
=============================================================================
