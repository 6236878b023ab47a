----------------------------- MODULE ImageFormat -----------------------------
(***************************************************************************)
(* The parts of a goldboot image (.gb) that the builder writes and every   *)
(* reader relies on: digest entries, clusters, and the rule by which a     *)
(* reader finds the nonce a cluster was encrypted with.                    *)
(*                                                                         *)
(* A digest stands for the bytes it was computed from: SHA-256 is taken to *)
(* be free of collisions, so equal digests mean equal bytes and lengths.   *)
(***************************************************************************)
EXTENDS Integers, Sequences, FiniteSets

CONSTANTS
    Data,         \* uncompressed blocks: sequences of bytes
    EncodedSize,  \* Data -> bytes of a block once compressed and encrypted
    RegionStart   \* offset just after the two headers

ASSUME ImageFormatAssumption ==
    /\ EncodedSize \in [Data -> Nat]
    /\ RegionStart \in Nat \ {0}

SizeField == 4    \* each cluster is preceded by its size, a u32

DigestTableEntry ==
    [cluster_offset : Nat, block_offset : Nat, digest : Data]

\* A cluster record: its offset in the file, the block it encodes and the
\* nonce it was encrypted under (0 when it was not encrypted).
Cluster == [at : Nat, data : Data, nonce : Nat]

ClusterEnd(c) == c.at + SizeField + EncodedSize[c.data]

OffsetsIn(table, n) == {table[k].cluster_offset : k \in 1..n}

(***************************************************************************)
(* build_cluster_ordinal_map: position of a cluster offset among the       *)
(* distinct ones in first-seen order, counted from 0.                      *)
(***************************************************************************)
FirstSeen(table, k) ==
    \A j \in 1..k-1 : table[j].cluster_offset # table[k].cluster_offset

ClusterOrdinal(table, offset) ==
    Cardinality({k \in DOMAIN table :
        /\ FirstSeen(table, k)
        /\ \A j \in 1..k : table[j].cluster_offset # offset})

(***************************************************************************)
(* What a writer may rely on in an image it is handed: a record of size,   *)
(* encrypted, nonce_table, clusters and digest_table.                      *)
(***************************************************************************)

\* The cluster region can be read in one pass: clusters follow one another from
\* the end of the headers.
InOrder(clusters) ==
    /\ \A c \in DOMAIN clusters : clusters[c].at >= RegionStart
    /\ \A c, d \in DOMAIN clusters : c < d => ClusterEnd(clusters[c]) <= clusters[d].at

\* Some cluster stands at the offset of the entry e, encodes the bytes of its digest
\* and decodes with the nonce a reader derives.
Resolves(img, e) ==
    \E c \in DOMAIN img.clusters :
        /\ img.clusters[c].at = e.cluster_offset
        /\ img.clusters[c].data = e.digest
        /\ img.encrypted =>
             LET n == ClusterOrdinal(img.digest_table, e.cluster_offset)
             IN  n < Len(img.nonce_table) /\ img.clusters[c].nonce = img.nonce_table[n + 1]

\* The blocks of the image lie apart and within the disk, and each is found.
WellMade(img, block_size) ==
    /\ img.size \in Nat \ {0}
    /\ img.digest_table \in Seq(DigestTableEntry)
    /\ img.clusters \in Seq(Cluster)
    /\ InOrder(img.clusters)
    /\ \A k \in DOMAIN img.digest_table :
         /\ img.digest_table[k].block_offset + Len(img.digest_table[k].digest) <= img.size
         /\ Resolves(img, img.digest_table[k])
    /\ \A j, k \in DOMAIN img.digest_table : j < k =>
         img.digest_table[j].block_offset + block_size <= img.digest_table[k].block_offset

\* A length of at most n: what is left of d after Vec::truncate(n).
Truncate(d, n) == IF n < Len(d) THEN SubSeq(d, 1, n) ELSE d

\* The part of the block d at offset b that lies inside a disk of the given size.
CutAtEnd(d, b, size, block_size) ==
    IF b + block_size > size THEN Truncate(d, size - b) ELSE d
=============================================================================
