-------------------------------- MODULE Qcow --------------------------------
(***************************************************************************)
(* The qcow2 tables a goldboot build reads (goldboot-image/src/qcow): what *)
(* an L2 entry says about a cluster, which entries count as allocated, and *)
(* the bytes read_contents returns for one.                                *)
(*                                                                         *)
(* A cluster's bytes are a sequence of ClusterSize members of Bytes.  The  *)
(* data of the host file is the constant HostData, indexed by the host     *)
(* offsets an entry may name; for a compressed entry HostData is what the  *)
(* decompressor yields there.  Masks and shifts of the 64-bit entries are  *)
(* abstracted to the fields they extract.                                  *)
(***************************************************************************)
EXTENDS Integers, Sequences, FiniteSets

CONSTANTS
    Bytes,        \* values a unit of guest data may take
    ZeroByte,     \* the unit of which a zero cluster consists
    ClusterSize,  \* units per cluster: header.cluster_size()
    L2Entries,    \* entries per L2 table: header.l2_entries_per_cluster()
    HostOffsets,  \* offsets of data clusters in the host file
    HostData      \* HostOffsets -> bytes stored there

Clusters == [1..ClusterSize -> Bytes]

ASSUME QcowAssumption ==
    /\ ZeroByte \in Bytes
    /\ ClusterSize \in Nat \ {0}
    /\ L2Entries \in Nat \ {0}
    /\ HostOffsets \subseteq Nat \ {0}
    /\ HostData \in [HostOffsets -> Clusters]

(***************************************************************************)
(* L2 entries.  host = 0 is the null offset.  A compressed entry has no    *)
(* zero flag (the bit belongs to its descriptor) and never the null offset.*)
(***************************************************************************)
L2Entry ==
    { e \in [compressed : BOOLEAN, all_zeroes : BOOLEAN, is_used : BOOLEAN,
             host : HostOffsets \cup {0}] :
        e.compressed => e.host # 0 /\ ~e.all_zeroes /\ ~e.is_used }

L2Table == [1..L2Entries -> L2Entry]

\* An L1 entry with a null l2_offset: there is no L2 table.
NoL2 == << >>

is_allocated(e) ==
    e.compressed \/ e.host # 0 \/ (e.all_zeroes /\ e.is_used)

\* read_contents returns Ok(Some(_)) for e, rather than Ok(None).
HasContents(e) ==
    \/ e.compressed
    \/ e.all_zeroes /\ e.is_used
    \/ e.host # 0

ZeroCluster == [k \in 1..ClusterSize |-> ZeroByte]

read_contents(e) ==
    IF ~e.compressed /\ e.all_zeroes /\ e.is_used
    THEN ZeroCluster
    ELSE HostData[e.host]

(***************************************************************************)
(* Positions of an L1 table: pairs of an L1 and an L2 index.  read_l2      *)
(* returns None for a null entry and for an L2 table that cannot be read,  *)
(* so a traversal sees the tables at the L1 indices outside unreadable.    *)
(***************************************************************************)
L2Visible(l1, unreadable) ==
    {x \in DOMAIN l1 : l1[x] # NoL2} \ unreadable

AllocatedIn(l1, visible) ==
    {p \in visible \X (1..L2Entries) : is_allocated(l1[p[1]][p[2]])}

count_clusters(l1, unreadable) ==
    Cardinality(AllocatedIn(l1, L2Visible(l1, unreadable)))

\* Offset of a position in the virtual disk.
BlockOffset(x, y) == ((x - 1) * L2Entries + (y - 1)) * ClusterSize
=============================================================================
