-------------------------- MODULE ImageBuildProofs --------------------------
(***************************************************************************)
(* Proofs about ImageBuild for every disk, every cluster size and every    *)
(* encoding: its type invariant, and that the image it writes is readable  *)
(* at every moment of its construction.                                    *)
(***************************************************************************)
EXTENDS ImageBuild, FiniteSetTheorems, SequenceTheorems, TLAPS

(***************************************************************************)
(* The loop over an L2 table runs only where there is one.                 *)
(***************************************************************************)
InTable ==
    pc = "l2" => x \in DOMAIN source.l1 /\ source.l1[x] # NoL2

TypeInv == TypeOK /\ InTable

\* What the assumptions say of the disk under conversion.
LEMMA SourceType ==
    ASSUME TypeOK
    PROVE  /\ source.size \in Nat \ {0}
           /\ source.l1 \in Seq(L2Table \cup {NoL2})
           /\ Len(source.l1) \in Nat
           /\ DOMAIN source.l1 = 1..Len(source.l1)
BY ImageBuildAssumption DEF TypeOK

\* The entry the loop stands at is an L2 entry.
LEMMA CurrentEntryType ==
    ASSUME TypeInv, pc = "l2"
    PROVE  CurrentEntry \in L2Entry
<1>1. source.l1[x] \in L2Table
  BY SourceType DEF TypeInv, InTable
<1>2. y \in 1..L2Entries
  BY DEF TypeInv, TypeOK
<1>3. QED
  BY <1>1, <1>2 DEF CurrentEntry, L2Table

\* Cutting a block leaves a block.
LEMMA TruncateType ==
    ASSUME NEW d \in Clusters, NEW n \in Nat
    PROVE  Truncate(d, n) \in Data
<1>1. d \in Seq(Bytes) /\ Len(d) = ClusterSize
  BY QcowAssumption, LenProperties DEF Clusters
<1>2. CASE n < Len(d)
  <2>1. SubSeq(d, 1, n) \in Seq(Bytes) /\ Len(SubSeq(d, 1, n)) = n
    BY <1>1, <1>2, QcowAssumption
  <2>2. SubSeq(d, 1, n) \in [1..n -> Bytes]
    BY <2>1, LenProperties
  <2>3. n \in 0..ClusterSize
    BY <1>1, <1>2, QcowAssumption
  <2>4. QED
    BY <1>2, <2>2, <2>3, ImageBuildAssumption DEF Truncate
<1>3. CASE ~(n < Len(d))
  <2>1. d \in [1..ClusterSize -> Bytes] /\ ClusterSize \in 0..ClusterSize
    BY QcowAssumption DEF Clusters
  <2>2. QED
    BY <1>3, <2>1, ImageBuildAssumption DEF Truncate
<1>4. QED
  BY <1>2, <1>3

\* An entry with contents yields a whole cluster.
LEMMA ContentsType ==
    ASSUME NEW e \in L2Entry, HasContents(e)
    PROVE  read_contents(e) \in Clusters
<1>1. ZeroCluster \in Clusters
  BY QcowAssumption DEF ZeroCluster, Clusters
<1>2. CASE ~e.compressed /\ e.all_zeroes /\ e.is_used
  BY <1>1, <1>2 DEF read_contents
<1>3. CASE ~(~e.compressed /\ e.all_zeroes /\ e.is_used)
  <2>1. e.host \in HostOffsets
    BY <1>3 DEF L2Entry, HasContents
  <2>2. QED
    BY <1>3, <2>1, QcowAssumption DEF read_contents
<1>4. QED
  BY <1>2, <1>3

\* The current block is a block, however it is cut.
LEMMA BlockDataType ==
    ASSUME TypeInv, pc = "l2", HasContents(CurrentEntry)
    PROVE  BlockData \in Data
<1>1. read_contents(CurrentEntry) \in Clusters
  BY CurrentEntryType, ContentsType
<1>2. (source.size - block_offset) % U64 \in Nat
  BY SourceType, ImageBuildAssumption DEF TypeInv, TypeOK
<1>3. CASE block_offset + ClusterSize > source.size
  BY <1>1, <1>2, <1>3, TruncateType DEF BlockData
<1>4. CASE ~(block_offset + ClusterSize > source.size)
  <2>1. ClusterSize \in 0..ClusterSize
    BY QcowAssumption
  <2>2. QED
    BY <1>1, <1>4, <2>1, ImageBuildAssumption DEF BlockData, Clusters
<1>5. QED
  BY <1>3, <1>4

\* Counting the allocated entries of the readable tables yields a number.
LEMMA CountType ==
    ASSUME TypeOK, NEW unreadable
    PROVE  count_clusters(source.l1, unreadable) \in Nat
<1> DEFINE visible == L2Visible(source.l1, unreadable)
<1>1. IsFiniteSet(visible)
  <2>1. IsFiniteSet(1..Len(source.l1))
    BY SourceType, FS_Interval
  <2>2. visible \in SUBSET (1..Len(source.l1))
    BY SourceType DEF L2Visible
  <2>3. QED
    BY <2>1, <2>2, FS_Subset
<1>2. IsFiniteSet(visible \X (1..L2Entries))
  <2>1. IsFiniteSet(1..L2Entries)
    BY FS_Interval, QcowAssumption
  <2>2. QED
    BY <1>1, <2>1, FS_Product
<1>3. AllocatedIn(source.l1, visible) \in SUBSET (visible \X (1..L2Entries))
  BY DEF AllocatedIn
<1>4. IsFiniteSet(AllocatedIn(source.l1, visible))
  BY <1>2, <1>3, FS_Subset
<1>5. QED
  BY <1>4, FS_CardinalityType DEF count_clusters

\* A table covers a whole number of units.
LEMMA SpanType ==
    ASSUME TypeOK
    PROVE  block_offset + ClusterSize * L2Entries \in Nat
<1>1. ClusterSize * L2Entries \in Nat
  BY QcowAssumption
<1>2. QED
  BY <1>1 DEF TypeOK

\* Counters that wrap stay natural numbers.
LEMMA ModType ==
    ASSUME NEW a \in Int, NEW b \in Nat \ {0}
    PROVE  a % b \in Nat
OBVIOUS

\* Moving on to the next entry keeps the loop inside the tables.
LEMMA NextEntryType ==
    ASSUME TypeInv, pc = "l2", NextEntry
    PROVE  /\ pc' \in {"l1", "l2"}
           /\ source' = source /\ encrypted' = encrypted
           /\ digest_count' = digest_count
           /\ x' \in 1..Len(source.l1) + 1
           /\ y' \in 1..L2Entries
           /\ block_offset' \in Nat
           /\ InTable'
<1>1. x \in 1..Len(source.l1) /\ source.l1[x] # NoL2
  BY SourceType DEF TypeInv, InTable
<1>2. y \in 1..L2Entries /\ block_offset \in Nat
  BY DEF TypeInv, TypeOK
<1>3. block_offset' \in Nat
  BY <1>2, QcowAssumption DEF NextEntry
<1>4. CASE y < L2Entries
  BY <1>1, <1>2, <1>3, <1>4, SourceType, QcowAssumption DEF NextEntry, TypeInv, TypeOK, InTable
<1>5. CASE ~(y < L2Entries)
  BY <1>1, <1>2, <1>3, <1>5, SourceType, QcowAssumption DEF NextEntry, TypeInv, TypeOK, InTable
<1>6. QED
  BY <1>4, <1>5

\* An entry recorded at an offset is a digest table entry.
LEMMA FoundEntryType ==
    ASSUME TypeInv, pc = "l2", HasContents(CurrentEntry),
           NEW offset \in Nat, Record(offset)
    PROVE  /\ digest_table' \in Seq(DigestTableEntry)
           /\ digest_table' = Append(digest_table,
                [cluster_offset |-> offset, block_offset |-> block_offset,
                 digest |-> BlockData])
BY BlockDataType DEF Record, DigestTableEntry, TypeInv, TypeOK

\* The program starts well typed.
LEMMA InitType == Init => TypeInv
<1> SUFFICES ASSUME Init PROVE TypeInv
  OBVIOUS
<1>1. Len(source.l1) \in Nat
  BY ImageBuildAssumption DEF Init
<1>2. QED
  BY <1>1, QcowAssumption, ImageFormatAssumption
     DEF Init, TypeInv, TypeOK, InTable, Running, EmptyFile

\* Every step, also a failing one, keeps the types and stays inside the tables.
LEMMA TypeStep == TypeInv /\ [Next]_vars => TypeInv'
<1> SUFFICES ASSUME TypeInv, [Next]_vars PROVE TypeInv'
  OBVIOUS
<1> USE DEF TypeInv, TypeOK, Running
<1>1. CASE WriteHeaders
  <2>1. PICK unreadable :
           cluster_count' = count_clusters(source.l1, unreadable) % U32
    BY <1>1 DEF WriteHeaders
  <2>2. cluster_count' \in Nat
    <3>1. count_clusters(source.l1, unreadable) \in Nat
      BY CountType
    <3>2. U32 \in Nat \ {0}
      BY ImageBuildAssumption
    <3>3. count_clusters(source.l1, unreadable) % U32 \in Nat
      BY <3>1, <3>2, ModType
    <3>4. QED
      BY <2>1, <3>3
  <2>3. nonce_table' \in Seq(Nat)
    <3>1. [k \in 1..cluster_count' |-> k] \in Seq(Nat)
      BY <2>2
    <3>2. QED
      BY <1>1, <3>1 DEF WriteHeaders
  <2>4. file'.clusters = file.clusters /\ DOMAIN file' = DOMAIN file
    BY <1>1 DEF WriteHeaders
  <2>5. QED
    BY <1>1, <2>2, <2>3, <2>4 DEF WriteHeaders, InTable
<1>2. CASE SkipL2Table
  <2>1. block_offset + ClusterSize * L2Entries \in Nat
    BY SpanType
  <2>2. QED
    BY <1>2, <2>1, SourceType DEF SkipL2Table, loopVars, InTable
<1>3. CASE EnterL2Table
  BY <1>3, SourceType, QcowAssumption DEF EnterL2Table, loopVars, InTable
<1>4. CASE SkipEntry
  BY <1>4, NextEntryType DEF SkipEntry, loopVars
<1>5. CASE WriteCluster
  <2>1. BlockData \in Data
    BY <1>5, BlockDataType DEF WriteCluster
  <2>2. digest_table' \in Seq(DigestTableEntry)
    BY <1>5, FoundEntryType DEF WriteCluster
  <2>3. [at |-> cluster_offset, data |-> BlockData,
         nonce |-> IF encrypted THEN nonce_table[i + 1] ELSE 0] \in Cluster
    <3>1. encrypted => nonce_table[i + 1] \in Nat
      BY <1>5 DEF WriteCluster
    <3>2. QED
      BY <2>1, <3>1 DEF Cluster
  <2>4. file'.clusters \in Seq(Cluster) /\ DOMAIN file' = DOMAIN file
    BY <1>5, <2>3 DEF WriteCluster
  <2>5. cluster_offset' \in Nat /\ i' \in Nat
    <3>1. EncodedSize[BlockData] \in Nat
      BY <2>1, ImageFormatAssumption
    <3>2. cluster_offset' = cluster_offset + SizeField + EncodedSize[BlockData]
      BY <1>5 DEF WriteCluster
    <3>3. i' = i + 1
      BY <1>5 DEF WriteCluster
    <3>4. QED
      BY <3>1, <3>2, <3>3 DEF SizeField
  <2>6. QED
    BY <1>5, <2>2, <2>4, <2>5, NextEntryType DEF WriteCluster
<1>6. CASE ReuseCluster
  <2>1. PICK k \in SameDigest : Record(digest_table[k].cluster_offset)
    BY <1>6 DEF ReuseCluster
  <2>2. digest_table[k].cluster_offset \in Nat
    <3>1. k \in DOMAIN digest_table
      BY DEF SameDigest
    <3>2. digest_table[k] \in DigestTableEntry
      BY <3>1
    <3>3. QED
      BY <3>2 DEF DigestTableEntry
  <2>3. digest_table' \in Seq(DigestTableEntry)
    BY <1>6, <2>1, <2>2, FoundEntryType DEF ReuseCluster
  <2>4. cluster_count' \in Nat
    <3>1. cluster_count - 1 \in Int
      OBVIOUS
    <3>2. (cluster_count - 1) % U32 \in Nat
      BY <3>1, ImageBuildAssumption, ModType
    <3>3. QED
      BY <1>6, <3>2 DEF ReuseCluster
  <2>5. nonce_table' \in Seq(Nat)
    BY <1>6 DEF ReuseCluster
  <2>6. QED
    BY <1>6, <2>3, <2>4, <2>5, NextEntryType DEF ReuseCluster
<1>7. CASE NonceOutOfBounds
  BY <1>7 DEF NonceOutOfBounds, loopVars, InTable
<1>8. CASE WriteDigestTable
  BY <1>8 DEF WriteDigestTable, finishVars, InTable
<1>9. CASE WriteDirectory
  BY <1>9 DEF WriteDirectory, finishVars, InTable
<1>10. CASE WritePrimaryHeader
  BY <1>10 DEF WritePrimaryHeader, finishVars, InTable
<1>11. CASE Fail
  BY <1>11 DEF Fail, finishVars, InTable
<1>12. CASE UNCHANGED vars
  BY <1>12 DEF vars, InTable
<1>13. QED
  BY <1>1, <1>2, <1>3, <1>4, <1>5, <1>6, <1>7, <1>8, <1>9, <1>10, <1>11, <1>12
     DEF Next, Step

\* Every variable always has its type: no index leaves the tables of the disk,
\* and every section of the file has the format's fields.
THEOREM TypeCorrect == Spec => []TypeOK
<1>1. TypeInv => TypeOK
  BY DEF TypeInv
<1>2. QED
  BY <1>1, InitType, TypeStep, PTL DEF Spec

\* t is s with e at its end.
Grows(s, e, t) ==
    /\ DOMAIN s = 1..Len(s) /\ Len(s) \in Nat
    /\ DOMAIN t = 1..Len(s) + 1 /\ Len(t) = Len(s) + 1
    /\ t[Len(s) + 1] = e
    /\ \A k \in 1..Len(s) : t[k] = s[k]

\* Appending an element keeps the others where they are.
LEMMA AppendGrows ==
    ASSUME NEW S, NEW s \in Seq(S), NEW e \in S
    PROVE  Grows(s, e, Append(s, e))
BY DEF Grows

(***************************************************************************)
(* What a step does to the digest table and the cluster region: it appends *)
(* a cluster and an entry, appends an entry, or leaves both alone.         *)
(***************************************************************************)
NewCluster ==
    [at |-> cluster_offset, data |-> BlockData,
     nonce |-> IF encrypted THEN nonce_table[i + 1] ELSE 0]

NewEntry(offset) ==
    [cluster_offset |-> offset, block_offset |-> block_offset, digest |-> BlockData]

\* The new cluster begins where the region ended and the region ends after it.
LEMMA WriteClusterEffect ==
    ASSUME TypeInv, WriteCluster
    PROVE  /\ NewCluster \in Cluster
           /\ Grows(file.clusters, NewCluster, file'.clusters)
           /\ Grows(digest_table, NewEntry(cluster_offset), digest_table')
           /\ cluster_offset' = ClusterEnd(NewCluster)
           /\ cluster_offset' > cluster_offset
           /\ file'.protected = file.protected
           /\ file'.primary = file.primary
           /\ i' = i + 1 /\ encrypted' = encrypted /\ nonce_table' = nonce_table
<1>1. BlockData \in Data
  BY BlockDataType DEF WriteCluster
<1>2. encrypted => nonce_table[i + 1] \in Nat
  BY DEF WriteCluster, TypeInv, TypeOK
<1>3. NewCluster \in Cluster
  BY <1>1, <1>2 DEF NewCluster, Cluster, TypeInv, TypeOK
<1>4. NewEntry(cluster_offset) \in DigestTableEntry
  BY <1>1 DEF NewEntry, DigestTableEntry, TypeInv, TypeOK
<1>5. EncodedSize[BlockData] \in Nat
  BY <1>1, ImageFormatAssumption
<1>6. cluster_offset' = ClusterEnd(NewCluster) /\ cluster_offset' > cluster_offset
  BY <1>5 DEF WriteCluster, ClusterEnd, NewCluster, SizeField, TypeInv, TypeOK
<1>7. /\ file'.clusters = Append(file.clusters, NewCluster)
      /\ file'.protected = file.protected
      /\ file'.primary = file.primary
  BY DEF WriteCluster, NewCluster, TypeInv, TypeOK
<1>8. Grows(file.clusters, NewCluster, file'.clusters)
  BY <1>3, <1>7, AppendGrows DEF TypeInv, TypeOK
<1>9. digest_table' = Append(digest_table, NewEntry(cluster_offset))
  BY DEF WriteCluster, Record, NewEntry
<1>10. Grows(digest_table, NewEntry(cluster_offset), digest_table')
  BY <1>4, <1>9, AppendGrows DEF TypeInv, TypeOK
<1>11. QED
  BY <1>3, <1>6, <1>7, <1>8, <1>10 DEF WriteCluster, NextEntry

\* A reused cluster is that of an earlier entry with the same digest.
LEMMA ReuseClusterEffect ==
    ASSUME TypeInv, ReuseCluster
    PROVE  /\ file' = file /\ cluster_offset' = cluster_offset
           /\ i' = i /\ encrypted' = encrypted
           /\ \E k \in DOMAIN digest_table :
                /\ digest_table[k].digest = BlockData
                /\ Grows(digest_table, NewEntry(digest_table[k].cluster_offset),
                         digest_table')
<1>1. PICK k \in SameDigest : Record(digest_table[k].cluster_offset)
  BY DEF ReuseCluster
<1>2. k \in DOMAIN digest_table /\ digest_table[k].digest = BlockData
  BY DEF SameDigest
<1>3. digest_table[k] \in DigestTableEntry
  BY <1>2 DEF TypeInv, TypeOK
<1>4. BlockData \in Data
  BY BlockDataType DEF ReuseCluster
<1>5. NewEntry(digest_table[k].cluster_offset) \in DigestTableEntry
  BY <1>3, <1>4 DEF NewEntry, DigestTableEntry, TypeInv, TypeOK
<1>6. digest_table' = Append(digest_table, NewEntry(digest_table[k].cluster_offset))
  BY <1>1 DEF Record, NewEntry
<1>7. Grows(digest_table, NewEntry(digest_table[k].cluster_offset), digest_table')
  BY <1>5, <1>6, AppendGrows DEF TypeInv, TypeOK
<1>8. QED
  BY <1>2, <1>7 DEF ReuseCluster, NextEntry

RegionUnchanged ==
    /\ digest_table' = digest_table
    /\ file'.clusters = file.clusters
    /\ cluster_offset' = cluster_offset
    /\ i' = i

\* Only two actions touch the digest table or the cluster region.
LEMMA StepKinds ==
    ASSUME TypeInv, [Next]_vars
    PROVE  WriteCluster \/ ReuseCluster \/ RegionUnchanged
<1>1. CASE WriteHeaders
  BY <1>1 DEF WriteHeaders, RegionUnchanged, TypeInv, TypeOK
<1>2. CASE SkipL2Table \/ EnterL2Table \/ SkipEntry \/ NonceOutOfBounds
  BY <1>2 DEF SkipL2Table, EnterL2Table, SkipEntry, NonceOutOfBounds, loopVars,
              RegionUnchanged
<1>3. CASE WriteDigestTable \/ WriteDirectory \/ WritePrimaryHeader
  BY <1>3 DEF WriteDigestTable, WriteDirectory, WritePrimaryHeader, finishVars,
              RegionUnchanged, TypeInv, TypeOK
<1>4. CASE Fail \/ UNCHANGED vars
  BY <1>4 DEF Fail, finishVars, vars, RegionUnchanged
<1>5. QED
  BY <1>1, <1>2, <1>3, <1>4 DEF Next, Step

(***************************************************************************)
(* Every digest entry names a cluster of its own bytes.                    *)
(***************************************************************************)
LEMMA DigestsResolveStep ==
    ASSUME TypeInv, DigestsResolve, [Next]_vars
    PROVE  DigestsResolve'
<1>1. CASE WriteCluster
  <2>1. /\ Grows(file.clusters, NewCluster, file'.clusters)
        /\ Grows(digest_table, NewEntry(cluster_offset), digest_table')
    BY <1>1, WriteClusterEffect
  <2> SUFFICES ASSUME NEW k \in DOMAIN digest_table'
               PROVE  \E c \in DOMAIN file'.clusters :
                        /\ file'.clusters[c].at = digest_table'[k].cluster_offset
                        /\ file'.clusters[c].data = digest_table'[k].digest
    BY DEF DigestsResolve
  <2>2. CASE k \in DOMAIN digest_table
    <3>1. PICK c \in DOMAIN file.clusters :
            /\ file.clusters[c].at = digest_table[k].cluster_offset
            /\ file.clusters[c].data = digest_table[k].digest
      BY <2>2 DEF DigestsResolve
    <3>2. c \in DOMAIN file'.clusters /\ file'.clusters[c] = file.clusters[c]
      BY <2>1 DEF Grows
    <3>3. digest_table'[k] = digest_table[k]
      BY <2>1, <2>2 DEF Grows
    <3>4. QED
      BY <3>1, <3>2, <3>3
  <2>3. CASE k \notin DOMAIN digest_table
    <3> DEFINE c == Len(file.clusters) + 1
    <3>1. c \in DOMAIN file'.clusters /\ file'.clusters[c] = NewCluster
      BY <2>1 DEF Grows
    <3>2. digest_table'[k] = NewEntry(cluster_offset)
      BY <2>1, <2>3 DEF Grows
    <3>3. QED
      BY <3>1, <3>2 DEF NewCluster, NewEntry
  <2>4. QED
    BY <2>2, <2>3
<1>2. CASE ReuseCluster
  <2>1. PICK j \in DOMAIN digest_table :
          /\ digest_table[j].digest = BlockData
          /\ Grows(digest_table, NewEntry(digest_table[j].cluster_offset), digest_table')
    BY <1>2, ReuseClusterEffect
  <2>2. file' = file
    BY <1>2, ReuseClusterEffect
  <2> SUFFICES ASSUME NEW k \in DOMAIN digest_table'
               PROVE  \E c \in DOMAIN file.clusters :
                        /\ file.clusters[c].at = digest_table'[k].cluster_offset
                        /\ file.clusters[c].data = digest_table'[k].digest
    BY <2>2 DEF DigestsResolve
  <2>3. CASE k \in DOMAIN digest_table
    <3>1. digest_table'[k] = digest_table[k]
      BY <2>1, <2>3 DEF Grows
    <3>2. QED
      BY <2>3, <3>1 DEF DigestsResolve
  <2>4. CASE k \notin DOMAIN digest_table
    <3>1. digest_table'[k] = NewEntry(digest_table[j].cluster_offset)
      BY <2>1, <2>4 DEF Grows
    <3>2. QED
      BY <2>1, <3>1 DEF DigestsResolve, NewEntry
  <2>5. QED
    BY <2>3, <2>4
<1>3. CASE RegionUnchanged
  BY <1>3 DEF RegionUnchanged, DigestsResolve
<1>4. QED
  BY <1>1, <1>2, <1>3, StepKinds

(***************************************************************************)
(* The cluster region has no gaps and grows at its end.                    *)
(***************************************************************************)
EndOfRegion ==
    IF file.clusters = << >> THEN RegionStart
    ELSE ClusterEnd(file.clusters[Len(file.clusters)])

BackToBack ==
    \A c \in DOMAIN file.clusters :
        file.clusters[c].at =
            IF c = 1 THEN RegionStart ELSE ClusterEnd(file.clusters[c - 1])

Region ==
    /\ cluster_offset = EndOfRegion
    /\ BackToBack
    /\ \A c \in DOMAIN file.clusters : file.clusters[c].at < cluster_offset
    /\ \A c, d \in DOMAIN file.clusters :
         c < d => file.clusters[c].at < file.clusters[d].at
    /\ i = Len(file.clusters)

\* A new cluster is put at the end, so offsets grow with ordinals.
LEMMA RegionStep ==
    ASSUME TypeInv, Region, [Next]_vars
    PROVE  Region'
<1>1. CASE WriteCluster
  <2> DEFINE n == Len(file.clusters)
  <2>1. /\ Grows(file.clusters, NewCluster, file'.clusters)
        /\ cluster_offset' = ClusterEnd(NewCluster)
        /\ cluster_offset' > cluster_offset
        /\ i' = i + 1
    BY <1>1, WriteClusterEffect
  <2>2. NewCluster.at = cluster_offset
    BY DEF NewCluster
  <2>3. /\ n \in Nat /\ DOMAIN file.clusters = 1..n
        /\ DOMAIN file'.clusters = 1..n + 1 /\ Len(file'.clusters) = n + 1
        /\ file'.clusters[n + 1] = NewCluster
        /\ \A c \in 1..n : file'.clusters[c] = file.clusters[c]
    BY <2>1 DEF Grows
  <2>4. cluster_offset' = EndOfRegion'
    <3>1. file'.clusters # << >>
      BY <2>3
    <3>2. QED
      BY <2>1, <2>3, <3>1 DEF EndOfRegion, ClusterEnd
  <2>5. BackToBack'
    <3> SUFFICES ASSUME NEW c \in 1..n + 1
                 PROVE  file'.clusters[c].at =
                          IF c = 1 THEN RegionStart ELSE ClusterEnd(file'.clusters[c - 1])
      BY <2>3 DEF BackToBack, ClusterEnd
    <3>1. CASE c \in 1..n
      <4>1. c # 1 => c - 1 \in 1..n
        BY <3>1, <2>3
      <4>2. QED
        BY <3>1, <4>1, <2>3 DEF Region, BackToBack, ClusterEnd
    <3>2. CASE c = n + 1
      <4>1. n = 0 <=> file.clusters = << >>
        BY <2>3 DEF TypeInv, TypeOK
      <4>2. n # 0 => n \in 1..n
        BY <2>3
      <4>3. QED
        BY <3>2, <4>1, <4>2, <2>2, <2>3 DEF Region, EndOfRegion, ClusterEnd
    <3>3. QED
      BY <3>1, <3>2, <2>3
  <2>6. \A c \in 1..n : file.clusters[c].at \in Nat
    <3>1. \A c \in 1..n : file.clusters[c] \in Cluster
      BY DEF TypeInv, TypeOK
    <3>2. QED
      BY <3>1 DEF Cluster
  <2>7. cluster_offset \in Nat /\ cluster_offset' \in Nat
    <3>1. cluster_offset \in Nat
      BY DEF TypeInv, TypeOK
    <3>2. TypeInv'
      BY TypeStep
    <3>3. cluster_offset' \in Nat
      BY <3>2 DEF TypeInv, TypeOK
    <3>4. QED
      BY <3>1, <3>3
  <2>8. \A c \in DOMAIN file'.clusters : file'.clusters[c].at < cluster_offset'
    <3> SUFFICES ASSUME NEW c \in 1..n + 1
                 PROVE  file'.clusters[c].at < cluster_offset'
      BY <2>3
    <3>1. cluster_offset < cluster_offset'
      BY <2>1
    <3>2. CASE c \in 1..n
      <4>1. file'.clusters[c].at = file.clusters[c].at /\ file.clusters[c].at \in Nat
        BY <3>2, <2>3, <2>6
      <4>2. file.clusters[c].at < cluster_offset
        BY <3>2, <2>3 DEF Region
      <4>3. QED
        BY <4>1, <4>2, <3>1, <2>7
    <3>3. CASE c = n + 1
      BY <3>1, <3>3, <2>2, <2>3
    <3>4. QED
      BY <3>2, <3>3, <2>3
  <2>9. \A c, d \in DOMAIN file'.clusters :
          c < d => file'.clusters[c].at < file'.clusters[d].at
    <3> SUFFICES ASSUME NEW c \in 1..n + 1, NEW d \in 1..n + 1, c < d
                 PROVE  file'.clusters[c].at < file'.clusters[d].at
      BY <2>3
    <3>1. c \in 1..n
      BY <2>3
    <3>2. CASE d \in 1..n
      <4>1. file.clusters[c].at < file.clusters[d].at
        BY <3>1, <3>2, <2>3 DEF Region
      <4>2. QED
        BY <3>1, <3>2, <4>1, <2>3
    <3>3. CASE d = n + 1
      <4>1. file.clusters[c].at < cluster_offset
        BY <3>1, <2>3 DEF Region
      <4>2. QED
        BY <3>1, <3>3, <4>1, <2>2, <2>3
    <3>4. QED
      BY <3>2, <3>3, <2>3
  <2>10. QED
    BY <2>1, <2>3, <2>4, <2>5, <2>8, <2>9 DEF Region
<1>2. CASE ReuseCluster
  BY <1>2, ReuseClusterEffect DEF Region, EndOfRegion, BackToBack, ClusterEnd
<1>3. CASE RegionUnchanged
  BY <1>3 DEF RegionUnchanged, Region, EndOfRegion, BackToBack, ClusterEnd
<1>4. QED
  BY <1>1, <1>2, <1>3, StepKinds

(***************************************************************************)
(* Every cluster is named by an entry with its bytes, so that looking for  *)
(* a digest in the table is as good as looking through the file.           *)
(***************************************************************************)
ClustersNamed ==
    \A c \in DOMAIN file.clusters : \E k \in DOMAIN digest_table :
        /\ digest_table[k].cluster_offset = file.clusters[c].at
        /\ digest_table[k].digest = file.clusters[c].data

\* A cluster is named by the entry it was written for, for good.
LEMMA ClustersNamedStep ==
    ASSUME TypeInv, ClustersNamed, [Next]_vars
    PROVE  ClustersNamed'
<1>1. CASE WriteCluster
  <2>1. /\ Grows(file.clusters, NewCluster, file'.clusters)
        /\ Grows(digest_table, NewEntry(cluster_offset), digest_table')
    BY <1>1, WriteClusterEffect
  <2> SUFFICES ASSUME NEW c \in DOMAIN file'.clusters
               PROVE  \E k \in DOMAIN digest_table' :
                        /\ digest_table'[k].cluster_offset = file'.clusters[c].at
                        /\ digest_table'[k].digest = file'.clusters[c].data
    BY DEF ClustersNamed
  <2>2. CASE c \in DOMAIN file.clusters
    <3>1. PICK k \in DOMAIN digest_table :
            /\ digest_table[k].cluster_offset = file.clusters[c].at
            /\ digest_table[k].digest = file.clusters[c].data
      BY <2>2 DEF ClustersNamed
    <3>2. k \in DOMAIN digest_table' /\ digest_table'[k] = digest_table[k]
      BY <2>1 DEF Grows
    <3>3. file'.clusters[c] = file.clusters[c]
      BY <2>1, <2>2 DEF Grows
    <3>4. QED
      BY <3>1, <3>2, <3>3
  <2>3. CASE c \notin DOMAIN file.clusters
    <3> DEFINE k == Len(digest_table) + 1
    <3>1. k \in DOMAIN digest_table' /\ digest_table'[k] = NewEntry(cluster_offset)
      BY <2>1 DEF Grows
    <3>2. file'.clusters[c] = NewCluster
      BY <2>1, <2>3 DEF Grows
    <3>3. QED
      BY <3>1, <3>2 DEF NewCluster, NewEntry
  <2>4. QED
    BY <2>2, <2>3
<1>2. CASE ReuseCluster
  <2>1. PICK j \in DOMAIN digest_table :
          Grows(digest_table, NewEntry(digest_table[j].cluster_offset), digest_table')
    BY <1>2, ReuseClusterEffect
  <2>2. file' = file
    BY <1>2, ReuseClusterEffect
  <2>3. \A k \in DOMAIN digest_table :
          k \in DOMAIN digest_table' /\ digest_table'[k] = digest_table[k]
    BY <2>1 DEF Grows
  <2>4. QED
    BY <2>2, <2>3 DEF ClustersNamed
<1>3. CASE RegionUnchanged
  BY <1>3 DEF RegionUnchanged, ClustersNamed
<1>4. QED
  BY <1>1, <1>2, <1>3, StepKinds

\* Bytes that no entry has are in no cluster.
LEMMA DeduplicatedStep ==
    ASSUME TypeInv, ClustersNamed, Deduplicated, [Next]_vars
    PROVE  Deduplicated'
<1>1. CASE WriteCluster
  <2>1. Grows(file.clusters, NewCluster, file'.clusters)
    BY <1>1, WriteClusterEffect
  <2>2. \A k \in DOMAIN digest_table : digest_table[k].digest # BlockData
    BY <1>1 DEF WriteCluster, SameDigest
  <2>3. \A c \in DOMAIN file.clusters : file.clusters[c].data # NewCluster.data
    BY <2>2 DEF ClustersNamed, NewCluster
  <2> DEFINE n == Len(file.clusters)
  <2>4. \A c \in DOMAIN file'.clusters :
          \/ c \in DOMAIN file.clusters /\ file'.clusters[c] = file.clusters[c]
          \/ c = n + 1 /\ file'.clusters[c] = NewCluster
    BY <2>1 DEF Grows
  <2>5. QED
    BY <2>3, <2>4 DEF Deduplicated
<1>2. CASE ReuseCluster
  BY <1>2, ReuseClusterEffect DEF Deduplicated
<1>3. CASE RegionUnchanged
  BY <1>3 DEF RegionUnchanged, Deduplicated
<1>4. QED
  BY <1>1, <1>2, <1>3, StepKinds

(***************************************************************************)
(* Entries first name clusters in the order of the clusters, so the        *)
(* ordinal a reader counts is the ordinal the builder counted.             *)
(***************************************************************************)
\* An entry's cluster lies in the region.
LEMMA OffsetsBelow ==
    ASSUME Region, DigestsResolve, NEW k \in DOMAIN digest_table
    PROVE  digest_table[k].cluster_offset < cluster_offset
BY DEF Region, DigestsResolve

FirstIndices(table) == {k \in DOMAIN table : FirstSeen(table, k)}

\* The first indices a reader passes before it meets an offset.
Before(table, offset) ==
    {k \in FirstIndices(table) : \A j \in 1..k : table[j].cluster_offset # offset}

\* The ordinal of an offset is the number of first indices before it.
LEMMA OrdinalIsBefore ==
    ASSUME NEW table, NEW offset
    PROVE  ClusterOrdinal(table, offset) = Cardinality(Before(table, offset))
<1>1. Before(table, offset) =
        {k \in DOMAIN table :
            /\ FirstSeen(table, k)
            /\ \A j \in 1..k : table[j].cluster_offset # offset}
  BY DEF Before, FirstIndices
<1>2. QED
  BY <1>1 DEF ClusterOrdinal

\* An entry at a new offset is first; one at an old offset is not; neither
\* changes which of the earlier entries are.
LEMMA FirstIndicesGrow ==
    ASSUME NEW s, NEW e, NEW t, Grows(s, e, t)
    PROVE  /\ (\A k \in DOMAIN s : s[k].cluster_offset # e.cluster_offset)
                => FirstIndices(t) = FirstIndices(s) \cup {Len(s) + 1}
           /\ (\E k \in DOMAIN s : s[k].cluster_offset = e.cluster_offset)
                => FirstIndices(t) = FirstIndices(s)
<1> DEFINE n == Len(s)
<1>1. /\ n \in Nat /\ DOMAIN s = 1..n /\ DOMAIN t = 1..n + 1
      /\ t[n + 1] = e /\ \A k \in 1..n : t[k] = s[k]
  BY DEF Grows
<1> HIDE DEF n
<1>2. \A k \in 1..n : FirstSeen(t, k) <=> FirstSeen(s, k)
  BY <1>1 DEF FirstSeen
<1>3. FirstSeen(t, n + 1) <=> \A k \in 1..n : s[k].cluster_offset # e.cluster_offset
  BY <1>1 DEF FirstSeen
<1>4. FirstIndices(t) = FirstIndices(s) \cup {k \in {n + 1} : FirstSeen(t, k)}
  BY <1>1, <1>2 DEF FirstIndices
<1>5. QED
  BY <1>1, <1>3, <1>4 DEF n

\* Appending an entry does not change what comes before an offset that an
\* earlier entry has already.
LEMMA BeforeGrows ==
    ASSUME NEW s, NEW e, NEW t, Grows(s, e, t),
           NEW offset, \E k \in DOMAIN s : s[k].cluster_offset = offset
    PROVE  Before(t, offset) = Before(s, offset)
<1> DEFINE n == Len(s)
<1>1. /\ n \in Nat /\ DOMAIN s = 1..n /\ DOMAIN t = 1..n + 1
      /\ t[n + 1] = e /\ \A k \in 1..n : t[k] = s[k]
  BY DEF Grows
<1> HIDE DEF n
<1>2. \A k \in 1..n : FirstSeen(t, k) <=> FirstSeen(s, k)
  BY <1>1 DEF FirstSeen
<1>3. \A k \in 1..n : (\A j \in 1..k : t[j].cluster_offset # offset)
                      <=> (\A j \in 1..k : s[j].cluster_offset # offset)
  BY <1>1
<1>4. ~ \A j \in 1..n + 1 : t[j].cluster_offset # offset
  BY <1>1
<1>5. \A k \in DOMAIN t : k \in 1..n \/ k = n + 1
  BY <1>1
<1>6. \A k : k \in Before(t, offset) <=> k \in Before(s, offset)
  BY <1>1, <1>2, <1>3, <1>4, <1>5 DEF Before, FirstIndices
<1>7. QED
  BY <1>6

Ordinals ==
    /\ Cardinality(FirstIndices(digest_table)) = Len(file.clusters)
    /\ \A c \in DOMAIN file.clusters :
         ClusterOrdinal(digest_table, file.clusters[c].at) = c - 1

\* The reader's ordinals follow the builder's.
LEMMA OrdinalsStep ==
    ASSUME TypeInv, Region, DigestsResolve, ClustersNamed, Ordinals, [Next]_vars
    PROVE  Ordinals'
<1>1. CASE WriteCluster
  <2> DEFINE n == Len(file.clusters)
             m == Len(digest_table)
             old == FirstIndices(digest_table)
  <2>1. /\ Grows(file.clusters, NewCluster, file'.clusters)
        /\ Grows(digest_table, NewEntry(cluster_offset), digest_table')
    BY <1>1, WriteClusterEffect
  <2>2. \A k \in DOMAIN digest_table : digest_table[k].cluster_offset # cluster_offset
    <3>1. cluster_offset \in Nat
      BY DEF TypeInv, TypeOK
    <3>2. QED
      BY <3>1, OffsetsBelow
  <2>3. FirstIndices(digest_table') = old \cup {m + 1}
    BY <2>1, <2>2, FirstIndicesGrow DEF NewEntry
  <2>4. IsFiniteSet(old) /\ m + 1 \notin old
    <3>1. m \in Nat /\ DOMAIN digest_table = 1..m
      BY <2>1 DEF Grows
    <3>2. old \in SUBSET (1..m)
      BY <3>1 DEF FirstIndices
    <3>3. IsFiniteSet(1..m)
      BY <3>1, FS_Interval
    <3>4. QED
      BY <3>1, <3>2, <3>3, FS_Subset
  <2>5. Cardinality(FirstIndices(digest_table')) = n + 1
    BY <2>3, <2>4, FS_AddElement DEF Ordinals
  <2>6. Len(file'.clusters) = n + 1
    BY <2>1 DEF Grows
  <2>7. ASSUME NEW c \in DOMAIN file'.clusters
        PROVE  ClusterOrdinal(digest_table', file'.clusters[c].at) = c - 1
    <3>1. CASE c \in DOMAIN file.clusters
      <4>1. file'.clusters[c] = file.clusters[c]
        BY <2>1, <3>1 DEF Grows
      <4>2. \E k \in DOMAIN digest_table :
              digest_table[k].cluster_offset = file.clusters[c].at
        BY <3>1 DEF ClustersNamed
      <4>3. Before(digest_table', file.clusters[c].at)
              = Before(digest_table, file.clusters[c].at)
        BY <2>1, <4>2, BeforeGrows
      <4>4. QED
        BY <3>1, <4>1, <4>3, OrdinalIsBefore DEF Ordinals
    <3>2. CASE c \notin DOMAIN file.clusters
      <4>1. c = n + 1 /\ n \in Nat /\ file'.clusters[c].at = cluster_offset
        BY <2>1, <3>2 DEF Grows, NewCluster
      <4>2. Before(digest_table', cluster_offset) = old
        <5>1. /\ m \in Nat /\ DOMAIN digest_table = 1..m
              /\ digest_table'[m + 1] = NewEntry(cluster_offset)
              /\ \A k \in 1..m : digest_table'[k] = digest_table[k]
          BY <2>1 DEF Grows
        <5>2. old \subseteq 1..m
          BY <5>1 DEF FirstIndices
        <5>3. \A k \in 1..m : \A j \in 1..k :
                digest_table'[j].cluster_offset # cluster_offset
          BY <5>1, <2>2
        <5>4. ~ \A j \in 1..m + 1 : digest_table'[j].cluster_offset # cluster_offset
          BY <5>1 DEF NewEntry
        <5>5. QED
          BY <2>3, <5>2, <5>3, <5>4 DEF Before
      <4>3. QED
        BY <4>1, <4>2, OrdinalIsBefore DEF Ordinals
    <3>3. QED
      BY <3>1, <3>2
  <2>8. QED
    BY <2>5, <2>6, <2>7 DEF Ordinals
<1>2. CASE ReuseCluster
  <2>1. PICK j \in DOMAIN digest_table :
          Grows(digest_table, NewEntry(digest_table[j].cluster_offset), digest_table')
    BY <1>2, ReuseClusterEffect
  <2>2. file' = file
    BY <1>2, ReuseClusterEffect
  <2>3. FirstIndices(digest_table') = FirstIndices(digest_table)
    BY <2>1, FirstIndicesGrow DEF NewEntry
  <2>4. ASSUME NEW c \in DOMAIN file.clusters
        PROVE  ClusterOrdinal(digest_table', file.clusters[c].at) = c - 1
    <3>1. \E k \in DOMAIN digest_table :
            digest_table[k].cluster_offset = file.clusters[c].at
      BY DEF ClustersNamed
    <3>2. Before(digest_table', file.clusters[c].at)
            = Before(digest_table, file.clusters[c].at)
      BY <2>1, <3>1, BeforeGrows
    <3>3. QED
      BY <3>2, OrdinalIsBefore DEF Ordinals
  <2>5. QED
    BY <2>2, <2>3, <2>4 DEF Ordinals
<1>3. CASE RegionUnchanged
  BY <1>3, OrdinalIsBefore DEF RegionUnchanged, Ordinals
<1>4. QED
  BY <1>1, <1>2, <1>3, StepKinds

FirstSeenAscending ==
    \A j, k \in DOMAIN digest_table :
        FirstSeen(digest_table, j) /\ FirstSeen(digest_table, k) /\ j < k
            => digest_table[j].cluster_offset < digest_table[k].cluster_offset

\* A first index is appended only with the end of the region as its offset.
LEMMA FirstSeenAscendingStep ==
    ASSUME TypeInv, Region, DigestsResolve, FirstSeenAscending, [Next]_vars
    PROVE  FirstSeenAscending'
<1> DEFINE m == Len(digest_table)
<1>1. ASSUME NEW e, Grows(digest_table, e, digest_table'),
             \/ \A k \in DOMAIN digest_table : digest_table[k].cluster_offset < e.cluster_offset
             \/ \E k \in DOMAIN digest_table : digest_table[k].cluster_offset = e.cluster_offset
      PROVE  FirstSeenAscending'
  <2>1. /\ m \in Nat /\ DOMAIN digest_table = 1..m /\ DOMAIN digest_table' = 1..m + 1
        /\ digest_table'[m + 1] = e
        /\ \A k \in 1..m : digest_table'[k] = digest_table[k]
    BY <1>1 DEF Grows
  <2> HIDE DEF m
  <2> SUFFICES ASSUME NEW j \in 1..m + 1, NEW k \in 1..m + 1, j < k,
                      FirstSeen(digest_table', j), FirstSeen(digest_table', k)
               PROVE  digest_table'[j].cluster_offset < digest_table'[k].cluster_offset
    BY <2>1 DEF FirstSeenAscending, FirstSeen
  <2>2. j \in 1..m /\ FirstSeen(digest_table, j)
    BY <2>1 DEF FirstSeen
  <2>3. CASE k \in 1..m
    <3>1. FirstSeen(digest_table, k)
      BY <2>1, <2>3 DEF FirstSeen
    <3>2. QED
      BY <2>1, <2>2, <2>3, <3>1 DEF FirstSeenAscending
  <2>4. CASE k = m + 1
    <3>1. \A h \in 1..m : digest_table[h].cluster_offset # e.cluster_offset
      BY <2>1, <2>4 DEF FirstSeen
    <3>2. digest_table[j].cluster_offset < e.cluster_offset
      BY <1>1, <2>1, <2>2, <3>1
    <3>3. QED
      BY <2>1, <2>2, <2>4, <3>2
  <2>5. QED
    BY <2>1, <2>3, <2>4
<1>2. CASE WriteCluster
  <2>1. Grows(digest_table, NewEntry(cluster_offset), digest_table')
    BY <1>2, WriteClusterEffect
  <2>2. \A k \in DOMAIN digest_table :
          digest_table[k].cluster_offset < NewEntry(cluster_offset).cluster_offset
    BY OffsetsBelow DEF NewEntry
  <2>3. QED
    BY <1>1, <2>1, <2>2
<1>3. CASE ReuseCluster
  <2>1. PICK j \in DOMAIN digest_table :
          Grows(digest_table, NewEntry(digest_table[j].cluster_offset), digest_table')
    BY <1>3, ReuseClusterEffect
  <2>2. digest_table[j].cluster_offset
          = NewEntry(digest_table[j].cluster_offset).cluster_offset
    BY DEF NewEntry
  <2>3. QED
    BY <1>1, <2>1, <2>2
<1>4. CASE RegionUnchanged
  BY <1>4 DEF RegionUnchanged, FirstSeenAscending, FirstSeen
<1>5. QED
  BY <1>2, <1>3, <1>4, StepKinds

(***************************************************************************)
(* Nonces: the builder's table is a prefix of the one on disk, which is    *)
(* never written again, and the n-th cluster takes the n-th nonce.         *)
(***************************************************************************)
Nonces ==
    /\ pc = "start" => file = EmptyFile /\ digest_table = << >>
    /\ encrypted /\ pc \in {"l1", "l2"} =>
         /\ Len(nonce_table) <= Len(file.protected.nonce_table)
         /\ Len(file.protected.nonce_table) \in Nat
         /\ \A n \in 1..Len(nonce_table) : nonce_table[n] = n
         /\ \A n \in 1..Len(file.protected.nonce_table) :
              file.protected.nonce_table[n] = n
    /\ encrypted => \A c \in DOMAIN file.clusters :
         /\ file.clusters[c].nonce = c
         /\ file.protected.nonce_table[c] = c

\* The steps of the loop that write no cluster leave the nonces or shorten
\* the builder's table.
LEMMA NoncesStep ==
    ASSUME TypeInv, Region, Nonces, [Next]_vars
    PROVE  Nonces'
<1>1. CASE WriteHeaders
  <2>1. /\ file'.protected.nonce_table = nonce_table'
        /\ file'.clusters = file.clusters
        /\ pc' = "l1" /\ encrypted' = encrypted
    BY <1>1 DEF WriteHeaders, TypeInv, TypeOK
  <2>2. DOMAIN file.clusters = {}
    BY <1>1 DEF Nonces, WriteHeaders, EmptyFile
  <2>3. cluster_count' \in Nat
    <3>1. PICK unreadable :
             cluster_count' = count_clusters(source.l1, unreadable) % U32
      BY <1>1 DEF WriteHeaders
    <3>2. count_clusters(source.l1, unreadable) \in Nat
      BY CountType DEF TypeInv
    <3>3. count_clusters(source.l1, unreadable) % U32 \in Nat
      BY <3>2, ImageBuildAssumption, ModType
    <3>4. QED
      BY <3>1, <3>3
  <2>4. encrypted => /\ nonce_table' = [k \in 1..cluster_count' |-> k]
                     /\ Len(nonce_table') = cluster_count'
    BY <1>1, <2>3 DEF WriteHeaders
  <2>5. QED
    BY <2>1, <2>2, <2>3, <2>4 DEF Nonces
<1>2. CASE WriteCluster
  <2>1. /\ Grows(file.clusters, NewCluster, file'.clusters)
        /\ file'.protected = file.protected
        /\ encrypted' = encrypted /\ nonce_table' = nonce_table
    BY <1>2, WriteClusterEffect
  <2>2. pc = "l2" /\ pc' \in {"l1", "l2"}
    BY <1>2, NextEntryType DEF WriteCluster
  <2>3. encrypted => /\ i + 1 \in 1..Len(nonce_table)
                     /\ i + 1 \in 1..Len(file.protected.nonce_table)
                     /\ nonce_table[i + 1] = i + 1
                     /\ file.protected.nonce_table[i + 1] = i + 1
    <3>1. i \in Nat /\ Len(nonce_table) \in Nat
      BY DEF TypeInv, TypeOK
    <3>2. encrypted => i < Len(nonce_table)
      BY <1>2 DEF WriteCluster
    <3>3. encrypted => /\ Len(nonce_table) <= Len(file.protected.nonce_table)
                       /\ Len(file.protected.nonce_table) \in Nat
      BY <2>2 DEF Nonces
    <3>4. encrypted => /\ i + 1 \in 1..Len(nonce_table)
                       /\ i + 1 \in 1..Len(file.protected.nonce_table)
      BY <3>1, <3>2, <3>3
    <3>5. QED
      BY <2>2, <3>4 DEF Nonces
  <2>4. encrypted => NewCluster.nonce = i + 1
    BY <2>3 DEF NewCluster
  <2>5. ASSUME encrypted, NEW c \in DOMAIN file'.clusters
        PROVE  file'.clusters[c].nonce = c /\ file'.protected.nonce_table[c] = c
    <3>1. CASE c \in DOMAIN file.clusters
      BY <2>1, <2>5, <3>1 DEF Nonces, Grows
    <3>2. CASE c \notin DOMAIN file.clusters
      <4>1. c = i + 1 /\ file'.clusters[c] = NewCluster
        BY <2>1, <3>2 DEF Grows, Region
      <4>2. QED
        BY <2>1, <2>3, <2>4, <2>5, <4>1
    <3>3. QED
      BY <3>1, <3>2
  <2>6. QED
    BY <2>1, <2>2, <2>5 DEF Nonces
<1>3. CASE ReuseCluster
  <2>1. file' = file /\ encrypted' = encrypted /\ pc = "l2" /\ pc' \in {"l1", "l2"}
    BY <1>3, NextEntryType DEF ReuseCluster
  <2>2. /\ Len(nonce_table') <= Len(nonce_table)
        /\ Len(nonce_table') \in Nat /\ Len(nonce_table) \in Nat
        /\ \A n \in 1..Len(nonce_table') : nonce_table'[n] = nonce_table[n]
    BY <1>3 DEF ReuseCluster, TypeInv, TypeOK
  <2>3. QED
    BY <2>1, <2>2 DEF Nonces
<1>4. CASE SkipL2Table \/ EnterL2Table \/ SkipEntry \/ NonceOutOfBounds
  <2>1. /\ file' = file /\ nonce_table' = nonce_table /\ encrypted' = encrypted
        /\ pc \in {"l1", "l2"} /\ pc' \in {"l1", "l2", "panic"}
    <3>1. CASE SkipEntry
      BY <3>1, NextEntryType DEF SkipEntry, loopVars
    <3>2. CASE SkipL2Table \/ EnterL2Table \/ NonceOutOfBounds
      BY <3>2 DEF SkipL2Table, EnterL2Table, NonceOutOfBounds, loopVars
    <3>3. QED
      BY <1>4, <3>1, <3>2
  <2>2. QED
    BY <2>1 DEF Nonces
<1>5. CASE WriteDigestTable \/ WriteDirectory \/ WritePrimaryHeader
  <2>1. /\ file'.clusters = file.clusters /\ file'.protected = file.protected
        /\ encrypted' = encrypted /\ pc' \in {"directory", "primary", "done"}
    BY <1>5 DEF WriteDigestTable, WriteDirectory, WritePrimaryHeader, finishVars,
                TypeInv, TypeOK
  <2>2. QED
    BY <2>1 DEF Nonces
<1>6. CASE Fail
  <2>1. file' = file /\ encrypted' = encrypted /\ pc' = "failed"
    BY <1>6 DEF Fail, finishVars
  <2>2. QED
    BY <2>1 DEF Nonces
<1>7. CASE UNCHANGED vars
  BY <1>7 DEF vars, Nonces
<1>8. QED
  BY <1>1, <1>2, <1>3, <1>4, <1>5, <1>6, <1>7 DEF Next, Step

(***************************************************************************)
(* The trailing sections are written in an order in which the primary      *)
(* header never runs ahead of what it names.                               *)
(***************************************************************************)
Sections ==
    /\ pc = "start" => file = EmptyFile
    /\ pc \in {"l1", "l2", "directory", "primary"} =>
         file.primary = Placeholder /\ file.protected.written = TRUE
    /\ pc \in {"directory", "primary"} =>
         /\ file.digests.written = TRUE
         /\ file.digests.at = cluster_offset
         /\ file.digests.digest_table = digest_table
    /\ pc = "primary" =>
         /\ file.directory.written = TRUE
         /\ file.directory.digest_table_offset = file.digests.at
    /\ PrimaryHeaderLast

\* Only the last step completes the primary header, and it finds every other
\* section written.
LEMMA SectionsStep ==
    ASSUME TypeInv, Region, Sections, [Next]_vars
    PROVE  Sections'
<1>1. CASE WriteHeaders
  <2>1. /\ file'.primary = Placeholder /\ file'.protected.written = TRUE
        /\ pc' = "l1"
    BY <1>1 DEF WriteHeaders, TypeInv, TypeOK
  <2>2. QED
    BY <2>1 DEF Sections, PrimaryHeaderLast
<1>2. CASE WriteCluster
  <2>1. /\ file'.primary = file.primary /\ file'.protected = file.protected
        /\ pc = "l2" /\ pc' \in {"l1", "l2"}
    BY <1>2, WriteClusterEffect, NextEntryType DEF WriteCluster
  <2>2. QED
    BY <2>1 DEF Sections, PrimaryHeaderLast
<1>3. CASE ReuseCluster \/ SkipEntry
  <2>1. file' = file /\ pc = "l2" /\ pc' \in {"l1", "l2"}
    BY <1>3, NextEntryType DEF ReuseCluster, SkipEntry, loopVars
  <2>2. QED
    BY <2>1 DEF Sections, PrimaryHeaderLast
<1>4. CASE SkipL2Table \/ EnterL2Table \/ NonceOutOfBounds
  <2>1. file' = file /\ pc \in {"l1", "l2"} /\ pc' \in {"l1", "l2", "panic"}
    BY <1>4 DEF SkipL2Table, EnterL2Table, NonceOutOfBounds, loopVars
  <2>2. QED
    BY <2>1 DEF Sections, PrimaryHeaderLast
<1>5. CASE WriteDigestTable
  <2>1. /\ file'.primary = file.primary /\ file'.protected = file.protected
        /\ file'.digests.written = TRUE /\ file'.digests.at = cluster_offset
        /\ file'.digests.digest_table = digest_table
        /\ cluster_offset' = cluster_offset /\ digest_table' = digest_table
        /\ pc = "l1" /\ pc' = "directory"
    BY <1>5 DEF WriteDigestTable, finishVars, TypeInv, TypeOK
  <2>2. QED
    BY <2>1 DEF Sections, PrimaryHeaderLast
<1>6. CASE WriteDirectory
  <2>1. /\ file'.primary = file.primary /\ file'.protected = file.protected
        /\ file'.digests = file.digests
        /\ file'.directory.written = TRUE
        /\ file'.directory.digest_table_offset = file.digests.at
        /\ cluster_offset' = cluster_offset /\ digest_table' = digest_table
        /\ pc = "directory" /\ pc' = "primary"
    BY <1>6 DEF WriteDirectory, finishVars, TypeInv, TypeOK
  <2>2. QED
    BY <2>1 DEF Sections, PrimaryHeaderLast
<1>7. CASE WritePrimaryHeader
  <2>1. /\ file'.primary.directory_offset = file.directory.at
        /\ file'.protected = file.protected /\ file'.digests = file.digests
        /\ file'.directory = file.directory /\ file'.clusters = file.clusters
        /\ digest_table' = digest_table
        /\ pc = "primary" /\ pc' = "done"
    BY <1>7 DEF WritePrimaryHeader, finishVars, TypeInv, TypeOK
  <2>2. file.digests.at =
          IF file.clusters = << >> THEN RegionStart
          ELSE ClusterEnd(file.clusters[Len(file.clusters)])
    BY <2>1 DEF Sections, Region, EndOfRegion
  <2>3. /\ file.protected.written = TRUE /\ file.digests.written = TRUE
        /\ file.directory.written = TRUE
        /\ file.directory.digest_table_offset = file.digests.at
        /\ file.digests.digest_table = digest_table
    BY <2>1 DEF Sections
  <2>4. PrimaryHeaderLast'
    BY <2>1, <2>2, <2>3 DEF PrimaryHeaderLast, ClusterEnd
  <2>5. QED
    BY <2>1, <2>4 DEF Sections
<1>8. CASE Fail
  <2>1. file' = file /\ digest_table' = digest_table /\ pc' = "failed"
    BY <1>8 DEF Fail, finishVars
  <2>2. QED
    BY <2>1 DEF Sections, PrimaryHeaderLast, ClusterEnd
<1>9. CASE UNCHANGED vars
  BY <1>9 DEF vars, Sections, PrimaryHeaderLast, ClusterEnd
<1>10. QED
  BY <1>1, <1>2, <1>3, <1>4, <1>5, <1>6, <1>7, <1>8, <1>9 DEF Next, Step

(***************************************************************************)
(* The inductive invariant, and the properties it implies.                 *)
(***************************************************************************)
ImageInv ==
    /\ TypeInv
    /\ Region
    /\ DigestsResolve
    /\ ClustersNamed
    /\ Deduplicated
    /\ Ordinals
    /\ FirstSeenAscending
    /\ Nonces
    /\ Sections

\* An empty file satisfies the invariant.
LEMMA ImageInvInit == Init => ImageInv
<1> SUFFICES ASSUME Init PROVE ImageInv
  OBVIOUS
<1>1. TypeInv
  BY InitType
<1>2. /\ file.clusters = << >> /\ digest_table = << >> /\ i = 0
      /\ cluster_offset = RegionStart /\ pc = "start"
      /\ file = EmptyFile /\ file.primary = Absent
  BY DEF Init, EmptyFile
<1>3. DOMAIN file.clusters = {} /\ DOMAIN digest_table = {} /\ Len(file.clusters) = 0
  BY <1>2
<1>4. Region
  BY <1>2, <1>3 DEF Region, EndOfRegion, BackToBack
<1>5. DigestsResolve /\ ClustersNamed /\ Deduplicated /\ FirstSeenAscending
  BY <1>3 DEF DigestsResolve, ClustersNamed, Deduplicated, FirstSeenAscending
<1>6. Ordinals
  <2>1. FirstIndices(digest_table) = {}
    BY <1>3 DEF FirstIndices
  <2>2. QED
    BY <2>1, <1>3, FS_EmptySet DEF Ordinals
<1>7. Nonces
  BY <1>2, <1>3 DEF Nonces
<1>8. Sections
  BY <1>2 DEF Sections, PrimaryHeaderLast
<1>9. QED
  BY <1>1, <1>4, <1>5, <1>6, <1>7, <1>8 DEF ImageInv

\* Every step of a build keeps it.
LEMMA ImageInvStep == ImageInv /\ [Next]_vars => ImageInv'
BY TypeStep, RegionStep, DigestsResolveStep, ClustersNamedStep, DeduplicatedStep,
   OrdinalsStep, FirstSeenAscendingStep, NoncesStep, SectionsStep DEF ImageInv

\* At every moment of a build, whatever fails and whenever it is stopped, the
\* inductive invariant holds of the file and of the builder's variables.
THEOREM ImageInvariant == Spec => []ImageInv
BY ImageInvInit, ImageInvStep, PTL DEF Spec

\* Every digest entry of the image under construction names a cluster in the
\* file that encodes the bytes of its digest.
THEOREM DigestsAlwaysResolve == Spec => []DigestsResolve
<1>1. ImageInv => DigestsResolve
  BY DEF ImageInv
<1>2. QED
  BY <1>1, ImageInvariant, PTL

\* No two clusters of an image encode the same bytes.
THEOREM AlwaysDeduplicated == Spec => []Deduplicated
<1>1. ImageInv => Deduplicated
  BY DEF ImageInv
<1>2. QED
  BY <1>1, ImageInvariant, PTL

\* The region can be streamed: clusters lie back to back in the order in which
\* the digest table first names them.
THEOREM AlwaysStreamOrder == Spec => []StreamOrder
<1>1. ImageInv => StreamOrder
  BY DEF ImageInv, StreamOrder, Region, BackToBack, FirstSeenAscending
<1>2. QED
  BY <1>1, ImageInvariant, PTL

\* The nonce at the ordinal a reader counts from the digest table is the nonce
\* the cluster was encrypted with.
THEOREM NoncesAlwaysAgree == Spec => []NonceAgreement
<1>1. ImageInv => NonceAgreement
  <2> SUFFICES ASSUME ImageInv, encrypted,
                      NEW k \in DOMAIN digest_table, NEW c \in DOMAIN file.clusters,
                      file.clusters[c].at = digest_table[k].cluster_offset
               PROVE  file.clusters[c].nonce = file.protected.nonce_table[
                        ClusterOrdinal(digest_table, digest_table[k].cluster_offset) + 1]
    BY DEF NonceAgreement
  <2>1. ClusterOrdinal(digest_table, digest_table[k].cluster_offset) = c - 1
    BY DEF ImageInv, Ordinals
  <2>2. c \in Nat
    BY DEF ImageInv, TypeInv, TypeOK
  <2>3. file.clusters[c].nonce = c /\ file.protected.nonce_table[c] = c
    BY DEF ImageInv, Nonces
  <2>4. QED
    BY <2>1, <2>2, <2>3
<1>2. QED
  BY <1>1, ImageInvariant, PTL

\* A primary header that names a directory is found only in a complete file.
THEOREM PrimaryHeaderAlwaysLast == Spec => []PrimaryHeaderLast
<1>1. ImageInv => PrimaryHeaderLast
  BY DEF ImageInv, Sections
<1>2. QED
  BY <1>1, ImageInvariant, PTL

(***************************************************************************)
(* The digest table against the disk.  These properties are about disks    *)
(* that are not faulty, and suppose DisksFit: the length to which the last *)
(* block is cut wraps past the end of the disk, the count in a u32.        *)
(***************************************************************************)

\* The positions of the blocks that hold data, and those of them passed.
Blocks == AllocatedIn(source.l1, L2Visible(source.l1, {}))
Held == {q \in Visited : source.l1[q[1]] # NoL2 /\ HasContents(source.l1[q[1]][q[2]])}

Passed(p, a, b) == p[1] < a \/ (p[1] = a /\ p[2] < b)

\* What the loops have seen of the disk is what lies before their position.
Position ==
    /\ block_offset = BlockOffset(x, y)
    /\ pc \in {"start", "l1"} => y = 1
    /\ pc \in {"directory", "primary", "done"} => x = Len(source.l1) + 1

\* Positions are finitely many.
LEMMA BlocksFinite ==
    ASSUME TypeOK
    PROVE  /\ IsFiniteSet(Blocks) /\ Cardinality(Blocks) \in Nat
           /\ Cardinality(Blocks) = count_clusters(source.l1, {})
<1> DEFINE visible == L2Visible(source.l1, {})
<1>1. IsFiniteSet(visible)
  <2>1. IsFiniteSet(1..Len(source.l1))
    BY SourceType, FS_Interval
  <2>2. visible \in SUBSET (1..Len(source.l1))
    BY SourceType DEF L2Visible
  <2>3. QED
    BY <2>1, <2>2, FS_Subset
<1>2. IsFiniteSet(visible \X (1..L2Entries))
  <2>1. IsFiniteSet(1..L2Entries)
    BY FS_Interval, QcowAssumption
  <2>2. QED
    BY <1>1, <2>1, FS_Product
<1>3. Blocks \in SUBSET (visible \X (1..L2Entries))
  BY DEF Blocks, AllocatedIn
<1>4. IsFiniteSet(Blocks)
  BY <1>2, <1>3, FS_Subset
<1>5. QED
  BY <1>4, FS_CardinalityType DEF count_clusters, Blocks

\* A position is a block that holds data, and one that was passed.
LEMMA BlockMeaning ==
    ASSUME TypeInv, NEW p
    PROVE  /\ p \in Blocks <=>
                /\ p \in (DOMAIN source.l1) \X (1..L2Entries)
                /\ source.l1[p[1]] # NoL2 /\ HasContents(source.l1[p[1]][p[2]])
           /\ p \in Held <=> p \in Blocks /\ Passed(p, x, y)
  BY DEF Passed, Blocks, Held, Visited, AllocatedIn, L2Visible, is_allocated, HasContents

\* Offsets grow by one block per entry and by a table per table.
LEMMA NextOffset ==
    ASSUME NEW a \in Nat, NEW b \in Nat
    PROVE  /\ BlockOffset(a, b) + ClusterSize = BlockOffset(a, b + 1)
           /\ BlockOffset(a, L2Entries) + ClusterSize = BlockOffset(a + 1, 1)
           /\ BlockOffset(a, 1) + ClusterSize * L2Entries = BlockOffset(a + 1, 1)
<1>1. ClusterSize \in Nat /\ L2Entries \in Nat
  BY QcowAssumption
<1>2. BlockOffset(a, b) + ClusterSize = BlockOffset(a, b + 1)
  BY <1>1 DEF BlockOffset
<1>3. ASSUME NEW m \in Int PROVE (m + L2Entries) * ClusterSize = m * ClusterSize + ClusterSize * L2Entries
  BY <1>1
<1>4. BlockOffset(a, 1) + ClusterSize * L2Entries = BlockOffset(a + 1, 1)
  <2>1. ((a + 1) - 1) * L2Entries = (a - 1) * L2Entries + L2Entries
    BY <1>1
  <2>2. (a - 1) * L2Entries \in Int
    BY <1>1
  <2>3. BlockOffset(a + 1, 1) = ((a - 1) * L2Entries + L2Entries) * ClusterSize
    BY <1>1, <2>1, <2>2 DEF BlockOffset
  <2>4. BlockOffset(a, 1) = ((a - 1) * L2Entries) * ClusterSize
    BY <1>1, <2>2 DEF BlockOffset
  <2>5. QED
    BY <1>3, <2>2, <2>3, <2>4
<1>5. BlockOffset(a, L2Entries) + ClusterSize = BlockOffset(a + 1, 1)
  <2>1. BlockOffset(a, L2Entries) + ClusterSize = BlockOffset(a, L2Entries + 1)
    BY <1>1 DEF BlockOffset
  <2>2. ((a + 1) - 1) * L2Entries = (a - 1) * L2Entries + L2Entries
    BY <1>1
  <2>3. QED
    BY <1>1, <2>1, <2>2 DEF BlockOffset
<1>6. QED
  BY <1>2, <1>4, <1>5

\* Moving on passes the current entry and no other.
LEMMA NextEntryPasses ==
    ASSUME TypeInv, Position, pc = "l2", NextEntry
    PROVE  /\ Position' /\ Blocks' = Blocks
           /\ block_offset' = block_offset + ClusterSize
           /\ Held' = IF HasContents(CurrentEntry) THEN Held \cup {<< x, y >>} ELSE Held
           /\ << x, y >> \notin Held /\ (HasContents(CurrentEntry) => << x, y >> \in Blocks)
<1>1. /\ x \in 1..Len(source.l1) /\ source.l1[x] # NoL2 /\ y \in 1..L2Entries
      /\ DOMAIN source.l1 = 1..Len(source.l1) /\ Len(source.l1) \in Nat
  BY SourceType DEF TypeInv, TypeOK, InTable
<1>2. L2Entries \in Nat /\ ClusterSize \in Nat
  BY QcowAssumption
<1>3. /\ block_offset' = block_offset + ClusterSize /\ source' = source
      /\ \/ y < L2Entries /\ y' = y + 1 /\ x' = x /\ pc' = pc
         \/ y = L2Entries /\ y' = 1 /\ x' = x + 1 /\ pc' = "l1"
  BY <1>1, <1>2 DEF NextEntry
<1>4. Position'
  <2>1. block_offset' = BlockOffset(x', y')
    <3>1. x \in Nat /\ y \in Nat /\ block_offset = BlockOffset(x, y)
      BY <1>1, <1>2 DEF Position
    <3>2. /\ BlockOffset(x, y) + ClusterSize = BlockOffset(x, y + 1)
          /\ BlockOffset(x, L2Entries) + ClusterSize = BlockOffset(x + 1, 1)
      BY <3>1, NextOffset
    <3>3. QED
      BY <1>3, <3>1, <3>2
  <2>2. QED
    BY <1>3, <2>1 DEF Position, BlockOffset
<1>5. Blocks' = Blocks
  BY <1>3 DEF Blocks
<1>6. << x, y >> \notin Held
  BY <1>1 DEF Held, Visited
<1>7. HasContents(CurrentEntry) => << x, y >> \in Blocks
  BY <1>1, BlockMeaning DEF CurrentEntry
<1>8. ASSUME NEW p \in Blocks
      PROVE  Passed(p, x', y') <=> Passed(p, x, y) \/ p = << x, y >>
  <2>1. p \in (1..Len(source.l1)) \X (1..L2Entries)
    BY <1>1, BlockMeaning
  <2>2. p[1] \in Nat /\ p[2] \in 1..L2Entries /\ p = << p[1], p[2] >>
    BY <1>1, <2>1
  <2>3. QED
    BY <1>1, <1>2, <1>3, <2>2 DEF Passed
<1>9. Held' = {p \in Blocks : Passed(p, x', y')}
  <2>1. Held' = {p \in (DOMAIN source.l1) \X (1..L2Entries) :
                    /\ source.l1[p[1]] # NoL2 /\ HasContents(source.l1[p[1]][p[2]])
                    /\ Passed(p, x', y')}
    BY <1>3 DEF Held, Visited, Passed
  <2>2. QED
    BY <2>1, BlockMeaning
<1>10. Held = {p \in Blocks : Passed(p, x, y)}
  BY BlockMeaning
<1>11. << x, y >> \in Blocks => HasContents(CurrentEntry)
  BY BlockMeaning DEF CurrentEntry
<1>12. QED
  BY <1>3, <1>4, <1>5, <1>6, <1>7, <1>8, <1>9, <1>10, <1>11

\* The loops go over the entries in order.
LEMMA PositionStep ==
    ASSUME TypeInv, Position, [Next]_vars
    PROVE  Position' /\ Blocks' = Blocks
<1>1. CASE WriteHeaders
  BY <1>1 DEF WriteHeaders, Position, Blocks, BlockOffset
<1>2. CASE SkipL2Table
  <2>1. /\ pc = "l1" /\ pc' = pc /\ x' = x + 1 /\ y' = y /\ source' = source
        /\ block_offset' = block_offset + ClusterSize * L2Entries /\ x \in Nat
    BY <1>2, SourceType DEF SkipL2Table, TypeInv, TypeOK
  <2>2. y = 1 /\ block_offset = BlockOffset(x, 1)
    BY <2>1 DEF Position
  <2>3. block_offset' = BlockOffset(x', y')
    BY <2>1, <2>2, NextOffset
  <2>4. QED
    BY <2>1, <2>2, <2>3 DEF Position, Blocks, BlockOffset
<1>3. CASE EnterL2Table
  <2>1. /\ pc = "l1" /\ pc' = "l2" /\ x' = x /\ y' = 1 /\ source' = source
        /\ block_offset' = block_offset
    BY <1>3 DEF EnterL2Table
  <2>2. QED
    BY <2>1 DEF Position, Blocks, BlockOffset
<1>4. CASE SkipEntry \/ WriteCluster \/ ReuseCluster
  BY <1>4, NextEntryPasses DEF SkipEntry, WriteCluster, ReuseCluster
<1>5. CASE NonceOutOfBounds \/ Fail
  BY <1>5 DEF NonceOutOfBounds, Fail, finishVars, Position, Blocks, BlockOffset
<1>6. CASE WriteDigestTable
  <2>1. /\ pc = "l1" /\ x \notin DOMAIN source.l1 /\ source' = source
        /\ x' = x /\ y' = y /\ block_offset' = block_offset
    BY <1>6 DEF WriteDigestTable, finishVars
  <2>2. x = Len(source.l1) + 1
    <3>1. DOMAIN source.l1 = 1..Len(source.l1) /\ Len(source.l1) \in Nat
      BY SourceType DEF TypeInv
    <3>2. x \in 1..Len(source.l1) + 1
      BY DEF TypeInv, TypeOK
    <3>3. QED
      BY <2>1, <3>1, <3>2
  <2>3. QED
    BY <1>6, <2>1, <2>2 DEF WriteDigestTable, Position, Blocks, BlockOffset
<1>7. CASE WriteDirectory \/ WritePrimaryHeader
  BY <1>7 DEF WriteDirectory, WritePrimaryHeader, finishVars, Position, Blocks, BlockOffset
<1>8. CASE UNCHANGED vars
  BY <1>8 DEF vars, Position, Blocks, BlockOffset
<1>9. QED
  BY <1>1, <1>2, <1>3, <1>4, <1>5, <1>6, <1>7, <1>8 DEF Next, Step

\* A step that records no block passes none.
LEMMA HeldKept ==
    ASSUME TypeInv, Position, [Next]_vars, ~source.faulty, ~WriteCluster, ~ReuseCluster
    PROVE  Held' = Held /\ block_offset' >= block_offset /\ source' = source
<1>1. CASE WriteHeaders \/ NonceOutOfBounds \/ Fail \/ UNCHANGED vars
           \/ WriteDigestTable \/ WriteDirectory \/ WritePrimaryHeader
  <2>1. source' = source /\ x' = x /\ y' = y /\ block_offset' = block_offset
    BY <1>1 DEF WriteHeaders, NonceOutOfBounds, Fail, vars, WriteDigestTable, WriteDirectory,
       WritePrimaryHeader, finishVars
  <2>2. QED
    BY <2>1 DEF Held, Visited, TypeInv, TypeOK
<1>2. CASE SkipL2Table
  <2>1. /\ pc = "l1" /\ x' = x + 1 /\ y' = y /\ y = 1 /\ source' = source /\ source.l1[x] = NoL2
        /\ block_offset' = block_offset + ClusterSize * L2Entries /\ x \in 1..Len(source.l1)
    <3>1. DOMAIN source.l1 = 1..Len(source.l1)
      BY SourceType DEF TypeInv
    <3>2. QED
      BY <1>2, <3>1 DEF SkipL2Table, Position
  <2>2. ClusterSize * L2Entries \in Nat /\ block_offset \in Nat
    BY QcowAssumption DEF TypeInv, TypeOK
  <2>3. ASSUME NEW p \in (DOMAIN source.l1) \X (1..L2Entries), source.l1[p[1]] # NoL2
        PROVE  Passed(p, x + 1, 1) <=> Passed(p, x, 1)
    <3>1. p[1] \in 1..Len(source.l1) /\ p[2] \in 1..L2Entries /\ p[1] # x
      BY <2>1, <2>3, SourceType DEF TypeInv
    <3>2. QED
      BY <2>1, <3>1, SourceType, QcowAssumption DEF Passed, TypeInv
  <2>4. Held' = {q \in (DOMAIN source.l1) \X (1..L2Entries) :
                    Passed(q, x + 1, 1) /\ source.l1[q[1]] # NoL2 /\ HasContents(source.l1[q[1]][q[2]])}
    BY <2>1 DEF Held, Visited, Passed
  <2>5. Held = {q \in (DOMAIN source.l1) \X (1..L2Entries) :
                    Passed(q, x, 1) /\ source.l1[q[1]] # NoL2 /\ HasContents(source.l1[q[1]][q[2]])}
    BY <2>1 DEF Held, Visited, Passed
  <2>6. Held' = Held
    BY <2>3, <2>4, <2>5
  <2>7. QED
    BY <2>1, <2>2, <2>6
<1>3. CASE EnterL2Table
  <2>1. source' = source /\ x' = x /\ y' = y /\ block_offset' = block_offset
    BY <1>3 DEF EnterL2Table, Position
  <2>2. QED
    BY <2>1 DEF Held, Visited, TypeInv, TypeOK
<1>4. CASE SkipEntry
  <2>1. pc = "l2" /\ NextEntry /\ ~HasContents(CurrentEntry) /\ source' = source
    BY <1>4 DEF SkipEntry, NextEntry
  <2>2. Held' = Held /\ block_offset' = block_offset + ClusterSize
    BY <2>1, NextEntryPasses
  <2>3. QED
    BY <2>1, <2>2, QcowAssumption DEF TypeInv, TypeOK
<1>5. QED
  BY <1>1, <1>2, <1>3, <1>4 DEF Next, Step

\* The digest table lists the blocks passed, in order.
Entries(table) == {<< e.block_offset, e.digest >> : e \in {table[k] : k \in DOMAIN table}}

Listing ==
    /\ Entries(digest_table) = {<< BlockOffset(p[1], p[2]), SourceBlock(p) >> : p \in Held}
    /\ \A j, k \in DOMAIN digest_table :
         j < k => digest_table[j].block_offset < digest_table[k].block_offset
    /\ \A k \in DOMAIN digest_table : digest_table[k].block_offset < block_offset
    /\ Len(digest_table) = Cardinality(Held)

\* The bytes recorded are those of the disk, also for the block it cuts.
LEMMA BlockDataIsSource ==
    ASSUME DisksFit, TypeInv, Position, ~source.faulty, pc = "l2", HasContents(CurrentEntry)
    PROVE  BlockData = SourceBlock(<< x, y >>)
<1>1. << x, y >> \in Blocks
  <2>1. x \in DOMAIN source.l1 /\ source.l1[x] # NoL2 /\ y \in 1..L2Entries
    BY DEF TypeInv, TypeOK, InTable
  <2>2. QED
    BY <2>1, BlockMeaning DEF CurrentEntry
<1>2. source \in Qcows /\ source.size \in Nat \ {0} /\ U64 \in Nat \ {0} /\ source.size < U64
  BY SourceType, ImageBuildAssumption DEF DisksFit, TypeInv, TypeOK
<1>3. BlockOffset(x, y) < source.size
  BY <1>1, <1>2 DEF DisksFit, Blocks
<1>4. block_offset = BlockOffset(x, y) /\ block_offset \in Nat
  BY DEF Position, TypeInv, TypeOK
<1>5. (source.size - block_offset) % U64 = source.size - block_offset
  <2>1. source.size - block_offset \in 0..U64 - 1
    BY <1>2, <1>3, <1>4
  <2>2. QED
    BY <1>2, <2>1
<1>6. QED
  BY <1>4, <1>5 DEF BlockData, SourceBlock, CutAtEnd, CurrentEntry

\* The offsets of the entries are numbers.
LEMMA OffsetsType ==
    ASSUME TypeInv
    PROVE  \A k \in DOMAIN digest_table : digest_table[k].block_offset \in Nat
<1>1. \A k \in DOMAIN digest_table : digest_table[k] \in DigestTableEntry
  BY DEF TypeInv, TypeOK
<1>2. QED
  BY <1>1 DEF DigestTableEntry

\* Recording the current block keeps the list.
LEMMA ListingGrows ==
    ASSUME DisksFit, TypeInv, Position, Listing, ~source.faulty, pc = "l2", HasContents(CurrentEntry),
           NextEntry, source' = source, NEW o, Grows(digest_table, NewEntry(o), digest_table')
    PROVE  Listing' /\ Len(digest_table') = Len(digest_table) + 1 /\ Len(digest_table) < Cardinality(Blocks)
<1>1. /\ block_offset' = block_offset + ClusterSize /\ Held' = Held \cup {<< x, y >>}
      /\ << x, y >> \notin Held /\ << x, y >> \in Blocks
  BY NextEntryPasses
<1>2. Held \in SUBSET Blocks /\ IsFiniteSet(Blocks) /\ Cardinality(Blocks) \in Nat
  BY BlockMeaning, BlocksFinite DEF TypeInv
<1>3. IsFiniteSet(Held) /\ Cardinality(Held) \in Nat
  BY <1>2, FS_Subset, FS_CardinalityType
<1>4. Cardinality(Held') = Cardinality(Held) + 1
  BY <1>1, <1>3, FS_AddElement
<1>5. Cardinality(Held') <= Cardinality(Blocks)
  <2>1. Held' \in SUBSET Blocks
    BY <1>1, <1>2
  <2>2. QED
    BY <1>2, <2>1, FS_Subset
<1> DEFINE n == Len(digest_table)
           new == NewEntry(o)
<1>6. /\ DOMAIN digest_table = 1..n /\ n \in Nat /\ DOMAIN digest_table' = 1..n + 1
      /\ Len(digest_table') = n + 1 /\ digest_table'[n + 1] = new
      /\ \A k \in 1..n : digest_table'[k] = digest_table[k]
  BY DEF Grows
<1>7. new.block_offset = block_offset /\ new.digest = BlockData
  BY DEF NewEntry
<1> HIDE DEF new
<1>8. Entries(digest_table') = Entries(digest_table) \cup {<< block_offset, BlockData >>}
  <2>1. \A k : k \in 1..n + 1 <=> k \in 1..n \/ k = n + 1
    BY <1>6
  <2>2. {digest_table'[k] : k \in DOMAIN digest_table'} = {digest_table[k] : k \in DOMAIN digest_table} \cup {new}
    BY <1>6, <2>1
  <2>3. QED
    BY <1>7, <2>2 DEF Entries
<1>9. {<< BlockOffset(p[1], p[2]), SourceBlock(p) >> : p \in Held \cup {<< x, y >>}}
        = {<< BlockOffset(p[1], p[2]), SourceBlock(p) >> : p \in Held} \cup {<< BlockOffset(x, y), SourceBlock(<< x, y >>) >>}
  OBVIOUS
<1>10. Entries(digest_table') = {<< BlockOffset(p[1], p[2]), SourceBlock(p) >> : p \in Held'}
  BY <1>1, <1>8, <1>9, BlockDataIsSource DEF Listing, Position
<1>11. block_offset \in Nat /\ ClusterSize \in Nat \ {0}
       /\ \A k \in 1..n : digest_table[k].block_offset \in Nat
  BY <1>6, OffsetsType, QcowAssumption DEF TypeInv, TypeOK
<1>12. \A k \in DOMAIN digest_table' : digest_table'[k].block_offset < block_offset'
  BY <1>1, <1>6, <1>7, <1>11 DEF Listing
<1>13. \A j, k \in DOMAIN digest_table' :
         j < k => digest_table'[j].block_offset < digest_table'[k].block_offset
  BY <1>6, <1>7 DEF Listing
<1>14. {<< BlockOffset(p[1], p[2]), SourceBlock(p) >> : p \in Held}'
         = {<< BlockOffset(p[1], p[2]), SourceBlock(p) >> : p \in Held'}
  BY DEF SourceBlock, BlockOffset
<1>15. Entries(digest_table)' = {<< BlockOffset(p[1], p[2]), SourceBlock(p) >> : p \in Held}'
  BY <1>10, <1>14 DEF Entries
<1>16. Len(digest_table') = Cardinality(Held')
  BY <1>4, <1>6 DEF Listing
<1>17. Len(digest_table) < Cardinality(Blocks)
  BY <1>2, <1>3, <1>4, <1>5, <1>6 DEF Listing
<1>18. Listing'
  BY <1>12, <1>13, <1>15, <1>16 DEF Listing
<1>19. QED
  BY <1>6, <1>17, <1>18

\* The list follows the loops.
LEMMA ListingStep ==
    ASSUME DisksFit, TypeInv, Position, ~source.faulty, Listing, [Next]_vars
    PROVE  Listing'
<1>1. CASE WriteCluster
  BY <1>1, WriteClusterEffect, ListingGrows DEF WriteCluster, NextEntry
<1>2. CASE ReuseCluster
  BY <1>2, ReuseClusterEffect, ListingGrows DEF ReuseCluster, NextEntry
<1>3. CASE ~WriteCluster /\ ~ReuseCluster
  <2>1. digest_table' = digest_table
    BY <1>3, StepKinds DEF RegionUnchanged
  <2>2. Held' = Held /\ block_offset' >= block_offset /\ source' = source
    BY <1>3, HeldKept
  <2>3. \A p : SourceBlock(p)' = SourceBlock(p)
    BY <2>2 DEF SourceBlock, BlockOffset
  <2>4. block_offset \in Nat /\ block_offset' \in Nat /\ \A k \in DOMAIN digest_table : digest_table[k].block_offset \in Nat
    BY TypeStep, OffsetsType DEF TypeInv, TypeOK
  <2>5. QED
    BY <2>1, <2>2, <2>3, <2>4 DEF Listing, Entries
<1>4. QED
  BY <1>1, <1>2, <1>3

\* Before the first step nothing was passed and nothing is listed.
LEMMA ListingInit == Init => Position /\ Listing
<1> SUFFICES ASSUME Init PROVE Position /\ Listing
  OBVIOUS
<1>1. TypeInv
  BY InitType
<1>2. x = 1 /\ y = 1 /\ block_offset = 0 /\ digest_table = << >> /\ pc = "start"
  BY DEF Init
<1>3. Position
  BY <1>2, QcowAssumption DEF Position, BlockOffset
<1>4. Held = {}
  <2>1. ASSUME NEW p \in Visited PROVE FALSE
    <3>1. p \in (1..Len(source.l1)) \X (1..L2Entries) /\ (p[1] < 1 \/ (p[1] = 1 /\ p[2] < 1))
      BY <1>1, <1>2, SourceType DEF Visited, TypeInv
    <3>2. p[1] \in 1..Len(source.l1) /\ p[2] \in 1..L2Entries
      BY <3>1
    <3>3. p[1] >= 1 /\ p[2] >= 1
      BY <1>1, <3>2, SourceType, QcowAssumption DEF TypeInv
    <3>4. p[1] \in Int /\ p[2] \in Int
      BY <1>1, <3>2, SourceType, QcowAssumption DEF TypeInv
    <3>5. QED
      BY <3>1, <3>3, <3>4
  <2>2. QED
    BY <2>1 DEF Held
<1>5. Cardinality(Held) = 0
  BY <1>4, FS_EmptySet
<1>6. Entries(digest_table) = {}
  BY <1>2 DEF Entries
<1>7. QED
  BY <1>2, <1>3, <1>4, <1>5, <1>6 DEF Listing

\* The count of clusters is what the blocks to come may still need: one is
\* discounted for each block that needed none.
Counts ==
    /\ pc # "panic"
    /\ pc \notin {"start", "failed"} =>
         /\ cluster_count + Len(digest_table) = Cardinality(Blocks) + i
         /\ cluster_count < U32
         /\ encrypted => Len(nonce_table) = cluster_count
         /\ digest_count = Cardinality(Blocks)
    /\ pc \in {"directory", "primary", "done"} =>
         /\ file.digests.digest_count = digest_count
         /\ file.digests.digest_table = digest_table

\* The counts after the headers are written.
LEMMA CountsStart ==
    ASSUME DisksFit, ImageInv, ~source.faulty, WriteHeaders
    PROVE  Counts'
<1>1. TypeInv /\ source \in Qcows
  BY DEF ImageInv, TypeInv, TypeOK
<1>2. PICK unreadable \in {{}} :
         cluster_count' = count_clusters(source.l1, unreadable) % U32
  BY DEF WriteHeaders
<1>3. count_clusters(source.l1, {}) = Cardinality(Blocks) /\ Cardinality(Blocks) \in Nat
  BY <1>1, BlocksFinite DEF TypeInv
<1>4. U32 \in Nat \ {0} /\ Cardinality(Blocks) < U32
  BY <1>1, <1>3, ImageBuildAssumption DEF DisksFit
<1>5. Cardinality(Blocks) % U32 = Cardinality(Blocks)
  BY <1>3, <1>4
<1>6. cluster_count' = Cardinality(Blocks)
  BY <1>2, <1>3, <1>5
<1>7. /\ pc = "start" /\ pc' = "l1" /\ digest_count' = cluster_count' /\ source' = source
      /\ i' = i /\ digest_table' = digest_table /\ encrypted' = encrypted
      /\ nonce_table' = IF encrypted THEN [k \in 1..cluster_count' |-> k] ELSE << >>
  BY DEF WriteHeaders
<1>8. digest_table = << >> /\ file.clusters = << >> /\ i = 0
  <2>1. file = EmptyFile /\ digest_table = << >>
    BY <1>7 DEF ImageInv, Nonces
  <2>2. file.clusters = << >>
    BY <2>1 DEF EmptyFile
  <2>3. QED
    BY <2>1, <2>2 DEF ImageInv, Region
<1>9. Blocks' = Blocks
  BY <1>7 DEF Blocks
<1>10. encrypted => Len(nonce_table') = cluster_count'
  BY <1>3, <1>6, <1>7
<1>11. Len(digest_table') = 0
  BY <1>7, <1>8
<1>12. QED
  BY <1>3, <1>4, <1>6, <1>7, <1>8, <1>9, <1>10, <1>11 DEF Counts

\* A new cluster takes one of those counted.
LEMMA CountsWrite ==
    ASSUME DisksFit, ImageInv, Position, Listing, Counts, ~source.faulty, WriteCluster
    PROVE  Counts'
<1>1. TypeInv
  BY DEF ImageInv
<1>2. pc = "l2" /\ HasContents(CurrentEntry) /\ NextEntry /\ source' = source
      /\ cluster_count' = cluster_count /\ nonce_table' = nonce_table
      /\ digest_count' = digest_count
  BY DEF WriteCluster, NextEntry
<1>3. pc' \in {"l1", "l2"}
  BY <1>2 DEF NextEntry
<1>4. i' = i + 1 /\ encrypted' = encrypted
      /\ Grows(digest_table, NewEntry(cluster_offset), digest_table')
  BY <1>1, WriteClusterEffect
<1>5. Len(digest_table') = Len(digest_table) + 1 /\ Len(digest_table) \in Nat
  BY <1>4 DEF Grows
<1>6. Blocks' = Blocks
  BY <1>2 DEF Blocks
<1>7. cluster_count \in Nat /\ i \in Nat /\ Cardinality(Blocks) \in Nat
  BY <1>1, BlocksFinite DEF TypeInv, TypeOK
<1>8. QED
  BY <1>2, <1>3, <1>4, <1>5, <1>6, <1>7 DEF Counts

\* A block that reuses a cluster gives one back, with its nonce.
LEMMA CountsReuse ==
    ASSUME DisksFit, ImageInv, Position, Listing, Counts, ~source.faulty, ReuseCluster
    PROVE  Counts'
<1>1. TypeInv
  BY DEF ImageInv
<1>2. pc = "l2" /\ HasContents(CurrentEntry) /\ NextEntry /\ source' = source
      /\ cluster_count' = (cluster_count - 1) % U32 /\ digest_count' = digest_count
      /\ nonce_table' = IF nonce_table = << >> THEN << >>
                        ELSE SubSeq(nonce_table, 1, Len(nonce_table) - 1)
  BY DEF ReuseCluster, NextEntry
<1>3. pc' \in {"l1", "l2"}
  BY <1>2 DEF NextEntry
<1>4. PICK k \in DOMAIN digest_table :
         Grows(digest_table, NewEntry(digest_table[k].cluster_offset), digest_table')
  BY <1>1, ReuseClusterEffect
<1>5. i' = i /\ encrypted' = encrypted
  BY <1>1, ReuseClusterEffect
<1>6. Len(digest_table') = Len(digest_table) + 1 /\ Len(digest_table) < Cardinality(Blocks)
  BY <1>1, <1>2, <1>4, ListingGrows
<1>7. cluster_count \in Nat /\ i \in Nat /\ Cardinality(Blocks) \in Nat /\ Len(digest_table) \in Nat
  BY <1>1, <1>4, BlocksFinite DEF TypeInv, TypeOK, Grows
<1>8. /\ cluster_count + Len(digest_table) = Cardinality(Blocks) + i /\ cluster_count < U32
      /\ encrypted => Len(nonce_table) = cluster_count
      /\ digest_count = Cardinality(Blocks)
  BY <1>2 DEF Counts
<1>9. cluster_count >= 1
  BY <1>6, <1>7, <1>8
<1>10. U32 \in Nat \ {0} /\ cluster_count - 1 \in 0..U32 - 1
  BY <1>7, <1>8, <1>9, ImageBuildAssumption
<1>11. cluster_count' = cluster_count - 1
  BY <1>2, <1>10
<1>12. encrypted => Len(nonce_table') = cluster_count'
  <2>1. HAVE encrypted
  <2>2. nonce_table \in Seq(Nat) /\ Len(nonce_table) = cluster_count
    BY <1>1, <1>8, <2>1 DEF TypeInv, TypeOK
  <2>3. nonce_table # << >>
    BY <1>9, <2>2
  <2>4. Len(SubSeq(nonce_table, 1, Len(nonce_table) - 1)) = Len(nonce_table) - 1
    BY <1>9, <2>2
  <2>5. QED
    BY <1>2, <1>11, <2>2, <2>3, <2>4
<1>13. Blocks' = Blocks
  BY <1>2 DEF Blocks
<1>14. cluster_count' + Len(digest_table') = Cardinality(Blocks) + i
  <2>1. (cluster_count - 1) + (Len(digest_table) + 1) = cluster_count + Len(digest_table)
    BY <1>7
  <2>2. QED
    BY <1>6, <1>8, <1>11, <2>1
<1>15. cluster_count' < U32
  BY <1>7, <1>8, <1>10, <1>11
<1>16. QED
  BY <1>2, <1>3, <1>5, <1>8, <1>12, <1>13, <1>14, <1>15 DEF Counts

\* A nonce is left for every block that needs a cluster.
LEMMA NonceLeft ==
    ASSUME DisksFit, ImageInv, Position, Listing, Counts, ~source.faulty
    PROVE  ~NonceOutOfBounds
<1>1. SUFFICES ASSUME NonceOutOfBounds PROVE FALSE
  OBVIOUS
<1>2. TypeInv /\ pc = "l2" /\ HasContents(CurrentEntry) /\ encrypted /\ i >= Len(nonce_table)
  BY <1>1 DEF ImageInv, NonceOutOfBounds
<1>3. << x, y >> \in Blocks /\ << x, y >> \notin Held
  <2>1. x \in DOMAIN source.l1 /\ source.l1[x] # NoL2 /\ y \in 1..L2Entries
    BY <1>2 DEF TypeInv, TypeOK, InTable
  <2>2. << x, y >> \in Blocks
    BY <1>2, <2>1, BlockMeaning DEF CurrentEntry
  <2>3. x \in 1..Len(source.l1) /\ Len(source.l1) \in Nat
    BY <1>2, <2>1, SourceType DEF TypeInv
  <2>4. QED
    BY <2>1, <2>2, <2>3, QcowAssumption DEF Held, Visited
<1>4. IsFiniteSet(Blocks) /\ Held \in SUBSET Blocks /\ Cardinality(Blocks) \in Nat
  BY <1>2, BlockMeaning, BlocksFinite DEF TypeInv
<1>5. IsFiniteSet(Held) /\ Cardinality(Held) \in Nat
  BY <1>4, FS_Subset, FS_CardinalityType
<1>6. Cardinality(Held) < Cardinality(Blocks)
  <2>1. Cardinality(Held \cup {<< x, y >>}) = Cardinality(Held) + 1
    BY <1>3, <1>5, FS_AddElement
  <2>2. Held \cup {<< x, y >>} \in SUBSET Blocks
    BY <1>3, <1>4
  <2>3. Cardinality(Held \cup {<< x, y >>}) <= Cardinality(Blocks)
    BY <1>4, <2>2, FS_Subset
  <2>4. QED
    BY <1>4, <1>5, <2>1, <2>3
<1>7. i \in Nat /\ cluster_count \in Nat
  BY <1>2 DEF TypeInv, TypeOK
<1>8. cluster_count + Cardinality(Held) = Cardinality(Blocks) + i /\ Len(nonce_table) = cluster_count
  BY <1>2 DEF Counts, Listing
<1>9. QED
  BY <1>2, <1>4, <1>5, <1>6, <1>7, <1>8

\* The counts follow the loops.
LEMMA CountsStep ==
    ASSUME DisksFit, ImageInv, Position, Listing, Counts, ~source.faulty, [Next]_vars
    PROVE  Counts'
<1>1. CASE WriteHeaders
  BY <1>1, CountsStart
<1>2. CASE WriteCluster
  BY <1>2, CountsWrite
<1>3. CASE ReuseCluster
  BY <1>3, CountsReuse
<1>4. CASE NonceOutOfBounds
  BY <1>4, NonceLeft
<1>5. CASE SkipL2Table \/ EnterL2Table \/ SkipEntry
  <2>1. /\ pc \in {"l1", "l2"} /\ pc' \in {"l1", "l2"} /\ source' = source /\ encrypted' = encrypted
        /\ digest_count' = digest_count /\ i' = i /\ cluster_count' = cluster_count
        /\ nonce_table' = nonce_table /\ digest_table' = digest_table
    BY <1>5 DEF SkipL2Table, EnterL2Table, SkipEntry, NextEntry, loopVars
  <2>2. QED
    BY <2>1 DEF Counts, Blocks
<1>6. CASE WriteDigestTable
  <2>1. /\ pc = "l1" /\ pc' = "directory" /\ source' = source /\ encrypted' = encrypted
        /\ digest_count' = digest_count /\ i' = i /\ cluster_count' = cluster_count
        /\ nonce_table' = nonce_table /\ digest_table' = digest_table
    BY <1>6 DEF WriteDigestTable, finishVars
  <2>2. file'.digests.digest_count = digest_count /\ file'.digests.digest_table = digest_table
    BY <1>6 DEF WriteDigestTable, ImageInv, TypeInv, TypeOK
  <2>3. QED
    BY <2>1, <2>2 DEF Counts, Blocks
<1>7. CASE WriteDirectory \/ WritePrimaryHeader
  <2>1. /\ pc \in {"directory", "primary"} /\ pc' \in {"primary", "done"} /\ source' = source
        /\ digest_count' = digest_count /\ i' = i /\ cluster_count' = cluster_count
        /\ nonce_table' = nonce_table /\ digest_table' = digest_table /\ encrypted' = encrypted
    BY <1>7 DEF WriteDirectory, WritePrimaryHeader, finishVars
  <2>2. file'.digests = file.digests
    BY <1>7 DEF WriteDirectory, WritePrimaryHeader, ImageInv, TypeInv, TypeOK
  <2>3. QED
    BY <2>1, <2>2 DEF Counts, Blocks
<1>8. CASE Fail
  BY <1>8 DEF Fail, Counts
<1>9. CASE UNCHANGED vars
  BY <1>9 DEF vars, Counts, Blocks
<1>10. QED
  BY <1>1, <1>2, <1>3, <1>4, <1>5, <1>6, <1>7, <1>8, <1>9 DEF Next, Step

\* What holds of the pass over a disk that is not faulty.
SourceInv == ImageInv /\ Position /\ (~source.faulty => Listing /\ Counts)

\* The pass over a disk keeps its table, its counts and its position in step.
THEOREM SourceInvariant == ASSUME DisksFit PROVE Spec => []SourceInv
<1>1. Init => SourceInv
  BY ImageInvInit, ListingInit DEF SourceInv, Counts, Init
<1>2. SourceInv /\ [Next]_vars => SourceInv'
  <2> SUFFICES ASSUME SourceInv, [Next]_vars PROVE SourceInv'
    OBVIOUS
  <2>1. TypeInv /\ ImageInv /\ Position
    BY DEF SourceInv, ImageInv
  <2>2. ImageInv'
    BY <2>1, ImageInvStep
  <2>3. Position'
    BY <2>1, PositionStep
  <2>4. source' = source
    BY DEF Next, Step, vars, WriteHeaders, SkipL2Table, EnterL2Table, SkipEntry, WriteCluster, ReuseCluster,
       NonceOutOfBounds, WriteDigestTable, WriteDirectory, WritePrimaryHeader, Fail, finishVars, NextEntry
  <2>5. ASSUME ~source.faulty PROVE Listing' /\ Counts'
    <3>1. Listing /\ Counts
      BY <2>5 DEF SourceInv
    <3>2. QED
      BY <2>1, <2>5, <3>1, ListingStep, CountsStep
  <2>6. QED
    BY <2>2, <2>3, <2>4, <2>5 DEF SourceInv
<1>3. QED
  BY <1>1, <1>2, PTL DEF Spec

\* The digest table lists the blocks of the visited entries that hold data, each
\* with its own bytes, in order: none is lost, doubled or mistaken for another.
THEOREM TableAlwaysMatchesSource == ASSUME DisksFit PROVE Spec => []TableMatchesSource
<1>1. SourceInv => TableMatchesSource
  BY DEF SourceInv, Listing, Entries, Held, TableMatchesSource
<1>2. QED
  BY <1>1, SourceInvariant, PTL

\* The nonce table is never exhausted: what was dropped from it for reused
\* clusters is never needed.
THEOREM NeverPanics == ASSUME DisksFit PROVE Spec => []NoPanic
<1>1. SourceInv => NoPanic
  BY DEF SourceInv, Counts, NoPanic
<1>2. QED
  BY <1>1, SourceInvariant, PTL

\* The finished handle counts the clusters, nonces and digests of its file.
THEOREM HandleAlwaysCounts == ASSUME DisksFit PROVE Spec => []HandleCounts
<1>1. ASSUME SourceInv PROVE HandleCounts
  <2>1. SUFFICES ASSUME pc = "done", ~source.faulty
                 PROVE  /\ cluster_count = Len(file.clusters)
                        /\ encrypted => Len(nonce_table) = Len(file.clusters)
                        /\ file.digests.digest_count = Len(file.digests.digest_table)
    BY DEF HandleCounts
  <2>2. ImageInv /\ TypeInv /\ Position /\ Listing /\ Counts /\ i = Len(file.clusters)
    BY <1>1, <2>1 DEF SourceInv, ImageInv, Region
  <2>3. Held = Blocks
    <3>1. x = Len(source.l1) + 1
      BY <2>1, <2>2 DEF Position
    <3>2. ASSUME NEW p \in Blocks PROVE Passed(p, x, y)
      <4>1. p[1] \in 1..Len(source.l1) /\ Len(source.l1) \in Nat
        BY <2>2, <3>2, BlockMeaning, SourceType DEF TypeInv
      <4>2. QED
        BY <3>1, <4>1 DEF Passed
    <3>3. QED
      BY <2>2, <3>2, BlockMeaning
  <2>4. Len(digest_table) = Cardinality(Blocks) /\ Cardinality(Blocks) \in Nat
    BY <2>2, <2>3, BlocksFinite DEF Listing, TypeInv
  <2>5. cluster_count \in Nat /\ i \in Nat
    BY <2>2 DEF TypeInv, TypeOK
  <2>6. QED
    BY <2>1, <2>2, <2>4, <2>5 DEF Counts
<1>2. QED
  BY <1>1, SourceInvariant, PTL

(***************************************************************************)
(* The finished file as its readers find it.                               *)
(***************************************************************************)

\* Clusters and blocks lie one after the other, and behind the current position of
\* the builder; a nonce is on disk for each cluster.
Laid ==
    /\ RegionStart <= cluster_offset
    /\ InOrder(file.clusters)
    /\ \A c \in DOMAIN file.clusters : ClusterEnd(file.clusters[c]) <= cluster_offset
    /\ encrypted => \A c \in DOMAIN file.clusters :
         Len(file.protected.nonce_table) \in Nat /\ c <= Len(file.protected.nonce_table)
    /\ \A k \in DOMAIN digest_table : digest_table[k].block_offset + ClusterSize <= block_offset
    /\ \A j, k \in DOMAIN digest_table : j < k =>
         digest_table[j].block_offset + ClusterSize <= digest_table[k].block_offset

\* No block recorded reaches past the end of the disk.
Inside ==
    \A k \in DOMAIN digest_table :
        digest_table[k].block_offset + Len(digest_table[k].digest) <= source.size

\* The current block, cut, ends within the disk.
LEMMA BlockInside ==
    ASSUME DisksFit, TypeInv, Position, ~source.faulty, pc = "l2", HasContents(CurrentEntry)
    PROVE  block_offset + Len(BlockData) <= source.size
<1> DEFINE contents == read_contents(CurrentEntry)
<1>1. contents \in Seq(Bytes) /\ Len(contents) = ClusterSize
  <2>1. contents \in Clusters
    BY CurrentEntryType, ContentsType
  <2>2. QED
    BY <2>1, QcowAssumption, LenProperties DEF Clusters
<1>2. BlockData = SourceBlock(<< x, y >>) /\ block_offset = BlockOffset(x, y)
  BY BlockDataIsSource DEF Position
<1>3. block_offset < source.size
  <2>1. x \in DOMAIN source.l1 /\ source.l1[x] # NoL2 /\ y \in 1..L2Entries
    BY DEF TypeInv, TypeOK, InTable
  <2>2. << x, y >> \in Blocks
    BY <2>1, BlockMeaning DEF CurrentEntry
  <2>3. QED
    BY <1>2, <2>2 DEF DisksFit, Blocks, TypeInv, TypeOK
<1>4. block_offset \in Nat /\ source.size \in Nat /\ ClusterSize \in Nat
  BY SourceType, QcowAssumption DEF TypeInv, TypeOK
<1>5. SourceBlock(<< x, y >>) = CutAtEnd(contents, block_offset, source.size, ClusterSize)
  BY <1>2 DEF SourceBlock, CurrentEntry
<1> HIDE DEF contents
<1>6. Len(Truncate(contents, source.size - block_offset)) <= source.size - block_offset
  <2>1. source.size - block_offset \in Nat
    BY <1>3, <1>4
  <2>2. QED
    BY <1>1, <1>4, <2>1, SubSeqProperties DEF Truncate
<1>7. CASE block_offset + ClusterSize > source.size
  <2>1. BlockData = Truncate(contents, source.size - block_offset)
    BY <1>2, <1>5, <1>7 DEF CutAtEnd
  <2>2. Len(BlockData) \in Nat
    BY BlockDataType, ImageBuildAssumption, <1>1, <1>3, <1>4, <2>1, SubSeqProperties DEF Truncate
  <2>3. QED
    BY <1>4, <1>6, <2>1, <2>2
<1>8. CASE ~(block_offset + ClusterSize > source.size)
  BY <1>1, <1>2, <1>4, <1>5, <1>8 DEF CutAtEnd
<1>9. QED
  BY <1>7, <1>8

\* A new cluster is put after the others, with the next nonce on disk.
LEMMA LaidWrite ==
    ASSUME TypeInv, Region, Nonces, Laid, WriteCluster
    PROVE  /\ RegionStart <= cluster_offset' /\ InOrder(file'.clusters)
           /\ \A c \in DOMAIN file'.clusters : ClusterEnd(file'.clusters[c]) <= cluster_offset'
           /\ encrypted' => \A c \in DOMAIN file'.clusters :
                /\ Len(file'.protected.nonce_table) \in Nat
                /\ c <= Len(file'.protected.nonce_table)
<1> DEFINE n == Len(file.clusters)
<1>1. /\ NewCluster.at = cluster_offset
      /\ cluster_offset' = ClusterEnd(NewCluster) /\ cluster_offset' > cluster_offset
      /\ file'.protected = file.protected /\ encrypted' = encrypted
  BY WriteClusterEffect DEF NewCluster
<1>2. /\ n \in Nat /\ DOMAIN file.clusters = 1..n /\ DOMAIN file'.clusters = 1..n + 1
      /\ file'.clusters[n + 1] = NewCluster
      /\ \A c \in 1..n : file'.clusters[c] = file.clusters[c]
  BY WriteClusterEffect DEF Grows
<1>3. cluster_offset \in Nat /\ cluster_offset' \in Nat /\ RegionStart \in Nat
  BY TypeStep, ImageFormatAssumption DEF Next, Step, TypeInv, TypeOK
<1>4. \A c \in 1..n : ClusterEnd(file.clusters[c]) \in Nat
  <2>1. \A c \in 1..n : file.clusters[c] \in Cluster
    BY DEF TypeInv, TypeOK
  <2>2. QED
    BY <2>1, ImageFormatAssumption DEF ClusterEnd, Cluster, SizeField
<1>5. RegionStart <= cluster_offset'
  BY <1>1, <1>3 DEF Laid
<1>6. ASSUME NEW c \in 1..n + 1
      PROVE  file'.clusters[c].at >= RegionStart /\ ClusterEnd(file'.clusters[c]) <= cluster_offset'
  <2>1. CASE c \in 1..n
    <3>1. file'.clusters[c] = file.clusters[c] /\ file.clusters[c].at >= RegionStart
          /\ ClusterEnd(file.clusters[c]) <= cluster_offset
      BY <1>2, <2>1 DEF Laid, InOrder
    <3>2. ClusterEnd(file.clusters[c]) \in Nat
      BY <1>4, <2>1
    <3>3. QED
      BY <1>1, <1>3, <3>1, <3>2
  <2>2. CASE c = n + 1
    BY <1>1, <1>2, <1>3, <2>2 DEF Laid
  <2>3. QED
    BY <1>2, <2>1, <2>2
<1>7. ASSUME NEW c \in 1..n + 1, NEW d \in 1..n + 1, c < d
      PROVE  ClusterEnd(file'.clusters[c]) <= file'.clusters[d].at
  <2>1. c \in 1..n
    BY <1>2, <1>7
  <2>2. CASE d \in 1..n
    BY <1>2, <1>7, <2>1, <2>2 DEF Laid, InOrder
  <2>3. CASE d = n + 1
    BY <1>1, <1>2, <2>1, <2>3 DEF Laid
  <2>4. QED
    BY <1>2, <2>2, <2>3
<1>8. InOrder(file'.clusters)
  BY <1>2, <1>6, <1>7 DEF InOrder
<1>9. encrypted => /\ n + 1 <= Len(file.protected.nonce_table)
                   /\ Len(file.protected.nonce_table) \in Nat
  <2>1. encrypted => i < Len(nonce_table) /\ i = n
    BY DEF WriteCluster, Region
  <2>2. encrypted => /\ Len(nonce_table) <= Len(file.protected.nonce_table)
                     /\ Len(file.protected.nonce_table) \in Nat
    BY DEF WriteCluster, Nonces
  <2>3. Len(nonce_table) \in Nat
    BY DEF TypeInv, TypeOK
  <2>4. QED
    BY <1>2, <2>1, <2>2, <2>3
<1>10. ASSUME encrypted, NEW c \in 1..n + 1
      PROVE  c <= Len(file.protected.nonce_table) /\ Len(file.protected.nonce_table) \in Nat
  <2>1. CASE c \in 1..n
    BY <1>2, <1>10, <2>1 DEF Laid
  <2>2. CASE c = n + 1
    BY <1>9, <1>10, <2>2
  <2>3. QED
    BY <1>2, <2>1, <2>2
<1>11. QED
  BY <1>1, <1>2, <1>5, <1>6, <1>8, <1>10

\* A block is recorded at the current offset, which then moves past it.
LEMMA LaidRecord ==
    ASSUME TypeInv, Laid, block_offset' = block_offset + ClusterSize,
           NEW o, Grows(digest_table, NewEntry(o), digest_table')
    PROVE  /\ \A k \in DOMAIN digest_table' : digest_table'[k].block_offset + ClusterSize <= block_offset'
           /\ \A j, k \in DOMAIN digest_table' : j < k =>
                digest_table'[j].block_offset + ClusterSize <= digest_table'[k].block_offset
<1> DEFINE n == Len(digest_table)
<1>1. /\ n \in Nat /\ DOMAIN digest_table = 1..n /\ DOMAIN digest_table' = 1..n + 1
      /\ digest_table'[n + 1].block_offset = block_offset
      /\ \A k \in 1..n : digest_table'[k] = digest_table[k]
  BY DEF Grows, NewEntry
<1>2. /\ block_offset \in Nat /\ ClusterSize \in Nat
      /\ \A k \in 1..n : digest_table[k].block_offset \in Nat
  BY <1>1, OffsetsType, QcowAssumption DEF TypeInv, TypeOK
<1>3. QED
  BY <1>1, <1>2 DEF Laid

\* The builder only moves forward.
LEMMA OffsetKept ==
    ASSUME TypeInv, [Next]_vars
    PROVE  block_offset' >= block_offset /\ source' = source
<1>1. /\ block_offset \in Nat /\ ClusterSize \in Nat /\ ClusterSize * L2Entries \in Nat
  BY QcowAssumption DEF TypeInv, TypeOK
<1>2. block_offset + ClusterSize >= block_offset /\ block_offset + ClusterSize * L2Entries >= block_offset
  BY <1>1
<1>3. /\ source' = source
      /\ \/ block_offset' = block_offset
         \/ block_offset' = block_offset + ClusterSize
         \/ block_offset' = block_offset + ClusterSize * L2Entries
  BY DEF Next, Step, vars, WriteHeaders, SkipL2Table, EnterL2Table, SkipEntry, WriteCluster, ReuseCluster,
       NonceOutOfBounds, WriteDigestTable, WriteDirectory, WritePrimaryHeader, Fail, finishVars, NextEntry
<1>4. QED
  BY <1>1, <1>2, <1>3

\* The protected header is written before the first cluster and never again.
LEMMA ProtectedKept ==
    ASSUME TypeInv, Nonces, [Next]_vars
    PROVE  encrypted' = encrypted /\ (file'.protected = file.protected \/ file.clusters = << >>)
<1>1. CASE WriteHeaders
  BY <1>1 DEF WriteHeaders, Nonces, EmptyFile
<1>2. CASE ~WriteHeaders
  BY <1>2 DEF Next, Step, vars, SkipL2Table, EnterL2Table, SkipEntry, WriteCluster, ReuseCluster, loopVars,
       NonceOutOfBounds, WriteDigestTable, WriteDirectory, WritePrimaryHeader, Fail, finishVars, NextEntry,
       TypeInv, TypeOK
<1>3. QED
  BY <1>1, <1>2

\* Every step keeps the clusters and the blocks in place.
LEMMA LaidStep ==
    ASSUME ImageInv, Position, Laid, [Next]_vars
    PROVE  Laid'
<1>1. TypeInv /\ Region /\ Nonces
  BY DEF ImageInv
<1>2. CASE WriteCluster
  <2>1. block_offset' = block_offset + ClusterSize /\ Grows(digest_table, NewEntry(cluster_offset), digest_table')
    BY <1>1, <1>2, WriteClusterEffect DEF WriteCluster, NextEntry
  <2>2. QED
    BY <1>1, <1>2, <2>1, LaidWrite, LaidRecord DEF Laid, InOrder, ClusterEnd
<1>3. CASE ReuseCluster
  <2>1. /\ block_offset' = block_offset + ClusterSize /\ \E o : Grows(digest_table, NewEntry(o), digest_table')
        /\ file' = file /\ cluster_offset' = cluster_offset /\ encrypted' = encrypted
    BY <1>1, <1>3, ReuseClusterEffect DEF ReuseCluster, NextEntry
  <2>2. QED
    BY <1>1, <2>1, LaidRecord DEF Laid, InOrder, ClusterEnd
<1>4. CASE ~WriteCluster /\ ~ReuseCluster
  <2>1. RegionUnchanged
    BY <1>1, <1>4, StepKinds
  <2>2. block_offset' >= block_offset
    BY <1>1, <1>4, OffsetKept
  <2>3. block_offset \in Nat /\ block_offset' \in Nat /\ \A k \in DOMAIN digest_table : digest_table[k].block_offset \in Nat
    BY <1>1, TypeStep, OffsetsType DEF TypeInv, TypeOK
  <2>4. /\ encrypted' = encrypted
        /\ file'.protected = file.protected \/ file.clusters = << >>
    BY <1>1, <1>4, ProtectedKept
  <2>5. QED
    BY <2>1, <2>2, <2>3, <2>4, QcowAssumption DEF RegionUnchanged, Laid, InOrder, ClusterEnd
<1>5. QED
  BY <1>2, <1>3, <1>4

\* What is recorded of a sound disk ends within it.
LEMMA InsideStep ==
    ASSUME DisksFit, TypeInv, Position, ~source.faulty, Inside, [Next]_vars
    PROVE  Inside'
<1>1. source' = source
  BY OffsetKept
<1>2. ASSUME pc = "l2", HasContents(CurrentEntry), NEW o, Grows(digest_table, NewEntry(o), digest_table')
      PROVE  Inside'
  <2>1. block_offset + Len(BlockData) <= source.size
    BY <1>2, BlockInside
  <2>2. \A k \in DOMAIN digest_table' :
          digest_table'[k].block_offset + Len(digest_table'[k].digest) <= source.size
    <3> SUFFICES ASSUME NEW k \in DOMAIN digest_table'
                 PROVE  digest_table'[k].block_offset + Len(digest_table'[k].digest) <= source.size
      OBVIOUS
    <3>1. CASE k \in DOMAIN digest_table
      BY <1>2, <3>1 DEF Grows, Inside
    <3>2. CASE k \notin DOMAIN digest_table
      <4>1. digest_table'[k] = NewEntry(o)
        BY <1>2, <3>2 DEF Grows
      <4>2. QED
        BY <2>1, <4>1 DEF NewEntry
    <3>3. QED
      BY <3>1, <3>2
  <2>3. QED
    BY <1>1, <2>2 DEF Inside
<1>3. CASE WriteCluster
  BY <1>2, <1>3, WriteClusterEffect DEF WriteCluster
<1>4. CASE ReuseCluster
  BY <1>2, <1>4, ReuseClusterEffect DEF ReuseCluster
<1>5. CASE RegionUnchanged
  BY <1>1, <1>5 DEF RegionUnchanged, Inside
<1>6. QED
  BY <1>3, <1>4, <1>5, StepKinds

\* Clusters and blocks are in place in every state.
LEMMA LayoutInvariant == ASSUME DisksFit PROVE Spec => [](Laid /\ (~source.faulty => Inside))
<1> DEFINE Layout == Laid /\ (~source.faulty => Inside)
<1>1. Init => Layout
  <2> SUFFICES ASSUME Init PROVE Layout
    OBVIOUS
  <2>1. DOMAIN file.clusters = {} /\ DOMAIN digest_table = {} /\ RegionStart <= cluster_offset
    BY ImageFormatAssumption DEF Init, EmptyFile
  <2>2. QED
    BY <2>1 DEF Laid, Inside, InOrder
<1>2. SourceInv /\ Layout /\ [Next]_vars => Layout'
  <2> SUFFICES ASSUME SourceInv, Layout, [Next]_vars PROVE Layout'
    OBVIOUS
  <2>1. ImageInv /\ TypeInv /\ Position
    BY DEF SourceInv, ImageInv
  <2>2. Laid'
    BY <2>1, LaidStep
  <2>3. ~source'.faulty => Inside'
    BY <2>1, OffsetKept, InsideStep
  <2>4. QED
    BY <2>2, <2>3
<1>3. QED
  BY <1>1, <1>2, SourceInvariant, PTL DEF Spec

\* The file a build of a sound disk leaves is an image as ImageWrite supposes its
\* images to be: what was cut, shared and dropped on the way, no reader misses.
THEOREM ImageAlwaysWellMade == ASSUME DisksFit PROVE Spec => []ImageIsWellMade
<1>1. ASSUME SourceInv, Laid, ~source.faulty => Inside, pc = "done", ~source.faulty
      PROVE  WellMade(LoadedImage, ClusterSize)
  <2>1. TypeInv /\ DigestsResolve /\ Ordinals /\ Nonces /\ Counts
    BY <1>1 DEF SourceInv, ImageInv
  <2>2. file.digests.digest_table = digest_table
    BY <1>1, <2>1 DEF Counts
  <2>3. /\ LoadedImage.size = source.size /\ LoadedImage.encrypted = encrypted
        /\ LoadedImage.nonce_table = file.protected.nonce_table
        /\ LoadedImage.clusters = file.clusters /\ LoadedImage.digest_table = digest_table
    BY <2>2 DEF LoadedImage
  <2>4. ASSUME NEW k \in DOMAIN digest_table PROVE Resolves(LoadedImage, digest_table[k])
    <3>1. PICK c \in DOMAIN file.clusters : /\ file.clusters[c].at = digest_table[k].cluster_offset
                                            /\ file.clusters[c].data = digest_table[k].digest
      BY <2>1 DEF DigestsResolve
    <3>2. ClusterOrdinal(digest_table, digest_table[k].cluster_offset) = c - 1 /\ c \in Nat
      BY <2>1, <3>1 DEF Ordinals, TypeInv, TypeOK
    <3>3. encrypted => /\ c <= Len(file.protected.nonce_table)
                       /\ Len(file.protected.nonce_table) \in Nat
                       /\ file.clusters[c].nonce = c /\ file.protected.nonce_table[c] = c
      BY <1>1, <2>1 DEF Nonces, Laid
    <3>4. encrypted => c - 1 < Len(file.protected.nonce_table) /\ (c - 1) + 1 = c
      BY <3>2, <3>3
    <3>5. QED
      BY <2>3, <3>1, <3>2, <3>3, <3>4 DEF Resolves
  <2>5. /\ LoadedImage.size \in Nat \ {0}
        /\ LoadedImage.digest_table \in Seq(DigestTableEntry)
        /\ LoadedImage.clusters \in Seq(Cluster)
    BY <2>1, <2>3, SourceType DEF TypeInv, TypeOK
  <2>6. QED
    BY <1>1, <2>3, <2>4, <2>5 DEF WellMade, Laid, Inside
<1>2. QED
  BY <1>1, SourceInvariant, LayoutInvariant, PTL DEF ImageIsWellMade
=============================================================================
