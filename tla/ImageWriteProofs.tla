-------------------------- MODULE ImageWriteProofs --------------------------
(***************************************************************************)
(* write, stream_write and verify, for every image, block size and         *)
(* destination the assumptions of ImageWrite admit and any number of       *)
(* attempts: what they report is true, what they leave is the disk of the  *)
(* image, and what they change is no business of anyone else's.            *)
(*                                                                         *)
(* WriteInv is the inductive invariant.  It says, of every moment of a     *)
(* call, that each block is still to be visited or is on the destination   *)
(* (Covered), and that a file which write has emptied is zero in between   *)
(* (Cleared).                                                              *)
(***************************************************************************)
EXTENDS ImageWrite, SequenceTheorems, TLAPS

\* The data of a block or cluster is a sequence of at most BlockSize units.
LEMMA DataFacts ==
    ASSUME NEW d \in Data
    PROVE  d \in Seq(Bytes) /\ Len(d) \in Nat /\ Len(d) <= BlockSize
<1>1. PICK n \in 0..BlockSize : d \in [1..n -> Bytes]
  BY ImageWriteAssumption
<1>2. n \in Nat /\ n <= BlockSize
  BY <1>1, ImageWriteAssumption
<1>3. QED
  BY <1>1, <1>2

\* What the assumptions say of an entry of the digest table: its digest is data,
\* and its block ends within the disk.
LEMMA EntryFacts ==
    ASSUME TypeOK, NEW k \in Entries
    PROVE  /\ k \in Nat
           /\ Entry(k).cluster_offset \in Nat /\ Entry(k).block_offset \in Nat
           /\ Entry(k).digest \in Data
           /\ Entry(k).digest \in Seq(Bytes) /\ Len(Entry(k).digest) \in Nat
           /\ Len(Entry(k).digest) <= BlockSize
           /\ Entry(k).block_offset + Len(Entry(k).digest) <= image.size
           /\ image.size \in Nat
<1>1. image.digest_table \in Seq(DigestTableEntry) /\ image.size \in Nat
  BY ImageWriteAssumption DEF TypeOK
<1>2. Entry(k) \in DigestTableEntry /\ k \in Nat
  BY <1>1 DEF Entry, Entries
<1>3. Entry(k).digest \in Data
  BY <1>2 DEF DigestTableEntry
<1>4. Entry(k).block_offset + Len(Entry(k).digest) <= image.size
  BY ImageWriteAssumption DEF TypeOK, Entry, Entries
<1>5. QED
  BY <1>1, <1>2, <1>3, <1>4, DataFacts DEF DigestTableEntry

\* The blocks of two entries lie apart, whichever comes first.
LEMMA BlocksApart ==
    ASSUME TypeOK, NEW j \in Entries, NEW k \in Entries, j # k
    PROVE  \/ Entry(j).block_offset + BlockSize <= Entry(k).block_offset
           \/ Entry(k).block_offset + BlockSize <= Entry(j).block_offset
<1>1. j \in Nat /\ k \in Nat
  BY EntryFacts
<1>2. j < k \/ k < j
  BY <1>1
<1>3. QED
  BY <1>2, ImageWriteAssumption DEF TypeOK, Entry, Entries

\* Where a cluster begins, what is read there is data.
LEMMA PlainType ==
    ASSUME TypeOK, NEW k \in Entries, ClustersAt(Entry(k).cluster_offset) # {}
    PROVE  Plain(k) \in Data
<1> DEFINE c == CHOOSE c \in ClustersAt(Entry(k).cluster_offset) : TRUE
<1>1. c \in DOMAIN image.clusters
  BY DEF ClustersAt
<1>2. image.clusters \in Seq(Cluster)
  BY ImageWriteAssumption DEF TypeOK
<1>3. image.clusters[c] \in Cluster
  BY <1>1, <1>2
<1>4. QED
  BY <1>3 DEF Cluster, Plain

\* Truncate keeps the first n units, or all if there are fewer.
LEMMA TruncateFacts ==
    ASSUME NEW d \in Seq(Bytes), NEW n \in Nat
    PROVE  /\ Truncate(d, n) \in Seq(Bytes)
           /\ Len(Truncate(d, n)) = IF n < Len(d) THEN n ELSE Len(d)
           /\ \A m \in 1..Len(Truncate(d, n)) : Truncate(d, n)[m] = d[m]
<1>1. CASE n < Len(d)
  BY <1>1, SubSeqProperties DEF Truncate
<1>2. CASE ~(n < Len(d))
  BY <1>2 DEF Truncate
<1>3. QED
  BY <1>1, <1>2

\* What is put down for entry k is at most a block, and in stream_write ends
\* within the disk.
LEMMA ToWriteFacts ==
    ASSUME TypeOK, NEW k \in Entries, Readable(k)
    PROVE  /\ ToWrite(k) \in Seq(Bytes) /\ Len(ToWrite(k)) \in Nat
           /\ Len(ToWrite(k)) <= BlockSize
           /\ op = "stream" =>
                \A n \in 1..Len(ToWrite(k)) : Entry(k).block_offset + n <= image.size
           /\ OfOneVersion => ToWrite(k) = Entry(k).digest
<1> DEFINE d == Plain(k)
           b == Entry(k).block_offset
           size == image.size
           m == IF size < b THEN 0 ELSE size - b
<1>1. d \in Seq(Bytes) /\ Len(d) \in Nat /\ Len(d) <= BlockSize
  BY PlainType, DataFacts DEF Readable
<1>2. b \in Nat /\ size \in Nat /\ b + Len(Entry(k).digest) <= size
      /\ Len(Entry(k).digest) \in Nat /\ BlockSize \in Nat
  BY EntryFacts, ImageWriteAssumption
<1>3. OfOneVersion => d = Entry(k).digest
  BY DEF OfOneVersion
<1>4. ToWrite(k) = IF op = "stream" THEN Truncate(d, m) ELSE d
  BY DEF ToWrite
<1> HIDE DEF d, b, size
<1>5. m \in Nat
  BY <1>2
<1>6. /\ Truncate(d, m) \in Seq(Bytes)
      /\ Len(Truncate(d, m)) = IF m < Len(d) THEN m ELSE Len(d)
  BY <1>1, <1>5, TruncateFacts
<1>7. Len(Truncate(d, m)) \in Nat /\ Len(Truncate(d, m)) <= BlockSize /\ Len(Truncate(d, m)) <= m
  BY <1>1, <1>2, <1>5, <1>6
<1>8. \A n \in 1..Len(Truncate(d, m)) : b + n <= size
  BY <1>2, <1>7
<1>9. OfOneVersion => Truncate(d, m) = Entry(k).digest
  <2>1. OfOneVersion => ~(m < Len(d))
    BY <1>2, <1>3
  <2>2. QED
    BY <1>3, <2>1 DEF Truncate
<1>10. QED
  BY <1>1, <1>3, <1>4, <1>6, <1>7, <1>8, <1>9 DEF b, size

\* A write puts d at its place and leaves the rest.
LEMMA OverwrittenFacts ==
    ASSUME dest \in Seq(Bytes), NEW o \in Nat, NEW d \in Seq(Bytes)
    PROVE  /\ Overwritten(o, d) \in Seq(Bytes)
           /\ Len(Overwritten(o, d)) =
                IF d # << >> /\ o + Len(d) > Len(dest) THEN o + Len(d) ELSE Len(dest)
           /\ \A n \in 1..Len(Overwritten(o, d)) :
                Overwritten(o, d)[n] = IF n \in o+1..o+Len(d) THEN d[n - o]
                                       ELSE IF n <= Len(dest) THEN dest[n] ELSE ZeroByte
<1> DEFINE m == IF o + Len(d) > Len(dest) THEN o + Len(d) ELSE Len(dest)
           F(n) == IF n \in o+1..o+Len(d) THEN d[n - o]
                   ELSE IF n <= Len(dest) THEN dest[n] ELSE ZeroByte
<1>1. Len(d) \in Nat /\ Len(dest) \in Nat /\ ZeroByte \in Bytes
  BY ImageWriteAssumption
<1>2. CASE d = << >>
  <2>1. \A n \in 1..Len(dest) : n \notin o+1..o+Len(d)
    BY <1>2
  <2>2. QED
    BY <1>1, <1>2, <2>1 DEF Overwritten
<1>3. CASE d # << >>
  <2>1. ASSUME NEW n \in 1..m
        PROVE  F(n) \in Bytes
    <3>1. CASE n \in o+1..o+Len(d)
      <4>1. n - o \in 1..Len(d)
        BY <1>1, <3>1
      <4>2. QED
        BY <3>1, <4>1
    <3>2. CASE n \notin o+1..o+Len(d) /\ n <= Len(dest)
      BY <1>1, <2>1, <3>2
    <3>3. QED
      BY <1>1, <3>1, <3>2
  <2>2. m \in Nat
    BY <1>1
  <2>3. Overwritten(o, d) = [n \in 1..m |-> F(n)]
    BY <1>3 DEF Overwritten
  <2>4. Overwritten(o, d) \in Seq(Bytes) /\ Len(Overwritten(o, d)) = m
        /\ \A n \in 1..m : Overwritten(o, d)[n] = F(n)
    <3> HIDE DEF m, F
    <3>1. QED
      BY <2>1, <2>2, <2>3
  <2>5. QED
    BY <1>3, <2>4
<1>4. QED
  BY <1>2, <1>3

\* set_len keeps what is there.
LEMMA ExtendedFacts ==
    ASSUME TypeOK, NEW bytes \in Seq(Bytes)
    PROVE  /\ Extended(bytes) \in Seq(Bytes)
           /\ Len(Extended(bytes)) =
                IF is_file /\ Len(bytes) < image.size THEN image.size ELSE Len(bytes)
           /\ \A n \in 1..Len(Extended(bytes)) :
                Extended(bytes)[n] = IF n <= Len(bytes) THEN bytes[n] ELSE ZeroByte
<1>1. image.size \in Nat /\ ZeroByte \in Bytes
  BY ImageWriteAssumption DEF TypeOK
<1>2. CASE is_file /\ Len(bytes) < image.size
  <2>1. Extended(bytes) = [n \in 1..image.size |-> IF n <= Len(bytes) THEN bytes[n] ELSE ZeroByte]
    BY <1>2 DEF Extended
  <2>2. \A n \in 1..image.size : (IF n <= Len(bytes) THEN bytes[n] ELSE ZeroByte) \in Bytes
    BY <1>1
  <2>3. QED
    BY <1>1, <1>2, <2>1, <2>2
<1>3. CASE ~(is_file /\ Len(bytes) < image.size)
  BY <1>3 DEF Extended
<1>4. QED
  BY <1>2, <1>3

(***************************************************************************)
(* What a step does to the destination.                                    *)
(***************************************************************************)

\* The first units of what is to be written for k are put at its place.
Puts(k, d) ==
    /\ d \in Seq(Bytes) /\ Len(d) <= Len(ToWrite(k))
    /\ \A n \in 1..Len(d) : d[n] = ToWrite(k)[n]
    /\ dest' = Overwritten(Entry(k).block_offset, d)

\* WriteBlock puts down all of what is to be written.
LEMMA WritePuts ==
    ASSUME TypeOK, NEW k \in Entries, WriteBlock(k)
    PROVE  Readable(k) /\ Puts(k, ToWrite(k))
<1>1. Readable(k) /\ dest' = Overwritten(Entry(k).block_offset + 0, ToWrite(k))
  BY DEF WriteBlock, WriteBlockAfter
<1>2. Entry(k).block_offset + 0 = Entry(k).block_offset
  BY EntryFacts
<1>3. ToWrite(k) \in Seq(Bytes) /\ Len(ToWrite(k)) \in Nat
  BY <1>1, ToWriteFacts
<1>4. QED
  BY <1>1, <1>2, <1>3 DEF Puts

\* A call that breaks changes the destination only while a block is being
\* written, and then puts down the first part of it.
LEMMA BrokenPuts ==
    ASSUME TypeOK, Broken, dest' # dest
    PROVE  writing /\ \E k \in todo, d \in Seq(Bytes) : Readable(k) /\ Puts(k, d)
<1>1. writing /\ \E k \in todo : IsFirst(k) /\ Readable(k)
  BY DEF Broken
<1>2. PICK j \in todo : IsFirst(j) /\ Readable(j)
  BY <1>1
<1>3. PICK k \in todo : IsFirst(k) /\ PartlyWritten(k)
  BY <1>1 DEF Broken
<1>4. j \in Nat /\ k \in Nat /\ k \in Entries
  BY EntryFacts DEF TypeOK
<1>5. j = k
  BY <1>2, <1>3, <1>4 DEF IsFirst
<1>6. ToWrite(k) \in Seq(Bytes) /\ Len(ToWrite(k)) \in Nat
  BY <1>2, <1>4, <1>5, ToWriteFacts
<1>7. PICK n \in 0..Len(ToWrite(k)) :
        dest' = Overwritten(Entry(k).block_offset, Truncate(ToWrite(k), n))
  BY <1>3 DEF PartlyWritten
<1> DEFINE d == Truncate(ToWrite(k), n)
<1>8. d \in Seq(Bytes) /\ Len(d) = (IF n < Len(ToWrite(k)) THEN n ELSE Len(ToWrite(k)))
      /\ \A m \in 1..Len(d) : d[m] = ToWrite(k)[m]
  BY <1>6, TruncateFacts
<1>9. Puts(k, d)
  BY <1>6, <1>7, <1>8 DEF Puts
<1>10. QED
  BY <1>1, <1>2, <1>5, <1>8, <1>9

\* Nothing but one block changes, and nothing is lost that was there: what is
\* put down in part agrees with what the destination holds.
LEMMA PutFacts ==
    ASSUME TypeOK, NEW k \in Entries, Readable(k), NEW d, Puts(k, d), UNCHANGED image
    PROVE  /\ dest' \in Seq(Bytes) /\ Len(dest') >= Len(dest)
           /\ \A n \in 1..Len(dest) : dest'[n] # dest[n] =>
                n - Entry(k).block_offset \in 1..Len(d)
           /\ op = "stream" => \A n \in 1..Len(dest) : dest'[n] # dest[n] => n <= image.size
           /\ OfOneVersion => \A j \in Entries : Holds(j) => Holds(j)'
           /\ OfOneVersion /\ d = ToWrite(k) => Holds(k)'
           /\ OfOneVersion /\ Len(dest) = image.size => Len(dest') = image.size
<1> DEFINE b == Entry(k).block_offset
           w == ToWrite(k)
<1>1. b \in Nat /\ d \in Seq(Bytes) /\ Len(d) \in Nat /\ dest \in Seq(Bytes) /\ Len(dest) \in Nat
      /\ Len(w) \in Nat /\ Len(d) <= Len(w) /\ Len(w) <= BlockSize /\ BlockSize \in Nat
      /\ \A n \in 1..Len(d) : d[n] = w[n]
  BY EntryFacts, ToWriteFacts, ImageWriteAssumption DEF Puts, TypeOK
<1>2. /\ dest' \in Seq(Bytes)
      /\ Len(dest') = IF d # << >> /\ b + Len(d) > Len(dest) THEN b + Len(d) ELSE Len(dest)
      /\ \A n \in 1..Len(dest') :
           dest'[n] = IF n \in b+1..b+Len(d) THEN d[n - b]
                      ELSE IF n <= Len(dest) THEN dest[n] ELSE ZeroByte
  BY <1>1, OverwrittenFacts DEF Puts
<1> HIDE DEF b, w
<1>3. Len(dest') >= Len(dest) /\ Len(dest') \in Nat
  BY <1>1, <1>2
<1>4. \A n \in 1..Len(dest) : dest'[n] # dest[n] => n \in b+1..b+Len(d) /\ n - b \in 1..Len(d)
  BY <1>1, <1>2, <1>3
<1>5. ASSUME op = "stream", NEW n \in 1..Len(dest), dest'[n] # dest[n]
      PROVE  n <= image.size
  <2>1. n - b \in 1..Len(w) /\ b + (n - b) = n
    BY <1>1, <1>4, <1>5
  <2>2. \A m \in 1..Len(w) : b + m <= image.size
    BY <1>5, ToWriteFacts DEF b, w
  <2>3. QED
    BY <2>1, <2>2
<1>6. ASSUME OfOneVersion, NEW j \in Entries,
             Holds(j) \/ (j = k /\ d = w)
      PROVE  Holds(j)'
  <2> DEFINE g == Entry(j).digest
             a == Entry(j).block_offset
  <2>1. a \in Nat /\ Len(g) \in Nat /\ Len(g) <= BlockSize
    BY EntryFacts
  <2>2. w = Entry(k).digest
    BY <1>6, ToWriteFacts DEF w
  <2>3. ASSUME NEW n \in 1..Len(g)
        PROVE  a + n <= Len(dest') /\ dest'[a + n] = g[n]
    <3>1. CASE j = k
      <4>1. a = b /\ g = w
        BY <2>2, <3>1 DEF b
      <4> HIDE DEF a, g
      <4>2. CASE n <= Len(d)
        <5>1. b + n \in b+1..b+Len(d) /\ (b + n) - b = n /\ n \in 1..Len(d)
          BY <1>1, <2>1, <4>2
        <5>2. d # << >> /\ b + n <= Len(dest') /\ b + n \in 1..Len(dest')
          BY <1>1, <1>2, <5>1
        <5>3. dest'[b + n] = d[n]
          BY <1>2, <5>1, <5>2
        <5>4. QED
          BY <1>1, <4>1, <5>1, <5>2, <5>3
      <4>3. CASE ~(n <= Len(d))
        <5>1. d # w
          BY <1>1, <2>1, <4>1, <4>3
        <5>2. Holds(j)
          BY <1>6, <5>1
        <5>3. a + n <= Len(dest) /\ dest[a + n] = g[n]
          BY <5>2 DEF Holds, a, g
        <5>4. a + n \notin b+1..b+Len(d) /\ a + n \in 1..Len(dest')
          BY <1>1, <1>3, <2>1, <4>1, <4>3, <5>3
        <5>5. QED
          BY <1>2, <1>3, <5>3, <5>4, <2>1, <1>1
      <4>4. QED
        BY <4>2, <4>3
    <3>2. CASE j # k
      <4>1. a + BlockSize <= b \/ b + BlockSize <= a
        BY <3>2, BlocksApart DEF b
      <4>2. a + n <= Len(dest) /\ dest[a + n] = g[n]
        BY <1>6, <3>2 DEF Holds
      <4> HIDE DEF a, g
      <4>3. a + n \notin b+1..b+Len(d) /\ a + n \in 1..Len(dest')
        BY <1>1, <1>3, <2>1, <4>1, <4>2
      <4>4. QED
        BY <1>1, <1>2, <1>3, <2>1, <4>2, <4>3
    <3>3. QED
      BY <3>1, <3>2
  <2>4. Entry(j)' = Entry(j)
    BY DEF Entry
  <2>5. QED
    BY <2>3, <2>4 DEF Holds
<1>7. ASSUME OfOneVersion, Len(dest) = image.size
      PROVE  Len(dest') = image.size
  <2>1. w = Entry(k).digest /\ b + Len(Entry(k).digest) <= image.size
    BY <1>7, ToWriteFacts, EntryFacts DEF w, b
  <2>2. QED
    BY <1>1, <1>2, <1>7, <2>1
<1>8. QED
  BY <1>2, <1>3, <1>4, <1>5, <1>6, <1>7 DEF b, w

\* The initial states are well-typed.
LEMMA InitType == Init => TypeOK
<1> SUFFICES ASSUME Init PROVE TypeOK
  OBVIOUS
<1>1. is_file \in BOOLEAN /\ dest \in Seq(Bytes)
  BY ImageWriteAssumption DEF Init
<1>2. 0 \in 0..MaxAborts
  BY ImageWriteAssumption
<1>3. states \in [Entries -> {"pending", "clean", "writing", "written", "ok", "bad"}]
  BY DEF Init
<1>4. QED
  BY <1>1, <1>2, <1>3 DEF Init, TypeOK

\* No call exchanges the image or the kind of the destination.
LEMMA ImageStays ==
    ASSUME [Next]_vars
    PROVE  UNCHANGED << image, is_file >>
BY DEF Next, vars, BeginWrite, BeginStream, BeginVerify, Begin, BeginWriteOver, BeginStreamOver,
       NextCluster, NextClusterEndingAt, SkipClean, FindDirty, WriteBlock, WriteBlockAfter,
       VerifyBlock, VerifyBlockAs, Finish, Abort, DeviceFull, Broken, EndWith, Refuse

\* Every step keeps the types.
LEMMA TypeStep == TypeOK /\ [Next]_vars => TypeOK'
<1> SUFFICES ASSUME TypeOK, [Next]_vars PROVE TypeOK'
  OBVIOUS
<1>1. UNCHANGED << image, is_file >> /\ Entries' = Entries /\ UniqueOffsets' = UniqueOffsets
  BY ImageStays DEF Entries, UniqueOffsets, Entry
<1>2. todo \subseteq Entries
  BY DEF TypeOK
<1>3. CASE BeginWrite \/ BeginStream
  <2>1. << >> \in Seq(Bytes) /\ dest \in Seq(Bytes)
    BY DEF TypeOK
  <2>2. dest' \in Seq(Bytes)
    BY <1>3, <2>1, ExtendedFacts DEF BeginWrite, BeginStream, BeginWriteOver, BeginStreamOver
  <2>3. QED
    BY <1>1, <1>3, <2>2, ImageFormatAssumption
       DEF BeginWrite, BeginStream, BeginWriteOver, BeginStreamOver, Begin, TypeOK, ToVisit
<1>4. CASE BeginVerify
  BY <1>1, <1>4 DEF BeginVerify, Begin, TypeOK, ToVisit
<1>5. ASSUME NEW offset \in offsets, NextCluster(offset)
      PROVE  TypeOK'
  <2>1. PICK c \in ClustersAt(offset) : stream_pos' = ClusterEnd(image.clusters[c]) + 0
    BY <1>5 DEF NextCluster, NextClusterEndingAt
  <2>2. image.clusters[c] \in Cluster
    BY <2>1, ImageWriteAssumption DEF ClustersAt, TypeOK
  <2>3. ClusterEnd(image.clusters[c]) \in Nat
    BY <2>2, ImageFormatAssumption DEF ClusterEnd, SizeField, Cluster
  <2>4. stream_pos' \in Nat
    BY <2>1, <2>3
  <2>5. QED
    BY <1>1, <1>5, <2>4 DEF NextCluster, NextClusterEndingAt, TypeOK
<1>6. ASSUME NEW k \in todo, SkipClean(k) \/ FindDirty(k) \/ VerifyBlock(k)
      PROVE  TypeOK'
  BY <1>1, <1>6 DEF SkipClean, FindDirty, VerifyBlock, VerifyBlockAs, TypeOK
<1>7. ASSUME NEW k \in todo, WriteBlock(k)
      PROVE  TypeOK'
  <2>1. dest' \in Seq(Bytes)
    BY <1>1, <1>2, <1>7, WritePuts, PutFacts
  <2>2. QED
    BY <1>1, <1>7, <2>1 DEF WriteBlock, WriteBlockAfter, TypeOK
<1>8. CASE Finish
  BY <1>1, <1>8 DEF Finish, TypeOK
<1>9. ASSUME NEW result \in {"err", "refused"}, EndWith(result), dest' \in Seq(Bytes),
             aborts' \in 0..MaxAborts
      PROVE  TypeOK'
  BY <1>1, <1>9 DEF EndWith, TypeOK
<1>10. ASSUME Broken
       PROVE  dest' \in Seq(Bytes) /\ EndWith("err")
  <2>1. CASE dest' = dest
    BY <1>10, <2>1 DEF TypeOK, Broken
  <2>2. CASE dest' # dest
    BY <1>1, <1>2, <1>10, <2>2, BrokenPuts, PutFacts DEF Broken
  <2>3. QED
    BY <2>1, <2>2
<1>11. CASE Abort
  <2>1. aborts' \in 0..MaxAborts
    BY <1>11, ImageWriteAssumption DEF Abort, TypeOK
  <2>2. QED
    BY <1>9, <1>10, <1>11, <2>1 DEF Abort
<1>12. CASE DeviceFull
  BY <1>9, <1>10, <1>12 DEF DeviceFull, TypeOK
<1>13. CASE Refuse
  BY <1>9, <1>13 DEF Refuse, TypeOK
<1>14. CASE UNCHANGED vars
  BY <1>14 DEF vars, TypeOK, Entries, UniqueOffsets, Entry
<1>15. QED
  BY <1>3, <1>4, <1>5, <1>6, <1>7, <1>8, <1>11, <1>12, <1>13, <1>14 DEF Next

\* Every variable keeps its type: write, stream_write and verify visit only
\* entries the digest table has, and what they leave on the destination is data.
THEOREM TypeCorrect == Spec => []TypeOK
BY InitType, TypeStep, PTL DEF Spec

(***************************************************************************)
(* The calls.                                                              *)
(***************************************************************************)

\* Between calls nothing is under way, and an attempt to write is busy.
Settled ==
    /\ op # "stream" => offsets = {}
    /\ op = "idle" => todo = {}
    /\ writing => Writes /\ todo # {}
    /\ Writes <=> outcome = "busy"

\* The blocks a call has dealt with are on the destination.
Covered ==
    Writes => \A k \in Entries : k \notin todo /\ Entry(k).cluster_offset \notin offsets => Holds(k)

\* What progress reports of a block, and of the call, is true.
Told ==
    /\ \A k \in Entries : states[k] \in {"clean", "written", "ok"} => Holds(k)
    /\ outcome = "ok" => \A k \in Entries : Holds(k)

\* A file that write has emptied is zero wherever no block has been dealt with.
Covers(k, n) == n - Entry(k).block_offset \in 1..Len(Entry(k).digest)
Cleared ==
    is_file /\ op = "write" =>
        /\ Len(dest) = image.size
        /\ \A n \in 1..image.size : (\A k \in Entries \ todo : ~Covers(k, n)) => dest[n] = ZeroByte

\* What verify has passed over and does not find has been reported.
Found == op = "verify" => \A k \in Entries \ todo : ~Holds(k) => states[k] = "bad"

\* The inductive invariant. Covered relates the destination to what is still to
\* visit: without it, Finish could not conclude that every block is there.
WriteInv == TypeOK /\ Settled /\ Found /\ (OfOneVersion => Covered /\ Told /\ Cleared)

\* A block that reads back with the hash of its entry is on the destination.
LEMMA CleanHolds ==
    ASSUME TypeOK, NEW k \in Entries, ~is_dirty(k)
    PROVE  Holds(k)
<1> DEFINE o == Entry(k).block_offset
           d == Entry(k).digest
<1>1. o \in Nat /\ d \in Seq(Bytes) /\ dest \in Seq(Bytes) /\ BlockSize \in Nat
  BY EntryFacts, ImageWriteAssumption DEF TypeOK
<1>2. o + BlockSize <= Len(dest) /\ SubSeq(dest, o + 1, o + BlockSize) = d
  BY DEF is_dirty, ReadsAs
<1> HIDE DEF o, d
<1>3. Len(d) = BlockSize /\ \A n \in 1..BlockSize : d[n] = dest[o + n]
  <2>1. Len(dest) \in Nat
    BY <1>1
  <2>2. SubSeq(dest, o + 1, o + BlockSize) = [n \in 1..BlockSize |-> dest[o + n]]
    <3>1. SubSeq(dest, o + 1, o + BlockSize) = [n \in 1..(1 + (o + BlockSize) - (o + 1)) |-> dest[n + (o + 1) - 1]]
      BY <1>1, <1>2, <2>1
    <3>2. 1 + (o + BlockSize) - (o + 1) = BlockSize /\ \A n \in Int : n + (o + 1) - 1 = o + n
      BY <1>1
    <3>3. QED
      BY <3>1, <3>2
  <2>3. QED
    BY <1>1, <1>2, <2>2
<1>4. \A n \in 1..Len(d) : o + n <= Len(dest) /\ dest[o + n] = d[n]
  BY <1>1, <1>2, <1>3
<1>5. QED
  BY <1>4 DEF Holds, o, d

\* The version of the image is the same in every state.
LEMMA SameImage ==
    ASSUME UNCHANGED image
    PROVE  /\ OfOneVersion' <=> OfOneVersion
           /\ Entries' = Entries /\ UniqueOffsets' = UniqueOffsets
           /\ \A k : Entry(k)' = Entry(k) /\ \A n : Covers(k, n)' <=> Covers(k, n)
<1>1. Entries' = Entries /\ \A k : Entry(k)' = Entry(k)
  BY DEF Entries, Entry
<1>2. QED
  BY <1>1 DEF OfOneVersion, UniqueOffsets, ClustersAt, Decodes, Plain, Covers

\* What the destination holds depends on nothing else.
LEMMA SameHolds ==
    ASSUME UNCHANGED << image, dest >>, NEW k
    PROVE  Holds(k)' <=> Holds(k)
BY DEF Holds, Entry

\* The invariant holds before the first call.
LEMMA WriteInit == Init => WriteInv
<1> SUFFICES ASSUME Init PROVE WriteInv
  OBVIOUS
<1>1. TypeOK
  BY InitType
<1>2. \A k \in Entries : states[k] = "pending"
  BY DEF Init
<1>3. QED
  BY <1>1, <1>2 DEF Init, WriteInv, Settled, Found, Covered, Told, Cleared, Writes

\* A call that begins has dealt with no block; one that empties a file leaves
\* zeros, and the others lose nothing.
LEMMA BeginKept ==
    ASSUME WriteInv, TypeOK', BeginWrite \/ BeginStream \/ BeginVerify
    PROVE  WriteInv'
<1> USE DEF WriteInv
<1>1. op = "idle" /\ todo = {} /\ offsets = {} /\ ~writing /\ UNCHANGED << image, is_file, writing >>
  BY DEF BeginWrite, BeginStream, BeginVerify, BeginWriteOver, BeginStreamOver, Begin, Settled, Writes
<1>2. states' = [k \in Entries |-> "pending"]
  BY DEF BeginWrite, BeginStream, BeginVerify, BeginWriteOver, BeginStreamOver, Begin
<1>3. \A k \in Entries' : states'[k] = "pending"
  BY <1>1, <1>2, SameImage
<1>4. CASE BeginWrite
  <2>1. /\ op' = "write" /\ dest' = Extended(IF is_file THEN << >> ELSE dest) /\ todo' = Entries
        /\ outcome' = "busy" /\ UNCHANGED offsets
    BY <1>4 DEF BeginWrite, BeginWriteOver, Begin, ToVisit
  <2>2. Settled' /\ Found' /\ Covered' /\ Told'
    BY <1>1, <1>3, <2>1, SameImage DEF Settled, Found, Covered, Told, Writes
  <2>3. Cleared'
    <3> SUFFICES ASSUME is_file
                 PROVE  Len(dest') = image.size /\ \A n \in 1..image.size : dest'[n] = ZeroByte
      BY <1>1 DEF Cleared
    <3> DEFINE e == << >>
    <3>1. e \in Seq(Bytes) /\ Len(e) = 0 /\ image.size \in Nat \ {0}
      BY ImageWriteAssumption DEF TypeOK
    <3>2. dest' = Extended(e)
      BY <2>1
    <3> HIDE DEF e
    <3>3. /\ Len(Extended(e)) =
               IF is_file /\ Len(e) < image.size THEN image.size ELSE Len(e)
          /\ \A n \in 1..Len(Extended(e)) :
               Extended(e)[n] = IF n <= Len(e) THEN e[n] ELSE ZeroByte
      BY <3>1, ExtendedFacts, Zenon
    <3>4. Len(Extended(e)) = image.size
      BY <3>1, <3>3
    <3>5. \A n \in 1..image.size : ~(n <= Len(e))
      BY <3>1
    <3>6. QED
      BY <3>2, <3>3, <3>4, <3>5
  <2>4. QED
    BY <2>2, <2>3
<1>5. CASE BeginStream
  <2>1. op' = "stream" /\ todo' = {} /\ offsets' = UniqueOffsets /\ outcome' = "busy"
    BY <1>5 DEF BeginStream, BeginStreamOver, Begin
  <2>2. \A k \in Entries' : Entry(k)'.cluster_offset \in offsets'
    BY <1>1, <2>1, SameImage DEF UniqueOffsets
  <2>3. QED
    BY <1>1, <1>3, <2>1, <2>2 DEF Settled, Found, Covered, Told, Cleared, Writes
<1>6. CASE BeginVerify
  <2>1. op' = "verify" /\ todo' = Entries /\ UNCHANGED << dest, offsets, outcome >>
    BY <1>6 DEF BeginVerify, Begin, ToVisit
  <2>2. OfOneVersion' => Told'
    BY <1>1, <1>3, <2>1, SameImage, SameHolds DEF Told
  <2>3. QED
    BY <1>1, <2>1, <2>2, SameImage DEF Settled, Found, Covered, Cleared, Writes
<1>7. QED
  BY <1>4, <1>5, <1>6

\* Taking the next cluster of the stream moves its blocks from those still to
\* come to those to visit.
LEMMA NextClusterKept ==
    ASSUME WriteInv, TypeOK', NEW offset \in offsets, NextCluster(offset)
    PROVE  WriteInv'
<1> USE DEF WriteInv
<1>1. /\ op = "stream" /\ todo = {} /\ offsets' = offsets \ {offset}
      /\ todo' = {k \in Entries : Entry(k).cluster_offset = offset}
      /\ UNCHANGED << image, is_file, dest, op, writing, states, outcome >>
  BY DEF NextCluster, NextClusterEndingAt
<1>2. Settled' /\ Found' /\ Cleared'
  BY <1>1 DEF Settled, Found, Cleared, Writes
<1>3. OfOneVersion' => Covered' /\ Told'
  <2> SUFFICES ASSUME OfOneVersion PROVE Covered' /\ Told'
    BY <1>1, SameImage
  <2>1. \A k \in Entries : Holds(k) => Holds(k)'
    BY <1>1, SameHolds
  <2>2. Told'
    BY <1>1, <2>1, SameImage DEF Told
  <2>3. Covered'
    BY <1>1, <2>1, SameImage DEF Covered, Writes
  <2>4. QED
    BY <2>2, <2>3
<1>4. QED
  BY <1>2, <1>3

\* The steps that look at one block and leave the destination alone.
LEMMA LookKept ==
    ASSUME WriteInv, TypeOK', NEW k \in todo, SkipClean(k) \/ FindDirty(k) \/ VerifyBlock(k)
    PROVE  WriteInv'
<1> USE DEF WriteInv
<1>1. k \in Entries /\ states \in [Entries -> {"pending", "clean", "writing", "written", "ok", "bad"}]
  BY DEF TypeOK
<1>2. UNCHANGED << image, is_file, dest, op, offsets, outcome >>
  BY DEF SkipClean, FindDirty, VerifyBlock, VerifyBlockAs
<1>3. /\ Entries' = Entries /\ (OfOneVersion' <=> OfOneVersion)
      /\ \A j : (Holds(j)' <=> Holds(j)) /\ Entry(j)' = Entry(j) /\ \A n : Covers(j, n)' <=> Covers(j, n)
  BY <1>2, SameImage, SameHolds
<1>4. CASE SkipClean(k)
  <2>1. /\ Writes /\ ~writing /\ UNCHANGED writing /\ todo' = todo \ {k}
        /\ states' = [states EXCEPT ![k] = "clean"] /\ Holds(k)
    BY <1>1, <1>4, CleanHolds DEF SkipClean
  <2>2. Settled' /\ Found'
    BY <1>2, <2>1 DEF Settled, Found, Writes
  <2>3. OfOneVersion => Covered'
    BY <1>2, <1>3, <2>1 DEF Covered, Writes
  <2>4. OfOneVersion => Told'
    BY <1>1, <1>2, <1>3, <2>1 DEF Told
  <2>5. OfOneVersion => Cleared'
    BY <1>2, <1>3, <2>1 DEF Cleared
  <2>6. QED
    BY <1>3, <2>2, <2>3, <2>4, <2>5
<1>5. CASE FindDirty(k)
  <2>1. /\ Writes /\ writing' = TRUE /\ todo' = todo /\ states' = [states EXCEPT ![k] = "writing"]
    BY <1>5 DEF FindDirty
  <2>2. Settled' /\ Found'
    BY <1>2, <2>1 DEF Settled, Found, Writes
  <2>3. OfOneVersion => Covered' /\ Told' /\ Cleared'
    BY <1>1, <1>2, <1>3, <2>1 DEF Covered, Told, Cleared, Writes
  <2>4. QED
    BY <1>3, <2>2, <2>3
<1>6. CASE VerifyBlock(k)
  <2>1. /\ op = "verify" /\ UNCHANGED writing /\ todo' = todo \ {k}
        /\ states' = [states EXCEPT ![k] = IF ~is_dirty(k) THEN "ok" ELSE "bad"]
    BY <1>6 DEF VerifyBlock, VerifyBlockAs
  <2>2. ~is_dirty(k) => Holds(k)
    BY <1>1, CleanHolds
  <2>3. \A j \in Entries : states'[j] = IF j = k THEN IF ~is_dirty(k) THEN "ok" ELSE "bad"
                                        ELSE states[j]
    BY <1>1, <2>1
  <2>4. Settled'
    BY <1>2, <2>1 DEF Settled, Writes
  <2>5. Found'
    BY <1>2, <1>3, <2>1, <2>2, <2>3 DEF Found
  <2>6. OfOneVersion => Told'
    BY <1>2, <1>3, <2>2, <2>3 DEF Told
  <2>7. Covered' /\ Cleared'
    BY <1>2, <2>1 DEF Covered, Cleared, Writes
  <2>8. QED
    BY <1>3, <2>4, <2>5, <2>6, <2>7
<1>7. QED
  BY <1>4, <1>5, <1>6

\* A block that is written is on the destination, and no other is lost.
LEMMA WriteKept ==
    ASSUME WriteInv, TypeOK', NEW k \in todo, WriteBlock(k)
    PROVE  WriteInv'
<1> USE DEF WriteInv
<1>1. /\ k \in Entries /\ writing /\ Writes /\ writing' = FALSE /\ todo' = todo \ {k}
      /\ states' = [states EXCEPT ![k] = "written"]
      /\ UNCHANGED << image, is_file, op, offsets, outcome >>
      /\ states \in [Entries -> {"pending", "clean", "writing", "written", "ok", "bad"}]
  BY DEF WriteBlock, WriteBlockAfter, TypeOK, Settled
<1>2. /\ Entries' = Entries /\ (OfOneVersion' <=> OfOneVersion)
      /\ \A j : Entry(j)' = Entry(j) /\ \A n : Covers(j, n)' <=> Covers(j, n)
  BY <1>1, SameImage
<1>3. Settled' /\ Found'
  BY <1>1 DEF Settled, Found, Writes
<1>4. Readable(k) /\ Puts(k, ToWrite(k))
  BY <1>1, WritePuts
<1>5. /\ Len(dest') >= Len(dest)
      /\ \A n \in 1..Len(dest) : dest'[n] # dest[n] =>
           n - Entry(k).block_offset \in 1..Len(ToWrite(k))
      /\ OfOneVersion => /\ \A j \in Entries : Holds(j) => Holds(j)'
                         /\ Holds(k)'
                         /\ Len(dest) = image.size => Len(dest') = image.size
  BY <1>1, <1>4, PutFacts
<1>6. ASSUME OfOneVersion
      PROVE  Covered' /\ Told'
  BY <1>1, <1>2, <1>5, <1>6 DEF Covered, Told, Writes
<1>7. ASSUME OfOneVersion
      PROVE  Cleared'
  <2> SUFFICES ASSUME is_file, op = "write"
               PROVE  /\ Len(dest') = image.size
                      /\ \A n \in 1..image.size :
                           (\A j \in Entries \ todo' : ~Covers(j, n)) => dest'[n] = ZeroByte
    BY <1>1, <1>2 DEF Cleared
  <2>1. Len(dest) = image.size /\ Len(dest') = image.size
    BY <1>5, <1>7 DEF Cleared
  <2>2. ToWrite(k) = Entry(k).digest
    BY <1>1, <1>4, <1>7, ToWriteFacts
  <2>3. ASSUME NEW n \in 1..image.size, \A j \in Entries \ todo' : ~Covers(j, n)
        PROVE  dest'[n] = ZeroByte
    <3>1. ~Covers(k, n)
      BY <1>1, <2>3
    <3>2. dest'[n] = dest[n]
      BY <1>5, <2>1, <2>2, <3>1 DEF Covers
    <3>3. \A j \in Entries \ todo : ~Covers(j, n)
      BY <1>1, <2>3
    <3>4. dest[n] = ZeroByte
      BY <1>7, <3>3 DEF Cleared
    <3>5. QED
      BY <3>2, <3>4
  <2>4. QED
    BY <2>1, <2>3
<1>8. QED
  BY <1>2, <1>3, <1>6, <1>7

\* A call that ends has visited every entry.
LEMMA FinishKept ==
    ASSUME WriteInv, TypeOK', Finish
    PROVE  WriteInv'
<1> USE DEF WriteInv
<1>1. /\ op # "idle" /\ todo = {} /\ (op = "stream" => offsets = {}) /\ op' = "idle"
      /\ outcome' = IF Writes THEN "ok" ELSE outcome
      /\ UNCHANGED << image, is_file, dest, todo, offsets, writing, states >>
  BY DEF Finish
<1>2. offsets = {} /\ ~writing'
  <2>1. offsets = {}
    BY <1>1 DEF Settled
  <2>2. ~writing
    BY <1>1 DEF Finish, Settled, Writes
  <2>3. QED
    BY <1>1, <2>1, <2>2
<1>3. Settled' /\ Found' /\ Covered' /\ Cleared'
  BY <1>1, <1>2 DEF Settled, Found, Covered, Cleared, Writes
<1>4. OfOneVersion => Told'
  <2>1. OfOneVersion /\ Writes => \A k \in Entries : Holds(k)
    BY <1>1, <1>2 DEF Covered
  <2>2. QED
    BY <1>1, <2>1, SameImage, SameHolds DEF Told
<1>5. QED
  BY <1>1, <1>3, <1>4, SameImage

\* A call that ends in an error has at most begun to write the current block.
LEMMA EndKept ==
    ASSUME WriteInv, TypeOK', Abort \/ DeviceFull \/ Refuse
    PROVE  WriteInv'
<1> USE DEF WriteInv
<1>1. /\ op' = "idle" /\ todo' = {} /\ offsets' = {} /\ writing' = FALSE
      /\ outcome' \in {"err", "refused", outcome} /\ (Writes => outcome' # "busy")
      /\ (outcome' = outcome => ~Writes)
      /\ UNCHANGED << image, is_file, states >>
  <2>1. ASSUME NEW result \in {"err", "refused"}, EndWith(result)
        PROVE  /\ op' = "idle" /\ todo' = {} /\ offsets' = {} /\ writing' = FALSE
               /\ outcome' \in {"err", "refused", outcome} /\ (Writes => outcome' # "busy")
               /\ (outcome' = outcome => ~Writes)
               /\ UNCHANGED << image, is_file, states >>
    BY <2>1 DEF EndWith, Settled
  <2>2. EndWith("err") \/ EndWith("refused")
    BY DEF Abort, DeviceFull, Refuse, Broken
  <2>3. QED
    BY <2>1, <2>2
<1>2. Settled' /\ Found' /\ Covered' /\ Cleared'
  BY <1>1 DEF Settled, Found, Covered, Cleared, Writes
<1>3. OfOneVersion => \A k \in Entries : Holds(k) => Holds(k)'
  <2>1. CASE dest' = dest
    BY <1>1, <2>1, SameHolds
  <2>2. CASE dest' # dest
    <3>1. Broken
      BY <2>2 DEF Abort, DeviceFull, Refuse
    <3>2. PICK k \in todo, d \in Seq(Bytes) : Readable(k) /\ Puts(k, d)
      BY <2>2, <3>1, BrokenPuts
    <3>3. k \in Entries
      BY DEF TypeOK
    <3>4. QED
      BY <1>1, <3>2, <3>3, PutFacts
  <2>3. QED
    BY <2>1, <2>2
<1>4. OfOneVersion => Told'
  BY <1>1, <1>3, SameImage DEF Told
<1>5. QED
  BY <1>1, <1>2, <1>4, SameImage

\* Every step keeps the invariant.
LEMMA WriteStep == WriteInv /\ [Next]_vars => WriteInv'
<1> SUFFICES ASSUME WriteInv, [Next]_vars PROVE WriteInv'
  OBVIOUS
<1>1. TypeOK'
  BY TypeStep DEF WriteInv
<1>2. CASE UNCHANGED vars
  <2>1. UNCHANGED << image, dest >> /\ \A k : Holds(k)' <=> Holds(k)
    BY <1>2, SameHolds DEF vars
  <2>2. QED
    BY <1>1, <1>2, <2>1, SameImage
       DEF vars, WriteInv, Settled, Found, Covered, Told, Cleared, Writes
<1>3. QED
  BY <1>1, <1>2, BeginKept, NextClusterKept, LookKept, WriteKept, FinishKept, EndKept DEF Next

\* The invariant holds in every state.
LEMMA WriteInvariant == Spec => []WriteInv
BY WriteInit, WriteStep, PTL DEF Spec

\* Whatever calls came before, aborted or not, a block that write, stream_write or
\* verify reported clean, written or verified is on the destination, and a call
\* that succeeds has left every block there.
THEOREM AlwaysReportsTrue == Spec => []ReportsTrue
<1>1. WriteInv => ReportsTrue
  BY DEF WriteInv, Told, ReportsTrue
<1>2. QED
  BY <1>1, WriteInvariant, PTL

\* verify reports every block the destination does not hold, of a matching image
\* or not.
THEOREM AlwaysFindsLoss == Spec => []VerifyFindsLoss
<1>1. WriteInv => VerifyFindsLoss
  BY DEF WriteInv, Found, VerifyFindsLoss
<1>2. QED
  BY <1>1, WriteInvariant, PTL

\* A regular file that write has gone through is the disk of the image, holes and
\* length included, whatever it held before and however often write was stopped.
THEOREM AlwaysWritesExactly == Spec => []WrittenFileIsExact
<1>1. WriteInv => WrittenFileIsExact
  <2> SUFFICES ASSUME WriteInv, OfOneVersion, is_file, op = "write", todo = {}
               PROVE  Len(dest) = image.size /\ \A n \in 1..image.size : dest[n] = ImageByte(n)
    BY DEF WrittenFileIsExact
  <2>1. TypeOK /\ offsets = {}
    BY DEF WriteInv, Settled
  <2>2. \A k \in Entries : Holds(k)
    BY <2>1 DEF WriteInv, Covered, Writes
  <2>3. Len(dest) = image.size
    BY DEF WriteInv, Cleared
  <2>4. ASSUME NEW n \in 1..image.size
        PROVE  dest[n] = ImageByte(n)
    <3> DEFINE covering == {k \in Entries : n - Entry(k).block_offset \in 1..Len(Entry(k).digest)}
    <3>1. CASE covering = {}
      <4>1. \A k \in Entries \ todo : ~Covers(k, n)
        BY <3>1 DEF Covers
      <4>2. dest[n] = ZeroByte
        BY <4>1 DEF WriteInv, Cleared
      <4>3. QED
        BY <3>1, <4>2 DEF ImageByte
    <3>2. CASE covering # {}
      <4> DEFINE k == CHOOSE j \in covering : TRUE
                 m == n - Entry(k).block_offset
      <4>1. k \in covering
        BY <3>2
      <4>2. k \in Entries /\ m \in 1..Len(Entry(k).digest)
        BY <4>1
      <4>3. ImageByte(n) = Entry(k).digest[m]
        BY <3>2 DEF ImageByte
      <4> HIDE DEF k
      <4>4. Entry(k).block_offset + m = n
        BY <2>1, <4>2, EntryFacts, ImageWriteAssumption DEF TypeOK
      <4>5. dest[Entry(k).block_offset + m] = Entry(k).digest[m]
        BY <2>2, <4>2 DEF Holds
      <4>6. QED
        BY <4>3, <4>4, <4>5
    <3>3. QED
      BY <3>1, <3>2
  <2>5. QED
    BY <2>3, <2>4
<1>2. QED
  BY <1>1, WriteInvariant, PTL

(***************************************************************************)
(* What the calls may do to the destination.                               *)
(***************************************************************************)

\* A step leaves the destination alone, begins a call or puts down a block.
LEMMA DestStep ==
    ASSUME TypeOK, [Next]_vars
    PROVE  \/ dest' = dest
           \/ BeginWrite \/ BeginStream
           \/ \E k \in todo, d \in Seq(Bytes) : Readable(k) /\ Puts(k, d)
<1>1. ASSUME NEW k \in todo, WriteBlock(k)
      PROVE  \E d \in Seq(Bytes) : Readable(k) /\ Puts(k, d)
  BY <1>1, WritePuts DEF TypeOK, Puts
<1>2. CASE Abort \/ DeviceFull \/ Refuse
  BY <1>2, BrokenPuts DEF Abort, DeviceFull, Refuse
<1>3. QED
  BY <1>1, <1>2
     DEF Next, vars, BeginVerify, NextCluster, NextClusterEndingAt, SkipClean, FindDirty,
         VerifyBlock, VerifyBlockAs, Finish

\* Beginning a call only lengthens a destination that is not truncated.
LEMMA BeginExtends ==
    ASSUME TypeOK, BeginStream \/ (BeginWrite /\ ~is_file)
    PROVE  Len(dest') >= Len(dest) /\ \A n \in 1..Len(dest) : dest'[n] = dest[n]
<1>1. dest' = Extended(dest) /\ dest \in Seq(Bytes) /\ image.size \in Nat
  BY ImageWriteAssumption
     DEF BeginStream, BeginWrite, BeginStreamOver, BeginWriteOver, TypeOK
<1>2. /\ Len(Extended(dest)) =
           IF is_file /\ Len(dest) < image.size THEN image.size ELSE Len(dest)
      /\ \A n \in 1..Len(Extended(dest)) :
           Extended(dest)[n] = IF n <= Len(dest) THEN dest[n] ELSE ZeroByte
  BY <1>1, ExtendedFacts
<1>3. Len(dest) \in Nat /\ Len(dest') \in Nat /\ Len(dest') >= Len(dest)
  BY <1>1, <1>2
<1>4. QED
  BY <1>1, <1>2, <1>3

\* stream_write changes no unit past the end of the disk, also with the clusters
\* of another version of the image.
THEOREM AlwaysInsideDisk == Spec => StreamStaysInsideDisk
<1>1. ASSUME TypeOK, [Next]_vars, op = "stream", NEW n \in 1..Len(dest), dest'[n] # dest[n]
      PROVE  n <= image.size
  <2>1. ~BeginWrite /\ ~BeginStream
    BY <1>1 DEF BeginWrite, BeginStream, BeginWriteOver, BeginStreamOver, Begin
  <2>2. PICK k \in todo, d \in Seq(Bytes) : Readable(k) /\ Puts(k, d)
    BY <1>1, <2>1, DestStep
  <2>3. k \in Entries
    BY <1>1 DEF TypeOK
  <2>4. QED
    BY <1>1, <2>2, <2>3, PutFacts, ImageStays
<1>2. TypeOK /\ [Next]_vars =>
        [ op = "stream" => \A n \in 1..Len(dest) : dest'[n] # dest[n] => n <= image.size ]_vars
  BY <1>1
<1>3. QED
  BY <1>2, TypeCorrect, PTL DEF Spec, StreamStaysInsideDisk

\* What is put down where a block is held changes nothing.
LEMMA PutsOnlyLost ==
    ASSUME TypeOK, OfOneVersion, UNCHANGED image, NEW k \in Entries, Readable(k),
           NEW d \in Seq(Bytes), Puts(k, d), NEW n \in 1..Len(dest), dest'[n] # dest[n]
    PROVE  ~Holds(k) /\ Covers(k, n)
<1>1. Holds(k) => Holds(k)'
  BY PutFacts
<1>2. ToWrite(k) = Entry(k).digest /\ Entry(k).block_offset \in Nat
      /\ Len(Entry(k).digest) \in Nat /\ Len(d) \in Nat /\ Len(d) <= Len(ToWrite(k))
  BY ToWriteFacts, EntryFacts DEF Puts
<1> DEFINE m == n - Entry(k).block_offset
<1>3. m \in 1..Len(d)
  BY PutFacts
<1>4. m \in 1..Len(Entry(k).digest)
  <2> HIDE DEF m
  <2>1. QED
    BY <1>2, <1>3
<1>5. Entry(k).block_offset + m = n
  BY <1>2 DEF TypeOK
<1>6. Holds(k) => dest[n] = Entry(k).digest[m]
  BY <1>4, <1>5 DEF Holds
<1>7. Holds(k)' => dest'[n] = Entry(k).digest[m]
  BY <1>4, <1>5 DEF Holds, Entry
<1>8. QED
  BY <1>1, <1>4, <1>6, <1>7 DEF Covers

\* No step but the truncation by write changes a unit outside a block that the
\* destination did not hold before this step, not even one that fails half-way.
THEOREM AlwaysOnlyLostBlocksChange == Spec => OnlyLostBlocksChange
<1> DEFINE Kept == OfOneVersion /\ ~(is_file /\ op = "idle" /\ op' = "write") =>
          /\ Len(dest') >= Len(dest)
          /\ \A n \in 1..Len(dest) : dest'[n] # dest[n] =>
               \E k \in Entries :
                  /\ ~Holds(k)
                  /\ n - Entry(k).block_offset \in 1..Len(Entry(k).digest)
<1>1. ASSUME TypeOK, [Next]_vars PROVE [Kept]_vars
  <2>1. CASE dest' = dest
    BY <1>1, <2>1 DEF TypeOK
  <2>2. CASE BeginWrite \/ BeginStream
    <3>1. BeginWrite => op = "idle" /\ op' = "write"
      BY DEF BeginWrite, BeginWriteOver, Begin
    <3>2. QED
      BY <1>1, <2>2, <3>1, BeginExtends
  <2>3. ASSUME NEW k \in todo, NEW d \in Seq(Bytes), Readable(k), Puts(k, d)
        PROVE  Kept
    <3>1. k \in Entries /\ UNCHANGED image
      BY <1>1, ImageStays DEF TypeOK
    <3>2. Len(dest') >= Len(dest)
      BY <1>1, <2>3, <3>1, PutFacts
    <3>3. QED
      BY <1>1, <2>3, <3>1, <3>2, PutsOnlyLost DEF Covers
  <2>4. QED
    BY <1>1, <2>1, <2>2, <2>3, DestStep
<1>2. TypeOK /\ [Next]_vars => [Kept]_vars
  BY <1>1
<1>3. QED
  BY <1>2, TypeCorrect, PTL DEF Spec, OnlyLostBlocksChange

(***************************************************************************)
(* The calls implement Restore.                                            *)
(***************************************************************************)

\* The abstract variables: the blocks that are good, and the attempt.
held == {k \in Entries : Holds(k)}
attempt == IF outcome = "refused" THEN "err" ELSE outcome

\* But for a file that write empties, no step loses a block.
LEMMA HeldGrows ==
    ASSUME TypeOK, OfOneVersion, [Next]_vars, ~(BeginWrite /\ is_file)
    PROVE  held \subseteq held'
<1>1. UNCHANGED image /\ Entries' = Entries /\ \A k : Entry(k)' = Entry(k)
  BY ImageStays, SameImage
<1>2. ASSUME NEW k \in Entries, Holds(k)
      PROVE  Holds(k)'
  <2>1. CASE dest' = dest
    BY <1>1, <1>2, <2>1, SameHolds
  <2>2. CASE BeginWrite \/ BeginStream
    <3>1. Len(dest') >= Len(dest) /\ \A n \in 1..Len(dest) : dest'[n] = dest[n]
      BY <2>2, BeginExtends
    <3>2. Len(dest) \in Nat /\ Len(dest') \in Nat /\ Entry(k).block_offset \in Nat
          /\ Len(Entry(k).digest) \in Nat
      BY <1>2, EntryFacts, TypeStep DEF TypeOK
    <3>3. ASSUME NEW n \in 1..Len(Entry(k).digest)
          PROVE  /\ Entry(k).block_offset + n <= Len(dest')
                 /\ dest'[Entry(k).block_offset + n] = Entry(k).digest[n]
      <4>1. Entry(k).block_offset + n <= Len(dest)
            /\ dest[Entry(k).block_offset + n] = Entry(k).digest[n]
        BY <1>2 DEF Holds
      <4>2. Entry(k).block_offset + n \in 1..Len(dest)
        BY <3>2, <4>1
      <4>3. QED
        BY <3>1, <3>2, <4>1, <4>2
    <3>4. QED
      BY <1>1, <3>3 DEF Holds
  <2>3. ASSUME NEW j \in todo, NEW d \in Seq(Bytes), Readable(j), Puts(j, d)
        PROVE  Holds(k)'
    BY <1>1, <1>2, <2>3, PutFacts DEF TypeOK
  <2>4. QED
    BY <2>1, <2>2, <2>3, DestStep
<1>3. QED
  BY <1>1, <1>2 DEF held

\* Every step of the calls is a step of Restore, or none.
LEMMA RestoreStep ==
    ASSUME WriteInv, OfOneVersion, [Next]_vars
    PROVE  [RestoreSpec!Next]_(RestoreSpec!vars)
<1>1. TypeOK /\ Settled /\ Covered
  BY DEF WriteInv
<1>2. UNCHANGED << Entries, is_file >> /\ held' \subseteq Entries
  BY ImageStays, SameImage DEF held
<1>3. ASSUME outcome = "busy", outcome' \in {"busy", "err", "refused"}
      PROVE  [RestoreSpec!Next]_(RestoreSpec!vars)
  <2>1. held \subseteq held'
    BY <1>1, <1>3, HeldGrows
       DEF Settled, Writes, BeginWrite, BeginWriteOver, Begin
  <2>2. attempt = "busy" /\ attempt' \in {"busy", "err"}
    BY <1>3 DEF attempt
  <2>3. RestoreSpec!Progress \/ RestoreSpec!GiveUp
    BY <1>2, <2>1, <2>2 DEF RestoreSpec!Progress, RestoreSpec!GiveUp, held, attempt
  <2>4. QED
    BY <2>3 DEF RestoreSpec!Next
<1>4. CASE BeginWrite \/ BeginStream
  <2>1. outcome' = "busy" /\ outcome # "busy"
    BY <1>1, <1>4
       DEF BeginWrite, BeginStream, BeginWriteOver, BeginStreamOver, Begin, Settled, Writes
  <2>2. attempt # "busy" /\ attempt' = "busy"
    BY <2>1 DEF attempt
  <2>3. ~is_file => held \subseteq held'
    BY <1>1, HeldGrows
  <2>4. RestoreSpec!Start
    BY <1>2, <2>2, <2>3 DEF RestoreSpec!Start, held, attempt
  <2>5. QED
    BY <2>4 DEF RestoreSpec!Next
<1>5. CASE Finish /\ Writes
  <2>1. \A k \in Entries : Holds(k)
    BY <1>1, <1>5 DEF Finish, Covered, Settled
  <2>2. UNCHANGED << image, dest >> /\ outcome = "busy" /\ outcome' = "ok"
    BY <1>1, <1>5 DEF Finish, Settled
  <2>3. held = Entries /\ held' = held
    BY <1>2, <2>1, <2>2, SameHolds DEF held
  <2>4. RestoreSpec!Succeed
    BY <1>2, <2>2, <2>3 DEF RestoreSpec!Succeed, held
  <2>5. QED
    BY <2>4 DEF RestoreSpec!Next
<1>6. ASSUME UNCHANGED << dest, outcome >>
      PROVE  [RestoreSpec!Next]_(RestoreSpec!vars)
  <2>1. held' = held
    BY <1>2, <1>6, ImageStays, SameHolds DEF held
  <2>2. UNCHANGED RestoreSpec!vars
    BY <1>2, <1>6, <2>1 DEF RestoreSpec!vars, held
  <2>3. QED
    BY <2>2
<1>7. ASSUME NEW k \in todo, WriteBlock(k)
      PROVE  [RestoreSpec!Next]_(RestoreSpec!vars)
  BY <1>1, <1>3, <1>7 DEF WriteBlock, WriteBlockAfter, Settled
<1>8. CASE Abort \/ DeviceFull \/ Refuse
  <2>1. CASE Writes
    <3>1. outcome = "busy" /\ outcome' \in {"err", "refused"}
      BY <1>1, <1>8, <2>1 DEF Abort, DeviceFull, Refuse, Broken, EndWith, Settled
    <3>2. QED
      BY <1>3, <3>1
  <2>2. CASE ~Writes
    <3>1. ~writing
      BY <1>1, <2>2 DEF Settled
    <3>2. UNCHANGED << dest, outcome >>
      BY <1>8, <2>2, <3>1 DEF Abort, DeviceFull, Refuse, Broken, EndWith
    <3>3. QED
      BY <1>6, <3>2
  <2>3. QED
    BY <2>1, <2>2
<1>9. QED
  BY <1>4, <1>5, <1>6, <1>7, <1>8
     DEF Next, vars, BeginVerify, Begin, NextCluster, NextClusterEndingAt, SkipClean, FindDirty,
         VerifyBlock, VerifyBlockAs, Finish

\* The calls implement Restore for every image of one version, every block size
\* and every destination: good blocks are lost to truncation only, and an attempt
\* that succeeds leaves all of them good.
THEOREM ImplementsRestore == Spec => Restores
<1>1. Init => (OfOneVersion => RestoreSpec!Init)
  BY InitType DEF Init, TypeOK, RestoreSpec!Init
<1>2. WriteInv /\ [Next]_vars => [OfOneVersion => RestoreSpec!Next]_(RestoreSpec!vars)
  BY RestoreStep
<1>3. QED
  BY <1>1, <1>2, WriteInvariant, PTL DEF Spec, Restores

(***************************************************************************)
(* No image is refused: stream_write never has to go back.                 *)
(***************************************************************************)

\* What stream_write has still to read lies ahead of it.
Ahead == op = "stream" => \A o \in offsets : stream_pos <= o
Accepts == OfOneVersion => Ahead /\ outcome # "refused"

\* Where two clusters stand at different offsets, the one at the larger offset
\* begins after the other has ended.
LEMMA LaterBegins ==
    ASSUME TypeOK, RegionsInOrder, NEW c \in DOMAIN image.clusters, NEW d \in DOMAIN image.clusters,
           image.clusters[c].at < image.clusters[d].at
    PROVE  ClusterEnd(image.clusters[c]) <= image.clusters[d].at
<1>1. image.clusters \in Seq(Cluster) /\ InOrder(image.clusters)
  BY ImageWriteAssumption DEF TypeOK, RegionsInOrder
<1>2. image.clusters[c] \in Cluster /\ image.clusters[d] \in Cluster /\ c \in Nat /\ d \in Nat
  BY <1>1
<1>3. /\ image.clusters[c].at \in Nat /\ image.clusters[d].at \in Nat
      /\ EncodedSize[image.clusters[d].data] \in Nat
  BY <1>2, ImageFormatAssumption DEF Cluster
<1>4. ClusterEnd(image.clusters[d]) > image.clusters[d].at
  BY <1>3 DEF ClusterEnd, SizeField
<1>5. CASE d < c
  <2>1. ClusterEnd(image.clusters[d]) <= image.clusters[c].at
    BY <1>1, <1>5 DEF InOrder
  <2>2. ClusterEnd(image.clusters[d]) \in Nat
    BY <1>3 DEF ClusterEnd, SizeField
  <2>3. QED
    BY <1>3, <1>4, <2>1, <2>2
<1>6. CASE c < d
  BY <1>1, <1>6 DEF InOrder
<1>7. CASE c = d
  BY <1>3, <1>7
<1>8. QED
  BY <1>2, <1>5, <1>6, <1>7

\* Of an image of one version, a cluster stands wherever an entry says, after the
\* headers, and it can be taken unless it lies behind.
LEMMA ClusterFound ==
    ASSUME TypeOK, RegionsInOrder, OfOneVersion, NEW o \in UniqueOffsets
    PROVE  /\ o \in Nat /\ RegionStart <= o
           /\ \E c \in ClustersAt(o) : stream_pos <= o => CanTake(c, o)
<1>1. PICK k \in Entries : o = Entry(k).cluster_offset
  BY DEF UniqueOffsets
<1>2. PICK c \in ClustersAt(o) : Decodes(c, o)
  BY <1>1 DEF OfOneVersion
<1>3. c \in DOMAIN image.clusters /\ image.clusters[c].at = o
  BY <1>2 DEF ClustersAt
<1>4. RegionStart <= o /\ EncodedSize[image.clusters[c].data] <= 4 * BlockSize
  BY <1>3 DEF TypeOK, RegionsInOrder, InOrder
<1>5. o \in Nat
  BY <1>1, EntryFacts
<1>6. QED
  BY <1>2, <1>4, <1>5 DEF CanTake, TypeOK

\* Having read a cluster, stream_write stands before the next one.
LEMMA AheadOfNext ==
    ASSUME TypeOK, RegionsInOrder, OfOneVersion, Ahead, NEW o \in offsets, NextCluster(o)
    PROVE  Ahead'
<1>1. PICK c \in ClustersAt(o) : stream_pos' = ClusterEnd(image.clusters[c]) + 0
  BY DEF NextCluster, NextClusterEndingAt
<1>2. c \in DOMAIN image.clusters /\ image.clusters[c].at = o
  BY <1>1 DEF ClustersAt
<1>3. image.clusters[c] \in Cluster /\ o \in Nat
  BY <1>2, ClusterFound, ImageWriteAssumption DEF TypeOK
<1>4. stream_pos' = ClusterEnd(image.clusters[c])
  BY <1>1, <1>3, ImageFormatAssumption DEF ClusterEnd, Cluster, SizeField
<1>5. ASSUME NEW p \in offsets, p # o PROVE ClusterEnd(image.clusters[c]) <= p
  <2>1. p \in Nat /\ \E d \in DOMAIN image.clusters : image.clusters[d].at = p
    BY ClusterFound DEF TypeOK, ClustersAt
  <2>2. o < p
    BY <1>3, <1>5, <2>1 DEF NextCluster, NextClusterEndingAt, IsNext
  <2>3. QED
    BY <1>2, <2>1, <2>2, LaterBegins
<1>6. offsets' = offsets \ {o}
  BY DEF NextCluster, NextClusterEndingAt
<1>7. QED
  BY <1>4, <1>5, <1>6 DEF Ahead

\* Nothing is found at fault with an image of one version.
LEMMA NeverRefuses ==
    ASSUME TypeOK, RegionsInOrder, OfOneVersion, Ahead
    PROVE  ~Refuse
<1>1. ASSUME op = "write", NEW k \in todo, ~Readable(k) PROVE FALSE
  BY <1>1 DEF TypeOK, OfOneVersion, Readable
<1>2. ASSUME op = "stream", NEW o \in offsets, \A c \in ClustersAt(o) : ~CanTake(c, o) PROVE FALSE
  BY <1>2, ClusterFound DEF TypeOK, Ahead
<1>3. QED
  BY <1>1, <1>2 DEF Refuse

\* Every step keeps what lies ahead ahead.
LEMMA AcceptStep ==
    ASSUME TypeOK, RegionsInOrder, Accepts, [Next]_vars
    PROVE  Accepts'
<1>1. UNCHANGED image /\ (OfOneVersion' <=> OfOneVersion) /\ UniqueOffsets' = UniqueOffsets
  BY ImageStays, SameImage
<1> SUFFICES ASSUME OfOneVersion PROVE Ahead' /\ outcome' # "refused"
  BY <1>1 DEF Accepts
<1>2. Ahead /\ outcome # "refused"
  BY DEF Accepts
<1>3. CASE BeginStream
  <2>1. op' = "stream" /\ offsets' = UniqueOffsets /\ stream_pos' = RegionStart /\ outcome' = "busy"
    BY <1>3 DEF BeginStream, BeginStreamOver, Begin
  <2>2. QED
    BY <2>1, ClusterFound DEF Ahead
<1>4. CASE \E o \in offsets : NextCluster(o)
  BY <1>2, <1>4, AheadOfNext DEF NextCluster, NextClusterEndingAt
<1>5. CASE BeginWrite \/ BeginVerify
  BY <1>2, <1>5 DEF BeginWrite, BeginWriteOver, BeginVerify, Begin, Ahead
<1>6. CASE \E k \in todo : SkipClean(k) \/ FindDirty(k) \/ WriteBlock(k) \/ VerifyBlock(k)
  BY <1>2, <1>6 DEF SkipClean, FindDirty, WriteBlock, WriteBlockAfter, VerifyBlock, VerifyBlockAs, Ahead
<1>7. CASE Finish \/ Abort \/ DeviceFull
  BY <1>2, <1>7 DEF Finish, Abort, DeviceFull, Broken, EndWith, Ahead
<1>8. CASE UNCHANGED vars
  BY <1>2, <1>8 DEF vars, Ahead
<1>9. ~Refuse
  BY <1>2, NeverRefuses
<1>10. QED
  BY <1>3, <1>4, <1>5, <1>6, <1>7, <1>8, <1>9 DEF Next

\* No image of one version whose clusters lie in order is refused, by stream_write
\* for a cluster behind its position, or by either call for a wrong nonce.
THEOREM AlwaysAccepted == ASSUME RegionsInOrder PROVE Spec => []ImagesAccepted
<1>1. Init => Accepts
  BY DEF Init, Accepts, Ahead
<1>2. TypeOK /\ Accepts /\ [Next]_vars => Accepts'
  BY AcceptStep
<1>3. Accepts => ImagesAccepted
  BY DEF Accepts, ImagesAccepted
<1>4. QED
  BY <1>1, <1>2, <1>3, TypeCorrect, PTL DEF Spec

\* Of a well-made image the handle is of one version: what holds of one holds of
\* every image that ImageBuild's proofs show to be well made.
THEOREM WellMadeIsOneVersion ==
    ASSUME TypeOK, WellMade(image, BlockSize)
    PROVE  OfOneVersion
<1> SUFFICES ASSUME NEW k \in Entries
             PROVE  \E c \in ClustersAt(Entry(k).cluster_offset) :
                        Decodes(c, Entry(k).cluster_offset) /\ Plain(k) = Entry(k).digest
  BY DEF OfOneVersion
<1>1. Resolves(image, Entry(k))
  BY DEF WellMade, Entries, Entry
<1>2. PICK c \in DOMAIN image.clusters :
        /\ image.clusters[c].at = Entry(k).cluster_offset
        /\ image.clusters[c].data = Entry(k).digest
        /\ Decodes(c, Entry(k).cluster_offset)
  BY <1>1 DEF Resolves, Decodes
<1>3. ASSUME NEW d \in ClustersAt(Entry(k).cluster_offset) PROVE d = c
  <2>1. /\ d \in DOMAIN image.clusters /\ image.clusters[d].at = image.clusters[c].at
        /\ InOrder(image.clusters) /\ image.clusters \in Seq(Cluster)
    BY <1>2 DEF ClustersAt, WellMade
  <2>2. /\ c \in Nat /\ d \in Nat /\ image.clusters[c] \in Cluster /\ image.clusters[d] \in Cluster
    BY <2>1
  <2>3. /\ image.clusters[c].at \in Nat /\ image.clusters[d].at \in Nat
        /\ EncodedSize[image.clusters[c].data] \in Nat /\ EncodedSize[image.clusters[d].data] \in Nat
    BY <2>2, ImageFormatAssumption DEF Cluster
  <2>4. /\ ClusterEnd(image.clusters[c]) > image.clusters[c].at
        /\ ClusterEnd(image.clusters[d]) > image.clusters[c].at
    BY <2>1, <2>3 DEF ClusterEnd, SizeField
  <2>5. /\ c < d => ClusterEnd(image.clusters[c]) <= image.clusters[c].at
        /\ d < c => ClusterEnd(image.clusters[d]) <= image.clusters[c].at
    BY <2>1 DEF InOrder
  <2>6. /\ ClusterEnd(image.clusters[c]) \in Nat /\ ClusterEnd(image.clusters[d]) \in Nat
    BY <2>3 DEF ClusterEnd, SizeField
  <2>7. QED
    BY <2>2, <2>3, <2>4, <2>5, <2>6
<1>4. c \in ClustersAt(Entry(k).cluster_offset)
  BY <1>2 DEF ClustersAt
<1>5. Plain(k) = Entry(k).digest
  BY <1>2, <1>3, <1>4 DEF Plain
<1>6. QED
  BY <1>2, <1>4, <1>5
=============================================================================
