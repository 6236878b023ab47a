--------------------------- MODULE ImageReference ---------------------------
(***************************************************************************)
(* The image of a disk, defined at once: what from_qcow must have written  *)
(* when it ends, computed from the set of allocated entries rather than by *)
(* its loops.  It is also the source of the images ImageWrite restores.    *)
(***************************************************************************)
EXTENDS Qcow, ImageFormat, FiniteSetsExt, SequencesExt

AllocatedBlocks(q) ==
    {b \in 0..Len(q.l1) * L2Entries - 1 :
        LET table == q.l1[b \div L2Entries + 1]
        IN  table # NoL2 /\ HasContents(table[(b % L2Entries) + 1])}

ImageOf(q, encrypted) ==
    LET blocks == SetToSortSeq(AllocatedBlocks(q), <)
        data == [k \in DOMAIN blocks |->
            CutAtEnd(read_contents(q.l1[blocks[k] \div L2Entries + 1]
                                       [(blocks[k] % L2Entries) + 1]),
                     blocks[k] * ClusterSize, q.size, ClusterSize)]
        first(k) == Min({j \in DOMAIN blocks : data[j] = data[k]})
        firsts == {first(k) : k \in DOMAIN blocks}
        offset(k) == RegionStart + MapThenSumSet(
            LAMBDA j : SizeField + EncodedSize[data[j]], {j \in firsts : j < first(k)})
        order == SetToSortSeq(firsts, <)
    IN  [ size |-> q.size,
          encrypted |-> encrypted,
          nonce_table |-> IF encrypted THEN [k \in DOMAIN blocks |-> k] ELSE << >>,
          clusters |-> [c \in DOMAIN order |->
              [at |-> offset(order[c]), data |-> data[order[c]],
               nonce |-> IF encrypted THEN c ELSE 0]],
          digest_table |-> [k \in DOMAIN blocks |->
              [cluster_offset |-> offset(k), block_offset |-> blocks[k] * ClusterSize,
               digest |-> data[k]]] ]
=============================================================================
