---------------------------- MODULE MCImageWrite ----------------------------
(***************************************************************************)
(* ImageWrite over the images of a few small disks: blocks of two units,   *)
(* disks of five or six units, with a hole, a block used twice and, on the *)
(* disk of five, a last block cut to one unit.                             *)
(***************************************************************************)
EXTENDS ImageWrite

L2Entries == 2
HostOffsets == 1..2
HostData == << << 1, 1 >>, << 0, 1 >> >>

MCData == UNION {[1..n -> Bytes] : n \in 0..BlockSize}
MCEncodedSize == [d \in MCData |-> IF d = << 1, 1 >> THEN 1 ELSE 2]

Reference == INSTANCE ImageReference WITH
    ClusterSize <- BlockSize

Used(host) == [compressed |-> FALSE, all_zeroes |-> FALSE, is_used |-> TRUE, host |-> host]
Hole == [compressed |-> FALSE, all_zeroes |-> FALSE, is_used |-> FALSE, host |-> 0]

Disks ==
    { [size |-> 5, l1 |-> << << Used(1), Hole >>, << Used(1), Hole >> >>],
      [size |-> 6, l1 |-> << << Used(2), Used(1) >>, << Used(2), Hole >> >>],
      [size |-> 5, l1 |-> << << Hole, Used(2) >>, << Used(2), Hole >> >>] }

MCImages == {Reference!ImageOf(q, e) : q \in Disks, e \in BOOLEAN}

\* What a client holds that fetched the manifest of one version of an image and
\* then the clusters of the next, built later with other nonces.
Mixed(manifest, region) ==
    [manifest EXCEPT !.clusters =
        [c \in DOMAIN region.clusters |->
            IF region.encrypted
            THEN [region.clusters[c] EXCEPT !.nonce = @ + 100]
            ELSE region.clusters[c]]]

AllImages ==
    {Mixed(a, b) : << a, b >> \in
        {p \in MCImages \X MCImages : p[1].encrypted = p[2].encrypted}}

ASSUME ImagesWellMade == \A img \in MCImages : WellMade(img, BlockSize)
ASSUME AllInOrder == RegionsInOrder

\* Devices smaller and larger than the disks, and files of several lengths.
MCDests ==
    [is_file : {FALSE}, bytes : UNION {[1..n -> Bytes] : n \in {4, 6}}]
        \cup [is_file : {TRUE}, bytes : UNION {[1..n -> Bytes] : n \in {0, 3, 6}}]
=============================================================================
