------------------------------ MODULE MCMachine ------------------------------
(***************************************************************************)
(* Machine with an image made by an installer, one that alloy.rs merged    *)
(* from two of them, and one without a partition table.                    *)
(***************************************************************************)
EXTENDS Machine, Alloy

Part(index, type, first, last) == Entry(index, type, << type, last >>, first, last)

\* The second one's slots are not in the order of their sectors.
Linux == << Part(1, "esp", 3, 3), Part(2, "root", 4, 6) >>
Windows == << Part(1, "data", 8, 9), Part(2, "esp", 3, 7) >>
Bare == << Part(1, "data", 3, 6) >>

Merge(sources) == [last |-> MergedLast(Layout(sources).entries),
                   entries |-> Layout(sources).entries, fs |-> "other"]

MCImages == {
    [last |-> 8, entries |-> Linux, fs |-> "ext"],
    Merge(<< Windows, Linux >>),
    [last |-> 5, entries |-> NoEntries, fs |-> "other"] }

MCDiskLasts == {8, 47}

MCLibrary == {[name |-> "latest.gb", id |-> "a"]}

ASSUME ImagesDiffer == NoLookalike

\* Nothing, the first free number taken, and one taken that is not listed.
MCListings == {
    [order |-> << >>, unlisted |-> {}],
    [order |-> << 256, 7 >>, unlisted |-> {}],
    [order |-> << 7 >>, unlisted |-> {257}] }

Sources == {Linux, Windows, Bare}
SourceLists == UNION {[1..n -> Sources] : n \in 1..3}

\* What lies on the sectors of a source, and on a merged disk after the copies.
Contents(source, lba) == {<< e.guid, lba - e.first >> : e \in {source[k] : k \in
    {j \in DOMAIN source : source[j].first <= lba /\ lba <= source[j].last}}}

MergedContents(sources, lba) ==
    LET made == Layout(sources).copies
        hits == {k \in DOMAIN made :
                   made[k].to <= lba /\ lba < made[k].to + made[k].sectors}
    IN  UNION {Contents(sources[made[k].source], made[k].from + lba - made[k].to) : k \in hits}

\* merge_disks (alloy.rs), for every list of up to three elements that it
\* accepts: goldboot's own system partition comes first, partitions are aligned,
\* disjoint and inside the disk, and each holds what its source held, in the
\* order of the elements; an element without a system partition is refused.
MergeIsSound ==
    pc = "idle" /\ ipc = "idle" => \A sources \in SourceLists :
        LET e == Layout(sources).entries
            last == MergedLast(e)
        IN  /\ Merges(sources) <=> \A s \in DOMAIN sources :
                 sources[s] # Bare /\ Len(e) <= MaxEntries
            /\ find_esp(e) = {GoldbootEsp}
            /\ e[Len(e)].last <= LastUsable(last)
            /\ \A k \in DOMAIN e :
                 /\ e[k].first % Align = 0 /\ e[k].index = k
                 /\ \A j \in k + 1..Len(e) : e[k].last < e[j].first
                 /\ k > 1 => \A lba \in e[k].first..e[k].last :
                      MergedContents(sources, lba) = {<< e[k].guid, lba - e[k].first >>}
            /\ Len(e) = FoldLeft(LAMBDA n, source : n + Len(source), 1, sources)
=============================================================================
