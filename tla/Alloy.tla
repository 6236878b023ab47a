-------------------------------- MODULE Alloy --------------------------------
(***************************************************************************)
(* alloy.rs: the disks of several elements merged into one, with an EFI    *)
(* system partition of goldboot's own in front.  Align stands for the 2048 *)
(* sectors to which partitions are aligned, EspSectors for the size of the *)
(* partition that takes the boot loader, already a multiple of it.         *)
(***************************************************************************)
EXTENDS PartitionTable, SequencesExt

CONSTANTS Align, EspSectors

ASSUME AlloyAssumption ==
    Align \in Nat \ {0} /\ EspSectors \in Nat \ {0} /\ EspSectors % Align = 0

\* The GUID of the new partition is drawn at random.
GoldbootGuid == "goldboot"

AlignUp(n) == ((n + Align - 1) \div Align) * Align

\* A source is the entries of its table, << >> when there is none.
Mergeable(source) == \E k \in DOMAIN source : IsEsp(source[k])

ByFirstLba(entries) == SortSeq(entries, LAMBDA a, b : a.first < b.first)

\* Partitions of all elements in element order, with the number of their source.
Tagged(sources) ==
    LET tag(s) == [k \in DOMAIN sources[s] |->
                     [source |-> s, entry |-> ByFirstLba(sources[s])[k]]]
    IN  FoldLeft(LAMBDA acc, s : acc \o tag(s), << >>, [s \in DOMAIN sources |-> s])

GoldbootEsp == Entry(1, "esp", GoldbootGuid, Align, Align + EspSectors - 1)

Plan == [entries |-> << GoldbootEsp >>, copies |-> << >>, next_lba |-> AlignUp(Align + EspSectors)]

\* Slip: the next partition starts right after this one.
place_unaligned(plan, part) ==
    LET n == Sectors(part.entry)
    IN  [ entries |-> Append(plan.entries,
            [part.entry EXCEPT !.index = Len(plan.entries) + 1,
                               !.first = plan.next_lba, !.last = plan.next_lba + n - 1]),
          copies |-> Append(plan.copies,
            [source |-> part.source, from |-> part.entry.first, to |-> plan.next_lba,
             sectors |-> n]),
          next_lba |-> plan.next_lba + n ]

\* The closure `place`.
place(plan, part) ==
    LET n == Sectors(part.entry)
    IN  [ entries |-> Append(plan.entries,
            [part.entry EXCEPT !.index = Len(plan.entries) + 1,
                               !.first = plan.next_lba, !.last = plan.next_lba + n - 1]),
          copies |-> Append(plan.copies,
            [source |-> part.source, from |-> part.entry.first, to |-> plan.next_lba,
             sectors |-> n]),
          next_lba |-> AlignUp(plan.next_lba + n) ]

Layout(sources) == FoldLeft(place, Plan, Tagged(sources))

\* The last sector of the merged disk: room for the backup table, rounded up.
MergedLast(entries) == AlignUp(entries[Len(entries)].last + EntrySectors + 2) - 1

\* merge_disks gives a disk, unless an element lacks a table or a system
\* partition, or write_gpt refuses the entries.
Merges(sources) ==
    /\ \A s \in DOMAIN sources : Mergeable(sources[s])
    /\ Writable(Layout(sources).entries, MergedLast(Layout(sources).entries))
=============================================================================
