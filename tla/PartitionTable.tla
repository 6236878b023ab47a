--------------------------- MODULE PartitionTable ---------------------------
(***************************************************************************)
(* GUID partition tables as gpt.rs reads and writes them.                  *)
(*                                                                         *)
(* A disk is a function from those sectors that matter to what starts      *)
(* there.  A header carries a checksum of its entries, which here is the   *)
(* entries themselves; the header is one sector and has no torn state.     *)
(* Numbers of sectors are scaled down: EntrySectors stands for the 32 of   *)
(* an array of entries, Slack for the 2048 of one MiB.                     *)
(***************************************************************************)
EXTENDS Integers, Sequences, FiniteSets

CONSTANTS EntrySectors, Slack, MaxEntries

ASSUME TableAssumption ==
    EntrySectors \in Nat \ {0} /\ Slack \in Nat \ {0} /\ MaxEntries \in Nat \ {0}

NoEntries == << >>

\* Entries are a sequence over the used slots, each with its slot number.
Entry(index, type, guid, first, last) ==
    [index |-> index, type |-> type, guid |-> guid, first |-> first, last |-> last]

Sectors(e) == e.last - e.first + 1

Header(my, alternate, last_usable, entries_lba, entries) ==
    [kind |-> "header", my |-> my, alternate |-> alternate, last_usable |-> last_usable,
     entries_lba |-> entries_lba, crc |-> entries]
EntryArray(entries) == [kind |-> "entries", entries |-> entries]
ProtectiveMbr(count) == [kind |-> "mbr", count |-> count]
Data == [kind |-> "data"]

\* The addresses derived from the size of a disk whose last sector is `last`.
BackupEntriesLba(last) == last - EntrySectors
LastUsable(last) == last - EntrySectors - 1
FirstUsable == 2 + EntrySectors

(***************************************************************************)
(* Reading.                                                                *)
(***************************************************************************)

\* The checks of read_gpt; it does not look at the checksums.
HasGpt(disk) ==
    /\ disk[1].kind = "header" /\ disk[1].my = 1 /\ disk[1].alternate # 0
    /\ disk[disk[1].entries_lba].kind = "entries"

EntriesOf(disk) == disk[disk[1].entries_lba].entries

\* What firmware and kernels accept: a header that says where it is and whose
\* entries have its checksum; the backup is looked for at the end of the disk.
Valid(disk, lba) ==
    /\ disk[lba].kind = "header" /\ disk[lba].my = lba
    /\ disk[disk[lba].entries_lba] = EntryArray(disk[lba].crc)

Resolved(disk, last) ==
    IF Valid(disk, 1) THEN disk[1].crc
    ELSE IF Valid(disk, last) THEN disk[last].crc
    ELSE NoEntries

\* The partition with the highest first_lba; among equals the later slot, as
\* max_by_key has it.
Trailing(entries) ==
    CHOOSE k \in DOMAIN entries : \A j \in DOMAIN entries \ {k} :
        \/ entries[j].first < entries[k].first
        \/ entries[j].first = entries[k].first /\ j < k

IsEsp(e) == e.type = "esp"

\* Slip: the last one.
find_esp_last(entries) ==
    {entries[k] : k \in {j \in DOMAIN entries :
        IsEsp(entries[j]) /\ \A i \in j + 1..Len(entries) : ~IsEsp(entries[i])}}

\* find_esp: the first in the order of slots; none if there is none.
find_esp(entries) ==
    {entries[k] : k \in {j \in DOMAIN entries :
        IsEsp(entries[j]) /\ \A i \in 1..j - 1 : ~IsEsp(entries[i])}}

(***************************************************************************)
(* Writing: the writes of each operation, in order, as << sector, content  *)
(* >> pairs.                                                               *)
(***************************************************************************)

\* write_gpt_table: the header gets the checksum of the entries, which are
\* written first.
write_gpt_table(header, entries) ==
    << << header.entries_lba, EntryArray(entries) >>,
       << header.my, [header EXCEPT !.crc = entries] >> >>

\* write_gpt succeeds: not too many entries, each inside the usable range.
Writable(entries, last) ==
    /\ Len(entries) <= MaxEntries
    /\ \A k \in DOMAIN entries :
         entries[k].first >= FirstUsable /\ entries[k].last <= LastUsable(last)

\* What installers and write_gpt leave: partitions in numbered slots, each a run
\* of sectors the table may describe.
WellFormed(entries, last) ==
    /\ entries \in Seq({entries[k] : k \in DOMAIN entries}) /\ Writable(entries, last)
    /\ \A k \in DOMAIN entries : LET e == entries[k] IN
         /\ e = Entry(e.index, e.type, e.guid, e.first, e.last)
         /\ e.first \in Nat /\ e.last \in Nat /\ e.first <= e.last
         /\ \A j \in DOMAIN entries \ {k} : entries[j].index # e.index

write_gpt(entries, last) ==
    << << 0, ProtectiveMbr(last) >> >>
        \o write_gpt_table(Header(1, last, LastUsable(last), 2, entries), entries)
        \o write_gpt_table(
             Header(last, 1, LastUsable(last), BackupEntriesLba(last), entries), entries)

\* extend_last_partition has something to grow.
Extensible(disk, last) ==
    /\ HasGpt(disk) /\ EntriesOf(disk) # NoEntries
    /\ LET e == EntriesOf(disk)[Trailing(EntriesOf(disk))]
       IN  e.last + Slack < LastUsable(last)

Extended(disk, last) ==
    [EntriesOf(disk) EXCEPT ![Trailing(EntriesOf(disk))].last = LastUsable(last)]

extend_last_partition(disk, last) == write_gpt_table(disk[1], Extended(disk, last))

fix_protective_mbr(disk, last) ==
    IF disk[0].kind = "mbr" THEN << << 0, ProtectiveMbr(last) >> >> ELSE << >>

\* Slip: the backup's entries lie one sector too early.
FixedBackup_off(disk, last) ==
    Header(last, disk[1].my, LastUsable(last), BackupEntriesLba(last) - 1, disk[1].crc)

\* Both headers of the fixed-up table, from the primary one.
FixedPrimary(disk, last) ==
    Header(disk[1].my, last, LastUsable(last), disk[1].entries_lba, disk[1].crc)

FixedBackup(disk, last) ==
    Header(last, disk[1].my, LastUsable(last), BackupEntriesLba(last), disk[1].crc)

\* Slip: the backup is a plain copy of the primary header.
fixup_backup_gpt_copy(disk, last) ==
    fix_protective_mbr(disk, last)
        \o write_gpt_table(FixedPrimary(disk, last), EntriesOf(disk))
        \o << << BackupEntriesLba(last), EntryArray(EntriesOf(disk)) >>,
              << last, FixedPrimary(disk, last) >> >>

\* Slip: the primary header refers to the backup's entries, not yet written.
fixup_backup_gpt_forward(disk, last) ==
    fix_protective_mbr(disk, last)
        \o << << 2, EntryArray(EntriesOf(disk)) >>,
              << 1, [FixedPrimary(disk, last) EXCEPT !.entries_lba = BackupEntriesLba(last)] >> >>
        \o write_gpt_table(FixedBackup(disk, last), EntriesOf(disk))

fixup_backup_gpt(disk, last) ==
    fix_protective_mbr(disk, last)
        \o write_gpt_table(FixedPrimary(disk, last), EntriesOf(disk))
        \o write_gpt_table(FixedBackup(disk, last), EntriesOf(disk))
=============================================================================
