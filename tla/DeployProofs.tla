---------------------------- MODULE DeployProofs ----------------------------
(***************************************************************************)
(* The inductive invariant of the deploy command, and what follows from    *)
(* it.  The command runs beside the install command only in Machine; its   *)
(* theorems are in MachineProofs.                                          *)
(*                                                                         *)
(* The argument: each step has targets, the sectors it is about to change  *)
(* with what they are to hold, and at every moment a target is on the disk *)
(* or still to be written.  What the targets do not name keeps what the    *)
(* image put there, so that a failure between two writes leaves a disk of  *)
(* which everything needed is known.                                       *)
(***************************************************************************)
EXTENDS Deploy, FiniteSetTheorems, SequenceTheorems, TLAPS

(***************************************************************************)
(* Tables.                                                                 *)
(***************************************************************************)

\* A set of numbers that is not empty has a least one.
LEMMA LeastNumber ==
    ASSUME NEW T, T \subseteq Nat, T # {}
    PROVE  \E n \in T : \A m \in T : n <= m
<1> DEFINE U == {0..m : m \in T}
<1> DEFINE R == StrictSubsetOrdering(Nat)
<1>1. U # {} /\ U \subseteq FiniteSubsetsOf(Nat)
  <2>1. ASSUME NEW m \in T PROVE 0..m \in SUBSET Nat /\ IsFiniteSet(0..m)
    <3>1. m \in Int /\ 0 \in Int
      OBVIOUS
    <3>2. QED
      BY <3>1, FS_Interval
  <2>2. QED
    BY <2>1 DEF FiniteSubsetsOf
<1>2. IsWellFoundedOn(R, FiniteSubsetsOf(Nat))
  BY FS_StrictSubsetOrderingWellFounded
<1>3. PICK X \in U : \A Y \in U : ~ (<< Y, X >> \in R)
  <2> HIDE DEF U, R
  <2>1. QED
    BY <1>1, <1>2, WFMin, Zenon
<1>4. PICK n \in T : X = 0..n
  OBVIOUS
<1>5. ASSUME NEW m \in T, m < n PROVE FALSE
  <2>1. 0..m \subseteq 0..n /\ n \in 0..n /\ n \notin 0..m
    BY <1>5
  <2>2. << 0..m, 0..n >> \in R
    BY <2>1 DEF StrictSubsetOrdering
  <2>3. QED
    BY <1>3, <1>4, <2>2
<1>6. QED
  BY <1>5

\* A bounded set of numbers that is not empty has a greatest one.
LEMMA GreatestNumber ==
    ASSUME NEW T, T # {}, NEW b \in Nat, T \subseteq 0..b
    PROVE  \E n \in T : \A m \in T : m <= n
<1> DEFINE S == {b - m : m \in T}
<1>1. S \subseteq Nat /\ S # {}
  <2>1. ASSUME NEW m \in T PROVE b - m \in Nat
    <3>1. m \in 0..b
      OBVIOUS
    <3>2. QED
      BY <3>1
  <2>2. QED
    BY <2>1
<1>2. PICK s \in S : \A m \in S : s <= m
  BY <1>1, LeastNumber
<1>3. PICK n \in T : s = b - n
  OBVIOUS
<1>4. ASSUME NEW m \in T PROVE m <= n
  BY <1>2, <1>3
<1>5. QED
  BY <1>4

\* A table with numbered slots, of partitions inside the usable sectors.
TableFacts(t, last) ==
    /\ DOMAIN t = 1..Len(t) /\ Len(t) \in Nat
    /\ \A k \in DOMAIN t :
         /\ t[k] = Entry(t[k].index, t[k].type, t[k].guid, t[k].first, t[k].last)
         /\ t[k].first \in Nat /\ t[k].last \in Nat /\ t[k].first <= t[k].last
         /\ t[k].first >= FirstUsable /\ t[k].last <= LastUsable(last)
         /\ \A j \in DOMAIN t \ {k} : t[j].index # t[k].index

\* The tables that images bring.
LEMMA WellFormedFacts ==
    ASSUME NEW t, NEW last, WellFormed(t, last)
    PROVE  TableFacts(t, last)
<1>1. t \in Seq({t[k] : k \in DOMAIN t})
  BY DEF WellFormed
<1>2. DOMAIN t = 1..Len(t) /\ Len(t) \in Nat
  BY <1>1
<1>3. QED
  BY <1>2, Zenon DEF WellFormed, Writable, TableFacts

\* No other partition begins later, or as late in a later slot.
IsTrailing(t, k) ==
    \A j \in DOMAIN t \ {k} :
        t[j].first < t[k].first \/ (t[j].first = t[k].first /\ j < k)

\* extend_last_partition finds a last partition, and only one.
LEMMA TrailingIs ==
    ASSUME NEW t, NEW last \in Nat, TableFacts(t, last), t # << >>
    PROVE  /\ Trailing(t) \in DOMAIN t /\ IsTrailing(t, Trailing(t))
           /\ \A k \in DOMAIN t : IsTrailing(t, k) => k = Trailing(t)
<1>1. DOMAIN t # {} /\ DOMAIN t \subseteq 0..Len(t) /\ Len(t) \in Nat
  BY DEF TableFacts
<1> DEFINE F == {t[k].first : k \in DOMAIN t}
<1>2. F # {} /\ F \subseteq 0..last
  <2>1. ASSUME NEW k \in DOMAIN t PROVE t[k].first \in 0..last
    BY TableAssumption DEF TableFacts, LastUsable
  <2>2. QED
    BY <2>1, <1>1
<1>3. PICK f \in F : \A g \in F : g <= f
  BY <1>2, GreatestNumber
<1> DEFINE K == {k \in DOMAIN t : t[k].first = f}
<1>4. K # {} /\ K \subseteq 0..Len(t)
  BY <1>1
<1>5. PICK k \in K : \A j \in K : j <= k
  BY <1>1, <1>4, GreatestNumber
<1>6. k \in DOMAIN t /\ IsTrailing(t, k)
  <2>1. ASSUME NEW j \in DOMAIN t \ {k}
        PROVE  t[j].first < t[k].first \/ (t[j].first = t[k].first /\ j < k)
    <3>1. t[j].first \in Nat /\ t[j].first <= f /\ f \in Nat /\ t[k].first = f
      BY <1>2, <1>3
    <3>2. CASE t[j].first = f
      BY <3>1, <3>2, <1>5, <1>1
    <3>3. QED
      BY <3>1, <3>2
  <2>2. QED
    BY <2>1 DEF IsTrailing
<1>7. Trailing(t) = CHOOSE i \in DOMAIN t : IsTrailing(t, i)
  BY DEF Trailing, IsTrailing
<1>8. Trailing(t) \in DOMAIN t /\ IsTrailing(t, Trailing(t))
  BY <1>6, <1>7, Zenon
<1>9. ASSUME NEW j \in DOMAIN t, NEW i \in DOMAIN t, IsTrailing(t, i), IsTrailing(t, j)
      PROVE  i = j
  <2>1. i \in Nat /\ j \in Nat /\ t[i].first \in Nat /\ t[j].first \in Nat
    BY <1>1 DEF TableFacts
  <2>2. QED
    BY <2>1, <1>9 DEF IsTrailing
<1>10. QED
  BY <1>8, <1>9, Zenon

\* The table with its trailing partition grown to the end of a disk.
Grown(t, last) == [t EXCEPT ![Trailing(t)].last = LastUsable(last)]

\* Growing the last partition changes its end only, and it stays the last.
LEMMA GrownFacts ==
    ASSUME NEW t, NEW last \in Nat, TableFacts(t, last), t # << >>, NEW end \in Nat
    PROVE  /\ DOMAIN Grown(t, end) = DOMAIN t /\ Grown(t, end) # << >>
           /\ \A k \in DOMAIN t :
                /\ Grown(t, end)[k].first = t[k].first /\ Grown(t, end)[k].index = t[k].index
                /\ Grown(t, end)[k].type = t[k].type
                /\ Grown(t, end)[k].last = IF k = Trailing(t) THEN LastUsable(end) ELSE t[k].last
           /\ Trailing(Grown(t, end)) = Trailing(t)
           /\ Grown(t, end)[Trailing(t)].last = LastUsable(end)
<1> DEFINE m == Trailing(t)
<1> DEFINE g == Grown(t, end)
<1>1. m \in DOMAIN t /\ IsTrailing(t, m) /\ \A k \in DOMAIN t : IsTrailing(t, k) => k = m
  BY TrailingIs
<1>2. g = [k \in DOMAIN t |-> IF k = m THEN [t[k] EXCEPT !.last = LastUsable(end)] ELSE t[k]]
  BY <1>1 DEF Grown
<1>3. DOMAIN g = DOMAIN t
  BY <1>2
<1>4. g # << >>
  BY <1>1, <1>3
<1>5. ASSUME NEW k \in DOMAIN t
      PROVE  /\ g[k].first = t[k].first /\ g[k].index = t[k].index /\ g[k].type = t[k].type
             /\ g[k].last = IF k = m THEN LastUsable(end) ELSE t[k].last
  <2>1. CASE k # m
    BY <1>2, <2>1
  <2>2. CASE k = m
    <3>1. t[k] = Entry(t[k].index, t[k].type, t[k].guid, t[k].first, t[k].last)
      BY DEF TableFacts
    <3>2. g[k] = [t[k] EXCEPT !.last = LastUsable(end)]
      BY <1>2, <2>2
    <3> HIDE DEF g, m
    <3>3. g[k] = [Entry(t[k].index, t[k].type, t[k].guid, t[k].first, t[k].last)
                    EXCEPT !.last = LastUsable(end)]
      BY <3>1, <3>2
    <3>4. g[k] = [index |-> t[k].index, type |-> t[k].type, guid |-> t[k].guid,
                  first |-> t[k].first, last |-> LastUsable(end)]
      BY <3>3 DEF Entry
    <3>5. QED
      BY <3>4, <2>2
  <2>3. QED
    BY <2>1, <2>2
<1> HIDE DEF g
<1>6. Trailing(g) = CHOOSE i \in DOMAIN g : IsTrailing(g, i)
  BY DEF Trailing, IsTrailing
<1>7. \A k \in DOMAIN t : IsTrailing(g, k) <=> IsTrailing(t, k)
  BY <1>3, <1>5 DEF IsTrailing
<1>8. Trailing(g) = m
  BY <1>1, <1>3, <1>6, <1>7
<1>9. QED
  BY <1>1, <1>3, <1>4, <1>5, <1>8, Zenon DEF g

(***************************************************************************)
(* Sectors.                                                                *)
(***************************************************************************)

\* The fields of a header.
LEMMA HeaderFacts ==
    ASSUME NEW my, NEW alternate, NEW last_usable, NEW lba, NEW t
    PROVE  /\ Header(my, alternate, last_usable, lba, t).kind = "header"
           /\ Header(my, alternate, last_usable, lba, t).my = my
           /\ Header(my, alternate, last_usable, lba, t).alternate = alternate
           /\ Header(my, alternate, last_usable, lba, t).entries_lba = lba
           /\ Header(my, alternate, last_usable, lba, t).crc = t
BY DEF Header

\* The kinds of sector and what they hold.
LEMMA SectorFacts ==
    /\ Data.kind = "data"
    /\ \A t : EntryArray(t).kind = "entries" /\ EntryArray(t).entries = t
    /\ \A n : ProtectiveMbr(n).kind = "mbr"
    /\ \A type, n : /\ Filesystem(type, n).kind = "fs" /\ Filesystem(type, n).type = type
                    /\ Filesystem(type, n).sectors = n
BY DEF Data, EntryArray, ProtectiveMbr, Filesystem

\* Everything the command looks at is among the places of the model.
LEMMA PlacesFacts ==
    /\ 0 \in Places /\ 1 \in Places /\ 2 \in Places
    /\ \A l \in Lasts : l \in Places /\ BackupEntriesLba(l) \in Places
    /\ \A i \in Images : i.entries # NoEntries => FsLba(i) \in Places
    /\ \A i \in Images : i.last \in Lasts
BY DEF Places, Lasts

\* The last partition lies behind the primary table and before both the image's
\* own backup and that of any larger disk.
LEMMA Geometry ==
    ASSUME NEW i \in Images, i.entries # NoEntries, NEW l \in Nat, i.last <= l
    PROVE  /\ TableFacts(i.entries, i.last) /\ i.last \in Nat /\ EntrySectors \in Nat
           /\ FsLba(i) \in Nat /\ 2 < FsLba(i) /\ FsLba(i) < BackupEntriesLba(l)
           /\ BackupEntriesLba(l) \in Nat /\ BackupEntriesLba(l) < l
           /\ FsLba(i) < i.last /\ 2 < i.last
<1>1. i.last \in Nat /\ WellFormed(i.entries, i.last)
  BY DeployAssumption
<1>2. TableFacts(i.entries, i.last)
  BY <1>1, WellFormedFacts
<1> DEFINE k == Trailing(i.entries)
<1>3. k \in DOMAIN i.entries
  BY <1>1, <1>2, TrailingIs DEF NoEntries
<1> HIDE DEF k
<1>4. /\ i.entries[k].first \in Nat /\ i.entries[k].last \in Nat
      /\ i.entries[k].first <= i.entries[k].last
      /\ i.entries[k].first >= FirstUsable /\ i.entries[k].last <= LastUsable(i.last)
  BY <1>2, <1>3 DEF TableFacts
<1>5. FsLba(i) = i.entries[k].first
  BY DEF FsLba, TrailingOf, k
<1>6. QED
  BY <1>1, <1>2, <1>4, <1>5, TableAssumption DEF FirstUsable, LastUsable, BackupEntriesLba

\* What an image with a table puts at the places that matter.
LEMMA HoldsFacts ==
    ASSUME NEW i \in Images, i.entries # NoEntries
    PROVE  /\ Holds(i, 0) = ProtectiveMbr(i.last)
           /\ Holds(i, 1) = Header(1, i.last, LastUsable(i.last), 2, i.entries)
           /\ Holds(i, 2) = EntryArray(i.entries)
           /\ Holds(i, FsLba(i)) = Filesystem(i.fs, Sectors(TrailingOf(i)))
           /\ \A p : Holds(i, p).kind = "header" => Holds(i, p).crc = i.entries
<1>1. /\ i.last \in Nat /\ 2 < i.last /\ FsLba(i) \in Nat /\ 2 < FsLba(i)
      /\ FsLba(i) < BackupEntriesLba(i.last) /\ FsLba(i) < i.last
      /\ BackupEntriesLba(i.last) \in Nat /\ BackupEntriesLba(i.last) < i.last
  BY Geometry, DeployAssumption
<1> DEFINE f == FsLba(i)
           b == BackupEntriesLba(i.last)
<1> HIDE DEF f, b
<1>2. Holds(i, 0) = ProtectiveMbr(i.last)
  BY <1>1 DEF Holds
<1>3. Holds(i, 1) = Header(1, i.last, LastUsable(i.last), 2, i.entries)
  BY <1>1 DEF Holds
<1>4. Holds(i, 2) = EntryArray(i.entries)
  BY <1>1 DEF Holds
<1>5. Holds(i, FsLba(i)) = Filesystem(i.fs, Sectors(TrailingOf(i)))
  BY <1>1 DEF Holds
<1>6. ASSUME NEW p PROVE Holds(i, p).kind = "header" => Holds(i, p).crc = i.entries
  <2>1. \/ Holds(i, p) = ProtectiveMbr(i.last)
        \/ Holds(i, p) = Header(1, i.last, LastUsable(i.last), 2, i.entries)
        \/ Holds(i, p) = Header(p, 1, LastUsable(p), BackupEntriesLba(p), i.entries)
        \/ Holds(i, p) = EntryArray(i.entries)
        \/ Holds(i, p) = Filesystem(i.fs, Sectors(TrailingOf(i)))
        \/ Holds(i, p) = Data
    BY <1>1 DEF Holds
  <2>2. QED
    BY <2>1, HeaderFacts, SectorFacts
<1>7. QED
  BY <1>2, <1>3, <1>4, <1>5, <1>6

(***************************************************************************)
(* The invariant.                                                          *)
(***************************************************************************)
Table == command.image.entries
HasTable == Table # NoEntries
Fs == FsLba(command.image)

\* Extending is asked for and gains at least a mebibyte.
Grows ==
    /\ command.extend_fs /\ HasTable
    /\ TrailingOf(command.image).last + Slack < LastUsable(device.last)

\* The primary header as the image brings it, then as the fixup leaves both.
Made(t) == Header(1, command.image.last, LastUsable(command.image.last), 2, t)
Primary(t) == Header(1, device.last, LastUsable(device.last), 2, t)
Backup(t) ==
    Header(device.last, 1, LastUsable(device.last), BackupEntriesLba(device.last), t)

\* What extend_last_partition and fixup_backup_gpt are to bring on the disk.
GrowTargets == {<< 2, EntryArray(Deployed) >>, << 1, Made(Deployed) >>}
FixTargets ==
    {<< 0, ProtectiveMbr(device.last) >>,
     << 2, EntryArray(Deployed) >>, << 1, Primary(Deployed) >>,
     << BackupEntriesLba(device.last), EntryArray(Deployed) >>,
     << device.last, Backup(Deployed) >>}

Reached(targets) == \A w \in targets : disk[w[1]] = w[2]

\* Each target is on the disk or still to be written.
Under(targets) ==
    /\ todo \in Seq(targets)
    /\ \A w \in targets : disk[w[1]] = w[2] \/ \E k \in DOMAIN todo : todo[k] = w

\* The filesystem's size in the image, and once it is grown.
FreshSectors == Sectors(TrailingOf(command.image))
GrownSectors == LastUsable(device.last) - Fs + 1

\* The steps after the tables are synchronised.
Late == {"refresh", "resize", "boot", "next", "success"}

\* The types; a block device keeps the size it has.
TypeInv ==
    /\ device \in [block : BOOLEAN, last : Lasts \cup {0}]
    /\ device.block => device.last \in DiskLasts
    /\ disk = [p \in Places |-> disk[p]] /\ platter = [p \in Places |-> platter[p]]
    /\ pc \in {"idle", "write", "extend", "fixup", "sync", "refresh", "resize", "boot", "next",
               "success", "failure"}
    /\ command \in [image : Images \cup {NoImage}, extend_fs : BOOLEAN, boot_entry : BOOLEAN]
    /\ pc # "idle" => command.image \in Images
    /\ extended \in BOOLEAN /\ written \in BOOLEAN
    /\ new_id \in BootIds \cup {NoNext}
    /\ deploys \in 0..MaxDeploys /\ faults \in 0..MaxFaults

\* The firmware's variables, whoever writes them.
FirmwareInv ==
    /\ DOMAIN boot = BootIds /\ order \in Seq(BootIds)
    /\ boot_next \in BootIds \cup {NoNext}

\* Only extending and fixing up plan writes, and what they plan is their targets.
TodoInv ==
    /\ pc \notin {"extend", "sync"} => todo = << >>
    /\ pc = "extend" => IF extended THEN Under(GrowTargets) ELSE todo = << >>
    /\ pc = "sync" => IF HasTable THEN Under(FixTargets) ELSE todo = << >>

\* What the steps say of the written image.
PhaseInv ==
    /\ pc \in {"idle", "write"} => ~written
    /\ pc = "write" => ~extended
    /\ pc \in {"extend", "fixup", "sync", "refresh", "resize", "boot", "next"} => written
    /\ pc \in {"refresh", "resize"} => extended /\ device.block
    /\ written => command.image.last <= device.last /\ device.last \in Lasts /\ pc # "idle"
    /\ written /\ ~HasTable => ~extended /\ disk[1] = Data

\* The filesystem is as the image brought it, or grown into a partition that the
\* disk then has.
FsInv ==
    NoLookalike => \E n \in {FreshSectors, GrownSectors} :
        /\ disk[Fs] = Filesystem(command.image.fs, n)
        /\ n # FreshSectors => /\ extended /\ disk[1] = Primary(Deployed)
                               /\ pc \in {"boot", "next", "success", "failure"}

\* The first sectors of a disk with a written image, through every failure.
DiskInv ==
    written /\ HasTable =>
        /\ disk[0].kind = "mbr"
        /\ disk[1] \in {Made(Table), Made(Deployed), Primary(Deployed)}
        /\ disk[2] \in {EntryArray(Table), EntryArray(Deployed)}
        /\ extended => Grows
        /\ ~extended => disk[1] \in {Made(Table), Primary(Table)} /\ disk[2] = EntryArray(Table)
        /\ FsInv

\* And how far the targets are reached, step by step.
StageInv ==
    written /\ HasTable =>
        /\ pc = "extend" /\ ~extended => disk[1] = Made(Table)
        /\ pc = "fixup" => Reached(GrowTargets) /\ (extended <=> Grows)
        /\ pc = "sync" => (extended <=> Grows)
        /\ pc \in Late => Reached(FixTargets) /\ (extended <=> Grows) /\ platter = disk
        /\ NoLookalike /\ pc \in {"boot", "next", "success"} /\ extended /\ device.block
              /\ command.image.fs = "ext" => disk[Fs].sectors = GrownSectors

\* The entry being registered names a system partition of the deployed table.
BootInv ==
    /\ pc \notin {"next", "success", "failure"} => new_id = NoNext
    /\ pc = "next" => new_id \in BootIds
    /\ pc \in {"next", "success"} /\ written /\ new_id # NoNext =>
         /\ HasTable
         /\ boot[new_id].path = "fallback" => \E esp \in find_esp(Deployed) :
              boot[new_id].part = esp.index /\ boot[new_id].guid = esp.guid

\* The tables that the kernel may have read.
Tables ==
    {NoEntries} \cup {i.entries : i \in Images}
        \cup {Grown(i.entries, device.last) : i \in {j \in Images : j.entries # NoEntries}}

\* The kernel's partition devices are from a table that was once on the disk.
KernelInv ==
    device.block =>
        /\ kernel \in Tables
        /\ \A p \in Places : /\ disk[p].kind = "header" => disk[p].crc \in Tables
                             /\ platter[p].kind = "header" => platter[p].crc \in Tables

\* The inductive invariant.
DeployInv ==
    /\ TypeInv /\ FirmwareInv /\ TodoInv /\ PhaseInv
    /\ DiskInv /\ StageInv /\ BootInv /\ KernelInv

(***************************************************************************)
(* A written image with a table.                                           *)
(***************************************************************************)
LEMMA WrittenFacts ==
    ASSUME TypeInv, PhaseInv, written, HasTable
    PROVE  /\ command.image \in Images /\ device.last \in Lasts
           /\ device.last \in Nat /\ command.image.last \in Nat /\ command.image.last <= device.last
           /\ TableFacts(Table, command.image.last)
           /\ Fs \in Nat /\ 2 < Fs /\ Fs < BackupEntriesLba(device.last) /\ Fs \in Places
           /\ BackupEntriesLba(device.last) \in Nat /\ BackupEntriesLba(device.last) < device.last
           /\ BackupEntriesLba(device.last) \in Places /\ device.last \in Places
<1>1. command.image \in Images /\ device.last \in Lasts /\ command.image.last <= device.last
  BY DEF TypeInv, PhaseInv
<1>2. device.last \in Nat /\ command.image.last \in Nat
  BY <1>1, DeployAssumption DEF Lasts
<1>3. QED
  BY <1>1, <1>2, Geometry, PlacesFacts DEF HasTable, Table, Fs

\* The table a deployment is to leave is the image's, grown when that is asked
\* for and worth it.
LEMMA DeployedFacts ==
    ASSUME TypeInv, PhaseInv, written, HasTable
    PROVE  /\ Deployed = IF Grows THEN Grown(Table, device.last) ELSE Table
           /\ Deployed # NoEntries /\ Trailing(Deployed) = Trailing(Table)
           /\ Trailing(Table) \in DOMAIN Table
           /\ Sectors(Table[Trailing(Table)]) = FreshSectors
           /\ Grows => Sectors(Deployed[Trailing(Table)]) = GrownSectors
           /\ Grows => FreshSectors < GrownSectors
           /\ FreshSectors \in Int /\ GrownSectors \in Int
<1>1. /\ TableFacts(Table, command.image.last) /\ command.image.last \in Nat
      /\ device.last \in Nat /\ Fs \in Nat
  BY WrittenFacts
<1>2. Deployed = IF Grows THEN Grown(Table, device.last) ELSE Table
  BY DEF Deployed, Grows, Grown, Table, HasTable
<1> DEFINE k == Trailing(Table)
<1>3. k \in DOMAIN Table
  BY <1>1, TrailingIs DEF HasTable, NoEntries
<1>4. Grows => /\ Deployed # NoEntries /\ Trailing(Deployed) = k
               /\ Deployed[k].first = Table[k].first /\ Deployed[k].last = LastUsable(device.last)
  BY <1>1, <1>2, <1>3, GrownFacts DEF HasTable, NoEntries
<1>5. TrailingOf(command.image) = Table[k] /\ Fs = Table[k].first
  BY DEF TrailingOf, Table, Fs, FsLba
<1>6. Table[k].first \in Nat /\ Table[k].last \in Nat
  BY <1>1, <1>3 DEF TableFacts
<1> HIDE DEF k
<1>7. LastUsable(device.last) \in Int /\ Slack \in Nat
  BY <1>1, TableAssumption DEF LastUsable
<1>8. Grows => Table[k].last + Slack < LastUsable(device.last)
  BY <1>5 DEF Grows
<1>9. /\ Sectors(Table[k]) = FreshSectors
      /\ Grows => Sectors(Deployed[k]) = GrownSectors
      /\ Grows => FreshSectors < GrownSectors
      /\ FreshSectors \in Int /\ GrownSectors \in Int
  BY <1>4, <1>5, <1>6, <1>7, <1>8 DEF FreshSectors, GrownSectors, Sectors
<1>10. Deployed # NoEntries /\ Trailing(Deployed) = k
  BY <1>2, <1>4 DEF HasTable, k
<1>11. QED
  BY <1>2, <1>3, <1>9, <1>10, Zenon DEF k

\* The targets lie in different sectors.
Distinct(targets) ==
    \A v, w \in targets : v[1] = w[1] => v = w

\* No two targets of a step are the same sector, and none is the filesystem.
LEMMA TargetsApart ==
    ASSUME TypeInv, PhaseInv, written, HasTable
    PROVE  /\ Distinct(GrowTargets) /\ Distinct(FixTargets)
           /\ \A w \in GrowTargets \cup FixTargets : w[1] \in Places /\ w[1] # Fs
<1>1. /\ Fs \in Nat /\ 2 < Fs /\ Fs < BackupEntriesLba(device.last)
      /\ BackupEntriesLba(device.last) \in Nat /\ BackupEntriesLba(device.last) < device.last
      /\ BackupEntriesLba(device.last) \in Places /\ device.last \in Places /\ device.last \in Nat
  BY WrittenFacts
<1>2. 0 \in Places /\ 1 \in Places /\ 2 \in Places
  BY PlacesFacts
<1> DEFINE b == BackupEntriesLba(device.last)
           l == device.last
<1> HIDE DEF b, l
<1>3. Distinct(GrowTargets)
  BY DEF Distinct, GrowTargets
<1>4. Distinct(FixTargets)
  BY <1>1 DEF Distinct, FixTargets, b, l
<1>5. QED
  BY <1>1, <1>2, <1>3, <1>4 DEF GrowTargets, FixTargets

\* Writing the first target that is still to be written.
LEMMA WriteTarget ==
    ASSUME NEW targets, Under(targets), Distinct(targets), todo # << >>,
           disk = [p \in Places |-> disk[p]], \A w \in targets : w[1] \in Places,
           disk' = [disk EXCEPT ![Head(todo)[1]] = Head(todo)[2]], todo' = Tail(todo)
    PROVE  /\ todo' \in Seq(targets) /\ Head(todo) \in targets
           /\ \A w \in targets : disk'[w[1]] = w[2] \/ \E k \in DOMAIN todo' : todo'[k] = w
<1>1. todo \in Seq(targets) /\ Head(todo) \in targets /\ Tail(todo) \in Seq(targets)
      /\ Head(todo) = todo[1] /\ Len(todo) \in Nat /\ Len(Tail(todo)) = Len(todo) - 1
      /\ DOMAIN todo = 1..Len(todo) /\ DOMAIN Tail(todo) = 1..Len(todo) - 1
      /\ \A k \in 1..Len(todo) - 1 : Tail(todo)[k] = todo[k + 1]
  BY DEF Under
<1>2. ASSUME NEW w \in targets
      PROVE  disk'[w[1]] = w[2] \/ \E k \in DOMAIN todo' : todo'[k] = w
  <2>1. CASE w = Head(todo)
    BY <1>1, <2>1
  <2>2. CASE w # Head(todo) /\ disk[w[1]] = w[2]
    <3>1. w[1] # Head(todo)[1]
      BY <1>1, <2>2, Zenon DEF Distinct
    <3>2. QED
      BY <3>1, <2>2
  <2>3. CASE w # Head(todo) /\ disk[w[1]] # w[2]
    <3>1. PICK k \in DOMAIN todo : todo[k] = w
      BY <2>3 DEF Under
    <3>2. k # 1 /\ k - 1 \in 1..Len(todo) - 1
      BY <1>1, <2>3, <3>1
    <3>3. Tail(todo)[k - 1] = w
      BY <1>1, <3>1, <3>2
    <3>4. QED
      BY <1>1, <3>2, <3>3
  <2>4. QED
    BY <2>1, <2>2, <2>3
<1>3. QED
  BY <1>1, <1>2

\* When nothing is left to write, every target is on the disk.
LEMMA UnderDone ==
    ASSUME NEW targets, Under(targets), todo = << >>
    PROVE  Reached(targets)
BY DEF Under, Reached

(***************************************************************************)
(* What a program finds on the disk.                                       *)
(***************************************************************************)
LEMMA HasGptIs ==
    ASSUME NEW t, HasTable => disk[1] \in {Made(t), Primary(t)} /\ disk[2] = EntryArray(t),
           ~HasTable => disk[1] = Data, command.image.last \in Nat, device.last \in Nat,
           HasTable => 2 < command.image.last /\ 2 < device.last
    PROVE  /\ HasGpt(disk) <=> HasTable
           /\ HasTable => EntriesOf(disk) = t
<1>1. CASE ~HasTable
  BY <1>1, SectorFacts DEF HasGpt
<1>2. CASE HasTable
  <2>1. /\ disk[1].kind = "header" /\ disk[1].my = 1 /\ disk[1].entries_lba = 2
        /\ disk[1].alternate \in {command.image.last, device.last}
    BY <1>2, HeaderFacts DEF Made, Primary
  <2>2. disk[2].kind = "entries" /\ disk[2].entries = t
    BY <1>2, SectorFacts
  <2>3. QED
    BY <1>2, <2>1, <2>2 DEF HasGpt, EntriesOf
<1>3. QED
  BY <1>1, <1>2

\* A header accepted by firmware, from what stands at its place.
LEMMA ValidIs ==
    ASSUME NEW my, NEW alternate, NEW last_usable, NEW lba, NEW t, NEW s,
           disk[my] = Header(my, alternate, last_usable, lba, t), disk[lba] = EntryArray(s)
    PROVE  /\ Valid(disk, my) <=> s = t
           /\ disk[my].crc = t
<1>1. disk[my].kind = "header" /\ disk[my].my = my /\ disk[my].entries_lba = lba
      /\ disk[my].crc = t
  BY HeaderFacts
<1>2. EntryArray(s) = EntryArray(t) <=> s = t
  BY SectorFacts
<1>3. QED
  BY <1>1, <1>2 DEF Valid

\* What is resolved is the table of one of the two headers, or none.
LEMMA ResolvedIs ==
    ASSUME NEW d, NEW last \in Places, NEW T, NoEntries \in T,
           \A p \in Places : d[p].kind = "header" => d[p].crc \in T
    PROVE  Resolved(d, last) \in T
<1>1. 1 \in Places
  BY PlacesFacts
<1>2. QED
  BY <1>1 DEF Resolved, Valid

\* The tables a disk may have met include the one at hand and its grown form.
LEMMA TablesHave ==
    /\ NoEntries \in Tables
    /\ command.image \in Images => Table \in Tables
    /\ TypeInv /\ PhaseInv /\ written /\ HasTable => Deployed \in Tables
<1>1. NoEntries \in Tables /\ (command.image \in Images => Table \in Tables)
  BY DEF Tables, Table
<1>2. ASSUME TypeInv, PhaseInv, written, HasTable PROVE Deployed \in Tables
  BY <1>1, <1>2, DeployedFacts, WrittenFacts DEF Tables, Table, HasTable
<1>3. QED
  BY <1>1, <1>2

\* The state functions of the invariant depend on the command, the device and
\* the disk only.
LEMMA SameCommand ==
    ASSUME UNCHANGED << command, device >>
    PROVE  /\ Table' = Table /\ (HasTable' <=> HasTable) /\ Fs' = Fs /\ (Grows' <=> Grows)
           /\ Deployed' = Deployed /\ \A t : Made(t)' = Made(t) /\ Primary(t)' = Primary(t)
           /\ GrowTargets' = GrowTargets /\ FixTargets' = FixTargets
           /\ FreshSectors' = FreshSectors /\ GrownSectors' = GrownSectors
           /\ Tables' = Tables
BY DEF Table, HasTable, Fs, Grows, Deployed, Made, Primary, Backup, GrowTargets, FixTargets,
       FreshSectors, GrownSectors, Tables

\* The same tables are met while disk and device stay.
LEMMA SameTables ==
    ASSUME UNCHANGED device
    PROVE  Tables' = Tables
BY DEF Tables

(***************************************************************************)
(* The steps.                                                              *)
(***************************************************************************)
LEMMA DeployInitial == DeployInit /\ FirmwareInit => DeployInv
<1> SUFFICES ASSUME DeployInit, FirmwareInit PROVE DeployInv
  OBVIOUS
<1> USE DEF DeployInit
<1>1. TypeInv
  <2>1. device \in [block : BOOLEAN, last : Lasts \cup {0}]
        /\ (device.block => device.last \in DiskLasts)
    BY DEF Lasts
  <2>2. disk = [p \in Places |-> disk[p]] /\ platter = [p \in Places |-> platter[p]]
    OBVIOUS
  <2>3. NoCommand \in [image : Images \cup {NoImage}, extend_fs : BOOLEAN, boot_entry : BOOLEAN]
    BY DEF NoCommand
  <2>4. 0 \in 0..MaxDeploys /\ 0 \in 0..MaxFaults
    BY DeployAssumption
  <2>5. QED
    BY <2>1, <2>2, <2>3, <2>4 DEF TypeInv
<1>2. FirmwareInv
  <2>1. PICK l \in Listings : /\ DOMAIN boot = BootIds /\ order = l.order
    BY DEF FirmwareInit
  <2>2. QED
    BY <2>1, BootAssumption DEF FirmwareInv, FirmwareInit
<1>3. TodoInv /\ PhaseInv /\ DiskInv /\ StageInv /\ BootInv
  BY DEF TodoInv, PhaseInv, DiskInv, StageInv, BootInv
<1>4. KernelInv
  BY SectorFacts, TablesHave DEF KernelInv
<1>5. QED
  BY <1>1, <1>2, <1>3, <1>4 DEF DeployInv

\* A command begins with no promise about the disk.
LEMMA BeginKept == ASSUME DeployInv, Begin PROVE DeployInv'
<1> USE DEF DeployInv
<1>1. TypeInv'
  <2>1. /\ command' \in [image : Images, extend_fs : BOOLEAN, boot_entry : BOOLEAN]
        /\ UNCHANGED << device, disk, platter, kernel, faults >>
        /\ pc' = "write" /\ extended' = FALSE /\ written' = FALSE /\ new_id' = NoNext
    BY DEF Begin, deviceVars
  <2>2. deploys' \in 0..MaxDeploys
    BY DeployAssumption DEF Begin, TypeInv
  <2>3. command'.image \in Images
        /\ command' \in [image : Images \cup {NoImage}, extend_fs : BOOLEAN, boot_entry : BOOLEAN]
    BY <2>1
  <2>4. QED
    BY <2>1, <2>2, <2>3 DEF TypeInv
<1>2. FirmwareInv'
  BY DEF Begin, FirmwareInv, firmwareVars
<1>3. TodoInv' /\ PhaseInv' /\ DiskInv' /\ StageInv' /\ BootInv'
  BY DEF Begin, TodoInv, PhaseInv, DiskInv, StageInv, BootInv
<1>4. KernelInv'
  BY SameTables DEF Begin, KernelInv, deviceVars
<1>5. QED
  BY <1>1, <1>2, <1>3, <1>4

\* Sectors of an image put over others are sectors of an image.
LEMMA OverwrittenHeaders ==
    ASSUME KernelInv, TypeInv, device.block, command.image \in Images, NEW places,
           disk' = Overwritten(command.image, places), UNCHANGED << device, platter, kernel >>
    PROVE  KernelInv'
<1>1. ASSUME NEW p \in Places, disk'[p].kind = "header" PROVE disk'[p].crc \in Tables
  <2>1. CASE disk'[p] = disk[p]
    BY <1>1, <2>1 DEF KernelInv
  <2>2. CASE disk'[p] = Holds(command.image, p)
    <3>1. CASE command.image.entries = NoEntries
      BY <1>1, <2>2, <3>1, SectorFacts DEF Holds
    <3>2. CASE command.image.entries # NoEntries
      BY <1>1, <2>2, <3>2, HoldsFacts, TablesHave DEF Table
    <3>3. QED
      BY <3>1, <3>2
  <2>3. QED
    BY <2>1, <2>2 DEF Overwritten
<1>2. QED
  BY <1>1, SameTables DEF KernelInv

\* Overwriting part of a disk leaves a disk.
LEMMA OverwrittenType ==
    ASSUME NEW image, NEW places, disk' = Overwritten(image, places)
    PROVE  disk' = [p \in Places |-> disk'[p]]
BY DEF Overwritten

\* A whole image brings its table, whatever was there before.
LEMMA WriteImageKept == ASSUME DeployInv, WriteImage PROVE DeployInv'
<1> USE DEF DeployInv
<1> DEFINE image == command.image
<1>1. /\ image \in Images /\ image.last \in Nat \ {0} /\ image.last \in Lasts
      /\ pc = "write" /\ pc' = "extend" /\ written' = TRUE /\ extended = FALSE /\ todo = << >>
      /\ new_id = NoNext
      /\ UNCHANGED << platter, kernel, command, todo, extended, new_id, deploys, faults >>
  BY DeployAssumption, PlacesFacts DEF WriteImage, TypeInv, PhaseInv, TodoInv, BootInv
<1>2. disk' = [p \in Places |-> IF p <= image.last THEN Holds(image, p) ELSE disk[p]]
  BY DEF WriteImage, Overwritten
<1>3. /\ device' \in [block : BOOLEAN, last : Lasts \cup {0}]
      /\ device'.block = device.block /\ (device.block => device' = device)
      /\ image.last <= device'.last /\ device'.last \in Lasts
  <2>1. CASE device.block
    BY <1>1, <2>1 DEF WriteImage, TypeInv, Lasts
  <2>2. CASE ~device.block
    <3>1. device' = [device EXCEPT !.last = image.last]
      BY <2>2 DEF WriteImage
    <3>2. QED
      BY <1>1, <2>2, <3>1 DEF TypeInv
  <2>3. QED
    BY <2>1, <2>2
<1>4. TypeInv'
  <2>1. disk' = [p \in Places |-> disk'[p]]
    BY <1>2
  <2>2. QED
    BY <1>1, <1>3, <2>1 DEF TypeInv
<1>5. FirmwareInv'
  BY DEF WriteImage, FirmwareInv, firmwareVars
<1>6. TodoInv' /\ BootInv'
  BY <1>1 DEF TodoInv, BootInv
<1>7. PhaseInv'
  <2>1. image.entries = NoEntries => disk'[1] = Data
    BY <1>1, <1>2, PlacesFacts DEF Holds
  <2>2. QED
    BY <1>1, <1>3, <2>1 DEF PhaseInv, HasTable, Table
<1>8. DiskInv' /\ StageInv'
  <2>1. CASE image.entries = NoEntries
    BY <1>1, <2>1 DEF DiskInv, StageInv, HasTable, Table
  <2>2. CASE image.entries # NoEntries
    <3>1. FsLba(image) \in Nat /\ FsLba(image) < image.last /\ 2 < image.last
      <4>1. image \in Images /\ image.last \in Nat /\ image.last <= image.last
        BY <1>1, DeployAssumption
      <4>2. QED
        BY <2>2, <4>1, Geometry
    <3>2. /\ disk'[0] = ProtectiveMbr(image.last)
          /\ disk'[1] = Made(Table) /\ disk'[2] = EntryArray(Table)
          /\ disk'[FsLba(image)] = Filesystem(image.fs, FreshSectors)
      BY <1>1, <1>2, <2>2, <3>1, HoldsFacts, PlacesFacts DEF Made, Table, FreshSectors
    <3>3. Table' = Table /\ Made(Table)' = Made(Table) /\ Fs' = FsLba(image)
          /\ FreshSectors' = FreshSectors
      BY <1>1 DEF Table, Made, Fs, FreshSectors
    <3>4. FsInv'
      BY <1>1, <3>2, <3>3 DEF FsInv
    <3>5. DiskInv'
      BY <1>1, <3>2, <3>3, <3>4, SectorFacts DEF DiskInv
    <3>6. StageInv'
      BY <1>1, <3>2, <3>3 DEF StageInv, Late
    <3>7. QED
      BY <3>5, <3>6
  <2>3. QED
    BY <2>1, <2>2
<1>9. KernelInv'
  <2>1. CASE device.block
    BY <1>1, <1>3, <2>1, OverwrittenHeaders DEF WriteImage
  <2>2. CASE ~device.block
    BY <1>3, <2>2 DEF KernelInv
  <2>3. QED
    BY <2>1, <2>2
<1>10. QED
  BY <1>4, <1>5, <1>6, <1>7, <1>8, <1>9

\* The image does not fit, or writing it fails, or it is stopped later on.
LEMMA FailKept == ASSUME DeployInv, DeviceTooSmall \/ Fail PROVE DeployInv'
<1> USE DEF DeployInv
<1>1. /\ UNCHANGED << device, platter, kernel, command, extended, written, new_id, deploys >>
      /\ UNCHANGED firmwareVars
      /\ pc' = "failure" /\ todo' = << >>
      /\ faults' \in 0..MaxFaults /\ pc # "idle"
  <2>1. CASE DeviceTooSmall
    BY <2>1 DEF DeviceTooSmall, TypeInv, TodoInv
  <2>2. CASE Fail
    BY <2>2, DeployAssumption DEF Fail, TypeInv, Running
  <2>3. QED
    BY <2>1, <2>2
<1>2. disk' = disk \/ /\ pc = "write" /\ ~written
                      /\ \E places : disk' = Overwritten(command.image, places)
  <2>1. CASE DeviceTooSmall
    BY <2>1, Zenon DEF DeviceTooSmall, PhaseInv
  <2>2. CASE Fail
    <3>1. CASE pc = "write"
      <4>1. PICK end \in Places : disk' = Overwritten(command.image,
                        {p \in Places : p < end /\ p <= command.image.last /\ p <= device.last})
        BY <2>2, <3>1 DEF Fail
      <4>2. QED
        BY <3>1, <4>1, Zenon DEF PhaseInv
    <3>2. QED
      BY <2>2, <3>1 DEF Fail
  <2>3. QED
    BY <2>1, <2>2
<1>3. TypeInv'
  <2>1. disk' = [p \in Places |-> disk'[p]]
    BY <1>2, OverwrittenType DEF TypeInv
  <2>2. QED
    BY <1>1, <2>1 DEF TypeInv
<1>4. FirmwareInv'
  BY <1>1 DEF FirmwareInv, firmwareVars
<1>5. TodoInv' /\ BootInv'
  BY <1>1 DEF TodoInv, BootInv
<1>6. PhaseInv' /\ DiskInv' /\ StageInv'
  <2>1. CASE ~written
    BY <1>1, <2>1 DEF PhaseInv, DiskInv, StageInv
  <2>2. CASE written
    <3>1. disk' = disk
      BY <1>2, <2>2
    <3>2. PhaseInv' /\ StageInv'
      BY <1>1, <3>1, SameCommand DEF PhaseInv, StageInv, Late
    <3>3. DiskInv'
      BY <1>1, <3>1, SameCommand, Zenon DEF DiskInv, FsInv
    <3>4. QED
      BY <3>2, <3>3
  <2>3. QED
    BY <2>1, <2>2
<1>7. KernelInv'
  <2>1. CASE disk' = disk
    BY <1>1, <2>1, SameTables DEF KernelInv
  <2>2. CASE device.block /\ disk' # disk
    <3>1. command.image \in Images
      BY <1>1 DEF TypeInv
    <3>2. QED
      BY <1>1, <1>2, <2>2, <3>1, OverwrittenHeaders
  <2>3. CASE ~device.block
    BY <1>1, <2>3 DEF KernelInv
  <2>4. QED
    BY <2>1, <2>2, <2>3
<1>8. QED
  BY <1>3, <1>4, <1>5, <1>6, <1>7

\* Extending plans the entries, then the header that has their checksum.
LEMMA ExtendKept == ASSUME DeployInv, Extend PROVE DeployInv'
<1> USE DEF DeployInv
<1>1. /\ pc = "extend" /\ written /\ todo = << >> /\ new_id = NoNext
      /\ UNCHANGED << device, disk, platter, kernel, command, written, new_id, deploys, faults >>
      /\ UNCHANGED firmwareVars /\ pc' \in {"extend", "fixup"}
      /\ command.image \in Images
  BY DEF Extend, deviceVars, PhaseInv, BootInv, TypeInv
<1>2. command.image.last \in Nat /\ device.last \in Nat
  BY <1>1, DeployAssumption DEF PhaseInv, Lasts
<1>3. TypeInv'
  BY <1>1 DEF TypeInv, Extend
<1>4. FirmwareInv'
  BY <1>1 DEF FirmwareInv, firmwareVars
<1>5. BootInv'
  BY <1>1 DEF BootInv
<1>6. KernelInv'
  BY <1>1, SameTables DEF KernelInv
<1>7. ASSUME written, ~extended, HasTable
      PROVE  /\ disk[1] = Made(Table) /\ disk[2] = EntryArray(Table)
             /\ HasGpt(disk) /\ EntriesOf(disk) = Table
             /\ Grows <=> command.extend_fs /\ Extensible(disk, device.last)
  <2>1. disk[1] = Made(Table) /\ disk[2] = EntryArray(Table)
    BY <1>1, <1>7 DEF StageInv, DiskInv
  <2>2. 2 < command.image.last /\ 2 < device.last
    BY <1>1, <1>2, <1>7, Geometry DEF HasTable, Table, PhaseInv
  <2>3. HasGpt(disk) /\ EntriesOf(disk) = Table
    BY <1>2, <1>7, <2>1, <2>2, HasGptIs
  <2>4. Grows <=> command.extend_fs /\ Extensible(disk, device.last)
    BY <1>7, <2>3 DEF Grows, Extensible, HasTable, TrailingOf, Table
  <2>5. QED
    BY <2>1, <2>3, <2>4
<1>8. ~HasTable => ~HasGpt(disk) /\ ~extended
  BY <1>1, SectorFacts DEF PhaseInv, HasGpt
<1>9. CASE command.extend_fs /\ ~extended /\ Extensible(disk, device.last)
  <2>1. HasTable /\ Grows
    BY <1>1, <1>7, <1>8, <1>9 DEF Extensible
  <2>2. /\ todo' = extend_last_partition(disk, device.last) /\ extended' = TRUE
        /\ pc' = "extend"
    BY <1>1, <1>9 DEF Extend
  <2>3. Extended(disk, device.last) = Deployed
    <3>1. Deployed = Grown(Table, device.last)
      BY <1>1, <2>1, DeployedFacts
    <3>2. QED
      BY <1>1, <1>7, <1>9, <2>1, <3>1 DEF Extended, Grown
  <2>4. todo' = << << 2, EntryArray(Deployed) >>, << 1, Made(Deployed) >> >>
    <3>1. disk[1] = Made(Table)
      BY <1>1, <1>7, <1>9, <2>1
    <3>2. [disk[1] EXCEPT !.crc = Deployed] = Made(Deployed)
      BY <3>1 DEF Made, Header
    <3>3. disk[1].entries_lba = 2 /\ disk[1].my = 1
      BY <3>1, HeaderFacts DEF Made
    <3>4. QED
      BY <2>2, <2>3, <3>2, <3>3 DEF extend_last_partition, write_gpt_table
  <2>5. TodoInv'
    <3> DEFINE a == << 2, EntryArray(Deployed) >>
               b == << 1, Made(Deployed) >>
    <3>1. GrowTargets' = {a, b} /\ todo' = << a, b >>
      BY <1>1, <2>4, SameCommand DEF GrowTargets
    <3> HIDE DEF a, b
    <3>2. Under(GrowTargets)'
      <4>1. todo' \in Seq({a, b}) /\ DOMAIN todo' = {1, 2} /\ todo'[1] = a /\ todo'[2] = b
        BY <3>1
      <4>2. QED
        BY <3>1, <4>1 DEF Under
    <3>3. QED
      BY <2>2, <3>2 DEF TodoInv
  <2>6. PhaseInv'
    BY <1>1, <2>1, <2>2, SameCommand DEF PhaseInv
  <2>7. DiskInv'
    <3>1. /\ disk[0].kind = "mbr" /\ disk[1] = Made(Table) /\ disk[2] = EntryArray(Table)
          /\ FsInv
      BY <1>1, <1>7, <1>9, <2>1 DEF DiskInv
    <3>2. NoLookalike => disk[Fs] = Filesystem(command.image.fs, FreshSectors)
      BY <1>9, <3>1 DEF FsInv
    <3>3. FsInv'
      BY <1>1, <3>2, SameCommand DEF FsInv
    <3>4. QED
      BY <1>1, <2>1, <2>2, <3>1, <3>3, SameCommand DEF DiskInv
  <2>8. StageInv'
    BY <2>2 DEF StageInv, Late
  <2>9. QED
    BY <1>3, <1>4, <1>5, <1>6, <2>5, <2>6, <2>7, <2>8
<1>10. CASE ~(command.extend_fs /\ ~extended /\ Extensible(disk, device.last))
  <2>1. pc' = "fixup" /\ UNCHANGED << todo, extended >>
    BY <1>10 DEF Extend
  <2>2. TodoInv'
    BY <1>1, <2>1 DEF TodoInv
  <2>3. PhaseInv'
    BY <1>1, <2>1, SameCommand DEF PhaseInv
  <2>4. DiskInv'
    BY <1>1, <2>1, SameCommand, Zenon DEF DiskInv, FsInv
  <2>5. HasTable => (extended <=> Grows)
    BY <1>1, <1>7, <1>10 DEF DiskInv
  <2>6. HasTable => Reached(GrowTargets)
    <3>1. CASE extended
      BY <1>1, <3>1, UnderDone DEF TodoInv
    <3>2. CASE ~extended /\ HasTable
      <4>1. Deployed = Table
        BY <1>1, <2>5, <3>2, DeployedFacts
      <4>2. QED
        BY <1>1, <1>7, <3>2, <4>1 DEF Reached, GrowTargets
    <3>3. QED
      BY <3>1, <3>2
  <2>7. StageInv'
    BY <1>1, <2>1, <2>5, <2>6, SameCommand DEF StageInv, Reached, Late
  <2>8. QED
    BY <1>3, <1>4, <1>5, <1>6, <2>2, <2>3, <2>4, <2>7
<1>11. QED
  BY <1>9, <1>10

\* The writes of fixup_backup_gpt are the targets of that step.
LEMMA ThreeWrites ==
    ASSUME NEW a, NEW b, NEW c, NEW d, NEW e
    PROVE  << a >> \o << b, c >> \o << d, e >> = << a, b, c, d, e >>
<1> DEFINE s == << a >>
           t == << b, c >>
           u == << d, e >>
           r == s \o t
           S == {a, b, c, d, e}
<1>1. s \in Seq(S) /\ t \in Seq(S) /\ u \in Seq(S)
  OBVIOUS
<1>2. /\ Len(s) = 1 /\ Len(t) = 2 /\ Len(u) = 2
      /\ s[1] = a /\ t[1] = b /\ t[2] = c /\ u[1] = d /\ u[2] = e
  OBVIOUS
<1> HIDE DEF s, t, u, S
<1>3. /\ r \in Seq(S) /\ Len(r) = Len(s) + Len(t)
      /\ \A i \in 1..Len(s) + Len(t) : r[i] = IF i <= Len(s) THEN s[i] ELSE t[i - Len(s)]
  BY <1>1, ConcatProperties, Zenon
<1> HIDE DEF r
<1>4. Len(r) = 3 /\ r[1] = a /\ r[2] = b /\ r[3] = c
  BY <1>2, <1>3
<1> DEFINE q == r \o u
<1>9. r \in Seq(S) /\ u \in Seq(S)
  BY <1>1, <1>3
<1>5. /\ q \in Seq(S) /\ Len(q) = Len(r) + Len(u)
      /\ \A i \in 1..Len(r) + Len(u) : q[i] = IF i <= Len(r) THEN r[i] ELSE u[i - Len(r)]
  BY <1>9, ConcatProperties, Zenon
<1> HIDE DEF q
<1>6. q \in Seq(S) /\ Len(q) = 5 /\ q[1] = a /\ q[2] = b /\ q[3] = c /\ q[4] = d /\ q[5] = e
  BY <1>2, <1>4, <1>5
<1>7. q = << a, b, c, d, e >>
  BY <1>6
<1>8. QED
  BY <1>7 DEF q, r, s, t, u

\* fixup_backup_gpt plans both tables from the primary header it finds, which is
\* the image's or the grown one.
LEMMA FixupKept == ASSUME DeployInv, Fixup PROVE DeployInv'
<1> USE DEF DeployInv
<1>1. /\ pc = "fixup" /\ pc' = "sync" /\ written /\ new_id = NoNext
      /\ UNCHANGED << device, disk, platter, kernel, command, extended, written, new_id, deploys,
                      faults >>
      /\ UNCHANGED firmwareVars /\ command.image \in Images
  BY DEF Fixup, deviceVars, PhaseInv, BootInv, TypeInv
<1>2. command.image.last \in Nat /\ device.last \in Nat
  BY <1>1, DeployAssumption DEF PhaseInv, Lasts
<1>3. TypeInv'
  BY <1>1 DEF TypeInv
<1>4. FirmwareInv'
  BY <1>1 DEF FirmwareInv, firmwareVars
<1>5. BootInv'
  BY <1>1 DEF BootInv
<1>6. KernelInv'
  BY <1>1, SameTables DEF KernelInv
<1>7. PhaseInv'
  BY <1>1, SameCommand DEF PhaseInv
<1>8. DiskInv'
  BY <1>1, SameCommand, Zenon DEF DiskInv, FsInv
<1>9. StageInv'
  BY <1>1, SameCommand DEF StageInv, Late
<1>10. CASE ~HasTable
  <2>1. ~HasGpt(disk)
    BY <1>1, <1>10, SectorFacts DEF PhaseInv, HasGpt
  <2>2. todo' = << >> /\ ~HasTable'
    BY <1>1, <1>10, <2>1, SameCommand DEF Fixup
  <2>3. TodoInv'
    BY <1>1, <2>2 DEF TodoInv
  <2>4. QED
    BY <1>3, <1>4, <1>5, <1>6, <1>7, <1>8, <1>9, <2>3
<1>11. CASE HasTable
  <2>1. disk[1] = Made(Deployed) /\ disk[2] = EntryArray(Deployed) /\ disk[0].kind = "mbr"
    BY <1>1, <1>11 DEF StageInv, DiskInv, Reached, GrowTargets
  <2>2. 2 < command.image.last /\ 2 < device.last
    BY <1>1, <1>2, <1>11, Geometry DEF HasTable, Table, PhaseInv
  <2>3. HasGpt(disk) /\ EntriesOf(disk) = Deployed
    BY <1>2, <1>11, <2>1, <2>2, HasGptIs
  <2>4. disk[1].my = 1 /\ disk[1].entries_lba = 2 /\ disk[1].crc = Deployed
    BY <2>1, HeaderFacts DEF Made
  <2>5. /\ FixedPrimary(disk, device.last) = Primary(Deployed)
        /\ FixedBackup(disk, device.last) = Backup(Deployed)
    BY <2>4 DEF FixedPrimary, FixedBackup, Primary, Backup
  <2> DEFINE a == << 0, ProtectiveMbr(device.last) >>
             b == << 2, EntryArray(Deployed) >>
             c == << 1, Primary(Deployed) >>
             d == << BackupEntriesLba(device.last), EntryArray(Deployed) >>
             e == << device.last, Backup(Deployed) >>
  <2>6. todo' = << a, b, c, d, e >>
    <3>1. fix_protective_mbr(disk, device.last) = << a >>
      BY <2>1 DEF fix_protective_mbr
    <3>2. write_gpt_table(Primary(Deployed), Deployed) = << b, c >>
      BY DEF write_gpt_table, Primary, Header
    <3>3. write_gpt_table(Backup(Deployed), Deployed) = << d, e >>
      BY DEF write_gpt_table, Backup, Header
    <3>4. todo' = fixup_backup_gpt(disk, device.last)
      BY <2>3 DEF Fixup
    <3> HIDE DEF a, b, c, d, e
    <3>5. todo' = (<< a >> \o << b, c >>) \o << d, e >>
      BY <2>3, <2>5, <3>1, <3>2, <3>3, <3>4 DEF fixup_backup_gpt
    <3>6. << a >> \o << b, c >> \o << d, e >> = << a, b, c, d, e >>
      BY ThreeWrites, Zenon
    <3>7. QED
      BY <3>5, <3>6
  <2>7. FixTargets' = {a, b, c, d, e} /\ HasTable'
    BY <1>1, <1>11, SameCommand DEF FixTargets
  <2> HIDE DEF a, b, c, d, e
  <2>8. Under(FixTargets)'
    <3>1. /\ todo' \in Seq({a, b, c, d, e}) /\ DOMAIN todo' = 1..5
          /\ todo'[1] = a /\ todo'[2] = b /\ todo'[3] = c /\ todo'[4] = d /\ todo'[5] = e
      BY <2>6
    <3>2. \A w \in {a, b, c, d, e} : \E k \in 1..5 : todo'[k] = w
      BY <3>1
    <3>3. QED
      BY <2>7, <3>1, <3>2 DEF Under
  <2>9. TodoInv'
    BY <1>1, <2>7, <2>8 DEF TodoInv
  <2>10. QED
    BY <1>3, <1>4, <1>5, <1>6, <1>7, <1>8, <1>9, <2>9
<1>12. QED
  BY <1>10, <1>11

\* A write of a table brings one target on the disk and disturbs no other.
LEMMA WriteTableKept == ASSUME DeployInv, WriteTable PROVE DeployInv'
<1> USE DEF DeployInv
<1>1. /\ todo # << >> /\ pc \in {"extend", "sync"} /\ written /\ HasTable
      /\ disk' = [disk EXCEPT ![Head(todo)[1]] = Head(todo)[2]] /\ todo' = Tail(todo)
      /\ UNCHANGED << device, platter, kernel, pc, command, extended, written, new_id, deploys,
                      faults >>
      /\ UNCHANGED firmwareVars /\ command.image \in Images
      /\ new_id = NoNext
  BY DEF WriteTable, TodoInv, PhaseInv, TypeInv, BootInv
<1>2. /\ pc = "extend" => extended /\ Under(GrowTargets)
      /\ pc = "sync" => Under(FixTargets)
  BY <1>1 DEF TodoInv
<1> DEFINE targets == IF pc = "extend" THEN GrowTargets ELSE FixTargets
           w == Head(todo)
<1>3. /\ Under(targets) /\ Distinct(targets)
      /\ \A v \in targets : v[1] \in Places /\ v[1] # Fs
  BY <1>1, <1>2, TargetsApart
<1>4. disk = [p \in Places |-> disk[p]]
  BY DEF TypeInv
<1>5. /\ todo' \in Seq(targets) /\ w \in targets
      /\ \A v \in targets : disk'[v[1]] = v[2] \/ \E k \in DOMAIN todo' : todo'[k] = v
  <2> HIDE DEF targets
  <2>1. QED
    BY <1>1, <1>3, <1>4, WriteTarget
<1>6. /\ disk'[w[1]] = w[2] /\ \A p \in Places \ {w[1]} : disk'[p] = disk[p]
      /\ disk' = [p \in Places |-> disk'[p]]
      /\ disk'[Fs] = disk[Fs] /\ Fs \in Places
  <2>1. w[1] \in Places /\ w[1] # Fs /\ Fs \in Places
    BY <1>1, <1>3, <1>5, WrittenFacts
  <2> HIDE DEF w
  <2>2. disk' = [disk EXCEPT ![w[1]] = w[2]]
    BY <1>1 DEF w
  <2>3. QED
    BY <1>4, <2>1, <2>2
<1>7. TypeInv'
  BY <1>1, <1>6 DEF TypeInv
<1>8. FirmwareInv' /\ BootInv'
  BY <1>1 DEF FirmwareInv, firmwareVars, BootInv
<1>9. TodoInv'
  <2>1. pc = "extend" => Under(GrowTargets)'
    BY <1>1, <1>5, SameCommand DEF Under
  <2>2. pc = "sync" => Under(FixTargets)'
    BY <1>1, <1>5, SameCommand DEF Under
  <2>3. QED
    BY <1>1, <1>2, <2>1, <2>2, SameCommand DEF TodoInv
<1>10. PhaseInv'
  BY <1>1, SameCommand DEF PhaseInv
<1>11. \/ w = << 0, ProtectiveMbr(device.last) >> \/ w = << 2, EntryArray(Deployed) >>
       \/ w = << 1, Made(Deployed) >> /\ pc = "extend"
       \/ w = << 1, Primary(Deployed) >> /\ pc = "sync"
       \/ w[1] \notin {0, 1, 2}
  <2>1. BackupEntriesLba(device.last) \notin {0, 1, 2} /\ device.last \notin {0, 1, 2}
    BY <1>1, WrittenFacts
  <2>2. QED
    BY <1>1, <1>5, <2>1 DEF GrowTargets, FixTargets
<1>12. /\ disk'[0] = disk[0] \/ disk'[0] = ProtectiveMbr(device.last)
       /\ disk'[2] = disk[2] \/ disk'[2] = EntryArray(Deployed)
       /\ \/ disk'[1] = disk[1] \/ (pc = "extend" /\ disk'[1] = Made(Deployed))
          \/ (pc = "sync" /\ disk'[1] = Primary(Deployed))
  <2> HIDE DEF w
  <2>1. 0 \in Places /\ 1 \in Places /\ 2 \in Places
    BY PlacesFacts
  <2>2. QED
    BY <1>6, <1>11, <2>1
<1>13. ~extended => Deployed = Table
  BY <1>1, <1>2, DeployedFacts DEF StageInv
<1>14. DiskInv'
  <2>1. FsInv'
    <3> SUFFICES ASSUME NoLookalike PROVE FsInv'
      BY DEF FsInv
    <3>1. PICK n \in {FreshSectors, GrownSectors} :
            /\ disk[Fs] = Filesystem(command.image.fs, n)
            /\ n # FreshSectors => /\ extended /\ disk[1] = Primary(Deployed)
                                   /\ pc \in {"boot", "next", "success", "failure"}
      BY <1>1, Zenon DEF DiskInv, FsInv
    <3>2. n = FreshSectors
      BY <1>1, <3>1
    <3>3. QED
      BY <1>1, <1>6, <3>1, <3>2, SameCommand DEF FsInv
  <2>2. disk'[0].kind = "mbr"
    BY <1>1, <1>12, SectorFacts DEF DiskInv
  <2>3. disk'[1] \in {Made(Table), Made(Deployed), Primary(Deployed)}
    BY <1>1, <1>12 DEF DiskInv
  <2>4. disk'[2] \in {EntryArray(Table), EntryArray(Deployed)}
    BY <1>1, <1>12 DEF DiskInv
  <2>5. ~extended => disk'[1] \in {Made(Table), Primary(Table)} /\ disk'[2] = EntryArray(Table)
    BY <1>1, <1>2, <1>12, <1>13 DEF DiskInv
  <2>6. extended => Grows
    BY <1>1 DEF DiskInv
  <2>7. QED
    BY <1>1, <2>1, <2>2, <2>3, <2>4, <2>5, <2>6, SameCommand DEF DiskInv
<1>15. StageInv'
  BY <1>1, <1>2, SameCommand DEF StageInv, Late
<1>16. KernelInv'
  <2>1. w[2].kind = "header" => w[2].crc \in Tables
    <3>1. Deployed \in Tables
      BY <1>1, TablesHave
    <3>2. \/ w[2] = ProtectiveMbr(device.last) \/ w[2] = EntryArray(Deployed)
          \/ w[2] \in {Made(Deployed), Primary(Deployed), Backup(Deployed)}
      BY <1>5 DEF GrowTargets, FixTargets
    <3> HIDE DEF w
    <3>3. QED
      BY <3>1, <3>2, HeaderFacts, SectorFacts DEF Made, Primary, Backup
  <2> HIDE DEF w
  <2>2. \A p \in Places : disk'[p] = disk[p] \/ disk'[p] = w[2]
    BY <1>6
  <2>3. QED
    BY <1>1, <2>1, <2>2, SameTables DEF KernelInv
<1>17. QED
  BY <1>7, <1>8, <1>9, <1>10, <1>14, <1>15, <1>16

\* Synchronising makes the reached targets durable.
LEMMA SyncKept == ASSUME DeployInv, Sync PROVE DeployInv'
<1> USE DEF DeployInv
<1>1. /\ pc = "sync" /\ written /\ todo = << >> /\ new_id = NoNext
      /\ pc' = IF extended /\ device.block THEN "refresh" ELSE "boot"
      /\ platter' = disk
      /\ UNCHANGED << device, disk, kernel, command, todo, extended, written, new_id, deploys, faults >>
      /\ UNCHANGED firmwareVars /\ command.image \in Images
  BY DEF Sync, PhaseInv, BootInv, TypeInv
<1>2. TypeInv'
  BY <1>1 DEF TypeInv
<1>3. FirmwareInv'
  BY <1>1 DEF FirmwareInv, firmwareVars
<1>4. BootInv' /\ TodoInv'
  BY <1>1 DEF BootInv, TodoInv
<1>5. KernelInv'
  BY <1>1, SameTables DEF KernelInv
<1>6. PhaseInv'
  BY <1>1, SameCommand DEF PhaseInv, TypeInv
<1>7. DiskInv'
  <2>1. FsInv => FsInv'
    BY <1>1, SameCommand DEF FsInv
  <2>2. QED
    BY <1>1, <2>1, SameCommand DEF DiskInv
<1>8. StageInv'
  <2>1. HasTable => Reached(FixTargets)
    BY <1>1, UnderDone DEF TodoInv
  <2>2. QED
    BY <1>1, <2>1, SameCommand DEF StageInv, Late, Reached, TypeInv
<1>9. QED
  BY <1>2, <1>3, <1>4, <1>5, <1>6, <1>7, <1>8

\* The kernel's table is one the disk has had, or the new one.
LEMMA RefreshKept == ASSUME DeployInv, Refresh PROVE DeployInv'
<1> USE DEF DeployInv
<1>1. /\ pc = "refresh" /\ pc' = "resize" /\ written
      /\ kernel' \in {kernel, Resolved(disk, device.last)}
      /\ UNCHANGED << device, disk, platter, command, todo, extended, written, new_id, deploys,
                      faults >>
      /\ UNCHANGED firmwareVars /\ command.image \in Images
  BY DEF Refresh, PhaseInv, TypeInv
<1>2. TypeInv' /\ FirmwareInv' /\ BootInv' /\ TodoInv'
  BY <1>1 DEF TypeInv, FirmwareInv, firmwareVars, BootInv, TodoInv
<1>3. KernelInv'
  <2>1. CASE device.block
    <3>1. device.last \in Places
      BY <2>1, PlacesFacts DEF TypeInv, Lasts
    <3>2. Resolved(disk, device.last) \in Tables
      BY <2>1, <3>1, ResolvedIs, TablesHave DEF KernelInv
    <3>3. QED
      BY <1>1, <3>2, SameTables DEF KernelInv
  <2>2. QED
    BY <1>1, <2>1 DEF KernelInv
<1>4. PhaseInv'
  BY <1>1, SameCommand DEF PhaseInv
<1>5. DiskInv'
  <2>1. FsInv => FsInv'
    BY <1>1, SameCommand DEF FsInv
  <2>2. QED
    BY <1>1, <2>1, SameCommand DEF DiskInv
<1>6. StageInv'
  BY <1>1, SameCommand DEF StageInv, Late, Reached
<1>7. QED
  BY <1>2, <1>3, <1>4, <1>5, <1>6

\* The kernel has at most one partition device in a slot; if that has the size
\* the last partition grows to, it begins where the last one does.
LEMMA KernelTable ==
    ASSUME TypeInv, PhaseInv, KernelInv, written, HasTable, device.block
    PROVE  /\ \A k, m \in KernelPartition(TrailingOf(command.image)) : k = m
           /\ NoLookalike => \A k \in KernelPartition(TrailingOf(command.image)) :
                Sectors(kernel[k]) = GrownSectors => kernel[k].first = Fs
<1>1. kernel \in Tables /\ device.last \in DiskLasts /\ device.last \in Nat
  BY DeployAssumption DEF KernelInv, TypeInv
<1>2. /\ command.image \in Images /\ command.image.entries # NoEntries
      /\ Fs = FsLba(command.image) /\ Fs \in Nat
  BY WrittenFacts DEF Fs, HasTable, Table
<1>3. CASE kernel = NoEntries
  <2>1. KernelPartition(TrailingOf(command.image)) = {}
    BY <1>3 DEF KernelPartition, NoEntries
  <2>2. QED
    BY <2>1
<1>4. CASE \E i \in Images : kernel = i.entries
  <2>1. PICK i \in Images : kernel = i.entries
    BY <1>4
  <2>2. TableFacts(kernel, i.last)
    BY <2>1, DeployAssumption, WellFormedFacts
  <2>3. \A k, m \in KernelPartition(TrailingOf(command.image)) : k = m
    BY <2>2 DEF KernelPartition, TableFacts
  <2>4. ASSUME NoLookalike, NEW k \in KernelPartition(TrailingOf(command.image)),
               Sectors(kernel[k]) = GrownSectors
        PROVE  kernel[k].first = Fs
    BY <1>1, <1>2, <2>1, <2>4 DEF NoLookalike, KernelPartition, GrownSectors
  <2>5. QED
    BY <2>3, <2>4
<1>5. CASE \E i \in Images : i.entries # NoEntries /\ kernel = Grown(i.entries, device.last)
  <2>1. PICK i \in Images : i.entries # NoEntries /\ kernel = Grown(i.entries, device.last)
    BY <1>5
  <2>2. TableFacts(i.entries, i.last) /\ i.last \in Nat
    BY <2>1, DeployAssumption, WellFormedFacts
  <2>3. /\ DOMAIN kernel = DOMAIN i.entries
        /\ \A k \in DOMAIN i.entries :
             /\ kernel[k].first = i.entries[k].first /\ kernel[k].index = i.entries[k].index
             /\ kernel[k].last = IF k = Trailing(i.entries) THEN LastUsable(device.last)
                                 ELSE i.entries[k].last
    BY <1>1, <2>1, <2>2, GrownFacts DEF NoEntries
  <2>4. \A k, m \in KernelPartition(TrailingOf(command.image)) : k = m
    BY <2>2, <2>3 DEF KernelPartition, TableFacts
  <2>5. ASSUME NoLookalike, NEW k \in KernelPartition(TrailingOf(command.image)),
               Sectors(kernel[k]) = GrownSectors
        PROVE  kernel[k].first = Fs
    <3>1. k \in DOMAIN i.entries /\ kernel[k].index = TrailingOf(command.image).index
      BY <2>3 DEF KernelPartition
    <3>2. i.entries[k].first \in Nat /\ kernel[k].first = i.entries[k].first
      BY <2>2, <2>3, <3>1 DEF TableFacts
    <3>3. LastUsable(device.last) \in Int
      BY <1>1, TableAssumption DEF LastUsable
    <3>4. CASE k = Trailing(i.entries)
      <4>1. kernel[k].last = LastUsable(device.last)
        BY <2>3, <3>1, <3>4
      <4>2. QED
        BY <1>2, <2>5, <3>2, <3>3, <4>1 DEF Sectors, GrownSectors
    <3>5. CASE k # Trailing(i.entries)
      <4>1. Sectors(kernel[k]) = Sectors(i.entries[k])
        BY <2>3, <3>1, <3>5 DEF Sectors
      <4>2. QED
        BY <1>1, <1>2, <2>3, <2>5, <3>1, <4>1 DEF NoLookalike, GrownSectors
    <3>6. QED
      BY <3>4, <3>5
  <2>6. QED
    BY <2>4, <2>5
<1>6. QED
  BY <1>1, <1>3, <1>4, <1>5 DEF Tables

\* resize2fs changes no sector of a table; without a lookalike it grows the
\* filesystem of the last partition.
LEMMA ResizeKept == ASSUME DeployInv, Resize PROVE DeployInv'
<1> USE DEF DeployInv
<1>1. /\ pc = "resize" /\ pc' = "boot" /\ written /\ extended /\ device.block
      /\ UNCHANGED << device, kernel, command, todo, extended, written, new_id, deploys, faults >>
      /\ UNCHANGED firmwareVars /\ command.image \in Images /\ HasTable /\ new_id = NoNext
  BY DEF Resize, ResizeTo, PhaseInv, TypeInv, BootInv
<1>2. /\ disk[0].kind = "mbr" /\ Reached(FixTargets) /\ platter = disk
      /\ disk[1] = Primary(Deployed) /\ disk[2] = EntryArray(Deployed) /\ FsInv /\ Grows
  BY <1>1 DEF DiskInv, StageInv, Late, Reached, FixTargets
<1>3. NoLookalike => disk[Fs] = Filesystem(command.image.fs, FreshSectors)
  BY <1>1, <1>2 DEF FsInv
<1>4. PICK k \in KernelPartition(TrailingOf(command.image)) :
        disk' = IF kernel[k].first \in Places /\ disk[kernel[k].first].kind = "fs"
                     /\ disk[kernel[k].first].type = "ext"
                THEN [disk EXCEPT ![kernel[k].first] = Filesystem("ext", Sectors(kernel[k]))]
                ELSE disk
  BY DEF Resize, ResizeTo
<1>5. Sectors(kernel[k]) = GrownSectors /\ (NoLookalike => kernel[k].first = Fs)
  <2>1. PICK m \in KernelPartition(TrailingOf(command.image)) :
          Sectors(kernel[m]) = LastUsable(device.last) - TrailingOf(command.image).first + 1
    BY DEF Resize, ResizeTo, KernelAgrees
  <2>2. k = m
    BY <1>1, KernelTable
  <2>3. Sectors(kernel[k]) = GrownSectors
    BY <2>1, <2>2 DEF GrownSectors, Fs, FsLba
  <2>4. QED
    BY <1>1, <2>3, KernelTable
<1>6. Fs \in Places /\ \A w \in FixTargets : w[1] \in Places /\ w[2].kind # "fs"
  <2>1. Fs \in Places /\ \A w \in FixTargets : w[1] \in Places
    BY <1>1, TargetsApart, WrittenFacts
  <2>2. ASSUME NEW w \in FixTargets PROVE w[2].kind # "fs"
    BY SectorFacts, HeaderFacts DEF FixTargets, Primary, Backup
  <2>3. QED
    BY <2>1, <2>2
<1>8. disk = [p \in Places |-> disk[p]]
  BY DEF TypeInv
<1>9. /\ disk' = [p \in Places |-> disk'[p]]
      /\ \A p \in Places : \/ disk'[p] = disk[p]
                           \/ disk[p].kind = "fs" /\ disk'[p].kind = "fs"
  <2>1. CASE disk' = disk
    BY <1>8, <2>1
  <2>2. CASE disk' # disk
    <3>1. /\ kernel[k].first \in Places /\ disk[kernel[k].first].kind = "fs"
          /\ disk' = [disk EXCEPT ![kernel[k].first] = Filesystem("ext", Sectors(kernel[k]))]
      BY <1>4, <2>2
    <3>2. Filesystem("ext", Sectors(kernel[k])).kind = "fs"
      BY SectorFacts
    <3>3. QED
      BY <1>8, <3>1, <3>2
  <2>3. QED
    BY <2>1, <2>2
<1>7. \A w \in FixTargets : disk'[w[1]] = w[2]
  BY <1>2, <1>6, <1>9 DEF Reached
<1>20. NoLookalike =>
         disk'[Fs] = Filesystem(command.image.fs,
                       IF command.image.fs = "ext" THEN GrownSectors ELSE FreshSectors)
  <2> SUFFICES ASSUME NoLookalike
               PROVE  disk'[Fs] = Filesystem(command.image.fs,
                        IF command.image.fs = "ext" THEN GrownSectors ELSE FreshSectors)
    OBVIOUS
  <2>1. /\ kernel[k].first = Fs /\ Sectors(kernel[k]) = GrownSectors
        /\ disk[Fs].kind = "fs" /\ disk[Fs].type = command.image.fs
    BY <1>3, <1>5, SectorFacts
  <2>2. disk' = IF command.image.fs = "ext"
                THEN [disk EXCEPT ![Fs] = Filesystem("ext", GrownSectors)] ELSE disk
    BY <1>4, <1>6, <2>1
  <2>3. QED
    BY <1>3, <1>6, <1>8, <2>2
<1>10. platter' = disk'
  <2>1. platter' = [p \in Places |-> IF disk'[p] # disk[p] THEN disk'[p] ELSE platter[p]]
    BY DEF Resize, ResizeTo
  <2>2. platter' = [p \in Places |-> disk'[p]]
    BY <1>2, <2>1
  <2>3. QED
    BY <1>9, <2>2
<1>11. disk'[0] = disk[0] /\ disk'[1] = disk[1] /\ disk'[2] = disk[2]
  <2>1. disk[0].kind # "fs" /\ disk[1].kind # "fs" /\ disk[2].kind # "fs"
    BY <1>2, SectorFacts, HeaderFacts DEF Primary
  <2>2. QED
    BY <1>9, <2>1, PlacesFacts
<1>12. TypeInv'
  BY <1>1, <1>9, <1>10 DEF TypeInv
<1>13. FirmwareInv' /\ BootInv' /\ TodoInv'
  BY <1>1 DEF FirmwareInv, firmwareVars, BootInv, TodoInv
<1>14. PhaseInv'
  BY <1>1, SameCommand DEF PhaseInv
<1>15. DiskInv'
  <2>1. FsInv'
    BY <1>1, <1>2, <1>20, <1>11, SameCommand DEF FsInv
  <2>2. QED
    BY <1>1, <1>2, <1>11, <2>1, SameCommand DEF DiskInv
<1>16. StageInv'
  <2>1. \A w \in FixTargets : disk'[w[1]] = w[2]
    BY <1>7
  <2>2. NoLookalike /\ command.image.fs = "ext" => disk'[Fs].sectors = GrownSectors
    BY <1>20, SectorFacts
  <2>3. extended <=> Grows
    BY <1>1, <1>2
  <2>4. QED
    BY <1>1, <1>10, <2>1, <2>2, <2>3, SameCommand DEF StageInv, Late, Reached
<1>17. KernelInv'
  <2>1. \A p \in Places : disk'[p] = disk[p] \/ disk'[p].kind = "fs"
    BY <1>9
  <2>2. QED
    BY <1>1, <1>10, <2>1, SameTables DEF KernelInv
<1>18. QED
  BY <1>12, <1>13, <1>14, <1>15, <1>16, <1>17

\* pick_boot_id returns a number of the firmware, of an entry with the asked
\* description if BootOrder lists it.
LEMMA PickedIds ==
    ASSUME FirmwareInv, NEW description, NEW id \in pick_boot_id(description)
    PROVE  /\ id \in BootIds
           /\ id \in Listed => boot[id].description = description
           /\ Append(order, id) \in Seq(BootIds)
<1>1. \A k \in DOMAIN order : order[k] \in BootIds
  BY DEF FirmwareInv
<1>2. CASE Existing(description) # {}
  <2>1. id \in Existing(description)
    BY <1>2 DEF pick_boot_id
  <2>2. id \in BootIds /\ boot[id].description = description
    BY <1>1, <2>1 DEF Existing
  <2>3. QED
    BY <2>2 DEF FirmwareInv
<1>3. CASE Existing(description) = {}
  <2>1. id \in BootIds \ Listed
    BY <1>3 DEF pick_boot_id
  <2>2. QED
    BY <2>1 DEF FirmwareInv
<1>4. QED
  BY <1>2, <1>3

\* The steps after the tables are synchronised that leave the disk alone.
LEMMA BootKept ==
    ASSUME DeployInv, AddEntry \/ SetNext \/ NoBootEntry \/ BootEntryFails \/ KernelStale
    PROVE  DeployInv'
<1> USE DEF DeployInv
<1>1. /\ pc \in {"resize", "boot", "next"} /\ pc' \in {"next", "success", "failure"}
      /\ pc' \in {"next", "success"} => pc \in {"boot", "next"}
      /\ written /\ todo = << >> /\ command.image \in Images
      /\ UNCHANGED << device, disk, platter, kernel, command, todo, extended, written, deploys >>
      /\ faults' \in 0..MaxFaults
  <2>1. CASE AddEntry
    BY <2>1 DEF AddEntry, deviceVars, PhaseInv, TodoInv, TypeInv
  <2>2. CASE SetNext
    BY <2>2 DEF SetNext, deviceVars, PhaseInv, TodoInv, TypeInv
  <2>3. CASE NoBootEntry
    BY <2>3 DEF NoBootEntry, deviceVars, PhaseInv, TodoInv, TypeInv
  <2>4. CASE BootEntryFails
    BY <2>4, DeployAssumption DEF BootEntryFails, deviceVars, PhaseInv, TodoInv, TypeInv
  <2>5. CASE KernelStale
    BY <2>5 DEF KernelStale, deviceVars, PhaseInv, TodoInv, TypeInv
  <2>6. QED
    BY <2>1, <2>2, <2>3, <2>4, <2>5
<1>2. FirmwareInv' /\ new_id' \in BootIds \cup {NoNext}
  <2>1. CASE AddEntry
    <3>1. PICK esp \in EspsFound, id \in pick_boot_id("goldboot") :
            /\ AddBootEntry(id, BootEntry("goldboot", esp, "fallback")) /\ new_id' = id
      BY <2>1 DEF AddEntry
    <3>2. QED
      BY <3>1, PickedIds DEF AddBootEntry, FirmwareInv
  <2>2. CASE SetNext
    BY <2>2 DEF SetNext, SetBootNext, FirmwareInv, TypeInv
  <2>3. CASE ~AddEntry /\ ~SetNext
    BY <2>3 DEF NoBootEntry, BootEntryFails, KernelStale, FirmwareInv, TypeInv, firmwareVars
  <2>4. QED
    BY <2>1, <2>2, <2>3
<1>3. TypeInv' /\ TodoInv'
  BY <1>1, <1>2 DEF TypeInv, TodoInv
<1>4. KernelInv'
  BY <1>1, SameTables DEF KernelInv
<1>5. PhaseInv'
  BY <1>1, SameCommand DEF PhaseInv
<1>6. DiskInv'
  <2>1. FsInv => FsInv'
    BY <1>1, SameCommand DEF FsInv
  <2>2. QED
    BY <1>1, <2>1, SameCommand DEF DiskInv
<1>7. StageInv'
  BY <1>1, SameCommand DEF StageInv, Late, Reached
<1>8. BootInv'
  <2>1. CASE AddEntry
    <3>1. PICK esp \in EspsFound, id \in pick_boot_id("goldboot") :
            /\ AddBootEntry(id, BootEntry("goldboot", esp, "fallback")) /\ new_id' = id
      BY <2>1 DEF AddEntry
    <3>2. pc = "boot" /\ pc' = "next" /\ id \in BootIds
      BY <2>1, <3>1, PickedIds DEF AddEntry
    <3>3. HasTable
      BY <1>1, <3>1, SectorFacts DEF EspsFound, HasGpt, PhaseInv
    <3>4. disk[1] = Primary(Deployed) /\ disk[2] = EntryArray(Deployed)
      BY <1>1, <3>2, <3>3 DEF StageInv, Late, Reached, FixTargets
    <3>5. EntriesOf(disk) = Deployed
      <4>1. disk[1].entries_lba = 2
        BY <3>4, HeaderFacts DEF Primary
      <4>2. QED
        BY <3>4, <4>1, SectorFacts DEF EntriesOf
    <3>6. esp \in find_esp(Deployed)
      BY <3>1, <3>5 DEF EspsFound
    <3>7. boot'[id].part = esp.index /\ boot'[id].guid = esp.guid
      BY <3>1, <3>2 DEF AddBootEntry, BootEntry, FirmwareInv
    <3>8. QED
      BY <1>1, <3>1, <3>2, <3>3, <3>6, <3>7, SameCommand DEF BootInv
  <2>2. CASE SetNext
    BY <1>1, <2>2, SameCommand DEF SetNext, SetBootNext, BootInv
  <2>3. CASE BootEntryFails \/ NoBootEntry
    <3>1. UNCHANGED << boot, new_id >> /\ pc' = "success" /\ pc \in {"boot", "next"}
      BY <2>3 DEF BootEntryFails, NoBootEntry, firmwareVars
    <3>2. QED
      BY <1>1, <3>1, SameCommand DEF BootInv
  <2>4. CASE KernelStale
    BY <2>4 DEF KernelStale, BootInv
  <2>5. QED
    BY <2>1, <2>2, <2>3, <2>4
<1>9. QED
  BY <1>2, <1>3, <1>4, <1>5, <1>6, <1>7, <1>8

\* A power failure that loses a write ends the promise; one that loses none
\* changes nothing on the disk.
LEMMA PowerLossKept == ASSUME DeployInv, PowerLoss PROVE DeployInv'
<1> USE DEF DeployInv
<1>1. /\ device.block /\ pc' = (IF Running THEN "failure" ELSE pc) /\ todo' = << >>
      /\ written' = (written /\ disk' = disk) /\ platter' = disk'
      /\ kernel' = Resolved(disk', device.last)
      /\ UNCHANGED << device, command, extended, new_id, deploys >> /\ UNCHANGED firmwareVars
      /\ faults' \in 0..MaxFaults
  BY DeployAssumption DEF PowerLoss, TypeInv
<1>2. PICK kept : disk' = [p \in Places |-> IF p \in kept THEN disk[p] ELSE platter[p]]
  BY DEF PowerLoss
<1>3. disk' = [p \in Places |-> disk'[p]]
  BY <1>2
<1>4. TypeInv'
  BY <1>1, <1>3 DEF TypeInv, Running
<1>5. FirmwareInv'
  BY <1>1 DEF FirmwareInv, firmwareVars
<1>6. pc' \in {"idle", "success", "failure"} /\ pc' \in {pc, "failure"}
  BY <1>1 DEF Running, TypeInv
<1>7. TodoInv'
  BY <1>1, <1>6 DEF TodoInv
<1>8. BootInv'
  BY <1>1, <1>6, SameCommand DEF BootInv, firmwareVars
<1>9. KernelInv'
  <2>1. \A p \in Places : disk'[p].kind = "header" => disk'[p].crc \in Tables
    BY <1>1, <1>2 DEF KernelInv
  <2>2. device.last \in Places
    BY <1>1, PlacesFacts DEF TypeInv, Lasts
  <2>3. kernel' \in Tables
    BY <1>1, <2>1, <2>2, ResolvedIs, TablesHave
  <2>4. QED
    BY <1>1, <2>1, <2>3, SameTables DEF KernelInv
<1>10. PhaseInv'
  BY <1>1, <1>6, SameCommand DEF PhaseInv, Running
<1>11. CASE ~written'
  BY <1>4, <1>5, <1>7, <1>8, <1>9, <1>10, <1>11 DEF DiskInv, StageInv
<1>12. CASE written'
  <2>1. disk' = disk /\ written
    BY <1>1, <1>12
  <2>2. FsInv => FsInv'
    BY <1>1, <1>6, <2>1, SameCommand DEF FsInv
  <2>3. DiskInv'
    BY <1>1, <2>1, <2>2, SameCommand DEF DiskInv
  <2>4. StageInv'
    BY <1>1, <1>6, <2>1, SameCommand DEF StageInv, Late, Reached
  <2>5. QED
    BY <1>4, <1>5, <1>7, <1>8, <1>9, <1>10, <2>3, <2>4
<1>13. QED
  BY <1>11, <1>12

\* Every step of the deploy command keeps the invariant.
LEMMA DeployStep == ASSUME DeployInv, DeployNext PROVE DeployInv'
BY BeginKept, WriteImageKept, FailKept, ExtendKept, FixupKept, WriteTableKept, SyncKept,
   RefreshKept, ResizeKept, BootKept, PowerLossKept DEF DeployNext

(***************************************************************************)
(* What follows for the disk and the firmware.                             *)
(***************************************************************************)
LEMMA TypesHold == DeployInv => DeployTypeOK
<1> SUFFICES ASSUME DeployInv PROVE DeployTypeOK
  OBVIOUS
<1> USE DEF DeployInv
<1>1. DOMAIN disk = Places /\ DOMAIN platter = Places
  BY DEF TypeInv
<1>2. ASSUME NEW k \in DOMAIN todo PROVE todo[k][1] \in Places
  <2>1. todo # << >>
    OBVIOUS
  <2>2. written /\ HasTable /\ (Under(GrowTargets) \/ Under(FixTargets))
    BY <2>1 DEF TodoInv, PhaseInv, TypeInv
  <2>3. todo \in Seq(GrowTargets \cup FixTargets)
    BY <2>2 DEF Under
  <2>4. todo[k] \in GrowTargets \cup FixTargets
    BY <2>3
  <2>5. QED
    BY <2>2, <2>4, TargetsApart
<1>3. QED
  BY <1>1, <1>2 DEF TypeInv, DeployTypeOK

\* The primary table is whole, and what Resolved finds.
LEMMA PrimaryFound ==
    ASSUME TypeInv, PhaseInv, DiskInv, written, HasTable
    PROVE  /\ Valid(disk, 1) => /\ Resolved(disk, device.last) = disk[1].crc
                                /\ disk[2] = EntryArray(disk[1].crc)
           /\ disk[1].crc \in {Table, Deployed}
           /\ disk[2] = EntryArray(disk[1].crc) => Valid(disk, 1)
<1>1. /\ disk[1].kind = "header" /\ disk[1].my = 1 /\ disk[1].entries_lba = 2
      /\ disk[1].crc \in {Table, Deployed}
  BY HeaderFacts DEF DiskInv, Made, Primary
<1>2. QED
  BY <1>1 DEF Valid, Resolved

\* The invariant gives that the image's table survives every failure.
LEMMA TableSurvivesAlways == DeployInv => TableSurvives
<1> SUFFICES ASSUME DeployInv, written, HasTable, ~extended
             PROVE  Resolved(disk, device.last) = Table
  BY DEF TableSurvives, HasTable, Table
<1> USE DEF DeployInv
<1>1. disk[1] \in {Made(Table), Primary(Table)} /\ disk[2] = EntryArray(Table)
  BY DEF DiskInv
<1>2. disk[1].crc = Table
  BY <1>1, HeaderFacts DEF Made, Primary
<1>3. QED
  BY <1>1, <1>2, PrimaryFound

\* The invariant gives that a success leaves both tables as they should be.
LEMMA DeployedDiskAlways == DeployInv => DeployedDisk
<1> SUFFICES ASSUME DeployInv, pc = "success", written, HasTable
             PROVE  /\ Valid(disk, 1) /\ Valid(disk, device.last)
                    /\ disk[1] = Primary(Deployed) /\ disk[device.last] = Backup(Deployed)
                    /\ disk[0] = ProtectiveMbr(device.last)
                    /\ platter = disk
  BY DEF DeployedDisk, HasTable, Table, Primary, Backup
<1> USE DEF DeployInv
<1>1. Reached(FixTargets) /\ platter = disk
  BY DEF StageInv, Late
<1>2. /\ disk[0] = ProtectiveMbr(device.last) /\ disk[1] = Primary(Deployed)
      /\ disk[2] = EntryArray(Deployed) /\ disk[device.last] = Backup(Deployed)
      /\ disk[BackupEntriesLba(device.last)] = EntryArray(Deployed)
  BY <1>1 DEF Reached, FixTargets
<1>3. Valid(disk, 1)
  BY <1>2, ValidIs DEF Primary
<1>4. Valid(disk, device.last)
  BY <1>2, ValidIs DEF Backup
<1>5. QED
  BY <1>1, <1>2, <1>3, <1>4

\* The invariant gives that the filesystem fits its partition.
LEMMA FilesystemFitsAlways == NoLookalike /\ DeployInv => FilesystemFits
<1> SUFFICES ASSUME NoLookalike, DeployInv, written, HasTable, todo = << >>
             PROVE  LET table == Resolved(disk, device.last) IN
                    /\ Valid(disk, 1) => disk[Fs].sectors <= Sectors(table[Trailing(table)])
                    /\ pc = "success" /\ extended /\ device.block /\ disk[Fs].type = "ext" =>
                         disk[Fs].sectors = Sectors(table[Trailing(table)])
  BY DEF FilesystemFits, HasTable, Table, Fs
<1> DEFINE table == Resolved(disk, device.last)
<1> USE DEF DeployInv
<1>1. PICK n \in {FreshSectors, GrownSectors} :
        /\ disk[Fs] = Filesystem(command.image.fs, n)
        /\ n # FreshSectors => /\ extended /\ disk[1] = Primary(Deployed)
                               /\ pc \in {"boot", "next", "success", "failure"}
  BY DEF DiskInv, FsInv
<1>2. disk[Fs].sectors = n /\ disk[Fs].type = command.image.fs
  BY <1>1, SectorFacts
<1>3. /\ Deployed = IF Grows THEN Grown(Table, device.last) ELSE Table
      /\ Trailing(Deployed) = Trailing(Table)
      /\ Sectors(Table[Trailing(Table)]) = FreshSectors
      /\ Grows => Sectors(Deployed[Trailing(Table)]) = GrownSectors
      /\ Grows => FreshSectors < GrownSectors
      /\ FreshSectors \in Int /\ GrownSectors \in Int
  BY DeployedFacts
<1>4. extended => Grows
  BY DEF DiskInv
<1>5. ASSUME Valid(disk, 1) PROVE n <= Sectors(table[Trailing(table)])
  <2>1. table = disk[1].crc /\ table \in {Table, Deployed}
    BY <1>5, PrimaryFound
  <2>2. n # FreshSectors => table = Deployed /\ Grows /\ n = GrownSectors
    BY <1>1, <1>4, <2>1, HeaderFacts DEF Primary
  <2> HIDE DEF table
  <2>3. QED
    BY <1>1, <1>3, <2>1, <2>2
<1>6. ASSUME pc = "success", extended, device.block, disk[Fs].type = "ext"
      PROVE  n = Sectors(table[Trailing(table)])
  <2>1. n = GrownSectors /\ disk[1] = Primary(Deployed) /\ disk[2] = EntryArray(Deployed)
    BY <1>2, <1>6 DEF StageInv, Late, Reached, FixTargets
  <2>2. Valid(disk, 1) /\ disk[1].crc = Deployed
    BY <2>1, ValidIs DEF Primary
  <2>3. table = Deployed
    BY <2>2, PrimaryFound
  <2> HIDE DEF table
  <2>4. QED
    BY <1>3, <1>4, <1>6, <2>1, <2>3
<1>7. QED
  BY <1>2, <1>5, <1>6

\* The invariant gives that the next boot is on the deployed disk.
LEMMA NextBootAlways == DeployInv => NextBootIsDeployed
<1> SUFFICES ASSUME DeployInv, pc = "success", written, new_id # NoNext,
                    boot[new_id].path = "fallback"
             PROVE  LET table == Resolved(disk, device.last) IN
                    \E k \in DOMAIN table :
                        /\ table[k].type = "esp" /\ \A j \in 1..k - 1 : table[j].type # "esp"
                        /\ boot[new_id].part = table[k].index /\ boot[new_id].guid = table[k].guid
  BY DEF NextBootIsDeployed
<1> USE DEF DeployInv
<1>1. HasTable /\ \E esp \in find_esp(Deployed) :
        boot[new_id].part = esp.index /\ boot[new_id].guid = esp.guid
  BY DEF BootInv
<1>2. disk[1] = Primary(Deployed) /\ disk[2] = EntryArray(Deployed)
  BY <1>1 DEF StageInv, Late, Reached, FixTargets
<1>3. Resolved(disk, device.last) = Deployed
  <2>1. Valid(disk, 1) /\ disk[1].crc = Deployed
    BY <1>2, ValidIs DEF Primary
  <2>2. QED
    BY <1>1, <2>1, PrimaryFound
<1>4. QED
  BY <1>1, <1>3 DEF find_esp, IsEsp
=============================================================================
