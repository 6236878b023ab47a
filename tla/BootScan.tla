------------------------------ MODULE BootScan ------------------------------
(***************************************************************************)
(* Which bootloaders goldboot.efi offers to start (boot_scan.rs), and how  *)
(* it has the firmware start one.                                          *)
(***************************************************************************)
EXTENDS Firmware, SequencesExt

CONSTANT Alphabet   \* directory and file names, in the order their lower case sorts

Rank(name) == CHOOSE k \in DOMAIN Alphabet : Alphabet[k] = name

NoUuid == "none"
GOLDBOOT_ESP_NAME == "goldboot-esp"
FALLBACK == "BOOT"

\* Vendor directories before the fallback, alphabetical in each group.
Before(a, b) ==
    IF (a.dir = FALLBACK) # (b.dir = FALLBACK) THEN b.dir = FALLBACK
    ELSE IF a.dir # b.dir THEN Rank(a.dir) < Rank(b.dir)
    ELSE Rank(a.file) < Rank(b.file)

\* The loaders of an ESP, sorted: the k-th has k - 1 before it.
scan_esp_loaders(esp) ==
    [k \in 1..Cardinality(esp.loaders) |-> CHOOSE l \in esp.loaders :
        Cardinality({m \in esp.loaders : Before(m, l)}) = k - 1]

\* Slip: one of the two marks is enough.
Own_either(esp, uuid) == esp.guid = uuid \/ esp.name = GOLDBOOT_ESP_NAME

\* Whether goldboot was started from this ESP: by the identifier the stub left,
\* or by name if it left none.
Own(esp, uuid) == IF uuid = NoUuid THEN esp.name = GOLDBOOT_ESP_NAME ELSE esp.guid = uuid

BootTarget(disk, esp, loader) ==
    [esp |-> [index |-> esp.index, guid |-> esp.guid], loader |-> loader,
     path |-> loader.dir \o "/" \o loader.file, label |-> loader.dir \o " " \o disk.name \o esp.part]

scan_disk(disk, uuid) ==
    LET scanned(esp) == esp.is_esp /\ esp.readable /\ ~Own(esp, uuid)
        targets(esp) == LET found == scan_esp_loaders(esp)
                        IN  [k \in DOMAIN found |-> BootTarget(disk, esp, found[k])]
    IN  FlattenSeq([e \in DOMAIN disk.table |->
            IF scanned(disk.table[e]) THEN targets(disk.table[e]) ELSE << >>])

\* The disks come sorted by name; one that cannot be read is left out.
scan_boot_targets(disks, uuid) ==
    FlattenSeq([d \in DOMAIN disks |->
        IF disks[d].readable THEN scan_disk(disks[d], uuid) ELSE << >>])

\* Slip: BootNext stays as it is.
Register_entry_only(description, esp, path, ok) ==
    IF ok THEN \E id \in pick_boot_id(description) : AddBootEntry(id, BootEntry(description, esp, path))
    ELSE UNCHANGED firmwareVars

\* register_boot_entry in one step, with its result: a failure may leave the
\* entry without BootNext.
Register(description, esp, path, ok) ==
    LET entry == BootEntry(description, esp, path)
    IN  \/ /\ ok
           /\ \E id \in pick_boot_id(description) :
                /\ boot' = [boot EXCEPT ![id] = entry]
                /\ order' \in {order, IF id \in Listed THEN order ELSE Append(order, id)}
                /\ boot_next' = id
        \/ ~ok /\ UNCHANGED firmwareVars
        \/ ~ok /\ \E id \in pick_boot_id(description) : AddBootEntry(id, entry)
=============================================================================
