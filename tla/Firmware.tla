------------------------------ MODULE Firmware ------------------------------
(***************************************************************************)
(* The boot entries of the firmware and how boot.rs adds one.  Variables   *)
(* of the firmware survive crashes of the system.                          *)
(***************************************************************************)
EXTENDS Integers, Sequences, FiniteSets

CONSTANTS
    BootIds,     \* numbers of Boot#### variables
    FirstFreeId, \* 0x0100: the numbers from which free ones are taken
    Listings     \* records [order, unlisted]: entries other systems made

ASSUME BootAssumption ==
    /\ BootIds \subseteq Nat /\ FirstFreeId \in Nat
    /\ \A l \in Listings : l.unlisted \subseteq BootIds /\ l.order \in Seq(BootIds)

VARIABLES
    boot,       \* the Boot#### variables
    order,      \* BootOrder
    boot_next   \* BootNext

firmwareVars == << boot, order, boot_next >>

NoVar == [description |-> "none", part |-> 0, guid |-> "none", path |-> "none"]
NoNext == -1

BootEntry(description, esp, path) ==
    [description |-> description, part |-> esp.index, guid |-> esp.guid, path |-> path]

\* The entry that boots the other system of the machine.
Foreign == BootEntry("other", [index |-> 1, guid |-> "other"], "other")

FirmwareInit ==
    /\ \E l \in Listings :
         /\ boot = [id \in BootIds |->
              IF id \in l.unlisted \/ \E k \in DOMAIN l.order : l.order[k] = id
              THEN Foreign ELSE NoVar]
         /\ order = l.order
    /\ boot_next = NoNext

Listed == {order[k] : k \in DOMAIN order}

\* The first entry of BootOrder with this description.
Existing(description) ==
    {order[k] : k \in {j \in DOMAIN order :
        /\ boot[order[j]].description = description
        /\ \A i \in 1..j - 1 : boot[order[i]].description # description}}

\* Slip: numbers are free that are not in use by an entry of this description.
pick_boot_id_any(description) ==
    IF Existing(description) # {} THEN Existing(description)
    ELSE {id \in BootIds : id >= FirstFreeId /\ \A i \in BootIds : i >= FirstFreeId => id <= i}

\* pick_boot_id: none if all numbers are taken.
pick_boot_id(description) ==
    IF Existing(description) # {} THEN Existing(description)
    ELSE LET free == {id \in BootIds \ Listed : id >= FirstFreeId}
         IN  {id \in free : \A i \in free : id <= i}

\* register_boot_entry up to the entry.  Whether efivar's add_boot_entry also
\* extends BootOrder is left open.
AddBootEntry(id, entry) ==
    /\ boot' = [boot EXCEPT ![id] = entry]
    /\ order' \in {order, IF id \in Listed THEN order ELSE Append(order, id)}
    /\ UNCHANGED boot_next

\* And the rest of it.
SetBootNext(id) ==
    /\ boot_next' = id
    /\ UNCHANGED << boot, order >>
=============================================================================
