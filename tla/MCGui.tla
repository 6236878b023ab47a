------------------------------- MODULE MCGui -------------------------------
(***************************************************************************)
(* Gui on machines with and without other systems, on EFI or not, with one *)
(* image in the library and one on each of two registries, and devices of  *)
(* which one is too small for some images.                                 *)
(***************************************************************************)
EXTENDS Gui

MCAlphabet == << "alpine", "BOOT", "debian", "grub", "shim" >>
Loader(dir, file) == [dir |-> dir, file |-> file]

Esp(index, guid, name, loaders) ==
    [index |-> index, part |-> IF index = 1 THEN "1" ELSE "2", guid |-> guid, name |-> name,
     is_esp |-> TRUE, readable |-> TRUE, loaders |-> loaders]

Goldboot == Esp(1, "g1", GOLDBOOT_ESP_NAME, {Loader("BOOT", "grub")})
Debian == Esp(2, "g2", "esp", {Loader("BOOT", "grub"), Loader("debian", "shim"), Loader("debian", "grub")})
\* An ESP of another goldboot disk, and one that is not formatted.
OtherGoldboot == Esp(1, "g3", GOLDBOOT_ESP_NAME, {Loader("BOOT", "grub")})
Blank == [Esp(2, "g4", "esp", {}) EXCEPT !.readable = FALSE]

Disk(name, table, readable) == [name |-> name, table |-> table, readable |-> readable]
Multi == << Disk("vda", << Goldboot, Debian >>, TRUE), Disk("vdb", << OtherGoldboot, Blank >>, TRUE),
            Disk("vdc", << Debian >>, FALSE) >>

Machine(uki, efi, root, disks, uuid, logins) ==
    [uki |-> uki, efi |-> efi, root |-> root, disks |-> disks, uuid |-> uuid, logins |-> logins]

\* Two with a menu, one of them not started by EFI; two without, one of which asks
\* for sudo and the other logs in, twice: the lister of the second login has the client
\* when an image that the first one listed is to be written.
MCMachines == { Machine(TRUE, TRUE, TRUE, Multi, "g1", 0), Machine(TRUE, FALSE, TRUE, Multi, NoUuid, 0),
                Machine(FALSE, TRUE, FALSE, << >>, NoUuid, 0), Machine(FALSE, TRUE, TRUE, << >>, NoUuid, 2) }
Desktop == { Machine(FALSE, TRUE, TRUE, << >>, NoUuid, 0) }

MCLocal == << "local" >>
MCSize == [local |-> 1, hA |-> 2, hB |-> 1]
MCCounts == [local |-> 1, hA |-> 1, hB |-> 2]
OneDevice == << [name |-> "sda", capacity |-> 2] >>
MCDevices == << [name |-> "sda", capacity |-> 1], [name |-> "sdb", capacity |-> 2] >>
MCListings == { [order |-> << 0 >>, unlisted |-> {}] }

\* The hypothesis of what is proved of the boot menu.
ASSUME GuidsDiffer == EspsDiffer
=============================================================================
