------------------------------ MODULE MCBuilder ------------------------------
(***************************************************************************)
(* Builder over every script alone and two multi-boot configurations.      *)
(***************************************************************************)
EXTENDS Builder

MCConfigs == {<< os >> : os \in Names} \cup {<< "alpine", "arch" >>, << "arch", "nix_post" >>}
=============================================================================
