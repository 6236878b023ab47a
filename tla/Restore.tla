------------------------------- MODULE Restore -------------------------------
(***************************************************************************)
(* What writing an image to a destination promises, with the destination   *)
(* reduced to the set of image blocks it holds: an attempt that starts on  *)
(* a kept destination never loses a block it finds or has written, however *)
(* it ends, and reports success only when it holds every block.            *)
(***************************************************************************)
VARIABLES
    blocks,   \* the blocks of the image
    good,     \* the blocks the destination holds
    erasable, \* an attempt may empty the destination when it starts
    attempt   \* "none", "busy", "ok" or "err": the last attempt

vars == << blocks, good, erasable, attempt >>

TypeOK ==
    /\ good \subseteq blocks
    /\ erasable \in BOOLEAN
    /\ attempt \in {"none", "busy", "ok", "err"}

Init ==
    /\ good \subseteq blocks
    /\ erasable \in BOOLEAN
    /\ attempt = "none"

Start ==
    /\ attempt # "busy"
    /\ attempt' = "busy"
    /\ good' \in SUBSET blocks
    /\ ~erasable => good \subseteq good'
    /\ UNCHANGED << blocks, erasable >>

Progress ==
    /\ attempt = "busy"
    /\ good' \in SUBSET blocks /\ good \subseteq good'
    /\ UNCHANGED << blocks, erasable, attempt >>

Succeed ==
    /\ attempt = "busy" /\ good = blocks
    /\ attempt' = "ok"
    /\ UNCHANGED << blocks, good, erasable >>

GiveUp ==
    /\ attempt = "busy"
    /\ good' \in SUBSET blocks /\ good \subseteq good'
    /\ attempt' = "err"
    /\ UNCHANGED << blocks, erasable >>

Next == Start \/ Progress \/ Succeed \/ GiveUp

Spec == Init /\ [][Next]_vars
=============================================================================
