----------------------------- MODULE MCRegistry -----------------------------
(***************************************************************************)
(* Registry over uploads of a few units: two images of one name that       *)
(* differ in size or not, one of another name, one above the limit, an     *)
(* encrypted one.  There are enough inodes for every name    *)
(* and handle, so that a push always finds a free one.                     *)
(***************************************************************************)
EXTENDS Registry

Upload(id, ours, encrypted, clusters) ==
    [id |-> id, ours |-> ours, encrypted |-> encrypted, clusters |-> clusters]

Short == Upload("short", TRUE, FALSE, 1)
Other == Upload("other", TRUE, FALSE, 1)
Long == Upload("long", TRUE, FALSE, 2)
Stranger == Upload("stranger", FALSE, FALSE, 1)
Sealed == Upload("sealed", TRUE, TRUE, 1)
Huge == Upload("huge", TRUE, FALSE, 3)

Pushed == {Short, Long, Stranger, Huge}
Read == {Short, Long, Sealed}
SameSize == {Short, Other}

\* From an offset on, a part of the region, one out of bounds.
MCRanges == {[from |-> 1, to |-> OpenEnd], [from |-> 0, to |-> 0], [from |-> 0, to |-> 5]}
NoRanges == {NoRange}
=============================================================================
