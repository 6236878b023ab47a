---------------------------- MODULE AtomicStore ----------------------------
(***************************************************************************)
(* What a registry promises to those who push: the image behind a name     *)
(* changes in one step from one complete, acceptable upload to another.  A *)
(* push that is confirmed has made that step itself, one that is refused   *)
(* has not, and one that got no answer may or may not have.  A power       *)
(* failure may take the last changes back, but never leaves a mixture.     *)
(***************************************************************************)
CONSTANTS
    Uploads,    \* what may be pushed
    Acceptable, \* the uploads that carry the right name and size
    Requests,
    Nothing     \* there is no image

VARIABLES
    store,   \* the image behind the name
    durable, \* the one a power failure would bring back
    body,    \* of each request
    status   \* of each request

vars == << store, durable, body, status >>

Init ==
    /\ store \in Uploads \cup {Nothing}
    /\ durable = store
    /\ body = [p \in Requests |-> Nothing]
    /\ status = [p \in Requests |-> "idle"]

Begin(p) ==
    /\ status[p] = "idle"
    /\ \E b \in Uploads : body' = [body EXCEPT ![p] = b]
    /\ status' = [status EXCEPT ![p] = "pending"]
    /\ UNCHANGED << store, durable >>

Commit(p) ==
    /\ status[p] = "pending" /\ body[p] \in Acceptable
    /\ store' = body[p]
    /\ status' = [status EXCEPT ![p] = "committed"]
    /\ UNCHANGED << durable, body >>

\* The answer: success only after the commit.
Confirm(p) ==
    /\ status[p] = "committed"
    /\ status' = [status EXCEPT ![p] = "created"]
    /\ UNCHANGED << store, durable, body >>

Refuse(p) ==
    /\ status[p] = "pending"
    /\ status' = [status EXCEPT ![p] = "refused"]
    /\ UNCHANGED << store, durable, body >>

Persist ==
    /\ durable' = store
    /\ UNCHANGED << store, body, status >>

\* Requests under way end without an answer; the store keeps its image or
\* falls back to the durable one.
Crash ==
    /\ store' \in {store, durable}
    /\ status' = [p \in Requests |->
         IF status[p] \in {"pending", "committed"} THEN "lost" ELSE status[p]]
    /\ UNCHANGED << durable, body >>

Next ==
    \/ \E p \in Requests : Begin(p) \/ Commit(p) \/ Confirm(p) \/ Refuse(p)
    \/ Persist \/ Crash

Spec == Init /\ [][Next]_vars
=============================================================================
