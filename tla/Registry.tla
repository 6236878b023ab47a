------------------------------ MODULE Registry ------------------------------
(***************************************************************************)
(* The registry server and its clients, for one image reference: pushes    *)
(* that write `<tag>.gb.partial` and rename it to `<tag>.gb`, and readers  *)
(* that fetch an image in two requests, each of which opens the file by    *)
(* name twice.  The server may crash, alone or with its machine.           *)
(*                                                                         *)
(* A file is an inode with a content; names point to inodes, and a handle  *)
(* keeps its inode when the name moves on.  A content is a sequence of     *)
(* units: the unit << b, k >> is the k-th of the upload b, the first one   *)
(* stands for both headers, the last one for digest table and directory,   *)
(* those between for clusters.                                             *)
(***************************************************************************)
EXTENDS Integers, Sequences, FiniteSets

CONSTANTS
    Bodies,     \* uploads: records [id, ours, encrypted, clusters]
    Pushes,     \* push requests
    Pulls,      \* calls of pull_to_file
    Resumes,    \* single requests for a range of the clusters, of other clients
    Ranges,     \* the ranges these ask for: records [from, to]
    Inodes,     \* inodes of the server's file system
    MaxUpload,  \* config.max_upload_size, in units
    MaxCrashes, \* bound on crashes
    Serial      \* a push begins only when the server is done with the others

NoInode == 0
OpenEnd == -1                            \* the range "bytes=N-"
NoRange == [from |-> -1, to |-> -1]      \* a request without the header

ASSUME RegistryAssumption ==
    /\ \A b \in Bodies :
         b.clusters \in Nat /\ b.ours \in BOOLEAN /\ b.encrypted \in BOOLEAN
    /\ \E b \in Bodies : \A c \in Bodies : c.clusters <= b.clusters
    /\ \A r \in Ranges :    \* parsed as u64
         r = NoRange \/ (r.from \in Nat /\ r.to \in Nat \cup {OpenEnd})
    /\ Inodes \subseteq Nat \ {NoInode}
    /\ MaxUpload \in Nat /\ MaxCrashes \in Nat
    /\ Serial \in BOOLEAN
    /\ Pulls \cap Resumes = {}

VARIABLES
    content,  \* of each inode
    dirty,    \* inodes written since they were last synchronised
    names,    \* what "final" (`<tag>.gb`) and "partial" (`<tag>.gb.partial`) name
    stable,   \* names, as the disk has them
    push,     \* for each push: place in the handler, body, handle and position
    answer,   \* for each push: what its client was told
    pull,     \* for each reader: place, and what it has
    crashes

vars == << content, dirty, names, stable, push, answer, pull, crashes >>

Readers == Pulls \cup Resumes

(***************************************************************************)
(* Images.                                                                 *)
(***************************************************************************)
TailAt(b) == b.clusters + 2
Whole(b) == [k \in 1..TailAt(b) |-> << b, k >>]
NoUnit == << >>    \* zeros: a part of a file that was never written

\* ImageHandle::open succeeds: there is a primary header, and a directory can
\* be read where it says (it has no magic number to check).
Opens(c) ==
    /\ c # << >> /\ c[1] \in {<< b, 1 >> : b \in Bodies}
    /\ Len(c) >= TailAt(c[1][1])

\* The handlers also need the directory, which they cannot decrypt.
Serves(c) == Opens(c) /\ ~c[1][1].encrypted

MaxLen == 1 + CHOOSE n \in {TailAt(b) : b \in Bodies} : \A b \in Bodies : TailAt(b) <= n

\* cluster_region_bounds: [start, end) as the directory has it, which is
\* anything when the bytes at its place are not the directory.
Bounds(c) ==
    IF c[TailAt(c[1][1])] = << c[1][1], TailAt(c[1][1]) >>
    THEN {<< 2, TailAt(c[1][1]) >>}
    ELSE {w \in (2..MaxLen) \X (2..MaxLen) : w[1] <= w[2]}

\* Slip: the end of the whole region is taken for inclusive.
parse_range_header_inclusive(range, total_len) ==
    IF range = NoRange THEN {<< 0, total_len >>}
    ELSE {w \in {<< range.from, IF range.to = OpenEnd THEN total_len - 1 ELSE range.to >>} :
            w[1] <= w[2] /\ w[2] < total_len}

\* The range served, both ends included; none if it is out of bounds.
parse_range_header(range, total_len) ==
    IF range = NoRange THEN {<< 0, IF total_len = 0 THEN 0 ELSE total_len - 1 >>}
    ELSE {w \in {<< range.from, IF range.to = OpenEnd THEN total_len - 1 ELSE range.to >>} :
            w[1] <= w[2] /\ w[2] < total_len}

(***************************************************************************)
(* Files.                                                                  *)
(***************************************************************************)
At(name) == content[names[name]]
Exists(name) == names[name] # NoInode

Named == {names[n] : n \in DOMAIN names} \cup {stable[n] : n \in DOMAIN stable}
Held == {push[p].inode : p \in Pushes} \cup {pull[r].inode : r \in Readers}
Fresh(i) == i \in Inodes \ (Named \cup Held) /\ \A j \in Inodes \ (Named \cup Held) : i <= j

\* c with the unit u at position k; what lies between reads as zeros.
Put(c, k, u) ==
    [n \in 1..(IF k > Len(c) THEN k ELSE Len(c)) |->
        IF n = k THEN u ELSE IF n <= Len(c) THEN c[n] ELSE NoUnit]

NoBody == [id |-> "none", ours |-> FALSE, encrypted |-> FALSE, clusters |-> 0]
IdlePush == [pc |-> "idle", body |-> NoBody, inode |-> NoInode, pos |-> 0]
IdlePull ==
    [pc |-> "idle", head |-> NoUnit, tail |-> NoUnit, at |-> 0, left |-> 0,
     inode |-> NoInode, got |-> << >>, calm |-> TRUE]

\* What push lets in: within the limit, name and tag in the header as in the path.
Accepts(b) == b.ours /\ Len(Whole(b)) <= MaxUpload

Init ==
    /\ dirty = {}
    /\ \/ /\ names = [final |-> NoInode, partial |-> NoInode]
          /\ content = [i \in Inodes |-> << >>]
       \/ \E i \in Inodes, b \in Bodies :
            /\ Accepts(b) /\ \A j \in Inodes : i <= j
            /\ names = [final |-> i, partial |-> NoInode]
            /\ content = [j \in Inodes |-> IF j = i THEN Whole(b) ELSE << >>]
    /\ stable = names
    /\ push = [p \in Pushes |-> IdlePush]
    /\ answer = [p \in Pushes |-> "none"]
    /\ pull = [r \in Readers |-> IdlePull]
    /\ crashes = 0

(***************************************************************************)
(* push and Storage::put.                                                  *)
(***************************************************************************)
fileVars == << content, dirty, names, stable >>
Busy(p) == push[p].pc \in {"received", "writing", "synced", "renamed"}

\* The body is in memory as a whole before anything else happens.  A user
\* pushes again when the earlier push is answered, or has timed out.
Receive(p) ==
    /\ push[p].pc = "idle"
    /\ \A q \in Pushes : IF Serial THEN ~Busy(q) ELSE push[q].pc = "idle" \/ answer[q] # "none"
    /\ \E b \in Bodies :
         push' = [push EXCEPT ![p].pc = "received", ![p].body = b]
    /\ UNCHANGED << fileVars, answer, pull, crashes >>

\* The handler returns; its client hears of it unless it has given up.
Return(p, result) ==
    /\ push' = [push EXCEPT ![p].pc = result, ![p].inode = NoInode]
    /\ answer' = [answer EXCEPT ![p] = IF @ = "none" THEN result ELSE @]

RefuseBody(p) ==
    /\ push[p].pc = "received" /\ ~Accepts(push[p].body)
    /\ Return(p, "refused")
    /\ UNCHANGED << fileVars, pull, crashes >>

CreateKeeping(p, left_over, pos) ==
    /\ push[p].pc = "received" /\ Accepts(push[p].body)
    /\ \E i \in Inodes :
         /\ IF Exists("partial") THEN i = names.partial ELSE Fresh(i)
         /\ names' = [names EXCEPT !.partial = i]
         /\ content' = [content EXCEPT
              ![i] = IF Exists("partial") THEN left_over ELSE << >>]
         /\ dirty' = dirty \cup {i}
         /\ push' = [push EXCEPT ![p].pc = "writing", ![p].inode = i, ![p].pos = pos]
    /\ UNCHANGED << stable, answer, pull, crashes >>

\* Slips: the partial file is appended to; it is not truncated.
Create_append(p) ==
    CreateKeeping(p, At("partial"), IF Exists("partial") THEN Len(At("partial")) ELSE 0)
Create_no_truncate(p) == CreateKeeping(p, At("partial"), 0)

\* File::create: a partial file that is there already is emptied and shared.
Create(p) == CreateKeeping(p, << >>, 0)

WriteChunk(p) ==
    /\ push[p].pc = "writing" /\ push[p].pos < Len(Whole(push[p].body))
    /\ content' = [content EXCEPT ![push[p].inode] =
         Put(@, push[p].pos + 1, << push[p].body, push[p].pos + 1 >>)]
    /\ dirty' = dirty \cup {push[p].inode}
    /\ push' = [push EXCEPT ![p].pos = @ + 1]
    /\ UNCHANGED << names, stable, answer, pull, crashes >>

SyncLeaving(p, unsynced) ==
    /\ push[p].pc = "writing" /\ push[p].pos >= Len(Whole(push[p].body))
    /\ dirty' = unsynced
    /\ push' = [push EXCEPT ![p].pc = "synced", ![p].inode = NoInode]
    /\ UNCHANGED << content, names, stable, answer, pull, crashes >>

\* Slip: the file is flushed but not synchronised.
Sync_not(p) == SyncLeaving(p, dirty)

\* sync_all, and the handle is dropped.
Sync(p) == SyncLeaving(p, dirty \ {push[p].inode})

\* Readers that have looked a name up, and will look it up again.
Disturb ==
    pull' = [r \in Readers |->
        [pull[r] EXCEPT !.calm = @ /\ pull[r].pc \notin {"opened", "manifest", "located"}]]

Rename(p) ==
    /\ push[p].pc = "synced" /\ Exists("partial")
    /\ names' = [final |-> names.partial, partial |-> NoInode]
    /\ push' = [push EXCEPT ![p].pc = "renamed"]
    /\ Disturb
    /\ UNCHANGED << content, dirty, stable, answer, crashes >>

Confirm(p) ==
    /\ push[p].pc = "renamed"
    /\ Return(p, "created")
    /\ UNCHANGED << fileVars, pull, crashes >>

\* Another push has renamed the partial file away, or a call fails: the upload
\* is broken off, the disk is full.
PushFails(p) ==
    /\ \/ push[p].pc = "synced" /\ ~Exists("partial")
       \/ push[p].pc \in {"received", "writing"}
    /\ Return(p, "refused")
    /\ UNCHANGED << fileVars, pull, crashes >>

\* The client's timeout expires; the server's task is not cancelled.
GiveUp(p) ==
    /\ Busy(p) /\ answer[p] = "none"
    /\ answer' = [answer EXCEPT ![p] = "timeout"]
    /\ UNCHANGED << fileVars, push, pull, crashes >>

(***************************************************************************)
(* manifest and clusters, and pull_to_file.                                *)
(***************************************************************************)
serverVars == << fileVars, push, answer, crashes >>

\* manifest: ImageHandle::open.
ManifestOpen(r) ==
    /\ r \in Pulls /\ pull[r].pc = "idle"
    /\ Exists("final") /\ Serves(At("final"))
    /\ pull' = [pull EXCEPT ![r].pc = "opened", ![r].head = At("final")[1]]
    /\ UNCHANGED serverVars

\* manifest: read_manifest_blob opens the path again and reads the sections
\* where the headers read before have them.
ManifestRead(r) ==
    /\ pull[r].pc = "opened"
    /\ Exists("final") /\ Len(At("final")) >= TailAt(pull[r].head[1])
    /\ pull' = [pull EXCEPT ![r].pc = "manifest", ![r].head = At("final")[1],
                            ![r].tail = At("final")[TailAt(pull[r].head[1])]]
    /\ UNCHANGED serverVars

\* clusters: the bounds come from one open of the path.
ClustersLocate(r) ==
    /\ pull[r].pc = IF r \in Pulls THEN "manifest" ELSE "idle"
    /\ Exists("final") /\ Serves(At("final"))
    /\ \E region \in Bounds(At("final")), range \in IF r \in Pulls THEN {NoRange} ELSE Ranges :
         \E w \in parse_range_header(range, region[2] - region[1]) :
             pull' = [pull EXCEPT ![r].pc = "located", ![r].at = region[1] + w[1],
                                  ![r].left = w[2] - w[1] + 1]
    /\ UNCHANGED serverVars

\* clusters: and the bytes from another.
ClustersOpen(r) ==
    /\ pull[r].pc = "located" /\ Exists("final")
    /\ pull' = [pull EXCEPT ![r].pc = "streaming", ![r].inode = names.final]
    /\ UNCHANGED serverVars

StreamFrom(r, inode) ==
    /\ pull[r].pc = "streaming" /\ pull[r].left > 0
    /\ pull[r].at <= Len(content[inode])
    /\ pull' = [pull EXCEPT ![r].got = Append(@, content[inode][pull[r].at]),
                            ![r].at = @ + 1, ![r].left = @ - 1]
    /\ UNCHANGED serverVars

\* Slip: every chunk opens the path anew.
StreamUnit_reopen(r) == StreamFrom(r, names.final)

StreamUnit(r) == StreamFrom(r, pull[r].inode)

\* What pull_to_file has written when the response has ended.
Dest(r) == << pull[r].head >> \o pull[r].got \o << pull[r].tail >>

PullEnds(r) ==
    /\ pull[r].pc = "streaming" /\ pull[r].left = 0
    /\ pull' = [pull EXCEPT ![r].inode = NoInode,
         ![r].pc = IF r \in Pulls => Opens(Dest(r)) THEN "pulled" ELSE "error"]
    /\ UNCHANGED serverVars

\* No such image, one that cannot be served, a response cut short, a timeout.
PullFails(r) ==
    /\ pull[r].pc \in {"idle", "opened", "manifest", "located", "streaming"}
    /\ pull' = [pull EXCEPT ![r].pc = "error", ![r].inode = NoInode]
    /\ UNCHANGED serverVars

(***************************************************************************)
(* Crashes.  A rename reaches the disk some time after it is made; a file  *)
(* that was not synchronised may lose its end.                             *)
(***************************************************************************)
FlushNames ==
    /\ stable # names
    /\ crashes < MaxCrashes    \* otherwise nobody will see the difference
    /\ stable' = names
    /\ UNCHANGED << content, dirty, names, push, answer, pull, crashes >>

Die ==
    /\ crashes < MaxCrashes
    /\ crashes' = crashes + 1
    /\ push' = [p \in Pushes |->
         IF Busy(p) THEN [push[p] EXCEPT !.pc = "lost", !.inode = NoInode] ELSE push[p]]
    /\ answer' = [p \in Pushes |->
         IF Busy(p) /\ answer[p] = "none" THEN "lost" ELSE answer[p]]
    /\ pull' = [r \in Readers |->
         IF pull[r].pc \in {"idle", "pulled", "error"} THEN pull[r]
         ELSE [pull[r] EXCEPT !.pc = "error", !.inode = NoInode]]

ServerCrash ==
    /\ Die
    /\ UNCHANGED fileVars

PowerLoss ==
    /\ Die
    /\ names' = stable
    /\ \E kept \in [dirty -> 0..MaxLen] :
         content' = [i \in Inodes |->
             IF i \in dirty /\ kept[i] < Len(content[i])
             THEN SubSeq(content[i], 1, kept[i]) ELSE content[i]]
    /\ dirty' = {}
    /\ UNCHANGED stable

Next ==
    \/ \E p \in Pushes :
         \/ Receive(p) \/ RefuseBody(p) \/ Create(p) \/ WriteChunk(p) \/ Sync(p)
         \/ Rename(p) \/ Confirm(p) \/ PushFails(p) \/ GiveUp(p)
    \/ \E r \in Readers :
         \/ ManifestOpen(r) \/ ManifestRead(r) \/ ClustersLocate(r)
         \/ ClustersOpen(r) \/ StreamUnit(r) \/ PullEnds(r) \/ PullFails(r)
    \/ FlushNames \/ ServerCrash \/ PowerLoss

Spec == Init /\ [][Next]_vars

(***************************************************************************)
(* Properties.                                                             *)
(***************************************************************************)

\* Every variable keeps its type.
TypeOK ==
    /\ content \in [Inodes -> Seq((Bodies \X (1..MaxLen)) \cup {NoUnit})]
    /\ dirty \subseteq Inodes
    /\ names \in [{"final", "partial"} -> Inodes \cup {NoInode}]
    /\ stable \in [{"final", "partial"} -> Inodes \cup {NoInode}]
    /\ \A p \in Pushes :
         /\ push[p].pc \in {"idle", "received", "writing", "synced", "renamed",
                           "created", "refused", "lost"}
         /\ push[p].pc = "idle" \/ push[p].pos \in 0..Len(Whole(push[p].body))
         /\ push[p].inode \in Inodes \cup {NoInode}
    /\ answer \in [Pushes -> {"none", "timeout", "created", "refused", "lost"}]
    /\ \A r \in Readers :
         /\ pull[r].pc \in {"idle", "opened", "manifest", "located", "streaming",
                           "pulled", "error"}
         /\ pull[r].left \in 0..MaxLen /\ pull[r].calm \in BOOLEAN
         /\ pull[r].inode \in Inodes \cup {NoInode}
    /\ crashes \in 0..MaxCrashes

Ours == {b \in Bodies : b.ours /\ TailAt(b) <= MaxUpload}

\* Storage::put: "Atomically write a new image".  What the final name points to
\* is one complete upload that belongs there, also after pushes that failed,
\* were killed or lost power half-way and left a partial file behind.
PublishedIsWhole ==
    Exists("final") => At("final") \in {Whole(b) : b \in Ours}

\* A response is a piece of one file: however many pushes rename over the name
\* while it is streamed, the units come from one image and without a gap.
ResponseFromOneImage ==
    \A r \in Readers : \A j, k \in DOMAIN pull[r].got :
        j < k => /\ pull[r].got[j][1] = pull[r].got[k][1]
                 /\ pull[r].got[j][2] - j = pull[r].got[k][2] - k

\* A reader none of whose four opens was separated from the others by a push
\* gets what it asked for: the bytes of a range are clusters, and a pull that
\* succeeds has rebuilt an upload to the last unit.
CalmReadsAreExact ==
    \A r \in Readers : pull[r].calm =>
        /\ \A k \in DOMAIN pull[r].got :
             pull[r].got[k][2] \in 2..TailAt(pull[r].got[k][1]) - 1
        /\ r \in Pulls /\ pull[r].pc = "pulled" =>
             Dest(r) \in {Whole(b) : b \in Bodies}

(***************************************************************************)
(* The registry as the store its pushers were promised.                    *)
(***************************************************************************)
ImageAt(n) ==
    IF n = NoInode THEN NoBody
    ELSE IF content[n] \in {Whole(b) : b \in Bodies}
         THEN CHOOSE b \in Bodies : content[n] = Whole(b)
         ELSE [NoBody EXCEPT !.id = "mixture"]

StatusOf(p) ==
    CASE push[p].pc \in {"received", "writing", "synced"} -> "pending"
      [] push[p].pc = "renamed" -> "committed"
      [] OTHER -> push[p].pc

Store == INSTANCE AtomicStore WITH
    Uploads <- Bodies, Acceptable <- Ours,
    Requests <- Pushes, Nothing <- NoBody,
    store <- ImageAt(names.final), durable <- ImageAt(stable.final),
    body <- [p \in Pushes |-> push[p].body], status <- [p \in Pushes |-> StatusOf(p)]

\* Pushes one at a time implement the atomic store: a confirmed push has put its
\* own upload in place, a refused one has changed nothing, and neither a crash
\* nor a power failure leaves anything but an image that was there.
PublishesAtomically == Store!Spec
=============================================================================
