------------------------------- MODULE Library -------------------------------
(***************************************************************************)
(* The image library: a tree of image files that several commands build    *)
(* into, pull into, delete from, search, list and push from at the same    *)
(* time, each step one call of the file system.                            *)
(***************************************************************************)
EXTENDS References, FiniteSets

CONSTANTS
    Processes,
    Stored,     \* initial libraries: sets of << reference, image >>
    Built,      \* << reference, image >> a build may add
    Registry,   \* << reference, image >> the registry may serve
    Queries     \* references, with and without a tag, that commands are given

\* An image carries its name, tag and time; size tells lengths apart.
Image(name, tag, timestamp, size) ==
    [name |-> name, tag |-> tag, timestamp |-> timestamp, size |-> size]
NoImage == Image(None, None, 0, 0)

VARIABLES
    files,  \* the images by path
    dirs,   \* directories, as paths
    proc    \* what each process is doing

vars == << files, dirs, proc >>

Root == << >>
Parent(path) == SubSeq(path, 1, Len(path) - 1)
AncestorsAndSelf(path) == {SubSeq(path, 1, n) : n \in 1..Len(path)}
ParentsOf(path) == AncestorsAndSelf(path) \ {path}
Paths == {image_path(e[1]) : e \in Built \cup Registry \cup UNION Stored}

\* References that validate addresses, with images that carry their name and
\* tag; in no initial library is a file a directory.
ASSUME LibraryAssumption ==
    /\ \A e \in Built \cup Registry \cup UNION Stored :
         /\ e[1] = Ref(e[1].host, e[1].name, e[1].tag)
         /\ {e[1].host, e[1].name, e[1].tag} \subseteq Seq(STRING)
         /\ e[1].tag # None /\ validate(e[1])
         /\ e[2] \in [name : Seq(STRING), tag : Seq(STRING), timestamp : Nat, size : Nat]
         /\ e[2] # NoImage
    /\ \A e \in Built \cup UNION Stored : e[2].name = e[1].name /\ e[2].tag = e[1].tag
    /\ \A s \in Stored : \A e, f \in s : image_path(e[1]) \notin ParentsOf(image_path(f[1]))

Held == {p \in Paths : files[p] # NoImage}
Tree == dirs \cup Held
Children(dir) == {p \in Tree : Len(p) = Len(dir) + 1 /\ Parent(p) = dir}

\* What reading a directory says of its entries.
Listed(dir) == {[path |-> c, kind |-> IF c \in dirs THEN "dir" ELSE "file"] : c \in Children(dir)}

\* pairs << path, image >>
Contents == {<< p, files[p] >> : p \in Held}

Idle == [ op |-> "idle", at |-> "done", ref |-> Ref(None, None, None), image |-> NoImage,
          best |-> NoImage, path |-> << >>, todo |-> {}, out |-> {},
          always |-> {}, ever |-> {}, size |-> 0 ]

Init ==
    /\ \E s \in Stored :
         /\ files = [p \in Paths |->
              IF \E e \in s : image_path(e[1]) = p
              THEN (CHOOSE e \in s : image_path(e[1]) = p)[2] ELSE NoImage]
         /\ dirs = UNION {ParentsOf(image_path(e[1])) : e \in s}
    /\ proc = [p \in Processes |-> Idle]

\* Every step of one process; `always` and `ever` are history for the
\* properties: what was in the library all the time and at some time.
Step(p, next) ==
    proc' = [q \in Processes |->
        LET s == IF q = p THEN next ELSE proc[q] IN
        [s EXCEPT !.always = s.always \cap Contents', !.ever = s.ever \cup Contents']]

Tracked(s) == [s EXCEPT !.always = Contents, !.ever = Contents]

Fails(p) == Step(p, [proc[p] EXCEPT !.at = "failed"])
Goto(p, at) == Step(p, [proc[p] EXCEPT !.at = at])
Unchanged == UNCHANGED << files, dirs >>

(***************************************************************************)
(* Beginnings.                                                             *)
(***************************************************************************)

\* Slip: the registry does not compare them.
Served_any == {<< e[1], f[2] >> : e, f \in Registry}

\* The end of a build, or of a pull, which asks for a host and a tag; a push
\* into the registry is accepted only under the name and tag in the header, so
\* what it serves has those of the reference.
Served == {e \in Registry : e[1].name = e[2].name /\ e[1].tag = e[2].tag}

StartAdd(p, e) ==
    /\ proc[p].op = "idle"
    /\ Unchanged
    /\ Step(p, [Tracked(Idle) EXCEPT !.op = "add", !.at = "mkdir", !.ref = e[1],
                                     !.image = e[2], !.path = image_path(e[1])])

Build(p) == \E e \in Built : StartAdd(p, e)
Pull(p) == \E e \in Served : StartAdd(p, e)

StartSearch(p, op, r) ==
    /\ proc[p].op = "idle"
    /\ Unchanged
    /\ Step(p, [Tracked(Idle) EXCEPT !.op = op, !.ref = r,
                 !.at = IF op = "delete" /\ r.tag # None THEN "remove" ELSE "find"])

Search(p) == \E op \in {"info", "delete"}, r \in Queries : StartSearch(p, op, r)

\* A push looks for the hostless image first.
Push(p) == \E r \in {q \in Queries : q.host # None} :
    StartSearch(p, "push", [r EXCEPT !.host = None])

List(p) ==
    /\ proc[p].op = "idle"
    /\ Unchanged
    /\ Step(p, [Tracked(Idle) EXCEPT !.op = "list", !.at = "walk", !.todo = Listed(Root)])

(***************************************************************************)
(* add_built.                                                              *)
(***************************************************************************)

\* create_dir_all: the directory itself if it exists; otherwise its parents
\* first, one call each.  A directory made and gone again is an error, and so is
\* a file in its place: names may end in .gb, like files.
MakeDir(p) ==
    /\ proc[p].op = "add" /\ proc[p].at = "mkdir"
    /\ UNCHANGED files
    /\ LET parent == Parent(proc[p].path)
           missing == {d \in AncestorsAndSelf(parent) : d \notin dirs}
       IN  IF missing = {} THEN UNCHANGED dirs /\ Goto(p, "rename")
           ELSE \E d \in missing :
                    /\ \A other \in missing : Len(d) <= Len(other)
                    /\ IF d \in proc[p].todo \cup Held
                       THEN UNCHANGED dirs /\ Fails(p)
                       ELSE /\ dirs' = dirs \cup {d}
                            /\ Step(p, [proc[p] EXCEPT !.todo = @ \cup {d}])

Rename(p) ==
    /\ proc[p].op = "add" /\ proc[p].at = "rename"
    /\ UNCHANGED dirs
    /\ LET path == proc[p].path
       IN  IF Parent(path) \in dirs /\ path \notin dirs
           THEN files' = [files EXCEPT ![path] = proc[p].image] /\ Goto(p, "done")
           ELSE UNCHANGED files /\ Fails(p)

(***************************************************************************)
(* find_by_ref.                                                            *)
(***************************************************************************)
NameDir(r) == (IF r.host = None THEN << >> ELSE << host_without_scheme(r.host) >>) \o << r.name >>

\* A push that found no local image looks under the destination's host.
Missing(p) ==
    IF proc[p].op = "push" /\ proc[p].ref.host = None
    THEN \E r \in {q \in Queries : q.host # None /\ [q EXCEPT !.host = None] = proc[p].ref} :
           Step(p, [proc[p] EXCEPT !.at = "find", !.ref = r, !.best = NoImage, !.todo = {}])
    ELSE Fails(p)

Found(p, path, image) ==
    CASE proc[p].op = "info" -> Step(p, [proc[p] EXCEPT !.at = "done", !.best = image])
      [] proc[p].op = "delete" ->
           Step(p, [proc[p] EXCEPT !.at = "remove", !.best = image, !.ref.tag = image.tag])
      [] proc[p].op = "push" ->
           Step(p, [proc[p] EXCEPT !.at = "stat", !.best = image, !.path = path])

Find(p) ==
    /\ proc[p].at = "find"
    /\ Unchanged
    /\ LET r == proc[p].ref
       IN  IF r.tag # None
           THEN IF image_path(r) \in Held THEN Found(p, image_path(r), files[image_path(r)]) ELSE Missing(p)
           ELSE IF NameDir(r) \notin dirs THEN Missing(p)
           ELSE Step(p, [proc[p] EXCEPT !.at = "scan",
                          !.todo = Children(NameDir(r)) \cap Paths])

\* Slip: the last image read wins.
Newer_last(image, best) == TRUE

Newer(image, best) == best = NoImage \/ image.timestamp > best.timestamp

\* One entry of the directory, in no particular order.  Images that went away
\* since it was read are skipped.
Scan(p) ==
    /\ proc[p].at = "scan" /\ proc[p].todo # {}
    /\ Unchanged
    /\ \E path \in proc[p].todo :
         LET rest == proc[p].todo \ {path} IN
         IF path \in Held /\ Newer(files[path], proc[p].best)
         THEN Step(p, [proc[p] EXCEPT !.todo = rest, !.best = files[path], !.path = path])
         ELSE Step(p, [proc[p] EXCEPT !.todo = rest])

ScanEnds(p) ==
    /\ proc[p].at = "scan" /\ proc[p].todo = {}
    /\ Unchanged
    /\ IF proc[p].best = NoImage THEN Missing(p) ELSE Found(p, proc[p].path, proc[p].best)

(***************************************************************************)
(* delete.                                                                 *)
(***************************************************************************)
RemoveFile(p) ==
    /\ proc[p].op = "delete" /\ proc[p].at = "remove"
    /\ UNCHANGED dirs
    /\ LET path == image_path(proc[p].ref)
       IN  IF path \in Held
           THEN /\ files' = [files EXCEPT ![path] = NoImage]
                /\ Step(p, [proc[p] EXCEPT !.at = "prune", !.path = Parent(path)])
           ELSE UNCHANGED files /\ Fails(p)

PruneExcept(p, kept) ==
    /\ proc[p].op = "delete" /\ proc[p].at = "prune"
    /\ UNCHANGED files
    /\ LET dir == proc[p].path
       IN  IF dir \notin dirs \ kept
           THEN UNCHANGED dirs /\ Goto(p, "done")
           ELSE /\ dirs' = dirs \ {dir}
                /\ Step(p, [proc[p] EXCEPT !.path = Parent(dir)])

InUse == {d \in dirs : Children(d) # {}}

\* Slip: directories of hosts are taken for the root.
prune_empty_parents_name(p) == PruneExcept(p, InUse \cup {d \in dirs : Len(d) = 1})

\* Slip: remove_dir_all.
prune_empty_parents_all(p) == PruneExcept(p, {})

\* remove_dir fails on a directory that is not empty, or gone; the root is not
\* reached.
prune_empty_parents(p) == PruneExcept(p, InUse)

(***************************************************************************)
(* find_all.                                                               *)
(***************************************************************************)
Hidden(path) == path[1][1] = "."

\* Every top-level directory is a valid host, as names and hosts are validated.
\* A top-level directory, or a directory below one: reading it fails if it went
\* away, and the listing with it.  A file: opened, and skipped if that fails.
WalkReading(p, skipped) ==
    /\ proc[p].op = "list" /\ proc[p].at = "walk" /\ proc[p].todo # {}
    /\ Unchanged
    /\ \E c \in proc[p].todo :
         LET rest == proc[p].todo \ {c} IN
         IF c \in skipped
         THEN Step(p, [proc[p] EXCEPT !.todo = rest])
         ELSE IF c.kind = "file"
         THEN Step(p, [proc[p] EXCEPT !.todo = rest,
                 !.out = IF c.path \notin Held THEN @
                         ELSE @ \cup {Ref(IF Len(c.path) = 3 THEN c.path[1] ELSE None,
                                          files[c.path].name, files[c.path].tag)}])
         ELSE IF c.path \notin dirs THEN Fails(p)
         ELSE Step(p, [proc[p] EXCEPT !.todo = rest \cup Listed(c.path)])

\* Slip: a top-level directory holds either images or names.
Walk_either(p) == WalkReading(p, {c \in proc[p].todo : Hidden(c.path)
    \/ (c.kind = "dir" /\ Len(c.path) = 2 /\ \E q \in Held : Len(q) = 2 /\ q[1] = c.path[1])})

Walk(p) == WalkReading(p, {c \in proc[p].todo : Hidden(c.path)})

ListEnds(p) ==
    /\ proc[p].op = "list" /\ proc[p].at = "walk" /\ proc[p].todo = {}
    /\ Unchanged
    /\ Goto(p, "done")

(***************************************************************************)
(* push: the length of the file, then the file, then the request.          *)
(***************************************************************************)
Stat(p) ==
    /\ proc[p].op = "push" /\ proc[p].at = "stat"
    /\ Unchanged
    /\ IF proc[p].path \in Held
       THEN Step(p, [proc[p] EXCEPT !.at = "upload", !.size = files[proc[p].path].size])
       ELSE Fails(p)

\* A body of the given length: a shorter file fails, a longer one is cut.
Upload(p) ==
    /\ proc[p].op = "push" /\ proc[p].at = "upload"
    /\ Unchanged
    /\ LET path == proc[p].path
       IN  IF path \in Held /\ files[path].size >= proc[p].size
           THEN Step(p, [proc[p] EXCEPT !.at = "done", !.image = files[path]])
           ELSE Fails(p)

Next == \E p \in Processes :
    \/ Build(p) \/ Pull(p) \/ Search(p) \/ Push(p) \/ List(p)
    \/ MakeDir(p) \/ Rename(p)
    \/ Find(p) \/ Scan(p) \/ ScanEnds(p)
    \/ RemoveFile(p) \/ prune_empty_parents(p)
    \/ Walk(p) \/ ListEnds(p)
    \/ Stat(p) \/ Upload(p)

Spec == Init /\ [][Next]_vars

(***************************************************************************)
(* Properties.                                                             *)
(***************************************************************************)
Ended == \A p \in Processes : proc[p].op # "idle" => proc[p].at \in {"done", "failed"}

\* The tree is one: every file and directory lies in directories.
TypeOK ==
    /\ DOMAIN files = Paths
    /\ \A t \in Tree : ParentsOf(t) \subseteq dirs
    /\ \A p \in Processes :
         /\ proc[p].op \in {"idle", "add", "info", "delete", "push", "list"}
         /\ proc[p].at \in {"mkdir", "rename", "find", "scan", "remove", "prune", "walk",
                            "stat", "upload", "done", "failed"}

\* A listing (find_all) that succeeds reports every image that was in the library
\* all the while, under a reference that finds it, and none that never was,
\* whatever was added, replaced and deleted during its walk; images whose name
\* starts with a dot excepted.
RefOf(path) == Ref(IF Len(path) = 3 THEN path[1] ELSE None, path[Len(path) - 1],
                   Front(path[Len(path)]))

ListingIsComplete ==
    \A p \in Processes : proc[p].op = "list" /\ proc[p].at = "done" =>
        /\ \A e \in proc[p].always : ~Hidden(e[1]) => RefOf(e[1]) \in proc[p].out
        /\ proc[p].out \subseteq {RefOf(e[1]) : e \in proc[p].ever}

\* A reference without a tag resolves (find_by_ref) to an image of that name that
\* is as new as any that was there all the while.
FindsNewest ==
    \A p \in Processes : proc[p].op = "info" /\ proc[p].at = "done" =>
        /\ \E e \in proc[p].ever : Parent(e[1]) = NameDir(proc[p].ref) /\ e[2] = proc[p].best
        /\ proc[p].ref.tag = None => \A e \in proc[p].always :
             Parent(e[1]) = NameDir(proc[p].ref) => proc[p].best.timestamp >= e[2].timestamp

\* The header of every image says the name and tag under which it is stored:
\* `image delete` without a tag (cli/cmd/image.rs) removes the file that the
\* newest image's header names.
HeadersMatchPaths ==
    \A path \in Held :
        /\ files[path].name = path[Len(path) - 1]
        /\ files[path].tag = Front(path[Len(path)])

\* When all commands have ended, no directory is left without an image, however
\* the deletions pruned (prune_empty_parents) and additions created them, unless
\* an addition failed because its directory was pruned before its rename.
NoEmptyDirectories ==
    (/\ Ended
     /\ \A p \in Processes : proc[p].op = "add" => proc[p].at = "done")
    => \A d \in dirs : \E path \in Held : d \in ParentsOf(path)

\* However additions, deletions and their pruning interleave (library.rs), the
\* library stays one tree, without stray directories once all has ended, in which
\* images lie where their headers say.
TreeIsSound == TypeOK /\ HeadersMatchPaths /\ NoEmptyDirectories
=============================================================================
