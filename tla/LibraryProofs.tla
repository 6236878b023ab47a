---------------------------- MODULE LibraryProofs ----------------------------
(***************************************************************************)
(* The image library is one tree in which searches and listings are right, *)
(* for any number of commands and whatever they do between two calls.      *)
(*                                                                         *)
(* The argument: a directory without entries is excused by a command that  *)
(* is about to fill or to prune it (LeafInv), so that none is left once    *)
(* all have ended; a search or a walk under way still awaits each image    *)
(* that was there throughout, or has dealt with it (SearchInv, WalkInv).   *)
(***************************************************************************)
EXTENDS Library, SequenceTheorems, TLAPS

(***************************************************************************)
(* Paths.                                                                  *)
(***************************************************************************)
\* Every image that may come into the library.
Entries == Built \cup Registry \cup UNION Stored
\* The tokens of file names.
Chars == STRING \cup {".gb"}
Path == Seq(Seq(Chars))

\* The first parts of a path.
LEMMA PrefixFacts ==
    ASSUME NEW t \in Path, NEW n \in 0..Len(t)
    PROVE  /\ SubSeq(t, 1, n) \in Path /\ Len(SubSeq(t, 1, n)) = n
           /\ \A i \in 1..n : SubSeq(t, 1, n)[i] = t[i]
           /\ \A m \in 0..n : SubSeq(SubSeq(t, 1, n), 1, m) = SubSeq(t, 1, m)
           /\ SubSeq(t, 1, Len(t)) = t
<1>1. /\ n \in Nat /\ SubSeq(t, 1, n) \in Path /\ Len(SubSeq(t, 1, n)) = n
      /\ \A i \in 1..n : SubSeq(t, 1, n)[i] = t[i]
  BY DEF Path
<1>2. ASSUME NEW m \in 0..n PROVE SubSeq(SubSeq(t, 1, n), 1, m) = SubSeq(t, 1, m)
  <2> DEFINE s == SubSeq(t, 1, n)
  <2>1. s \in Path /\ Len(s) = n /\ \A i \in 1..n : s[i] = t[i]
    BY <1>1
  <2> HIDE DEF s
  <2>2. /\ SubSeq(s, 1, m) \in Path /\ Len(SubSeq(s, 1, m)) = m
        /\ \A i \in 1..m : SubSeq(s, 1, m)[i] = s[i]
    BY <2>1 DEF Path
  <2>3. /\ SubSeq(t, 1, m) \in Path /\ Len(SubSeq(t, 1, m)) = m
        /\ \A i \in 1..m : SubSeq(t, 1, m)[i] = t[i]
    BY <1>1 DEF Path
  <2>4. \A i \in 1..m : SubSeq(s, 1, m)[i] = SubSeq(t, 1, m)[i]
    BY <1>1, <2>1, <2>2, <2>3
  <2>5. SubSeq(s, 1, m) = SubSeq(t, 1, m)
    BY <2>2, <2>3, <2>4, SeqEqual DEF Path
  <2>6. QED
    BY <2>5 DEF s
<1>3. SubSeq(t, 1, Len(t)) = t
  BY SeqEqual DEF Path
<1>4. QED
  BY <1>1, <1>2, <1>3

\* The directories above a path.
LEMMA ParentsFacts ==
    ASSUME NEW t \in Path
    PROVE  /\ \A u : u \in ParentsOf(t) <=> \E n \in 1..Len(t) - 1 : u = SubSeq(t, 1, n)
           /\ \A u \in ParentsOf(t) :
                /\ u \in Path /\ Len(u) \in 1..Len(t) - 1
                /\ u = SubSeq(t, 1, Len(u)) /\ u[1] = t[1]
                /\ ParentsOf(u) \subseteq ParentsOf(t)
<1>1. ASSUME NEW n \in 1..Len(t) PROVE SubSeq(t, 1, n) # t <=> n # Len(t)
  BY PrefixFacts
<1>2. ASSUME NEW u PROVE u \in ParentsOf(t) <=> \E n \in 1..Len(t) - 1 : u = SubSeq(t, 1, n)
  <2>1. Len(t) \in Nat
    BY DEF Path
  <2>2. QED
    BY <1>1, <2>1 DEF ParentsOf, AncestorsAndSelf
<1>3. ASSUME NEW u \in ParentsOf(t)
      PROVE  /\ u \in Path /\ Len(u) \in 1..Len(t) - 1
             /\ u = SubSeq(t, 1, Len(u)) /\ u[1] = t[1]
             /\ ParentsOf(u) \subseteq ParentsOf(t)
  <2>1. PICK n \in 1..Len(t) - 1 : u = SubSeq(t, 1, n)
    BY <1>2
  <2>2. Len(t) \in Nat /\ n \in 0..Len(t) /\ 1 \in 1..n
    BY DEF Path
  <2>3. u \in Path /\ Len(u) = n /\ u[1] = t[1]
    BY <2>1, <2>2, PrefixFacts
  <2>4. ASSUME NEW m \in 1..n - 1 PROVE SubSeq(u, 1, m) \in ParentsOf(t)
    <3>1. m \in 0..n /\ m \in 1..Len(t) - 1
      BY <2>2
    <3>2. SubSeq(u, 1, m) = SubSeq(t, 1, m)
      BY <2>1, <2>2, <3>1, PrefixFacts
    <3>3. QED
      BY <1>2, <3>1, <3>2
  <2>5. \A v \in ParentsOf(u) : \E m \in 1..n : v = SubSeq(u, 1, m) /\ v # u
    BY <2>3 DEF ParentsOf, AncestorsAndSelf
  <2>6. SubSeq(u, 1, n) = u
    BY <2>3, <2>2, PrefixFacts
  <2>7. ASSUME NEW v \in ParentsOf(u) PROVE v \in ParentsOf(t)
    <3>1. PICK m \in 1..n : v = SubSeq(u, 1, m) /\ v # u
      BY <2>5
    <3>2. m # n
      BY <2>6, <3>1
    <3>3. m \in 1..n - 1
      BY <2>2, <3>2
    <3>4. QED
      BY <2>4, <3>1, <3>3
  <2>8. QED
    BY <2>1, <2>2, <2>3, <2>7
<1>4. QED
  BY <1>2, <1>3

\* The directory a path lies in.
LEMMA ParentFacts ==
    ASSUME NEW t \in Path, Len(t) >= 1
    PROVE  /\ Parent(t) \in Path /\ Len(Parent(t)) = Len(t) - 1
           /\ Len(t) > 1 => /\ Parent(t) \in ParentsOf(t)
                            /\ ParentsOf(t) = ParentsOf(Parent(t)) \cup {Parent(t)}
           /\ Len(t) = 1 => ParentsOf(t) = {} /\ Parent(t) = << >>
           /\ \A u \in Path : Parent(t) = u => u = << >> \/ u \in ParentsOf(t)
<1>1. Len(t) \in Nat /\ Len(t) - 1 \in 0..Len(t)
  BY DEF Path
<1>2. Parent(t) \in Path /\ Len(Parent(t)) = Len(t) - 1
  BY <1>1, PrefixFacts DEF Parent
<1>3. ASSUME Len(t) > 1
      PROVE  /\ Parent(t) \in ParentsOf(t)
             /\ ParentsOf(t) = ParentsOf(Parent(t)) \cup {Parent(t)}
  <2>1. Len(t) - 1 \in 1..Len(t) - 1
    BY <1>1, <1>3
  <2>2. Parent(t) \in ParentsOf(t)
    BY <2>1, ParentsFacts DEF Parent
  <2>3. ParentsOf(Parent(t)) \subseteq ParentsOf(t)
    BY <2>2, ParentsFacts
  <2>4. ASSUME NEW u \in ParentsOf(t), u # Parent(t) PROVE u \in ParentsOf(Parent(t))
    <3>1. u = SubSeq(t, 1, Len(u)) /\ Len(u) \in 1..Len(t) - 1
      BY ParentsFacts
    <3>2. Len(u) # Len(t) - 1
      BY <2>4, <3>1 DEF Parent
    <3>3. Len(u) \in 0..Len(t) - 1 /\ Len(u) \in 1..Len(Parent(t)) - 1
      BY <1>1, <1>2, <3>1, <3>2
    <3>4. SubSeq(Parent(t), 1, Len(u)) = SubSeq(t, 1, Len(u))
      BY <1>1, <3>3, PrefixFacts DEF Parent
    <3>5. QED
      BY <1>2, <3>1, <3>3, <3>4, ParentsFacts
  <2>5. QED
    BY <2>2, <2>3, <2>4
<1>4. ASSUME Len(t) = 1 PROVE ParentsOf(t) = {} /\ Parent(t) = << >>
  <2>1. ParentsOf(t) = {}
    BY <1>4, ParentsFacts
  <2>2. Len(Parent(t)) = 0 /\ Parent(t) \in Seq(Seq(Chars))
    BY <1>2, <1>4 DEF Path
  <2>3. Parent(t) = << >>
    BY <2>2, EmptySeq
  <2>4. QED
    BY <2>1, <2>3
<1>5. QED
  BY <1>1, <1>2, <1>3, <1>4

\* The next part of a path after a directory above it.
LEMMA NextPart ==
    ASSUME NEW t \in Path, NEW u, u \in ParentsOf(t) \/ (u = << >> /\ Len(t) >= 1)
    PROVE  LET v == SubSeq(t, 1, Len(u) + 1)
           IN  /\ Parent(v) = u /\ Len(v) = Len(u) + 1
               /\ v = t \/ v \in ParentsOf(t)
<1> DEFINE n == Len(u)
           v == SubSeq(t, 1, n + 1)
<1>1. n \in 0..Len(t) - 1 /\ u = SubSeq(t, 1, n) /\ Len(t) \in Nat
  <2>1. CASE u \in ParentsOf(t)
    <3>1. n \in 1..Len(t) - 1 /\ u = SubSeq(t, 1, n) /\ Len(t) \in Nat
      BY <2>1, ParentsFacts DEF Path
    <3>2. QED
      BY <3>1
  <2>2. CASE u = << >> /\ Len(t) >= 1
    <3>1. Len(t) \in Nat /\ n = 0
      BY <2>2 DEF Path
    <3>2. SubSeq(t, 1, 0) \in Seq(Seq(Chars)) /\ Len(SubSeq(t, 1, 0)) = 0
      BY <3>1, PrefixFacts DEF Path
    <3>3. SubSeq(t, 1, 0) = << >>
      BY <3>2, EmptySeq
    <3>4. QED
      BY <2>2, <3>1, <3>3
  <2>3. QED
    BY <2>1, <2>2
<1> HIDE DEF n
<1>2. n + 1 \in 0..Len(t) /\ n \in 0..n + 1 /\ n + 1 \in 1..Len(t) /\ n \in Nat
  BY <1>1
<1>3. Len(v) = n + 1 /\ SubSeq(v, 1, n) = SubSeq(t, 1, n)
  BY <1>2, PrefixFacts
<1>4. Parent(v) = u
  <2>1. Len(v) - 1 = n
    BY <1>2, <1>3
  <2>2. QED
    BY <1>1, <1>3, <2>1 DEF Parent
<1>5. CASE n + 1 = Len(t)
  BY <1>2, <1>3, <1>4, <1>5, PrefixFacts DEF n
<1>6. CASE n + 1 # Len(t)
  <2>1. n + 1 \in 1..Len(t) - 1
    BY <1>1, <1>2, <1>6
  <2>2. v \in ParentsOf(t)
    BY <2>1, ParentsFacts
  <2>3. QED
    BY <1>3, <1>4, <2>2 DEF n
<1>7. QED
  BY <1>5, <1>6

\* The paths of images with and without a host.
LEMMA Joined ==
    ASSUME NEW a, NEW b, NEW c
    PROVE  << a >> \o << b, c >> = << a, b, c >> /\ << a >> \o << b >> = << a, b >>
<1> DEFINE S == {a, b, c}
           one == << a >>
           two == << b >>
           three == << b, c >>
<1>1. /\ one \in Seq(S) /\ Len(one) = 1 /\ one[1] = a
      /\ two \in Seq(S) /\ Len(two) = 1 /\ two[1] = b
      /\ three \in Seq(S) /\ Len(three) = 2 /\ three[1] = b /\ three[2] = c
  OBVIOUS
<1>2. /\ << a, b >> \in Seq(S) /\ Len(<< a, b >>) = 2
      /\ << a, b, c >> \in Seq(S) /\ Len(<< a, b, c >>) = 3
  OBVIOUS
<1> HIDE DEF one, two, three, S
<1>3. /\ one \o two \in Seq(S) /\ Len(one \o two) = Len(one) + Len(two)
      /\ \A i \in 1..Len(one) + Len(two) :
           (one \o two)[i] = IF i <= Len(one) THEN one[i] ELSE two[i - Len(one)]
  BY <1>1, ConcatProperties, Zenon
<1>4. /\ one \o three \in Seq(S) /\ Len(one \o three) = Len(one) + Len(three)
      /\ \A i \in 1..Len(one) + Len(three) :
           (one \o three)[i] = IF i <= Len(one) THEN one[i] ELSE three[i - Len(one)]
  BY <1>1, ConcatProperties, Zenon
<1>5. one \o two = << a, b >>
  <2>1. Len(one \o two) = 2 /\ \A i \in 1..2 : (one \o two)[i] = << a, b >>[i]
    BY <1>1, <1>3
  <2>2. QED
    BY <1>2, <1>3, <2>1, SeqEqual
<1>6. one \o three = << a, b, c >>
  <2>1. Len(one \o three) = 3 /\ \A i \in 1..3 : (one \o three)[i] = << a, b, c >>[i]
    BY <1>1, <1>4
  <2>2. QED
    BY <1>2, <1>4, <2>1, SeqEqual
<1>7. QED
  BY <1>5, <1>6 DEF one, two, three

\* Their directories.
LEMMA Cut ==
    ASSUME NEW a, NEW b, NEW c
    PROVE  SubSeq(<< a, b, c >>, 1, 2) = << a, b >> /\ SubSeq(<< a, b >>, 1, 1) = << a >>
<1> DEFINE S == {a, b, c}
           s == << a, b, c >>
           t == << a, b >>
           u == << a >>
<1>1. /\ s \in Seq(S) /\ Len(s) = 3 /\ s[1] = a /\ s[2] = b
      /\ t \in Seq(S) /\ Len(t) = 2 /\ t[1] = a /\ t[2] = b
      /\ u \in Seq(S) /\ Len(u) = 1 /\ u[1] = a
  OBVIOUS
<1> HIDE DEF s, t, u
<1>2. /\ SubSeq(s, 1, 2) \in Seq(S) /\ Len(SubSeq(s, 1, 2)) = 2
      /\ \A i \in 1..2 : SubSeq(s, 1, 2)[i] = t[i]
  BY <1>1
<1>3. /\ SubSeq(t, 1, 1) \in Seq(S) /\ Len(SubSeq(t, 1, 1)) = 1
      /\ \A i \in 1..1 : SubSeq(t, 1, 1)[i] = u[i]
  BY <1>1
<1>4. SubSeq(s, 1, 2) = t
  BY <1>1, <1>2, SeqEqual
<1>5. SubSeq(t, 1, 1) = u
  BY <1>1, <1>3, SeqEqual
<1>6. QED
  BY <1>4, <1>5 DEF s, t, u

\* Where the file of an image is: below a directory for its name, which may lie
\* below one for its host; its tag is the file's name.
LEMMA ImagePathFacts ==
    ASSUME NEW r, image_path(r) # << >>
    PROVE  Parent(image_path(r)) = NameDir(r)
<1> DEFINE h == host_without_scheme(r.host)
           f == r.tag \o << ".gb" >>
           q == image_path(r)
           S == {h, r.name, f}
<1>1. q = (IF r.host = None THEN << >> ELSE << h >>) \o << r.name, f >>
  BY DEF image_path
<1>2. NameDir(r) = (IF r.host = None THEN << >> ELSE << h >>) \o << r.name >>
  BY DEF NameDir
<1> HIDE DEF h, f, q
<1>3. CASE r.host = None
  <2>1. q = << r.name, f >> /\ NameDir(r) = << r.name >>
    BY <1>1, <1>2, <1>3
  <2>2. SubSeq(<< r.name, f >>, 1, 1) = << r.name >>
    BY Cut
  <2>3. Len(<< r.name, f >>) - 1 = 1
    OBVIOUS
  <2>4. QED
    BY <2>1, <2>2, <2>3 DEF Parent, q
<1>4. CASE r.host # None
  <2>1. q = << h, r.name, f >> /\ NameDir(r) = << h, r.name >>
    BY <1>1, <1>2, <1>4, Joined
  <2>2. SubSeq(<< h, r.name, f >>, 1, 2) = << h, r.name >>
    BY Cut
  <2>3. Len(<< h, r.name, f >>) - 1 = 2
    OBVIOUS
  <2>4. QED
    BY <2>1, <2>2, <2>3 DEF Parent, q
<1>5. QED
  BY <1>3, <1>4

\* The path of an image has a name and a tag as its last parts, after its host if it has one.
LEMMA EntryFacts ==
    ASSUME NEW e \in Entries
    PROVE  LET q == image_path(e[1])
           IN  /\ q \in Path /\ Len(q) \in {2, 3} /\ q \in Paths
               /\ q[Len(q) - 1] = e[1].name /\ Front(q[Len(q)]) = e[1].tag
               /\ Len(q) = 3 => q[1] = host_without_scheme(e[1].host)
<1> DEFINE r == e[1]
           h == host_without_scheme(r.host)
           f == r.tag \o << ".gb" >>
           q == image_path(r)
<1>1. /\ r.tag # None /\ validate(r) /\ r.host \in Seq(STRING)
      /\ r.name \in Seq(STRING) /\ r.tag \in Seq(STRING)
  BY LibraryAssumption DEF Entries
<1>2. q = (IF r.host = None THEN << >> ELSE << h >>) \o << r.name, f >> /\ q \in Paths
  BY <1>1 DEF image_path, Paths, Entries
<1>8. r.name \in Seq(Chars) /\ r.tag \in Seq(Chars)
  BY <1>1 DEF Chars
<1>3. h \in Seq(Chars)
  <2>1. r.host \in Seq(Chars)
    BY <1>1 DEF Chars
  <2>2. r.host # << >> => Tail(r.host) \in Seq(Chars)
    BY <2>1
  <2>3. QED
    BY <2>1, <2>2 DEF host_without_scheme
<1>4. f \in Seq(Chars) /\ Front(f) = r.tag
  <2>1. << ".gb" >> \in Seq(Chars)
    BY DEF Chars
  <2>2. f \in Seq(Chars) /\ Len(f) = Len(r.tag) + 1 /\ \A i \in 1..Len(r.tag) : f[i] = r.tag[i]
    BY <1>8, <2>1
  <2> HIDE DEF f
  <2>3. Len(r.tag) \in Nat /\ Front(f) = SubSeq(f, 1, Len(r.tag))
    BY <1>8, <2>2 DEF Front
  <2>4. SubSeq(f, 1, Len(r.tag)) = r.tag
    <3>1. /\ SubSeq(f, 1, Len(r.tag)) \in Seq(Chars) /\ Len(SubSeq(f, 1, Len(r.tag))) = Len(r.tag)
          /\ \A i \in 1..Len(r.tag) : SubSeq(f, 1, Len(r.tag))[i] = f[i]
      BY <2>2, <2>3
    <3>2. QED
      BY <1>8, <2>2, <3>1, SeqEqual
  <2>5. QED
    BY <2>2, <2>3, <2>4
<1> HIDE DEF r, h, f, q
<1>5. CASE r.host = None
  <2>1. q = << r.name, f >>
    BY <1>2, <1>5
  <2>2. q \in Path /\ Len(q) = 2 /\ q[1] = r.name /\ q[2] = f
    BY <1>4, <1>8, <2>1 DEF Path
  <2>3. QED
    BY <1>2, <1>4, <2>2 DEF r, q
<1>6. CASE r.host # None
  <2>1. q = << h, r.name, f >>
    BY <1>2, <1>6, Joined
  <2>2. q \in Path /\ Len(q) = 3 /\ q[1] = h /\ q[2] = r.name /\ q[3] = f
    BY <1>3, <1>4, <1>8, <2>1 DEF Path
  <2>3. QED
    BY <1>2, <1>4, <2>2 DEF r, q, h
<1>7. QED
  BY <1>5, <1>6

\* Every directory that may come to be.
Dirs == UNION {ParentsOf(q) : q \in Paths}

\* How deep images and directories lie.
LEMMA PathsFacts ==
    /\ \A q \in Paths : q \in Path /\ Len(q) \in {2, 3}
    /\ \A d \in Dirs : d \in Path /\ Len(d) \in {1, 2} /\ ParentsOf(d) \subseteq Dirs
<1>1. ASSUME NEW q \in Paths PROVE q \in Path /\ Len(q) \in {2, 3}
  <2>1. \E e \in Entries : q = image_path(e[1])
    BY DEF Paths, Entries
  <2>2. QED
    BY <2>1, EntryFacts
<1>2. ASSUME NEW d \in Dirs PROVE d \in Path /\ Len(d) \in {1, 2} /\ ParentsOf(d) \subseteq Dirs
  <2>1. PICK q \in Paths : d \in ParentsOf(q)
    BY DEF Dirs
  <2>2. q \in Path /\ Len(q) \in {2, 3}
    BY <1>1
  <2>3. d \in Path /\ Len(d) \in 1..Len(q) - 1 /\ ParentsOf(d) \subseteq ParentsOf(q)
    BY <2>1, <2>2, ParentsFacts
  <2>4. Len(d) = 1 \/ Len(d) = 2
    <3>1. \A n \in {2, 3} : \A m \in 1..n - 1 : m = 1 \/ m = 2
      OBVIOUS
    <3>2. QED
      BY <2>2, <2>3, <3>1, Zenon
  <2>5. ParentsOf(q) \subseteq Dirs
    BY DEF Dirs
  <2>6. QED
    BY <2>3, <2>4, <2>5
<1>3. QED
  BY <1>1, <1>2

(***************************************************************************)
(* States of processes.                                                    *)
(***************************************************************************)
Fields == {"op", "at", "ref", "image", "best", "path", "todo", "out", "always", "ever", "size"}

\* A record with these fields.
Shaped(s) == s = [f \in Fields |-> s[f]]

\* A process that begins has all its fields.
LEMMA IdleShaped == Shaped(Idle) /\ Shaped(Tracked(Idle))
BY DEF Shaped, Fields, Idle, Tracked

\* What a step of one process does to it and, through the library, to the others.
LEMMA StepFacts ==
    ASSUME NEW p \in Processes, NEW next, Shaped(next), Step(p, next),
           proc = [q \in Processes |-> proc[q]], \A q \in Processes : Shaped(proc[q])
    PROVE  /\ proc' = [q \in Processes |-> proc'[q]] /\ \A q \in Processes : Shaped(proc'[q])
           /\ \A f \in Fields \ {"always", "ever"} : proc'[p][f] = next[f]
           /\ proc'[p].always = next.always \cap Contents'
           /\ proc'[p].ever = next.ever \cup Contents'
           /\ \A q \in Processes \ {p} :
                /\ \A f \in Fields \ {"always", "ever"} : proc'[q][f] = proc[q][f]
                /\ proc'[q].always = proc[q].always \cap Contents'
                /\ proc'[q].ever = proc[q].ever \cup Contents'
<1> DEFINE s(q) == IF q = p THEN next ELSE proc[q]
<1>1. proc' = [q \in Processes |->
                 [s(q) EXCEPT !.always = s(q).always \cap Contents',
                              !.ever = s(q).ever \cup Contents']]
  BY DEF Step
<1>2. ASSUME NEW q \in Processes
      PROVE  /\ Shaped(proc'[q])
             /\ \A f \in Fields \ {"always", "ever"} : proc'[q][f] = s(q)[f]
             /\ proc'[q].always = s(q).always \cap Contents'
             /\ proc'[q].ever = s(q).ever \cup Contents'
  <2>1. proc'[q] = [s(q) EXCEPT !.always = s(q).always \cap Contents',
                                !.ever = s(q).ever \cup Contents']
    BY <1>1
  <2>2. Shaped(s(q))
    OBVIOUS
  <2> HIDE DEF s
  <2>3. QED
    BY <2>1, <2>2 DEF Shaped, Fields
<1>3. proc' = [q \in Processes |-> proc'[q]]
  BY <1>1
<1>4. QED
  BY <1>2, <1>3

(***************************************************************************)
(* The invariant.                                                          *)
(***************************************************************************)
\* Images with a header.
SomeImages == [name : Seq(STRING), tag : Seq(STRING), timestamp : Nat, size : Nat] \ {NoImage}

\* An image whose header names its path.
Fitting(path, image) ==
    /\ image \in SomeImages
    /\ image.name = path[Len(path) - 1] /\ image.tag = Front(path[Len(path)])

\* The tree: files and directories apart, in directories, with headers that fit.
TreeInv ==
    /\ files = [q \in Paths |-> files[q]]
    /\ \A q \in Held : Fitting(q, files[q])
    /\ dirs \subseteq Dirs /\ dirs \cap Held = {}
    /\ \A t \in Tree : ParentsOf(t) \subseteq dirs

\* Which process will fill an empty directory, or prune it, or has failed to.
Excuses(s, d) ==
    \/ s.op = "add" /\ s.at # "done" /\ d \in ParentsOf(s.path)
    \/ s.at = "prune" /\ s.path = d

\* A directory without entries has a command that excuses it.
LeafInv == \A d \in dirs : Children(d) = {} => \E q \in Processes : Excuses(proc[q], d)

\* Where each operation can be.
PlaceInv(s) ==
    \/ s.op = "idle" /\ s.at = "done"
    \/ s.op = "add" /\ s.at \in {"mkdir", "rename", "done", "failed"}
    \/ s.op = "info" /\ s.at \in {"find", "scan", "done", "failed"}
    \/ s.op = "delete" /\ s.at \in {"find", "scan", "remove", "prune", "done", "failed"}
    \/ s.op = "push" /\ s.at \in {"find", "scan", "stat", "upload", "done", "failed"}
    \/ s.op = "list" /\ s.at \in {"walk", "done", "failed"}

\* What is added has a header that fits.
AddInv(s) == s.op = "add" => s.path \in Paths /\ Fitting(s.path, s.image)

\* While a directory is scanned, an image that was there all the time is still to
\* be read or no newer than the best.
SearchInv(s) ==
    s.op = "info" =>
        /\ s.best \in SomeImages \cup {NoImage}
        /\ s.best # NoImage => \E e \in s.ever : Parent(e[1]) = NameDir(s.ref) /\ e[2] = s.best
        /\ s.at = "find" => s.best = NoImage
        /\ s.at = "scan" => s.ref.tag = None /\ \A c \in s.todo : Parent(c) = NameDir(s.ref)
        /\ s.at = "done" => s.best # NoImage
        /\ s.at \in {"scan", "done"} /\ s.ref.tag = None =>
             \A e \in s.always : Parent(e[1]) = NameDir(s.ref) =>
                \/ s.at = "scan" /\ e[1] \in s.todo
                \/ s.best # NoImage /\ s.best.timestamp >= e[2].timestamp

\* An image, or a directory above it, is still to be visited.
Awaits(todo, path) ==
    \E c \in todo : \/ c.kind = "file" /\ c.path = path
                    \/ c.kind = "dir" /\ c.path \in ParentsOf(path)

\* While the tree is walked, an image that was there all the time is reported, or
\* it or a directory above it is still to be visited.
WalkInv(s) ==
    s.op = "list" =>
        /\ s.out \subseteq {RefOf(e[1]) : e \in s.ever}
        /\ s.at = "done" => s.todo = {}
        /\ s.at \in {"walk", "done"} =>
             \A e \in s.always : ~Hidden(e[1]) =>
                RefOf(e[1]) \in s.out \/ Awaits(s.todo, e[1])

\* What is known of one process.
Kept(s) == PlaceInv(s) /\ AddInv(s) /\ SearchInv(s) /\ WalkInv(s)

\* The histories of a command under way.
HistoryInv(s) == s.op # "idle" => s.always \subseteq Contents /\ Contents \subseteq s.ever

\* What is known of all of them.
ProcInv ==
    /\ proc = [q \in Processes |-> proc[q]]
    /\ \A q \in Processes : Shaped(proc[q]) /\ Kept(proc[q]) /\ HistoryInv(proc[q])

LibraryInv == TreeInv /\ ProcInv /\ LeafInv

\* What is known of a process stays true when its histories are brought up to date.
LEMMA KeptOnly ==
    ASSUME NEW s, NEW t, Kept(s), t.always \subseteq s.always, s.ever \subseteq t.ever,
           \A f \in Fields \ {"always", "ever"} : t[f] = s[f]
    PROVE  Kept(t)
<1>1. /\ t.op = s.op /\ t.at = s.at /\ t.ref = s.ref /\ t.image = s.image /\ t.best = s.best
      /\ t.path = s.path /\ t.todo = s.todo /\ t.out = s.out
  BY DEF Fields
<1>2. PlaceInv(t) /\ AddInv(t)
  BY <1>1 DEF Kept, PlaceInv, AddInv
<1>3. SearchInv(t)
  <2> SUFFICES ASSUME s.op = "info" PROVE SearchInv(t)
    BY <1>1 DEF SearchInv
  <2>1. s.best # NoImage => \E e \in t.ever : Parent(e[1]) = NameDir(s.ref) /\ e[2] = s.best
    BY DEF Kept, SearchInv
  <2>2. s.at \in {"scan", "done"} /\ s.ref.tag = None =>
          \A e \in t.always : Parent(e[1]) = NameDir(s.ref) =>
             \/ s.at = "scan" /\ e[1] \in s.todo
             \/ s.best # NoImage /\ s.best.timestamp >= e[2].timestamp
    BY DEF Kept, SearchInv
  <2>3. QED
    BY <1>1, <2>1, <2>2 DEF Kept, SearchInv
<1>4. WalkInv(t)
  <2> SUFFICES ASSUME s.op = "list" PROVE WalkInv(t)
    BY <1>1 DEF WalkInv
  <2>1. s.out \subseteq {RefOf(e[1]) : e \in t.ever}
    BY DEF Kept, WalkInv
  <2>2. s.at \in {"walk", "done"} =>
          \A e \in t.always : ~Hidden(e[1]) =>
             RefOf(e[1]) \in s.out \/ Awaits(s.todo, e[1])
    BY DEF Kept, WalkInv
  <2>3. QED
    BY <1>1, <2>1, <2>2 DEF Kept, WalkInv
<1>5. QED
  BY <1>2, <1>3, <1>4 DEF Kept

\* A step that ends well for its process keeps what is known of all of them.
LEMMA ProcStep ==
    ASSUME ProcInv, NEW p \in Processes, NEW next, Shaped(next), Kept(next), Step(p, next)
    PROVE  /\ ProcInv'
           /\ proc'[p].op = next.op /\ proc'[p].at = next.at /\ proc'[p].path = next.path
           /\ \A q \in Processes \ {p} : /\ proc'[q].op = proc[q].op /\ proc'[q].at = proc[q].at
                                         /\ proc'[q].path = proc[q].path
<1>1. /\ proc = [q \in Processes |-> proc[q]]
      /\ \A q \in Processes : Shaped(proc[q]) /\ Kept(proc[q]) /\ HistoryInv(proc[q])
  BY DEF ProcInv
<1>2. /\ proc' = [q \in Processes |-> proc'[q]] /\ \A q \in Processes : Shaped(proc'[q])
      /\ \A f \in Fields \ {"always", "ever"} : proc'[p][f] = next[f]
      /\ proc'[p].always = next.always \cap Contents'
      /\ proc'[p].ever = next.ever \cup Contents'
      /\ \A q \in Processes \ {p} :
           /\ \A f \in Fields \ {"always", "ever"} : proc'[q][f] = proc[q][f]
           /\ proc'[q].always = proc[q].always \cap Contents'
           /\ proc'[q].ever = proc[q].ever \cup Contents'
  BY <1>1, StepFacts
<1>3. ASSUME NEW q \in Processes PROVE Kept(proc'[q])
  <2>1. CASE q = p
    BY <1>2, <2>1, KeptOnly
  <2>2. CASE q # p
    BY <1>1, <1>2, <2>2, KeptOnly
  <2>3. QED
    BY <2>1, <2>2
<1>4. ASSUME NEW q \in Processes
      PROVE  proc'[q].always \subseteq Contents' /\ Contents' \subseteq proc'[q].ever
  BY <1>2
<1>5. ProcInv'
  BY <1>2, <1>3, <1>4 DEF ProcInv, HistoryInv
<1>6. "op" \in Fields \ {"always", "ever"} /\ "at" \in Fields \ {"always", "ever"}
      /\ "path" \in Fields \ {"always", "ever"}
  BY DEF Fields
<1>7. QED
  BY <1>2, <1>5, <1>6

(***************************************************************************)
(* Steps that leave the tree alone.                                        *)
(***************************************************************************)
LEMMA QuietStep ==
    ASSUME LibraryInv, Unchanged,
           NEW p \in Processes, NEW next, Shaped(next), Kept(next), Step(p, next),
           \A d \in dirs : Children(d) = {} /\ Excuses(proc[p], d) => Excuses(next, d)
    PROVE  LibraryInv'
<1>1. /\ ProcInv'
      /\ proc'[p].op = next.op /\ proc'[p].at = next.at /\ proc'[p].path = next.path
      /\ \A q \in Processes \ {p} : /\ proc'[q].op = proc[q].op /\ proc'[q].at = proc[q].at
                                    /\ proc'[q].path = proc[q].path
  BY ProcStep DEF LibraryInv
<1>2. files' = files /\ dirs' = dirs /\ Held' = Held /\ Tree' = Tree
      /\ \A d : Children(d)' = Children(d)
  BY DEF Unchanged, Held, Tree, Children
<1>3. TreeInv'
  BY <1>2 DEF LibraryInv, TreeInv
<1>4. LeafInv'
  <2> SUFFICES ASSUME NEW d \in dirs, Children(d) = {}
               PROVE  \E q \in Processes : Excuses(proc'[q], d)
    BY <1>2 DEF LeafInv
  <2>1. PICK q \in Processes : Excuses(proc[q], d)
    BY DEF LibraryInv, LeafInv
  <2>2. CASE q = p
    BY <1>1, <2>1, <2>2 DEF Excuses
  <2>3. CASE q # p
    BY <1>1, <2>1, <2>3 DEF Excuses
  <2>4. QED
    BY <2>2, <2>3
<1>5. QED
  BY <1>1, <1>3, <1>4 DEF LibraryInv

\* What the invariant says of one process.
LEMMA OfProcess ==
    ASSUME LibraryInv, NEW p \in Processes
    PROVE  Shaped(proc[p]) /\ Kept(proc[p]) /\ HistoryInv(proc[p])
BY DEF LibraryInv, ProcInv

\* An image in the library, as histories see it.
LEMMA ContentsFacts ==
    ASSUME LibraryInv
    PROVE  /\ \A q \in Held : << q, files[q] >> \in Contents /\ Fitting(q, files[q])
                              /\ files[q] \in SomeImages /\ q \in Paths /\ q \in Path
                              /\ Len(q) \in {2, 3} /\ q \notin dirs /\ ParentsOf(q) \subseteq dirs
           /\ \A e \in Contents : e[1] \in Held /\ e[2] = files[e[1]]
<1>1. \A q \in Held : /\ Fitting(q, files[q]) /\ q \in Tree /\ ParentsOf(q) \subseteq dirs
                     /\ q \notin dirs
  BY DEF LibraryInv, TreeInv, Tree
<1>2. \A q \in Held : q \in Paths
  BY DEF Held
<1>3. dirs \subseteq Dirs
  BY DEF LibraryInv, TreeInv
<1>4. QED
  BY <1>1, <1>2, <1>3, PathsFacts DEF Fitting, Contents

\* A command gives up.
LEMMA FailsKept ==
    ASSUME LibraryInv, Unchanged, NEW p \in Processes, Fails(p),
           proc[p].op # "idle", proc[p].at # "done", proc[p].at # "prune"
    PROVE  LibraryInv'
<1> DEFINE next == [proc[p] EXCEPT !.at = "failed"]
<1>1. Shaped(proc[p]) /\ Kept(proc[p])
  BY OfProcess
<1>2. Shaped(next) /\ next.at = "failed" /\ \A f \in Fields \ {"at"} : next[f] = proc[p][f]
  BY <1>1 DEF Shaped, Fields
<1>3. /\ next.op = proc[p].op /\ next.path = proc[p].path /\ next.image = proc[p].image
      /\ next.best = proc[p].best /\ next.ref = proc[p].ref /\ next.out = proc[p].out
      /\ next.ever = proc[p].ever
  BY <1>2 DEF Fields
<1>4. Step(p, next)
  BY DEF Fails
<1> HIDE DEF next
<1>5. Kept(next)
  BY <1>1, <1>2, <1>3 DEF Kept, PlaceInv, AddInv, SearchInv, WalkInv
<1>6. \A d \in dirs : Children(d) = {} /\ Excuses(proc[p], d) => Excuses(next, d)
  BY <1>2, <1>3 DEF Excuses
<1>7. QED
  BY <1>2, <1>4, <1>5, <1>6, QuietStep

\* A build or a pull begins to add its image.
LEMMA StartAddKept ==
    ASSUME LibraryInv, NEW p \in Processes, Build(p) \/ Pull(p)
    PROVE  LibraryInv'
<1>1. PICK e \in Built \cup Served : StartAdd(p, e)
  BY DEF Build, Pull
<1> DEFINE next == [Tracked(Idle) EXCEPT !.op = "add", !.at = "mkdir", !.ref = e[1],
                                         !.image = e[2], !.path = image_path(e[1])]
<1>2. proc[p].op = "idle" /\ Unchanged /\ Step(p, next)
  BY <1>1 DEF StartAdd
<1>3. /\ Shaped(next) /\ next.op = "add" /\ next.at = "mkdir" /\ next.image = e[2]
      /\ next.path = image_path(e[1])
  BY IdleShaped DEF Shaped, Fields
<1>4. image_path(e[1]) \in Paths /\ Fitting(image_path(e[1]), e[2])
  <2>1. e \in Entries /\ e[2].name = e[1].name /\ e[2].tag = e[1].tag
    BY LibraryAssumption DEF Served, Entries
  <2>2. e[2] \in SomeImages
    BY <2>1, LibraryAssumption DEF Entries, SomeImages
  <2>3. QED
    BY <2>1, <2>2, EntryFacts DEF Fitting
<1> HIDE DEF next
<1>5. Kept(next)
  BY <1>3, <1>4 DEF Kept, PlaceInv, AddInv, SearchInv, WalkInv
<1>6. Kept(proc[p])
  BY OfProcess
<1>7. \A d \in dirs : ~Excuses(proc[p], d)
  BY <1>2, <1>6 DEF Kept, PlaceInv, Excuses
<1>8. QED
  BY <1>2, <1>3, <1>5, <1>7, QuietStep

\* A command that needs an image begins to look for it.
LEMMA StartSearchKept ==
    ASSUME LibraryInv, NEW p \in Processes, Search(p) \/ Push(p)
    PROVE  LibraryInv'
<1>1. PICK op \in {"info", "delete", "push"} : \E r : StartSearch(p, op, r)
  BY DEF Search, Push
<1>2. PICK r : StartSearch(p, op, r)
  BY <1>1
<1> DEFINE next == [Tracked(Idle) EXCEPT !.op = op, !.ref = r,
                      !.at = IF op = "delete" /\ r.tag # None THEN "remove" ELSE "find"]
<1>3. proc[p].op = "idle" /\ Unchanged /\ Step(p, next)
  BY <1>2 DEF StartSearch
<1>4. /\ Shaped(next) /\ next.op = op /\ next.best = NoImage
      /\ next.at = IF op = "delete" /\ r.tag # None THEN "remove" ELSE "find"
  <2>1. Tracked(Idle).best = NoImage
    BY DEF Tracked, Idle
  <2>2. QED
    BY <2>1, IdleShaped DEF Shaped, Fields
<1> HIDE DEF next
<1>5. Kept(next)
  BY <1>4 DEF Kept, PlaceInv, AddInv, SearchInv, WalkInv
<1>6. Kept(proc[p])
  BY OfProcess
<1>7. \A d \in dirs : ~Excuses(proc[p], d)
  BY <1>3, <1>6 DEF Kept, PlaceInv, Excuses
<1>8. QED
  BY <1>3, <1>4, <1>5, <1>7, QuietStep

\* Reading a directory shows the way to every image below it.
LEMMA ListedFacts ==
    ASSUME LibraryInv, NEW e \in Contents, NEW dir,
           dir \in ParentsOf(e[1]) \/ dir = << >>
    PROVE  Awaits(Listed(dir), e[1])
<1>1. /\ e[1] \in Held /\ e[1] \in Path /\ Len(e[1]) \in {2, 3} /\ ParentsOf(e[1]) \subseteq dirs
      /\ e[1] \notin dirs
  BY ContentsFacts
<1>2. Len(e[1]) >= 1
  <2>1. \A n \in {2, 3} : n >= 1
    OBVIOUS
  <2>2. QED
    BY <1>1, <2>1, Zenon
<1> DEFINE v == SubSeq(e[1], 1, Len(dir) + 1)
           c == [path |-> v, kind |-> IF v \in dirs THEN "dir" ELSE "file"]
<1>3. Parent(v) = dir /\ Len(v) = Len(dir) + 1 /\ (v = e[1] \/ v \in ParentsOf(e[1]))
  BY <1>1, <1>2, NextPart
<1> HIDE DEF v
<1>4. v \in Children(dir)
  BY <1>1, <1>3 DEF Children, Tree
<1>5. c \in Listed(dir)
  BY <1>4 DEF Listed
<1>6. \/ c.kind = "file" /\ c.path = e[1]
      \/ c.kind = "dir" /\ c.path \in ParentsOf(e[1])
  BY <1>1, <1>3
<1> HIDE DEF c
<1>7. QED
  BY <1>5, <1>6 DEF Awaits

\* A listing begins with the library's own directory.
LEMMA ListKept == ASSUME LibraryInv, NEW p \in Processes, List(p) PROVE LibraryInv'
<1> DEFINE next == [Tracked(Idle) EXCEPT !.op = "list", !.at = "walk", !.todo = Listed(Root)]
<1>1. proc[p].op = "idle" /\ Unchanged /\ Step(p, next)
  BY DEF List
<1>2. /\ Shaped(next) /\ next.op = "list" /\ next.at = "walk" /\ next.todo = Listed(Root)
      /\ next.out = {} /\ next.always = Contents
  <2>1. Tracked(Idle).out = {} /\ Tracked(Idle).always = Contents
    BY DEF Tracked, Idle
  <2>2. QED
    BY <2>1, IdleShaped DEF Shaped, Fields
<1> HIDE DEF next
<1>3. ASSUME NEW e \in Contents PROVE Awaits(next.todo, e[1])
  BY <1>2, ListedFacts DEF Root
<1>4. Kept(next)
  BY <1>2, <1>3 DEF Kept, PlaceInv, AddInv, SearchInv, WalkInv
<1>5. Kept(proc[p])
  BY OfProcess
<1>6. \A d \in dirs : ~Excuses(proc[p], d)
  BY <1>1, <1>5 DEF Kept, PlaceInv, Excuses
<1>7. QED
  BY <1>1, <1>2, <1>4, <1>6, QuietStep

(***************************************************************************)
(* Searching.                                                              *)
(***************************************************************************)
LEMMA MissingKept ==
    ASSUME LibraryInv, Unchanged, NEW p \in Processes, Missing(p), proc[p].at \in {"find", "scan"}
    PROVE  LibraryInv'
<1>1. Shaped(proc[p]) /\ Kept(proc[p])
  BY OfProcess
<1>2. CASE Fails(p)
  BY <1>1, <1>2, FailsKept DEF Kept, PlaceInv
<1>3. CASE ~Fails(p)
  <2>1. PICK r : Step(p, [proc[p] EXCEPT !.at = "find", !.ref = r, !.best = NoImage, !.todo = {}])
    BY <1>3 DEF Missing
  <2>2. proc[p].op = "push"
    BY <1>3 DEF Missing
  <2> DEFINE next == [proc[p] EXCEPT !.at = "find", !.ref = r, !.best = NoImage, !.todo = {}]
  <2>3. Shaped(next) /\ next.op = "push" /\ next.at = "find"
    BY <1>1, <2>2 DEF Shaped, Fields
  <2>4. Step(p, next)
    BY <2>1
  <2> HIDE DEF next
  <2>5. Kept(next)
    BY <2>3 DEF Kept, PlaceInv, AddInv, SearchInv, WalkInv
  <2>6. \A d \in dirs : ~Excuses(proc[p], d)
    BY <2>2 DEF Excuses
  <2>7. QED
    BY <2>3, <2>4, <2>5, <2>6, QuietStep
<1>4. QED
  BY <1>2, <1>3

\* The image looked for is found.
LEMMA FoundKept ==
    ASSUME LibraryInv, Unchanged, NEW p \in Processes, NEW path, NEW image, Found(p, path, image),
           proc[p].at \in {"find", "scan"},
           proc[p].op = "info" =>
             /\ image \in SomeImages
             /\ \E e \in proc[p].ever : Parent(e[1]) = NameDir(proc[p].ref) /\ e[2] = image
             /\ proc[p].ref.tag = None => \A e \in proc[p].always :
                  Parent(e[1]) = NameDir(proc[p].ref) => image.timestamp >= e[2].timestamp
    PROVE  LibraryInv'
<1>1. Shaped(proc[p]) /\ Kept(proc[p])
  BY OfProcess
<1>2. proc[p].op \in {"info", "delete", "push"}
  BY <1>1 DEF Kept, PlaceInv
<1>3. \A d \in dirs : ~Excuses(proc[p], d)
  BY <1>2 DEF Excuses
<1>4. CASE proc[p].op = "info"
  <2> DEFINE next == [proc[p] EXCEPT !.at = "done", !.best = image]
  <2>1. /\ Shaped(next) /\ next.op = "info" /\ next.at = "done" /\ next.best = image
        /\ next.ref = proc[p].ref /\ next.ever = proc[p].ever /\ next.always = proc[p].always
    BY <1>1, <1>4 DEF Shaped, Fields
  <2>2. Step(p, next)
    BY <1>4 DEF Found
  <2> HIDE DEF next
  <2>3. image \in SomeImages /\ image # NoImage
    BY <1>4 DEF SomeImages
  <2>4. SearchInv(next)
    BY <1>4, <2>1, <2>3 DEF SearchInv
  <2>5. Kept(next)
    BY <2>1, <2>4 DEF Kept, PlaceInv, AddInv, WalkInv
  <2>6. QED
    BY <1>3, <2>1, <2>2, <2>5, QuietStep
<1>5. CASE proc[p].op = "delete"
  <2> DEFINE next == [proc[p] EXCEPT !.at = "remove", !.best = image, !.ref.tag = image.tag]
  <2>1. Shaped(next) /\ next.op = "delete" /\ next.at = "remove"
    BY <1>1, <1>5 DEF Shaped, Fields
  <2>2. Step(p, next)
    BY <1>5 DEF Found
  <2> HIDE DEF next
  <2>3. Kept(next)
    BY <2>1 DEF Kept, PlaceInv, AddInv, SearchInv, WalkInv
  <2>4. QED
    BY <1>3, <2>1, <2>2, <2>3, QuietStep
<1>6. CASE proc[p].op = "push"
  <2> DEFINE next == [proc[p] EXCEPT !.at = "stat", !.best = image, !.path = path]
  <2>1. Shaped(next) /\ next.op = "push" /\ next.at = "stat"
    BY <1>1, <1>6 DEF Shaped, Fields
  <2>2. Step(p, next)
    BY <1>6 DEF Found
  <2> HIDE DEF next
  <2>3. Kept(next)
    BY <2>1 DEF Kept, PlaceInv, AddInv, SearchInv, WalkInv
  <2>4. QED
    BY <1>3, <2>1, <2>2, <2>3, QuietStep
<1>7. QED
  BY <1>2, <1>4, <1>5, <1>6

\* A tag names a file; without one a directory is read.
LEMMA FindKept == ASSUME LibraryInv, NEW p \in Processes, Find(p) PROVE LibraryInv'
<1> DEFINE r == proc[p].ref
           q == image_path(r)
<1>1. Shaped(proc[p]) /\ Kept(proc[p]) /\ HistoryInv(proc[p]) /\ proc[p].at = "find" /\ Unchanged
  BY OfProcess DEF Find
<1>2. proc[p].op \in {"info", "delete", "push"}
  BY <1>1 DEF Kept, PlaceInv
<1>3. CASE r.tag # None
  <2>1. CASE q \in Held
    <3>1. Found(p, q, files[q])
      BY <1>3, <2>1 DEF Find
    <3>2. files[q] \in SomeImages /\ << q, files[q] >> \in proc[p].ever
      BY <1>1, <1>2, <2>1, ContentsFacts DEF HistoryInv
    <3>3. Parent(q) = NameDir(r)
      <4>1. q \in Path /\ Len(q) \in {2, 3}
        BY <2>1, ContentsFacts
      <4>2. q # << >>
        <5>1. Len(<< >>) = 0
          OBVIOUS
        <5>2. 0 \notin {2, 3}
          OBVIOUS
        <5>3. QED
          BY <4>1, <5>1, <5>2, Zenon
      <4>3. QED
        BY <4>2, ImagePathFacts
    <3> DEFINE e == << q, files[q] >>
    <3>4. e \in proc[p].ever /\ Parent(e[1]) = NameDir(r) /\ e[2] = files[q]
      BY <3>2, <3>3
    <3> HIDE DEF e, q
    <3>5. QED
      BY <1>1, <1>3, <3>1, <3>2, <3>4, FoundKept DEF r
  <2>2. CASE q \notin Held
    BY <1>1, <1>3, <2>2, MissingKept DEF Find
  <2>3. QED
    BY <2>1, <2>2
<1>4. CASE r.tag = None /\ NameDir(r) \notin dirs
  BY <1>1, <1>4, MissingKept DEF Find
<1>5. CASE r.tag = None /\ NameDir(r) \in dirs
  <2> DEFINE todo == Children(NameDir(r)) \cap Paths
             next == [proc[p] EXCEPT !.at = "scan", !.todo = todo]
  <2>1. Step(p, next)
    BY <1>5 DEF Find
  <2>2. /\ Shaped(next) /\ next.op = proc[p].op /\ next.at = "scan" /\ next.todo = todo
        /\ next.ref = r /\ next.always = proc[p].always /\ next.best = proc[p].best
        /\ next.ever = proc[p].ever
    <3> HIDE DEF todo
    <3>1. QED
      BY <1>1 DEF Shaped, Fields
  <2>3. \A c \in todo : Parent(c) = NameDir(r)
    BY DEF Children
  <2>4. ASSUME NEW e \in proc[p].always, Parent(e[1]) = NameDir(r) PROVE e[1] \in todo
    <3>1. e \in Contents
      BY <1>1, <1>2 DEF HistoryInv
    <3>2. e[1] \in Held /\ e[1] \in Path /\ e[1] \in Paths /\ Len(e[1]) \in {2, 3}
      BY <3>1, ContentsFacts
    <3>3. Len(e[1]) >= 1 /\ Len(e[1]) \in Nat
      <4>1. \A n \in {2, 3} : n >= 1 /\ n \in Nat
        OBVIOUS
      <4>2. QED
        BY <3>2, <4>1, Zenon
    <3>4. Len(Parent(e[1])) = Len(e[1]) - 1
      BY <3>2, <3>3, ParentFacts
    <3>5. Len(e[1]) = Len(NameDir(r)) + 1
      BY <2>4, <3>3, <3>4
    <3>6. QED
      BY <2>4, <3>2, <3>5 DEF Children, Tree
  <2> HIDE DEF next, todo
  <2>5. SearchInv(next)
    <3> SUFFICES ASSUME proc[p].op = "info" PROVE SearchInv(next)
      BY <2>2 DEF SearchInv
    <3>1. proc[p].best = NoImage
      BY <1>1 DEF Kept, SearchInv
    <3>2. QED
      BY <1>5, <2>2, <2>3, <2>4, <3>1 DEF SearchInv
  <2>6. Kept(next)
    BY <1>2, <2>2, <2>5 DEF Kept, PlaceInv, AddInv, WalkInv
  <2>7. \A d \in dirs : ~Excuses(proc[p], d)
    BY <1>1, <1>2 DEF Excuses
  <2>8. QED
    BY <1>1, <2>1, <2>2, <2>6, <2>7, QuietStep
<1>6. QED
  BY <1>3, <1>4, <1>5

\* Every image of the directory that was there throughout is read before the scan ends.
LEMMA ScanKept == ASSUME LibraryInv, NEW p \in Processes, Scan(p) PROVE LibraryInv'
<1> DEFINE s == proc[p]
<1>1. Shaped(s) /\ Kept(s) /\ HistoryInv(s) /\ s.at = "scan" /\ Unchanged
  BY OfProcess DEF Scan
<1>2. s.op \in {"info", "delete", "push"}
  BY <1>1 DEF Kept, PlaceInv
<1>3. PICK path \in s.todo :
        IF path \in Held /\ Newer(files[path], s.best)
        THEN Step(p, [s EXCEPT !.todo = s.todo \ {path}, !.best = files[path], !.path = path])
        ELSE Step(p, [s EXCEPT !.todo = s.todo \ {path}])
  BY DEF Scan
<1>4. \A d \in dirs : ~Excuses(s, d)
  BY <1>1, <1>2 DEF Excuses
<1>5. s.op = "info" => /\ s.best \in SomeImages \cup {NoImage} /\ s.ref.tag = None
                       /\ \A c \in s.todo : Parent(c) = NameDir(s.ref)
  BY <1>1 DEF Kept, SearchInv
<1>6. \A e \in s.always : /\ e \in Contents /\ e[1] \in Held /\ e[2] = files[e[1]]
                          /\ e[2].timestamp \in Nat
  BY <1>1, <1>2, ContentsFacts DEF HistoryInv, SomeImages
<1>7. CASE path \in Held /\ Newer(files[path], s.best)
  <2> DEFINE next == [s EXCEPT !.todo = s.todo \ {path}, !.best = files[path], !.path = path]
  <2>1. Step(p, next)
    BY <1>3, <1>7
  <2>2. /\ Shaped(next) /\ next.op = s.op /\ next.at = "scan" /\ next.todo = s.todo \ {path}
        /\ next.ref = s.ref /\ next.always = s.always /\ next.best = files[path]
        /\ next.ever = s.ever
    <3> HIDE DEF s
    <3>1. QED
      BY <1>1 DEF Shaped, Fields
  <2> HIDE DEF next
  <2>3. /\ files[path] \in SomeImages /\ files[path].timestamp \in Nat
        /\ << path, files[path] >> \in s.ever
    BY <1>1, <1>2, <1>7, ContentsFacts DEF HistoryInv, SomeImages
  <2>4. SearchInv(next)
    <3> SUFFICES ASSUME s.op = "info" PROVE SearchInv(next)
      BY <2>2 DEF SearchInv
    <3>1. files[path] # NoImage
      BY <2>3 DEF SomeImages
    <3>2. \E e \in s.ever : Parent(e[1]) = NameDir(s.ref) /\ e[2] = files[path]
      <4> DEFINE e == << path, files[path] >>
      <4>1. e \in s.ever /\ Parent(e[1]) = NameDir(s.ref) /\ e[2] = files[path]
        BY <1>5, <2>3
      <4> HIDE DEF e
      <4>2. QED
        BY <4>1
    <3>3. ASSUME NEW e \in s.always, Parent(e[1]) = NameDir(s.ref), e[1] \notin s.todo \ {path}
          PROVE  files[path].timestamp >= e[2].timestamp
      <4>1. CASE e[1] = path
        BY <1>6, <2>3, <4>1
      <4>2. CASE e[1] # path
        <5>1. s.best # NoImage /\ s.best.timestamp >= e[2].timestamp
          BY <1>1, <1>5, <3>3, <4>2 DEF Kept, SearchInv
        <5>2. files[path].timestamp > s.best.timestamp /\ s.best.timestamp \in Nat
          BY <1>5, <1>7, <5>1 DEF Newer, SomeImages
        <5>3. QED
          BY <1>6, <2>3, <5>1, <5>2
      <4>3. QED
        BY <4>1, <4>2
    <3>4. QED
      BY <1>5, <2>2, <2>3, <3>1, <3>2, <3>3 DEF SearchInv
  <2>5. Kept(next)
    BY <1>2, <2>2, <2>4 DEF Kept, PlaceInv, AddInv, WalkInv
  <2>6. QED
    BY <1>1, <1>4, <2>1, <2>2, <2>5, QuietStep
<1>8. CASE ~(path \in Held /\ Newer(files[path], s.best))
  <2> DEFINE next == [s EXCEPT !.todo = s.todo \ {path}]
  <2>1. Step(p, next)
    BY <1>3, <1>8
  <2>2. /\ Shaped(next) /\ next.op = s.op /\ next.at = "scan" /\ next.todo = s.todo \ {path}
        /\ next.ref = s.ref /\ next.always = s.always /\ next.best = s.best
        /\ next.ever = s.ever
    <3> HIDE DEF s
    <3>1. QED
      BY <1>1 DEF Shaped, Fields
  <2> HIDE DEF next
  <2>4. SearchInv(next)
    <3> SUFFICES ASSUME s.op = "info" PROVE SearchInv(next)
      BY <2>2 DEF SearchInv
    <3>1. ASSUME NEW e \in s.always, Parent(e[1]) = NameDir(s.ref), e[1] \notin s.todo \ {path}
          PROVE  s.best # NoImage /\ s.best.timestamp >= e[2].timestamp
      <4>1. CASE e[1] = path
        <5>1. path \in Held /\ e[2] = files[path] /\ files[path].timestamp \in Nat
          BY <1>6, <4>1
        <5>2. s.best # NoImage /\ ~(files[path].timestamp > s.best.timestamp)
          BY <1>8, <5>1 DEF Newer
        <5>3. s.best.timestamp \in Nat
          BY <1>5, <5>2 DEF SomeImages
        <5>4. QED
          BY <5>1, <5>2, <5>3
      <4>2. CASE e[1] # path
        BY <1>1, <1>5, <3>1, <4>2 DEF Kept, SearchInv
      <4>3. QED
        BY <4>1, <4>2
    <3>2. s.best # NoImage => \E e \in s.ever : Parent(e[1]) = NameDir(s.ref) /\ e[2] = s.best
      BY <1>1 DEF Kept, SearchInv
    <3>3. QED
      BY <1>5, <2>2, <3>1, <3>2 DEF SearchInv
  <2>5. Kept(next)
    BY <1>2, <2>2, <2>4 DEF Kept, PlaceInv, AddInv, WalkInv
  <2>6. QED
    BY <1>1, <1>4, <2>1, <2>2, <2>5, QuietStep
<1>9. QED
  BY <1>7, <1>8

\* The best image of the directory.
LEMMA ScanEndsKept == ASSUME LibraryInv, NEW p \in Processes, ScanEnds(p) PROVE LibraryInv'
<1>1. /\ Shaped(proc[p]) /\ Kept(proc[p]) /\ proc[p].at = "scan" /\ proc[p].todo = {}
      /\ Unchanged
  BY OfProcess DEF ScanEnds
<1>2. CASE proc[p].best = NoImage
  BY <1>1, <1>2, MissingKept DEF ScanEnds
<1>3. CASE proc[p].best # NoImage
  <2>1. Found(p, proc[p].path, proc[p].best)
    BY <1>3 DEF ScanEnds
  <2>2. ASSUME proc[p].op = "info"
        PROVE  /\ proc[p].best \in SomeImages
               /\ \E e \in proc[p].ever : Parent(e[1]) = NameDir(proc[p].ref) /\ e[2] = proc[p].best
               /\ \A e \in proc[p].always :
                    Parent(e[1]) = NameDir(proc[p].ref) => proc[p].best.timestamp >= e[2].timestamp
    BY <1>1, <1>3, <2>2 DEF Kept, SearchInv
  <2>3. QED
    BY <1>1, <2>1, <2>2, FoundKept
<1>4. QED
  BY <1>2, <1>3

(***************************************************************************)
(* Listing.                                                                *)
(***************************************************************************)
\* A visit that accounts for the images at and below the entry keeps the walk complete.
LEMMA VisitKept ==
    ASSUME LibraryInv, Unchanged, NEW p \in Processes, proc[p].op = "list", proc[p].at = "walk",
           NEW c \in proc[p].todo, NEW next, Shaped(next), Step(p, next),
           next.op = "list", next.at = "walk", next.always = proc[p].always,
           proc[p].out \subseteq next.out, proc[p].todo \ {c} \subseteq next.todo,
           next.out \subseteq {RefOf(e[1]) : e \in next.ever},
           \A e \in Contents : ~Hidden(e[1]) /\ Awaits({c}, e[1]) =>
              RefOf(e[1]) \in next.out \/ Awaits(next.todo, e[1])
    PROVE  LibraryInv'
<1>1. Kept(proc[p]) /\ proc[p].always \subseteq Contents
  BY OfProcess DEF HistoryInv
<1>2. ASSUME NEW e \in next.always, ~Hidden(e[1])
      PROVE  RefOf(e[1]) \in next.out \/ Awaits(next.todo, e[1])
  <2>1. RefOf(e[1]) \in proc[p].out \/ Awaits(proc[p].todo, e[1])
    BY <1>1, <1>2 DEF Kept, WalkInv
  <2>2. e \in Contents
    BY <1>1
  <2>3. CASE Awaits({c}, e[1])
    BY <1>2, <2>2, <2>3
  <2>4. CASE ~Awaits({c}, e[1])
    BY <2>1, <2>4 DEF Awaits
  <2>5. QED
    BY <2>3, <2>4
<1>3. Kept(next)
  BY <1>2 DEF Kept, PlaceInv, AddInv, SearchInv, WalkInv
<1>4. \A d \in dirs : ~Excuses(proc[p], d)
  BY DEF Excuses
<1>5. QED
  BY <1>3, <1>4, QuietStep

\* A visit reports the image, or leads on to everything below the directory.
LEMMA WalkKept == ASSUME LibraryInv, NEW p \in Processes, Walk(p) PROVE LibraryInv'
<1> DEFINE s == proc[p]
<1>1. Shaped(s) /\ Kept(s) /\ HistoryInv(s) /\ s.op = "list" /\ s.at = "walk" /\ Unchanged
  BY OfProcess DEF Walk, WalkReading
<1>2. PICK c \in s.todo :
        IF c \in {d \in s.todo : Hidden(d.path)} THEN Step(p, [s EXCEPT !.todo = s.todo \ {c}])
        ELSE IF c.kind = "file"
        THEN Step(p, [s EXCEPT !.todo = s.todo \ {c},
                !.out = IF c.path \notin Held THEN @
                        ELSE @ \cup {Ref(IF Len(c.path) = 3 THEN c.path[1] ELSE None,
                                         files[c.path].name, files[c.path].tag)}])
        ELSE IF c.path \notin dirs THEN Fails(p)
        ELSE Step(p, [s EXCEPT !.todo = (s.todo \ {c}) \cup Listed(c.path)])
  BY DEF Walk, WalkReading
<1>3. s.out \subseteq {RefOf(e[1]) : e \in s.ever}
  BY <1>1 DEF Kept, WalkInv
<1>4. ASSUME NEW e \in Contents, Awaits({c}, e[1])
      PROVE  /\ e[1] \in Held /\ e[1] \in Path
             /\ \/ c.kind = "file" /\ c.path = e[1]
                \/ c.kind = "dir" /\ c.path \in ParentsOf(e[1]) /\ c.path[1] = e[1][1]
  <2>1. e[1] \in Held /\ e[1] \in Path
    BY ContentsFacts
  <2>2. \/ c.kind = "file" /\ c.path = e[1]
        \/ c.kind = "dir" /\ c.path \in ParentsOf(e[1])
    BY <1>4 DEF Awaits
  <2>3. c.path \in ParentsOf(e[1]) => c.path[1] = e[1][1]
    BY <2>1, ParentsFacts
  <2>4. QED
    BY <2>1, <2>2, <2>3
<1>5. CASE Hidden(c.path)
  <2> DEFINE next == [s EXCEPT !.todo = s.todo \ {c}]
  <2>1. Step(p, next)
    BY <1>2, <1>5
  <2>2. /\ Shaped(next) /\ next.op = s.op /\ next.at = s.at /\ next.always = s.always
        /\ next.out = s.out /\ next.ever = s.ever /\ next.todo = s.todo \ {c}
    <3> HIDE DEF s
    <3>1. QED
      BY <1>1 DEF Shaped, Fields
  <2> HIDE DEF next
  <2>3. \A e \in Contents : Awaits({c}, e[1]) => Hidden(e[1])
    BY <1>4, <1>5 DEF Hidden
  <2>4. QED
    BY <1>1, <1>3, <2>1, <2>2, <2>3, VisitKept
<1>6. CASE ~Hidden(c.path) /\ c.kind = "file"
  <2> DEFINE out == IF c.path \notin Held THEN s.out
                    ELSE s.out \cup {Ref(IF Len(c.path) = 3 THEN c.path[1] ELSE None,
                                         files[c.path].name, files[c.path].tag)}
             next == [s EXCEPT !.todo = s.todo \ {c}, !.out = out]
  <2>1. Step(p, next)
    BY <1>2, <1>6
  <2>2. /\ Shaped(next) /\ next.op = s.op /\ next.at = s.at /\ next.always = s.always
        /\ next.out = out /\ next.ever = s.ever /\ next.todo = s.todo \ {c}
    <3> HIDE DEF s, out
    <3>1. QED
      BY <1>1 DEF Shaped, Fields
  <2>3. out = IF c.path \in Held THEN s.out \cup {RefOf(c.path)} ELSE s.out
    <3>1. c.path \in Held => /\ files[c.path].name = c.path[Len(c.path) - 1]
                             /\ files[c.path].tag = Front(c.path[Len(c.path)])
      BY ContentsFacts DEF Fitting
    <3>2. QED
      BY <3>1 DEF RefOf
  <2> HIDE DEF next, out
  <2>4. out \subseteq {RefOf(e[1]) : e \in s.ever}
    <3>1. ASSUME c.path \in Held PROVE \E e \in s.ever : e[1] = c.path
      <4> DEFINE e == << c.path, files[c.path] >>
      <4>1. e \in s.ever /\ e[1] = c.path
        BY <1>1, <3>1, ContentsFacts DEF HistoryInv
      <4> HIDE DEF e
      <4>2. QED
        BY <4>1
    <3>2. QED
      BY <1>3, <2>3, <3>1
  <2>5. ASSUME NEW e \in Contents, Awaits({c}, e[1]) PROVE RefOf(e[1]) \in out
    <3>1. c.path = e[1] /\ c.path \in Held
      BY <1>4, <1>6, <2>5
    <3>2. QED
      BY <2>3, <3>1
  <2>6. s.out \subseteq out
    BY <2>3
  <2>7. QED
    BY <1>1, <2>1, <2>2, <2>4, <2>5, <2>6, VisitKept
<1>7. CASE ~Hidden(c.path) /\ c.kind # "file" /\ c.path \notin dirs
  <2>1. Fails(p)
    BY <1>2, <1>7
  <2>2. QED
    BY <1>1, <2>1, FailsKept
<1>8. CASE ~Hidden(c.path) /\ c.kind # "file" /\ c.path \in dirs
  <2> DEFINE next == [s EXCEPT !.todo = (s.todo \ {c}) \cup Listed(c.path)]
  <2>1. Step(p, next)
    BY <1>2, <1>8
  <2>2. /\ Shaped(next) /\ next.op = s.op /\ next.at = s.at /\ next.always = s.always
        /\ next.out = s.out /\ next.ever = s.ever /\ next.todo = (s.todo \ {c}) \cup Listed(c.path)
    <3> HIDE DEF s
    <3>1. QED
      BY <1>1 DEF Shaped, Fields
  <2> HIDE DEF next
  <2>3. ASSUME NEW e \in Contents, Awaits({c}, e[1]) PROVE Awaits(next.todo, e[1])
    <3>1. Awaits(Listed(c.path), e[1])
      BY <1>4, <1>8, <2>3, ListedFacts
    <3>2. QED
      BY <2>2, <3>1 DEF Awaits
  <2>4. QED
    BY <1>1, <1>3, <2>1, <2>2, <2>3, VisitKept
<1>9. QED
  BY <1>5, <1>6, <1>7, <1>8

\* Nothing is left to visit.
LEMMA ListEndsKept == ASSUME LibraryInv, NEW p \in Processes, ListEnds(p) PROVE LibraryInv'
<1> DEFINE s == proc[p]
           next == [s EXCEPT !.at = "done"]
<1>1. /\ Shaped(s) /\ Kept(s) /\ s.op = "list" /\ s.at = "walk" /\ s.todo = {} /\ Unchanged
      /\ Step(p, next)
  BY OfProcess DEF ListEnds, Goto
<1>2. /\ Shaped(next) /\ next.op = s.op /\ next.at = "done" /\ next.always = s.always
      /\ next.out = s.out /\ next.ever = s.ever /\ next.todo = s.todo
  <2> HIDE DEF s
  <2>1. QED
    BY <1>1 DEF Shaped, Fields
<1> HIDE DEF next
<1>3. Kept(next)
  BY <1>1, <1>2 DEF Kept, PlaceInv, AddInv, SearchInv, WalkInv
<1>4. \A d \in dirs : ~Excuses(s, d)
  BY <1>1 DEF Excuses
<1>5. QED
  BY <1>1, <1>2, <1>3, <1>4, QuietStep

(***************************************************************************)
(* Pushing.                                                                *)
(***************************************************************************)
\* A push reads the file it found.
LEMMA PushKept ==
    ASSUME LibraryInv, NEW p \in Processes, Stat(p) \/ Upload(p)
    PROVE  LibraryInv'
<1> DEFINE s == proc[p]
<1>1. Shaped(s) /\ s.op = "push" /\ s.at \in {"stat", "upload"} /\ Unchanged
  BY OfProcess DEF Stat, Upload
<1>2. CASE Fails(p)
  BY <1>1, <1>2, FailsKept
<1>3. ASSUME NEW next, Shaped(next), next.op = "push", next.at \in {"upload", "done"}, Step(p, next)
      PROVE  LibraryInv'
  <2>1. Kept(next)
    BY <1>3 DEF Kept, PlaceInv, AddInv, SearchInv, WalkInv
  <2>2. \A d \in dirs : ~Excuses(s, d)
    BY <1>1 DEF Excuses
  <2>3. QED
    BY <1>1, <1>3, <2>1, <2>2, QuietStep
<1>4. CASE Stat(p) /\ ~Fails(p)
  <2> DEFINE next == [s EXCEPT !.at = "upload", !.size = files[s.path].size]
  <2>1. Step(p, next)
    BY <1>4 DEF Stat
  <2>2. Shaped(next) /\ next.op = "push" /\ next.at = "upload"
    BY <1>1 DEF Shaped, Fields
  <2> HIDE DEF next
  <2>3. QED
    BY <1>3, <2>1, <2>2
<1>5. CASE Upload(p) /\ ~Fails(p)
  <2> DEFINE next == [s EXCEPT !.at = "done", !.image = files[s.path]]
  <2>1. Step(p, next)
    BY <1>5 DEF Upload
  <2>2. Shaped(next) /\ next.op = "push" /\ next.at = "done"
    BY <1>1 DEF Shaped, Fields
  <2> HIDE DEF next
  <2>3. QED
    BY <1>3, <2>1, <2>2
<1>6. QED
  BY <1>2, <1>4, <1>5

(***************************************************************************)
(* Steps that change the tree.                                             *)
(***************************************************************************)
\* A directory made for an image is excused by the command that made it.
LEMMA MakeDirKept == ASSUME LibraryInv, NEW p \in Processes, MakeDir(p) PROVE LibraryInv'
<1> DEFINE s == proc[p]
           missing == {d \in AncestorsAndSelf(Parent(s.path)) : d \notin dirs}
<1>1. /\ Shaped(s) /\ Kept(s) /\ s.op = "add" /\ s.at = "mkdir" /\ files' = files
      /\ s.path \in Paths /\ s.path \in Path /\ Len(s.path) \in {2, 3}
  BY OfProcess, PathsFacts DEF MakeDir, Kept, AddInv
<1>2. ASSUME NEW d \in missing
      PROVE  /\ d \in ParentsOf(s.path) /\ d \notin dirs /\ d \in Dirs /\ d \in Path
             /\ \A u \in ParentsOf(d) : u \in AncestorsAndSelf(Parent(s.path)) /\ Len(u) < Len(d)
  <2> DEFINE parent == Parent(s.path)
  <2>1. Len(s.path) > 1
    <3>1. \A n \in {2, 3} : n > 1
      OBVIOUS
    <3>2. QED
      BY <1>1, <3>1, Zenon
  <2>2. /\ parent \in Path /\ parent \in ParentsOf(s.path)
        /\ ParentsOf(s.path) = ParentsOf(parent) \cup {parent}
    BY <1>1, <2>1, ParentFacts
  <2>3. Len(parent) \in Nat /\ Len(parent) >= 1 /\ SubSeq(parent, 1, Len(parent)) = parent
    <3>1. Len(s.path) \in Nat
      BY <1>1 DEF Path
    <3>4. Len(s.path) >= 1
      BY <2>1, <3>1
    <3>5. Len(parent) = Len(s.path) - 1
      BY <1>1, <3>4, ParentFacts
    <3>2. Len(parent) \in Nat /\ Len(parent) >= 1
      BY <2>1, <3>1, <3>5
    <3>3. QED
      BY <2>2, <3>2, PrefixFacts
  <2>4. AncestorsAndSelf(parent) = ParentsOf(s.path)
    <3>1. parent \in AncestorsAndSelf(parent)
      <4>1. Len(parent) \in 1..Len(parent)
        BY <2>3
      <4>2. QED
        BY <2>3, <4>1 DEF AncestorsAndSelf
    <3>2. ParentsOf(parent) \cup {parent} = AncestorsAndSelf(parent)
      BY <3>1 DEF ParentsOf
    <3>3. QED
      BY <2>2, <3>2
  <2> HIDE DEF parent
  <2>5. d \in ParentsOf(s.path) /\ d \notin dirs /\ d \in Dirs
    BY <1>1, <2>4 DEF parent, Dirs
  <2>6. d \in Path /\ ParentsOf(d) \subseteq ParentsOf(s.path)
    BY <1>1, <2>5, ParentsFacts
  <2>7. \A u \in ParentsOf(d) : Len(u) < Len(d)
    <3>1. Len(d) \in Nat /\ \A u \in ParentsOf(d) : Len(u) \in 1..Len(d) - 1
      BY <2>6, ParentsFacts DEF Path
    <3>2. QED
      BY <3>1
  <2>8. QED
    BY <2>4, <2>5, <2>6, <2>7 DEF parent
<1>3. CASE missing = {}
  <2> DEFINE next == [s EXCEPT !.at = "rename"]
  <2>1. Unchanged /\ Step(p, next)
    BY <1>1, <1>3 DEF MakeDir, Goto, Unchanged
  <2>2. /\ Shaped(next) /\ next.op = "add" /\ next.at = "rename" /\ next.path = s.path
        /\ next.image = s.image
    <3> HIDE DEF s
    <3>1. QED
      BY <1>1 DEF Shaped, Fields
  <2> HIDE DEF next, missing
  <2>3. Kept(next)
    BY <1>1, <2>2 DEF Kept, PlaceInv, AddInv, SearchInv, WalkInv
  <2>4. \A d \in dirs : Children(d) = {} /\ Excuses(proc[p], d) => Excuses(next, d)
    BY <1>1, <2>2 DEF Excuses
  <2>5. QED
    BY <2>1, <2>2, <2>3, <2>4, QuietStep
<1>4. CASE missing # {}
  <2>1. PICK d \in missing :
          /\ \A other \in missing : Len(d) <= Len(other)
          /\ IF d \in s.todo \cup Held
             THEN UNCHANGED dirs /\ Fails(p)
             ELSE dirs' = dirs \cup {d} /\ Step(p, [s EXCEPT !.todo = @ \cup {d}])
    BY <1>4 DEF MakeDir
  <2>2. /\ d \in ParentsOf(s.path) /\ d \notin dirs /\ d \in Dirs /\ d \in Path
        /\ ParentsOf(d) \subseteq dirs
    <3>1. ASSUME NEW u \in ParentsOf(d) PROVE u \in dirs
      <4>1. u \in AncestorsAndSelf(Parent(s.path)) /\ Len(u) < Len(d)
        BY <1>2
      <4>2. Len(u) \in Nat /\ Len(d) \in Nat
        BY <1>2, ParentsFacts DEF Path
      <4>3. u \notin missing
        BY <2>1, <4>1, <4>2
      <4>4. QED
        BY <4>1, <4>3
    <3>2. QED
      BY <1>2, <3>1
  <2>3. CASE d \in s.todo \cup Held
    BY <1>1, <2>1, <2>3, FailsKept DEF Unchanged
  <2>4. CASE d \notin s.todo \cup Held
    <3> DEFINE next == [s EXCEPT !.todo = @ \cup {d}]
    <3>1. dirs' = dirs \cup {d} /\ Step(p, next)
      BY <2>1, <2>4
    <3>2. /\ Shaped(next) /\ next.op = "add" /\ next.at = "mkdir" /\ next.path = s.path
          /\ next.image = s.image
      <4> HIDE DEF s
      <4>1. QED
        BY <1>1 DEF Shaped, Fields
    <3> HIDE DEF next, missing
    <3>3. Kept(next)
      BY <1>1, <3>2 DEF Kept, PlaceInv, AddInv, SearchInv, WalkInv
    <3>4. /\ ProcInv' /\ proc'[p].op = "add" /\ proc'[p].at = "mkdir" /\ proc'[p].path = s.path
          /\ \A q \in Processes \ {p} : /\ proc'[q].op = proc[q].op /\ proc'[q].at = proc[q].at
                                        /\ proc'[q].path = proc[q].path
      BY <3>1, <3>2, <3>3, ProcStep DEF LibraryInv
    <3>5. Held' = Held /\ Tree' = Tree \cup {d}
      BY <1>1, <3>1 DEF Held, Tree
    <3>6. TreeInv'
      <4>1. /\ files = [q \in Paths |-> files[q]] /\ \A q \in Held : Fitting(q, files[q])
            /\ dirs \subseteq Dirs /\ dirs \cap Held = {}
            /\ \A t \in Tree : ParentsOf(t) \subseteq dirs
        BY DEF LibraryInv, TreeInv
      <4>2. QED
        BY <1>1, <2>2, <2>4, <3>1, <3>5, <4>1 DEF TreeInv
    <3>7. LeafInv'
      <4> SUFFICES ASSUME NEW x \in dirs', Children(x)' = {}
                   PROVE  \E q \in Processes : Excuses(proc'[q], x)
        BY DEF LeafInv
      <4>1. CASE x = d
        BY <2>2, <3>4, <4>1 DEF Excuses
      <4>2. CASE x # d
        <5>1. x \in dirs /\ Children(x) = {}
          BY <3>1, <3>5, <4>2 DEF Children
        <5>2. PICK q \in Processes : Excuses(proc[q], x)
          BY <5>1 DEF LibraryInv, LeafInv
        <5>3. Excuses(proc'[q], x)
          BY <1>1, <3>4, <5>2 DEF Excuses
        <5>4. QED
          BY <5>3
      <4>3. QED
        BY <4>1, <4>2
    <3>8. QED
      BY <3>4, <3>6, <3>7 DEF LibraryInv
  <2>5. QED
    BY <2>3, <2>4
<1>5. QED
  BY <1>3, <1>4

\* The image fills all the directories above it.
LEMMA RenameKept == ASSUME LibraryInv, NEW p \in Processes, Rename(p) PROVE LibraryInv'
<1> DEFINE s == proc[p]
           path == s.path
<1>1. /\ Shaped(s) /\ Kept(s) /\ s.op = "add" /\ s.at = "rename" /\ dirs' = dirs
      /\ path \in Paths /\ path \in Path /\ Len(path) \in {2, 3} /\ Fitting(path, s.image)
  BY OfProcess, PathsFacts DEF Rename, Kept, AddInv
<1>2. CASE ~(Parent(path) \in dirs /\ path \notin dirs)
  <2>1. Unchanged /\ Fails(p)
    BY <1>1, <1>2 DEF Rename, Unchanged
  <2>2. QED
    BY <1>1, <2>1, FailsKept
<1>3. CASE Parent(path) \in dirs /\ path \notin dirs
  <2> DEFINE next == [s EXCEPT !.at = "done"]
  <2>1. files' = [files EXCEPT ![path] = s.image] /\ Step(p, next)
    BY <1>3 DEF Rename, Goto
  <2>2. /\ Shaped(next) /\ next.op = "add" /\ next.at = "done" /\ next.path = path
        /\ next.image = s.image
    <3> HIDE DEF s
    <3>1. QED
      BY <1>1 DEF Shaped, Fields
  <2> HIDE DEF next
  <2>3. Kept(next)
    BY <1>1, <2>2 DEF Kept, PlaceInv, AddInv, SearchInv, WalkInv
  <2>4. /\ ProcInv' /\ proc'[p].op = "add" /\ proc'[p].at = "done"
        /\ \A q \in Processes \ {p} : /\ proc'[q].op = proc[q].op /\ proc'[q].at = proc[q].at
                                      /\ proc'[q].path = proc[q].path
    BY <2>1, <2>2, <2>3, ProcStep DEF LibraryInv
  <2>5. /\ files = [q \in Paths |-> files[q]] /\ \A q \in Held : Fitting(q, files[q])
        /\ dirs \subseteq Dirs /\ dirs \cap Held = {}
        /\ \A t \in Tree : ParentsOf(t) \subseteq dirs
    BY DEF LibraryInv, TreeInv
  <2>6. /\ files' = [q \in Paths |-> files'[q]] /\ files'[path] = s.image
        /\ \A q \in Paths \ {path} : files'[q] = files[q]
    BY <1>1, <2>1, <2>5
  <2>7. s.image # NoImage
    BY <1>1 DEF Fitting, SomeImages
  <2> HIDE DEF path, s
  <2>8. Held' = Held \cup {path} /\ Tree' = Tree \cup {path}
    <3>1. Held' = Held \cup {path}
      BY <1>1, <2>6, <2>7 DEF Held
    <3>2. QED
      BY <1>1, <3>1 DEF Tree
  <2>9. ParentsOf(path) \subseteq dirs
    <3>1. Len(path) >= 1 /\ Len(path) > 1
      <4>1. \A n \in {2, 3} : n >= 1 /\ n > 1
        OBVIOUS
      <4>2. QED
        BY <1>1, <4>1, Zenon
    <3>2. ParentsOf(path) = ParentsOf(Parent(path)) \cup {Parent(path)}
      BY <1>1, <3>1, ParentFacts
    <3>3. ParentsOf(Parent(path)) \subseteq dirs
      BY <1>3, <2>5 DEF Tree
    <3>4. QED
      BY <1>3, <3>2, <3>3
  <2>10. TreeInv'
    <3>1. \A q \in Held' : Fitting(q, files'[q])
      BY <1>1, <2>5, <2>6, <2>8 DEF Held
    <3>2. QED
      BY <1>1, <1>3, <2>5, <2>6, <2>8, <2>9, <3>1 DEF TreeInv, path, s
  <2>11. LeafInv'
    <3> SUFFICES ASSUME NEW x \in dirs', Children(x)' = {}
                 PROVE  \E q \in Processes : Excuses(proc'[q], x)
      BY DEF LeafInv
    <3>1. x \in dirs /\ Children(x) = {}
      BY <1>1, <2>8 DEF Children
    <3>2. PICK q \in Processes : Excuses(proc[q], x)
      BY <3>1 DEF LibraryInv, LeafInv
    <3>3. CASE q # p
      BY <2>4, <3>2, <3>3 DEF Excuses
    <3>4. CASE q = p
      <4>1. x \in ParentsOf(path)
        BY <1>1, <3>2, <3>4 DEF Excuses, path, s
      <4> DEFINE v == SubSeq(path, 1, Len(x) + 1)
      <4>2. Parent(v) = x /\ Len(v) = Len(x) + 1 /\ (v = path \/ v \in ParentsOf(path))
        BY <1>1, <4>1, NextPart
      <4> HIDE DEF v
      <4>3. v \in Tree'
        BY <2>8, <2>9, <4>2 DEF Tree
      <4>4. QED
        BY <4>2, <4>3 DEF Children
    <3>5. QED
      BY <3>3, <3>4
  <2>12. QED
    BY <2>4, <2>10, <2>11 DEF LibraryInv
<1>4. QED
  BY <1>2, <1>3

\* The directory an image is deleted from is excused by the command that deleted it.
LEMMA RemoveFileKept == ASSUME LibraryInv, NEW p \in Processes, RemoveFile(p) PROVE LibraryInv'
<1> DEFINE s == proc[p]
           path == image_path(s.ref)
<1>1. Shaped(s) /\ Kept(s) /\ s.op = "delete" /\ s.at = "remove" /\ dirs' = dirs
  BY OfProcess DEF RemoveFile
<1>2. CASE path \notin Held
  <2>1. Unchanged /\ Fails(p)
    BY <1>1, <1>2 DEF RemoveFile, Unchanged
  <2>2. QED
    BY <1>1, <2>1, FailsKept
<1>3. CASE path \in Held
  <2> DEFINE next == [s EXCEPT !.at = "prune", !.path = Parent(path)]
  <2>1. files' = [files EXCEPT ![path] = NoImage] /\ Step(p, next)
    BY <1>3 DEF RemoveFile
  <2> HIDE DEF path
  <2>2. Shaped(next) /\ next.op = "delete" /\ next.at = "prune" /\ next.path = Parent(path)
    <3> HIDE DEF s
    <3>1. QED
      BY <1>1 DEF Shaped, Fields
  <2> HIDE DEF next
  <2>3. Kept(next)
    BY <2>2 DEF Kept, PlaceInv, AddInv, SearchInv, WalkInv
  <2>4. /\ ProcInv' /\ proc'[p].op = "delete" /\ proc'[p].at = "prune"
        /\ proc'[p].path = Parent(path)
        /\ \A q \in Processes \ {p} : /\ proc'[q].op = proc[q].op /\ proc'[q].at = proc[q].at
                                      /\ proc'[q].path = proc[q].path
    BY <2>1, <2>2, <2>3, ProcStep DEF LibraryInv
  <2>5. /\ files = [q \in Paths |-> files[q]] /\ \A q \in Held : Fitting(q, files[q])
        /\ dirs \subseteq Dirs /\ dirs \cap Held = {}
        /\ \A t \in Tree : ParentsOf(t) \subseteq dirs
    BY DEF LibraryInv, TreeInv
  <2>6. /\ files' = [q \in Paths |-> files'[q]] /\ files'[path] = NoImage
        /\ \A q \in Paths \ {path} : files'[q] = files[q]
    BY <1>3, <2>1, <2>5 DEF Held
  <2>7. Held' = Held \ {path} /\ Tree' \subseteq Tree /\ Tree \subseteq Tree' \cup {path}
    <3>1. Held' = Held \ {path}
      BY <2>6 DEF Held
    <3>2. QED
      BY <1>1, <3>1 DEF Tree
  <2>8. TreeInv'
    <3>1. \A q \in Held' : Fitting(q, files'[q])
      BY <2>5, <2>6, <2>7 DEF Held
    <3>2. QED
      BY <1>1, <2>5, <2>6, <2>7, <3>1 DEF TreeInv
  <2>9. LeafInv'
    <3> SUFFICES ASSUME NEW x \in dirs', Children(x)' = {}
                 PROVE  \E q \in Processes : Excuses(proc'[q], x)
      BY DEF LeafInv
    <3>1. CASE Children(x) = {}
      <4>1. PICK q \in Processes : Excuses(proc[q], x)
        BY <1>1, <3>1 DEF LibraryInv, LeafInv
      <4>2. q # p
        BY <1>1, <4>1 DEF Excuses
      <4>3. QED
        BY <2>4, <4>1, <4>2 DEF Excuses
    <3>2. CASE Children(x) # {}
      <4>1. Parent(path) = x
        BY <2>7, <3>2 DEF Children
      <4>2. QED
        BY <2>4, <4>1 DEF Excuses
    <3>3. QED
      BY <3>1, <3>2
  <2>10. QED
    BY <2>4, <2>8, <2>9 DEF LibraryInv
<1>4. QED
  BY <1>2, <1>3

\* A directory is removed when nothing is in it, and its own directory is looked at next.
LEMMA PruneKept ==
    ASSUME LibraryInv, NEW p \in Processes, prune_empty_parents(p)
    PROVE  LibraryInv'
<1> DEFINE s == proc[p]
           dir == s.path
<1>1. Shaped(s) /\ Kept(s) /\ s.op = "delete" /\ s.at = "prune" /\ files' = files
  BY OfProcess DEF prune_empty_parents, PruneExcept
<1>2. CASE dir \notin dirs \ InUse
  <2> DEFINE next == [s EXCEPT !.at = "done"]
  <2>1. Unchanged /\ Step(p, next)
    BY <1>1, <1>2 DEF prune_empty_parents, PruneExcept, Goto, Unchanged
  <2>2. Shaped(next) /\ next.op = "delete" /\ next.at = "done"
    <3> HIDE DEF s
    <3>1. QED
      BY <1>1 DEF Shaped, Fields
  <2> HIDE DEF next
  <2>3. Kept(next)
    BY <2>2 DEF Kept, PlaceInv, AddInv, SearchInv, WalkInv
  <2>4. \A d \in dirs : Children(d) = {} => ~Excuses(proc[p], d)
    BY <1>1, <1>2 DEF Excuses, InUse
  <2>5. QED
    BY <2>1, <2>2, <2>3, <2>4, QuietStep
<1>3. CASE dir \in dirs \ InUse
  <2> DEFINE next == [s EXCEPT !.path = Parent(dir)]
  <2>1. dirs' = dirs \ {dir} /\ Step(p, next)
    BY <1>3 DEF prune_empty_parents, PruneExcept
  <2> HIDE DEF dir
  <2>2. Shaped(next) /\ next.op = "delete" /\ next.at = "prune" /\ next.path = Parent(dir)
    <3> HIDE DEF s
    <3>1. QED
      BY <1>1 DEF Shaped, Fields
  <2> HIDE DEF next
  <2>3. Kept(next)
    BY <2>2 DEF Kept, PlaceInv, AddInv, SearchInv, WalkInv
  <2>4. /\ ProcInv' /\ proc'[p].op = "delete" /\ proc'[p].at = "prune"
        /\ proc'[p].path = Parent(dir)
        /\ \A q \in Processes \ {p} : /\ proc'[q].op = proc[q].op /\ proc'[q].at = proc[q].at
                                      /\ proc'[q].path = proc[q].path
    BY <2>1, <2>2, <2>3, ProcStep DEF LibraryInv
  <2>5. /\ files = [q \in Paths |-> files[q]] /\ \A q \in Held : Fitting(q, files[q])
        /\ dirs \subseteq Dirs /\ dirs \cap Held = {}
        /\ \A t \in Tree : ParentsOf(t) \subseteq dirs
    BY DEF LibraryInv, TreeInv
  <2>6. dir \in dirs /\ Children(dir) = {} /\ dir \notin Held
    BY <1>3, <2>5 DEF InUse
  <2>7. Held' = Held /\ Tree' = Tree \ {dir}
    <3>1. Held' = Held /\ dir \notin Held
      BY <1>1, <2>6 DEF Held
    <3>2. QED
      BY <2>1, <3>1 DEF Tree
  <2>8. ASSUME NEW t \in Tree PROVE dir \notin ParentsOf(t)
    <3> SUFFICES ASSUME dir \in ParentsOf(t) PROVE FALSE
      OBVIOUS
    <3>1. t \in Path
      BY <2>5, PathsFacts DEF Tree, Held
    <3> DEFINE v == SubSeq(t, 1, Len(dir) + 1)
    <3>2. Parent(v) = dir /\ Len(v) = Len(dir) + 1 /\ (v = t \/ v \in ParentsOf(t))
      BY <3>1, NextPart
    <3> HIDE DEF v
    <3>3. v \in Tree
      BY <2>5, <3>2 DEF Tree
    <3>4. QED
      BY <2>6, <3>2, <3>3 DEF Children
  <2>9. TreeInv'
    BY <1>1, <2>1, <2>5, <2>7, <2>8 DEF TreeInv
  <2>10. LeafInv'
    <3> SUFFICES ASSUME NEW x \in dirs', Children(x)' = {}
                 PROVE  \E q \in Processes : Excuses(proc'[q], x)
      BY DEF LeafInv
    <3>1. x \in dirs /\ x # dir
      BY <2>1
    <3>2. CASE Children(x) = {}
      <4>1. PICK q \in Processes : Excuses(proc[q], x)
        BY <3>1, <3>2 DEF LibraryInv, LeafInv
      <4>2. q # p
        BY <1>1, <3>1, <4>1 DEF Excuses, dir
      <4>3. QED
        BY <2>4, <4>1, <4>2 DEF Excuses
    <3>3. CASE Children(x) # {}
      <4>1. Parent(dir) = x
        BY <2>7, <3>3 DEF Children
      <4>2. QED
        BY <2>4, <4>1 DEF Excuses
    <3>4. QED
      BY <3>2, <3>3
  <2>11. QED
    BY <2>4, <2>9, <2>10 DEF LibraryInv
<1>4. QED
  BY <1>2, <1>3

(***************************************************************************)
(* The library.                                                            *)
(***************************************************************************)
\* A library as it is found.
LEMMA LibraryInitially == ASSUME Init PROVE LibraryInv
<1>1. PICK s \in Stored :
        /\ files = [q \in Paths |->
             IF \E e \in s : image_path(e[1]) = q
             THEN (CHOOSE e \in s : image_path(e[1]) = q)[2] ELSE NoImage]
        /\ dirs = UNION {ParentsOf(image_path(e[1])) : e \in s}
  BY DEF Init
<1>2. \A e \in s : /\ e \in Entries /\ image_path(e[1]) \in Paths /\ image_path(e[1]) \in Path
                   /\ Fitting(image_path(e[1]), e[2]) /\ e[2] # NoImage
  <2>1. ASSUME NEW e \in s
        PROVE  /\ e \in Entries /\ e \in UNION Stored /\ e[2] \in SomeImages
               /\ e[2].name = e[1].name /\ e[2].tag = e[1].tag
    <3>1. e \in Entries /\ e \in UNION Stored
      BY DEF Entries
    <3>2. QED
      BY <3>1, LibraryAssumption DEF Entries, SomeImages
  <2>2. QED
    BY <2>1, EntryFacts DEF Fitting, SomeImages
<1>3. Held = {image_path(e[1]) : e \in s} /\ \A q \in Held : Fitting(q, files[q])
  <2>1. ASSUME NEW e \in s
        PROVE  files[image_path(e[1])] # NoImage /\ Fitting(image_path(e[1]), files[image_path(e[1])])
    <3> DEFINE q == image_path(e[1])
               f == CHOOSE f \in s : image_path(f[1]) = q
    <3> HIDE DEF q
    <3>1. q \in Paths /\ \E g \in s : image_path(g[1]) = q
      BY <1>2 DEF q
    <3>2. f \in s /\ image_path(f[1]) = q
      BY <3>1
    <3>3. files[q] = f[2]
      BY <1>1, <3>1
    <3>4. Fitting(q, f[2]) /\ f[2] # NoImage
      BY <1>2, <3>2
    <3>5. QED
      BY <3>3, <3>4 DEF q
  <2>2. \A q \in Paths : files[q] # NoImage => \E e \in s : image_path(e[1]) = q
    BY <1>1
  <2>3. Held = {image_path(e[1]) : e \in s}
    BY <1>2, <2>1, <2>2 DEF Held
  <2>4. QED
    BY <2>1, <2>3
<1>4. \A t \in Held : ParentsOf(t) \subseteq dirs
  BY <1>1, <1>3
<1>5. \A d \in dirs : \E t \in Held : t \in Path /\ t \in Paths /\ d \in ParentsOf(t)
  BY <1>1, <1>2, <1>3
<1>6. TreeInv
  <2>1. files = [q \in Paths |-> files[q]]
    BY <1>1
  <2>2. dirs \subseteq Dirs
    BY <1>5 DEF Dirs
  <2>3. ASSUME NEW d \in dirs PROVE ParentsOf(d) \subseteq dirs
    <3>1. PICK t \in Held : t \in Path /\ d \in ParentsOf(t)
      BY <1>5
    <3>2. ParentsOf(d) \subseteq ParentsOf(t)
      BY <3>1, ParentsFacts
    <3>3. QED
      BY <1>4, <3>2
  <2>4. dirs \cap Held = {}
    BY <1>1, <1>3, LibraryAssumption
  <2>5. QED
    BY <1>3, <1>4, <2>1, <2>2, <2>3, <2>4 DEF TreeInv, Tree
<1>7. LeafInv
  <2>1. ASSUME NEW d \in dirs PROVE Children(d) # {}
    <3>1. PICK t \in Held : t \in Path /\ d \in ParentsOf(t)
      BY <1>5
    <3> DEFINE v == SubSeq(t, 1, Len(d) + 1)
    <3>2. Parent(v) = d /\ Len(v) = Len(d) + 1 /\ (v = t \/ v \in ParentsOf(t))
      BY <3>1, NextPart
    <3> HIDE DEF v
    <3>3. v \in Tree
      BY <1>4, <3>1, <3>2 DEF Tree
    <3>4. QED
      BY <3>2, <3>3 DEF Children
  <2>2. QED
    BY <2>1 DEF LeafInv
<1>8. ProcInv
  <2>1. proc = [q \in Processes |-> Idle]
    BY DEF Init
  <2>2. Idle.op = "idle" /\ Idle.at = "done"
    BY DEF Idle
  <2>3. Kept(Idle) /\ HistoryInv(Idle)
    BY <2>2 DEF Kept, HistoryInv, PlaceInv, AddInv, SearchInv, WalkInv
  <2>4. QED
    BY <2>1, <2>3, IdleShaped DEF ProcInv
<1>9. QED
  BY <1>6, <1>7, <1>8 DEF LibraryInv

\* Every step of every command keeps the invariant.
LEMMA LibraryStep == ASSUME LibraryInv, [Next]_vars PROVE LibraryInv'
<1>1. CASE UNCHANGED vars
  BY <1>1 DEF vars, LibraryInv, TreeInv, ProcInv, LeafInv, HistoryInv, Held, Tree, Children, Contents
<1>2. CASE Next
  <2>1. PICK p \in Processes :
          \/ Build(p) \/ Pull(p) \/ Search(p) \/ Push(p) \/ List(p)
          \/ MakeDir(p) \/ Rename(p)
          \/ Find(p) \/ Scan(p) \/ ScanEnds(p)
          \/ RemoveFile(p) \/ prune_empty_parents(p)
          \/ Walk(p) \/ ListEnds(p)
          \/ Stat(p) \/ Upload(p)
    BY <1>2 DEF Next
  <2>2. CASE Build(p) \/ Pull(p)
    BY <2>2, StartAddKept
  <2>3. CASE Search(p) \/ Push(p)
    BY <2>3, StartSearchKept
  <2>4. CASE List(p) \/ Walk(p) \/ ListEnds(p)
    BY <2>4, ListKept, WalkKept, ListEndsKept
  <2>5. CASE MakeDir(p) \/ Rename(p)
    BY <2>5, MakeDirKept, RenameKept
  <2>6. CASE Find(p) \/ Scan(p) \/ ScanEnds(p)
    BY <2>6, FindKept, ScanKept, ScanEndsKept
  <2>7. CASE RemoveFile(p) \/ prune_empty_parents(p)
    BY <2>7, RemoveFileKept, PruneKept
  <2>8. CASE Stat(p) \/ Upload(p)
    BY <2>8, PushKept
  <2>9. QED
    BY <2>1, <2>2, <2>3, <2>4, <2>5, <2>6, <2>7, <2>8
<1>3. QED
  BY <1>1, <1>2

\* The invariant holds throughout.
LEMMA LibraryAlways == Spec => []LibraryInv
<1>1. Init => LibraryInv
  BY LibraryInitially
<1>2. LibraryInv /\ [Next]_vars => LibraryInv'
  BY LibraryStep
<1>3. QED
  BY <1>1, <1>2, PTL DEF Spec

\* A directory that is no leaf of the tree has an image somewhere below it.
LEMMA ImageBelow ==
    ASSUME LibraryInv, \A d \in dirs : Children(d) # {}, NEW d \in dirs
    PROVE  \E path \in Held : d \in ParentsOf(path)
<1>1. \A t \in Tree : t \in Path /\ ParentsOf(t) \subseteq dirs /\ (t \in dirs \/ t \in Held)
  BY PathsFacts DEF LibraryInv, TreeInv, Tree, Held
<1>2. \A x \in dirs : x \in Path /\ Len(x) \in {1, 2}
  BY PathsFacts DEF LibraryInv, TreeInv
<1>3. ASSUME NEW x \in dirs, NEW c \in Children(x)
      PROVE  c \in Tree /\ c \in Path /\ Len(c) = Len(x) + 1 /\ x \in ParentsOf(c)
  <2>1. c \in Tree /\ c \in Path /\ Len(c) = Len(x) + 1 /\ Parent(c) = x
    BY <1>1 DEF Children
  <2>2. Len(c) > 1 /\ Len(c) >= 1
    <3>1. \A n \in {1, 2} : n + 1 > 1 /\ n + 1 >= 1
      OBVIOUS
    <3>2. Len(x) \in {1, 2}
      BY <1>2
    <3>3. QED
      BY <2>1, <3>1, <3>2, Zenon
  <2>3. QED
    BY <2>1, <2>2, ParentFacts
<1>4. PICK c \in Children(d) : TRUE
  OBVIOUS
<1>5. CASE c \in Held
  BY <1>3, <1>5
<1>6. CASE c \in dirs
  <2>1. PICK h \in Children(c) : TRUE
    BY <1>6
  <2>2. h \in Tree /\ h \in Path /\ Len(h) = Len(c) + 1 /\ c \in ParentsOf(h)
    BY <1>3, <1>6
  <2>3. Len(c) = Len(d) + 1 /\ d \in ParentsOf(c)
    BY <1>3
  <2>4. h \notin dirs
    <3>1. \A m, n \in {1, 2} : n = m + 1 => n + 1 \notin {1, 2}
      OBVIOUS
    <3>2. Len(d) \in {1, 2} /\ Len(c) \in {1, 2}
      BY <1>2, <1>6
    <3>3. Len(h) \notin {1, 2}
      BY <2>2, <2>3, <3>1, <3>2, Zenon
    <3>4. QED
      BY <1>2, <3>3
  <2>5. h \in Held
    BY <1>1, <2>2, <2>4
  <2>6. d \in ParentsOf(h)
    BY <2>2, <2>3, ParentsFacts
  <2>7. QED
    BY <2>5, <2>6
<1>7. QED
  BY <1>1, <1>3, <1>4, <1>5, <1>6

\* What the invariant says of the tree.
LEMMA TreeFollows == ASSUME LibraryInv PROVE TreeIsSound
<1>1. TypeOK
  <2>1. DOMAIN files = Paths /\ \A t \in Tree : ParentsOf(t) \subseteq dirs
    BY DEF LibraryInv, TreeInv
  <2>2. ASSUME NEW p \in Processes
        PROVE  /\ proc[p].op \in {"idle", "add", "info", "delete", "push", "list"}
               /\ proc[p].at \in {"mkdir", "rename", "find", "scan", "remove", "prune", "walk",
                                  "stat", "upload", "done", "failed"}
    <3>1. PlaceInv(proc[p])
      BY OfProcess DEF Kept
    <3>2. QED
      BY <3>1 DEF PlaceInv
  <2>3. QED
    BY <2>1, <2>2 DEF TypeOK
<1>2. HeadersMatchPaths
  BY DEF HeadersMatchPaths, LibraryInv, TreeInv, Fitting
<1>3. NoEmptyDirectories
  <2> SUFFICES ASSUME Ended, \A p \in Processes : proc[p].op = "add" => proc[p].at = "done",
                      NEW d \in dirs
               PROVE  \E path \in Held : d \in ParentsOf(path)
    BY DEF NoEmptyDirectories
  <2>1. ASSUME NEW p \in Processes, NEW x PROVE ~Excuses(proc[p], x)
    <3>1. PlaceInv(proc[p])
      BY OfProcess DEF Kept
    <3>2. proc[p].at # "prune"
      BY <3>1 DEF PlaceInv, Ended
    <3>3. QED
      BY <3>2 DEF Excuses
  <2>2. \A x \in dirs : Children(x) # {}
    BY <2>1 DEF LibraryInv, LeafInv
  <2>3. QED
    BY <2>2, ImageBelow
<1>4. QED
  BY <1>1, <1>2, <1>3 DEF TreeIsSound

\* What the invariant says of a search that has ended.
LEMMA SearchFollows == ASSUME LibraryInv PROVE FindsNewest
<1> SUFFICES ASSUME NEW p \in Processes, proc[p].op = "info", proc[p].at = "done"
             PROVE  /\ \E e \in proc[p].ever : Parent(e[1]) = NameDir(proc[p].ref) /\ e[2] = proc[p].best
                    /\ proc[p].ref.tag = None => \A e \in proc[p].always :
                         Parent(e[1]) = NameDir(proc[p].ref) =>
                            proc[p].best.timestamp >= e[2].timestamp
  BY DEF FindsNewest
<1>1. SearchInv(proc[p])
  BY OfProcess DEF Kept
<1>2. QED
  BY <1>1 DEF SearchInv

\* What the invariant says of a listing that has ended.
LEMMA ListingFollows == ASSUME LibraryInv PROVE ListingIsComplete
<1> SUFFICES ASSUME NEW p \in Processes, proc[p].op = "list", proc[p].at = "done"
             PROVE  /\ \A e \in proc[p].always : ~Hidden(e[1]) => RefOf(e[1]) \in proc[p].out
                    /\ proc[p].out \subseteq {RefOf(e[1]) : e \in proc[p].ever}
  BY DEF ListingIsComplete
<1>1. WalkInv(proc[p])
  BY OfProcess DEF Kept
<1>2. QED
  BY <1>1 DEF WalkInv, Awaits

\* In every library, with any number of commands running at the same time, the
\* tree is sound (add_built, delete and prune_empty_parents in library.rs).
THEOREM AlwaysOneTree == Spec => []TreeIsSound
<1>1. LibraryInv => TreeIsSound
  BY TreeFollows
<1>2. QED
  BY <1>1, LibraryAlways, PTL

\* Whatever is added and deleted during a search (find_by_ref), it finds an
\* image as new as any that was there throughout.
THEOREM AlwaysFindsNewest == Spec => []FindsNewest
<1>1. LibraryInv => FindsNewest
  BY SearchFollows
<1>2. QED
  BY <1>1, LibraryAlways, PTL

\* Whatever is added and deleted during a walk (find_all), a listing that
\* succeeds is complete and true.
THEOREM AlwaysCompleteListing == Spec => []ListingIsComplete
<1>1. LibraryInv => ListingIsComplete
  BY ListingFollows
<1>2. QED
  BY <1>1, LibraryAlways, PTL
=============================================================================
