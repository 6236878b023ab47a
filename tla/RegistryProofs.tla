--------------------------- MODULE RegistryProofs ---------------------------
(***************************************************************************)
(* Proofs about Registry for any number of pushes, readers and inodes and  *)
(* uploads of any length: its type invariant; with pushes one at a time,   *)
(* that it publishes whole images and implements the atomic store; and     *)
(* that readers are served pieces of one image.                            *)
(***************************************************************************)
EXTENDS Registry, SequenceTheorems, TLAPS

(***************************************************************************)
(* Types.                                                                  *)
(***************************************************************************)

Units == (Bodies \X (1..MaxLen)) \cup {NoUnit}
Handles == Inodes \cup {NoInode}

PushStates ==
    [pc : {"idle", "received", "writing", "synced", "renamed", "created", "refused", "lost"},
     body : Bodies \cup {NoBody}, inode : Handles, pos : Nat]

PullStates ==
    [pc : {"idle", "opened", "manifest", "located", "streaming", "pulled", "error"},
     head : Units, tail : Units, at : Nat, left : 0..MaxLen, inode : Handles,
     got : Seq(Units), calm : BOOLEAN]

FilesTyped ==
    /\ content \in [Inodes -> Seq(Units)]
    /\ dirty \subseteq Inodes
    /\ names \in [{"final", "partial"} -> Handles]
    /\ stable \in [{"final", "partial"} -> Handles]

\* What a push has where: a body once it has begun, a file while it writes.
PushTyped(s) ==
    /\ s.pc = "idle" => s.body = NoBody /\ s.inode = NoInode /\ s.pos = 0
    /\ s.pc # "idle" => s.body \in Bodies /\ s.pos \in 0..TailAt(s.body)
    /\ s.pc = "writing" => s.inode \in Inodes

PullTyped(s) ==
    /\ s.pc = "opened" => s.head \in {<< b, 1 >> : b \in Bodies}
    /\ s.pc \in {"located", "streaming"} => s.at >= 2
    /\ s.pc = "streaming" => s.inode \in Inodes

PushesTyped == push \in [Pushes -> PushStates] /\ \A p \in Pushes : PushTyped(push[p])
PullsTyped == pull \in [Readers -> PullStates] /\ \A r \in Readers : PullTyped(pull[r])

RestTyped ==
    /\ answer \in [Pushes -> {"none", "timeout", "created", "refused", "lost"}]
    /\ crashes \in 0..MaxCrashes

TypeInv == FilesTyped /\ PushesTyped /\ PullsTyped /\ RestTyped

\* The longest upload bounds every file and every unit's number.
LEMMA Lengths ==
    /\ MaxLen \in Nat /\ MaxLen >= 3
    /\ \A b \in Bodies : TailAt(b) \in Nat /\ TailAt(b) >= 2 /\ TailAt(b) < MaxLen
<1>1. PICK b \in Bodies : \A c \in Bodies : c.clusters <= b.clusters
  BY RegistryAssumption
<1>2. \A c \in Bodies : TailAt(c) \in Nat /\ TailAt(c) >= 2
  BY RegistryAssumption DEF TailAt
<1>3. TailAt(b) \in {TailAt(c) : c \in Bodies} /\ \A c \in Bodies : TailAt(c) <= TailAt(b)
  BY <1>1, RegistryAssumption DEF TailAt
<1> DEFINE m == CHOOSE n \in {TailAt(c) : c \in Bodies} : \A c \in Bodies : TailAt(c) <= n
<1>4. m \in {TailAt(c) : c \in Bodies} /\ \A c \in Bodies : TailAt(c) <= m
  BY <1>3
<1>5. MaxLen = 1 + m
  BY DEF MaxLen
<1> HIDE DEF m
<1>6. QED
  BY <1>2, <1>4, <1>5

\* A complete upload, unit by unit.
LEMMA WholeType ==
    ASSUME NEW b \in Bodies
    PROVE  /\ Whole(b) \in Seq(Units)
           /\ Len(Whole(b)) = TailAt(b)
           /\ \A k \in 1..TailAt(b) : Whole(b)[k] = << b, k >>
<1>1. TailAt(b) \in Nat /\ TailAt(b) < MaxLen /\ MaxLen \in Nat
  BY Lengths
<1>2. \A k \in 1..TailAt(b) : << b, k >> \in Units
  BY <1>1 DEF Units
<1>3. QED
  BY <1>1, <1>2 DEF Whole

\* Writing a unit of an upload into a file leaves a file.
LEMMA PutType ==
    ASSUME NEW c \in Seq(Units), NEW k \in Nat \ {0}, NEW u \in Units
    PROVE  /\ Put(c, k, u) \in Seq(Units)
           /\ Len(Put(c, k, u)) = (IF k > Len(c) THEN k ELSE Len(c))
           /\ \A n \in 1..Len(Put(c, k, u)) :
                Put(c, k, u)[n] = IF n = k THEN u ELSE IF n <= Len(c) THEN c[n] ELSE NoUnit
<1> DEFINE m == IF k > Len(c) THEN k ELSE Len(c)
<1>1. m \in Nat /\ NoUnit \in Units
  BY DEF Units
<1>2. \A n \in 1..m : (IF n = k THEN u ELSE IF n <= Len(c) THEN c[n] ELSE NoUnit) \in Units
  BY <1>1
<1> HIDE DEF m
<1>3. Put(c, k, u) = [n \in 1..m |-> IF n = k THEN u ELSE IF n <= Len(c) THEN c[n] ELSE NoUnit]
  BY DEF Put, m
<1>4. QED
  <2>1. Put(c, k, u) \in Seq(Units) /\ Len(Put(c, k, u)) = m
    BY <1>1, <1>2, <1>3
  <2>2. QED
    BY <2>1, <1>3 DEF m

\* The unit after the last one is appended, and the others stay.
LEMMA PutNext ==
    ASSUME NEW c \in Seq(Units), NEW u \in Units
    PROVE  /\ Len(Put(c, Len(c) + 1, u)) = Len(c) + 1
           /\ Put(c, Len(c) + 1, u)[Len(c) + 1] = u
           /\ \A k \in 1..Len(c) : Put(c, Len(c) + 1, u)[k] = c[k]
<1>1. Len(c) \in Nat /\ Len(c) + 1 \in Nat \ {0}
  OBVIOUS
<1> DEFINE d == Put(c, Len(c) + 1, u)
<1>2. /\ Len(d) = Len(c) + 1
      /\ \A n \in 1..Len(d) : d[n] =
           IF n = Len(c) + 1 THEN u ELSE IF n <= Len(c) THEN c[n] ELSE NoUnit
  <2> DEFINE k == Len(c) + 1
  <2>1. k \in Nat \ {0} /\ d = Put(c, k, u)
    BY <1>1
  <2> HIDE DEF k, d
  <2>2. k \in Nat \ {0}
    BY <2>1
  <2>3. /\ Len(Put(c, k, u)) = (IF k > Len(c) THEN k ELSE Len(c))
        /\ \A n \in 1..Len(Put(c, k, u)) :
             Put(c, k, u)[n] = IF n = k THEN u ELSE IF n <= Len(c) THEN c[n] ELSE NoUnit
    BY <2>2, PutType, Zenon
  <2>4. /\ Len(d) = (IF k > Len(c) THEN k ELSE Len(c))
        /\ \A n \in 1..Len(d) : d[n] = IF n = k THEN u ELSE IF n <= Len(c) THEN c[n] ELSE NoUnit
    BY <2>1, <2>3
  <2>5. k > Len(c)
    BY <1>1 DEF k
  <2>6. QED
    BY <2>4, <2>5 DEF k
<1> HIDE DEF d
<1>3. Len(d) = Len(c) + 1 /\ d[Len(c) + 1] = u /\ \A k \in 1..Len(c) : d[k] = c[k]
  BY <1>1, <1>2
<1>4. QED
  BY <1>3 DEF d

\* The empty registry and the one that serves an image are well-typed.
LEMMA InitTyped == Init => TypeInv
<1> SUFFICES ASSUME Init PROVE TypeInv
  OBVIOUS
<1>1. NoUnit \in Units /\ MaxLen \in Nat
  BY Lengths DEF Units
<1>2. FilesTyped
  <2>1. \A i \in Inodes : << >> \in Seq(Units)
    OBVIOUS
  <2>2. \A b \in Bodies : Whole(b) \in Seq(Units)
    BY WholeType
  <2>3. CASE names = [final |-> NoInode, partial |-> NoInode] /\ content = [i \in Inodes |-> << >>]
    BY <2>1, <2>3 DEF Init, FilesTyped, Handles
  <2>4. ASSUME NEW i \in Inodes, NEW b \in Bodies,
               names = [final |-> i, partial |-> NoInode],
               content = [j \in Inodes |-> IF j = i THEN Whole(b) ELSE << >>]
        PROVE  FilesTyped
    BY <2>1, <2>2, <2>4 DEF Init, FilesTyped, Handles
  <2>5. QED
    BY <2>3, <2>4 DEF Init
<1>3. PushesTyped
  BY DEF Init, PushesTyped, PushStates, PushTyped, IdlePush, Handles
<1>4. PullsTyped
  <2>1. << >> \in Seq(Units)
    OBVIOUS
  <2>2. IdlePull \in PullStates /\ PullTyped(IdlePull)
    BY <1>1, <2>1 DEF IdlePull, PullStates, PullTyped, Handles
  <2>3. QED
    BY <2>2 DEF Init, PullsTyped
<1>5. RestTyped
  BY RegistryAssumption DEF Init, RestTyped
<1>6. QED
  BY <1>2, <1>3, <1>4, <1>5 DEF TypeInv

\* A well-typed push in place of one of them leaves all of them well-typed.
LEMMA OnePush ==
    ASSUME PushesTyped, NEW p \in Pushes, NEW s \in PushStates, PushTyped(s),
           push' = [push EXCEPT ![p] = s]
    PROVE  PushesTyped'
<1>1. \A q \in Pushes : push'[q] = IF q = p THEN s ELSE push[q]
  BY DEF PushesTyped
<1>2. QED
  BY <1>1 DEF PushesTyped

\* And a well-typed reader in place of one.
LEMMA OnePull ==
    ASSUME PullsTyped, NEW r \in Readers, NEW s \in PullStates, PullTyped(s),
           pull' = [pull EXCEPT ![r] = s]
    PROVE  PullsTyped'
<1>1. \A q \in Readers : pull'[q] = IF q = r THEN s ELSE pull[q]
  BY DEF PullsTyped
<1>2. QED
  BY <1>1 DEF PullsTyped

\* The steps of a push that touch no file keep the types.
LEMMA PushSteps ==
    ASSUME TypeInv, NEW p \in Pushes,
           Receive(p) \/ RefuseBody(p) \/ Confirm(p) \/ PushFails(p) \/ GiveUp(p)
    PROVE  TypeInv'
<1> USE DEF TypeInv
<1>1. UNCHANGED << content, dirty, names, stable, pull, crashes >>
  BY DEF Receive, RefuseBody, Confirm, PushFails, GiveUp, fileVars
<1>2. FilesTyped' /\ PullsTyped'
  BY <1>1 DEF FilesTyped, PullsTyped
<1>3. CASE Receive(p)
  <2>1. PICK b \in Bodies : push' = [push EXCEPT ![p].pc = "received", ![p].body = b]
    BY <1>3 DEF Receive
  <2>2. push[p].pos = 0 /\ push[p].pc = "idle"
    BY <1>3 DEF Receive, PushesTyped, PushTyped
  <2>3. 0 \in 0..TailAt(b)
    BY Lengths
  <2>4. PushesTyped'
    <3> DEFINE s == [push[p] EXCEPT !.pc = "received", !.body = b]
    <3>1. s \in PushStates /\ PushTyped(s)
      BY <2>2, <2>3 DEF PushesTyped, PushStates, PushTyped
    <3>2. push' = [push EXCEPT ![p] = s]
      BY <2>1
    <3> HIDE DEF s
    <3>3. QED
      BY <3>1, <3>2, OnePush
  <2>5. QED
    BY <1>1, <1>2, <1>3, <2>4 DEF RestTyped, Receive
<1>4. ASSUME NEW result \in {"created", "refused"}, Return(p, result), push[p].pc # "idle"
      PROVE  PushesTyped' /\ RestTyped'
  <2>1. PushesTyped'
    <3> DEFINE s == [push[p] EXCEPT !.pc = result, !.inode = NoInode]
    <3>1. s \in PushStates /\ PushTyped(s)
      BY <1>4 DEF PushesTyped, PushStates, PushTyped, Handles
    <3>2. push' = [push EXCEPT ![p] = s]
      BY <1>4 DEF Return
    <3> HIDE DEF s
    <3>3. QED
      BY <3>1, <3>2, OnePush
  <2>2. RestTyped'
    BY <1>1, <1>4 DEF RestTyped, Return
  <2>3. QED
    BY <2>1, <2>2
<1>5. CASE GiveUp(p)
  BY <1>1, <1>2, <1>5 DEF GiveUp, PushesTyped, RestTyped
<1>6. QED
  BY <1>2, <1>3, <1>4, <1>5 DEF RefuseBody, Confirm, PushFails

\* So does creating the partial file, whether it is new or was left over.
LEMMA CreateTyped ==
    ASSUME TypeInv, NEW p \in Pushes, Create(p)
    PROVE  TypeInv'
<1> USE DEF TypeInv, Create, CreateKeeping
<1>1. PICK i \in Inodes :
        /\ IF Exists("partial") THEN i = names.partial ELSE Fresh(i)
        /\ names' = [names EXCEPT !.partial = i]
        /\ content' = [content EXCEPT ![i] = IF Exists("partial") THEN << >> ELSE << >>]
        /\ dirty' = dirty \cup {i}
        /\ push' = [push EXCEPT ![p].pc = "writing", ![p].inode = i, ![p].pos = 0]
  OBVIOUS
<1>2. << >> \in Seq(Units)
  OBVIOUS
<1>3. FilesTyped'
  BY <1>1, <1>2 DEF FilesTyped, Handles
<1>4. PushesTyped'
  <2>1. push[p].body \in Bodies /\ 0 \in 0..TailAt(push[p].body)
    BY Lengths DEF PushesTyped, PushTyped
  <2> DEFINE s == [push[p] EXCEPT !.pc = "writing", !.inode = i, !.pos = 0]
  <2>2. s \in PushStates /\ PushTyped(s)
    BY <2>1 DEF PushesTyped, PushStates, PushTyped, Handles
  <2>3. push' = [push EXCEPT ![p] = s]
    BY <1>1 DEF PushesTyped
  <2> HIDE DEF s
  <2>4. QED
    BY <2>2, <2>3, OnePush
<1>5. QED
  BY <1>3, <1>4 DEF PullsTyped, RestTyped

\* So does writing a unit: its number stays within the upload.
LEMMA WriteTyped ==
    ASSUME TypeInv, NEW p \in Pushes, WriteChunk(p)
    PROVE  TypeInv'
<1> USE DEF TypeInv, WriteChunk
<1> DEFINE b == push[p].body
           i == push[p].inode
           n == push[p].pos
<1>1. b \in Bodies /\ i \in Inodes /\ n \in 0..TailAt(b) /\ n < TailAt(b)
  BY WholeType DEF PushesTyped, PushTyped
<1>2. n + 1 \in Nat \ {0} /\ n + 1 \in 0..TailAt(b) /\ << b, n + 1 >> \in Units
  BY <1>1, Lengths DEF Units
<1>3. Put(content[i], n + 1, << b, n + 1 >>) \in Seq(Units)
  BY <1>1, <1>2, PutType DEF FilesTyped
<1>4. FilesTyped'
  BY <1>1, <1>3 DEF FilesTyped
<1>5. PushesTyped'
  <2> DEFINE s == [push[p] EXCEPT !.pos = n + 1]
  <2>1. s \in PushStates /\ PushTyped(s)
    BY <1>1, <1>2 DEF PushesTyped, PushStates, PushTyped
  <2>2. push' = [push EXCEPT ![p] = s]
    OBVIOUS
  <2> HIDE DEF s
  <2>3. QED
    BY <2>1, <2>2, OnePush
<1>6. QED
  BY <1>4, <1>5 DEF PullsTyped, RestTyped

\* So does synchronising it.
LEMMA SyncTyped ==
    ASSUME TypeInv, NEW p \in Pushes, Sync(p)
    PROVE  TypeInv'
<1> USE DEF TypeInv, Sync, SyncLeaving
<1>1. FilesTyped' /\ PullsTyped' /\ RestTyped'
  BY DEF FilesTyped, PullsTyped, RestTyped
<1>2. PushesTyped'
  BY DEF PushesTyped, PushStates, PushTyped, Handles
<1>3. QED
  BY <1>1, <1>2

\* So does the rename, which marks the readers it disturbs.
LEMMA RenameTyped ==
    ASSUME TypeInv, NEW p \in Pushes, Rename(p)
    PROVE  TypeInv'
<1> USE DEF TypeInv, Rename
<1>1. FilesTyped' /\ RestTyped'
  BY DEF FilesTyped, RestTyped, Handles
<1>2. PushesTyped'
  BY DEF PushesTyped, PushStates, PushTyped
<1>3. PullsTyped'
  BY DEF PullsTyped, PullStates, PullTyped, Disturb
<1>4. QED
  BY <1>1, <1>2, <1>3

\* A file that opens begins with a header, and reaches at least to where the
\* header says its directory is.
LEMMA OpensFacts ==
    ASSUME NEW c \in Seq(Units), Opens(c)
    PROVE  /\ c[1] \in {<< b, 1 >> : b \in Bodies}
           /\ c[1] \in Units /\ c[1][1] \in Bodies
           /\ TailAt(c[1][1]) \in 1..Len(c)
           /\ Bounds(c) \subseteq {w \in (2..MaxLen) \X (2..MaxLen) : w[1] <= w[2]}
<1>1. PICK b \in Bodies : c[1] = << b, 1 >>
  BY DEF Opens
<1>2. c[1][1] = b
  BY <1>1
<1>3. TailAt(b) \in Nat /\ TailAt(b) >= 2 /\ TailAt(b) < MaxLen /\ MaxLen \in Nat
  BY Lengths
<1>4. c[1] \in Units
  BY <1>1, <1>3 DEF Units
<1>5. TailAt(b) \in 1..Len(c)
  BY <1>2, <1>3 DEF Opens
<1>6. Bounds(c) \subseteq {w \in (2..MaxLen) \X (2..MaxLen) : w[1] <= w[2]}
  BY <1>2, <1>3 DEF Bounds
<1>7. QED
  BY <1>1, <1>2, <1>4, <1>5, <1>6

\* The range served lies in the region, or is the first place of an empty one.
LEMMA RangeFacts ==
    ASSUME NEW n \in Nat, NEW range \in Ranges \cup {NoRange},
           NEW w \in parse_range_header(range, n)
    PROVE  /\ w[1] \in Nat /\ w[2] \in Nat /\ w[1] <= w[2]
           /\ w[2] < n \/ (n = 0 /\ w[2] = 0)
           /\ n > 0 => w[2] < n
<1>1. CASE range = NoRange
  BY <1>1 DEF parse_range_header
<1>2. CASE range # NoRange
  <2>1. range.from \in Nat /\ range.to \in Nat \cup {OpenEnd}
    BY <1>2, RegistryAssumption
  <2>2. w = << range.from, IF range.to = OpenEnd THEN n - 1 ELSE range.to >>
        /\ w[1] <= w[2] /\ w[2] < n
    BY <1>2 DEF parse_range_header
  <2>3. QED
    BY <2>1, <2>2 DEF OpenEnd
<1>3. QED
  BY <1>1, <1>2

\* Readers change nothing but what they have.
LEMMA PullSteps ==
    ASSUME TypeInv, NEW r \in Readers, NEW s \in PullStates, PullTyped(s),
           pull' = [pull EXCEPT ![r] = s], UNCHANGED serverVars
    PROVE  TypeInv'
<1>1. PullsTyped'
  BY OnePull DEF TypeInv
<1>2. QED
  BY <1>1 DEF TypeInv, serverVars, fileVars, FilesTyped, PushesTyped, RestTyped

\* The steps of a reader keep the types: whatever bounds a file's bytes are
\* taken for, the window that is streamed has a length within MaxLen.
LEMMA ReadTyped ==
    ASSUME TypeInv, NEW r \in Readers,
           \/ ManifestOpen(r) \/ ManifestRead(r) \/ ClustersLocate(r) \/ ClustersOpen(r)
           \/ StreamUnit(r) \/ PullEnds(r) \/ PullFails(r)
    PROVE  TypeInv'
<1> USE DEF TypeInv
<1>1. pull[r] \in PullStates /\ PullTyped(pull[r])
  BY DEF PullsTyped
<1>2. Exists("final") => names.final \in Inodes /\ At("final") \in Seq(Units)
  BY DEF FilesTyped, Exists, At, Handles
<1>3. CASE ManifestOpen(r)
  <2> DEFINE s == [pull[r] EXCEPT !.pc = "opened", !.head = At("final")[1]]
  <2>1. At("final")[1] \in Units /\ At("final")[1] \in {<< b, 1 >> : b \in Bodies}
    BY <1>2, <1>3, OpensFacts DEF ManifestOpen, Serves
  <2>2. s \in PullStates /\ PullTyped(s)
    BY <1>1, <2>1 DEF PullStates, PullTyped
  <2>3. pull' = [pull EXCEPT ![r] = s] /\ UNCHANGED serverVars
    BY <1>3 DEF ManifestOpen
  <2> HIDE DEF s
  <2>4. QED
    BY <2>2, <2>3, PullSteps
<1>4. CASE ManifestRead(r)
  <2> DEFINE c == At("final")
             t == TailAt(pull[r].head[1])
             s == [pull[r] EXCEPT !.pc = "manifest", !.head = c[1], !.tail = c[t]]
  <2>1. PICK b \in Bodies : pull[r].head = << b, 1 >>
    BY <1>1, <1>4 DEF ManifestRead, PullTyped
  <2>2. t = TailAt(b)
    BY <2>1
  <2>3. t \in 1..Len(c) /\ 1 \in 1..Len(c) /\ c \in Seq(Units)
    BY <1>2, <1>4, <2>2, Lengths DEF ManifestRead
  <2>4. c[1] \in Units /\ c[t] \in Units
    BY <2>3
  <2> HIDE DEF c, t
  <2>5. s \in PullStates /\ PullTyped(s)
    BY <1>1, <2>4 DEF PullStates, PullTyped
  <2>6. pull' = [pull EXCEPT ![r] = s] /\ UNCHANGED serverVars
    BY <1>4 DEF ManifestRead, c, t
  <2> HIDE DEF s
  <2>7. QED
    BY <2>5, <2>6, PullSteps
<1>5. CASE ClustersLocate(r)
  <2>1. PICK region \in Bounds(At("final")), range \in Ranges \cup {NoRange} :
          \E w \in parse_range_header(range, region[2] - region[1]) :
             pull' = [pull EXCEPT ![r].pc = "located", ![r].at = region[1] + w[1],
                                  ![r].left = w[2] - w[1] + 1]
    BY <1>5 DEF ClustersLocate
  <2>2. PICK w \in parse_range_header(range, region[2] - region[1]) :
             pull' = [pull EXCEPT ![r].pc = "located", ![r].at = region[1] + w[1],
                                  ![r].left = w[2] - w[1] + 1]
    BY <2>1
  <2>3. region[1] \in 2..MaxLen /\ region[2] \in 2..MaxLen /\ region[1] <= region[2]
    BY <1>2, <1>5, OpensFacts DEF ClustersLocate, Serves
  <2>4. region[2] - region[1] \in 0..MaxLen
    BY <2>3, Lengths
  <2>5. /\ w[1] \in Nat /\ w[2] \in Nat /\ w[1] <= w[2]
        /\ w[2] < region[2] - region[1] \/ w[2] = 0
    BY <2>4, RangeFacts
  <2>6. region[1] + w[1] \in Nat /\ region[1] + w[1] >= 2 /\ w[2] - w[1] + 1 \in 0..MaxLen
    BY <2>3, <2>4, <2>5, Lengths
  <2> DEFINE a == region[1] + w[1]
             l == w[2] - w[1] + 1
             s == [pull[r] EXCEPT !.pc = "located", !.at = a, !.left = l]
  <2>7. s \in PullStates /\ PullTyped(s)
    <3> HIDE DEF a, l
    <3>1. a \in Nat /\ a >= 2 /\ l \in 0..MaxLen
      BY <2>6 DEF a, l
    <3>2. QED
      BY <1>1, <3>1 DEF PullStates, PullTyped
  <2>8. pull' = [pull EXCEPT ![r] = s] /\ UNCHANGED serverVars
    BY <1>5, <2>2 DEF ClustersLocate
  <2> HIDE DEF s
  <2>9. QED
    BY <2>7, <2>8, PullSteps
<1>6. CASE ClustersOpen(r)
  <2> DEFINE s == [pull[r] EXCEPT !.pc = "streaming", !.inode = names.final]
  <2>1. s \in PullStates /\ PullTyped(s)
    BY <1>1, <1>2, <1>6 DEF ClustersOpen, PullStates, PullTyped, Handles
  <2>2. pull' = [pull EXCEPT ![r] = s] /\ UNCHANGED serverVars
    BY <1>6 DEF ClustersOpen
  <2> HIDE DEF s
  <2>3. QED
    BY <2>1, <2>2, PullSteps
<1>7. CASE StreamUnit(r)
  <2> DEFINE u == content[pull[r].inode][pull[r].at]
             g == Append(pull[r].got, u)
             s == [pull[r] EXCEPT !.got = g, !.at = pull[r].at + 1, !.left = pull[r].left - 1]
  <2>1. pull[r].inode \in Inodes /\ pull[r].at >= 2 /\ pull[r].at \in Nat
    BY <1>1, <1>7 DEF StreamUnit, StreamFrom, PullTyped, PullStates
  <2>2. u \in Units
    BY <1>7, <2>1 DEF StreamUnit, StreamFrom, FilesTyped
  <2>3. g \in Seq(Units)
    BY <1>1, <2>2 DEF PullStates
  <2>4. pull[r].left - 1 \in 0..MaxLen
    BY <1>1, <1>7, Lengths DEF StreamUnit, StreamFrom, PullStates
  <2> HIDE DEF g
  <2>5. s \in PullStates /\ PullTyped(s)
    <3>1. pull[r].at + 1 \in Nat /\ pull[r].at + 1 >= 2
      BY <2>1
    <3>2. s \in PullStates
      BY <1>1, <2>3, <2>4, <3>1 DEF PullStates
    <3>3. s.pc = pull[r].pc /\ s.at >= 2 /\ s.inode \in Inodes /\ s.head = pull[r].head
      BY <1>1, <2>1, <3>1 DEF PullStates
    <3>4. QED
      BY <1>1, <3>2, <3>3 DEF PullTyped
  <2>6. pull' = [pull EXCEPT ![r] = s] /\ UNCHANGED serverVars
    BY <1>7 DEF StreamUnit, StreamFrom, g
  <2> HIDE DEF s
  <2>7. QED
    BY <2>5, <2>6, PullSteps
<1>8. ASSUME NEW pc \in {"pulled", "error"},
             pull' = [pull EXCEPT ![r].pc = pc, ![r].inode = NoInode], UNCHANGED serverVars
      PROVE  TypeInv'
  <2> DEFINE s == [pull[r] EXCEPT !.pc = pc, !.inode = NoInode]
  <2>1. s \in PullStates /\ s.pc = pc
    BY <1>1 DEF PullStates, Handles
  <2>2. PullTyped(s) /\ pull' = [pull EXCEPT ![r] = s]
    BY <1>8, <2>1 DEF PullTyped
  <2> HIDE DEF s
  <2>3. QED
    BY <1>8, <2>1, <2>2, PullSteps
<1>9. CASE PullEnds(r)
  <2> DEFINE e == IF r \in Pulls => Opens(Dest(r)) THEN "pulled" ELSE "error"
  <2>1. e \in {"pulled", "error"}
    OBVIOUS
  <2>2. pull' = [pull EXCEPT ![r].pc = e, ![r].inode = NoInode] /\ UNCHANGED serverVars
    BY <1>9 DEF PullEnds
  <2> HIDE DEF e
  <2>3. QED
    BY <1>8, <2>1, <2>2
<1>10. CASE PullFails(r)
  BY <1>8, <1>10 DEF PullFails
<1>11. QED
  BY <1>3, <1>4, <1>5, <1>6, <1>7, <1>9, <1>10

\* So do crashes, also where a file loses its end.
LEMMA CrashTyped ==
    ASSUME TypeInv, ServerCrash \/ PowerLoss
    PROVE  TypeInv'
<1> USE DEF TypeInv
<1>1. Die
  BY DEF ServerCrash, PowerLoss
<1>2. RestTyped'
  <2>1. crashes' \in 0..MaxCrashes
    <3>1. crashes < MaxCrashes /\ crashes' = crashes + 1
      BY <1>1 DEF Die
    <3>2. crashes \in 0..MaxCrashes /\ MaxCrashes \in Nat
      BY RegistryAssumption DEF RestTyped
    <3>3. QED
      BY <3>1, <3>2
  <2>2. answer' \in [Pushes -> {"none", "timeout", "created", "refused", "lost"}]
    BY <1>1 DEF RestTyped, Die
  <2>3. QED
    BY <2>1, <2>2 DEF RestTyped
<1>3. PushesTyped'
  <2>1. ASSUME NEW p \in Pushes
        PROVE  push'[p] \in PushStates /\ PushTyped(push'[p])
    <3>1. push'[p] = IF Busy(p) THEN [push[p] EXCEPT !.pc = "lost", !.inode = NoInode] ELSE push[p]
      BY <1>1 DEF Die
    <3>2. push[p] \in PushStates /\ PushTyped(push[p])
      BY DEF PushesTyped
    <3>3. CASE Busy(p)
      BY <3>1, <3>2, <3>3 DEF Busy, PushStates, PushTyped, Handles
    <3>4. QED
      BY <3>1, <3>2, <3>3
  <2>2. QED
    BY <1>1, <2>1 DEF PushesTyped, Die
<1>4. PullsTyped'
  <2>1. ASSUME NEW r \in Readers
        PROVE  pull'[r] \in PullStates /\ PullTyped(pull'[r])
    <3>1. pull'[r] = IF pull[r].pc \in {"idle", "pulled", "error"} THEN pull[r]
                     ELSE [pull[r] EXCEPT !.pc = "error", !.inode = NoInode]
      BY <1>1 DEF Die
    <3>2. pull[r] \in PullStates /\ PullTyped(pull[r])
      BY DEF PullsTyped
    <3>3. [pull[r] EXCEPT !.pc = "error", !.inode = NoInode] \in PullStates
      BY <3>2 DEF PullStates, Handles
    <3>4. QED
      BY <3>1, <3>2, <3>3 DEF PullStates, PullTyped
  <2>2. QED
    BY <1>1, <2>1 DEF PullsTyped, Die
<1>5. CASE ServerCrash
  BY <1>2, <1>3, <1>4, <1>5 DEF ServerCrash, fileVars, FilesTyped
<1>6. CASE PowerLoss
  <2>1. PICK kept \in [dirty -> 0..MaxLen] :
          content' = [i \in Inodes |->
             IF i \in dirty /\ kept[i] < Len(content[i])
             THEN SubSeq(content[i], 1, kept[i]) ELSE content[i]]
    BY <1>6 DEF PowerLoss
  <2>2. ASSUME NEW i \in Inodes
        PROVE  content'[i] \in Seq(Units)
    <3>1. content[i] \in Seq(Units)
      BY DEF FilesTyped
    <3>2. CASE i \in dirty /\ kept[i] < Len(content[i])
      <4>1. kept[i] \in Nat /\ content'[i] = SubSeq(content[i], 1, kept[i])
        BY <2>1, <3>2, Lengths
      <4>2. QED
        BY <3>1, <3>2, <4>1
    <3>3. QED
      BY <2>1, <3>1, <3>2
  <2>3. FilesTyped'
    BY <1>6, <2>1, <2>2 DEF PowerLoss, FilesTyped
  <2>4. QED
    BY <1>2, <1>3, <1>4, <2>3
<1>7. QED
  BY <1>5, <1>6

\* Every step keeps the types.
LEMMA TypeStep == TypeInv /\ [Next]_vars => TypeInv'
<1> SUFFICES ASSUME TypeInv, [Next]_vars PROVE TypeInv'
  OBVIOUS
<1>1. CASE UNCHANGED vars
  BY <1>1 DEF vars, TypeInv, FilesTyped, PushesTyped, PullsTyped, RestTyped
<1>2. CASE FlushNames
  BY <1>2 DEF FlushNames, TypeInv, FilesTyped, PushesTyped, PullsTyped, RestTyped
<1>3. QED
  BY <1>1, <1>2, PushSteps, CreateTyped, WriteTyped, SyncTyped, RenameTyped, ReadTyped, CrashTyped
     DEF Next

\* What TLC checks follows from the invariant.
LEMMA TypeInvOK == TypeInv => TypeOK
<1> SUFFICES ASSUME TypeInv PROVE TypeOK
  OBVIOUS
<1>1. \A p \in Pushes : push[p].pc = "idle" \/ push[p].pos \in 0..Len(Whole(push[p].body))
  BY WholeType DEF TypeInv, PushesTyped, PushTyped
<1>2. \A p \in Pushes : push[p] \in PushStates
  BY DEF TypeInv, PushesTyped
<1>3. \A r \in Readers : pull[r] \in PullStates
  BY DEF TypeInv, PullsTyped
<1>4. QED
  BY <1>1, <1>2, <1>3
     DEF TypeOK, TypeInv, FilesTyped, RestTyped, Units, Handles, PushStates, PullStates

\* Every variable keeps its type, with pushes in any number and in any order:
\* no handler of the registry reads a file beyond its end or a position that is
\* not in it.
THEOREM TypeCorrect == Spec => []TypeOK
<1>1. Spec => []TypeInv
  BY InitTyped, TypeStep, PTL DEF Spec
<1>2. QED
  BY <1>1, TypeInvOK, PTL

(***************************************************************************)
(* One push at a time.                                                     *)
(***************************************************************************)

\* A complete acceptable upload, which a power failure leaves alone.
Good(i) == i \in Inodes \ dirty /\ content[i] \in {Whole(b) : b \in Ours}

FinalsGood ==
    /\ names.final # NoInode => Good(names.final)
    /\ stable.final # NoInode => Good(stable.final)

PartialsApart ==
    /\ names.partial # NoInode => names.partial \notin {names.final, stable.final}
    /\ stable.partial # NoInode => stable.partial # stable.final

OneAtATime == \A p, q \in Pushes : Busy(p) /\ Busy(q) => p = q

\* How far the push that has the partial file is.
Writing(p) ==
    push[p].pc = "writing" =>
        /\ push[p].body \in Ours
        /\ names.partial # NoInode /\ push[p].inode = names.partial
        /\ Len(content[names.partial]) = push[p].pos
        /\ \A k \in 1..push[p].pos : content[names.partial][k] = << push[p].body, k >>

Synced(p) ==
    push[p].pc = "synced" =>
        /\ push[p].body \in Ours
        /\ names.partial \in Inodes \ dirty
        /\ content[names.partial] = Whole(push[p].body)

\* Published files are whole and on disk, the partial file is none of them and
\* holds what the one push that is under way has written so far.
PublishInv ==
    /\ TypeInv /\ FinalsGood /\ PartialsApart /\ OneAtATime
    /\ \A p \in Pushes : Writing(p) /\ Synced(p)

\* Two uploads with the same units are one.
LEMMA WholeInjective ==
    ASSUME NEW b \in Bodies, NEW c \in Bodies, Whole(b) = Whole(c)
    PROVE  b = c
<1>1. 1 \in 1..TailAt(b) /\ 1 \in 1..TailAt(c)
  BY Lengths
<1>2. Whole(b)[1] = << b, 1 >> /\ Whole(c)[1] = << c, 1 >>
  BY <1>1, WholeType
<1>3. QED
  BY <1>2

\* What push lets in is what may be published.
LEMMA AcceptedOurs ==
    ASSUME NEW b \in Bodies
    PROVE  Accepts(b) <=> b \in Ours
BY WholeType DEF Accepts, Ours

\* It holds of the registries a server starts with.
LEMMA PublishInit == Init => PublishInv
<1> SUFFICES ASSUME Init PROVE PublishInv
  OBVIOUS
<1>1. TypeInv /\ NoInode \notin Inodes
  BY InitTyped, RegistryAssumption
<1>2. \A p \in Pushes : push[p].pc = "idle"
  BY DEF Init, IdlePush
<1>3. stable = names /\ names.partial = NoInode
  BY DEF Init
<1>4. names.final # NoInode => Good(names.final)
  <2>1. CASE names = [final |-> NoInode, partial |-> NoInode]
    BY <2>1
  <2>2. ASSUME NEW i \in Inodes, NEW b \in Bodies, Accepts(b),
               names = [final |-> i, partial |-> NoInode],
               content = [j \in Inodes |-> IF j = i THEN Whole(b) ELSE << >>]
        PROVE  Good(names.final)
    BY <2>2, AcceptedOurs DEF Good, Init
  <2>3. QED
    BY <2>1, <2>2 DEF Init
<1>5. QED
  BY <1>1, <1>2, <1>3, <1>4
     DEF PublishInv, FinalsGood, PartialsApart, OneAtATime, Busy, Writing, Synced

\* Steps that leave the files alone, but for what of the names is on disk.
LEMMA FilesKept ==
    ASSUME PublishInv, TypeInv', OneAtATime',
           UNCHANGED << content, dirty, names >>, stable' \in {stable, names},
           \A p \in Pushes : push'[p] = push[p] \/ push'[p].pc \notin {"writing", "synced"}
    PROVE  PublishInv'
<1> USE DEF PublishInv
<1>1. FinalsGood' /\ PartialsApart'
  BY DEF FinalsGood, PartialsApart, Good
<1>2. \A p \in Pushes : Writing(p)' /\ Synced(p)'
  BY DEF Writing, Synced
<1>3. QED
  BY <1>1, <1>2

\* A push that begins finds the server done with the others.
LEMMA ReceiveKept ==
    ASSUME PublishInv, TypeInv', Serial, NEW p \in Pushes, Receive(p)
    PROVE  PublishInv'
<1>1. \A q \in Pushes : ~Busy(q)
  BY DEF Receive
<1>2. \A q \in Pushes : q # p => push'[q] = push[q]
  BY DEF Receive, PublishInv, TypeInv, PushesTyped
<1>3. OneAtATime'
  BY <1>1, <1>2 DEF OneAtATime, Busy
<1>4. push'[p].pc = "received"
  BY DEF Receive, PublishInv, TypeInv, PushesTyped, PushStates
<1>5. QED
  BY <1>2, <1>3, <1>4, FilesKept DEF Receive, fileVars

\* A push that returns, and a client that gives up, touch no file.
LEMMA ReturnKept ==
    ASSUME PublishInv, TypeInv', NEW p \in Pushes,
           RefuseBody(p) \/ Confirm(p) \/ PushFails(p) \/ GiveUp(p)
    PROVE  PublishInv'
<1>1. UNCHANGED << content, dirty, names, stable >>
  BY DEF RefuseBody, Confirm, PushFails, GiveUp, fileVars
<1>2. \A q \in Pushes : push'[q] = push[q] \/ push'[q].pc \in {"refused", "created"}
  BY DEF RefuseBody, Confirm, PushFails, GiveUp, Return, PublishInv, TypeInv, PushesTyped, PushStates
<1>3. OneAtATime'
  BY <1>2 DEF PublishInv, OneAtATime, Busy
<1>4. QED
  BY <1>1, <1>2, <1>3, FilesKept

\* While a push is under way the others are not.
LEMMA OthersWait ==
    ASSUME PublishInv, TypeInv', NEW p \in Pushes, Busy(p),
           \A q \in Pushes : q # p => push'[q] = push[q]
    PROVE  OneAtATime' /\ \A q \in Pushes : q # p => Writing(q)' /\ Synced(q)'
<1>1. \A q \in Pushes : q # p => ~Busy(q)
  BY DEF PublishInv, OneAtATime
<1>2. \A q \in Pushes : q # p => ~Busy(q)'
  BY <1>1 DEF Busy
<1>3. QED
  BY <1>2 DEF OneAtATime, Busy, Writing, Synced

\* The file a push creates is not one that is published: a left-over partial
\* file is apart from both, and a new inode has no name.
LEMMA CreateKept ==
    ASSUME PublishInv, TypeInv', NEW p \in Pushes, Create(p)
    PROVE  PublishInv'
<1>1. PICK i \in Inodes :
        /\ IF Exists("partial") THEN i = names.partial ELSE Fresh(i)
        /\ names' = [names EXCEPT !.partial = i]
        /\ content' = [content EXCEPT ![i] = << >>]
        /\ dirty' = dirty \cup {i}
        /\ push' = [push EXCEPT ![p].pc = "writing", ![p].inode = i, ![p].pos = 0]
  BY DEF Create, CreateKeeping
<1>2. push[p].pc = "received" /\ Accepts(push[p].body) /\ UNCHANGED stable
  BY DEF Create, CreateKeeping
<1>3. i \notin {names.final, stable.final}
  <2>1. CASE Exists("partial")
    BY <1>1, <2>1 DEF PublishInv, PartialsApart, Exists
  <2>2. CASE ~Exists("partial")
    <3>1. i \notin Named
      BY <1>1, <2>2 DEF Fresh
    <3>2. names.final \in Named /\ stable.final \in Named
      BY DEF Named, PublishInv, TypeInv, FilesTyped
    <3>3. QED
      BY <3>1, <3>2
  <2>3. QED
    BY <2>1, <2>2
<1>4. names'.final = names.final /\ names'.partial = i
  BY <1>1 DEF PublishInv, TypeInv, FilesTyped
<1>5. FinalsGood'
  <2>1. ASSUME NEW j \in Inodes, Good(j), j # i
        PROVE  Good(j)'
    BY <1>1, <2>1 DEF Good, PublishInv, TypeInv, FilesTyped
  <2>2. QED
    BY <1>2, <1>3, <1>4, <2>1 DEF FinalsGood, PublishInv, Good
<1>6. PartialsApart'
  BY <1>2, <1>3, <1>4 DEF PartialsApart, PublishInv
<1>7. push'[p].pc = "writing" /\ push'[p].inode = i /\ push'[p].pos = 0
      /\ push'[p].body = push[p].body
  BY <1>1 DEF PublishInv, TypeInv, PushesTyped, PushStates
<1>8. Writing(p)' /\ Synced(p)'
  <2>1. push[p].body \in Ours
    BY <1>2, AcceptedOurs DEF PublishInv, TypeInv, PushesTyped, PushTyped
  <2>2. content'[i] = << >> /\ Len(content'[i]) = 0 /\ i # NoInode
    BY <1>1, RegistryAssumption DEF PublishInv, TypeInv, FilesTyped
  <2>3. QED
    BY <1>4, <1>7, <2>1, <2>2 DEF Writing, Synced
<1>9. OneAtATime' /\ \A q \in Pushes : q # p => Writing(q)' /\ Synced(q)'
  <2>1. \A q \in Pushes : q # p => push'[q] = push[q]
    BY <1>1 DEF PublishInv, TypeInv, PushesTyped
  <2>2. Busy(p)
    BY <1>2 DEF Busy
  <2>3. QED
    BY <2>1, <2>2, OthersWait
<1>10. QED
  BY <1>5, <1>6, <1>8, <1>9 DEF PublishInv

\* A push extends the partial file with the next unit of its upload.
LEMMA WriteKept ==
    ASSUME PublishInv, TypeInv', NEW p \in Pushes, WriteChunk(p)
    PROVE  PublishInv'
<1> DEFINE b == push[p].body
           i == push[p].inode
           n == push[p].pos
<1>1. /\ push[p].pc = "writing" /\ b \in Ours /\ b \in Bodies /\ i = names.partial /\ i \in Inodes
      /\ n \in Nat /\ n < TailAt(b) /\ Len(content[i]) = n
      /\ \A k \in 1..n : content[i][k] = << b, k >>
      /\ content[i] \in Seq(Units)
  BY WholeType
     DEF WriteChunk, PublishInv, Writing, TypeInv, PushesTyped, PushTyped, FilesTyped, PushStates
<1>2. /\ content' = [content EXCEPT ![i] = Put(@, n + 1, << b, n + 1 >>)]
      /\ dirty' = dirty \cup {i} /\ UNCHANGED << names, stable >>
      /\ push' = [push EXCEPT ![p].pos = n + 1]
  BY DEF WriteChunk
<1>3. content'[i] = Put(content[i], n + 1, << b, n + 1 >>)
  BY <1>1, <1>2 DEF PublishInv, TypeInv, FilesTyped
<1>4. Len(content'[i]) = n + 1 /\ \A k \in 1..n + 1 : content'[i][k] = << b, k >>
  <2>1. << b, n + 1 >> \in Units
    BY <1>1, Lengths DEF Units
  <2>2. /\ Len(content'[i]) = n + 1 /\ content'[i][n + 1] = << b, n + 1 >>
        /\ \A k \in 1..n : content'[i][k] = content[i][k]
    <3> HIDE DEF b, i, n
    <3>1. content'[i] = Put(content[i], Len(content[i]) + 1, << b, n + 1 >>)
      BY <1>1, <1>3
    <3> DEFINE d == content'[i]
               u == << b, n + 1 >>
               c == content[i]
    <3>2. d = Put(c, Len(c) + 1, u) /\ u \in Units /\ c \in Seq(Units) /\ Len(c) = n
      BY <1>1, <2>1, <3>1
    <3> HIDE DEF c, d, u
    <3>3. /\ Len(d) = Len(c) + 1 /\ d[Len(c) + 1] = u /\ \A k \in 1..Len(c) : d[k] = c[k]
      BY <3>2, PutNext
    <3>4. Len(d) = n + 1 /\ d[n + 1] = u /\ \A k \in 1..n : d[k] = c[k]
      BY <3>2, <3>3
    <3>5. QED
      BY <3>4 DEF c, d, u
  <2>3. ASSUME NEW k \in 1..n + 1
        PROVE  content'[i][k] = << b, k >>
    <3>1. CASE k = n + 1
      BY <2>2, <3>1
    <3>2. CASE k \in 1..n
      BY <1>1, <2>2, <3>2
    <3>3. QED
      BY <1>1, <3>1, <3>2
  <2>4. QED
    BY <2>2, <2>3
<1>5. FinalsGood' /\ PartialsApart'
  <2>1. ASSUME NEW j \in Inodes, Good(j), j # i
        PROVE  Good(j)'
    BY <1>2, <2>1 DEF Good, PublishInv, TypeInv, FilesTyped
  <2>2. i # NoInode /\ i # names.final /\ i # stable.final
    BY <1>1, RegistryAssumption DEF PublishInv, PartialsApart
  <2>3. QED
    BY <1>2, <2>1, <2>2 DEF FinalsGood, PartialsApart, PublishInv, Good
<1>6. push'[p].pc = "writing" /\ push'[p].inode = i /\ push'[p].pos = n + 1 /\ push'[p].body = b
  BY <1>1, <1>2 DEF PublishInv, TypeInv, PushesTyped, PushStates
<1>7. Writing(p)' /\ Synced(p)'
  <2>1. names'.partial = i /\ i # NoInode
    BY <1>1, <1>2, RegistryAssumption
  <2> HIDE DEF b, i, n
  <2>2. QED
    BY <1>1, <1>4, <1>6, <2>1 DEF Writing, Synced
<1>8. OneAtATime' /\ \A q \in Pushes : q # p => Writing(q)' /\ Synced(q)'
  <2>1. \A q \in Pushes : q # p => push'[q] = push[q]
    BY <1>2 DEF PublishInv, TypeInv, PushesTyped
  <2>2. Busy(p)
    BY <1>1 DEF Busy
  <2>3. QED
    BY <2>1, <2>2, OthersWait
<1>9. QED
  BY <1>5, <1>7, <1>8 DEF PublishInv

\* When the handle is dropped, the partial file is the upload and is on disk.
LEMMA SyncKept ==
    ASSUME PublishInv, TypeInv', NEW p \in Pushes, Sync(p)
    PROVE  PublishInv'
<1> DEFINE b == push[p].body
           i == names.partial
<1>1. /\ push[p].pc = "writing" /\ push[p].inode = i /\ i \in Inodes /\ b \in Ours /\ b \in Bodies
      /\ Len(content[i]) = TailAt(b) /\ content[i] \in Seq(Units)
      /\ \A k \in 1..TailAt(b) : content[i][k] = << b, k >>
  BY WholeType, Lengths
     DEF Sync, SyncLeaving, PublishInv, Writing, TypeInv, PushesTyped, PushTyped, FilesTyped,
         PushStates, Handles
<1>2. /\ dirty' = dirty \ {i} /\ UNCHANGED << content, names, stable >>
      /\ push' = [push EXCEPT ![p].pc = "synced", ![p].inode = NoInode]
  BY <1>1 DEF Sync, SyncLeaving
<1>3. content[i] = Whole(b)
  <2>1. Whole(b) \in Seq(Units) /\ Len(Whole(b)) = TailAt(b)
    BY <1>1, WholeType
  <2>2. \A k \in 1..Len(content[i]) : content[i][k] = Whole(b)[k]
    BY <1>1, WholeType
  <2>3. QED
    BY <1>1, <2>1, <2>2, SeqEqual
<1>4. FinalsGood' /\ PartialsApart'
  BY <1>2 DEF FinalsGood, PartialsApart, PublishInv, Good
<1>5. push'[p].pc = "synced" /\ push'[p].body = b
  BY <1>2 DEF PublishInv, TypeInv, PushesTyped, PushStates
<1>6. Writing(p)' /\ Synced(p)'
  BY <1>1, <1>2, <1>3, <1>5 DEF Writing, Synced
<1>7. OneAtATime' /\ \A q \in Pushes : q # p => Writing(q)' /\ Synced(q)'
  <2>1. \A q \in Pushes : q # p => push'[q] = push[q]
    BY <1>2 DEF PublishInv, TypeInv, PushesTyped
  <2>2. Busy(p)
    BY <1>1 DEF Busy
  <2>3. QED
    BY <2>1, <2>2, OthersWait
<1>8. QED
  BY <1>4, <1>6, <1>7 DEF PublishInv

\* The rename publishes the upload of the push that makes it.
LEMMA RenameKept ==
    ASSUME PublishInv, TypeInv', NEW p \in Pushes, Rename(p)
    PROVE  PublishInv'
<1>1. /\ push[p].pc = "synced" /\ push[p].body \in Ours
      /\ names.partial \in Inodes \ dirty /\ content[names.partial] = Whole(push[p].body)
  BY DEF Rename, PublishInv, Synced
<1>2. /\ names'.final = names.partial /\ names'.partial = NoInode
      /\ UNCHANGED << content, dirty, stable >>
      /\ push' = [push EXCEPT ![p].pc = "renamed"]
  BY DEF Rename
<1>3. FinalsGood' /\ PartialsApart'
  BY <1>1, <1>2 DEF FinalsGood, PartialsApart, PublishInv, Good
<1>4. push'[p].pc = "renamed"
  BY <1>2 DEF PublishInv, TypeInv, PushesTyped, PushStates
<1>5. OneAtATime' /\ \A q \in Pushes : q # p => Writing(q)' /\ Synced(q)'
  <2>1. \A q \in Pushes : q # p => push'[q] = push[q]
    BY <1>2 DEF PublishInv, TypeInv, PushesTyped
  <2>2. Busy(p)
    BY <1>1 DEF Busy
  <2>3. QED
    BY <2>1, <2>2, OthersWait
<1>6. QED
  BY <1>3, <1>4, <1>5 DEF PublishInv, Writing, Synced

\* After a crash no push is under way, and what was synchronised is there.
LEMMA CrashKept ==
    ASSUME PublishInv, TypeInv', ServerCrash \/ PowerLoss
    PROVE  PublishInv'
<1>1. \A p \in Pushes : ~Busy(p)'
  <2>1. \A p \in Pushes :
          push'[p] = IF Busy(p) THEN [push[p] EXCEPT !.pc = "lost", !.inode = NoInode] ELSE push[p]
    BY DEF ServerCrash, PowerLoss, Die
  <2>2. \A p \in Pushes : push[p] \in PushStates
    BY DEF PublishInv, TypeInv, PushesTyped
  <2>3. QED
    BY <2>1, <2>2 DEF Busy, PushStates
<1>2. OneAtATime' /\ \A p \in Pushes : Writing(p)' /\ Synced(p)'
  BY <1>1 DEF OneAtATime, Busy, Writing, Synced
<1>3. CASE ServerCrash
  BY <1>2, <1>3 DEF ServerCrash, fileVars, PublishInv, FinalsGood, PartialsApart, Good
<1>4. CASE PowerLoss
  <2>1. names' = stable /\ stable' = stable /\ dirty' = {}
    BY <1>4 DEF PowerLoss
  <2>2. \A i \in Inodes \ dirty : content'[i] = content[i]
    BY <1>4 DEF PowerLoss
  <2>3. QED
    BY <1>2, <2>1, <2>2 DEF PublishInv, FinalsGood, PartialsApart, Good
<1>5. QED
  BY <1>3, <1>4

\* Every step keeps the invariant of the files, with pushes one at a time.
LEMMA PublishStep == Serial /\ PublishInv /\ [Next]_vars => PublishInv'
<1> SUFFICES ASSUME Serial, PublishInv, [Next]_vars PROVE PublishInv'
  OBVIOUS
<1>1. TypeInv'
  BY TypeStep DEF PublishInv
<1>2. ASSUME UNCHANGED << content, dirty, names, push >>, stable' \in {stable, names}
      PROVE  PublishInv'
  <2>1. OneAtATime'
    BY <1>2 DEF PublishInv, OneAtATime, Busy
  <2>2. QED
    BY <1>1, <1>2, <2>1, FilesKept
<1>3. CASE UNCHANGED vars
  BY <1>2, <1>3 DEF vars
<1>4. ASSUME NEW r \in Readers,
           \/ ManifestOpen(r) \/ ManifestRead(r) \/ ClustersLocate(r) \/ ClustersOpen(r)
           \/ StreamUnit(r) \/ PullEnds(r) \/ PullFails(r)
      PROVE  PublishInv'
  BY <1>2, <1>4 DEF ManifestOpen, ManifestRead, ClustersLocate, ClustersOpen, StreamUnit,
                    StreamFrom, PullEnds, PullFails, serverVars, fileVars
<1>5. CASE FlushNames
  BY <1>2, <1>5 DEF FlushNames
<1>6. QED
  BY <1>1, <1>3, <1>4, <1>5, ReceiveKept, ReturnKept, CreateKept, WriteKept, SyncKept, RenameKept,
     CrashKept DEF Next

\* Storage::put publishes whole uploads only: whatever is under the final name is
\* one complete upload that push lets in, after failures, crashes and power loss at
\* any point, if a push begins only when the server is done with the others.
THEOREM AlwaysPublishesWhole ==
    ASSUME Serial PROVE Spec => []PublishedIsWhole
<1>1. Spec => []PublishInv
  BY PublishInit, PublishStep, PTL DEF Spec
<1>2. PublishInv => PublishedIsWhole
  BY DEF PublishInv, FinalsGood, Good, PublishedIsWhole, Exists, At
<1>3. QED
  BY <1>1, <1>2, PTL

(***************************************************************************)
(* The registry implements the atomic store.                               *)
(***************************************************************************)
bodies == [p \in Pushes |-> push[p].body]
statuses == [p \in Pushes |-> StatusOf(p)]

\* The image of a file that holds an upload is this upload.
LEMMA ImageIs ==
    ASSUME NEW n \in Inodes, NEW b \in Bodies, content[n] = Whole(b)
    PROVE  ImageAt(n) = b
<1>1. n # NoInode /\ content[n] \in {Whole(c) : c \in Bodies}
  BY RegistryAssumption
<1>2. \A c \in Bodies : content[n] = Whole(c) => c = b
  BY WholeInjective
<1>3. (CHOOSE c \in Bodies : content[n] = Whole(c)) = b
  BY <1>2
<1>4. QED
  BY <1>1, <1>3 DEF ImageAt

\* The image a name with these contents stands for.
ImageOf(c, n) ==
    IF n = NoInode THEN NoBody
    ELSE IF c \in {Whole(b) : b \in Bodies} THEN CHOOSE b \in Bodies : c = Whole(b)
    ELSE [NoBody EXCEPT !.id = "mixture"]

\* The two images, before and after a step.
LEMMA ImagesOf ==
    /\ ImageAt(names.final) = ImageOf(content[names.final], names.final)
    /\ ImageAt(stable.final) = ImageOf(content[stable.final], stable.final)
    /\ ImageAt(names.final)' = ImageOf(content'[names'.final], names'.final)
    /\ ImageAt(stable.final)' = ImageOf(content'[stable'.final], stable'.final)
BY DEF ImageAt, ImageOf

\* Steps that touch no file but the partial one do not show.
LEMMA ImagesStay ==
    ASSUME names'.final = names.final, stable'.final = stable.final,
           \A i \in {names.final, stable.final} : content'[i] = content[i]
    PROVE  UNCHANGED << ImageAt(names.final), ImageAt(stable.final) >>
BY ImagesOf

\* Where a push is, as its client may see it.
LEMMA StatusCases ==
    ASSUME NEW p
    PROVE  StatusOf(p) = IF push[p].pc \in {"received", "writing", "synced"} THEN "pending"
                         ELSE IF push[p].pc = "renamed" THEN "committed" ELSE push[p].pc
BY DEF StatusOf

\* A step of one push changes its own status and body, at most.
LEMMA OneStatus ==
    ASSUME NEW p \in Pushes, \A q \in Pushes : q # p => push'[q] = push[q]
    PROVE  /\ statuses' = [statuses EXCEPT ![p] = StatusOf(p)']
           /\ bodies' = [bodies EXCEPT ![p] = push'[p].body]
<1>1. \A q \in Pushes : q # p => StatusOf(q)' = StatusOf(q)
  BY DEF StatusOf
<1>2. QED
  BY <1>1 DEF statuses, bodies

\* The statuses that a crash leaves.
LEMMA StatusesLost ==
    ASSUME PublishInv, Die
    PROVE  /\ bodies' = bodies
           /\ statuses' = [p \in Pushes |->
                IF statuses[p] \in {"pending", "committed"} THEN "lost" ELSE statuses[p]]
<1>1. ASSUME NEW p \in Pushes
      PROVE  /\ push'[p].body = push[p].body
             /\ push'[p].pc = IF Busy(p) THEN "lost" ELSE push[p].pc
  <2>1. push'[p] = IF Busy(p) THEN [push[p] EXCEPT !.pc = "lost", !.inode = NoInode] ELSE push[p]
    BY DEF Die
  <2>2. push[p] \in PushStates
    BY DEF PublishInv, TypeInv, PushesTyped
  <2>3. QED
    BY <2>1, <2>2 DEF PushStates
<1>2. ASSUME NEW p \in Pushes
      PROVE  StatusOf(p)' = IF StatusOf(p) \in {"pending", "committed"} THEN "lost" ELSE StatusOf(p)
  <2>1. push[p].pc \in {"idle", "received", "writing", "synced", "renamed", "created", "refused",
                        "lost"}
    BY DEF PublishInv, TypeInv, PushesTyped, PushStates
  <2>2. StatusOf(p)' = IF push'[p].pc \in {"received", "writing", "synced"} THEN "pending"
                       ELSE IF push'[p].pc = "renamed" THEN "committed" ELSE push'[p].pc
    BY DEF StatusOf
  <2>3. QED
    BY <1>1, <2>1, <2>2, StatusCases DEF Busy
<1>3. QED
  BY <1>1, <1>2 DEF bodies, statuses

\* The registry starts as an atomic store.
LEMMA StoreInit == Init => Store!Init
<1> SUFFICES ASSUME Init PROVE Store!Init
  OBVIOUS
<1>1. ImageAt(names.final) \in Bodies \cup {NoBody}
  <2>1. CASE names = [final |-> NoInode, partial |-> NoInode]
    BY <2>1 DEF ImageAt
  <2>2. ASSUME NEW i \in Inodes, NEW b \in Bodies,
               names = [final |-> i, partial |-> NoInode],
               content = [j \in Inodes |-> IF j = i THEN Whole(b) ELSE << >>]
        PROVE  ImageAt(names.final) \in Bodies \cup {NoBody}
    BY <2>2, ImageIs
  <2>3. QED
    BY <2>1, <2>2 DEF Init
<1>2. stable = names /\ push = [p \in Pushes |-> IdlePush]
  BY DEF Init
<1>3. bodies = [p \in Pushes |-> NoBody] /\ statuses = [p \in Pushes |-> "idle"]
  BY <1>2 DEF bodies, statuses, IdlePush, StatusOf
<1>4. QED
  BY <1>1, <1>2, <1>3 DEF Store!Init, bodies, statuses

\* Steps the store does not see.
LEMMA Unseen ==
    ASSUME UNCHANGED << ImageAt(names.final), ImageAt(stable.final), bodies, statuses >>
    PROVE  UNCHANGED Store!vars
BY DEF Store!vars, bodies, statuses

\* A step of a push is a step of the atomic store, or does not show in it.
LEMMA StorePush ==
    ASSUME PublishInv, PublishInv', NEW p \in Pushes,
           \/ Receive(p) \/ RefuseBody(p) \/ Create(p) \/ WriteChunk(p) \/ Sync(p)
           \/ Rename(p) \/ Confirm(p) \/ PushFails(p) \/ GiveUp(p)
    PROVE  [Store!Next]_(Store!vars)
<1>1. push[p] \in PushStates /\ push \in [Pushes -> PushStates]
  BY DEF PublishInv, TypeInv, PushesTyped
<1>2. ASSUME \A q \in Pushes : q # p => push'[q] = push[q],
             push'[p].body = push[p].body, StatusOf(p)' = StatusOf(p),
             UNCHANGED << ImageAt(names.final), ImageAt(stable.final) >>
      PROVE  [Store!Next]_(Store!vars)
  <2>1. statuses' = statuses /\ bodies' = bodies
    BY <1>2, OneStatus DEF statuses, bodies
  <2>2. QED
    BY <1>2, <2>1, Unseen
<1>3. ASSUME NEW i \in Inodes, NEW c, content' = [content EXCEPT ![i] = c], i = names'.partial,
             names'.final = names.final, UNCHANGED stable
      PROVE  UNCHANGED << ImageAt(names.final), ImageAt(stable.final) >>
  <2>1. i \notin {names.final, stable.final}
    BY <1>3, RegistryAssumption DEF PublishInv, PartialsApart
  <2>2. \A j \in {names.final, stable.final} : content'[j] = content[j]
    BY <1>3, <2>1
  <2>3. QED
    BY <1>3, <2>2, ImagesStay
<1>4. CASE Receive(p)
  <2>1. PICK b \in Bodies : push' = [push EXCEPT ![p].pc = "received", ![p].body = b]
    BY <1>4 DEF Receive
  <2>2. push'[p].pc = "received" /\ push'[p].body = b
    BY <1>1, <2>1 DEF PushStates
  <2>3. StatusOf(p)' = "pending" /\ StatusOf(p) = "idle"
    BY <1>4, <2>2 DEF StatusOf, Receive
  <2>4. statuses' = [statuses EXCEPT ![p] = "pending"] /\ bodies' = [bodies EXCEPT ![p] = b]
    BY <1>1, <2>1, <2>2, <2>3, OneStatus
  <2>5. UNCHANGED << ImageAt(names.final), ImageAt(stable.final) >>
    BY <1>4, ImagesStay DEF Receive, fileVars
  <2>6. Store!Begin(p)
    BY <2>3, <2>4, <2>5 DEF Store!Begin, statuses, bodies
  <2>7. QED
    BY <2>6 DEF Store!Next
<1>5. CASE Create(p)
  <2>1. PICK i \in Inodes :
        /\ names' = [names EXCEPT !.partial = i]
        /\ content' = [content EXCEPT ![i] = << >>]
        /\ push' = [push EXCEPT ![p].pc = "writing", ![p].inode = i, ![p].pos = 0]
    BY <1>5 DEF Create, CreateKeeping
  <2>2. names'.final = names.final /\ names'.partial = i
    BY <2>1 DEF PublishInv, TypeInv, FilesTyped
  <2>3. UNCHANGED << ImageAt(names.final), ImageAt(stable.final) >>
    BY <1>3, <1>5, <2>1, <2>2 DEF Create, CreateKeeping
  <2>4. push'[p].pc = "writing" /\ push'[p].body = push[p].body
    BY <1>1, <2>1 DEF PushStates
  <2>5. StatusOf(p)' = StatusOf(p)
    BY <1>5, <2>4 DEF StatusOf, Create, CreateKeeping
  <2>6. QED
    BY <1>1, <1>2, <2>1, <2>3, <2>4, <2>5
<1>6. CASE WriteChunk(p)
  <2> DEFINE i == push[p].inode
             c == Put(content[i], push[p].pos + 1, << push[p].body, push[p].pos + 1 >>)
  <2>1. i \in Inodes /\ i = names.partial
    BY <1>6 DEF WriteChunk, PublishInv, Writing, TypeInv, PushesTyped, PushTyped
  <2>2. content' = [content EXCEPT ![i] = c] /\ UNCHANGED << names, stable >>
    BY <1>6, <2>1 DEF WriteChunk
  <2>3. UNCHANGED << ImageAt(names.final), ImageAt(stable.final) >>
    <3> HIDE DEF i, c
    <3>1. QED
      BY <1>3, <2>1, <2>2
  <2>4. push' = [push EXCEPT ![p].pos = push[p].pos + 1]
    BY <1>6 DEF WriteChunk
  <2>5. push'[p].pc = push[p].pc /\ push'[p].body = push[p].body
    BY <1>1, <2>4 DEF PushStates
  <2>6. StatusOf(p)' = StatusOf(p)
    BY <2>5 DEF StatusOf
  <2>7. QED
    BY <1>1, <1>2, <2>3, <2>4, <2>5, <2>6
<1>7. CASE Sync(p)
  <2>1. push[p].pc = "writing" /\ push'[p].pc = "synced" /\ push'[p].body = push[p].body
        /\ \A q \in Pushes : q # p => push'[q] = push[q]
    BY <1>1, <1>7 DEF Sync, SyncLeaving, PushStates
  <2>2. StatusOf(p)' = StatusOf(p)
    BY <2>1 DEF StatusOf
  <2>3. UNCHANGED << ImageAt(names.final), ImageAt(stable.final) >>
    BY <1>7, ImagesStay DEF Sync, SyncLeaving
  <2>4. QED
    BY <1>2, <2>1, <2>2, <2>3
<1>8. CASE Rename(p)
  <2>1. push[p].pc = "synced" /\ push'[p].pc = "renamed" /\ push'[p].body = push[p].body
        /\ \A q \in Pushes : q # p => push'[q] = push[q]
    BY <1>1, <1>8 DEF Rename, PushStates
  <2>2. StatusOf(p) = "pending" /\ StatusOf(p)' = "committed"
    BY <2>1 DEF StatusOf
  <2>3. push[p].body \in Ours /\ names.partial \in Inodes
        /\ content[names.partial] = Whole(push[p].body)
    BY <2>1 DEF PublishInv, Synced
  <2>4. ImageAt(names.final)' = push[p].body
    <3>1. names'.final = names.partial /\ content' = content
      BY <1>8 DEF Rename
    <3>2. ImageAt(names.partial) = push[p].body
      BY <2>3, ImageIs DEF Ours
    <3>3. QED
      BY <3>1, <3>2 DEF ImageAt
  <2>5. UNCHANGED ImageAt(stable.final)
    BY <1>8 DEF Rename, ImageAt
  <2>6. statuses' = [statuses EXCEPT ![p] = "committed"] /\ bodies' = bodies
    BY <2>1, <2>2, OneStatus DEF bodies
  <2>7. Store!Commit(p)
    BY <2>2, <2>3, <2>4, <2>5, <2>6 DEF Store!Commit, statuses, bodies
  <2>8. QED
    BY <2>7 DEF Store!Next
<1>9. ASSUME NEW result \in {"created", "refused"}, Return(p, result), UNCHANGED fileVars,
             StatusOf(p) = IF result = "created" THEN "committed" ELSE "pending"
      PROVE  [Store!Next]_(Store!vars)
  <2>1. push'[p].pc = result /\ push'[p].body = push[p].body
        /\ \A q \in Pushes : q # p => push'[q] = push[q]
    BY <1>1, <1>9 DEF Return, PushStates
  <2>2. StatusOf(p)' = result
    BY <2>1 DEF StatusOf
  <2>3. statuses' = [statuses EXCEPT ![p] = result] /\ bodies' = bodies
    BY <2>1, <2>2, OneStatus DEF bodies
  <2>4. UNCHANGED << ImageAt(names.final), ImageAt(stable.final) >>
    BY <1>9, ImagesStay DEF fileVars
  <2>5. Store!Confirm(p) \/ Store!Refuse(p)
    BY <1>9, <2>3, <2>4 DEF Store!Confirm, Store!Refuse, statuses, bodies
  <2>6. QED
    BY <2>5 DEF Store!Next
<1>10. CASE RefuseBody(p) \/ Confirm(p) \/ PushFails(p)
  BY <1>9, <1>10 DEF RefuseBody, Confirm, PushFails, StatusOf
<1>11. CASE GiveUp(p)
  BY <1>2, <1>11, ImagesStay DEF GiveUp, fileVars, StatusOf
<1>12. QED
  BY <1>4, <1>5, <1>6, <1>7, <1>8, <1>10, <1>11

\* So is every step of the registry.
LEMMA StoreStep ==
    ASSUME PublishInv, PublishInv', [Next]_vars
    PROVE  [Store!Next]_(Store!vars)
<1>1. ASSUME UNCHANGED << content, names, stable, push >>
      PROVE  [Store!Next]_(Store!vars)
  BY <1>1, Unseen DEF ImageAt, bodies, statuses, StatusOf
<1>2. CASE UNCHANGED vars
  BY <1>1, <1>2 DEF vars
<1>3. ASSUME NEW r \in Readers,
           \/ ManifestOpen(r) \/ ManifestRead(r) \/ ClustersLocate(r) \/ ClustersOpen(r)
           \/ StreamUnit(r) \/ PullEnds(r) \/ PullFails(r)
      PROVE  [Store!Next]_(Store!vars)
  BY <1>1, <1>3 DEF ManifestOpen, ManifestRead, ClustersLocate, ClustersOpen, StreamUnit,
                    StreamFrom, PullEnds, PullFails, serverVars, fileVars
<1>4. CASE FlushNames
  <2>1. ImageAt(stable.final)' = ImageAt(names.final) /\ ImageAt(names.final)' = ImageAt(names.final)
    BY <1>4 DEF FlushNames, ImageAt
  <2>2. bodies' = bodies /\ statuses' = statuses
    BY <1>4 DEF FlushNames, bodies, statuses, StatusOf
  <2>3. Store!Persist
    BY <2>1, <2>2 DEF Store!Persist, bodies, statuses
  <2>4. QED
    BY <2>3 DEF Store!Next
<1>5. CASE ServerCrash \/ PowerLoss
  <2>1. /\ bodies' = bodies
        /\ statuses' = [p \in Pushes |->
              IF statuses[p] \in {"pending", "committed"} THEN "lost" ELSE statuses[p]]
    BY <1>5, StatusesLost DEF ServerCrash, PowerLoss
  <2>2. /\ ImageAt(names.final)' \in {ImageAt(names.final), ImageAt(stable.final)}
        /\ ImageAt(stable.final)' = ImageAt(stable.final)
    <3>1. CASE ServerCrash
      BY <3>1 DEF ServerCrash, fileVars, ImageAt
    <3>2. CASE PowerLoss
      <4>1. names' = stable /\ stable' = stable
        BY <3>2 DEF PowerLoss
      <4>2. stable.final # NoInode => content'[stable.final] = content[stable.final]
        BY <3>2 DEF PowerLoss, PublishInv, FinalsGood, Good
      <4>3. ImageAt(stable.final)' = ImageAt(stable.final)
        BY <4>1, <4>2, ImagesOf DEF ImageOf
      <4>4. QED
        BY <4>1, <4>3, ImagesOf
    <3>3. QED
      BY <1>5, <3>1, <3>2
  <2>3. Store!Crash
    BY <2>1, <2>2 DEF Store!Crash, bodies, statuses
  <2>4. QED
    BY <2>3 DEF Store!Next
<1>6. QED
  BY <1>2, <1>3, <1>4, <1>5, StorePush DEF Next

\* The registry implements the store its pushers were promised: by the rename an
\* upload replaces the image before it at once, a refused push changes nothing, and
\* after a crash the image is the last one or the one that is on disk.
THEOREM ImplementsAtomicStore ==
    ASSUME Serial PROVE Spec => PublishesAtomically
<1>1. Spec => []PublishInv
  BY PublishInit, PublishStep, PTL DEF Spec
<1>2. PublishInv /\ PublishInv' /\ [Next]_vars => [Store!Next]_(Store!vars)
  BY StoreStep
<1>3. QED
  BY <1>1, <1>2, StoreInit, PTL DEF Spec, PublishesAtomically, Store!Spec

(***************************************************************************)
(* Readers.                                                                *)
(***************************************************************************)

\* What a reader has received is a piece of one image, and the rest of it comes
\* from a file that holds this image and that no push writes to.
Piece(got, b, o) == \A k \in DOMAIN got : got[k] = << b, o + k >>

Streaming(r) ==
    /\ \E b \in Bodies, o \in Int : Piece(pull[r].got, b, o)
    /\ pull[r].pc \in {"idle", "opened", "manifest", "located"} => pull[r].got = << >>
    /\ pull[r].pc = "streaming" =>
         /\ pull[r].inode # names.partial
         /\ \E b \in Ours :
              /\ content[pull[r].inode] = Whole(b)
              /\ Piece(pull[r].got, b, pull[r].at - Len(pull[r].got) - 1)

\* What a reader that was not disturbed has of the image b: the ends of the
\* file, and a window of the clusters, all of them if it pulls.
Ends(r, b) == pull[r].head = << b, 1 >> /\ pull[r].tail = << b, TailAt(b) >>
Window(r, b) ==
    /\ pull[r].at - Len(pull[r].got) >= 2 /\ pull[r].at + pull[r].left <= TailAt(b)
    /\ r \in Pulls => /\ pull[r].at - Len(pull[r].got) = 2
                      /\ pull[r].at + pull[r].left = TailAt(b)
Published(b) == names.final # NoInode /\ content[names.final] = Whole(b)

Calm(r) ==
    pull[r].calm =>
        /\ \A k \in DOMAIN pull[r].got :
             pull[r].got[k][2] \in 2..TailAt(pull[r].got[k][1]) - 1
        /\ pull[r].pc = "opened" => \E b \in Ours : Published(b) /\ pull[r].head = << b, 1 >>
        /\ pull[r].pc = "manifest" => \E b \in Ours : Published(b) /\ Ends(r, b)
        /\ pull[r].pc = "located" =>
             \E b \in Ours : Published(b) /\ (r \in Pulls => Ends(r, b)) /\ Window(r, b)
        /\ pull[r].pc = "streaming" =>
             \E b \in Ours : /\ content[pull[r].inode] = Whole(b)
                             /\ (r \in Pulls => Ends(r, b)) /\ Window(r, b)
        /\ pull[r].pc = "pulled" /\ r \in Pulls => Dest(r) \in {Whole(b) : b \in Bodies}

ReadInv == PublishInv /\ \A r \in Readers : Streaming(r)
CalmInv == ReadInv /\ \A r \in Readers : Calm(r)

\* Nobody has read anything at the start.
LEMMA ReadInit == Init => CalmInv
<1> SUFFICES ASSUME Init PROVE CalmInv
  OBVIOUS
<1>1. PublishInv
  BY PublishInit
<1>2. PICK b \in Bodies : TRUE
  BY RegistryAssumption
<1>3. \A r \in Readers : pull[r].pc = "idle" /\ pull[r].got = << >>
  BY DEF Init, IdlePull
<1>4. Piece(<< >>, b, 0)
  BY DEF Piece
<1>5. QED
  BY <1>1, <1>3, <1>4 DEF CalmInv, ReadInv, Streaming, Calm

\* A reader whose files stay as they are keeps what it has.
LEMMA ReaderStays ==
    ASSUME NEW r \in Readers, Streaming(r),
           \A f \in {"pc", "head", "tail", "at", "left", "inode", "got"} :
               pull'[r][f] = pull[r][f],
           pull'[r].calm => pull[r].calm,
           pull[r].pc = "streaming" => /\ content'[pull[r].inode] = content[pull[r].inode]
                                       /\ pull[r].inode # names'.partial,
           pull'[r].calm /\ pull[r].pc \in {"opened", "manifest", "located"} =>
               names'.final = names.final /\ content'[names.final] = content[names.final]
    PROVE  Streaming(r)' /\ (Calm(r) => Calm(r)')
<1>1. /\ pull'[r].pc = pull[r].pc /\ pull'[r].head = pull[r].head /\ pull'[r].tail = pull[r].tail
      /\ pull'[r].at = pull[r].at /\ pull'[r].left = pull[r].left
      /\ pull'[r].inode = pull[r].inode /\ pull'[r].got = pull[r].got
  OBVIOUS
<1>2. Streaming(r)'
  BY <1>1 DEF Streaming
<1>3. ASSUME Calm(r), pull'[r].calm
      PROVE  /\ pull'[r].pc = "opened" =>
                  \E b \in Ours : Published(b)' /\ pull'[r].head = << b, 1 >>
             /\ pull'[r].pc = "manifest" => \E b \in Ours : Published(b)' /\ Ends(r, b)'
             /\ pull'[r].pc = "located" =>
                  \E b \in Ours : Published(b)' /\ (r \in Pulls => Ends(r, b)') /\ Window(r, b)'
  BY <1>1, <1>3 DEF Calm, Published, Ends, Window
<1>4. ASSUME Calm(r), pull'[r].calm
      PROVE  pull'[r].pc = "streaming" =>
                \E b \in Ours : /\ content'[pull'[r].inode] = Whole(b)
                                /\ (r \in Pulls => Ends(r, b)') /\ Window(r, b)'
  BY <1>1, <1>4 DEF Calm, Ends, Window
<1>5. Dest(r)' = Dest(r)
  BY <1>1 DEF Dest
<1>6. Calm(r) => Calm(r)'
  BY <1>1, <1>3, <1>4, <1>5 DEF Calm
<1>7. QED
  BY <1>2, <1>6

\* A reader that fails keeps what it has received.
LEMMA ReaderFails ==
    ASSUME NEW r \in Readers, Streaming(r), pull'[r].got = pull[r].got,
           pull'[r].pc = "error", pull'[r].calm = pull[r].calm
    PROVE  Streaming(r)' /\ (Calm(r) => Calm(r)')
BY DEF Streaming, Calm

\* Pushes write to the partial file, which no reader has open, or to a new one.
LEMMA PushesDisturbNobody ==
    ASSUME ReadInv, NEW p \in Pushes,
           \/ Receive(p) \/ RefuseBody(p) \/ Create(p) \/ WriteChunk(p) \/ Sync(p)
           \/ Rename(p) \/ Confirm(p) \/ PushFails(p) \/ GiveUp(p),
           NEW r \in Readers
    PROVE  Streaming(r)' /\ (Calm(r) => Calm(r)')
<1>1. /\ Streaming(r) /\ pull[r] \in PullStates
      /\ pull[r].pc = "streaming" => pull[r].inode \in Inodes /\ pull[r].inode # names.partial
      /\ names.final # NoInode => names.final \in Inodes /\ names.final # names.partial
      /\ NoInode \notin Inodes
  BY RegistryAssumption
     DEF ReadInv, PublishInv, Streaming, TypeInv, PullsTyped, PullTyped, FilesTyped, FinalsGood,
         Good, PartialsApart
<1>2. CASE Rename(p)
  <2>1. pull'[r] = [pull[r] EXCEPT !.calm = @ /\ pull[r].pc \notin {"opened", "manifest", "located"}]
    BY <1>2 DEF Rename, Disturb
  <2>2. \A f \in {"pc", "head", "tail", "at", "left", "inode", "got"} : pull'[r][f] = pull[r][f]
    BY <1>1, <2>1 DEF PullStates
  <2>3. pull'[r].calm => pull[r].calm /\ pull[r].pc \notin {"opened", "manifest", "located"}
    BY <1>1, <2>1 DEF PullStates
  <2>4. UNCHANGED content /\ names'.partial = NoInode
    BY <1>2 DEF Rename
  <2>5. QED
    BY <1>1, <2>2, <2>3, <2>4, ReaderStays
<1>3. ASSUME NEW i \in Inodes, i = names.partial \/ i \notin Named \cup Held,
             \A j \in Inodes : j # i => content'[j] = content[j],
             UNCHANGED pull, names'.final = names.final, names'.partial \in {names.partial, i}
      PROVE  Streaming(r)' /\ (Calm(r) => Calm(r)')
  <2>1. i # names.final
    BY <1>1, <1>3 DEF Named, ReadInv, PublishInv, TypeInv, FilesTyped
  <2>2. pull[r].pc = "streaming" => i # pull[r].inode
    BY <1>1, <1>3 DEF Held
  <2>3. CASE names.final = NoInode
    <3>1. CASE pull[r].calm /\ pull[r].pc \in {"opened", "manifest", "located"}
      <4>1. ~Calm(r)
        BY <2>3, <3>1 DEF Calm, Published
      <4>2. Streaming(r)'
        BY <1>1, <1>3, <3>1 DEF Streaming
      <4>3. QED
        BY <4>1, <4>2
    <3>2. CASE ~(pull[r].calm /\ pull[r].pc \in {"opened", "manifest", "located"})
      BY <1>1, <1>3, <2>2, <3>2, ReaderStays
    <3>3. QED
      BY <3>1, <3>2
  <2>4. CASE names.final # NoInode
    BY <1>1, <1>3, <2>1, <2>2, <2>4, ReaderStays
  <2>5. QED
    BY <2>3, <2>4
<1>4. CASE Create(p)
  <2>1. PICK i \in Inodes :
          /\ IF Exists("partial") THEN i = names.partial ELSE Fresh(i)
          /\ names' = [names EXCEPT !.partial = i]
          /\ content' = [content EXCEPT ![i] = << >>]
    BY <1>4 DEF Create, CreateKeeping
  <2>2. i = names.partial \/ i \notin Named \cup Held
    BY <2>1 DEF Fresh
  <2>3. names'.final = names.final /\ names'.partial = i /\ UNCHANGED pull
    BY <1>4, <2>1 DEF Create, CreateKeeping, ReadInv, PublishInv, TypeInv, FilesTyped
  <2>4. \A j \in Inodes : j # i => content'[j] = content[j]
    BY <2>1 DEF ReadInv, PublishInv, TypeInv, FilesTyped
  <2>5. QED
    BY <1>3, <2>2, <2>3, <2>4
<1>5. CASE WriteChunk(p)
  <2>1. push[p].inode = names.partial /\ push[p].inode \in Inodes
    BY <1>5 DEF WriteChunk, ReadInv, PublishInv, Writing, TypeInv, PushesTyped, PushTyped
  <2>2. UNCHANGED << names, pull >>
        /\ \A j \in Inodes : j # push[p].inode => content'[j] = content[j]
    BY <1>5 DEF WriteChunk, ReadInv, PublishInv, TypeInv, FilesTyped
  <2>3. QED
    BY <1>3, <2>1, <2>2
<1>6. CASE UNCHANGED << content, names, pull >>
  BY <1>1, <1>6, ReaderStays
<1>7. QED
  BY <1>2, <1>4, <1>5, <1>6
     DEF Receive, RefuseBody, Sync, SyncLeaving, Confirm, PushFails, GiveUp, fileVars

\* A published image, as readers find it.
LEMMA PublishedFacts ==
    ASSUME ReadInv, Exists("final")
    PROVE  /\ names.final \in Inodes /\ names.final # names.partial
           /\ \E b \in Ours : Published(b)
BY RegistryAssumption
   DEF ReadInv, PublishInv, FinalsGood, Good, PartialsApart, Exists, Published

\* The bounds of a complete image are those of its clusters.
LEMMA WholeFacts ==
    ASSUME NEW b \in Ours
    PROVE  /\ b \in Bodies /\ Whole(b)[1] = << b, 1 >>
           /\ Whole(b)[TailAt(b)] = << b, TailAt(b) >>
           /\ Bounds(Whole(b)) = {<< 2, TailAt(b) >>}
<1>1. b \in Bodies /\ TailAt(b) \in Nat /\ TailAt(b) >= 2
  BY Lengths DEF Ours
<1>2. Whole(b)[1] = << b, 1 >> /\ Whole(b)[TailAt(b)] = << b, TailAt(b) >>
  BY <1>1, WholeType
<1>3. QED
  BY <1>1, <1>2 DEF Bounds

\* A step of one reader leaves the others alone.
LEMMA OthersKeep ==
    ASSUME ReadInv, NEW r \in Readers, UNCHANGED serverVars,
           \A q \in Readers : q # r => pull'[q] = pull[q],
           NEW q \in Readers, q # r
    PROVE  Streaming(q)' /\ (Calm(q) => Calm(q)')
BY ReaderStays DEF ReadInv, Streaming, serverVars, fileVars

\* The two opens of a manifest request: between them nothing is published, or the
\* reader is disturbed.
LEMMA ManifestReads ==
    ASSUME ReadInv, NEW r \in Readers, ManifestOpen(r) \/ ManifestRead(r)
    PROVE  Streaming(r)' /\ (Calm(r) => Calm(r)')
<1>1. PICK b \in Ours : Published(b)
  BY PublishedFacts DEF ManifestOpen, ManifestRead
<1>2. /\ At("final") = Whole(b) /\ b \in Bodies /\ Whole(b)[1] = << b, 1 >>
      /\ Whole(b)[TailAt(b)] = << b, TailAt(b) >>
  BY <1>1, WholeFacts DEF Published, At
<1>3. Streaming(r) /\ pull \in [Readers -> PullStates]
  BY DEF ReadInv, PublishInv, TypeInv, PullsTyped
<1>4. Published(b)'
  BY <1>1 DEF ManifestOpen, ManifestRead, serverVars, fileVars, Published
<1>5. CASE ManifestOpen(r)
  <2>1. /\ pull'[r].pc = "opened" /\ pull'[r].head = << b, 1 >> /\ pull'[r].got = pull[r].got
        /\ pull'[r].calm = pull[r].calm /\ pull[r].pc = "idle"
    BY <1>2, <1>3, <1>5 DEF ManifestOpen, PullStates
  <2>2. Streaming(r)'
    BY <1>3, <2>1 DEF Streaming
  <2>3. pull'[r].got = << >>
    BY <1>3, <2>1 DEF Streaming
  <2>4. Calm(r)'
    BY <1>4, <2>1, <2>3 DEF Calm
  <2>5. QED
    BY <2>2, <2>4
<1>6. CASE ManifestRead(r)
  <2>1. /\ pull'[r].pc = "manifest" /\ pull'[r].head = << b, 1 >> /\ pull'[r].got = pull[r].got
        /\ pull'[r].calm = pull[r].calm /\ pull[r].pc = "opened"
        /\ pull'[r].tail = Whole(b)[TailAt(pull[r].head[1])]
    BY <1>2, <1>3, <1>6 DEF ManifestRead, PullStates
  <2>2. Streaming(r)' /\ pull'[r].got = << >>
    BY <1>3, <2>1 DEF Streaming
  <2>3. Calm(r) /\ pull[r].calm => pull'[r].tail = << b, TailAt(b) >>
    <3>1. Calm(r) /\ pull[r].calm => \E c \in Ours : Published(c) /\ pull[r].head = << c, 1 >>
      BY <2>1 DEF Calm
    <3>2. \A c \in Ours : Published(c) => c = b
      BY <1>1, WholeInjective DEF Published, Ours
    <3>3. Calm(r) /\ pull[r].calm => pull[r].head = << b, 1 >>
      BY <3>1, <3>2
    <3>4. << b, 1 >>[1] = b
      OBVIOUS
    <3>5. QED
      BY <1>2, <2>1, <3>3, <3>4
  <2>4. Calm(r) => Calm(r)'
    BY <1>4, <2>1, <2>2, <2>3 DEF Calm, Ends
  <2>5. QED
    BY <2>2, <2>4
<1>7. QED
  BY <1>5, <1>6

\* What is streamed of a complete image are clusters; all of them, if no range
\* is asked for and there is one.
LEMMA Located ==
    ASSUME ReadInv, NEW r \in Readers, ClustersLocate(r)
    PROVE  /\ Streaming(r)'
           /\ (\A b \in Bodies : b.clusters > 0) /\ Calm(r) => Calm(r)'
<1>1. PICK b \in Ours : Published(b)
  BY PublishedFacts DEF ClustersLocate
<1>2. /\ At("final") = Whole(b) /\ b \in Bodies /\ Bounds(Whole(b)) = {<< 2, TailAt(b) >>}
      /\ TailAt(b) = b.clusters + 2 /\ b.clusters \in Nat
  BY <1>1, WholeFacts, RegistryAssumption DEF Published, At, TailAt
<1>3. Streaming(r) /\ pull \in [Readers -> PullStates] /\ pull[r].pc \in {"idle", "manifest"}
  BY DEF ReadInv, PublishInv, TypeInv, PullsTyped, ClustersLocate
<1>4. PICK range \in IF r \in Pulls THEN {NoRange} ELSE Ranges :
        \E w \in parse_range_header(range, b.clusters) :
             pull' = [pull EXCEPT ![r].pc = "located", ![r].at = 2 + w[1],
                                  ![r].left = w[2] - w[1] + 1]
  <2>1. PICK region \in Bounds(At("final")), range \in IF r \in Pulls THEN {NoRange} ELSE Ranges :
         \E w \in parse_range_header(range, region[2] - region[1]) :
             pull' = [pull EXCEPT ![r].pc = "located", ![r].at = region[1] + w[1],
                                  ![r].left = w[2] - w[1] + 1]
    BY DEF ClustersLocate
  <2>2. region[1] = 2 /\ region[2] = TailAt(b)
    BY <1>2, <2>1
  <2>3. region[2] - region[1] = b.clusters
    BY <1>2, <2>2
  <2>4. QED
    BY <2>1, <2>2, <2>3
<1>5. PICK w \in parse_range_header(range, b.clusters) :
        pull' = [pull EXCEPT ![r].pc = "located", ![r].at = 2 + w[1], ![r].left = w[2] - w[1] + 1]
  BY <1>4
<1>6. /\ pull'[r].pc = "located" /\ pull'[r].at = 2 + w[1] /\ pull'[r].left = w[2] - w[1] + 1
      /\ pull'[r].got = pull[r].got /\ pull'[r].calm = pull[r].calm
      /\ pull'[r].head = pull[r].head /\ pull'[r].tail = pull[r].tail
  BY <1>3, <1>5 DEF PullStates
<1>7. Streaming(r)' /\ pull'[r].got = << >>
  BY <1>3, <1>6 DEF Streaming
<1>8. ASSUME b.clusters > 0
      PROVE  Window(r, b)'
  <2>1. w[1] \in Nat /\ w[2] \in Nat /\ w[1] <= w[2] /\ w[2] < b.clusters
    BY <1>2, <1>8, RangeFacts
  <2>2. r \in Pulls => w[1] = 0 /\ w[2] = b.clusters - 1
    BY <1>8 DEF parse_range_header
  <2>3. Len(pull'[r].got) = 0
    BY <1>7
  <2>4. QED
    BY <1>2, <1>6, <2>1, <2>2, <2>3 DEF Window
<1>9. Published(b)'
  BY <1>1 DEF ClustersLocate, serverVars, fileVars, Published
<1>10. ASSUME Calm(r), pull[r].calm, r \in Pulls
       PROVE  Ends(r, b)'
  <2>1. \E c \in Ours : Published(c) /\ Ends(r, c)
    BY <1>10 DEF ClustersLocate, Calm
  <2>2. \A c \in Ours : Published(c) => c = b
    BY <1>1, WholeInjective DEF Published, Ours
  <2>3. QED
    BY <1>6, <2>1, <2>2 DEF Ends
<1>11. ASSUME b.clusters > 0, Calm(r)
       PROVE  Calm(r)'
  BY <1>6, <1>7, <1>8, <1>9, <1>10, <1>11 DEF Calm
<1>12. QED
  BY <1>2, <1>7, <1>11

\* The stream starts from the file that is published now.
LEMMA Opened ==
    ASSUME ReadInv, NEW r \in Readers, ClustersOpen(r)
    PROVE  Streaming(r)' /\ (Calm(r) => Calm(r)')
<1>1. /\ names.final # names.partial
      /\ \E b \in Ours : Published(b)
  BY PublishedFacts DEF ClustersOpen
<1>2. PICK b \in Ours : Published(b)
  BY <1>1
<1>3. /\ Streaming(r) /\ pull \in [Readers -> PullStates] /\ pull[r].pc = "located"
      /\ UNCHANGED << content, names >>
  BY DEF ReadInv, PublishInv, TypeInv, PullsTyped, ClustersOpen, serverVars, fileVars
<1>4. /\ pull'[r].pc = "streaming" /\ pull'[r].inode = names.final
      /\ pull'[r].got = pull[r].got /\ pull'[r].calm = pull[r].calm
      /\ pull'[r].head = pull[r].head /\ pull'[r].tail = pull[r].tail
      /\ pull'[r].at = pull[r].at /\ pull'[r].left = pull[r].left
  BY <1>3 DEF ClustersOpen, PullStates
<1>5. pull'[r].got = << >>
  BY <1>3, <1>4 DEF Streaming
<1>6. Piece(pull'[r].got, b, pull'[r].at - Len(pull'[r].got) - 1) /\ content'[names.final] = Whole(b)
  BY <1>2, <1>3, <1>5 DEF Piece, Published
<1>7. Streaming(r)'
  BY <1>1, <1>3, <1>4, <1>6 DEF Streaming
<1>8. ASSUME Calm(r), pull[r].calm
      PROVE  (r \in Pulls => Ends(r, b)') /\ Window(r, b)'
  <2>1. \E c \in Ours : Published(c) /\ (r \in Pulls => Ends(r, c)) /\ Window(r, c)
    BY <1>3, <1>8 DEF Calm
  <2>2. \A c \in Ours : Published(c) => c = b
    BY <1>2, WholeInjective DEF Published, Ours
  <2>3. QED
    BY <1>4, <2>1, <2>2 DEF Ends, Window
<1>9. Calm(r) => Calm(r)'
  BY <1>4, <1>5, <1>6, <1>8 DEF Calm
<1>10. QED
  BY <1>7, <1>9

\* A unit streamed is the next one of the image.
LEMMA Streamed ==
    ASSUME ReadInv, NEW r \in Readers, StreamUnit(r)
    PROVE  Streaming(r)' /\ (Calm(r) => Calm(r)')
<1> DEFINE got == pull[r].got
           at == pull[r].at
           n == Len(pull[r].got)
<1>1. /\ Streaming(r) /\ pull \in [Readers -> PullStates] /\ pull[r].pc = "streaming"
      /\ UNCHANGED << content, names >>
      /\ pull[r].left > 0 /\ at <= Len(content[pull[r].inode]) /\ at >= 2
  BY DEF ReadInv, PublishInv, TypeInv, PullsTyped, PullTyped, StreamUnit, StreamFrom, serverVars,
         fileVars
<1>2. PICK b \in Ours : content[pull[r].inode] = Whole(b) /\ Piece(got, b, at - n - 1)
  BY <1>1 DEF Streaming
<1>3. b \in Bodies /\ TailAt(b) \in Nat /\ Len(Whole(b)) = TailAt(b)
      /\ at \in Nat /\ at \in 1..TailAt(b) /\ Whole(b)[at] = << b, at >>
  BY <1>1, <1>2, WholeType, Lengths DEF Ours, PullStates
<1>4. got \in Seq(Units) /\ n \in Nat /\ n = Len(got) /\ << b, at >> \in Units
  BY <1>1, <1>3, Lengths DEF PullStates, Units
<1>5. /\ pull'[r].pc = "streaming" /\ pull'[r].inode = pull[r].inode
      /\ pull'[r].got = Append(got, << b, at >>) /\ pull'[r].calm = pull[r].calm
      /\ pull'[r].head = pull[r].head /\ pull'[r].tail = pull[r].tail
      /\ pull'[r].at = at + 1 /\ pull'[r].left = pull[r].left - 1
  BY <1>1, <1>2, <1>3 DEF StreamUnit, StreamFrom, PullStates
<1> DEFINE got2 == Append(got, << b, at >>)
<1>6. /\ Len(got2) = n + 1 /\ got2 \in Seq(Units)
      /\ got2[n + 1] = << b, at >> /\ \A k \in 1..n : got2[k] = got[k]
  BY <1>4
<1>7. Piece(got2, b, at - n - 1)
  <2> HIDE DEF got, got2, at, n
  <2>1. ASSUME NEW k \in 1..n + 1
        PROVE  got2[k] = << b, (at - n - 1) + k >>
    <3>1. CASE k = n + 1
      <4>1. (at - n - 1) + k = at
        BY <1>3, <1>4, <3>1
      <4>2. QED
        BY <1>6, <3>1, <4>1
    <3>2. CASE k \in 1..n
      <4>1. k \in DOMAIN got
        BY <1>4, <3>2
      <4>2. got[k] = << b, (at - n - 1) + k >>
        BY <1>2, <4>1 DEF Piece
      <4>3. QED
        BY <1>6, <3>2, <4>2
    <3>3. QED
      BY <1>4, <3>1, <3>2
  <2>2. DOMAIN got2 = 1..n + 1
    BY <1>6
  <2>3. QED
    BY <2>1, <2>2 DEF Piece
<1>8. Piece(pull'[r].got, b, pull'[r].at - Len(pull'[r].got) - 1)
  <2>1. Len(pull'[r].got) = n + 1 /\ pull'[r].at = at + 1
    BY <1>5, <1>6
  <2>2. pull'[r].at - Len(pull'[r].got) - 1 = at - n - 1
    <3> HIDE DEF at, n
    <3>1. QED
      BY <1>3, <1>4, <2>1
  <2>3. QED
    BY <1>5, <1>7, <2>2
<1>9. Streaming(r)'
  <2>1. at - n - 1 \in Int
    BY <1>3, <1>4
  <2>2. \E c \in Bodies, o \in Int : Piece(pull'[r].got, c, o)
    BY <1>3, <1>5, <1>7, <2>1
  <2>3. QED
    BY <1>1, <1>2, <1>5, <1>8, <2>2 DEF Streaming
<1>10. ASSUME Calm(r), pull[r].calm
       PROVE  /\ (r \in Pulls => Ends(r, b)') /\ Window(r, b)'
              /\ \A k \in DOMAIN pull'[r].got :
                   pull'[r].got[k][2] \in 2..TailAt(pull'[r].got[k][1]) - 1
  <2>1. \E c \in Ours : /\ content[pull[r].inode] = Whole(c)
                        /\ (r \in Pulls => Ends(r, c)) /\ Window(r, c)
    BY <1>1, <1>10 DEF Calm
  <2>2. (r \in Pulls => Ends(r, b)) /\ Window(r, b)
    BY <1>2, <2>1, WholeInjective DEF Ours
  <2>3. pull[r].left \in Nat
    BY <1>1, Lengths DEF PullStates
  <2>4. (r \in Pulls => Ends(r, b)') /\ Window(r, b)'
    <3> DEFINE l == pull[r].left
    <3>1. Len(pull'[r].got) = n + 1 /\ pull'[r].at = at + 1 /\ pull'[r].left = l - 1
      BY <1>5, <1>6
    <3>2. /\ at - n >= 2 /\ at + l <= TailAt(b)
          /\ r \in Pulls => at - n = 2 /\ at + l = TailAt(b)
      BY <2>2 DEF Window
    <3>3. (at + 1) - (n + 1) = at - n /\ (at + 1) + (l - 1) = at + l
      <4> HIDE DEF at, n, l
      <4>1. at \in Nat /\ n \in Nat /\ l \in Nat
        BY <1>3, <1>4, <2>3 DEF l
      <4>2. QED
        BY <4>1
    <3>4. Window(r, b)'
      <4> HIDE DEF at, n, l
      <4>1. QED
        BY <3>1, <3>2, <3>3 DEF Window
    <3>5. r \in Pulls => Ends(r, b)'
      BY <1>5, <2>2 DEF Ends
    <3>6. QED
      BY <3>4, <3>5
  <2>5. at \in 2..TailAt(b) - 1
    BY <1>1, <1>3, <2>2, <2>3 DEF Window
  <2>6. ASSUME NEW k \in 1..n + 1
        PROVE  got2[k][2] \in 2..TailAt(got2[k][1]) - 1
    <3>1. CASE k = n + 1
      BY <1>6, <2>5, <3>1
    <3>2. CASE k \in 1..n
      <4>1. k \in DOMAIN got
        BY <1>4, <3>2
      <4>2. got[k][2] \in 2..TailAt(got[k][1]) - 1
        BY <1>10, <4>1 DEF Calm
      <4>3. QED
        BY <1>6, <3>2, <4>2
    <3>3. QED
      BY <1>4, <3>1, <3>2
  <2>7. DOMAIN got2 = 1..n + 1
    BY <1>6
  <2>8. QED
    BY <1>5, <2>4, <2>6, <2>7
<1>11. Calm(r) => Calm(r)'
  BY <1>1, <1>2, <1>5, <1>10 DEF Calm
<1>12. QED
  BY <1>9, <1>11

\* The window streamed, the ends around it: the image.
LEMMA PullEnded ==
    ASSUME ReadInv, NEW r \in Readers, PullEnds(r)
    PROVE  Streaming(r)' /\ (Calm(r) => Calm(r)')
<1> DEFINE got == pull[r].got
           n == Len(pull[r].got)
<1>1. /\ Streaming(r) /\ pull \in [Readers -> PullStates] /\ pull[r].pc = "streaming"
      /\ pull[r].left = 0 /\ pull[r].at \in Nat /\ got \in Seq(Units) /\ n \in Nat
  BY DEF ReadInv, PublishInv, TypeInv, PullsTyped, PullEnds, PullStates
<1>2. /\ pull'[r].pc \in {"pulled", "error"} /\ pull'[r].got = pull[r].got
      /\ pull'[r].calm = pull[r].calm
      /\ pull'[r].head = pull[r].head /\ pull'[r].tail = pull[r].tail
  BY <1>1 DEF PullEnds, PullStates
<1>3. Streaming(r)'
  BY <1>1, <1>2 DEF Streaming
<1>4. ASSUME Calm(r), pull[r].calm, r \in Pulls
      PROVE  Dest(r)' \in {Whole(b) : b \in Bodies}
  <2>1. PICK b \in Ours : /\ content[pull[r].inode] = Whole(b)
                          /\ Ends(r, b) /\ Window(r, b)
    BY <1>1, <1>4 DEF Calm
  <2>2. b \in Bodies /\ TailAt(b) \in Nat /\ Whole(b) \in Seq(Units) /\ Len(Whole(b)) = TailAt(b)
    BY WholeType, Lengths DEF Ours
  <2>3. PICK c \in Ours : /\ content[pull[r].inode] = Whole(c)
                          /\ Piece(got, c, pull[r].at - n - 1)
    BY <1>1 DEF Streaming
  <2>4. Piece(got, b, pull[r].at - n - 1)
    BY <2>1, <2>3, WholeInjective DEF Ours
  <2>5. pull[r].at - n = 2 /\ pull[r].at = TailAt(b)
    BY <1>1, <1>4, <2>1 DEF Window
  <2>6. pull[r].at - n - 1 = 1 /\ n + 2 = TailAt(b)
    <3> HIDE DEF n
    <3>1. QED
      BY <1>1, <2>2, <2>5
  <2>7. \A k \in 1..n : got[k] = << b, 1 + k >>
    BY <1>1, <2>4, <2>6 DEF Piece
  <2> DEFINE h == pull[r].head
             t == pull[r].tail
             d == << h >> \o got \o << t >>
  <2>8. h = << b, 1 >> /\ t = << b, TailAt(b) >> /\ h \in Units /\ t \in Units
    BY <1>1, <2>1 DEF Ends, PullStates
  <2>9. Dest(r)' = d
    BY <1>2 DEF Dest
  <2>10. d = Whole(b)
    <3> HIDE DEF h, t, got, n
    <3>1. << h >> \in Seq(Units) /\ << t >> \in Seq(Units)
      BY <2>8
    <3>2. << h >> \o got \in Seq(Units) /\ Len(<< h >> \o got) = n + 1
      BY <1>1, <3>1 DEF n, got
    <3>3. /\ d \in Seq(Units) /\ Len(d) = n + 2 /\ d[n + 2] = t
          /\ \A k \in 1..n + 1 : d[k] = (<< h >> \o got)[k]
      <4> DEFINE e == << h >> \o got
      <4>1. e \in Seq(Units) /\ Len(e) = n + 1
        BY <3>2
      <4> HIDE DEF e
      <4>2. /\ e \o << t >> \in Seq(Units) /\ Len(e \o << t >>) = n + 2
            /\ (e \o << t >>)[n + 2] = t /\ \A k \in 1..n + 1 : (e \o << t >>)[k] = e[k]
        BY <1>1, <2>8, <4>1
      <4>3. QED
        BY <4>2 DEF e
    <3>4. (<< h >> \o got)[1] = h /\ \A k \in 1..n : (<< h >> \o got)[k + 1] = got[k]
      BY <1>1, <2>8 DEF n, got
    <3>5. ASSUME NEW k \in 1..n + 2
          PROVE  d[k] = << b, k >>
      <4>1. CASE k = 1
        BY <1>1, <2>8, <3>3, <3>4, <4>1
      <4>2. CASE k = n + 2
        <5>1. d[n + 2] = << b, n + 2 >>
          BY <2>6, <2>8, <3>3
        <5>2. QED
          BY <4>2, <5>1
      <4>3. CASE k \in 2..n + 1
        <5>1. k - 1 \in 1..n /\ (k - 1) + 1 = k /\ 1 + (k - 1) = k /\ k \in 1..n + 1
          BY <1>1, <4>3
        <5>2. d[k] = got[k - 1]
          BY <3>3, <3>4, <5>1
        <5>3. QED
          BY <2>7, <5>1, <5>2
      <4>4. k = 1 \/ k = n + 2 \/ k \in 2..n + 1
        BY <1>1, <3>5
      <4>5. QED
        BY <4>1, <4>2, <4>3, <4>4
    <3>6. \A k \in 1..TailAt(b) : Whole(b)[k] = << b, k >>
      BY <2>2, WholeType
    <3> HIDE DEF d
    <3>7. \A k \in 1..Len(d) : d[k] = Whole(b)[k]
      BY <2>6, <3>3, <3>5, <3>6
    <3>8. QED
      BY <2>2, <2>6, <3>3, <3>7, SeqEqual
  <2>11. QED
    BY <2>2, <2>9, <2>10
<1>5. Calm(r) => Calm(r)'
  BY <1>2, <1>4 DEF Calm
<1>6. QED
  BY <1>3, <1>5

\* Every step keeps what is said of the readers.
LEMMA ReadStep ==
    ASSUME Serial, ReadInv, [Next]_vars
    PROVE  /\ ReadInv'
           /\ (\A b \in Bodies : b.clusters > 0) /\ CalmInv => CalmInv'
<1> DEFINE Holds(r) ==
        /\ Streaming(r)'
        /\ (\A b \in Bodies : b.clusters > 0) /\ Calm(r) => Calm(r)'
<1>1. PublishInv'
  BY PublishStep DEF ReadInv
<1>2. CASE UNCHANGED << content, names, pull >>
  <2>1. \A r \in Readers : Streaming(r)' /\ (Calm(r) => Calm(r)')
    BY <1>2, ReaderStays DEF ReadInv, Streaming
  <2>2. QED
    BY <1>1, <2>1 DEF CalmInv, ReadInv
<1>3. ASSUME NEW p \in Pushes,
             \/ Receive(p) \/ RefuseBody(p) \/ Create(p) \/ WriteChunk(p) \/ Sync(p)
             \/ Rename(p) \/ Confirm(p) \/ PushFails(p) \/ GiveUp(p),
             NEW r \in Readers
      PROVE  Holds(r)
  BY <1>3, PushesDisturbNobody
<1>4. ASSUME NEW r \in Readers,
             \/ ManifestOpen(r) \/ ManifestRead(r) \/ ClustersLocate(r) \/ ClustersOpen(r)
             \/ StreamUnit(r) \/ PullEnds(r) \/ PullFails(r),
             NEW q \in Readers
      PROVE  Holds(q)
  <2>1. UNCHANGED serverVars /\ \A i \in Readers : i # r => pull'[i] = pull[i]
    BY <1>4 DEF ManifestOpen, ManifestRead, ClustersLocate, ClustersOpen, StreamUnit, StreamFrom,
                PullEnds, PullFails, ReadInv, PublishInv, TypeInv, PullsTyped
  <2>2. CASE q # r
    BY <2>1, <2>2, OthersKeep
  <2>3. PullFails(r) => Holds(r)
    <3>1. ASSUME PullFails(r)
          PROVE  pull'[r].got = pull[r].got /\ pull'[r].pc = "error" /\ pull'[r].calm = pull[r].calm
      BY <3>1 DEF PullFails, ReadInv, PublishInv, TypeInv, PullsTyped, PullStates
    <3>2. QED
      BY <3>1, ReaderFails DEF ReadInv
  <2>4. QED
    BY <1>4, <2>2, <2>3, ManifestReads, Located, Opened, Streamed, PullEnded
<1>5. ASSUME ServerCrash \/ PowerLoss, NEW r \in Readers
      PROVE  Holds(r)
  <2>1. /\ Streaming(r) /\ pull[r] \in PullStates
        /\ pull'[r] = IF pull[r].pc \in {"idle", "pulled", "error"} THEN pull[r]
                      ELSE [pull[r] EXCEPT !.pc = "error", !.inode = NoInode]
    BY <1>5 DEF ServerCrash, PowerLoss, Die, ReadInv, PublishInv, TypeInv, PullsTyped
  <2>2. CASE pull[r].pc \in {"idle", "pulled", "error"}
    BY <2>1, <2>2, ReaderStays
  <2>3. CASE pull[r].pc \notin {"idle", "pulled", "error"}
    BY <2>1, <2>3, ReaderFails DEF PullStates
  <2>4. QED
    BY <2>2, <2>3
<1>6. CASE \A r \in Readers : Holds(r)
  BY <1>1, <1>6 DEF CalmInv, ReadInv
<1>7. CASE UNCHANGED vars \/ FlushNames
  BY <1>2, <1>7 DEF vars, FlushNames
<1>8. CASE ServerCrash \/ PowerLoss
  BY <1>5, <1>6, <1>8
<1>9. QED
  BY <1>3, <1>4, <1>6, <1>7, <1>8 DEF Next

\* A response body is a piece of one image and has no gap, however many pushes
\* rename over the name while it is streamed.
THEOREM AlwaysFromOneImage ==
    ASSUME Serial PROVE Spec => []ResponseFromOneImage
<1>1. Init => ReadInv
  BY ReadInit DEF CalmInv
<1>2. ReadInv /\ [Next]_vars => ReadInv'
  BY ReadStep
<1>3. ReadInv => ResponseFromOneImage
  <2> SUFFICES ASSUME ReadInv, NEW r \in Readers, NEW j \in DOMAIN pull[r].got,
                      NEW k \in DOMAIN pull[r].got, j < k
               PROVE  /\ pull[r].got[j][1] = pull[r].got[k][1]
                      /\ pull[r].got[j][2] - j = pull[r].got[k][2] - k
    BY DEF ResponseFromOneImage
  <2>1. PICK b \in Bodies, o \in Int : Piece(pull[r].got, b, o)
    BY DEF ReadInv, Streaming
  <2>2. pull[r].got[j] = << b, o + j >> /\ pull[r].got[k] = << b, o + k >>
    BY <2>1 DEF Piece
  <2>3. j \in Int /\ k \in Int
    BY DEF ReadInv, PublishInv, TypeInv, PullsTyped, PullStates
  <2>4. (o + j) - j = o /\ (o + k) - k = o
    BY <2>1, <2>3
  <2>5. QED
    BY <2>2, <2>4
<1>4. QED
  BY <1>1, <1>2, <1>3, PTL DEF Spec

\* A pull between whose requests nothing was published has rebuilt an upload to
\* the last unit, and a range has clusters only.  It rests on the registry's images
\* having clusters: of an empty region parse_range_header serves the first byte.
THEOREM AlwaysCalmReadsAreExact ==
    ASSUME Serial, \A b \in Bodies : b.clusters > 0
    PROVE  Spec => []CalmReadsAreExact
<1>1. CalmInv /\ [Next]_vars => CalmInv'
  BY ReadStep DEF CalmInv
<1>2. CalmInv => CalmReadsAreExact
  BY DEF CalmInv, Calm, CalmReadsAreExact
<1>3. QED
  BY <1>1, <1>2, ReadInit, PTL DEF Spec
=============================================================================
