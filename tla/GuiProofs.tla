----------------------------- MODULE GuiProofs -----------------------------
(***************************************************************************)
(* Proofs about Gui, for every machine, library, registry and number of    *)
(* presses: what the interface shows of a write is true, it does not end   *)
(* the program while something is written, and its boot menu has and       *)
(* starts the loaders of the other systems.                                *)
(***************************************************************************)
EXTENDS Gui, FiniteSetTheorems, SequenceTheorems, FunctionTheorems, WellFoundedInduction,
        NaturalsInduction, TLAPS

(***************************************************************************)
(* Flattening.  FlattenSeq is a recursive function; what it computes is    *)
(* proved from a least number of sequences for which it would be wrong.    *)
(***************************************************************************)

\* A set of numbers that is not empty has a least one.
LEMMA LeastNumber ==
    ASSUME NEW T \in SUBSET Nat, T # {}
    PROVE  \E m \in T : \A k \in T : m <= k
<1>1. PICK m \in T : \A k \in T : ~(<< k, m >> \in OpToRel(<, Nat))
  BY NatLessThanWellFounded, WFMin, Zenon
<1>2. \A k \in Nat : k < m => << k, m >> \in OpToRel(<, Nat)
  <2>1. m \in Nat
    OBVIOUS
  <2>2. QED
    BY <2>1, Zenon DEF OpToRel
<1>3. ASSUME NEW k \in T PROVE m <= k
  <2>1. k \in Nat /\ m \in Nat /\ ~(k < m)
    BY <1>1, <1>2
  <2>2. QED
    BY <2>1
<1>4. QED
  BY <1>3

\* f holds the concatenations of the first, the first two, ... sequences of s.
Chain(s, f, n) == f = [k \in 1..n |-> IF k = 1 THEN s[k] ELSE f[k - 1] \o s[k]]

\* The sequence t is made of the first m sequences of s: place says for every
\* element which one it comes from and where it stands there; places ascend and
\* none is left out.
Earlier(p, q) == p[1] < q[1] \/ (p[1] = q[1] /\ p[2] < q[2])

Places(s, m) == {p \in (1..m) \X Nat : p[2] \in DOMAIN s[p[1]]}

MadeOf(s, m, t, place) ==
    /\ place \in [DOMAIN t -> Places(s, m)]
    /\ \A k \in DOMAIN t : t[k] = s[place[k][1]][place[k][2]]
    /\ \A j, k \in DOMAIN t : j < k => Earlier(place[j], place[k])
    /\ \A p \in Places(s, m) : \E k \in DOMAIN t : place[k] = p

\* Concatenations exist for every number of sequences.
LEMMA ChainExists ==
    ASSUME NEW s, NEW n \in Nat
    PROVE  \E f : Chain(s, f, n)
<1> DEFINE Bad == {m \in Nat : ~\E f : Chain(s, f, m)}
<1>1. SUFFICES ASSUME Bad # {} PROVE FALSE
  OBVIOUS
<1>2. PICK m \in Bad : \A k \in Bad : m <= k
  BY <1>1, LeastNumber
<1>3. m \in Nat /\ ~\E f : Chain(s, f, m)
  OBVIOUS
<1>4. m # 0
  <2>1. SUFFICES ASSUME m = 0 PROVE Chain(s, [k \in 1..0 |-> 0], m)
    BY <1>3
  <2>2. QED
    BY <2>1 DEF Chain
<1>5. m - 1 \in Nat /\ m - 1 \notin Bad
  BY <1>2, <1>3, <1>4
<1>6. PICK g : Chain(s, g, m - 1)
  BY <1>5
<1> DEFINE f == [k \in 1..m |-> IF k = m THEN IF k = 1 THEN s[k] ELSE g[k - 1] \o s[k] ELSE g[k]]
<1>7. \A k \in 1..m : f[k] = IF k = 1 THEN s[k] ELSE f[k - 1] \o s[k]
  <2> TAKE k \in 1..m
  <2>1. \A j \in 1..m - 1 : f[j] = g[j]
    BY <1>3
  <2>2. \A j \in 1..m - 1 : g[j] = IF j = 1 THEN s[j] ELSE g[j - 1] \o s[j]
    BY <1>6 DEF Chain
  <2>3. CASE k = m
    <3>1. k # 1 => k - 1 \in 1..m - 1
      BY <1>3, <2>3
    <3>2. f[k] = IF k = 1 THEN s[k] ELSE g[k - 1] \o s[k]
      BY <2>3
    <3>3. QED
      BY <2>1, <3>1, <3>2
  <2>4. CASE k # m
    <3>1. k \in 1..m - 1 /\ (k # 1 => k - 1 \in 1..m - 1)
      BY <1>3, <2>4
    <3>2. QED
      BY <2>1, <2>2, <3>1
  <2>5. QED
    BY <2>3, <2>4
<1>8. f = [k \in 1..m |-> f[k]]
  OBVIOUS
<1> HIDE DEF f
<1>9. Chain(s, f, m)
  BY <1>7, <1>8 DEF Chain
<1>10. QED
  BY <1>3, <1>9

\* Appending the next sequence keeps the places and adds its own.
LEMMA MadeOfNext ==
    ASSUME NEW T, NEW n \in Nat, NEW s \in [1..n -> Seq(T)], NEW m \in 0..n - 1,
           NEW t \in Seq(T), NEW place, MadeOf(s, m, t, place)
    PROVE  /\ t \o s[m + 1] \in Seq(T)
           /\ \E next : MadeOf(s, m + 1, t \o s[m + 1], next)
<1> DEFINE u == s[m + 1]
           w == t \o u
           next == [k \in DOMAIN w |-> IF k <= Len(t) THEN place[k] ELSE << m + 1, k - Len(t) >>]
<1>1. m + 1 \in 1..n /\ m \in Nat
  OBVIOUS
<1>2. u \in Seq(T)
  BY <1>1
<1> HIDE DEF u
<1>3. /\ w \in Seq(T) /\ DOMAIN w = 1..Len(t) + Len(u)
      /\ \A k \in DOMAIN w : w[k] = IF k <= Len(t) THEN t[k] ELSE u[k - Len(t)]
      /\ Len(t) \in Nat /\ Len(u) \in Nat /\ DOMAIN t = 1..Len(t) /\ DOMAIN u = 1..Len(u)
  BY <1>2
<1> HIDE DEF w
<1>4. u = s[m + 1]
  BY DEF u
<1>5. \A k \in DOMAIN w : next[k] = IF k <= Len(t) THEN place[k] ELSE << m + 1, k - Len(t) >>
  OBVIOUS
<1>6. next \in [DOMAIN w -> Places(s, m + 1)]
  <2>1. ASSUME NEW k \in DOMAIN w
        PROVE  (IF k <= Len(t) THEN place[k] ELSE << m + 1, k - Len(t) >>) \in Places(s, m + 1)
    <3>1. CASE k <= Len(t)
      <4>1. k \in DOMAIN t
        BY <1>3, <3>1
      <4>2. place[k] \in Places(s, m)
        BY <4>1 DEF MadeOf
      <4>3. place[k] \in (1..m) \X Nat /\ place[k][2] \in DOMAIN s[place[k][1]]
        BY <4>2 DEF Places
      <4>4. place[k] \in (1..m + 1) \X Nat
        BY <1>1, <4>3
      <4>5. QED
        BY <3>1, <4>3, <4>4 DEF Places
    <3>2. CASE ~(k <= Len(t))
      <4>1. k - Len(t) \in DOMAIN u /\ k - Len(t) \in Nat
        BY <1>3, <3>2
      <4>2. QED
        BY <1>1, <1>4, <3>2, <4>1 DEF Places
    <3>3. QED
      BY <3>1, <3>2
  <2>2. QED
    BY <2>1
<1> HIDE DEF next
<1>7. ASSUME NEW k \in DOMAIN w PROVE w[k] = s[next[k][1]][next[k][2]]
  <2>1. CASE k <= Len(t)
    <3>1. k \in DOMAIN t
      BY <1>3, <2>1
    <3>2. w[k] = t[k] /\ next[k] = place[k]
      BY <1>3, <1>5, <2>1
    <3>3. t[k] = s[place[k][1]][place[k][2]]
      BY <3>1 DEF MadeOf
    <3>4. QED
      BY <3>2, <3>3
  <2>2. CASE ~(k <= Len(t))
    <3>1. w[k] = u[k - Len(t)]
      BY <1>3, <2>2
    <3>2. next[k] = << m + 1, k - Len(t) >>
      BY <1>5, <2>2
    <3>3. QED
      BY <1>4, <3>1, <3>2
  <2>3. QED
    BY <2>1, <2>2
<1>8. ASSUME NEW j \in DOMAIN w, NEW k \in DOMAIN w, j < k PROVE Earlier(next[j], next[k])
  <2>1. CASE k <= Len(t)
    <3>1. j \in DOMAIN t /\ k \in DOMAIN t /\ j <= Len(t)
      BY <1>3, <1>8, <2>1
    <3>2. QED
      BY <1>5, <1>8, <2>1, <3>1 DEF MadeOf
  <2>2. CASE j <= Len(t) /\ ~(k <= Len(t))
    <3>1. j \in DOMAIN t
      BY <1>3, <2>2
    <3>2. place[j] \in (1..m) \X Nat
      BY <3>1 DEF MadeOf, Places
    <3>3. place[j][1] \in 1..m
      BY <3>2
    <3>4. next[j] = place[j] /\ next[k] = << m + 1, k - Len(t) >>
      BY <1>5, <2>2
    <3>5. QED
      BY <1>1, <3>3, <3>4 DEF Earlier
  <2>3. CASE ~(j <= Len(t))
    <3>1. ~(k <= Len(t)) /\ j - Len(t) < k - Len(t)
      BY <1>3, <1>8, <2>3
    <3>2. next[j] = << m + 1, j - Len(t) >> /\ next[k] = << m + 1, k - Len(t) >>
      BY <1>5, <2>3, <3>1
    <3>3. QED
      BY <3>1, <3>2 DEF Earlier
  <2>4. QED
    BY <2>1, <2>2, <2>3
<1>9. ASSUME NEW p \in Places(s, m + 1) PROVE \E k \in DOMAIN w : next[k] = p
  <2>1. p \in (1..m + 1) \X Nat /\ p[2] \in DOMAIN s[p[1]] /\ p = << p[1], p[2] >>
    BY DEF Places
  <2>2. CASE p[1] = m + 1
    <3>1. p[2] \in 1..Len(u)
      BY <1>3, <1>4, <2>1, <2>2
    <3>2. Len(t) + p[2] \in DOMAIN w /\ ~(Len(t) + p[2] <= Len(t)) /\ (Len(t) + p[2]) - Len(t) = p[2]
      BY <1>3, <3>1
    <3>3. next[Len(t) + p[2]] = p
      BY <1>5, <2>1, <2>2, <3>2
    <3>4. QED
      BY <3>2, <3>3
  <2>3. CASE p[1] # m + 1
    <3>1. p \in Places(s, m)
      <4>1. p[1] \in 1..m
        BY <1>1, <2>1, <2>3
      <4>2. QED
        BY <2>1, <4>1 DEF Places
    <3>2. PICK k \in DOMAIN t : place[k] = p
      BY <3>1 DEF MadeOf
    <3>3. k \in DOMAIN w /\ k <= Len(t)
      BY <1>3
    <3>4. QED
      BY <1>5, <3>2, <3>3
  <2>4. QED
    BY <2>2, <2>3
<1>10. MadeOf(s, m + 1, w, next)
  BY <1>6, <1>7, <1>8, <1>9 DEF MadeOf
<1>11. QED
  BY <1>3, <1>10 DEF w, u

\* FlattenSeq puts the sequences one after another.
LEMMA FlattenMadeOf ==
    ASSUME NEW T, NEW n \in Nat, NEW s \in [1..n -> Seq(T)]
    PROVE  /\ FlattenSeq(s) \in Seq(T)
           /\ \E place : MadeOf(s, n, FlattenSeq(s), place)
<1>1. Len(s) = n /\ s \in Seq(Seq(T))
  OBVIOUS
<1>2. CASE n = 0
  <2>1. FlattenSeq(s) = s
    BY <1>1, <1>2 DEF FlattenSeq
  <2>2. s = << >>
    BY <1>1, <1>2
  <2>3. MadeOf(s, n, << >>, << >>)
    BY <1>2 DEF MadeOf, Places
  <2>4. QED
    BY <2>1, <2>2, <2>3
<1>3. CASE n # 0
  <2> DEFINE f == CHOOSE g : Chain(s, g, n)
  <2>1. FlattenSeq(s) = f[n]
    BY <1>1, <1>3 DEF FlattenSeq, Chain
  <2>2. Chain(s, f, n)
    BY ChainExists
  <2> HIDE DEF f
  <2>3. \A k \in 1..n : f[k] = IF k = 1 THEN s[k] ELSE f[k - 1] \o s[k]
    BY <2>2 DEF Chain
  <2> DEFINE Good(m) == f[m] \in Seq(T) /\ \E place : MadeOf(s, m, f[m], place)
             Bad == {m \in 1..n : ~Good(m)}
  <2>4. Good(1)
    <3>1. f[1] = s[1] /\ s[1] \in Seq(T)
      BY <1>3, <2>3
    <3>2. MadeOf(s, 0, << >>, << >>)
      BY DEF MadeOf, Places
    <3>3. << >> \in Seq(T) /\ 0 \in 0..n - 1 /\ << >> \o s[0 + 1] = s[1]
      BY <1>3, <3>1
    <3>4. \E place : MadeOf(s, 0 + 1, << >> \o s[0 + 1], place)
      BY <3>2, <3>3, MadeOfNext
    <3>5. QED
      BY <3>1, <3>3, <3>4
  <2>5. ASSUME NEW m \in 1..n - 1, Good(m) PROVE Good(m + 1)
    <3>1. m + 1 \in 1..n /\ m + 1 # 1 /\ (m + 1) - 1 = m
      OBVIOUS
    <3>6. f[m + 1] = f[m] \o s[m + 1]
      BY <2>3, <3>1
    <3>2. PICK place : MadeOf(s, m, f[m], place)
      BY <2>5
    <3>3. m \in 0..n - 1 /\ f[m] \in Seq(T)
      BY <2>5
    <3>4. f[m] \o s[m + 1] \in Seq(T) /\ \E next : MadeOf(s, m + 1, f[m] \o s[m + 1], next)
      BY <3>2, <3>3, MadeOfNext
    <3>5. QED
      BY <3>4, <3>6
  <2>6. Bad = {}
    <3>1. SUFFICES ASSUME Bad # {} PROVE FALSE
      OBVIOUS
    <3>7. Bad \in SUBSET Nat
      OBVIOUS
    <3> HIDE DEF Bad
    <3>2. PICK m \in Bad : \A k \in Bad : m <= k
      BY <3>1, <3>7, LeastNumber
    <3> USE DEF Bad
    <3>3. m # 1 /\ m \in 1..n /\ ~Good(m)
      BY <2>4
    <3> HIDE DEF Good
    <3>4. m - 1 \in 1..n - 1 /\ (m - 1) + 1 = m /\ m - 1 \notin Bad
      BY <3>2, <3>3
    <3>5. Good(m - 1)
      BY <3>4
    <3>6. QED
      BY <2>5, <3>3, <3>4, <3>5
  <2>7. Good(n)
    <3>1. n \in 1..n
      BY <1>3
    <3> HIDE DEF Good
    <3>2. QED
      BY <2>6, <3>1
  <2>8. QED
    BY <2>1, <2>7
<1>4. QED
  BY <1>2, <1>3

(***************************************************************************)
(* The state of the interface.                                             *)
(***************************************************************************)
Images == ToSet(Local) \cup Hosts
Clients == {NoClient} \cup [login : Nat, host : Hosts]
DeviceNames == {Devices[k].name : k \in DOMAIN Devices}
Screens == {"boot", "image", "device", "confirm", "apply"}

Fields == {"screen", "target", "countdown", "selected", "device", "presses", "seen", "error", "sudo",
           "shell", "dialog", "address", "login", "client", "images", "loading", "choice", "power"}

UiType(u) ==
    /\ DOMAIN u = Fields
    /\ u.screen \in Screens
    /\ u.target \in DOMAIN targets \cup {1}
    /\ u.selected \in {None} \cup Images
    /\ u.device \in {None} \cup DeviceNames
    /\ u.presses \in 0..Presses
    /\ u.address \in {None} \cup Hosts
    /\ u.client \in Clients
    /\ u.images \in {None} \cup Hosts
    /\ u.address = None => u.images = None

\* v differs from u in some of the fields at most.
Keeps(u, v, fields) ==
    /\ DOMAIN v = DOMAIN u
    /\ \A f \in DOMAIN u : f \notin fields => v[f] = u[f]

\* What the menu has is a sequence.
TargetsAreSeq == DOMAIN targets = 1..Len(targets) /\ Len(targets) \in Nat

\* Leaving and opening the login dialog touch nothing else (app.rs: handle_hotkeys).
LEMMA HotkeysKeep ==
    ASSUME NEW u, NEW key, DOMAIN u = Fields
    PROVE  /\ Keeps(u, handle_hotkeys(u, key), {"power", "dialog"})
           /\ handle_hotkeys(u, key).power # u.power => u.screen = "image" /\ ~u.sudo
  BY DEF Keeps, handle_hotkeys, Fields

\* A login's result changes the client and the login dialog (poll_login_events).
LEMMA PollLoginKeeps ==
    ASSUME NEW u, DOMAIN u = Fields
    PROVE  /\ Keeps(u, poll_login_events(u), {"client", "login", "dialog", "loading"})
           /\ poll_login_events(u).client \in {u.client, connect.client}
  BY DEF Keeps, poll_login_events, Fields

\* A listing's result changes the images and what is said of loading (poll_list_events).
LEMMA PollListKeeps ==
    ASSUME NEW u, DOMAIN u = Fields
    PROVE  /\ Keeps(u, poll_list_events(u), {"images", "loading"})
           /\ poll_list_events(u).images \in {u.images, list.client.host}
  BY DEF Keeps, poll_list_events, Fields

\* The login dialog changes itself and whether a login runs (registry_login.rs).
LEMMA LoginKeeps ==
    ASSUME NEW u, NEW key, NEW connects, DOMAIN u = Fields
    PROVE  Keeps(u, RegistryLogin(u, key, connects), {"login", "dialog"})
  BY DEF Keeps, RegistryLogin, Fields

\* The question about sudo ends the program with y only, and never chains.
LEMMA SudoKeeps ==
    ASSUME NEW u, NEW key, DOMAIN u = Fields
    PROVE  /\ Keeps(u, SudoConfirm(u, key), {"power", "sudo"})
           /\ SudoConfirm(u, key).power # u.power => key = "y" /\ SudoConfirm(u, key).sudo = u.sudo /\ u.sudo
                /\ SudoConfirm(u, key).power # "chained"
  BY DEF Keeps, SudoConfirm, Fields

\* Keys of the boot menu move within the targets and leave for the images only.
LEMMA BootScreenKeeps ==
    ASSUME NEW u, NEW key, NEW ok, NEW expired, DOMAIN u = Fields,
           u.target \in DOMAIN targets \cup {1}, TargetsAreSeq
    PROVE  LET w == SelectBootTarget(u, key, ok, expired)
           IN  /\ Keeps(u, w, {"screen", "power", "error", "countdown", "target"})
               /\ w.screen \in {u.screen, "image"}
               /\ w.target \in DOMAIN targets \cup {1}
  BY DEF Keeps, SelectBootTarget, Fields, LastTarget, TargetsAreSeq

\* The machine is restarted for a target only when its entry was made.
LEMMA BootScreenPower ==
    ASSUME NEW u, NEW key, NEW ok, NEW expired, DOMAIN u = Fields
    PROVE  LET w == SelectBootTarget(u, key, ok, expired)
           IN  w.power = "chained" /\ u.power # "chained" =>
                    BootsNow(u, key, expired) /\ ok /\ w.target = u.target
  BY DEF SelectBootTarget, Fields, BootsNow

\* Moving in a list selects one of its items.
LEMMA MovedType ==
    ASSUME NEW S, NEW items \in Seq(S), NEW current, NEW key
    PROVE  /\ Moved(items, current, key) \in S \cup {None}
           /\ items # << >> => Moved(items, current, key) \in S
<1> DEFINE at == {k \in DOMAIN items : items[k] = current}
<1>1. CASE items = << >>
  BY <1>1 DEF Moved
<1>2. CASE items # << >> /\ at = {}
  <2>1. 1 \in DOMAIN items
    BY <1>2
  <2>2. Moved(items, current, key) = items[1]
    BY <1>2 DEF Moved
  <2>3. QED
    BY <2>1, <2>2
<1>3. CASE items # << >> /\ at # {}
  <2> DEFINE k == CHOOSE j \in at : TRUE
  <2>1. k \in DOMAIN items
    BY <1>3
  <2>2. Moved(items, current, key) =
          IF key = "down" THEN items[IF k < Len(items) THEN k + 1 ELSE k]
          ELSE items[IF k > 1 THEN k - 1 ELSE k]
    BY <1>3 DEF Moved
  <2> HIDE DEF k
  <2>3. QED
    BY <2>1, <2>2
<1>4. QED
  BY <1>1, <1>2, <1>3

\* The list of images has those of the library and of the registry.
LEMMA ItemsType ==
    ASSUME NEW u, u.address \in {None} \cup Hosts, u.address = None => u.images = None
    PROVE  Items(u) \in Seq(Images)
<1>1. Local \in Seq(Images)
  <2>1. Local \in Seq(STRING)
    BY GuiAssumption
  <2>2. \A k \in DOMAIN Local : Local[k] \in Images
    BY DEF Images, ToSet
  <2>3. QED
    BY <2>1, <2>2
<1>2. CASE u.images = None
  BY <1>1, <1>2 DEF Items
<1>3. CASE u.images # None
  <2>1. u.address \in Images
    BY <1>3 DEF Images
  <2>2. << u.address >> \in Seq(Images)
    BY <2>1
  <2>3. QED
    BY <1>1, <1>3, <2>2 DEF Items
<1>4. QED
  BY <1>2, <1>3

\* Keys of the list of images select an image and go on to the devices.
LEMMA ImageScreenKeeps ==
    ASSUME NEW u, NEW key, NEW ok, UiType(u)
    PROVE  LET w == SelectImage(u, key, ok)
           IN  /\ Keeps(u, w, {"screen", "shell", "selected", "error"})
               /\ w.screen \in {u.screen, "device"}
               /\ w.selected \in {None} \cup Images
<1> DEFINE w == SelectImage(u, key, ok)
<1>1. Items(u) \in Seq(Images)
  BY ItemsType DEF UiType
<1>2. Items(u) # << >> => Items(u)[1] \in Images
  BY <1>1
<1> DEFINE v == [u EXCEPT !.shell = FALSE,
                       !.selected = IF @ = None /\ Items(u) # << >> THEN Items(u)[1] ELSE @]
<1>3. DOMAIN u = Fields /\ u.selected \in {None} \cup Images
  BY DEF UiType
<1>4. Keeps(u, v, {"shell", "selected"}) /\ v.selected \in {None} \cup Images
  BY <1>2, <1>3 DEF Keeps, Fields
<1> DEFINE moved == Moved(Items(u), v.selected, key)
<1>5. moved \in Images \cup {None}
  BY <1>1, MovedType
<1>6. w \in {u, v, [v EXCEPT !.selected = moved], [v EXCEPT !.screen = "device"],
             [v EXCEPT !.shell = ok, !.error = ~ok]}
  BY Zenon DEF SelectImage
<1> HIDE DEF w, v, moved
<1>7. DOMAIN v = Fields /\ v.screen = u.screen
  BY <1>3, <1>4 DEF Keeps, Fields
<1>8. /\ Keeps(u, w, {"screen", "shell", "selected", "error"})
      /\ w.screen \in {u.screen, "device"}
      /\ w.selected \in {None} \cup Images
  <2>1. CASE w \in {u, v}
    BY <1>3, <1>4, <1>7, <2>1 DEF Keeps, Fields
  <2>2. CASE w = [v EXCEPT !.selected = moved]
    BY <1>3, <1>4, <1>5, <1>7, <2>2 DEF Keeps, Fields
  <2>3. CASE w = [v EXCEPT !.screen = "device"]
    BY <1>3, <1>4, <1>7, <2>3 DEF Keeps, Fields
  <2>4. CASE w = [v EXCEPT !.shell = ok, !.error = ~ok]
    <3> DEFINE error == ~ok
    <3>1. w = [v EXCEPT !.shell = ok, !.error = error]
      BY <2>4
    <3> HIDE DEF error
    <3>2. QED
      BY <1>3, <1>4, <1>7, <3>1 DEF Keeps, Fields
  <2>5. QED
    BY <1>6, <2>1, <2>2, <2>3, <2>4
<1>9. QED
  BY <1>8 DEF w

\* Devices are offered by their names.
LEMMA SelectableType ==
    ASSUME NEW u
    PROVE  Selectable(u) \in Seq(DeviceNames)
<1> DEFINE s == [k \in DOMAIN Devices |->
        IF Devices[k].capacity >= SelectedSize(u) THEN << Devices[k].name >> ELSE << >>]
<1>1. Devices \in Seq([name : STRING, capacity : Nat])
  BY GuiAssumption
<1>2. DOMAIN Devices = 1..Len(Devices) /\ Len(Devices) \in Nat
  BY <1>1
<1>3. ASSUME NEW k \in DOMAIN Devices
      PROVE  (IF Devices[k].capacity >= SelectedSize(u) THEN << Devices[k].name >> ELSE << >>)
                \in Seq(DeviceNames)
  <2>1. Devices[k].name \in DeviceNames
    BY DEF DeviceNames
  <2>2. << Devices[k].name >> \in Seq(DeviceNames) /\ << >> \in Seq(DeviceNames)
    BY <2>1
  <2>3. QED
    BY <2>2
<1>4. s \in [1..Len(Devices) -> Seq(DeviceNames)]
  BY <1>2, <1>3
<1>5. Selectable(u) = FlattenSeq(s)
  BY DEF Selectable
<1> HIDE DEF s
<1>6. QED
  BY <1>2, <1>4, <1>5, FlattenMadeOf

\* Preselection chooses a device.
LEMMA PreselectedKeeps ==
    ASSUME NEW u, DOMAIN u = Fields, u.device \in {None} \cup DeviceNames
    PROVE  /\ Keeps(u, Preselected(u), {"device"})
           /\ Preselected(u).device \in {None} \cup DeviceNames
<1>1. Selectable(u) # << >> => Selectable(u)[1] \in DeviceNames
  BY SelectableType
<1>2. QED
  BY <1>1 DEF Preselected, Keeps, Fields

\* What the device screen shows of a device does not depend on the error dialog.
LEMMA PreselectedSame ==
    ASSUME NEW u, NEW v, Keeps(u, v, {"error"}), DOMAIN u = Fields
    PROVE  Preselected(v).device = Preselected(u).device
<1>1. v.device = u.device /\ v.selected = u.selected /\ v.images = u.images /\ DOMAIN v = Fields
  BY DEF Keeps, Fields
<1>2. Selectable(v) = Selectable(u)
  BY <1>1 DEF Selectable, SelectedSize
<1>3. QED
  BY <1>1, <1>2 DEF Preselected, Fields

\* From the devices, the last screen is entered by starting a verification only.
LEMMA DeviceScreenKeeps ==
    ASSUME NEW u, NEW key, NEW ok, UiType(u)
    PROVE  LET w == SelectDevice(u, key, ok)
           IN  /\ Keeps(u, w, {"screen", "device", "seen", "error"})
               /\ w.screen \in Screens /\ (w.screen = "boot" => u.screen = "boot")
               /\ w.device \in {None} \cup DeviceNames
               /\ u.screen = "device" =>
                    (w.screen = "apply" <=> Verifies(u, key) /\ ok /\ IsLocal(u.selected))
<1> DEFINE w == SelectDevice(u, key, ok)
           v == Preselected(u)
           moved == Moved(Selectable(u), v.device, key)
<1>1. DOMAIN u = Fields /\ u.device \in {None} \cup DeviceNames /\ u.screen \in Screens
  BY DEF UiType
<1>2. Keeps(u, v, {"device"}) /\ v.device \in {None} \cup DeviceNames
  BY <1>1, PreselectedKeeps
<1>3. moved \in DeviceNames \cup {None}
  BY SelectableType, MovedType
<1>4. w = IF Devices = << >> THEN u ELSE
          CASE key \in {"down", "up"} -> [v EXCEPT !.device = moved]
          [] key = "enter" /\ v.device # None -> [v EXCEPT !.screen = "confirm", !.seen = 0]
          [] key = "esc" -> [v EXCEPT !.screen = "image"]
          [] Verifies(u, key) -> IF ok /\ IsLocal(v.selected) THEN [v EXCEPT !.screen = "apply"]
                                 ELSE [v EXCEPT !.error = TRUE]
          [] OTHER -> v
  BY DEF SelectDevice
<1>5. v.selected = u.selected /\ v.screen = u.screen /\ DOMAIN v = Fields
  BY <1>1, <1>2 DEF Keeps, Fields
<1>6. Verifies(u, key) => key = "v" /\ Devices # << >>
  BY DEF Verifies
<1> HIDE DEF w, v, moved
<1> DEFINE verifies == Verifies(u, key)
           local == ok /\ IsLocal(u.selected)
           empty == Devices = << >>
<1>7. w = IF empty THEN u ELSE
          CASE key \in {"down", "up"} -> [v EXCEPT !.device = moved]
          [] key = "enter" /\ v.device # None -> [v EXCEPT !.screen = "confirm", !.seen = 0]
          [] key = "esc" -> [v EXCEPT !.screen = "image"]
          [] verifies -> IF local THEN [v EXCEPT !.screen = "apply"] ELSE [v EXCEPT !.error = TRUE]
          [] OTHER -> v
  BY <1>4, <1>5
<1>8. verifies => key = "v" /\ ~empty
  BY <1>6
<1> HIDE DEF verifies, local, empty
<1>9. /\ Keeps(u, w, {"screen", "device", "seen", "error"})
      /\ w.screen \in Screens /\ (w.screen = "boot" => u.screen = "boot")
      /\ w.device \in {None} \cup DeviceNames
      /\ u.screen = "device" => (w.screen = "apply" <=> verifies /\ local)
  BY <1>1, <1>2, <1>3, <1>5, <1>7, <1>8 DEF Keeps, Fields, Screens
<1>10. QED
  BY <1>9 DEF w, verifies, local

\* From the confirmation, the last screen is entered by starting a write only.
LEMMA ConfirmKeeps ==
    ASSUME NEW u, NEW key, NEW ok, UiType(u)
    PROVE  LET w == Confirm(u, key, ok)
           IN  /\ Keeps(u, w, {"presses", "seen", "screen", "error"})
               /\ w.screen \in Screens /\ (w.screen = "boot" => u.screen = "boot")
               /\ w.presses \in 0..Presses
               /\ u.screen = "confirm" =>
                    (w.screen = "apply" <=> Writes(u, key) /\ ok /\ IsLocal(u.selected))
<1> DEFINE w == Confirm(u, key, ok)
           more(n) == IF n < Presses THEN n + 1 ELSE n
           v == [u EXCEPT !.presses = more(@), !.seen = more(@)]
           writes == Writes(u, key)
           streams == Streams(u, key)
           can == ok /\ IsLocal(u.selected)
<1>1. DOMAIN u = Fields /\ u.presses \in 0..Presses /\ u.screen \in Screens /\ Presses \in Nat
  BY GuiAssumption DEF UiType
<1>2. more(u.presses) \in 0..Presses
  BY <1>1
<1> HIDE DEF more
<1>3. Keeps(u, v, {"presses", "seen"}) /\ v.presses = more(u.presses) /\ v.screen = u.screen /\ DOMAIN v = Fields
  BY <1>1 DEF Keeps, Fields
<1>4. IF key # "confirm" THEN w = u
      ELSE IF ~writes \/ streams THEN w = v
      ELSE IF can THEN w = [v EXCEPT !.screen = "apply"]
      ELSE w = [v EXCEPT !.screen = "device", !.error = TRUE]
  BY DEF Confirm, more
<1>5. (writes => key = "confirm") /\ (streams => ~can)
  BY DEF Writes, Streams
<1> HIDE DEF w, v, writes, streams, can
<1>6. /\ Keeps(u, w, {"presses", "seen", "screen", "error"})
      /\ w.screen \in Screens /\ (w.screen = "boot" => u.screen = "boot")
      /\ w.presses \in 0..Presses
      /\ u.screen = "confirm" => (w.screen = "apply" <=> writes /\ can)
  BY <1>1, <1>2, <1>3, <1>4, <1>5 DEF Keeps, Fields, Screens
<1>7. QED
  BY <1>6 DEF w, writes, can

\* The last screen ends the program only through the dialog of a finished write.
LEMMA ApplyKeeps ==
    ASSUME NEW u, NEW key, NEW ok, DOMAIN u = Fields, u.power = "on"
    PROVE  LET w == ApplyImage(u, key, ok)
           IN  /\ Keeps(u, w, {"choice", "error", "power"})
               /\ w.power # "on" => ShowsDialog /\ Chosen(u, key) \in {"reboot", "exit"}
               /\ w.power # "chained"
<1> DEFINE w == ApplyImage(u, key, ok)
           choice == IF key \in {"down", "up"} THEN Moved(Options, Choice(u), key) ELSE Choice(u)
           v == [u EXCEPT !.choice = IF key \in {"down", "up"} THEN Moved(Options, Choice(u), key)
                                     ELSE Choice(u)]
           chosen == Chosen(u, key)
           fails == ~(ok /\ IsLocal(u.selected))
           power == IF ok THEN "reboot" ELSE "on"
<1>1. v = [u EXCEPT !.choice = choice]
  OBVIOUS
<1> HIDE DEF choice
<1>2. Keeps(u, v, {"choice"}) /\ v.power = "on" /\ DOMAIN v = Fields
  BY <1>1 DEF Keeps, Fields
<1>3. IF ~ShowsDialog THEN w = u
      ELSE CASE chosen = "verify" -> w = [v EXCEPT !.error = fails]
             [] chosen = "reboot" -> w = [v EXCEPT !.power = power]
             [] chosen = "exit" -> w = [v EXCEPT !.power = "exit"]
             [] OTHER -> w = v
  BY DEF ApplyImage
<1>4. power \in {"reboot", "on"}
  OBVIOUS
<1> HIDE DEF w, v, chosen, fails, power
<1>5. /\ Keeps(u, w, {"choice", "error", "power"})
      /\ w.power # "on" => ShowsDialog /\ chosen \in {"reboot", "exit"}
      /\ w.power # "chained"
  BY <1>2, <1>3, <1>4 DEF Keeps, Fields
<1>6. QED
  BY <1>5 DEF w, chosen

\* The error dialog takes the key first.
Shown(u, key) == ~u.error \/ key \in {"esc", "enter"}

\* What starts a write, or a verification from the list of devices.
Starting(u, key, ok) ==
    \/ Writes(u, key) /\ ok /\ IsLocal(u.selected)
    \/ Shown(u, key) /\ Verifies(u, key) /\ ok /\ IsLocal(u.selected)

\* What keys can do to a screen: only the boot menu and the dialog of a finished
\* write end the program, and the last screen is entered by starting and not left.
ScreenEffect(u, key, ok, expired, w) ==
    /\ UiType(w)
    /\ Keeps(u, w, Fields \ {"sudo", "dialog", "address", "login", "client", "images", "loading"})
    /\ w.power # "on" =>
         \/ u.screen = "boot"
         \/ u.screen = "apply" /\ ShowsDialog /\ Chosen(u, key) \in {"reboot", "exit"}
    /\ u.screen = "apply" => w.screen = "apply" /\ w.selected = u.selected
    /\ u.screen # "apply" =>
         /\ w.screen = "apply" <=> Starting(u, key, ok)
         /\ w.screen = "apply" => w.selected = u.selected
    /\ u.screen = "confirm" => w.selected = u.selected
    /\ w.screen = "boot" => u.screen = "boot"
    /\ w.power = "chained" => Chains(u, key, expired) /\ ok /\ w.target = u.target

\* Every screen does to its keys what ScreenEffect allows.
LEMMA ScreenHasEffect ==
    ASSUME NEW u, NEW key, NEW ok, NEW expired, UiType(u), u.power = "on", TargetsAreSeq
    PROVE  ScreenEffect(u, key, ok, expired, Screen(u, key, ok, expired))
<1> DEFINE w == Screen(u, key, ok, expired)
           error == u.error /\ key \notin {"esc", "enter"}
           v == [u EXCEPT !.error = error]
<1> SUFFICES ScreenEffect(u, key, ok, expired, w)
  OBVIOUS
<1>1. DOMAIN u = Fields
  BY DEF UiType
<1>2. error \in BOOLEAN /\ (error <=> ~Shown(u, key))
  BY DEF Shown
<1>3. w = CASE u.screen = "confirm" -> Confirm(u, key, ok)
          [] u.screen # "confirm" /\ v.error -> v
          [] u.screen = "boot" /\ ~v.error -> SelectBootTarget(v, key, ok, expired)
          [] u.screen = "image" /\ ~v.error -> SelectImage(v, key, ok)
          [] u.screen = "device" /\ ~v.error -> SelectDevice(v, key, ok)
          [] u.screen = "apply" /\ ~v.error -> ApplyImage(v, key, ok)
  BY DEF Screen
<1> HIDE DEF error
<1>4. Keeps(u, v, {"error"}) /\ v.error = error /\ DOMAIN v = Fields
  BY <1>1 DEF Keeps, Fields
<1> HIDE DEF v, w
<1>5. /\ v.screen = u.screen /\ v.target = u.target /\ v.selected = u.selected /\ v.device = u.device
      /\ v.presses = u.presses /\ v.address = u.address /\ v.client = u.client /\ v.images = u.images
      /\ v.power = u.power /\ v.sudo = u.sudo /\ v.countdown = u.countdown /\ v.choice = u.choice
      /\ v.login = u.login /\ v.dialog = u.dialog /\ v.loading = u.loading
  BY <1>1, <1>4 DEF Keeps, Fields
<1>6. UiType(v)
  BY <1>4, <1>5 DEF UiType
<1>7. u.screen \in Screens
  BY DEF UiType
<1>8. /\ Writes(u, key) => u.screen = "confirm"
      /\ Verifies(u, key) => u.screen = "device"
  BY DEF Writes, Verifies
<1>9. CASE u.screen = "confirm"
  <2>1. w = Confirm(u, key, ok)
    BY <1>3, <1>9
  <2>2. /\ Keeps(u, w, {"presses", "seen", "screen", "error"})
        /\ w.screen \in Screens /\ w.presses \in 0..Presses /\ (w.screen = "boot" => u.screen = "boot")
        /\ w.screen = "apply" <=> Writes(u, key) /\ ok /\ IsLocal(u.selected)
    BY <1>9, <2>1, ConfirmKeeps
  <2>3. UiType(w)
    BY <1>1, <2>2 DEF UiType, Keeps, Fields
  <2>4. w.power = "on" /\ w.selected = u.selected
    BY <1>1, <2>2 DEF Keeps, Fields
  <2>5. QED
    BY <1>1, <1>8, <1>9, <2>2, <2>3, <2>4 DEF ScreenEffect, Keeps, Fields, Starting
<1>10. CASE u.screen # "confirm" /\ error
  <2>1. w = v
    BY <1>3, <1>4, <1>10
  <2>2. ~Starting(u, key, ok)
    BY <1>2, <1>8, <1>10 DEF Starting
  <2>3. Keeps(u, w, Fields \ {"sudo", "dialog", "address", "login", "client", "images", "loading"})
    BY <1>4, <2>1 DEF Keeps, Fields
  <2>4. QED
    BY <1>5, <1>6, <2>1, <2>2, <2>3 DEF ScreenEffect
<1>11. CASE u.screen = "boot" /\ ~error
  <2>1. w = SelectBootTarget(v, key, ok, expired)
    BY <1>2, <1>3, <1>4, <1>11
  <2>2. /\ Keeps(v, w, {"screen", "power", "error", "countdown", "target"})
        /\ w.screen \in {v.screen, "image"}
        /\ w.target \in DOMAIN targets \cup {1}
    BY <1>4, <1>6, <2>1, BootScreenKeeps DEF UiType
  <2>3. w.power = "chained" => BootsNow(v, key, expired) /\ ok /\ w.target = v.target
    BY <1>4, <1>5, <2>1, BootScreenPower
  <2>4. BootsNow(v, key, expired) => Chains(u, key, expired)
    BY <1>2, <1>5, <1>11 DEF BootsNow, Chains, Shown
  <2>5. UiType(w)
    BY <1>4, <1>6, <2>2 DEF UiType, Keeps, Fields, Screens
  <2>6. Keeps(u, w, Fields \ {"sudo", "dialog", "address", "login", "client", "images", "loading"})
    BY <1>4, <1>5, <2>2 DEF Keeps, Fields
  <2>7. w.screen # "apply" /\ ~Starting(u, key, ok)
    BY <1>5, <1>8, <1>11, <2>2 DEF Starting
  <2>8. QED
    BY <1>5, <1>11, <2>3, <2>4, <2>5, <2>6, <2>7 DEF ScreenEffect
<1>12. CASE u.screen = "image" /\ ~error
  <2>1. w = SelectImage(v, key, ok)
    BY <1>2, <1>3, <1>4, <1>12
  <2>2. /\ Keeps(v, w, {"screen", "shell", "selected", "error"})
        /\ w.screen \in {v.screen, "device"}
        /\ w.selected \in {None} \cup Images
    BY <1>6, <2>1, ImageScreenKeeps
  <2>3. UiType(w)
    BY <1>4, <1>6, <2>2 DEF UiType, Keeps, Fields, Screens
  <2>4. Keeps(u, w, Fields \ {"sudo", "dialog", "address", "login", "client", "images", "loading"})
    BY <1>4, <1>5, <2>2 DEF Keeps, Fields
  <2>5. w.screen # "apply" /\ ~Starting(u, key, ok)
    BY <1>5, <1>8, <1>12, <2>2 DEF Starting
  <2>6. w.power = "on"
    BY <1>4, <1>5, <2>2 DEF Keeps, Fields
  <2>7. QED
    BY <1>5, <1>12, <2>2, <2>3, <2>4, <2>5, <2>6 DEF ScreenEffect
<1>13. CASE u.screen = "device" /\ ~error
  <2>1. w = SelectDevice(v, key, ok)
    BY <1>2, <1>3, <1>4, <1>13
  <2>2. /\ Keeps(v, w, {"screen", "device", "seen", "error"})
        /\ w.screen \in Screens /\ (w.screen = "boot" => v.screen = "boot")
        /\ w.device \in {None} \cup DeviceNames
        /\ w.screen = "apply" <=> Verifies(v, key) /\ ok /\ IsLocal(v.selected)
    BY <1>5, <1>6, <1>13, <2>1, DeviceScreenKeeps
  <2>3. Verifies(v, key) <=> Verifies(u, key)
    BY <1>1, <1>4, <1>5, PreselectedSame DEF Verifies
  <2>4. UiType(w)
    BY <1>4, <1>6, <2>2 DEF UiType, Keeps, Fields
  <2>5. Keeps(u, w, Fields \ {"sudo", "dialog", "address", "login", "client", "images", "loading"})
    BY <1>4, <1>5, <2>2 DEF Keeps, Fields
  <2>6. w.power = "on" /\ w.selected = u.selected
    BY <1>4, <1>5, <2>2 DEF Keeps, Fields
  <2>7. w.screen = "apply" <=> Starting(u, key, ok)
    BY <1>2, <1>5, <1>8, <1>13, <2>2, <2>3 DEF Starting
  <2>8. QED
    BY <1>5, <1>13, <2>2, <2>4, <2>5, <2>6, <2>7 DEF ScreenEffect
<1>14. CASE u.screen = "apply" /\ ~error
  <2>1. w = ApplyImage(v, key, ok)
    BY <1>2, <1>3, <1>4, <1>14
  <2>2. /\ Keeps(v, w, {"choice", "error", "power"})
        /\ w.power # "on" => ShowsDialog /\ Chosen(v, key) \in {"reboot", "exit"}
        /\ w.power # "chained"
    BY <1>4, <1>5, <2>1, ApplyKeeps
  <2>3. Chosen(v, key) = Chosen(u, key)
    BY <1>5 DEF Chosen, Choice
  <2>4. UiType(w)
    BY <1>4, <1>6, <2>2 DEF UiType, Keeps, Fields
  <2>5. Keeps(u, w, Fields \ {"sudo", "dialog", "address", "login", "client", "images", "loading"})
    BY <1>4, <1>5, <2>2 DEF Keeps, Fields
  <2>6. w.screen = "apply" /\ w.selected = u.selected
    BY <1>4, <1>5, <1>14, <2>2 DEF Keeps, Fields
  <2>7. QED
    BY <1>14, <2>2, <2>3, <2>4, <2>5, <2>6 DEF ScreenEffect
<1>15. QED
  BY <1>2, <1>7, <1>9, <1>10, <1>11, <1>12, <1>13, <1>14 DEF Screens

(***************************************************************************)
(* The threads and what they share with the interface.                     *)
(***************************************************************************)
Phases == {None, "lock", "manifest", "blocks", "block", "hooks", "expand", "register", "ended", "panicked"}
ProgressFields == {"count", "states", "done", "verify_only", "expanding", "dialog", "failed", "poisoned"}
WorkerFields == {"phase", "mode", "k", "n", "client", "locks"}

ProgressType(p) ==
    /\ DOMAIN p = ProgressFields
    /\ p.count \in Nat
    /\ DOMAIN p.states = 1..p.count /\ Len(p.states) = p.count

WorkerType(t) ==
    /\ DOMAIN t = WorkerFields
    /\ t.phase \in Phases
    /\ t.k \in Nat \ {0} /\ t.n \in Nat
    /\ t.client \in Clients
    /\ t.phase \in {"lock", "manifest"} => t.client.host \in Hosts

ConnectStates == {None, "running", "ok", "err"}
ListStates == {None, "spawned", "locked", "ok", "err"}

\* Nobody is asked before an address was typed.
GuiType ==
    /\ machine \in Machines
    /\ TargetsAreSeq
    /\ UiType(app)
    /\ connect \in [st : ConnectStates, client : Clients]
    /\ list \in [st : ListStates, client : Clients]
    /\ app.address = None => connect.client = NoClient /\ list.client = NoClient
    /\ ProgressType(progress)
    /\ WorkerType(worker)
    /\ content \in [DOMAIN Counts -> Nat]
    /\ replaced \in Nat

\* A thread works behind the last screen only, and shows the dialog when it ends.
\* The interface waits for a client only to write an image of a registry.
Behind ==
    /\ worker.phase \notin {None, "lock"} => app.screen = "apply"
    /\ worker.phase = "lock" => worker.k = 1 /\ ~IsLocal(app.selected)
    /\ progress.dialog = "visible" => worker.phase = "ended"
    /\ app.power # "on" /\ ~app.sudo => worker.phase \in {None, "ended"}

\* The blocks that the thread has left behind it are done with.
DoneWith == {"written", "up_to_date", "verified", "failed"}

Covered ==
    LET ended == worker.phase = "ended" /\ ~progress.failed
    IN  /\ worker.phase = "block" => worker.k <= worker.n
        /\ ended \/ worker.phase \in {"hooks", "expand", "register"} => worker.k > worker.n
        /\ ended \/ worker.phase \in {"manifest", "blocks", "block", "hooks", "expand", "register"} =>
             \A j \in 1..progress.count : j < worker.k => progress.states[j] \in DoneWith

\* While no image was replaced, the thread and the vector are of one length.
OneLength == replaced = 0 =>
    /\ content = Counts
    /\ ~progress.poisoned
    /\ worker.phase = "manifest" => progress.count = Counts[worker.client.host] /\ worker.k = 1
    /\ worker.phase \in {"blocks", "block"} => worker.n = progress.count /\ worker.k <= worker.n + 1
    /\ app.screen = "apply" /\ IsLocal(app.selected) => progress.count = Counts[app.selected]

GuiInv == GuiType /\ Behind /\ Covered /\ OneLength

\* The parts of an image's length.
LEMMA ClientType ==
    ASSUME NEW c \in Clients
    PROVE  /\ c.host \in {None} \cup Hosts /\ c.login \in Nat
           /\ c # NoClient => c.host \in Hosts
  BY DEF Clients, NoClient

\* A write starts without dialog and with a lock that is not poisoned.
LEMMA NewProgressType ==
    ASSUME NEW n \in Nat, NEW verify
    PROVE  LET p == NewProgress(n, verify)
           IN  ProgressType(p) /\ p.count = n /\ ~p.poisoned /\ p.dialog = None
  BY DEF ProgressType, ProgressFields, NewProgress, None

\* What a step of the thread leaves alone.
LEMMA ThreadedKeeps ==
    ASSUME Threaded
    PROVE  /\ app.power = "on" /\ app' = app /\ connect' = connect /\ list' = list
           /\ machine' = machine /\ targets' = targets /\ content' = content /\ replaced' = replaced
  BY DEF Threaded, Others, Running

\* A step of the thread that touches neither its type nor the vector's.
LEMMA ThreadTypes ==
    ASSUME GuiType, Threaded, ProgressType(progress'), WorkerType(worker')
    PROVE  GuiType'
  BY ThreadedKeeps DEF GuiType, UiType, TargetsAreSeq, ProgressType, WorkerType

\* The end of a thread shows the dialog after everything, or notes the failure.
LEMMA EndsStep ==
    ASSUME GuiInv, NEW failed \in BOOLEAN, Ends(failed), Threaded, worker.phase \notin {None, "lock", "ended", "panicked"},
           ~failed => /\ worker.k > worker.n
                      /\ \A j \in 1..progress.count : j < worker.k => progress.states[j] \in DoneWith
    PROVE  GuiInv'
<1> DEFINE gone == progress.failed \/ failed
           dialog == IF worker.mode = "verify" \/ ~failed THEN "visible" ELSE progress.dialog
<1>1. progress' = [progress EXCEPT !.done = TRUE, !.failed = gone, !.dialog = dialog]
  BY DEF Ends, Finish
<1>2. worker' = [worker EXCEPT !.phase = "ended", !.locks = FALSE]
  BY DEF Ends
<1>3. ~gone => ~failed
  OBVIOUS
<1> HIDE DEF gone, dialog
<1>4. ProgressType(progress) /\ WorkerType(worker)
  BY DEF GuiInv, GuiType
<1>5. /\ ProgressType(progress') /\ progress'.states = progress.states /\ progress'.count = progress.count
      /\ progress'.failed = gone /\ progress'.poisoned = progress.poisoned
  BY <1>1, <1>4 DEF ProgressType, ProgressFields
<1>6. /\ WorkerType(worker') /\ worker'.phase = "ended" /\ worker'.k = worker.k /\ worker'.n = worker.n
  BY <1>2, <1>4 DEF WorkerType, WorkerFields, Phases
<1>7. GuiType'
  BY <1>5, <1>6, ThreadTypes DEF GuiInv
<1>8. app.screen = "apply"
  BY DEF GuiInv, Behind
<1>9. Behind'
  BY <1>6, <1>8, ThreadedKeeps DEF Behind
<1>10. Covered'
  BY <1>3, <1>5, <1>6 DEF Covered
<1>11. OneLength'
  BY <1>5, <1>6, ThreadedKeeps DEF OneLength, GuiInv, None, IsLocal
<1>12. QED
  BY <1>7, <1>9, <1>10, <1>11 DEF GuiInv

\* Recording a state of the current block.
LEMMA RecordStep ==
    ASSUME GuiInv, NEW next, NEW state, record_cluster(next, state), Threaded,
           worker.phase \in {"blocks", "block"}, worker.k <= worker.n,
           WorkerType(next), next.phase \in {"blocks", "block"}, next.n = worker.n,
           \/ next.phase = "block" /\ next.k = worker.k
           \/ next.phase = "blocks" /\ next.k = worker.k + 1 /\ state \in DoneWith
    PROVE  GuiInv'
<1>1. ProgressType(progress) /\ WorkerType(worker) /\ app.screen = "apply" /\ progress.dialog # "visible"
  BY DEF GuiInv, GuiType, Behind, None
<1>2. CASE worker.k \in DOMAIN progress.states
  <2>1. progress' = [progress EXCEPT !.states[worker.k] = state] /\ worker' = next
    BY <1>2 DEF record_cluster
  <2>2. /\ ProgressType(progress') /\ progress'.count = progress.count
        /\ progress'.poisoned = progress.poisoned /\ progress'.dialog = progress.dialog
        /\ progress'.failed = progress.failed
        /\ progress'.states = [progress.states EXCEPT ![worker.k] = state]
    BY <1>1, <2>1 DEF ProgressType, ProgressFields
  <2>3. GuiType'
    BY <2>1, <2>2, ThreadTypes DEF GuiInv
  <2>4. Behind'
    BY <1>1, <2>1, <2>2, ThreadedKeeps DEF Behind, None, GuiInv
  <2>5. Covered'
    <3>1. \A j \in 1..progress.count : j < worker.k => progress.states[j] \in DoneWith
      BY DEF GuiInv, Covered
    <3>2. ASSUME NEW j \in 1..progress.count, j < next.k PROVE progress'.states[j] \in DoneWith
      <4>1. worker.k \in Nat /\ j \in Nat /\ DOMAIN progress.states = 1..progress.count
        BY <1>1 DEF ProgressType, WorkerType
      <4>2. CASE j = worker.k
        <5>1. state \in DoneWith
          BY <3>2, <4>1, <4>2
        <5>2. QED
          BY <1>2, <2>2, <4>2, <5>1
      <4>3. CASE j # worker.k
        <5>1. j < worker.k
          BY <3>2, <4>1, <4>3
        <5>2. QED
          BY <2>2, <3>1, <4>1, <4>3, <5>1
      <4>4. QED
        BY <4>2, <4>3
    <3>3. QED
      BY <2>1, <2>2, <3>2 DEF Covered
  <2>6. OneLength'
    BY <1>1, <2>1, <2>2, ThreadedKeeps DEF OneLength, GuiInv, IsLocal, WorkerType
  <2>7. QED
    BY <2>3, <2>4, <2>5, <2>6 DEF GuiInv
<1>3. CASE worker.k \notin DOMAIN progress.states
  <2>1. /\ progress' = [progress EXCEPT !.poisoned = TRUE]
        /\ worker' = [worker EXCEPT !.phase = "panicked", !.locks = FALSE]
    BY <1>3 DEF record_cluster
  <2>2. ProgressType(progress') /\ progress'.dialog = progress.dialog
    BY <1>1, <2>1 DEF ProgressType, ProgressFields
  <2>3. WorkerType(worker') /\ worker'.phase = "panicked"
    BY <1>1, <2>1 DEF WorkerType, WorkerFields, Phases
  <2>4. GuiType'
    BY <2>2, <2>3, ThreadTypes DEF GuiInv
  <2>5. Behind'
    BY <1>1, <2>2, <2>3, ThreadedKeeps DEF Behind, None, GuiInv
  <2>6. Covered'
    BY <2>3 DEF Covered
  <2>7. replaced # 0
    <3>1. SUFFICES ASSUME replaced = 0 PROVE FALSE
      OBVIOUS
    <3>2. worker.n = progress.count
      BY <3>1 DEF GuiInv, OneLength
    <3>3. worker.k \in Nat \ {0} /\ progress.count \in Nat /\ DOMAIN progress.states = 1..progress.count
      BY <1>1 DEF ProgressType, WorkerType
    <3>4. QED
      BY <1>3, <3>2, <3>3
  <2>8. OneLength'
    BY <2>7, ThreadedKeeps DEF OneLength
  <2>9. QED
    BY <2>4, <2>5, <2>6, <2>8 DEF GuiInv
<1>4. QED
  BY <1>2, <1>3

\* Reading the manifest gives the length that the interface counted on.
LEMMA FetchStep ==
    ASSUME GuiInv, FetchManifest
    PROVE  GuiInv'
<1>1. Threaded /\ worker.phase = "manifest"
  BY DEF FetchManifest
<1>2. CASE Ends(TRUE)
  BY <1>1, <1>2, EndsStep DEF None
<1>3. CASE ~Ends(TRUE)
  <2>1. /\ worker' = [worker EXCEPT !.phase = "blocks", !.n = content[worker.client.host], !.locks = TRUE]
        /\ progress' = progress
    BY <1>3 DEF FetchManifest
  <2>2. ProgressType(progress) /\ WorkerType(worker) /\ worker.client.host \in Hosts
        /\ app.screen = "apply" /\ progress.dialog # "visible"
    BY <1>1 DEF GuiInv, GuiType, WorkerType, Behind, None
  <2>3. content[worker.client.host] \in Nat
    BY <2>2, GuiAssumption DEF GuiInv, GuiType
  <2>4. WorkerType(worker') /\ worker'.phase = "blocks" /\ worker'.k = worker.k
        /\ worker'.n = content[worker.client.host]
    BY <2>1, <2>2, <2>3 DEF WorkerType, WorkerFields, Phases
  <2>5. GuiType'
    BY <1>1, <2>1, <2>2, <2>4, ThreadTypes DEF GuiInv
  <2>6. Behind'
    BY <1>1, <2>1, <2>2, <2>4, ThreadedKeeps DEF Behind, None
  <2>7. Covered'
    BY <1>1, <2>1, <2>4 DEF Covered, GuiInv
  <2>8. OneLength'
    BY <1>1, <2>1, <2>2, <2>3, <2>4, ThreadedKeeps DEF OneLength, GuiInv, IsLocal
  <2>9. QED
    BY <2>5, <2>6, <2>7, <2>8 DEF GuiInv
<1>4. QED
  BY <1>2, <1>3

\* A block is begun, or found up to date.
LEMMA BlockStep ==
    ASSUME GuiInv, Block
    PROVE  GuiInv'
<1>1. Threaded /\ worker.phase = "blocks" /\ worker.k <= worker.n /\ WorkerType(worker)
  BY DEF Block, GuiInv, GuiType
<1>2. CASE record_cluster([worker EXCEPT !.phase = "block"],
                          IF worker.mode = "write" THEN "writing" ELSE "verifying")
  <2> DEFINE next == [worker EXCEPT !.phase = "block"]
             state == IF worker.mode = "write" THEN "writing" ELSE "verifying"
  <2>1. WorkerType(next) /\ next.phase = "block" /\ next.k = worker.k /\ next.n = worker.n
    BY <1>1 DEF WorkerType, WorkerFields, Phases
  <2>2. record_cluster(next, state)
    BY <1>2
  <2> HIDE DEF next, state
  <2>3. QED
    BY <1>1, <2>1, <2>2, RecordStep
<1>3. CASE record_cluster(NextBlock, "up_to_date")
  <2>1. WorkerType(NextBlock) /\ NextBlock.phase = "blocks" /\ NextBlock.k = worker.k + 1
        /\ NextBlock.n = worker.n
    BY <1>1 DEF WorkerType, WorkerFields, Phases, NextBlock
  <2>2. "up_to_date" \in DoneWith
    BY DEF DoneWith
  <2>3. QED
    BY <1>1, <1>3, <2>1, <2>2, RecordStep
<1>4. QED
  BY <1>2, <1>3 DEF Block

\* A block is done with.
LEMMA BlockEndsStep ==
    ASSUME GuiInv, BlockEnds
    PROVE  GuiInv'
<1>1. Threaded /\ worker.phase = "block" /\ worker.k <= worker.n /\ WorkerType(worker)
  BY DEF BlockEnds, GuiInv, GuiType, Covered
<1>2. PICK state \in {"written", "verified", "failed"} : record_cluster(NextBlock, state)
  BY DEF BlockEnds
<1>3. WorkerType(NextBlock) /\ NextBlock.phase = "blocks" /\ NextBlock.k = worker.k + 1
      /\ NextBlock.n = worker.n
  BY <1>1 DEF WorkerType, WorkerFields, Phases, NextBlock
<1>4. state \in DoneWith
  BY <1>2 DEF DoneWith
<1>5. QED
  BY <1>1, <1>2, <1>3, <1>4, RecordStep

\* The steps after the blocks, which only change where the thread stands.
LEMMA HookStep ==
    ASSUME GuiInv, Threaded, ProgressType(progress'), NEW phase \in {"hooks", "expand", "register"},
           worker.phase \in {"blocks", "hooks", "expand"}, worker.k > worker.n,
           worker' = [worker EXCEPT !.phase = phase],
           progress'.count = progress.count, progress'.states = progress.states,
           progress'.dialog = progress.dialog, progress'.poisoned = progress.poisoned
    PROVE  GuiInv'
<1>1. WorkerType(worker) /\ app.screen = "apply" /\ progress.dialog # "visible"
  BY DEF GuiInv, GuiType, Behind, None
<1>2. WorkerType(worker') /\ worker'.phase = phase /\ worker'.k = worker.k /\ worker'.n = worker.n
  BY <1>1 DEF WorkerType, WorkerFields, Phases
<1>3. GuiType'
  BY <1>2, ThreadTypes DEF GuiInv
<1>4. Behind'
  BY <1>1, <1>2, ThreadedKeeps DEF Behind, None
<1>5. Covered'
  BY <1>2 DEF Covered, GuiInv
<1>6. OneLength'
  BY <1>2, ThreadedKeeps DEF OneLength, GuiInv, IsLocal
<1>7. QED
  BY <1>3, <1>4, <1>5, <1>6 DEF GuiInv

\* Every step of the thread that writes or verifies keeps the invariant.
LEMMA WorkerStepKeeps ==
    ASSUME GuiInv, WorkerStep
    PROVE  GuiInv'
<1>1. WorkerType(worker) /\ ProgressType(progress)
  BY DEF GuiInv, GuiType
<1>2. ASSUME worker.phase \in {"hooks", "expand", "register"}
      PROVE  /\ worker.k > worker.n
             /\ \A j \in 1..progress.count : j < worker.k => progress.states[j] \in DoneWith
  BY <1>2 DEF GuiInv, Covered
<1>3. CASE FetchManifest
  BY <1>3, FetchStep
<1>4. CASE Block
  BY <1>4, BlockStep
<1>5. CASE BlockEnds
  BY <1>5, BlockEndsStep
<1>6. CASE WorkerFails
  BY <1>6, EndsStep DEF WorkerFails, None
<1>7. CASE BlocksEnd
  <2>1. Threaded /\ worker.phase = "blocks" /\ worker.k > worker.n
        /\ \A j \in 1..progress.count : j < worker.k => progress.states[j] \in DoneWith
    BY <1>7 DEF BlocksEnd, GuiInv, Covered
  <2>2. CASE worker.mode = "verify"
    BY <1>7, <2>1, <2>2, EndsStep DEF BlocksEnd, None
  <2>3. CASE worker.mode # "verify"
    BY <1>1, <1>7, <2>1, <2>3, HookStep DEF BlocksEnd
  <2>4. QED
    BY <2>2, <2>3
<1>8. CASE Extend
  <2>1. Threaded /\ worker.phase = "hooks" /\ worker.k > worker.n
    BY <1>2, <1>8 DEF Extend
  <2>2. CASE Ends(TRUE)
    BY <2>1, <2>2, EndsStep DEF None
  <2>3. CASE worker' = [worker EXCEPT !.phase = "expand"] /\ progress' = [progress EXCEPT !.expanding = TRUE]
    <3>1. /\ ProgressType(progress') /\ progress'.count = progress.count
          /\ progress'.states = progress.states /\ progress'.dialog = progress.dialog
          /\ progress'.poisoned = progress.poisoned
      BY <1>1, <2>3 DEF ProgressType, ProgressFields
    <3>2. QED
      BY <2>1, <2>3, <3>1, HookStep
  <2>4. CASE worker' = [worker EXCEPT !.phase = "register"] /\ progress' = progress
    BY <1>1, <2>1, <2>4, HookStep
  <2>5. QED
    BY <1>8, <2>2, <2>3, <2>4 DEF Extend
<1>9. CASE Expanded
  <2>1. Threaded /\ worker.phase = "expand" /\ worker.k > worker.n
        /\ worker' = [worker EXCEPT !.phase = "register"] /\ progress' = [progress EXCEPT !.expanding = FALSE]
    BY <1>2, <1>9 DEF Expanded
  <2>2. /\ ProgressType(progress') /\ progress'.count = progress.count
        /\ progress'.states = progress.states /\ progress'.dialog = progress.dialog
        /\ progress'.poisoned = progress.poisoned
    BY <1>1, <2>1 DEF ProgressType, ProgressFields
  <2>3. QED
    BY <2>1, <2>2, HookStep
<1>10. CASE RegisterWritten
  BY <1>2, <1>10, EndsStep DEF RegisterWritten, None
<1>11. QED
  BY <1>3, <1>4, <1>5, <1>6, <1>7, <1>8, <1>9, <1>10 DEF WorkerStep

\* The other threads, the text typed and the images replaced.
LEMMA OtherStepsKeep ==
    ASSUME GuiInv, TypeAddress \/ ConnectEnds \/ ListStep \/ Replace
    PROVE  GuiInv'
<1>1. CASE TypeAddress
  <2>1. PICK h \in Hosts : app' = [app EXCEPT !.address = h]
    BY <1>1 DEF TypeAddress
  <2>2. UiType(app) /\ app.power = "on"
    BY <1>1 DEF GuiInv, GuiType, TypeAddress, Draws
  <2>5. h # None
    BY GuiAssumption DEF None
  <2>9. app'.address = h /\ Keeps(app, app', {"address"}) /\ DOMAIN app = Fields
    BY <2>1, <2>2 DEF UiType, Keeps, Fields
  <2>10. app'.power = app.power /\ app'.screen = app.screen /\ app'.selected = app.selected
    BY <2>9 DEF Keeps, Fields
  <2>11. /\ app'.target = app.target /\ app'.device = app.device /\ app'.presses = app.presses
         /\ app'.client = app.client /\ app'.images = app.images /\ DOMAIN app' = Fields
    BY <2>9 DEF Keeps, Fields
  <2>3. UiType(app')
    BY <2>2, <2>5, <2>9, <2>10, <2>11 DEF UiType
  <2>4. /\ machine' = machine /\ targets' = targets /\ content' = content /\ replaced' = replaced
        /\ connect' = connect /\ list' = list /\ progress' = progress /\ worker' = worker
    BY <1>1 DEF TypeAddress
  <2>6. GuiType'
    BY <2>3, <2>4, <2>5, <2>9 DEF GuiInv, GuiType, UiType, TargetsAreSeq, ProgressType, WorkerType
  <2>7. Behind' /\ Covered' /\ OneLength'
    BY <2>2, <2>4, <2>10 DEF GuiInv, Behind, Covered, OneLength, IsLocal
  <2>8. QED
    BY <2>6, <2>7 DEF GuiInv
<1>2. CASE ConnectEnds \/ ListStep
  <2>1. /\ machine' = machine /\ targets' = targets /\ content' = content /\ replaced' = replaced
        /\ app' = app /\ progress' = progress /\ worker' = worker
    BY <1>2 DEF ConnectEnds, ListStep, ListLocks, ListEnds, Others
  <2>2. connect \in [st : ConnectStates, client : Clients] /\ list \in [st : ListStates, client : Clients]
    BY DEF GuiInv, GuiType
  <2>3. /\ connect' \in [st : ConnectStates, client : Clients] /\ connect'.client = connect.client
        /\ list' \in [st : ListStates, client : Clients] /\ list'.client = list.client
    BY <1>2, <2>2 DEF ConnectEnds, ListStep, ListLocks, ListEnds, Others, ConnectStates, ListStates
  <2>4. GuiType'
    BY <2>1, <2>3 DEF GuiInv, GuiType, UiType, TargetsAreSeq, ProgressType, WorkerType
  <2>5. Behind' /\ Covered' /\ OneLength'
    BY <2>1 DEF GuiInv, Behind, Covered, OneLength, IsLocal
  <2>6. QED
    BY <2>4, <2>5 DEF GuiInv
<1>3. CASE Replace
  <2>1. /\ machine' = machine /\ targets' = targets /\ replaced' = replaced + 1
        /\ app' = app /\ progress' = progress /\ worker' = worker
        /\ connect' = connect /\ list' = list
    BY <1>3 DEF Replace
  <2>2. content \in [DOMAIN Counts -> Nat] /\ replaced \in Nat
    BY DEF GuiInv, GuiType
  <2>3. PICK image \in DOMAIN content :
           \E n \in {0, Counts[image] + 1} : content' = [content EXCEPT ![image] = n]
    BY <1>3 DEF Replace
  <2>4. content' \in [DOMAIN Counts -> Nat] /\ replaced' \in Nat /\ replaced' # 0
    BY <2>1, <2>2, <2>3, GuiAssumption
  <2>5. GuiType'
    BY <2>1, <2>4 DEF GuiInv, GuiType, UiType, TargetsAreSeq, ProgressType, WorkerType
  <2>6. Behind' /\ Covered' /\ OneLength'
    BY <2>1, <2>4 DEF GuiInv, Behind, Covered, OneLength
  <2>7. QED
    BY <2>5, <2>6 DEF GuiInv
<1>4. QED
  BY <1>1, <1>2, <1>3

(***************************************************************************)
(* A frame.                                                                *)
(***************************************************************************)
Polled(key) == poll_list_events(poll_login_events(handle_hotkeys(app, key)))

\* What the threads sent has the types of the interface's state.
LEMMA PolledType ==
    ASSUME GuiType, NEW key, handle_hotkeys(app, key).power = "on"
    PROVE  /\ UiType(Polled(key)) /\ Polled(key).power = "on"
           /\ Keeps(app, Polled(key), {"power", "dialog", "client", "login", "loading", "images"})
<1> DEFINE a == handle_hotkeys(app, key)
           b == poll_login_events(a)
           c == poll_list_events(b)
<1>1. UiType(app) /\ DOMAIN app = Fields
  BY DEF GuiType, UiType
<1>2. Keeps(app, a, {"power", "dialog"}) /\ DOMAIN a = Fields /\ a.power = "on"
  BY <1>1, HotkeysKeep DEF Keeps
<1>3. /\ Keeps(a, b, {"client", "login", "dialog", "loading"}) /\ b.client \in {a.client, connect.client}
      /\ DOMAIN b = Fields
  BY <1>2, PollLoginKeeps DEF Keeps
<1>4. Keeps(b, c, {"images", "loading"}) /\ c.images \in {b.images, list.client.host}
  BY <1>3, PollListKeeps
<1>5. c = Polled(key)
  BY DEF Polled
<1> HIDE DEF a, b, c
<1>6. Keeps(app, c, {"power", "dialog", "client", "login", "loading", "images"}) /\ c.power = "on"
  BY <1>1, <1>2, <1>3, <1>4 DEF Keeps, Fields
<1>7. c.client \in {app.client, connect.client} /\ c.images \in {app.images, list.client.host}
  BY <1>1, <1>2, <1>3, <1>4 DEF Keeps, Fields
<1>8. /\ c.screen = app.screen /\ c.target = app.target /\ c.selected = app.selected
      /\ c.device = app.device /\ c.presses = app.presses /\ c.address = app.address /\ DOMAIN c = Fields
  BY <1>1, <1>6 DEF Keeps, Fields
<1>9. connect.client \in Clients /\ list.client \in Clients
      /\ (app.address = None => list.client.host = None)
  BY DEF GuiType, NoClient
<1>10. list.client.host \in {None} \cup Hosts
  BY <1>9, ClientType
<1>11. UiType(c)
  BY <1>1, <1>7, <1>8, <1>9, <1>10 DEF UiType
<1>12. QED
  BY <1>5, <1>6, <1>11

\* The dialogs above the screen leave its fields alone.
LEMMA DialogsKeep ==
    ASSUME NEW w, NEW key, NEW connects, UiType(w)
    PROVE  LET v == SudoConfirm(RegistryLogin(w, key, connects), key)
           IN  /\ UiType(v) /\ Keeps(w, v, {"login", "dialog", "power", "sudo"})
               /\ v.power # w.power => key = "y" /\ v.sudo /\ v.power # "chained"
<1> DEFINE a == RegistryLogin(w, key, connects)
           v == SudoConfirm(a, key)
<1>1. DOMAIN w = Fields
  BY DEF UiType
<1>2. Keeps(w, a, {"login", "dialog"}) /\ DOMAIN a = Fields
  BY <1>1, LoginKeeps DEF Keeps
<1>3. /\ Keeps(a, v, {"power", "sudo"})
      /\ v.power # a.power => key = "y" /\ v.sudo = a.sudo /\ a.sudo /\ v.power # "chained"
  BY <1>2, SudoKeeps
<1> HIDE DEF a, v
<1>4. Keeps(w, v, {"login", "dialog", "power", "sudo"}) /\ a.power = w.power
  BY <1>1, <1>2, <1>3 DEF Keeps, Fields
<1>5. UiType(v)
  BY <1>1, <1>4 DEF UiType, Keeps, Fields
<1>6. UiType(v) /\ Keeps(w, v, {"login", "dialog", "power", "sudo"})
      /\ (v.power # w.power => key = "y" /\ v.sudo /\ v.power # "chained")
  BY <1>3, <1>4, <1>5
<1>7. QED
  BY <1>6 DEF a, v

\* A write starts from the beginning of a vector made for its image.
LEMMA WriteStarts ==
    ASSUME GuiInv, NEW u, StartWrite(u), IsLocal(u.selected)
    PROVE  /\ ProgressType(progress') /\ WorkerType(worker') /\ ~progress'.poisoned
           /\ worker'.phase = "blocks" /\ worker'.k = 1 /\ progress'.dialog = None
           /\ worker'.n = progress'.count /\ progress'.count = content[u.selected]
<1>1. content[u.selected] \in Nat
  BY GuiAssumption DEF IsLocal, GuiInv, GuiType
<1>2. /\ progress' = NewProgress(content[u.selected], FALSE)
      /\ worker' = [phase |-> "blocks", mode |-> "write", k |-> 1, n |-> content[u.selected],
                    client |-> NoClient, locks |-> FALSE]
  BY DEF StartWrite, Worker
<1>3. ProgressType(progress') /\ progress'.count = content[u.selected] /\ ~progress'.poisoned
      /\ progress'.dialog = None
  BY <1>1, <1>2, NewProgressType
<1>4. WorkerType(worker')
  BY <1>1, <1>2 DEF WorkerType, WorkerFields, Phases, Clients
<1>5. QED
  BY <1>2, <1>3, <1>4

\* A write from a registry begins with the wait for its client.
Waiting(u, key) ==
    /\ u.screen = "confirm" /\ ~IsLocal(u.selected) /\ u.client # NoClient /\ key # "y"
    /\ worker' = Worker("lock", "write", 0, u.client) /\ progress' = progress

LEMMA WaitStarts ==
    ASSUME NEW u, NEW key, UiType(u), Waiting(u, key)
    PROVE  /\ WorkerType(worker') /\ worker'.phase = "lock" /\ worker'.k = 1
           /\ progress' = progress
<1>1. u.client \in Clients /\ u.client.host \in Hosts
  BY ClientType DEF UiType, Waiting
<1>2. worker' = [phase |-> "lock", mode |-> "write", k |-> 1, n |-> 0, client |-> u.client, locks |-> FALSE]
  BY DEF Waiting, Worker
<1>3. QED
  BY <1>1, <1>2 DEF WorkerType, WorkerFields, Phases, Waiting

\* A verification has a vector of its own, or that of the write before it.
LEMMA VerifyStarts ==
    ASSUME GuiInv, NEW u, NEW only \in BOOLEAN, StartVerify(u, only), IsLocal(u.selected)
    PROVE  /\ ProgressType(progress') /\ WorkerType(worker')
           /\ worker'.phase = "blocks" /\ worker'.k = 1 /\ progress'.dialog = None
           /\ worker'.n = content[u.selected]
           /\ only => progress'.count = content[u.selected] /\ ~progress'.poisoned
           /\ ~only => progress'.count = progress.count /\ progress'.poisoned = progress.poisoned
<1>1. content[u.selected] \in Nat
  BY GuiAssumption DEF IsLocal, GuiInv, GuiType
<1>2. /\ worker' = [phase |-> "blocks", mode |-> "verify", k |-> 1, n |-> content[u.selected],
                    client |-> NoClient, locks |-> FALSE]
  BY DEF StartVerify, Worker
<1>3. WorkerType(worker')
  BY <1>1, <1>2 DEF WorkerType, WorkerFields, Phases, Clients
<1>4. CASE only
  <2>1. progress' = NewProgress(content[u.selected], TRUE)
    BY <1>4 DEF StartVerify
  <2>2. ProgressType(progress') /\ progress'.count = content[u.selected] /\ ~progress'.poisoned
        /\ progress'.dialog = None
    BY <1>1, <2>1, NewProgressType
  <2>3. QED
    BY <1>2, <1>3, <1>4, <2>2
<1>5. CASE ~only
  <2>1. progress' = [progress EXCEPT !.states = [k \in DOMAIN @ |-> "pending"],
                                     !.done = FALSE, !.dialog = None]
    BY <1>5 DEF StartVerify
  <2>2. ProgressType(progress)
    BY DEF GuiInv, GuiType
  <2> DEFINE states == [k \in DOMAIN progress.states |-> "pending"]
  <2>3. DOMAIN states = 1..progress.count /\ Len(states) = progress.count
    BY <2>2 DEF ProgressType
  <2>4. progress' = [progress EXCEPT !.states = states, !.done = FALSE, !.dialog = None]
    BY <2>1
  <2> HIDE DEF states
  <2>5. ProgressType(progress') /\ progress'.count = progress.count /\ progress'.dialog = None
        /\ progress'.poisoned = progress.poisoned
    BY <2>2, <2>3, <2>4 DEF ProgressType, ProgressFields
  <2>6. QED
    BY <1>2, <1>3, <1>5, <2>5
<1>6. QED
  BY <1>4, <1>5

\* The five things a frame can set off.
FrameWork(u, key, ok) ==
    \/ Starting(u, key, ok) /\ u.screen = "confirm" /\ StartWrite(u) /\ IsLocal(u.selected) /\ key # "y"
    \/ ~Starting(u, key, ok) /\ Waiting(u, key)
    \/ Starting(u, key, ok) /\ u.screen = "device" /\ StartVerify(u, TRUE) /\ IsLocal(u.selected) /\ key # "y"
    \/ u.screen = "apply" /\ ShowsDialog /\ Chosen(u, key) = "verify" /\ key # "y" /\ IsLocal(u.selected)
         /\ StartVerify(u, FALSE)
    \/ ~Starting(u, key, ok) /\ worker' = worker
         /\ (progress' = progress \/ (ShowsDialog /\ progress' = Hidden))

\* What a frame starts is one of these five.
LEMMA StartsMeaning ==
    ASSUME NEW u, NEW key, NEW ok \in BOOLEAN, Starts(u, key, ok)
    PROVE  FrameWork(u, key, ok)
<1> DEFINE writes == Writes(u, key) /\ ok /\ IsLocal(u.selected)
           streams == Streams(u, key)
           verifies == Shown(u, key) /\ Verifies(u, key) /\ ok /\ IsLocal(u.selected)
           again == Shown(u, key) /\ Reverifies(u, key)
           local == ok /\ IsLocal(u.selected)
<1>1. /\ Writes(u, key) => u.screen = "confirm" /\ key = "confirm"
      /\ streams => u.screen = "confirm" /\ key = "confirm" /\ ~IsLocal(u.selected) /\ u.client # NoClient
      /\ Verifies(u, key) => u.screen = "device" /\ key = "v"
      /\ Reverifies(u, key) => u.screen = "apply" /\ ShowsDialog /\ Chosen(u, key) = "verify"
  BY DEF Writes, Verifies, Reverifies, Streams
<1>2. Chosen(u, key) = "verify" => key # "y"
  BY DEF Chosen, None
<1>3. \/ writes /\ StartWrite(u)
      \/ streams /\ worker' = Worker("lock", "write", 0, u.client) /\ progress' = progress
      \/ verifies /\ StartVerify(u, TRUE)
      \/ again /\ (IF local THEN StartVerify(u, FALSE) ELSE progress' = Hidden /\ worker' = worker)
      \/ ~writes /\ ~verifies /\ ~again /\ progress' = progress /\ worker' = worker
  <2>1. CASE writes \/ streams \/ verifies \/ again
    BY <2>1, <1>1 DEF Starts, Shown
  <2>2. CASE ~(writes \/ streams \/ verifies \/ again)
    BY <2>2 DEF Starts, Shown
  <2>3. QED
    BY <2>1, <2>2
<1>4. CASE writes /\ StartWrite(u)
  BY <1>1, <1>4 DEF FrameWork, Starting
<1>9. CASE streams /\ worker' = Worker("lock", "write", 0, u.client) /\ progress' = progress
  BY <1>1, <1>9 DEF FrameWork, Starting, Waiting
<1>5. CASE verifies /\ StartVerify(u, TRUE)
  BY <1>1, <1>5 DEF FrameWork, Starting
<1>6. CASE again /\ (IF local THEN StartVerify(u, FALSE) ELSE progress' = Hidden /\ worker' = worker)
  BY <1>1, <1>2, <1>6 DEF FrameWork, Starting
<1>7. CASE ~writes /\ ~verifies /\ ~again /\ progress' = progress /\ worker' = worker
  BY <1>7 DEF FrameWork, Starting
<1>8. QED
  BY <1>3, <1>4, <1>5, <1>6, <1>7, <1>9

\* A frame that does not end with the key that leaves the first screen.
LEMMA FramePicks ==
    ASSUME GuiInv, NEW key, Frame(key), handle_hotkeys(app, key).power = "on"
    PROVE  \E w : \E ok \in BOOLEAN, expired \in BOOLEAN :
             /\ ScreenEffect(Polled(key), key, ok, expired, w)
             /\ UiType(app') /\ Keeps(w, app', {"login", "dialog", "power", "sudo"})
             /\ app'.power # w.power => key = "y" /\ app'.sudo /\ app'.power # "chained"
             /\ FrameWork(Polled(key), key, ok)
             /\ IF Chains(Polled(key), key, expired)
                THEN LET t == targets[app.target]
                     IN  /\ ok => machine.efi
                         /\ IF machine.efi THEN Register(t.label, t.esp, t.path, ok)
                            ELSE UNCHANGED firmwareVars
                ELSE UNCHANGED firmwareVars
<1> DEFINE u == Polled(key)
<1>1. UiType(u) /\ u.power = "on"
  BY PolledType DEF GuiInv
<1>2. PICK ok \in Outcomes(u, key), expired \in IF u.countdown THEN BOOLEAN ELSE {FALSE},
           connects \in IF CanConnect(u) /\ key \in {None, "enter"} THEN BOOLEAN ELSE {FALSE} :
         /\ app' = SudoConfirm(RegistryLogin(Screen(u, key, ok, expired), key, connects), key)
         /\ Starts(u, key, ok)
         /\ IF Chains(u, key, expired)
            THEN LET t == targets[app.target]
                 IN  /\ ok => machine.efi
                     /\ IF machine.efi THEN Register(t.label, t.esp, t.path, ok)
                        ELSE UNCHANGED firmwareVars
            ELSE UNCHANGED firmwareVars
  BY DEF Frame, Polled
<1>3. ok \in BOOLEAN /\ expired \in BOOLEAN
  BY DEF Outcomes
<1> HIDE DEF u
<1>4. ScreenEffect(u, key, ok, expired, Screen(u, key, ok, expired))
  BY <1>1, ScreenHasEffect DEF GuiInv, GuiType
<1> DEFINE w == Screen(u, key, ok, expired)
<1>5. UiType(w)
  BY <1>4 DEF ScreenEffect
<1>6. /\ UiType(app') /\ Keeps(w, app', {"login", "dialog", "power", "sudo"})
      /\ app'.power # w.power => key = "y" /\ app'.sudo /\ app'.power # "chained"
  BY <1>2, <1>5, DialogsKeep
<1>7. FrameWork(u, key, ok)
  BY <1>2, <1>3, StartsMeaning
<1>8. QED
  BY <1>2, <1>3, <1>4, <1>6, <1>7 DEF u

\* The threads that a frame starts, and whose results it takes.
LEMMA FrameThreads ==
    ASSUME GuiInv, NEW key, Frame(key)
    PROVE  /\ connect' \in [st : ConnectStates, client : Clients]
           /\ list' \in [st : ListStates, client : Clients]
           /\ app.address = None => connect'.client = NoClient /\ list'.client = NoClient
           /\ machine' = machine /\ targets' = targets /\ content' = content /\ replaced' = replaced
<1>1. machine' = machine /\ targets' = targets /\ content' = content /\ replaced' = replaced
  BY DEF Frame
<1>2. /\ connect \in [st : ConnectStates, client : Clients] /\ list \in [st : ListStates, client : Clients]
      /\ app.address = None => connect.client = NoClient /\ list.client = NoClient
      /\ UiType(app) /\ DOMAIN app = Fields
  BY DEF GuiInv, GuiType, UiType
<1>3. CASE handle_hotkeys(app, key).power # "on"
  BY <1>1, <1>2, <1>3 DEF Frame
<1>4. CASE handle_hotkeys(app, key).power = "on"
  <2>1. PICK connects \in IF CanConnect(Polled(key)) THEN BOOLEAN ELSE {FALSE} : Threads(connects, app.address)
    BY <1>4 DEF Frame, Polled
  <2>2. connects \in BOOLEAN /\ (connects => CanConnect(Polled(key)))
    OBVIOUS
  <2>3. Polled(key).address = app.address
    BY <1>2, <1>4, PolledType DEF GuiInv, Keeps, Fields
  <2>4. connects => app.address \in Hosts /\ app.address # None
    BY <1>2, <2>2, <2>3 DEF CanConnect, UiType
  <2>5. connect.client.login + 1 \in Nat
    BY <1>2, ClientType
  <2>6. CASE connects
    <3>1. connect' = [st |-> "running",
                      client |-> [login |-> connect.client.login + 1, host |-> app.address]]
      BY <2>1, <2>6 DEF Threads
    <3>2. [login |-> connect.client.login + 1, host |-> app.address] \in Clients
      BY <2>4, <2>5, <2>6 DEF Clients
    <3>3. list' \in [st : ListStates, client : Clients]
      BY <1>2, <2>1 DEF Threads, ListStates
    <3>4. QED
      BY <1>1, <2>4, <2>6, <3>1, <3>2, <3>3 DEF ConnectStates
  <2>7. CASE ~connects
    <3>1. connect' \in [st : ConnectStates, client : Clients] /\ connect'.client = connect.client
      BY <1>2, <2>1, <2>7 DEF Threads, ConnectStates
    <3>2. list' \in [st : ListStates, client : Clients] /\ list'.client \in {list.client, connect.client}
      BY <1>2, <2>1 DEF Threads, ListStates
    <3>3. QED
      BY <1>1, <1>2, <3>1, <3>2
  <2>8. QED
    BY <2>2, <2>6, <2>7
<1>5. QED
  BY <1>3, <1>4

\* Hiding the dialog changes nothing else.
LEMMA HiddenType ==
    ASSUME ProgressType(progress), progress' = Hidden
    PROVE  /\ ProgressType(progress') /\ progress'.dialog = "hidden" /\ progress'.count = progress.count
           /\ progress'.states = progress.states /\ progress'.failed = progress.failed
           /\ progress'.poisoned = progress.poisoned
  BY DEF Hidden, ProgressType, ProgressFields

\* A frame ends the program only when nothing is being written, and starts a thread
\* only where none works.
LEMMA FrameStep ==
    ASSUME GuiInv, NEW key, Frame(key)
    PROVE  GuiInv'
<1>1. app.power = "on" /\ GuiType /\ UiType(app) /\ DOMAIN app = Fields
      /\ ProgressType(progress) /\ WorkerType(worker) /\ worker.phase # "lock"
  BY DEF Frame, Draws, GuiInv, GuiType, UiType
<1>2. /\ connect' \in [st : ConnectStates, client : Clients]
      /\ list' \in [st : ListStates, client : Clients]
      /\ app.address = None => connect'.client = NoClient /\ list'.client = NoClient
      /\ machine' = machine /\ targets' = targets /\ content' = content /\ replaced' = replaced
  BY FrameThreads
<1>3. CASE handle_hotkeys(app, key).power # "on"
  <2>1. app' = handle_hotkeys(app, key) /\ progress' = progress /\ worker' = worker
    BY <1>3 DEF Frame
  <2>2. Keeps(app, app', {"power", "dialog"}) /\ app.screen = "image"
    BY <1>1, <1>3, <2>1, HotkeysKeep
  <2>3. /\ app'.screen = app.screen /\ app'.target = app.target /\ app'.selected = app.selected
        /\ app'.device = app.device /\ app'.presses = app.presses /\ app'.address = app.address
        /\ app'.client = app.client /\ app'.images = app.images /\ DOMAIN app' = Fields
    BY <1>1, <2>2 DEF Keeps, Fields
  <2>4. UiType(app')
    BY <1>1, <2>3 DEF UiType
  <2>5. GuiType'
    BY <1>1, <1>2, <2>1, <2>3, <2>4 DEF GuiType, UiType, TargetsAreSeq, ProgressType, WorkerType
  <2>6. Behind' /\ Covered' /\ OneLength'
    BY <1>1, <1>2, <2>1, <2>2, <2>3 DEF GuiInv, Behind, Covered, OneLength, IsLocal
  <2>7. QED
    BY <2>5, <2>6 DEF GuiInv
<1>4. CASE handle_hotkeys(app, key).power = "on"
  <2> DEFINE u == Polled(key)
  <2>21. PICK w : \E ok \in BOOLEAN, expired \in BOOLEAN :
          /\ ScreenEffect(u, key, ok, expired, w)
          /\ UiType(app') /\ Keeps(w, app', {"login", "dialog", "power", "sudo"})
          /\ app'.power # w.power => key = "y" /\ app'.sudo
          /\ FrameWork(u, key, ok)
    BY <1>4, FramePicks
  <2>1. PICK ok \in BOOLEAN, expired \in BOOLEAN :
          /\ ScreenEffect(u, key, ok, expired, w)
          /\ UiType(app') /\ Keeps(w, app', {"login", "dialog", "power", "sudo"})
          /\ app'.power # w.power => key = "y" /\ app'.sudo
          /\ FrameWork(u, key, ok)
    BY <2>21
  <2>2. UiType(u) /\ Keeps(app, u, {"power", "dialog", "client", "login", "loading", "images"})
    BY <1>1, <1>4, PolledType
  <2> HIDE DEF u
  <2>3. u.screen = app.screen /\ u.selected = app.selected /\ u.address = app.address
    BY <1>1, <2>2 DEF Keeps, Fields
  <2>4. /\ UiType(w)
        /\ Keeps(u, w, Fields \ {"sudo", "dialog", "address", "login", "client", "images", "loading"})
        /\ w.power # "on" =>
             \/ u.screen = "boot"
             \/ u.screen = "apply" /\ ShowsDialog /\ Chosen(u, key) \in {"reboot", "exit"}
        /\ u.screen = "apply" => w.screen = "apply" /\ w.selected = u.selected
        /\ u.screen # "apply" =>
             /\ w.screen = "apply" <=> Starting(u, key, ok)
             /\ w.screen = "apply" => w.selected = u.selected
        /\ u.screen = "confirm" => w.selected = u.selected
    BY <2>1 DEF ScreenEffect
  <2>5. w.address = u.address /\ DOMAIN w = Fields
    BY <2>2, <2>4 DEF Keeps, UiType, Fields
  <2>6. app'.screen = w.screen /\ app'.selected = w.selected /\ app'.address = w.address
    BY <2>1, <2>5 DEF Keeps, Fields
  <2>7. Starting(u, key, ok) => u.screen \in {"confirm", "device"}
    BY DEF Starting, Writes, Verifies
  <2>8. ShowsDialog => worker.phase = "ended" /\ ~progress.poisoned
    BY DEF ShowsDialog, GuiInv, Behind
  <2>9. u.screen # "apply" => worker.phase = None
    BY <1>1, <2>3 DEF GuiInv, Behind
  <2>10. app'.power # "on" /\ ~app'.sudo => w.power # "on"
    BY <2>1
  <2> DEFINE Kept == /\ ProgressType(progress') /\ WorkerType(worker')
                     /\ Behind' /\ Covered' /\ OneLength'
  <2>11. Kept
    <3>1. CASE Starting(u, key, ok) /\ u.screen \in {"confirm", "device"} /\ key # "y"
                  /\ ((StartWrite(u) /\ IsLocal(u.selected)) \/ (StartVerify(u, TRUE) /\ IsLocal(u.selected)))
      <4>1. /\ ProgressType(progress') /\ WorkerType(worker') /\ ~progress'.poisoned
            /\ worker'.phase = "blocks" /\ worker'.k = 1 /\ progress'.dialog = None
            /\ progress'.count = content[u.selected] /\ worker'.n = progress'.count
        <5>1. CASE StartWrite(u) /\ IsLocal(u.selected)
          BY <5>1, WriteStarts
        <5>2. CASE StartVerify(u, TRUE) /\ IsLocal(u.selected)
          <6>1. /\ ProgressType(progress') /\ WorkerType(worker')
                /\ worker'.phase = "blocks" /\ worker'.k = 1 /\ progress'.dialog = None
                /\ worker'.n = content[u.selected]
                /\ progress'.count = content[u.selected] /\ ~progress'.poisoned
            BY <5>2, VerifyStarts
          <6>2. QED
            BY <6>1
        <5>3. QED
          BY <3>1, <5>1, <5>2
      <4>2. app'.screen = "apply" /\ app'.selected = u.selected
        BY <2>4, <2>6, <3>1
      <4>3. app'.power = "on" \/ app'.sudo
        BY <2>1, <2>4, <2>10, <3>1
      <4>4. Behind'
        BY <4>1, <4>2, <4>3 DEF Behind, None
      <4>5. Covered'
        BY <4>1 DEF Covered, ProgressType
      <4>6. worker'.n \in Nat
        BY <4>1 DEF WorkerType
      <4>7. OneLength'
        BY <1>2, <4>1, <4>2, <4>6 DEF OneLength, GuiInv, IsLocal
      <4>8. QED
        BY <4>1, <4>4, <4>5, <4>7
    <3>2. CASE u.screen = "apply" /\ ShowsDialog /\ Chosen(u, key) = "verify" /\ key # "y"
                  /\ IsLocal(u.selected) /\ StartVerify(u, FALSE)
      <4>1. /\ ProgressType(progress') /\ WorkerType(worker')
            /\ worker'.phase = "blocks" /\ worker'.k = 1 /\ progress'.dialog = None
            /\ worker'.n = content[u.selected]
            /\ progress'.count = progress.count /\ progress'.poisoned = progress.poisoned
        BY <3>2, VerifyStarts
      <4>2. app'.screen = "apply" /\ app'.selected = app.selected /\ app.screen = "apply"
        BY <2>3, <2>4, <2>6, <3>2
      <4>3. app'.power = "on" \/ app'.sudo
        BY <2>1, <2>4, <2>10, <3>2
      <4>4. Behind'
        BY <4>1, <4>2, <4>3 DEF Behind, None
      <4>5. Covered'
        BY <4>1 DEF Covered, ProgressType
      <4>6. worker'.n \in Nat
        BY <4>1 DEF WorkerType
      <4>7. OneLength'
        BY <1>2, <2>3, <3>2, <4>1, <4>2, <4>6 DEF OneLength, GuiInv, IsLocal
      <4>8. QED
        BY <4>1, <4>4, <4>5, <4>7
    <3>3. CASE ~Starting(u, key, ok) /\ worker' = worker
                  /\ (progress' = progress \/ (ShowsDialog /\ progress' = Hidden))
      <4>1. /\ ProgressType(progress') /\ progress'.count = progress.count
            /\ progress'.states = progress.states /\ progress'.failed = progress.failed
            /\ progress'.poisoned = progress.poisoned
            /\ progress'.dialog = "visible" => progress.dialog = "visible"
        BY <1>1, <3>3, HiddenType
      <4>2. /\ app'.screen = "apply" <=> app.screen = "apply"
            /\ app'.screen = "apply" => app'.selected = app.selected
        BY <2>3, <2>4, <2>6, <3>3
      <4>3. app'.power # "on" /\ ~app'.sudo => worker.phase \in {None, "ended"}
        BY <2>4, <2>8, <2>9, <2>10
      <4>4. Behind'
        BY <1>1, <3>3, <4>1, <4>2, <4>3 DEF Behind, GuiInv
      <4>5. Covered'
        BY <3>3, <4>1 DEF Covered, GuiInv
      <4>6. OneLength'
        BY <1>2, <3>3, <4>1, <4>2 DEF OneLength, GuiInv, IsLocal
      <4>7. QED
        BY <1>1, <3>3, <4>1, <4>4, <4>5, <4>6
    <3>4. CASE ~Starting(u, key, ok) /\ Waiting(u, key)
      <4>1. WorkerType(worker') /\ worker'.phase = "lock" /\ worker'.k = 1 /\ progress' = progress
        BY <2>2, <3>4, WaitStarts
      <4>2. app'.screen # "apply" /\ app'.selected = u.selected /\ ~IsLocal(u.selected)
            /\ u.screen = "confirm" /\ key # "y"
        BY <2>4, <2>6, <3>4 DEF Waiting
      <4>3. app'.power = "on" \/ app'.sudo
        BY <2>1, <2>4, <2>10, <4>2
      <4>4. Behind'
        BY <2>9, <4>1, <4>2, <4>3 DEF Behind, GuiInv, None, IsLocal
      <4>5. Covered'
        BY <4>1 DEF Covered
      <4>6. OneLength'
        BY <1>2, <4>1, <4>2 DEF OneLength, GuiInv
      <4>7. QED
        BY <1>1, <4>1, <4>4, <4>5, <4>6
    <3>5. QED
      BY <2>1, <3>1, <3>2, <3>3, <3>4 DEF FrameWork
  <2>12. GuiType'
    BY <1>1, <1>2, <2>1, <2>3, <2>5, <2>6, <2>11 DEF GuiType, UiType, TargetsAreSeq, ProgressType, WorkerType
  <2>13. QED
    BY <2>11, <2>12 DEF GuiInv
<1>5. QED
  BY <1>3, <1>4

\* With the client the write starts, or fails.
LEMMA StreamStep ==
    ASSUME GuiInv, StartStream
    PROVE  GuiInv'
<1>1. /\ worker.phase = "lock" /\ worker.k = 1 /\ ~IsLocal(app.selected)
      /\ WorkerType(worker) /\ worker.client.host \in Hosts
      /\ UiType(app) /\ DOMAIN app = Fields /\ ProgressType(progress)
      /\ progress.dialog # "visible" /\ (app.power = "on" \/ app.sudo)
  BY DEF StartStream, GuiInv, GuiType, UiType, WorkerType, Behind, None
<1>2. /\ machine' = machine /\ targets' = targets /\ content' = content /\ replaced' = replaced
      /\ connect' = connect /\ list' = list
  BY DEF StartStream
<1>3. PICK screen \in {"apply", "device"}, error \in {app.error, TRUE} :
         /\ app' = [app EXCEPT !.screen = screen, !.error = error]
         /\ \/ /\ screen = "apply" /\ progress' = NewProgress(content[worker.client.host], FALSE)
               /\ worker' = [worker EXCEPT !.phase = "manifest"]
            \/ screen = "device" /\ worker' = NoWorker /\ progress' = progress
  <2>1. CASE app' = [app EXCEPT !.screen = "apply"]
    <3>1. app' = [app EXCEPT !.screen = "apply", !.error = app.error]
      BY <1>1, <2>1 DEF Fields
    <3>2. app'.screen # "device"
      BY <1>1, <2>1 DEF Fields
    <3>3. QED
      BY <1>1, <3>1, <3>2 DEF StartStream, Fields
  <2>2. CASE app' = [app EXCEPT !.screen = "device", !.error = TRUE]
    <3>1. app'.screen # "apply"
      BY <1>1, <2>2 DEF Fields
    <3>2. QED
      BY <1>1, <2>2, <3>1 DEF StartStream, Fields
  <2>3. QED
    BY <2>1, <2>2 DEF StartStream
<1>4. /\ app'.screen = screen /\ app'.target = app.target /\ app'.selected = app.selected
      /\ app'.device = app.device /\ app'.presses = app.presses /\ app'.address = app.address
      /\ app'.client = app.client /\ app'.images = app.images /\ DOMAIN app' = Fields
      /\ app'.power = app.power /\ app'.sudo = app.sudo
  BY <1>1, <1>3 DEF Fields
<1>5. UiType(app')
  BY <1>1, <1>3, <1>4 DEF UiType, Screens
<1>6. content[worker.client.host] \in Nat
  BY <1>1, GuiAssumption DEF GuiInv, GuiType
<1>7. CASE screen = "apply"
  <2>8. progress' = NewProgress(content[worker.client.host], FALSE)
    BY <1>3, <1>7
  <2>1. ProgressType(progress') /\ progress'.count = content[worker.client.host]
        /\ ~progress'.poisoned /\ progress'.dialog = None
    BY <1>6, <2>8, NewProgressType
  <2>2. WorkerType(worker') /\ worker'.phase = "manifest" /\ worker'.k = 1 /\ worker'.client = worker.client
    BY <1>1, <1>3, <1>7 DEF WorkerType, WorkerFields, Phases
  <2>3. GuiType'
    BY <1>2, <1>4, <1>5, <2>1, <2>2 DEF GuiInv, GuiType, UiType, TargetsAreSeq, ProgressType, WorkerType
  <2>4. Behind'
    BY <1>1, <1>4, <1>7, <2>1, <2>2 DEF Behind, None
  <2>5. Covered'
    BY <2>1, <2>2 DEF Covered, ProgressType
  <2>6. OneLength'
    BY <1>1, <1>2, <1>4, <2>1, <2>2 DEF OneLength, GuiInv, IsLocal
  <2>7. QED
    BY <2>3, <2>4, <2>5, <2>6 DEF GuiInv
<1>8. CASE screen = "device"
  <2>1. worker' = NoWorker /\ progress' = progress
    BY <1>3, <1>8
  <2>2. WorkerType(worker') /\ worker'.phase = None
    BY <2>1 DEF NoWorker, Worker, WorkerType, WorkerFields, Phases, Clients, NoClient, None
  <2>3. GuiType'
    BY <1>1, <1>2, <1>4, <1>5, <2>1, <2>2 DEF GuiInv, GuiType, UiType, TargetsAreSeq, ProgressType, WorkerType
  <2>4. Behind'
    BY <1>1, <1>4, <2>1, <2>2 DEF Behind, None
  <2>5. Covered'
    BY <2>1, <2>2 DEF Covered, None
  <2>6. OneLength'
    BY <1>2, <1>4, <1>8, <2>1, <2>2 DEF OneLength, GuiInv, None
  <2>7. QED
    BY <2>3, <2>4, <2>5, <2>6 DEF GuiInv
<1>9. QED
  BY <1>3, <1>7, <1>8

\* Nothing changes.
LEMMA StutterStep ==
    ASSUME GuiInv, UNCHANGED vars
    PROVE  GuiInv'
  BY DEF vars, GuiInv, GuiType, Behind, Covered, OneLength, UiType, TargetsAreSeq, ProgressType, WorkerType,
         IsLocal

(***************************************************************************)
(* The boot menu.                                                          *)
(***************************************************************************)
IsList(t) == \E n \in Nat : t = [k \in 1..n |-> t[k]]

\* What FlattenMadeOf says, of sequences of anything.
LEMMA Flattened ==
    ASSUME NEW n \in Nat, NEW s, s = [i \in 1..n |-> s[i]], \A i \in 1..n : IsList(s[i])
    PROVE  IsList(FlattenSeq(s)) /\ \E place : MadeOf(s, n, FlattenSeq(s), place)
<1> DEFINE T == UNION {{s[i][k] : k \in DOMAIN s[i]} : i \in 1..n}
<1>1. \A i \in 1..n : s[i] \in Seq(T)
  <2> TAKE i \in 1..n
  <2>1. PICK m \in Nat : s[i] = [k \in 1..m |-> s[i][k]]
    BY DEF IsList
  <2>2. \A k \in 1..m : s[i][k] \in T
    BY <2>1
  <2> HIDE DEF T
  <2>3. QED
    BY <2>1, <2>2
<1> HIDE DEF T
<1>2. s \in [1..n -> Seq(T)]
  BY <1>1
<1>3. FlattenSeq(s) \in Seq(T) /\ \E place : MadeOf(s, n, FlattenSeq(s), place)
  BY <1>2, FlattenMadeOf
<1> DEFINE t == FlattenSeq(s)
<1>4. t \in Seq(T)
  BY <1>3
<1> HIDE DEF t
<1>5. Len(t) \in Nat /\ t = [k \in 1..Len(t) |-> t[k]]
  BY <1>4
<1>6. IsList(t)
  BY <1>5 DEF IsList
<1>7. QED
  BY <1>3, <1>6 DEF t

\* Loaders are in a strict order: whichever two are taken, one comes before the other.
LEMMA BeforeIsOrder ==
    ASSUME NEW L, L \subseteq [dir : ToSet(Alphabet), file : ToSet(Alphabet)]
    PROVE  /\ \A a \in L : ~Before(a, a)
           /\ \A a, b \in L : a # b => Before(a, b) \/ Before(b, a)
           /\ \A a, b, c \in L : Before(a, b) /\ Before(b, c) => Before(a, c)
<1>1. \A name \in ToSet(Alphabet) : Rank(name) \in Nat /\ Alphabet[Rank(name)] = name
  <2> TAKE name \in ToSet(Alphabet)
  <2>1. \E k \in DOMAIN Alphabet : Alphabet[k] = name
    BY DEF ToSet
  <2>2. Rank(name) \in DOMAIN Alphabet /\ Alphabet[Rank(name)] = name
    BY <2>1 DEF Rank
  <2>3. QED
    BY <2>2, GuiAssumption
<1>2. \A a \in L : /\ a.dir \in ToSet(Alphabet) /\ a.file \in ToSet(Alphabet)
                   /\ a = [dir |-> a.dir, file |-> a.file]
  OBVIOUS
<1>3. \A a \in L : Rank(a.dir) \in Nat /\ Rank(a.file) \in Nat
  BY <1>1, <1>2
<1>4. \A a, b \in L : /\ Rank(a.dir) = Rank(b.dir) => a.dir = b.dir
                      /\ Rank(a.file) = Rank(b.file) => a.file = b.file
  BY <1>1, <1>2
<1>5. \A a, b \in L : a.dir = b.dir /\ a.file = b.file => a = b
  BY <1>2
<1>6. \A a \in L : ~Before(a, a)
  BY <1>3 DEF Before
<1>7. ASSUME NEW a \in L, NEW b \in L, a # b PROVE Before(a, b) \/ Before(b, a)
  BY <1>3, <1>4, <1>5, <1>7 DEF Before
<1>8. ASSUME NEW a \in L, NEW b \in L, NEW c \in L, Before(a, b), Before(b, c) PROVE Before(a, c)
  BY <1>3, <1>4, <1>8 DEF Before
<1>9. QED
  BY <1>6, <1>7, <1>8

\* scan_esp_loaders has every loader at one place, in that order.
LEMMA LoadersSorted ==
    ASSUME NEW esp, EspType(esp)
    PROVE  LET n == Cardinality(esp.loaders)
               found == scan_esp_loaders(esp)
           IN  /\ n \in Nat /\ DOMAIN found = 1..n /\ IsList(found)
               /\ \A k \in 1..n : found[k] \in esp.loaders
               /\ \A l \in esp.loaders : \E k \in 1..n : found[k] = l
               /\ \A i, j \in 1..n : i < j => Before(found[i], found[j]) /\ found[i] # found[j]
<1> DEFINE L == esp.loaders
           n == Cardinality(L)
           P(l) == {m \in L : Before(m, l)}
           c == [l \in L |-> Cardinality(P(l))]
           found == scan_esp_loaders(esp)
<1>1. IsFiniteSet(L) /\ n \in Nat
  BY FS_CardinalityType DEF EspType
<1>2. /\ \A a \in L : ~Before(a, a)
      /\ \A a, b \in L : a # b => Before(a, b) \/ Before(b, a)
      /\ \A x, y, z \in L : Before(x, y) /\ Before(y, z) => Before(x, z)
  BY BeforeIsOrder DEF EspType
<1>3. found = [k \in 1..n |-> CHOOSE l \in L : Cardinality(P(l)) = k - 1]
  BY DEF scan_esp_loaders
<1> HIDE DEF L, n, found
<1>4. \A l \in L : P(l) \in SUBSET L /\ IsFiniteSet(P(l)) /\ c[l] \in Nat
  <2> TAKE l \in L
  <2>1. P(l) \in SUBSET L
    OBVIOUS
  <2>2. IsFiniteSet(P(l))
    BY <1>1, <2>1, FS_Subset
  <2>3. QED
    BY <2>1, <2>2, FS_CardinalityType
<1>5. ASSUME NEW a \in L, NEW b \in L, Before(a, b) PROVE c[a] < c[b]
  <2>1. P(a) \in SUBSET P(b)
    BY <1>2, <1>5
  <2>2. a \in P(b) /\ a \notin P(a)
    BY <1>2, <1>5
  <2>3. IsFiniteSet(P(b)) /\ P(a) # P(b)
    BY <1>4, <2>2
  <2> DEFINE A == P(a)
             B == P(b)
  <2>4. A \in SUBSET B /\ IsFiniteSet(B) /\ A # B
    BY <2>1, <2>3
  <2>5. c[a] = Cardinality(A) /\ c[b] = Cardinality(B) /\ c[a] \in Nat /\ c[b] \in Nat
    BY <1>4
  <2> HIDE DEF A, B, c
  <2>6. Cardinality(A) <= Cardinality(B) /\ Cardinality(A) # Cardinality(B)
    BY <2>4, FS_Subset
  <2>7. QED
    BY <2>5, <2>6
<1>6. \A l \in L : c[l] \in 0..n - 1
  <2> TAKE l \in L
  <2> DEFINE A == P(l)
  <2>1. A \in SUBSET L /\ A # L
    BY <1>2
  <2>2. c[l] = Cardinality(A) /\ c[l] \in Nat
    BY <1>4
  <2> HIDE DEF A, c
  <2>3. Cardinality(A) <= Cardinality(L) /\ Cardinality(A) # Cardinality(L)
    BY <1>1, <2>1, FS_Subset
  <2>4. QED
    BY <1>1, <2>2, <2>3 DEF n
<1>7. c \in Injection(L, 0..n - 1)
  <2>1. c \in [L -> 0..n - 1]
    BY <1>6
  <2>2. \A a, b \in L : c[a] = c[b] => a = b
    <3> TAKE a \in L, b \in L
    <3>1. c[a] \in Nat /\ c[b] \in Nat
      BY <1>4
    <3>2. Before(a, b) => c[a] < c[b]
      BY <1>5
    <3>3. Before(b, a) => c[b] < c[a]
      BY <1>5
    <3> HIDE DEF c
    <3>4. QED
      BY <1>2, <3>1, <3>2, <3>3
  <2> HIDE DEF c
  <2>3. QED
    BY <2>1, <2>2 DEF Injection, IsInjective
<1>8. c \in Surjection(L, 0..n - 1)
  <2>1. IsFiniteSet(0..n - 1) /\ Cardinality(0..n - 1) = n
    <3>1. 0 \in Int /\ n - 1 \in Int
      BY <1>1
    <3>2. IsFiniteSet(0..n - 1) /\ Cardinality(0..n - 1) = IF 0 > n - 1 THEN 0 ELSE (n - 1) - 0 + 1
      BY <3>1, FS_Interval
    <3>3. QED
      BY <1>1, <3>2
  <2> HIDE DEF c
  <2>2. QED
    BY <1>7, <2>1, FS_Injection DEF n
<1>9. \A k \in 1..n : found[k] \in L /\ c[found[k]] = k - 1
  <2> TAKE k \in 1..n
  <2>1. k - 1 \in 0..n - 1
    BY <1>1
  <2>2. \E l \in L : c[l] = k - 1
    BY <1>8, <2>1 DEF Surjection
  <2>3. \E l \in L : Cardinality(P(l)) = k - 1
    BY <2>2
  <2>4. QED
    BY <1>3, <2>3
<1>10. ASSUME NEW l \in L PROVE \E k \in 1..n : found[k] = l
  <2>1. c[l] \in 0..n - 1
    BY <1>6
  <2> HIDE DEF c
  <2>2. c[l] + 1 \in 1..n /\ (c[l] + 1) - 1 = c[l]
    BY <1>1, <2>1
  <2>3. found[c[l] + 1] \in L /\ c[found[c[l] + 1]] = c[l]
    BY <1>9, <2>2
  <2>4. found[c[l] + 1] = l
    BY <1>7, <2>3 DEF Injection, IsInjective
  <2>5. QED
    BY <2>2, <2>4
<1>11. ASSUME NEW i \in 1..n, NEW j \in 1..n, i < j
       PROVE  Before(found[i], found[j]) /\ found[i] # found[j]
  <2>1. found[i] \in L /\ found[j] \in L /\ c[found[i]] = i - 1 /\ c[found[j]] = j - 1
    BY <1>9
  <2>2. found[i] # found[j]
    BY <1>11, <2>1
  <2>3. ~Before(found[j], found[i])
    <3>1. SUFFICES ASSUME Before(found[j], found[i]) PROVE FALSE
      OBVIOUS
    <3>2. c[found[j]] < c[found[i]]
      BY <1>5, <2>1, <3>1
    <3> HIDE DEF c
    <3>3. QED
      BY <1>11, <2>1, <3>2
  <2>4. QED
    BY <1>2, <2>1, <2>2, <2>3
<1>12. DOMAIN found = 1..n /\ found = [k \in 1..n |-> found[k]]
  <2> DEFINE pick(k) == CHOOSE l \in L : Cardinality(P(l)) = k - 1
  <2>1. found = [k \in 1..n |-> pick(k)]
    BY <1>3
  <2> HIDE DEF pick
  <2>2. QED
    BY <2>1
<1>13. QED
  BY <1>1, <1>9, <1>10, <1>11, <1>12 DEF IsList, L, n, found

EspTargets(disk, esp) ==
    [k \in DOMAIN scan_esp_loaders(esp) |-> BootTarget(disk, esp, scan_esp_loaders(esp)[k])]

Scanned(esp, uuid) == esp.is_esp /\ esp.readable /\ ~Own(esp, uuid)

TableTargets(disk, uuid) ==
    [e \in DOMAIN disk.table |->
        IF Scanned(disk.table[e], uuid) THEN EspTargets(disk, disk.table[e]) ELSE << >>]

DiskTargets(disks, uuid) ==
    [d \in DOMAIN disks |-> IF disks[d].readable THEN scan_disk(disks[d], uuid) ELSE << >>]

\* What there is to know of an ESP, once.
LEMMA EspList ==
    ASSUME NEW disk, NEW esp, EspType(esp)
    PROVE  /\ IsList(EspTargets(disk, esp))
           /\ DOMAIN EspTargets(disk, esp) = 1..Cardinality(esp.loaders)
           /\ Cardinality(esp.loaders) \in Nat
           /\ \A k \in 1..Cardinality(esp.loaders) :
                EspTargets(disk, esp)[k] = BootTarget(disk, esp, scan_esp_loaders(esp)[k])
<1> DEFINE found == scan_esp_loaders(esp)
           n == Cardinality(esp.loaders)
<1>1. n \in Nat /\ DOMAIN found = 1..n
  BY LoadersSorted
<1> HIDE DEF found, n
<1>2. EspTargets(disk, esp) = [k \in 1..n |-> BootTarget(disk, esp, found[k])]
  BY <1>1 DEF EspTargets, found
<1>3. QED
  BY <1>1, <1>2 DEF IsList, found, n

\* The machines as the scan finds them.
LEMMA MachineType ==
    ASSUME NEW m \in Machines, NEW disks, disks = m.disks
    PROVE  /\ Len(disks) \in Nat /\ DOMAIN disks = 1..Len(disks)
           /\ \A d \in 1..Len(disks) :
                /\ disks[d].readable \in BOOLEAN
                /\ Len(disks[d].table) \in Nat /\ DOMAIN disks[d].table = 1..Len(disks[d].table)
                /\ \A e \in 1..Len(disks[d].table) : EspType(disks[d].table[e])
<1>1. disks \in Seq(ToSet(disks))
  BY GuiAssumption
<1>2. Len(disks) \in Nat /\ DOMAIN disks = 1..Len(disks)
  BY <1>1
<1>3. ASSUME NEW d \in 1..Len(disks)
      PROVE  /\ disks[d].readable \in BOOLEAN
             /\ Len(disks[d].table) \in Nat /\ DOMAIN disks[d].table = 1..Len(disks[d].table)
             /\ \A e \in 1..Len(disks[d].table) : EspType(disks[d].table[e])
  <2>1. disks[d] \in ToSet(disks) /\ d \in DOMAIN disks
    BY <1>2 DEF ToSet
  <2> DEFINE table == disks[d].table
  <2>2. table \in Seq(ToSet(table)) /\ \A esp \in ToSet(table) : EspType(esp)
    BY <2>1, GuiAssumption
  <2>3. disks[d].readable \in BOOLEAN
    BY <2>1, GuiAssumption
  <2> HIDE DEF table
  <2>4. Len(table) \in Nat /\ DOMAIN table = 1..Len(table)
    BY <2>2
  <2>5. \A e \in 1..Len(table) : table[e] \in ToSet(table)
    BY <2>4 DEF ToSet
  <2>6. QED
    BY <2>2, <2>3, <2>4, <2>5 DEF table
<1>4. QED
  BY <1>2, <1>3

\* The menu's entries have places: the disk, the partition and the loader's number.
OnMenu(disks, uuid, d, e, k) ==
    /\ d \in DOMAIN disks /\ disks[d].readable
    /\ e \in DOMAIN disks[d].table /\ Scanned(disks[d].table[e], uuid)
    /\ k \in 1..Cardinality(disks[d].table[e].loaders)

Entry(disks, d, e, k) ==
    BootTarget(disks[d], disks[d].table[e], scan_esp_loaders(disks[d].table[e])[k])

\* A disk's part of the menu.
LEMMA DiskMenu ==
    ASSUME NEW m \in Machines, NEW disks, disks = m.disks, NEW uuid, NEW d \in DOMAIN disks
    PROVE  /\ IsList(scan_disk(disks[d], uuid))
           /\ \E at : MadeOf(TableTargets(disks[d], uuid), Len(disks[d].table),
                             scan_disk(disks[d], uuid), at)
<1> DEFINE table == disks[d].table
           s == TableTargets(disks[d], uuid)
           n == Len(table)
<1>1. n \in Nat /\ DOMAIN table = 1..n /\ \A e \in 1..n : EspType(table[e])
  BY MachineType
<1>2. scan_disk(disks[d], uuid) = FlattenSeq(s)
  BY DEF scan_disk, TableTargets, Scanned, EspTargets
<1>3. s = [e \in 1..n |-> s[e]]
  BY <1>1 DEF TableTargets
<1>4. \A e \in 1..n : s[e] = IF Scanned(table[e], uuid) THEN EspTargets(disks[d], table[e]) ELSE << >>
  BY <1>1 DEF TableTargets
<1> HIDE DEF s, n, table
<1>5. IsList(<< >>)
  BY DEF IsList
<1>6. \A e \in 1..n : IsList(s[e])
  BY <1>1, <1>4, <1>5, EspList
<1>7. IsList(FlattenSeq(s)) /\ \E at : MadeOf(s, n, FlattenSeq(s), at)
  BY <1>1, <1>3, <1>6, Flattened
<1>8. QED
  BY <1>2, <1>7 DEF s, n, table

\* The menu: every entry stands for a loader that was found, entries are in the order
\* of disks, partitions and loaders, and none is left out.
MenuAt(disks, uuid, t, place) ==
    /\ \A i \in DOMAIN t :
         /\ OnMenu(disks, uuid, place[i][1], place[i][2], place[i][3])
         /\ t[i] = Entry(disks, place[i][1], place[i][2], place[i][3])
    /\ \A i, j \in DOMAIN t : i < j =>
         \/ place[i][1] < place[j][1]
         \/ place[i][1] = place[j][1] /\ place[i][2] < place[j][2]
         \/ place[i][1] = place[j][1] /\ place[i][2] = place[j][2] /\ place[i][3] < place[j][3]
    /\ \A d, e, k : OnMenu(disks, uuid, d, e, k) => \E i \in DOMAIN t : t[i] = Entry(disks, d, e, k)

\* The scan makes such a menu.
LEMMA MenuFound ==
    ASSUME NEW m \in Machines, NEW disks, disks = m.disks, NEW uuid
    PROVE  /\ IsList(scan_boot_targets(disks, uuid))
           /\ \E place : MenuAt(disks, uuid, scan_boot_targets(disks, uuid), place)
<1> DEFINE s == DiskTargets(disks, uuid)
           n == Len(disks)
           t == scan_boot_targets(disks, uuid)
           At(d, at) == MadeOf(TableTargets(disks[d], uuid), Len(disks[d].table),
                               scan_disk(disks[d], uuid), at)
           inner(d) == CHOOSE at : At(d, at)
<1>1. n \in Nat /\ DOMAIN disks = 1..n /\ \A d \in 1..n : disks[d].readable \in BOOLEAN
  BY MachineType
<1>2. t = FlattenSeq(s)
  BY DEF scan_boot_targets, DiskTargets
<1>3. s = [d \in 1..n |-> s[d]]
  BY <1>1 DEF DiskTargets
<1>4. \A d \in 1..n : s[d] = IF disks[d].readable THEN scan_disk(disks[d], uuid) ELSE << >>
  BY <1>1 DEF DiskTargets
<1> HIDE DEF s, n, t, At
<1>5. IsList(<< >>)
  BY DEF IsList
<1>6. \A d \in 1..n : IsList(scan_disk(disks[d], uuid)) /\ \E at : At(d, at)
  BY <1>1, DiskMenu DEF At
<1>7. \A d \in 1..n : At(d, inner(d))
  BY <1>6
<1> HIDE DEF inner
<1>8. \A d \in 1..n : IsList(s[d])
  BY <1>1, <1>4, <1>5, <1>6
<1>9. IsList(t) /\ \E at : MadeOf(s, n, t, at)
  BY <1>1, <1>2, <1>3, <1>8, Flattened
<1>10. PICK at : MadeOf(s, n, t, at)
  BY <1>9
<1> DEFINE place == [i \in DOMAIN t |-> << at[i][1], inner(at[i][1])[at[i][2]][1], inner(at[i][1])[at[i][2]][2] >>]
<1>11. \A i \in DOMAIN t : /\ place[i][1] = at[i][1]
                           /\ place[i][2] = inner(at[i][1])[at[i][2]][1]
                           /\ place[i][3] = inner(at[i][1])[at[i][2]][2]
  OBVIOUS
<1> HIDE DEF place
<1>12. ASSUME NEW i \in DOMAIN t
       PROVE  /\ at[i][1] \in 1..n /\ at[i][2] \in Nat /\ disks[at[i][1]].readable
              /\ at[i][2] \in DOMAIN scan_disk(disks[at[i][1]], uuid)
              /\ t[i] = scan_disk(disks[at[i][1]], uuid)[at[i][2]]
  <2>1. at[i] \in Places(s, n) /\ t[i] = s[at[i][1]][at[i][2]]
    BY <1>10 DEF MadeOf
  <2>2. at[i] \in (1..n) \X Nat /\ at[i][2] \in DOMAIN s[at[i][1]]
    BY <2>1 DEF Places
  <2>3. at[i][1] \in 1..n /\ at[i][2] \in Nat
    BY <2>2
  <2>4. disks[at[i][1]].readable
    <3>1. SUFFICES ASSUME ~disks[at[i][1]].readable PROVE FALSE
      OBVIOUS
    <3>2. s[at[i][1]] = << >>
      BY <1>4, <2>3, <3>1
    <3>3. QED
      BY <2>2, <3>2
  <2>5. s[at[i][1]] = scan_disk(disks[at[i][1]], uuid)
    BY <1>4, <2>3, <2>4
  <2>6. QED
    BY <2>1, <2>2, <2>3, <2>4, <2>5
\* What the inner places say.
<1>13. ASSUME NEW d \in 1..n, NEW j \in DOMAIN scan_disk(disks[d], uuid)
       PROVE  LET e == inner(d)[j][1]
                  k == inner(d)[j][2]
              IN  /\ e \in DOMAIN disks[d].table /\ Scanned(disks[d].table[e], uuid)
                  /\ k \in 1..Cardinality(disks[d].table[e].loaders)
                  /\ scan_disk(disks[d], uuid)[j] = Entry(disks, d, e, k)
  <2> DEFINE p == inner(d)[j]
             table == disks[d].table
             st == TableTargets(disks[d], uuid)
             l == Len(table)
  <2>1. At(d, inner(d))
    BY <1>7
  <2>2. p \in Places(st, l) /\ scan_disk(disks[d], uuid)[j] = st[p[1]][p[2]]
    BY <2>1 DEF At, MadeOf
  <2>3. l \in Nat /\ DOMAIN table = 1..l /\ \A e \in 1..l : EspType(table[e])
    BY <1>1, MachineType DEF n
  <2>4. \A e \in 1..l : st[e] = IF Scanned(table[e], uuid) THEN EspTargets(disks[d], table[e]) ELSE << >>
    BY <2>3 DEF TableTargets
  <2> HIDE DEF p, st, l, table
  <2>5. p \in (1..l) \X Nat /\ p[2] \in DOMAIN st[p[1]]
    BY <2>2 DEF Places
  <2>6. p[1] \in 1..l
    BY <2>5
  <2>7. Scanned(table[p[1]], uuid) /\ st[p[1]] = EspTargets(disks[d], table[p[1]])
    <3>1. SUFFICES ASSUME ~Scanned(table[p[1]], uuid) PROVE FALSE
      BY <2>4, <2>6
    <3>2. st[p[1]] = << >>
      BY <2>4, <2>6, <3>1
    <3>3. QED
      BY <2>5, <3>2
  <2>8. /\ p[2] \in 1..Cardinality(table[p[1]].loaders)
        /\ st[p[1]][p[2]] = BootTarget(disks[d], table[p[1]], scan_esp_loaders(table[p[1]])[p[2]])
    BY <2>3, <2>5, <2>6, <2>7, EspList
  <2>9. p[1] \in DOMAIN table
    BY <2>3, <2>6
  <2>10. QED
    BY <2>2, <2>7, <2>8, <2>9 DEF Entry, p, table
<1>14. ASSUME NEW i \in DOMAIN t
       PROVE  /\ OnMenu(disks, uuid, place[i][1], place[i][2], place[i][3])
              /\ t[i] = Entry(disks, place[i][1], place[i][2], place[i][3])
  <2> DEFINE d == at[i][1]
             j == at[i][2]
  <2>1. d \in 1..n /\ disks[d].readable /\ j \in DOMAIN scan_disk(disks[d], uuid)
        /\ t[i] = scan_disk(disks[d], uuid)[j]
    BY <1>12
  <2>2. place[i][1] = d /\ place[i][2] = inner(d)[j][1] /\ place[i][3] = inner(d)[j][2]
    BY <1>11
  <2> HIDE DEF d, j
  <2>3. QED
    BY <1>1, <1>13, <2>1, <2>2 DEF OnMenu
<1>15. ASSUME NEW i \in DOMAIN t, NEW j \in DOMAIN t, i < j
       PROVE  \/ place[i][1] < place[j][1]
              \/ place[i][1] = place[j][1] /\ place[i][2] < place[j][2]
              \/ place[i][1] = place[j][1] /\ place[i][2] = place[j][2] /\ place[i][3] < place[j][3]
  <2>1. Earlier(at[i], at[j])
    BY <1>10, <1>15 DEF MadeOf
  <2>2. CASE at[i][1] < at[j][1]
    BY <1>11, <2>2
  <2>3. CASE at[i][1] = at[j][1] /\ at[i][2] < at[j][2]
    <3> DEFINE d == at[i][1]
    <3>1. /\ d \in 1..n /\ at[i][2] \in DOMAIN scan_disk(disks[d], uuid)
          /\ at[j][2] \in DOMAIN scan_disk(disks[d], uuid)
      BY <1>12, <2>3
    <3>2. At(d, inner(d))
      BY <1>7, <3>1
    <3>3. Earlier(inner(d)[at[i][2]], inner(d)[at[j][2]])
      BY <2>3, <3>1, <3>2 DEF At, MadeOf
    <3>4. QED
      BY <1>11, <2>3, <3>3 DEF Earlier
  <2>4. QED
    BY <2>1, <2>2, <2>3 DEF Earlier
<1>16. ASSUME NEW d, NEW e, NEW k, OnMenu(disks, uuid, d, e, k)
       PROVE  \E i \in DOMAIN t : t[i] = Entry(disks, d, e, k)
  <2> DEFINE table == disks[d].table
             st == TableTargets(disks[d], uuid)
             l == Len(table)
             sd == scan_disk(disks[d], uuid)
  <2>1. d \in 1..n /\ disks[d].readable
    BY <1>1, <1>16 DEF OnMenu
  <2>2. At(d, inner(d))
    BY <1>7, <2>1
  <2>3. l \in Nat /\ DOMAIN table = 1..l /\ \A f \in 1..l : EspType(table[f])
    BY <1>1, <2>1, MachineType DEF n
  <2>4. \A f \in 1..l : st[f] = IF Scanned(table[f], uuid) THEN EspTargets(disks[d], table[f]) ELSE << >>
    BY <2>3 DEF TableTargets
  <2>5. MadeOf(st, l, sd, inner(d))
    BY <2>2 DEF At
  <2>6. e \in 1..l /\ Scanned(table[e], uuid) /\ k \in 1..Cardinality(table[e].loaders)
    BY <1>16, <2>3 DEF OnMenu
  <2>7. s[d] = sd
    BY <1>4, <2>1
  <2>8. IsList(sd)
    BY <1>6, <2>1
  <2>9. Entry(disks, d, e, k) = BootTarget(disks[d], table[e], scan_esp_loaders(table[e])[k])
    BY DEF Entry
  <2> HIDE DEF st, l, sd, table
  <2>10. st[e] = EspTargets(disks[d], table[e])
    BY <2>4, <2>6
  <2>11. k \in DOMAIN st[e] /\ st[e][k] = Entry(disks, d, e, k) /\ k \in Nat
    BY <2>3, <2>6, <2>9, <2>10, EspList
  <2>12. << e, k >> \in Places(st, l)
    BY <2>6, <2>11 DEF Places
  <2>13. PICK j \in DOMAIN sd : inner(d)[j] = << e, k >>
    BY <2>5, <2>12 DEF MadeOf
  <2>14. sd[j] = st[e][k]
    BY <2>5, <2>13 DEF MadeOf
  <2>15. j \in Nat
    BY <2>8 DEF IsList
  <2>16. << d, j >> \in Places(s, n)
    BY <2>1, <2>7, <2>15 DEF Places
  <2>17. PICK i \in DOMAIN t : at[i] = << d, j >>
    BY <1>10, <2>16 DEF MadeOf
  <2>18. t[i] = s[at[i][1]][at[i][2]]
    BY <1>10 DEF MadeOf
  <2>19. t[i] = sd[j]
    BY <2>7, <2>17, <2>18
  <2>20. QED
    BY <2>11, <2>14, <2>19
<1>17. MenuAt(disks, uuid, t, place)
  BY <1>14, <1>15, <1>16 DEF MenuAt
<1>18. QED
  BY <1>9, <1>17 DEF t

\* Entries are told apart by their partition and loader.
LEMMA EntryFields ==
    ASSUME NEW disks, NEW d, NEW e, NEW k
    PROVE  /\ Entry(disks, d, e, k).esp.guid = disks[d].table[e].guid
           /\ Entry(disks, d, e, k).loader = scan_esp_loaders(disks[d].table[e])[k]
  BY DEF Entry, BootTarget

\* The menu is as complete as MenuIsComplete wants it, and has no entry for the ESP
\* that goldboot was started from.
LEMMA MenuSound ==
    ASSUME EspsDiffer, machine \in Machines,
           targets = IF machine.uki THEN scan_boot_targets(machine.disks, machine.uuid) ELSE << >>
    PROVE  /\ TargetsAreSeq /\ MenuIsComplete
           /\ \A i \in DOMAIN targets : targets[i].esp.guid # machine.uuid
<1> DEFINE disks == machine.disks
           uuid == machine.uuid
<1>1. CASE ~machine.uki
  <2>1. targets = << >>
    BY <1>1
  <2>2. DOMAIN targets = {} /\ TargetsAreSeq
    BY <2>1 DEF TargetsAreSeq
  <2>3. QED
    BY <1>1, <2>2 DEF MenuIsComplete
<1>2. CASE machine.uki
  <2>1. targets = scan_boot_targets(disks, uuid)
    BY <1>2
  <2>2. IsList(targets) /\ \E place : MenuAt(disks, uuid, targets, place)
    BY <2>1, MenuFound
  <2>3. PICK place : MenuAt(disks, uuid, targets, place)
    BY <2>2
  <2>4. PICK n \in Nat : targets = [k \in 1..n |-> targets[k]]
    BY <2>2 DEF IsList
  <2>5. DOMAIN targets = 1..n
    BY <2>4
  <2>6. TargetsAreSeq
    <3>1. Len(targets) = n
      BY <2>4
    <3>2. QED
      BY <2>5, <3>1 DEF TargetsAreSeq
  <2>7. /\ DOMAIN disks = 1..Len(disks)
        /\ \A d \in 1..Len(disks) :
             /\ DOMAIN disks[d].table = 1..Len(disks[d].table)
             /\ \A e \in 1..Len(disks[d].table) : EspType(disks[d].table[e])
    BY MachineType
  <2>8. \A c, d \in DOMAIN disks : disks[c].readable /\ disks[d].readable =>
            \A e \in DOMAIN disks[c].table, f \in DOMAIN disks[d].table :
                disks[c].table[e].guid = disks[d].table[f].guid => c = d /\ e = f
    BY DEF EspsDiffer
  <2> HIDE DEF disks, uuid
  <2>9. ASSUME NEW i \in DOMAIN targets
        PROVE  LET d == place[i][1]
                   e == place[i][2]
                   k == place[i][3]
                   esp == disks[d].table[e]
               IN  /\ d \in DOMAIN disks /\ disks[d].readable
                   /\ e \in DOMAIN disks[d].table /\ EspType(esp) /\ Scanned(esp, uuid)
                   /\ k \in 1..Cardinality(esp.loaders)
                   /\ targets[i].esp.guid = esp.guid
                   /\ targets[i].loader = scan_esp_loaders(esp)[k]
                   /\ targets[i].loader \in esp.loaders
    <3> DEFINE d == place[i][1]
               e == place[i][2]
               k == place[i][3]
               esp == disks[d].table[e]
    <3>1. OnMenu(disks, uuid, d, e, k) /\ targets[i] = Entry(disks, d, e, k)
      BY <2>3 DEF MenuAt
    <3>2. /\ d \in DOMAIN disks /\ disks[d].readable
          /\ e \in DOMAIN disks[d].table /\ Scanned(esp, uuid) /\ k \in 1..Cardinality(esp.loaders)
      BY <3>1 DEF OnMenu
    <3>3. targets[i].esp.guid = esp.guid /\ targets[i].loader = scan_esp_loaders(esp)[k]
      BY <3>1, EntryFields
    <3> HIDE DEF d, e, k
    <3>4. EspType(esp)
      BY <2>7, <3>2
    <3> HIDE DEF esp
    <3>5. scan_esp_loaders(esp)[k] \in esp.loaders
      BY <3>2, <3>4, LoadersSorted
    <3>6. QED
      BY <3>2, <3>3, <3>4, <3>5 DEF d, e, k, esp
  <2>10. ASSUME NEW i \in DOMAIN targets PROVE targets[i].esp.guid # uuid
    <3> DEFINE esp == disks[place[i][1]].table[place[i][2]]
    <3>1. EspType(esp) /\ Scanned(esp, uuid) /\ targets[i].esp.guid = esp.guid
      BY <2>9
    <3> HIDE DEF esp
    <3>2. QED
      BY <3>1 DEF Scanned, Own, EspType
  <2> DEFINE eligible(disk) == {e \in ToSet(disk.table) : e.is_esp /\ e.readable /\
                                    IF uuid = NoUuid THEN e.name # GOLDBOOT_ESP_NAME ELSE e.guid # uuid}
             found(disk) == UNION {{<< esp.guid, l >> : l \in esp.loaders} : esp \in eligible(disk)}
             all == UNION {found(disk) : disk \in {d \in ToSet(disks) : d.readable}}
             shown == {<< t.esp.guid, t.loader >> : t \in ToSet(targets)}
  <2>11. \A disk : \A esp \in ToSet(disk.table) : esp \in eligible(disk) <=> Scanned(esp, uuid)
    BY DEF Scanned, Own
  <2>12. shown \subseteq all
    <3> SUFFICES ASSUME NEW t \in ToSet(targets) PROVE << t.esp.guid, t.loader >> \in all
      OBVIOUS
    <3>1. PICK i \in DOMAIN targets : t = targets[i]
      BY DEF ToSet
    <3> DEFINE d == place[i][1]
               e == place[i][2]
               disk == disks[d]
               esp == disk.table[e]
    <3>2. /\ d \in DOMAIN disks /\ disk.readable
          /\ e \in DOMAIN disk.table /\ Scanned(esp, uuid)
          /\ t.esp.guid = esp.guid /\ t.loader \in esp.loaders
      BY <2>9, <3>1
    <3>3. disk \in ToSet(disks) /\ esp \in ToSet(disk.table)
      BY <3>2 DEF ToSet
    <3> HIDE DEF d, e, disk, esp
    <3>4. esp \in eligible(disk)
      BY <2>11, <3>2, <3>3
    <3> HIDE DEF eligible
    <3>5. << t.esp.guid, t.loader >> \in found(disk)
      BY <3>2, <3>4
    <3> HIDE DEF found
    <3>6. QED
      BY <3>2, <3>3, <3>5
  <2>13. all \subseteq shown
    <3> SUFFICES ASSUME NEW x \in all PROVE x \in shown
      OBVIOUS
    <3> HIDE DEF found
    <3>1. PICK disk \in ToSet(disks) : disk.readable /\ x \in found(disk)
      OBVIOUS
    <3> USE DEF found
    <3> HIDE DEF eligible
    <3>2. PICK esp \in eligible(disk) : x \in {<< esp.guid, l >> : l \in esp.loaders}
      BY <3>1
    <3> USE DEF eligible
    <3>3. PICK l \in esp.loaders : x = << esp.guid, l >>
      BY <3>2
    <3>4. esp \in ToSet(disk.table)
      BY <3>2
    <3>5. Scanned(esp, uuid)
      BY <2>11, <3>2, <3>4
    <3>6. PICK d \in DOMAIN disks : disk = disks[d]
      BY <3>1 DEF ToSet
    <3>7. PICK e \in DOMAIN disk.table : esp = disk.table[e]
      BY <3>4 DEF ToSet
    <3>8. EspType(esp)
      BY <2>7, <3>6, <3>7
    <3>9. PICK k \in 1..Cardinality(esp.loaders) : scan_esp_loaders(esp)[k] = l
      BY <3>8, LoadersSorted
    <3>10. OnMenu(disks, uuid, d, e, k)
      BY <3>1, <3>5, <3>6, <3>7, <3>9 DEF OnMenu
    <3>11. PICK i \in DOMAIN targets : targets[i] = Entry(disks, d, e, k)
      BY <2>3, <3>10 DEF MenuAt
    <3>12. targets[i].esp.guid = esp.guid /\ targets[i].loader = l
      BY <3>6, <3>7, <3>9, <3>11, EntryFields
    <3>13. targets[i] \in ToSet(targets)
      BY DEF ToSet
    <3> HIDE DEF all, found, eligible
    <3>14. QED
      BY <3>3, <3>12, <3>13
  <2>14. ASSUME NEW i \in DOMAIN targets, NEW j \in DOMAIN targets, i < j,
                targets[i].esp.guid = targets[j].esp.guid
         PROVE  targets[i].loader # targets[j].loader /\ Before(targets[i].loader, targets[j].loader)
    <3> DEFINE d == place[i][1]
               e == place[i][2]
               esp == disks[d].table[e]
               ki == place[i][3]
               kj == place[j][3]
    <3>1. /\ d \in DOMAIN disks /\ disks[d].readable /\ e \in DOMAIN disks[d].table /\ EspType(esp)
          /\ targets[i].esp.guid = esp.guid /\ ki \in 1..Cardinality(esp.loaders)
          /\ targets[i].loader = scan_esp_loaders(esp)[ki]
      BY <2>9
    <3>2. place[j][1] = d /\ place[j][2] = e
      <4>1. /\ place[j][1] \in DOMAIN disks /\ disks[place[j][1]].readable
            /\ place[j][2] \in DOMAIN disks[place[j][1]].table
            /\ targets[j].esp.guid = disks[place[j][1]].table[place[j][2]].guid
        BY <2>9
      <4>2. disks[place[i][1]].table[place[i][2]].guid = disks[place[j][1]].table[place[j][2]].guid
        BY <2>14, <3>1, <4>1
      <4>3. place[i][1] = place[j][1] /\ place[i][2] = place[j][2]
        BY <2>8, <3>1, <4>1, <4>2
      <4>4. QED
        BY <4>3
    <3>3. kj \in 1..Cardinality(esp.loaders) /\ targets[j].loader = scan_esp_loaders(esp)[kj]
      BY <2>9, <3>2
    <3>4. ki < kj
      <4>1. d \in Nat /\ e \in Nat
        BY <2>7, <3>1
      <4>2. \/ d < place[j][1]
            \/ d = place[j][1] /\ e < place[j][2]
            \/ d = place[j][1] /\ e = place[j][2] /\ ki < kj
        BY <2>3, <2>14 DEF MenuAt
      <4> HIDE DEF d, e, ki, kj
      <4>3. QED
        BY <3>2, <4>1, <4>2
    <3> HIDE DEF d, e, esp, ki, kj
    <3>5. Before(scan_esp_loaders(esp)[ki], scan_esp_loaders(esp)[kj])
          /\ scan_esp_loaders(esp)[ki] # scan_esp_loaders(esp)[kj]
      BY <3>1, <3>3, <3>4, LoadersSorted
    <3>6. QED
      BY <3>1, <3>3, <3>5
  <2>15. \A i, j \in DOMAIN targets :
            i < j /\ targets[i].esp = targets[j].esp /\ targets[i].loader.dir = FALLBACK
              => targets[j].loader.dir = FALLBACK
    <3> SUFFICES ASSUME NEW i \in DOMAIN targets, NEW j \in DOMAIN targets, i < j,
                        targets[i].esp = targets[j].esp, targets[i].loader.dir = FALLBACK
                 PROVE  targets[j].loader.dir = FALLBACK
      OBVIOUS
    <3>1. Before(targets[i].loader, targets[j].loader)
      BY <2>14
    <3>2. QED
      BY <3>1 DEF Before
  <2>16. \A i, j \in DOMAIN targets : i # j => targets[i] # targets[j]
    <3> TAKE i \in DOMAIN targets, j \in DOMAIN targets
    <3>1. i \in Nat /\ j \in Nat /\ (i < j => targets[i] # targets[j]) /\ (j < i => targets[j] # targets[i])
      BY <2>5, <2>14
    <3>2. QED
      BY <3>1
  <2>17. shown = all
    BY <2>12, <2>13
  <2>18. MenuIsComplete
    BY <2>15, <2>16, <2>17 DEF MenuIsComplete, disks, uuid
  <2>19. QED
    BY <2>6, <2>10, <2>18 DEF uuid
<1>3. QED
  BY <1>1, <1>2

(***************************************************************************)
(* The invariant of the interface.                                         *)
(***************************************************************************)
\* The menu is a list also when nothing is scanned.
LEMMA InitTargets ==
    ASSUME Init
    PROVE  IsList(targets) /\ (targets # << >> => 1 \in DOMAIN targets)
<1>1. machine \in Machines
  BY DEF Init
<1>2. IsList(scan_boot_targets(machine.disks, machine.uuid))
  BY <1>1, MenuFound
<1>3. IsList(<< >>)
  BY DEF IsList
<1>4. IsList(targets)
  BY <1>2, <1>3 DEF Init
<1>5. PICK n \in Nat : targets = [k \in 1..n |-> targets[k]]
  BY <1>4 DEF IsList
<1>6. QED
  BY <1>4, <1>5

\* At the start nothing works and no image was replaced.
LEMMA InitGui ==
    ASSUME Init
    PROVE  GuiInv
<1> DEFINE none == targets = << >>
           some == targets # << >>
           asks == ~machine.uki /\ ~machine.root
<1>1. machine \in Machines
  BY DEF Init
<1>2. TargetsAreSeq
  <2>2. IsList(targets)
    BY InitTargets
  <2>3. PICK n \in Nat : targets = [k \in 1..n |-> targets[k]]
    BY <2>2 DEF IsList
  <2>4. Len(targets) = n /\ DOMAIN targets = 1..n
    BY <2>3
  <2>5. QED
    BY <2>4 DEF TargetsAreSeq
<1>3. app = [screen |-> IF none THEN "image" ELSE "boot",
             target |-> 1, countdown |-> some,
             selected |-> None, device |-> None, presses |-> 0, seen |-> 0,
             error |-> FALSE, sudo |-> asks, shell |-> FALSE,
             dialog |-> FALSE, address |-> None, login |-> FALSE, client |-> NoClient,
             images |-> None, loading |-> FALSE, choice |-> None, power |-> "on"]
  BY DEF Init
<1> HIDE DEF some, asks
<1>4. /\ DOMAIN app = Fields /\ app.screen = (IF none THEN "image" ELSE "boot") /\ app.target = 1
      /\ app.selected = None /\ app.device = None /\ app.presses = 0 /\ app.address = None
      /\ app.client = NoClient /\ app.images = None /\ app.power = "on"
  BY <1>3 DEF Fields
<1>5. UiType(app)
  BY <1>4, GuiAssumption DEF UiType, Screens, Clients
<1>6. progress = NewProgress(0, FALSE) /\ ProgressType(progress) /\ ~progress.poisoned /\ progress.dialog = None
  BY NewProgressType DEF Init, NoProgress
<1>7. worker = NoWorker /\ connect = [st |-> None, client |-> NoClient]
      /\ list = [st |-> None, client |-> NoClient] /\ content = Counts /\ replaced = 0
  BY DEF Init
<1>8. worker.phase = None /\ WorkerType(worker) /\ worker.k = 1 /\ worker.n = 0
  BY <1>7 DEF NoWorker, Worker, WorkerType, WorkerFields, Phases, Clients, None
<1>9. GuiType
  BY <1>1, <1>2, <1>5, <1>6, <1>7, <1>8, GuiAssumption DEF GuiType, ConnectStates, ListStates, Clients
<1>10. Behind
  BY <1>4, <1>6, <1>8 DEF Behind, None
<1>11. Covered
  BY <1>8 DEF Covered, None
<1>12. OneLength
  BY <1>4, <1>6, <1>7, <1>8 DEF OneLength, None
<1>13. QED
  BY <1>9, <1>10, <1>11, <1>12 DEF GuiInv

\* No step breaks the invariant.
LEMMA NextGui ==
    ASSUME GuiInv, [Next]_vars
    PROVE  GuiInv'
<1>1. CASE \E key \in Keys : Frame(key)
  BY <1>1, FrameStep
<1>2. CASE TypeAddress \/ ConnectEnds \/ ListStep \/ Replace
  BY <1>2, OtherStepsKeep
<1>3. CASE WorkerStep
  BY <1>3, WorkerStepKeeps
<1>4. CASE UNCHANGED vars
  BY <1>4, StutterStep
<1>5. CASE StartStream
  BY <1>5, StreamStep
<1>6. QED
  BY <1>1, <1>2, <1>3, <1>4, <1>5 DEF Next

\* Whatever keys are pressed, threads end and images are replaced: a thread works
\* behind the last screen only and shows its dialog when it ends, the blocks behind it
\* are done with, and it and the vector of blocks are of one length unless an image was
\* replaced.
THEOREM GuiInvariant == Spec => []GuiInv
<1>1. Init => GuiInv
  BY InitGui
<1>2. GuiInv /\ [Next]_vars => GuiInv'
  BY NextGui
<1>3. QED
  BY <1>1, <1>2, PTL DEF Spec

\* What the interface shows of a write is true: a dialog without an error stands for a
\* device of which every block was dealt with, and the lock is poisoned only after an
\* image was replaced (state.rs: WriteProgress, record_cluster).
THEOREM ProgressAlwaysTrue == Spec => []ProgressIsTrue
<1>1. GuiInv => ProgressIsTrue
  <2> SUFFICES ASSUME GuiInv PROVE ProgressIsTrue
    OBVIOUS
  <2>1. TypeOK
    BY DEF TypeOK, GuiInv, GuiType, UiType, Screens, Images, DeviceNames, ConnectStates, ListStates, ProgressType
  <2>2. CompleteMeansWhole
    <3> SUFFICES ASSUME ShowsDialog, ~progress.failed, worker.n = progress.count,
                        NEW k \in 1..progress.count
                 PROVE  progress.states[k] \in DoneWith
      BY DEF CompleteMeansWhole, DoneWith
    <3>1. worker.phase = "ended"
      BY DEF ShowsDialog, GuiInv, Behind
    <3>2. worker.k > worker.n /\ \A j \in 1..progress.count : j < worker.k => progress.states[j] \in DoneWith
      BY <3>1 DEF GuiInv, Covered
    <3>3. worker.k \in Nat /\ worker.n \in Nat /\ progress.count \in Nat
      BY DEF GuiInv, GuiType, WorkerType, ProgressType
    <3>4. k < worker.k
      BY <3>2, <3>3
    <3>5. QED
      BY <3>2, <3>4
  <2>3. PanicsOnlyAfterReplacement
    BY DEF PanicsOnlyAfterReplacement, GuiInv, GuiType, OneLength
  <2>4. QED
    BY <2>1, <2>2, <2>3 DEF ProgressIsTrue
<1>2. QED
  BY <1>1, GuiInvariant, PTL

\* No key ends the program while a thread writes or verifies, unless the question
\* about sudo was left open (state.rs: post_write_dialog).
THEOREM NeverPowersOffWhileWriting == Spec => []NoPowerOffWhileWriting
<1>1. GuiInv => NoPowerOffWhileWriting
  BY DEF GuiInv, Behind, NoPowerOffWhileWriting
<1>2. QED
  BY <1>1, GuiInvariant, PTL

(***************************************************************************)
(* Starting the loader that was selected.                                  *)
(***************************************************************************)
FirmwareType == DOMAIN boot = BootIds /\ order \in Seq(BootIds)

\* There is a menu only with targets, and the firmware knows the one it is to start.
Chained ==
    /\ app.screen = "boot" => 1 \in DOMAIN targets
    /\ app.power = "chained" =>
         LET t == targets[app.target]
         IN  /\ 1 \in DOMAIN targets /\ boot_next \in BootIds
             /\ boot[boot_next].guid = t.esp.guid /\ boot[boot_next].path = t.path

NotItself == \A i \in DOMAIN targets : targets[i].esp.guid # machine.uuid

MenuInv == FirmwareType /\ Chained /\ MenuIsComplete /\ NotItself

\* Registering keeps the firmware's variables in range, and a success leaves the entry in
\* BootNext (boot.rs: register_boot_entry).
LEMMA RegisterStep ==
    ASSUME FirmwareType, NEW description, NEW esp, NEW path, NEW ok \in BOOLEAN,
           Register(description, esp, path, ok)
    PROVE  /\ FirmwareType'
           /\ ok => boot_next' \in BootIds /\ boot'[boot_next'].guid = esp.guid /\ boot'[boot_next'].path = path
<1> DEFINE entry == BootEntry(description, esp, path)
<1>1. entry.guid = esp.guid /\ entry.path = path
  BY DEF BootEntry
<1>2. pick_boot_id(description) \subseteq BootIds
  <2>1. Existing(description) \subseteq BootIds
    BY DEF Existing, FirmwareType
  <2>2. QED
    BY <2>1 DEF pick_boot_id
<1> HIDE DEF entry
<1>3. ASSUME NEW id \in pick_boot_id(description), boot' = [boot EXCEPT ![id] = entry],
             order' \in {order, IF id \in Listed THEN order ELSE Append(order, id)}
      PROVE  FirmwareType' /\ id \in BootIds /\ boot'[id] = entry
  <2>1. id \in BootIds
    BY <1>2
  <2>2. Append(order, id) \in Seq(BootIds)
    BY <2>1 DEF FirmwareType
  <2>3. QED
    BY <1>3, <2>1, <2>2 DEF FirmwareType
<1>4. CASE ok
  <2>1. PICK id \in pick_boot_id(description) :
          /\ boot' = [boot EXCEPT ![id] = entry]
          /\ order' \in {order, IF id \in Listed THEN order ELSE Append(order, id)}
          /\ boot_next' = id
    BY <1>4 DEF Register, entry
  <2>2. QED
    BY <1>1, <1>3, <2>1
<1>5. CASE ~ok
  <2>1. CASE UNCHANGED firmwareVars
    BY <1>5, <2>1 DEF firmwareVars, FirmwareType
  <2>2. CASE \E id \in pick_boot_id(description) : AddBootEntry(id, entry)
    BY <1>3, <1>5, <2>2 DEF AddBootEntry
  <2>3. QED
    BY <1>5, <2>1, <2>2 DEF Register, entry
<1>6. QED
  BY <1>4, <1>5

\* The menu is as the scan made it, and the firmware's lists as others left them.
LEMMA InitMenu ==
    ASSUME Init, EspsDiffer
    PROVE  MenuInv
<1>1. FirmwareType
  <2>1. PICK l \in Listings :
          /\ boot = [id \in BootIds |->
               IF id \in l.unlisted \/ \E k \in DOMAIN l.order : l.order[k] = id
               THEN Foreign ELSE NoVar]
          /\ order = l.order
    BY DEF Init, FirmwareInit
  <2>2. QED
    BY <2>1, BootAssumption DEF FirmwareType
<1>2. MenuIsComplete /\ NotItself
  BY MenuSound DEF Init, NotItself
<1>3. app.screen = (IF targets = << >> THEN "image" ELSE "boot") /\ app.power = "on"
  BY DEF Init
<1>4. QED
  BY <1>1, <1>2, <1>3, InitTargets DEF MenuInv, Chained

\* A frame that chains has the firmware know the target.
LEMMA FrameChains ==
    ASSUME GuiInv, MenuInv, NEW key, Frame(key)
    PROVE  FirmwareType' /\ Chained'
<1>1. app.power = "on" /\ UiType(app) /\ DOMAIN app = Fields /\ targets' = targets /\ TargetsAreSeq
  BY DEF Frame, Draws, GuiInv, GuiType, UiType
<1>2. CASE handle_hotkeys(app, key).power # "on"
  <2>1. app' = handle_hotkeys(app, key) /\ UNCHANGED firmwareVars
    BY <1>2 DEF Frame
  <2>2. app'.screen = app.screen /\ app'.power # "chained"
    BY <1>1, <2>1 DEF handle_hotkeys, Fields
  <2>3. QED
    BY <1>1, <2>1, <2>2 DEF firmwareVars, FirmwareType, Chained, MenuInv
<1>3. CASE handle_hotkeys(app, key).power = "on"
  <2> DEFINE u == Polled(key)
             t == targets[app.target]
  <2>1. PICK w : \E ok \in BOOLEAN, expired \in BOOLEAN :
          /\ ScreenEffect(u, key, ok, expired, w)
          /\ UiType(app') /\ Keeps(w, app', {"login", "dialog", "power", "sudo"})
          /\ app'.power # w.power => key = "y" /\ app'.sudo /\ app'.power # "chained"
          /\ IF Chains(u, key, expired)
             THEN /\ ok => machine.efi
                  /\ IF machine.efi THEN Register(t.label, t.esp, t.path, ok) ELSE UNCHANGED firmwareVars
             ELSE UNCHANGED firmwareVars
    BY <1>3, FramePicks
  <2>2. PICK ok \in BOOLEAN, expired \in BOOLEAN :
          /\ ScreenEffect(u, key, ok, expired, w)
          /\ UiType(app') /\ Keeps(w, app', {"login", "dialog", "power", "sudo"})
          /\ app'.power # w.power => key = "y" /\ app'.sudo /\ app'.power # "chained"
          /\ IF Chains(u, key, expired)
             THEN /\ ok => machine.efi
                  /\ IF machine.efi THEN Register(t.label, t.esp, t.path, ok) ELSE UNCHANGED firmwareVars
             ELSE UNCHANGED firmwareVars
    BY <2>1
  <2>3. UiType(u) /\ Keeps(app, u, {"power", "dialog", "client", "login", "loading", "images"})
    BY <1>1, <1>3, PolledType DEF GuiInv
  <2> HIDE DEF u, t
  <2>4. u.screen = app.screen /\ u.target = app.target
    BY <1>1, <2>3 DEF Keeps, Fields
  <2>5. /\ w.screen = "boot" => u.screen = "boot"
        /\ w.power = "chained" => Chains(u, key, expired) /\ ok /\ w.target = u.target
        /\ DOMAIN w = Fields
    BY <2>2 DEF ScreenEffect, UiType
  <2>6. app'.screen = w.screen /\ app'.target = w.target
    BY <2>2, <2>5 DEF Keeps, Fields
  <2>7. Chains(u, key, expired) => u.screen = "boot"
    BY DEF Chains
  <2>8. FirmwareType
    BY DEF MenuInv
  <2>9. FirmwareType'
    <3>1. CASE UNCHANGED firmwareVars
      BY <2>8, <3>1 DEF firmwareVars, FirmwareType
    <3>2. CASE Register(t.label, t.esp, t.path, ok)
      BY <2>8, <3>2, RegisterStep
    <3>3. QED
      BY <2>2, <3>1, <3>2
  <2>10. ASSUME app'.power = "chained"
         PROVE  /\ 1 \in DOMAIN targets /\ boot_next' \in BootIds
                /\ boot'[boot_next'].guid = t.esp.guid /\ boot'[boot_next'].path = t.path
                /\ app'.target = app.target
    <3>1. Chains(u, key, expired) /\ ok /\ w.target = u.target
      BY <2>2, <2>5, <2>10
    <3>2. Register(t.label, t.esp, t.path, ok)
      BY <2>2, <3>1
    <3>3. 1 \in DOMAIN targets
      BY <2>4, <2>7, <3>1 DEF MenuInv, Chained
    <3>4. QED
      BY <2>4, <2>6, <2>8, <3>1, <3>2, <3>3, RegisterStep
  <2>11. Chained'
    BY <1>1, <2>4, <2>5, <2>6, <2>10 DEF Chained, MenuInv, t
  <2>12. QED
    BY <2>9, <2>11
<1>4. QED
  BY <1>2, <1>3

\* No step changes the menu, and none but a frame chains.
LEMMA NextMenu ==
    ASSUME GuiInv, MenuInv, [Next]_vars
    PROVE  MenuInv'
<1>1. machine' = machine /\ targets' = targets
  BY DEF Next, vars, Frame, StartStream, TypeAddress, ConnectEnds, ListStep, ListLocks, ListEnds, Replace, WorkerStep,
         FetchManifest, Block, BlockEnds, WorkerFails, BlocksEnd, Extend, Expanded, RegisterWritten,
         Threaded, Others
<1>2. MenuIsComplete' /\ NotItself'
  BY <1>1 DEF MenuInv, MenuIsComplete, NotItself
<1>3. CASE \E key \in Keys : Frame(key)
  BY <1>2, <1>3, FrameChains DEF MenuInv
<1>4. CASE WorkerStep \/ ConnectEnds \/ ListStep
  <2>1. app' = app /\ app.power = "on"
    BY <1>4 DEF ConnectEnds, ListStep, ListLocks, ListEnds, WorkerStep, FetchManifest, Block, BlockEnds,
         WorkerFails, BlocksEnd, Extend, Expanded, RegisterWritten, Threaded, Others, Running
  <2>2. Chained'
    BY <1>1, <2>1 DEF Chained, MenuInv
  <2>3. FirmwareType'
    <3>1. CASE RegisterWritten
      BY <3>1, RegisterStep DEF RegisterWritten, MenuInv, FirmwareType, firmwareVars
    <3>2. CASE ~RegisterWritten
      <4>1. UNCHANGED firmwareVars
        BY <1>4, <3>2 DEF ConnectEnds, ListStep, ListLocks, ListEnds, WorkerStep, FetchManifest, Block,
             BlockEnds, WorkerFails, BlocksEnd, Extend, Expanded
      <4>2. QED
        BY <4>1 DEF firmwareVars, FirmwareType, MenuInv
    <3>3. QED
      BY <3>1, <3>2
  <2>4. QED
    BY <1>2, <2>2, <2>3 DEF MenuInv
<1>5. CASE TypeAddress
  <2>1. PICK h \in Hosts : app' = [app EXCEPT !.address = h]
    BY <1>5 DEF TypeAddress
  <2>2. app.power = "on" /\ UNCHANGED firmwareVars /\ DOMAIN app = Fields
    BY <1>5 DEF TypeAddress, Draws, GuiInv, GuiType, UiType
  <2>3. app'.screen = app.screen /\ app'.power = "on"
    BY <2>1, <2>2 DEF Fields
  <2>4. QED
    BY <1>1, <1>2, <2>2, <2>3 DEF MenuInv, Chained, FirmwareType, firmwareVars
<1>6. CASE Replace \/ UNCHANGED vars
  <2>1. UNCHANGED << app, firmwareVars >>
    BY <1>6 DEF Replace, vars
  <2>2. QED
    BY <1>1, <1>2, <2>1 DEF MenuInv, Chained, FirmwareType, firmwareVars
<1>7. CASE StartStream
  <2>1. UNCHANGED firmwareVars /\ DOMAIN app = Fields
    BY <1>7 DEF StartStream, GuiInv, GuiType, UiType
  <2>2. app'.screen # "boot" /\ app'.power = app.power /\ app'.target = app.target
    BY <1>7, <2>1 DEF StartStream, Fields
  <2>3. QED
    BY <1>1, <1>2, <2>1, <2>2 DEF MenuInv, Chained, FirmwareType, firmwareVars
<1>8. QED
  BY <1>3, <1>4, <1>5, <1>6, <1>7 DEF Next

\* Where the partitions that are read have identifiers of their own: the menu has the
\* loaders of the other systems, each once, fallbacks after their vendors', and the
\* firmware starts the one that was selected, never goldboot again (boot_scan.rs).
THEOREM BootMenuAlwaysSound ==
    ASSUME EspsDiffer
    PROVE  Spec => []BootMenuIsSound
<1>1. Init => GuiInv /\ MenuInv
  BY InitGui, InitMenu
<1>2. GuiInv /\ MenuInv /\ [Next]_vars => (GuiInv /\ MenuInv)'
  BY NextGui, NextMenu
<1>3. GuiInv /\ MenuInv => BootMenuIsSound
  <2> SUFFICES ASSUME GuiInv, MenuInv PROVE MenuIsComplete /\ ChainLoadsTarget
    BY DEF BootMenuIsSound
  <2>1. app.power = "chained" => app.target \in DOMAIN targets
    BY DEF GuiInv, GuiType, UiType, MenuInv, Chained
  <2>2. QED
    BY <2>1 DEF MenuInv, Chained, NotItself, ChainLoadsTarget
<1>4. QED
  BY <1>1, <1>2, <1>3, PTL DEF Spec
=============================================================================
