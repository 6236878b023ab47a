-------------------------------- MODULE Gui --------------------------------
(***************************************************************************)
(* The graphical interface: one thread that draws frames and handles the   *)
(* keys pressed since the last one, and the threads it starts: one that    *)
(* logs in to a registry, one that lists its images, one that writes or    *)
(* verifies.                                                               *)
(*                                                                         *)
(* A frame is a chain of functions from the state of the interface to the  *)
(* next, in the order of GuiApp::ui: every part sees the same key.         *)
(***************************************************************************)
EXTENDS BootScan

CONSTANTS
    Local,        \* the images of the library, in order
    Hosts,        \* registries, each of which has one image, all of one name
    Size,         \* by image, the size of its disk
    Devices,      \* records [name, capacity], in order
    Counts,       \* by image, the clusters it has at first
    Machines,     \* where the program runs: [uki, efi, root, disks, uuid], and bound: logins
    Presses,      \* 100: how often the confirmation key is to be pressed
    MaxReplaced   \* bound: images replaced by others

\* What the scan reads of a partition that may be an ESP; names are in Alphabet, and a
\* partition always has an identifier.
EspType(esp) ==
    /\ esp.is_esp \in BOOLEAN /\ esp.readable \in BOOLEAN /\ esp.guid # NoUuid
    /\ IsFiniteSet(esp.loaders)
    /\ esp.loaders \subseteq [dir : ToSet(Alphabet), file : ToSet(Alphabet)]

ASSUME GuiAssumption ==
    /\ Local \in Seq(STRING) /\ Hosts \subseteq STRING
    /\ ToSet(Local) \cap Hosts = {} /\ "none" \notin ToSet(Local) \cup Hosts
    /\ \A image \in ToSet(Local) \cup Hosts : Size[image] \in Nat /\ image \in DOMAIN Counts
    /\ Counts \in [DOMAIN Counts -> Nat]
    /\ Devices \in Seq([name : STRING, capacity : Nat])
    /\ Presses \in Nat \ {0} /\ MaxReplaced \in Nat
    /\ Alphabet \in Seq(STRING)
    /\ \A m \in Machines :
         /\ m.uki \in BOOLEAN /\ m.efi \in BOOLEAN /\ m.root \in BOOLEAN /\ m.logins \in Nat
         /\ \A d \in DOMAIN m.disks : m.disks[d].readable \in BOOLEAN
         /\ m.disks \in Seq(ToSet(m.disks))
         /\ \A disk \in ToSet(m.disks) :
              disk.table \in Seq(ToSet(disk.table)) /\ \A esp \in ToSet(disk.table) : EspType(esp)

VARIABLES
    machine, targets,   \* fixed: the machine and the loaders found on it
    content,    \* by image, the clusters it has now
    replaced,
    app,        \* AppState and the screen
    connect,    \* the login thread with its channel
    list,       \* the listing thread with its channel
    progress,   \* the WriteProgress that interface and worker share
    worker      \* the thread that writes or verifies

vars == << machine, targets, content, replaced, app, connect, list, progress, worker, firmwareVars >>

None == "none"
NoClient == [login |-> 0, host |-> None]

NewProgress(count, verify) ==
    [count |-> count, states |-> [k \in 1..count |-> "pending"], done |-> FALSE,
     verify_only |-> verify, expanding |-> FALSE, dialog |-> None,
     failed |-> FALSE, poisoned |-> FALSE]
NoProgress == NewProgress(0, FALSE)

Worker(phase, mode, n, client) ==
    [phase |-> phase, mode |-> mode, k |-> 1, n |-> n, client |-> client, locks |-> FALSE]
NoWorker == Worker(None, None, 0, NoClient)

Init ==
    /\ machine \in Machines
    /\ targets = IF machine.uki THEN scan_boot_targets(machine.disks, machine.uuid) ELSE << >>
    /\ content = Counts /\ replaced = 0
    /\ app = [screen |-> IF targets = << >> THEN "image" ELSE "boot",
              target |-> 1, countdown |-> targets # << >>,
              selected |-> None, device |-> None, presses |-> 0, seen |-> 0,
              error |-> FALSE, sudo |-> ~machine.uki /\ ~machine.root, shell |-> FALSE,
              dialog |-> FALSE, address |-> None, login |-> FALSE, client |-> NoClient,
              images |-> None, loading |-> FALSE, choice |-> None, power |-> "on"]
    /\ connect = [st |-> None, client |-> NoClient]
    /\ list = [st |-> None, client |-> NoClient]
    /\ progress = NoProgress
    /\ worker = NoWorker
    /\ FirmwareInit

(***************************************************************************)
(* Keys that open and leave (app.rs), and what the threads sent            *)
(* (poll_login_events, poll_list_events).                                  *)
(***************************************************************************)
handle_hotkeys(u, key) ==
    LET free == ~u.dialog /\ ~u.sudo /\ ~u.shell /\ ~u.error
    IN  CASE u.screen = "image" /\ key = "esc" /\ free ->
                [u EXCEPT !.power = IF machine.uki THEN "reboot" ELSE "exit"]
          [] u.screen = "image" /\ key = "f5" /\ ~u.sudo -> [u EXCEPT !.dialog = TRUE]
          [] OTHER -> u


\* Slip: nobody waits for the result once the dialog is closed.
poll_login_events_open(u) ==
    CASE connect.st = "ok" /\ u.dialog ->
            [u EXCEPT !.client = connect.client, !.login = FALSE, !.dialog = FALSE, !.loading = TRUE]
      [] connect.st = "err" /\ u.dialog -> [u EXCEPT !.login = FALSE]
      [] OTHER -> u

poll_login_events(u) ==
    CASE connect.st = "ok" -> [u EXCEPT !.client = connect.client, !.login = FALSE,
                                        !.dialog = FALSE, !.loading = TRUE]
      [] connect.st = "err" -> [u EXCEPT !.login = FALSE]
      [] OTHER -> u

\* A listing that a later login replaced is never received.
poll_list_events(u) ==
    CASE connect.st = "ok" -> u
      [] list.st = "ok" -> [u EXCEPT !.images = list.client.host, !.loading = FALSE]
      [] list.st = "err" -> [u EXCEPT !.loading = FALSE]
      [] OTHER -> u

(***************************************************************************)
(* The screens.                                                            *)
(***************************************************************************)
Moved(items, current, key) ==
    LET at == {k \in DOMAIN items : items[k] = current}
    IN  CASE items = << >> -> None
          [] items # << >> /\ at = {} -> items[1]
          [] OTHER -> LET k == CHOOSE j \in at : TRUE
                      IN  IF key = "down" THEN items[IF k < Len(items) THEN k + 1 ELSE k]
                          ELSE items[IF k > 1 THEN k - 1 ELSE k]

\* Every key cancels the countdown, and is then handled without it.
BootsNow(u, key, expired) == key = "enter" \/ (u.countdown /\ key = None /\ expired)

\* Slip: an index beyond the last target.
LastTarget_next == Len(targets) + 1

LastTarget == Len(targets)

SelectBootTarget(u, key, ok, expired) ==
    LET v == [u EXCEPT !.countdown = @ /\ key = None]
    IN  CASE key = "f10" -> [v EXCEPT !.screen = "image"]
          [] key = "esc" /\ ~v.countdown -> [v EXCEPT !.power = "reboot"]
          [] BootsNow(u, key, expired) ->
                IF ok THEN [v EXCEPT !.power = "chained"]
                ELSE [v EXCEPT !.error = TRUE, !.countdown = FALSE]
          [] key = "down" /\ v.target < LastTarget -> [v EXCEPT !.target = @ + 1]
          [] key = "up" /\ v.target > 1 -> [v EXCEPT !.target = @ - 1]
          [] OTHER -> v

\* An image of the registry is listed under the address in the login dialog.
Items(u) == Local \o IF u.images = None THEN << >> ELSE << u.address >>

SelectImage(u, key, ok) ==
    LET v == [u EXCEPT !.shell = FALSE,
                       !.selected = IF @ = None /\ Items(u) # << >> THEN Items(u)[1] ELSE @]
    IN  CASE u.shell /\ key \notin {"esc", "shell_exit"} -> u
          [] key \in {"down", "up"} /\ Items(u) # << >> ->
                [v EXCEPT !.selected = Moved(Items(u), v.selected, key)]
          [] key = "enter" /\ Items(u) # << >> -> [v EXCEPT !.screen = "device"]
          [] key = "f9" /\ machine.uki -> [v EXCEPT !.shell = ok, !.error = ~ok]
          [] OTHER -> v

IsLocal(image) == image \in ToSet(Local)

\* selected_image_size: the listing's entry is found by name, whatever its host.
SelectedSize(u) == Size[IF IsLocal(u.selected) THEN u.selected ELSE u.images]

Selectable(u) ==
    FlattenSeq([k \in DOMAIN Devices |->
        IF Devices[k].capacity >= SelectedSize(u) THEN << Devices[k].name >> ELSE << >>])

\* The first device that is large enough is selected, if none is.
Preselected(u) ==
    IF u.device = None /\ Selectable(u) # << >> THEN [u EXCEPT !.device = Selectable(u)[1]] ELSE u

Verifies(u, key) ==
    u.screen = "device" /\ key = "v" /\ Devices # << >> /\ Preselected(u).device # None

\* Without a device every key is ignored.
SelectDevice(u, key, ok) ==
    LET v == Preselected(u)
    IN  IF Devices = << >> THEN u
        ELSE CASE key \in {"down", "up"} -> [v EXCEPT !.device = Moved(Selectable(u), v.device, key)]
               [] key = "enter" /\ v.device # None -> [v EXCEPT !.screen = "confirm", !.seen = 0]
               [] key = "esc" -> [v EXCEPT !.screen = "image"]
               [] Verifies(u, key) -> IF ok /\ IsLocal(v.selected) THEN [v EXCEPT !.screen = "apply"]
                                      ELSE [v EXCEPT !.error = TRUE]
               [] OTHER -> v

\* seen counts the presses since the screen was entered; the program does not.
Writes(u, key) == u.screen = "confirm" /\ key = "confirm" /\ u.presses + 1 >= Presses
Streams(u, key) == Writes(u, key) /\ ~IsLocal(u.selected) /\ u.client # NoClient

\* A write from a registry first waits for the client, on this screen.
Confirm(u, key, ok) ==
    IF key # "confirm" THEN u
    ELSE LET more(n) == IF n < Presses THEN n + 1 ELSE n
             v == [u EXCEPT !.presses = more(@), !.seen = more(@)]
         IN  IF ~Writes(u, key) \/ Streams(u, key) THEN v
             ELSE IF ok /\ IsLocal(u.selected) THEN [v EXCEPT !.screen = "apply"]
             ELSE [v EXCEPT !.screen = "device", !.error = TRUE]

\* A lock that a panic poisoned shows no dialog.
ShowsDialog == progress.dialog = "visible" /\ ~progress.expanding /\ ~progress.poisoned
Verified == progress.verify_only \/ \E k \in DOMAIN progress.states : progress.states[k] = "verified"
Options == IF Verified THEN << "reboot", "exit" >> ELSE << "verify", "reboot", "exit" >>

Choice(u) == IF u.choice \in ToSet(Options) THEN u.choice ELSE Options[1]
Chosen(u, key) ==
    CASE key = "enter" -> Choice(u)
      [] key = "v" /\ ~Verified -> "verify"
      [] key = "r" -> "reboot"
      [] key = "e" -> "exit"
      [] OTHER -> None
Reverifies(u, key) == u.screen = "apply" /\ ShowsDialog /\ Chosen(u, key) = "verify"

ApplyImage(u, key, ok) ==
    IF ~ShowsDialog THEN u
    ELSE LET v == [u EXCEPT !.choice = IF key \in {"down", "up"} THEN Moved(Options, Choice(u), key)
                                       ELSE Choice(u)]
         IN  CASE Chosen(u, key) = "verify" -> [v EXCEPT !.error = ~(ok /\ IsLocal(u.selected))]
               [] Chosen(u, key) = "reboot" -> [v EXCEPT !.power = IF ok THEN "reboot" ELSE "on"]
               [] Chosen(u, key) = "exit" -> [v EXCEPT !.power = "exit"]
               [] OTHER -> v

\* The error dialog hides the other screens; the key that closes it is handled by
\* the screen as well.
Screen(u, key, ok, expired) ==
    LET v == [u EXCEPT !.error = @ /\ key \notin {"esc", "enter"}]
    IN  CASE u.screen = "confirm" -> Confirm(u, key, ok)
          [] u.screen # "confirm" /\ v.error -> v
          [] u.screen = "boot" /\ ~v.error -> SelectBootTarget(v, key, ok, expired)
          [] u.screen = "image" /\ ~v.error -> SelectImage(v, key, ok)
          [] u.screen = "device" /\ ~v.error -> SelectDevice(v, key, ok)
          [] u.screen = "apply" /\ ~v.error -> ApplyImage(v, key, ok)

(***************************************************************************)
(* The dialogs above the screen.                                           *)
(***************************************************************************)
CanConnect(u) == u.dialog /\ u.address # None /\ ~u.login /\ connect.client.login < machine.logins

RegistryLogin(u, key, connects) ==
    IF ~u.dialog THEN u ELSE [u EXCEPT !.login = @ \/ connects, !.dialog = key # "esc"]

SudoConfirm(u, key) ==
    CASE u.sudo /\ key = "y" -> [u EXCEPT !.power = "exit"]
      [] u.sudo /\ key = "esc" -> [u EXCEPT !.sudo = FALSE]
      [] OTHER -> u

(***************************************************************************)
(* A frame.                                                                *)
(***************************************************************************)
Keys == {None, "esc", "enter", "down", "up", "f5", "f9", "f10", "confirm", "v", "r", "e", "y", "shell_exit"}

\* Slip: the lister keeps the client until its result is taken.
Locked_taken(client) ==
    \/ list.st \in {"locked", "ok", "err"} /\ list.client = client
    \/ worker.locks /\ worker.client = client

Locked(client) ==
    \/ list.st = "locked" /\ list.client = client
    \/ worker.locks /\ worker.client = client

\* start_local_write; start_stream_write first waits for the client (StartStream).
StartWrite(u) ==
    /\ progress' = NewProgress(content[u.selected], FALSE)
    /\ worker' = Worker("blocks", "write", content[u.selected], NoClient)

\* start_verify_only and start_verify, which keeps the vector of the write.
StartVerify(u, only) ==
    /\ worker' = Worker("blocks", "verify", content[u.selected], NoClient)
    /\ progress' = IF only THEN NewProgress(content[u.selected], TRUE)
                   ELSE [progress EXCEPT !.states = [k \in DOMAIN @ |-> "pending"],
                                         !.done = FALSE, !.dialog = None]

Hidden == [progress EXCEPT !.dialog = "hidden"]

\* What the screen starts in this frame.
Starts(u, key, ok) ==
    LET shown == ~u.error \/ key \in {"esc", "enter"}
        local == ok /\ IsLocal(u.selected)
    IN  CASE Writes(u, key) /\ local -> StartWrite(u)
          [] Streams(u, key) -> worker' = Worker("lock", "write", 0, u.client) /\ UNCHANGED progress
          [] shown /\ Verifies(u, key) /\ local -> StartVerify(u, TRUE)
          [] shown /\ Reverifies(u, key) ->
                IF local THEN StartVerify(u, FALSE) ELSE progress' = Hidden /\ UNCHANGED worker
          [] OTHER -> UNCHANGED << progress, worker >>

\* The threads that this frame starts or whose result it takes.
Threads(connects, address) ==
    /\ connect' = IF connects
                  THEN [st |-> "running",
                        client |-> [login |-> connect.client.login + 1, host |-> address]]
                  ELSE IF connect.st \in {"ok", "err"} THEN [connect EXCEPT !.st = None] ELSE connect
    /\ list' = CASE connect.st = "ok" -> [st |-> "spawned", client |-> connect.client]
                 [] connect.st # "ok" /\ list.st \in {"ok", "err"} -> [list EXCEPT !.st = None]
                 [] OTHER -> list

Chains(u, key, expired) ==
    /\ u.screen = "boot" /\ (u.error => key \in {"esc", "enter"})
    /\ BootsNow(u, key, expired)

\* What the key sets off may fail: a boot entry, a shell, a write, a verification
\* or the reboot command.
Outcomes(u, key) ==
    IF u.screen = "boot" \/ key \in {"f9", "confirm", "v", "enter", "r"} THEN BOOLEAN ELSE {TRUE}

\* No frame is drawn while the interface waits for the lock of the client.
Draws == app.power = "on" /\ worker.phase # "lock"

Frame(key) ==
    /\ Draws
    /\ LET left == handle_hotkeys(app, key)
           polled == poll_list_events(poll_login_events(left))
       IN  IF left.power # "on"
           THEN app' = left /\ UNCHANGED << connect, list, progress, worker, firmwareVars >>
           ELSE \E ok \in Outcomes(polled, key),
                   expired \in IF polled.countdown THEN BOOLEAN ELSE {FALSE},
                   connects \in IF CanConnect(polled) /\ key \in {None, "enter"} THEN BOOLEAN ELSE {FALSE} :
                  /\ app' = SudoConfirm(RegistryLogin(Screen(polled, key, ok, expired), key, connects), key)
                  /\ Threads(connects, app.address)
                  /\ Starts(polled, key, ok)
                  /\ IF Chains(polled, key, expired)
                     THEN LET t == targets[app.target]
                          IN  /\ ok => machine.efi
                              /\ IF machine.efi THEN Register(t.label, t.esp, t.path, ok)
                                 ELSE UNCHANGED firmwareVars
                     ELSE UNCHANGED firmwareVars
    /\ UNCHANGED << machine, targets, content, replaced >>

\* start_stream_write, the rest of the frame that confirmed: with the client the
\* manifest is fetched, and the client is given back before the worker starts.
StartStream ==
    /\ worker.phase = "lock" /\ ~Locked(worker.client)
    /\ \/ /\ app' = [app EXCEPT !.screen = "apply"]
          /\ progress' = NewProgress(content[worker.client.host], FALSE)
          /\ worker' = [worker EXCEPT !.phase = "manifest"]
       \/ /\ app' = [app EXCEPT !.screen = "device", !.error = TRUE]
          /\ worker' = NoWorker
          /\ UNCHANGED progress
    /\ UNCHANGED << machine, targets, content, replaced, connect, list, firmwareVars >>

\* Text typed in the dialog; of its letters those the screen reacts to are keys.
TypeAddress ==
    /\ Draws /\ app.dialog
    /\ \E h \in Hosts : app' = [app EXCEPT !.address = h]
    /\ UNCHANGED << machine, targets, content, replaced, connect, list, progress, worker, firmwareVars >>

(***************************************************************************)
(* The threads.                                                            *)
(***************************************************************************)
Running == app.power = "on"
Others == UNCHANGED << machine, targets, content, replaced, app >>

\* spawn_connect: a client is made and tried, and a frame asked for.
ConnectEnds ==
    /\ Running /\ connect.st = "running"
    /\ \E st \in {"ok", "err"} : connect' = [connect EXCEPT !.st = st]
    /\ UNCHANGED << list, progress, worker, firmwareVars >> /\ Others

\* kick_image_list.
Poisoned(client) == worker.phase = "panicked" /\ worker.client = client /\ client # NoClient

ListLocks ==
    /\ Running /\ list.st = "spawned" /\ ~Locked(list.client)
    /\ list' = [list EXCEPT !.st = IF Poisoned(list.client) THEN "err" ELSE "locked"]
    /\ UNCHANGED << connect, progress, worker, firmwareVars >> /\ Others

ListEnds ==
    /\ Running /\ list.st = "locked"
    /\ \E st \in {"ok", "err"} : list' = [list EXCEPT !.st = st]
    /\ UNCHANGED << connect, progress, worker, firmwareVars >> /\ Others

\* Slip: the error of a verification is dropped.
Finish_silent(p, failed, mode) ==
    [p EXCEPT !.done = TRUE, !.failed = @ \/ (failed /\ mode = "write"),
              !.dialog = IF mode = "verify" \/ ~failed THEN "visible" ELSE @]

\* The end of the three threads: a failed write shows no dialog.
Finish(p, failed, mode) ==
    [p EXCEPT !.done = TRUE, !.failed = @ \/ failed,
              !.dialog = IF mode = "verify" \/ ~failed THEN "visible" ELSE @]

Ends(failed) ==
    /\ progress' = Finish(progress, failed, worker.mode)
    /\ worker' = [worker EXCEPT !.phase = "ended", !.locks = FALSE]

Threaded == Running /\ UNCHANGED << connect, list >> /\ Others

\* stream_write_to_dest reads the manifest again.
FetchManifest ==
    /\ worker.phase = "manifest" /\ ~Locked(worker.client)
    /\ \/ /\ worker' = [worker EXCEPT !.phase = "blocks", !.n = content[worker.client.host], !.locks = TRUE]
          /\ UNCHANGED progress
       \/ Ends(TRUE)
    /\ UNCHANGED firmwareVars /\ Threaded

\* Slip: clusters counted from one.
record_cluster_next(next, state) ==
    IF worker.k + 1 \in DOMAIN progress.states
    THEN progress' = [progress EXCEPT !.states[worker.k + 1] = state] /\ worker' = next
    ELSE /\ progress' = [progress EXCEPT !.poisoned = TRUE]
         /\ worker' = [worker EXCEPT !.phase = "panicked", !.locks = FALSE]

\* record_cluster and record_verify_cluster: an index beyond the vector panics
\* with the lock held.
record_cluster(next, state) ==
    IF worker.k \in DOMAIN progress.states
    THEN progress' = [progress EXCEPT !.states[worker.k] = state] /\ worker' = next
    ELSE /\ progress' = [progress EXCEPT !.poisoned = TRUE]
         /\ worker' = [worker EXCEPT !.phase = "panicked", !.locks = FALSE]

NextBlock == [worker EXCEPT !.phase = "blocks", !.k = @ + 1]

Block ==
    /\ worker.phase = "blocks" /\ worker.k <= worker.n
    /\ \/ record_cluster([worker EXCEPT !.phase = "block"], IF worker.mode = "write" THEN "writing" ELSE "verifying")
       \/ worker.mode = "write" /\ record_cluster(NextBlock, "up_to_date")
    /\ UNCHANGED firmwareVars /\ Threaded

BlockEnds ==
    /\ worker.phase = "block"
    /\ \E state \in IF worker.mode = "write" THEN {"written"} ELSE {"verified", "failed"} :
         record_cluster(NextBlock, state)
    /\ UNCHANGED firmwareVars /\ Threaded

\* A write fails at any block; a verification only where it opens the device.
WorkerFails ==
    /\ worker.phase \in {"blocks", "block"}
    /\ worker.mode = "verify" => worker.k = 1 /\ worker.phase = "blocks"
    /\ Ends(TRUE)
    /\ UNCHANGED firmwareVars /\ Threaded


\* Slip: the dialog is shown when the blocks are written.
BlocksEnd_visible ==
    /\ worker.phase = "blocks" /\ worker.k > worker.n
    /\ progress' = Finish(progress, FALSE, worker.mode)
    /\ worker' = [worker EXCEPT !.phase = IF worker.mode = "verify" THEN "ended" ELSE "hooks"]
    /\ UNCHANGED firmwareVars /\ Threaded

BlocksEnd ==
    /\ worker.phase = "blocks" /\ worker.k > worker.n
    /\ IF worker.mode = "verify" THEN Ends(FALSE)
       ELSE worker' = [worker EXCEPT !.phase = "hooks"] /\ UNCHANGED progress
    /\ UNCHANGED firmwareVars /\ Threaded

\* post_write_hooks; what they do to the disk is in Deploy.
Extend ==
    /\ worker.phase = "hooks"
    /\ \/ Ends(TRUE)
       \/ /\ worker' = [worker EXCEPT !.phase = "expand"]
          /\ progress' = [progress EXCEPT !.expanding = TRUE]
       \/ worker' = [worker EXCEPT !.phase = "register"] /\ UNCHANGED progress
    /\ UNCHANGED firmwareVars /\ Threaded

Expanded ==
    /\ worker.phase = "expand"
    /\ worker' = [worker EXCEPT !.phase = "register"]
    /\ progress' = [progress EXCEPT !.expanding = FALSE]
    /\ UNCHANGED firmwareVars /\ Threaded

\* Without an ESP no entry is made; one that cannot be made is only logged.
RegisterWritten ==
    /\ worker.phase = "register"
    /\ \/ \E ok \in BOOLEAN : Register("goldboot", [index |-> 1, guid |-> "written"], "default", ok)
       \/ UNCHANGED firmwareVars
    /\ Ends(FALSE)
    /\ Threaded

\* An image is replaced by one of another length: pushed to a registry, or pulled
\* by another process.  It makes a difference only between the two times that its
\* length is read: by the interface and the worker, or to write and to verify.
ReadAgain ==
    CASE worker.phase = "manifest" -> {worker.client.host}
      [] worker.phase \notin {None, "manifest"} /\ worker.client = NoClient -> {app.selected}
      [] OTHER -> {}

Replace ==
    /\ replaced < MaxReplaced /\ replaced' = replaced + 1
    /\ \E image \in ReadAgain \cap DOMAIN content : \E n \in {0, Counts[image] + 1} :
         content' = [content EXCEPT ![image] = n]
    /\ UNCHANGED << machine, targets, app, connect, list, progress, worker, firmwareVars >>

WorkerStep ==
    \/ FetchManifest \/ Block \/ BlockEnds \/ WorkerFails \/ BlocksEnd
    \/ Extend \/ Expanded \/ RegisterWritten

ListStep == ListLocks \/ ListEnds

Next ==
    \/ \E key \in Keys : Frame(key)
    \/ StartStream \/ TypeAddress \/ ConnectEnds \/ ListStep \/ WorkerStep \/ Replace

\* The threads run, requests have timeouts, and the frame that the login thread
\* asks for is drawn.  Nobody has to press a key.
Repaint == connect.st \in {"ok", "err"} /\ Frame(None)

Spec ==
    /\ Init /\ [][Next]_vars
    /\ WF_vars(ConnectEnds) /\ WF_vars(ListStep) /\ WF_vars(WorkerStep)
    /\ WF_vars(StartStream) /\ WF_vars(Repaint)

(***************************************************************************)
(* Properties.                                                             *)
(***************************************************************************)
TypeOK ==
    /\ app.screen \in {"boot", "image", "device", "confirm", "apply"}
    /\ app.target \in DOMAIN targets \cup {1}
    /\ app.selected \in {None} \cup ToSet(Local) \cup Hosts
    /\ app.device \in {None} \cup {Devices[k].name : k \in DOMAIN Devices}
    /\ app.presses \in 0..Presses
    /\ connect.st \in {None, "running", "ok", "err"}
    /\ list.st \in {None, "spawned", "locked", "ok", "err"}
    /\ Len(progress.states) = progress.count

\* The dialog that offers to reboot comes after everything was done to the device,
\* the hooks included (post_write_dialog is set by the threads), and no other key
\* ends the program meanwhile, unless the question about sudo was left open.
NoPowerOffWhileWriting ==
    app.power # "on" /\ ~app.sudo => worker.phase \in {None, "ended"}

\* A dialog without an error stands for a device of which every block was written,
\* found up to date or compared, when the vector was made for the image that the
\* thread then read (state.rs: start_local_write, start_stream_write, start_verify).
CompleteMeansWhole ==
    ShowsDialog /\ ~progress.failed /\ worker.n = progress.count =>
        \A k \in 1..progress.count :
            progress.states[k] \in {"written", "up_to_date", "verified", "failed"}

\* The threads stay inside the vector (record_cluster indexes it with the lock
\* held, which leaves a screen without dialog or way out) unless an image was
\* replaced between the two times its length was read.
PanicsOnlyAfterReplacement == progress.poisoned => replaced > 0

\* When the menu restarts the machine, the firmware's next boot is the loader that
\* was selected, and it is not goldboot again where the stub told its own ESP
\* (boot_scan.rs: chain_load, scan_disk).
ChainLoadsTarget ==
    app.power = "chained" =>
        LET t == targets[app.target]
        IN  /\ boot_next \in BootIds
            /\ boot[boot_next].guid = t.esp.guid /\ boot[boot_next].path = t.path
            /\ boot[boot_next].guid # machine.uuid

\* Partitions that are scanned have identifiers of their own, which a cloned disk
\* breaks: its loaders cannot be told from the first's.
EspsDiffer ==
    \A m \in Machines : \A c, d \in DOMAIN m.disks : m.disks[c].readable /\ m.disks[d].readable =>
        \A e \in DOMAIN m.disks[c].table, f \in DOMAIN m.disks[d].table :
            m.disks[c].table[e].guid = m.disks[d].table[f].guid => c = d /\ e = f

\* The menu has every loader of every other ESP that can be read, once, and the
\* fallback of an ESP after its vendors' loaders: the countdown boots the first.
MenuIsComplete ==
    /\ machine.uki =>
        {<< t.esp.guid, t.loader >> : t \in ToSet(targets)} =
            UNION {UNION {{<< esp.guid, l >> : l \in esp.loaders} :
                esp \in {e \in ToSet(disk.table) : e.is_esp /\ e.readable /\
                            IF machine.uuid = NoUuid THEN e.name # GOLDBOOT_ESP_NAME
                            ELSE e.guid # machine.uuid}} :
                disk \in {d \in ToSet(machine.disks) : d.readable}}
    /\ \A i, j \in DOMAIN targets :
        /\ i # j => targets[i] # targets[j]
        /\ i < j /\ targets[i].esp = targets[j].esp /\ targets[i].loader.dir = FALLBACK
              => targets[j].loader.dir = FALLBACK

\* What the interface shows of a write is true: blocks, completion and the lock's
\* being poisoned (state.rs: WriteProgress).
ProgressIsTrue == TypeOK /\ CompleteMeansWhole /\ PanicsOnlyAfterReplacement

\* The boot menu offers and starts the loaders of the other systems (boot_scan.rs).
BootMenuIsSound == MenuIsComplete /\ ChainLoadsTarget

\* A login ends for the dialog as it does for its thread, also when the dialog was
\* closed meanwhile: the button never stays at "Connecting..." (registry_login.rs).
LoginSettles == app.login ~> (~app.login \/ app.power # "on")

\* A write that was confirmed starts or fails, and one that started comes to its end,
\* whichever thread holds the client that it streams from: the interface, which then
\* takes no results of other threads, and the worker wait for a listing and never for
\* one another (start_stream_write, kick_image_list).
WriteSettles ==
    worker.phase # None ~> (worker.phase \in {None, "ended", "panicked"} \/ app.power # "on")

\* "Press '{}' 100 times to confirm" (confirm.rs): no write starts with fewer
\* presses on the screen that shows what is about to be overwritten.
ConfirmedEachTime ==
    [][ worker.phase = None /\ worker'.mode = "write" => app'.seen = Presses ]_vars
=============================================================================
