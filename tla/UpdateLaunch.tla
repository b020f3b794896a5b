----------------------------- MODULE UpdateLaunch -----------------------------
(***************************************************************************)
(* What a macOS desktop shell does with the journal: admission of a server *)
(* at start (updater_launch.rs), the installation of a prepared update     *)
(* (updater_install.rs), the proof of the installed one by a healthy       *)
(* server (supervisor.rs), Quit (lifecycle.rs), and the ways all of it may *)
(* stop: a file operation fails, the server dies, the shell is killed, the *)
(* machine stops.                                                          *)
(*                                                                         *)
(* The installed bundle `app` is a version, or 0 when it is not whole.     *)
(* Version 1 was installed by hand; an update goes to the next version.    *)
(***************************************************************************)
EXTENDS UpdateJournal

CONSTANTS MaxVersion,       \* the last version an update is published for
          MaxDisturbances   \* failures, deaths and quits in a behaviour

VARIABLES
  app,        \* the bundle on disk
  settled,    \* its bytes are certainly on the disk
  version,    \* the version of the running shell, 0 when none runs
  gate,       \* LaunchGate.phase
  task,       \* what the shell's update thread does, and its file operations
  server,     \* "none", "self" (a child of this shell) or "orphan"
  ready,      \* the window shows the server's page
  quitting,   \* "no", "fenced" (shutting_down) or "exit" (fenced by Quit)
  last,       \* the shell before this one is not reaped yet
  intent,     \* manual-intent.json is unconsumed
  manual,     \* the manual restart attempt: its phase and its owner's step
  disturbances

shellVars  == <<version, gate, task, ready, quitting, manual>>
launchVars == <<journal, app, settled, server, last, intent, shellVars, disturbances>>

Doing(what, ops) == [doing |-> what, ops |-> ops]
Idle == Doing("idle", <<>>)

NoRestart == [phase |-> "none", step |-> "idle", sent |-> FALSE]

\* Restarts::active: an attempt that was not aborted refuses every start.
RestartActive == manual.phase \notin {"none", "aborted"}

HoldsExit ==
  \/ manual.phase \in {"commitSent", "stopping", "restarting"}
  \/ gate \in {"installing", "restarting"}

LaunchInit ==
  /\ JournalInit
  /\ app = 1 /\ settled = TRUE
  /\ version = 0 /\ gate = "checking" /\ task = Idle
  /\ server = "none" /\ ready = FALSE
  /\ quitting = "no" /\ last = FALSE /\ intent = FALSE
  /\ manual = NoRestart
  /\ disturbances = 0

Calm      == UNCHANGED disturbances
Disturbed == disturbances < MaxDisturbances /\ disturbances' = disturbances + 1

\* updater_launch::recover: nothing is started and nothing retried.
GoRecovery == gate' = "recovery" /\ task' = Idle

\* normal_start, which a Quit in between turns into nothing.
NormalStart ==
  /\ gate' = IF quitting = "no" THEN "normal" ELSE gate
  /\ task' = Idle

-----------------------------------------------------------------------------
(* Starting.                                                               *)

\* That a bundle which is not whole does not start is the system's doing (its
\* signature no longer matches); the shell compares the bundle only when it
\* resumes an attempt.
Launch ==
  /\ version = 0 /\ app # 0
  /\ version' = app
  /\ gate' = "checking"
  /\ task' = Doing("check", <<>>)
  /\ UNCHANGED <<journal, app, settled, server, ready, quitting, last, intent, manual>>
  /\ Calm

Starting(what) ==
  /\ version # 0 /\ task = Doing(what, <<>>)
  /\ UNCHANGED <<version, ready, quitting, manual, app, settled, server, last>>

\* start_inner up to the journal: nothing pending and no click means an
\* ordinary start.
CheckStartup ==
  /\ Starting("check")
  /\ \/ Check /\ ~intent /\ NormalStart /\ Calm
     \/ (~Check \/ intent) /\ task' = Doing("load", <<>>) /\ UNCHANGED gate /\ Calm
     \/ /\ ~Check \/ intent                  \* the update runtime fails to initialize
        /\ Disturbed
        /\ IF Check THEN NormalStart ELSE GoRecovery
  /\ UNCHANGED <<journal, intent>>

\* An attempt is resumed only on the whole bundle it installed, by a shell of
\* that version, when every process that wrote about it is gone.
Resumes ==
  /\ Loaded.phase = "awaitingHealth"
  /\ app = Loaded.target /\ version = Loaded.target
  /\ OwnersGone

\* consume_manual: the click is retired before anything it selects is tried.
LoadJournal ==
  /\ Starting("load")
  /\ UNCHANGED journal
  /\ \/ ~LoadFails /\ ~Pending
        /\ intent' = FALSE /\ Calm
        /\ IF intent /\ version < MaxVersion
           THEN task' = Doing("preflight", <<>>) /\ UNCHANGED gate
           ELSE NormalStart
     \/ ~LoadFails /\ ~Pending             \* location, archive or click unreadable
        /\ intent' \in {intent, FALSE} /\ Disturbed /\ NormalStart
     \/ ~LoadFails /\ Pending /\ Resumes
        /\ UNCHANGED intent /\ Calm
        /\ IF FromCompletion
           THEN task' = Doing("recover", Recover(fs["completed"])) /\ UNCHANGED gate
           ELSE gate' = "awaiting" /\ task' = Idle
     \/ (LoadFails \/ (Pending /\ ~Resumes)) /\ GoRecovery /\ UNCHANGED intent /\ Calm
     \/ GoRecovery /\ UNCHANGED intent /\ Disturbed   \* the cached archive is not usable

Recovered ==
  /\ Starting("recover")
  /\ gate' = "awaiting" /\ task' = Idle
  /\ UNCHANGED <<journal, intent>> /\ Calm

-----------------------------------------------------------------------------
(* Installing.                                                             *)

\* The last look before the journal is touched: no server of any shell, and
\* no Quit (begin_startup_update holds the lock that every spawn takes).
Preflight ==
  /\ Starting("preflight")
  /\ UNCHANGED <<journal, intent>>
  /\ \/ server = "none" /\ quitting = "no" /\ Calm
        /\ gate' = "installing" /\ task' = Doing("begin", Begin(version + 1))
     \/ server = "none" /\ quitting # "no" /\ task' = Idle /\ UNCHANGED gate /\ Calm
     \/ server = "none" /\ Calm /\ NormalStart     \* the release no longer matches, or no network
     \/ server # "none" /\ Calm /\ GoRecovery      \* the port or the bundle is in use
     \/ Disturbed /\ GoRecovery                    \* the screen is not painted

\* apply: from the recorded attempt to the installer's return the bundle is
\* not whole, and what is left of it when the shell dies is anyone's guess.
Replacing == task = Doing("begin", <<>>)

InstallerReturns ==
  /\ version # 0 /\ Replacing
  /\ \/ /\ app' = version + 1 /\ settled' = FALSE /\ Calm
        /\ task' = Doing("installed", Installed(fs["attempt"]))
        /\ UNCHANGED gate
     \/ /\ app' \in {0, version, version + 1} /\ settled' = FALSE /\ Disturbed
        /\ GoRecovery
  /\ UNCHANGED <<journal, version, ready, quitting, manual, server, last, intent>>

\* handoff_verified_install.
InstallRecorded ==
  /\ Starting("installed")
  /\ gate' = "restarting" /\ task' = Idle
  /\ UNCHANGED <<journal, intent>> /\ Calm

-----------------------------------------------------------------------------
(* One file operation of the journal operation under way.                  *)

Stopped(op) == Refused(op) \/ (op.live /\ server # "self")

Execute ==
  /\ version # 0 /\ task.ops # <<>>
  /\ LET op == Head(task.ops) IN
     \/ Stopped(op) /\ GoRecovery /\ UNCHANGED journal
     \/ /\ ~Stopped(op) /\ Perform(op)
        /\ task' = [task EXCEPT !.ops = Tail(@)]
        /\ UNCHANGED gate
  /\ UNCHANGED <<version, ready, quitting, manual, app, settled, server, last, intent>>
  /\ Calm

OperationFails ==
  /\ version # 0 /\ task.ops # <<>>
  /\ GoRecovery /\ Disturbed
  /\ UNCHANGED <<journal, version, ready, quitting, manual, app, settled, server, last, intent>>

-----------------------------------------------------------------------------
(* Serving.                                                                *)

ServerOnly == UNCHANGED <<app, settled, version, quitting, last, intent, manual>>

\* SidecarLifecycle::start with admit_server; an occupied port starts nothing.
Serve ==
  /\ version # 0 /\ task = Idle /\ quitting = "no" /\ ~RestartActive
  /\ \/ gate = "normal" /\ Check
     \/ gate = "awaiting"
  /\ server = "none"
  /\ server' = "self" /\ ready' = FALSE
  /\ ServerOnly /\ UNCHANGED <<journal, gate, task>> /\ Calm

\* A successor that finds the port taken does not wait for it (server_failed).
PortTaken ==
  /\ version # 0 /\ gate = "awaiting" /\ task = Idle /\ server = "orphan"
  /\ GoRecovery
  /\ ServerOnly /\ UNCHANGED <<journal, server, ready>> /\ Calm

\* The ready frame and the health request: a successor proves itself before
\* its page is shown, and its bundle is compared once more.
Healthy ==
  /\ version # 0 /\ server = "self" /\ ~ready /\ task = Idle /\ quitting = "no"
  /\ \/ gate = "normal" /\ ready' = TRUE /\ UNCHANGED <<gate, task>>
     \/ gate = "awaiting" /\ app = fs["attempt"].target
        /\ task' = Doing("finish", Finish(fs["attempt"]))
        /\ UNCHANGED <<ready, gate>>
  /\ ServerOnly /\ UNCHANGED <<journal, server>> /\ Calm

\* finish_health returned: the gate opens and the page is shown.
Finished ==
  /\ version # 0 /\ task = Doing("finish", <<>>)
  /\ gate' = "normal" /\ task' = Idle
  /\ ready' = (server = "self")
  /\ ServerOnly /\ UNCHANGED <<journal, server>> /\ Calm

Known == [self |-> "self", last |-> "last", orphan |-> "orphan", gone |-> "gone"]
Ages(shells, servers) ==
  /\ fs' = Age(fs, shells, servers) /\ safe' = Age(safe, shells, servers)
  /\ UNCHANGED <<pending, loose>>

\* The server is gone, for whatever reason: SidecarLifecycle.exited.
ServerGone ==
  /\ version # 0 /\ server = "self"
  /\ server' = "none" /\ ready' = FALSE
  /\ Ages(Known, [Known EXCEPT !.self = "gone"])
  /\ IF gate = "awaiting" /\ task = Idle THEN GoRecovery ELSE UNCHANGED <<gate, task>>
  /\ ServerOnly

ServerDies == ServerGone /\ Disturbed

\* Shutdown was fenced and the server signalled, or its start failed.
ServerStops ==
  /\ ServerGone /\ Calm
  /\ quitting # "no" \/ (gate = "recovery" /\ ~ready)

-----------------------------------------------------------------------------
(* Quitting, restarting, dying.                                            *)

\* From a recovery screen the user leaves; from anywhere else it is a
\* disturbance.  holds_exit refuses the window's Close and the menu's Quit, not
\* the Quit event of macOS: with a server the shell then fences and waits for
\* it as any Quit does (blocking_shutdown), for at most 30 seconds; with none,
\* or after them, it is gone where it stands (ShellDies).
Quit ==
  /\ version # 0 /\ quitting # "exit"
  /\ ~HoldsExit \/ gate = "recovery" \/ server = "self"
  /\ quitting' = "exit"
  /\ IF gate = "recovery" THEN Calm ELSE Disturbed
  /\ UNCHANGED <<journal, app, settled, server, last, intent, version, gate, task, ready, manual>>

\* The shell is gone; its server may live on, and its own process may stay
\* visible until it is reaped.
ShellGone(orphaned) ==
  /\ version # 0
  /\ version' = 0 /\ gate' = "checking" /\ task' = Idle
  /\ ready' = FALSE /\ quitting' = "no" /\ manual' = NoRestart
  /\ server' = IF orphaned THEN "orphan" ELSE "none"
  /\ last' \in BOOLEAN
  /\ Ages([Known EXCEPT !.self = IF last' THEN "last" ELSE "gone", !.last = "gone"],
          [Known EXCEPT !.self = IF orphaned THEN "orphan" ELSE "gone",
                        !.orphan = IF orphaned THEN "orphan" ELSE "gone"])
  /\ UNCHANGED intent

\* app.exit() after the tracked server has exited.
QuitCompletes ==
  /\ quitting = "exit" /\ server # "self"
  /\ ShellGone(server = "orphan")
  /\ UNCHANGED <<app, settled>> /\ Calm

\* app.request_restart(): the exit the updater asked for.
RestartExits ==
  /\ gate = "restarting" /\ task = Idle
  /\ ShellGone(server = "orphan")
  /\ UNCHANGED <<app, settled>> /\ Calm

\* Pending links cannot be saved: the restart is refused at the last moment.
RestartDeferred ==
  /\ version # 0 /\ gate = "restarting" /\ task = Idle
  /\ GoRecovery /\ Disturbed
  /\ UNCHANGED <<journal, app, settled, server, last, intent, version, ready, quitting, manual>>

ShellDies ==
  /\ Disturbed
  /\ \E orphaned \in IF server = "none" THEN {FALSE} ELSE BOOLEAN : ShellGone(orphaned)
  /\ app' \in IF Replacing THEN {0, version, version + 1} ELSE {app}
  /\ settled' = (settled /\ ~Replacing)

Reaped ==
  /\ last /\ last' = FALSE
  /\ Ages([Known EXCEPT !.last = "gone"], Known)
  /\ UNCHANGED <<app, settled, server, intent, shellVars>> /\ Calm

OrphanExits ==
  /\ server = "orphan" /\ server' = "none"
  /\ Ages(Known, [Known EXCEPT !.orphan = "gone"])
  /\ UNCHANGED <<app, settled, last, intent, shellVars>> /\ Calm

AllGone == [p \in DOMAIN Known |-> "gone"]

MachineStops ==
  /\ Disturbed
  /\ \E kept \in SUBSET pending :
     \E a \in Survivors("attempt", kept), c \in Survivors("completed", kept),
        s \in Survivors("stage", kept) :
       fs' = Age([attempt |-> a, completed |-> c, stage |-> s], AllGone, AllGone)
  /\ safe' = fs' /\ pending' = {} /\ loose' = {}
  /\ app' \in IF Replacing THEN {0, version, version + 1}
              ELSE IF settled THEN {app} ELSE {0, app}
  /\ settled' = TRUE
  /\ version' = 0 /\ gate' = "checking" /\ task' = Idle
  /\ ready' = FALSE /\ quitting' = "no" /\ manual' = NoRestart
  /\ server' = "none" /\ last' = FALSE
  /\ UNCHANGED intent
=============================================================================
