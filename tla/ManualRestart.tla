---------------------------- MODULE ManualRestart ----------------------------
(***************************************************************************)
(* The restart into an update as the user asks for it: the transaction of  *)
(* updater_restart.rs over the control channel of updater_backend.rs, and  *)
(* the whole of the desktop's update behaviour around it.  The backend is  *)
(* the restart authority of the Node server (DesktopRestartAuthority), of  *)
(* which the shell sees its state and its answers.                         *)
(***************************************************************************)
EXTENDS UpdateLaunch

VARIABLES backend,   \* "open", "prepared" or "committed", of the present server
          channel    \* the shell may still use the control channel

vars == <<launchVars, backend, channel>>

Backend == UNCHANGED <<backend, channel>>

Init == LaunchInit /\ backend = "open" /\ channel = TRUE

Phase(p) == [manual EXCEPT !.phase = p]
At(p, s) == [manual EXCEPT !.phase = p, !.step = s]

\* What every action of the transaction leaves alone.
Rest == UNCHANGED <<journal, app, settled, version, task, server, ready, last>>
Quiet == Rest /\ UNCHANGED <<gate, quitting, intent>>

Cancelled == manual.phase = "abortRequested"

\* The owner is at this step.  Deadlines, the token's life, the owned process
\* tree and the target's record may fail a check at any step before Commit:
\* each such step may choose to abort.
OwnStep(step) == version # 0 /\ manual.step = step

-----------------------------------------------------------------------------
(* The browser's side.                                                     *)

\* begin: an idle backend is asked first; one that does not answer within a
\* second retires the channel, and nothing has begun.
Begins ==
  /\ version # 0 /\ gate = "normal" /\ ready /\ server = "self"
  /\ ~RestartActive
  /\ version < MaxVersion /\ channel
  /\ \/ backend = "open" /\ Backend
        /\ manual' = [phase |-> "draft", step |-> "idle", sent |-> FALSE]
     \/ channel' = FALSE /\ UNCHANGED <<manual, backend>>
  /\ Quiet /\ Calm

\* prepared: the page says that its drafts are saved; one winner leaves Draft.
Prepared ==
  /\ manual.phase = "draft"
  /\ manual' = At("preparing", "fence")
  /\ Quiet /\ Calm /\ Backend

\* The draft expires, is cancelled, or its page goes away.
DraftEnds ==
  /\ manual.phase = "draft"
  /\ manual' = Phase("aborted")
  /\ Quiet /\ Calm /\ Backend

\* cancel and view_lost after the draft: the owner is told, and answers.
RequestCancel ==
  /\ manual.phase \in {"preparing", "navigating"}
  /\ manual' = Phase("abortRequested")
  /\ Quiet /\ Calm /\ Backend

-----------------------------------------------------------------------------
(* The owner, prepare_restart.                                             *)

AbortNext == manual' = [manual EXCEPT !.step = "abort"]

\* Fences, flushed links, the target once more, and out of Preparing.
Fence ==
  /\ OwnStep("fence")
  /\ \/ manual.phase = "preparing" /\ manual' = At("navigating", "show")
     \/ AbortNext
  /\ Quiet /\ Calm /\ Backend

\* show_manual_preparing: the gate leaves Normal; the screen may not appear.
Show ==
  /\ OwnStep("show")
  /\ \/ gate = "normal" /\ gate' = "manual"
        /\ manual' \in {[manual EXCEPT !.step = s] : s \in {"prepare", "abort"}}
     \/ gate # "normal" /\ AbortNext /\ UNCHANGED gate
  /\ Rest /\ UNCHANGED <<quitting, intent>> /\ Calm /\ Backend

\* The document is gone; now the runtime is asked to hold still.  A reply that
\* does not come retires the channel.
Prepare ==
  /\ OwnStep("prepare")
  /\ \/ AbortNext /\ Backend                          \* cancelled, late, another run
     \/ /\ ~Cancelled /\ server = "self"
        /\ \/ /\ channel /\ backend = "open"
              /\ backend' = "prepared" /\ UNCHANGED channel
              /\ manual' = [manual EXCEPT !.step = "elect", !.sent = TRUE]
           \/ /\ channel' = FALSE                     \* timeout or a broken frame
              /\ backend' \in {backend, IF backend = "open" THEN "prepared" ELSE backend}
              /\ manual' = [manual EXCEPT !.step = "abort", !.sent = TRUE]
           \/ /\ manual' = [manual EXCEPT !.step = "abort", !.sent = TRUE]
              /\ Backend                              \* refused: somebody is busy
  /\ Quiet /\ Calm

\* Cancellation and commit elect one winner here.
Elect ==
  /\ OwnStep("elect")
  /\ \/ manual.phase = "navigating" /\ server = "self"
        /\ manual' = At("commitSent", "commit")
     \/ AbortNext
  /\ Quiet /\ Calm /\ Backend

CommitGuesses ==               \* takes silence for a refusal
  /\ OwnStep("commit")
  /\ Quiet /\ Calm
  /\ \/ server = "self" /\ channel /\ backend = "prepared"
        /\ backend' = "committed"
        /\ \/ manual' = At("stopping", "stop") /\ UNCHANGED channel
           \/ manual' = At("navigating", "abort") /\ channel' = FALSE
     \/ backend # "prepared" /\ manual' = At("navigating", "abort") /\ Backend

\* Only a refusal leads back; silence after Commit is an unknown outcome.
Commit ==
  /\ OwnStep("commit")
  /\ Rest /\ UNCHANGED <<quitting, intent>>
  /\ \/ /\ server = "self" /\ channel /\ backend = "prepared" /\ Calm
        /\ backend' = "committed" /\ manual' = At("stopping", "stop")
        /\ UNCHANGED <<channel, gate>>
     \/ /\ server = "self" /\ channel /\ backend # "prepared" /\ Calm
        /\ manual' = At("navigating", "abort")
        /\ UNCHANGED gate /\ Backend
     \/ /\ IF server = "self" /\ channel THEN Disturbed ELSE Calm
        /\ backend' \in {backend, IF backend = "prepared" THEN "committed" ELSE backend}
        /\ channel' = FALSE
        /\ manual' = At("recovery", "idle") /\ gate' = "recovery"

\* abort: after Prepare the backend is told first, and a channel that does not
\* answer is retired, which ends the attempt on the other side.  An answer
\* other than Open leaves the outcome unknown.
Abort ==
  /\ OwnStep("abort")
  /\ Rest /\ UNCHANGED <<quitting, intent>>
  /\ \/ /\ ~manual.sent \/ ~channel \/ server # "self"
        /\ manual' = At("aborted", "idle") /\ Calm /\ Backend
        /\ gate' = IF gate = "manual" THEN "normal" ELSE gate
     \/ /\ manual.sent /\ channel /\ server = "self" /\ Calm
        /\ \/ backend # "committed" /\ backend' = "open" /\ UNCHANGED channel
           \/ backend' \in {backend, IF backend = "prepared" THEN "open" ELSE backend}
              /\ channel' = FALSE
        /\ manual' = At("aborted", "idle")
        /\ gate' = IF gate = "manual" THEN "normal" ELSE gate
     \/ /\ manual.sent /\ channel /\ server = "self"
        /\ \/ backend = "committed" /\ Calm
           \/ Disturbed
        /\ manual' = At("recovery", "idle") /\ gate' = "recovery" /\ Backend

-----------------------------------------------------------------------------
(* After the commit.                                                       *)

Uncertain ==
  manual' = At("recovery", "idle") /\ gate' = "recovery"

\* begin_shutdown fences, whether there is a server or not, and must answer
\* with the very one the proof was about.
Stop ==
  /\ OwnStep("stop")
  /\ quitting' = IF quitting = "no" THEN "fenced" ELSE quitting
  /\ \/ quitting = "no" /\ server = "self"
        /\ manual' = At("stopping", "wait") /\ UNCHANGED gate
     \/ (quitting # "no" \/ server # "self") /\ Uncertain
  /\ Rest /\ UNCHANGED intent /\ Calm /\ Backend

\* wait_for_exit and the owned tree, then request_manual and the restart.
SaveIntent ==
  /\ OwnStep("wait")
  /\ \/ /\ server # "self" /\ Calm
        /\ intent' = TRUE
        /\ manual' = At("restarting", "idle") /\ gate' = "restarting"
        /\ UNCHANGED quitting
     \/ Disturbed /\ Uncertain /\ UNCHANGED <<quitting, intent>>
  /\ Rest /\ Backend

-----------------------------------------------------------------------------
(* The backend on its own.                                                 *)

\* The token expires, or the channel's end is noticed.
BackendReleases ==
  /\ backend = "prepared" /\ backend' = "open"
  /\ UNCHANGED <<launchVars, channel>>

\* A new server starts with an open authority and a fresh channel; the state
\* of one that is gone is forgotten.
NewServer == backend' = "open" /\ channel' = TRUE

-----------------------------------------------------------------------------
Startup ==
  \/ Launch \/ CheckStartup \/ LoadJournal \/ Recovered
  \/ Preflight \/ InstallerReturns \/ InstallRecorded
  \/ Execute \/ Healthy \/ Finished \/ PortTaken

Continuations ==
  \/ Startup /\ Backend
  \/ Serve /\ NewServer
  \/ ServerStops /\ NewServer
  \/ QuitCompletes /\ NewServer
  \/ RestartExits /\ NewServer
  \/ Reaped /\ Backend
  \/ OrphanExits /\ Backend

Owner == Fence \/ Show \/ Prepare \/ Elect \/ Commit \/ Abort \/ Stop \/ SaveIntent

Faults ==
  \/ OperationFails /\ Backend
  \/ ServerDies /\ NewServer
  \/ RestartDeferred /\ Backend
  \/ ShellDies /\ NewServer
  \/ MachineStops /\ NewServer

Next ==
  \/ Continuations
  \/ Begins \/ Prepared \/ DraftEnds \/ RequestCancel
  \/ Owner \/ BackendReleases
  \/ Quit /\ Backend
  \/ Faults

\* What the program, the operating system and a patient user keep doing: every
\* step of a thread that can go on, the exit of a signalled server, of an
\* orphan and of a dead shell, and a user who leaves a recovery screen and
\* starts the app again.
Fairness ==
  /\ WF_vars(Startup /\ Backend)
  /\ WF_vars(Serve /\ NewServer)
  /\ WF_vars(ServerStops /\ NewServer)
  /\ WF_vars(QuitCompletes /\ NewServer)
  /\ WF_vars(RestartExits /\ NewServer)
  /\ WF_vars(Reaped /\ Backend)
  /\ WF_vars(OrphanExits /\ Backend)
  /\ WF_vars(Owner)
  /\ WF_vars(DraftEnds)
  /\ WF_vars(Quit /\ gate = "recovery" /\ Backend)

Spec == Init /\ [][Next]_vars /\ Fairness
=============================================================================
