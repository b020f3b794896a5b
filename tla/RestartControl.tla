---------------------------- MODULE RestartControl ----------------------------
(***************************************************************************)
(* The Node end of the restart channel: DesktopRestartChannel carries one  *)
(* command of the native shell at a time, DesktopRestartBackend binds it   *)
(* to an attempt of the restart authority, and is itself the owner         *)
(* "ui-drafts" of the idle proof: the shell's claim that the page is       *)
(* sealed.  Composed with DesktopRestartAuthority, whose epochs are the    *)
(* draft epochs of this channel (the code hashes them with the channel's   *)
(* own epoch, of which a server sees one).                                 *)
(*                                                                         *)
(* A handler survives its channel: what a command awaits still comes back. *)
(***************************************************************************)
EXTENDS DesktopRestartAuthority

CONSTANT Drafts   \* the owner "ui-drafts"

ASSUME DraftsAssumption == Drafts \in Owners \ {Worker}
ASSUME EpochsAssumption == Epochs \subseteq Nat \ {0} /\ NULL \notin Nat

VARIABLES
  channel,  \* "attaching", "ready" or "closed"
  active,   \* the draft epoch of the active attempt, or NULL
  token,    \* the attempt whose token it holds, or 0
  latest,   \* latestDraftEpoch
  command   \* the handler under way: what it awaits, and for which draft

control == <<channel, active, token, latest, command>>
all     == <<vars, control>>

NoCommand == [awaits |-> "nothing", draft |-> NULL, attempt |-> 0]
Awaiting(what, e, a) == [awaits |-> what, draft |-> e, attempt |-> a]

Bound == channel = "ready"

-----------------------------------------------------------------------------
(* What the entry points have in common.                                   *)

\* The getter `state` expires a lapsed token first; Expire is that step.
Fresh == Expired(auth) = auth
State == IF auth.current = 0 THEN "open" ELSE auth.att[auth.current].phase

\* draftReader: the owner of sealed drafts has work while no bound channel
\* holds an active attempt, and every change of either is a new generation.
DraftsFollow ==
  LET sealed == channel' = "ready" /\ active' # NULL
      moved  == (channel' = "ready") # Bound \/ active' # active
  IN /\ busy' = [busy EXCEPT ![Drafts] = ~sealed]
     /\ gen' = IF moved THEN [gen EXCEPT ![Drafts] = @ + 1] ELSE gen

Holds(e, a) == active' = e /\ token' = a
Cleared     == Holds(NULL, 0)                       \* clear

\* authority.controllerLost
Lost(st, e) ==
  IF State = "committed" THEN st
  ELSE LET lost == [st EXCEPT !.lost = @ \cup {e}]
       IN IF st.current # 0 /\ st.att[st.current].epoch = e
          THEN Reopened(lost, st.current) ELSE lost

\* refresh: the token of an attempt that is gone is forgotten first.
Forgotten == token # 0 /\ State = "open"
Present   == IF Forgotten THEN NULL ELSE active

\* The channel takes a frame when no other is unanswered; a second one closes
\* it (Close).
Frame == Bound /\ command = NoCommand /\ Fresh

-----------------------------------------------------------------------------
Bind ==
  /\ channel = "attaching" /\ channel' = "ready"
  /\ UNCHANGED <<auth, guests, fence, active, token, latest, command>>
  /\ DraftsFollow

\* Commands that are answered at once: status, and every refusal.
Answer ==
  /\ Frame
  /\ Forgotten /\ Cleared
  /\ UNCHANGED <<auth, guests, fence, channel, latest, command>>
  /\ DraftsFollow

\* prepare: a new draft becomes the active attempt before anything is awaited.
PrepareCommand(e) ==
  /\ Frame
  /\ State # "committed"
  /\ Present = NULL
  /\ e > latest
  /\ latest' = e
  /\ Holds(e, 0)
  /\ command' = Awaiting("refresh", e, 0)
  /\ UNCHANGED <<auth, guests, fence, channel>>
  /\ DraftsFollow

\* The command's attempt is still the one the shell means.
Current(e) == active = e /\ Bound

CommandOver == command' = NoCommand

\* An authority that refuses, or whose attempt ended, is told all the same.
GiveUp(e) ==
  /\ auth' = Lost(auth, e)
  /\ Cleared
  /\ CommandOver

\* prepareAfterBrowserRefresh up to authority.prepare: the browser's status
\* failed or took too long, or the attempt is gone, or the authority is asked.
RefreshReturns ==
  LET e == command.draft
      a == auth.sequence + 1
  IN
  /\ command.awaits = "refresh" /\ Fresh
  /\ UNCHANGED <<guests, fence, channel, latest>>
  /\ \/ /\ IF active = e THEN Cleared ELSE UNCHANGED <<active, token>>
        /\ CommandOver /\ UNCHANGED auth /\ DraftsFollow
     \/ /\ ~Current(e)
        /\ CommandOver /\ UNCHANGED <<auth, active, token, busy, gen>>
     \/ /\ Current(e) /\ Prepare(e)
        /\ command' = Awaiting("prepare", e, a) /\ UNCHANGED <<active, token>>
     \/ /\ Current(e) /\ (auth.current # 0 \/ auth.ingress # 0)
        /\ GiveUp(e) /\ DraftsFollow

\* The continuation of authority.prepare.  A token that lapsed on the way is
\* no success.
PrepareAnswered ==
  LET e  == command.draft
      my == auth.att[command.attempt]
  IN
  /\ command.awaits = "prepare" /\ Fresh
  /\ my.phase # "preparing"
  /\ UNCHANGED <<guests, fence, channel, latest>>
  /\ \/ /\ ~Current(e)
        /\ CommandOver /\ UNCHANGED <<auth, active, token>>
     \/ /\ Current(e) /\ my.phase = "prepared"
        /\ Holds(e, command.attempt)
        /\ CommandOver /\ UNCHANGED auth
     \/ /\ Current(e) /\ my.phase # "prepared"
        /\ GiveUp(e)
  /\ DraftsFollow

\* commit with the token of the active attempt; its snapshot begins.
CommitCommand ==
  /\ Frame /\ token # 0 /\ ~Forgotten
  /\ Commit(token, active)
  /\ command' = Awaiting("commit", active, token)
  /\ UNCHANGED <<channel, active, token, latest>>

CommitAnswered ==
  LET my == auth.att[command.attempt] IN
  /\ command.awaits = "commit" /\ Fresh
  /\ my.answer # "none"
  /\ CommandOver
  /\ IF my.answer = "failed" /\ active = command.draft
     THEN Cleared ELSE UNCHANGED <<active, token>>
  /\ UNCHANGED <<auth, guests, fence, channel, latest>>
  /\ DraftsFollow

\* cancel of the active attempt, in whatever state it is.
CancelCommand ==
  /\ Frame
  /\ State # "committed" /\ Present # NULL
  /\ auth' = Lost(auth, active)
  /\ Cleared
  /\ UNCHANGED <<guests, fence, channel, latest, command>>
  /\ DraftsFollow

Unnoticed == UNCHANGED <<auth, active, token>>   \* the authority is not told

\* disconnected: what is not committed is withdrawn.
Disconnected ==
  IF active # NULL /\ State # "committed"
  THEN auth' = Lost(auth, active) /\ Cleared
  ELSE UNCHANGED <<auth, active, token>>

\* close: the socket ended, a frame was malformed or out of turn, or the
\* watchdog of a command fired.
Close ==
  /\ channel # "closed" /\ channel' = "closed" /\ Fresh
  /\ Disconnected
  /\ UNCHANGED <<guests, fence, latest, command>>
  /\ DraftsFollow

-----------------------------------------------------------------------------
ControlInit ==
  /\ Init /\ busy[Drafts]
  /\ channel = "attaching" /\ active = NULL /\ token = 0 /\ latest = 0
  /\ command = NoCommand

Commands ==
  \/ Answer \/ CommitCommand \/ CancelCommand
  \/ \E e \in Epochs : PrepareCommand(e)

Answers == RefreshReturns \/ PrepareAnswered \/ CommitAnswered

\* The authority with its owners and the callers of the server, but without a
\* controller of its own.
Authority ==
  /\ \/ Enter \/ EnterCompletion \/ Leave \/ Expire
     \/ \E a \in Attempts : Continuation(a) \/ DeadlinePasses(a) \/ TokenLapses(a)
     \/ \E o \in Owners \ {Drafts} : OwnerChanges(o)
  /\ UNCHANGED control

ControlNext == Bind \/ Commands \/ Answers \/ Close \/ Authority

\* Callbacks are delivered, the worker's requests have a timeout of a second,
\* and the clock runs; promises that settled continue their handlers, and the
\* watchdog ends the channel of a handler that hangs.  Nobody has to enter,
\* leave, or send a command, and the browser's status may never come.
ControlFairness ==
  /\ WF_all(Expire /\ UNCHANGED control)
  /\ \A a \in Attempts :
       /\ WF_all(Continuation(a) /\ UNCHANGED control)
       /\ WF_all(DeadlinePasses(a) /\ UNCHANGED control)
       /\ WF_all(TokenLapses(a) /\ UNCHANGED control)
  /\ WF_all(PrepareAnswered) /\ WF_all(CommitAnswered)
  /\ WF_all(Close /\ command # NoCommand)

ControlSpec == ControlInit /\ [][ControlNext]_all /\ ControlFairness
=============================================================================
