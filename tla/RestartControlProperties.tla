----------------------- MODULE RestartControlProperties -----------------------
(* What the shell may rely on when it talks to the restart authority.      *)
EXTENDS RestartControl

(***************************************************************************)
(* Nobody else holds the door: an attempt that keeps admission closed and  *)
(* may still be given up is the active attempt of a bound channel, so that *)
(* a cancel or the channel's end reaches it; and an active attempt without *)
(* a handler holds a token, so that the next command forgets it once the   *)
(* authority did, instead of refusing every later draft as in progress.    *)
(***************************************************************************)
AttemptIsReachable ==
  /\ State \in {"preparing", "prepared"} =>
       Bound /\ active = auth.att[auth.current].epoch
  /\ active # NULL /\ command = NoCommand => token # 0

(***************************************************************************)
(* A restart is committed only for a shell that is connected and waits for *)
(* the answer of its Commit, about the drafts it sealed for that attempt:  *)
(* a commit whose snapshot is still being read does not succeed after a    *)
(* cancel, an expiry or the end of the channel withdrew it.                *)
(***************************************************************************)
CommitIsAwaited ==
  \A a \in Attempts :
    auth.att[a].phase # "committed" /\ auth'.att[a].phase = "committed" =>
      /\ Bound /\ active = auth.att[a].epoch
      /\ command.awaits = "commit" /\ command.attempt = a

(* What the shell may rely on after every step of a handler, the authority *)
(* or the channel.                                                         *)
ControlIsHeld == [][AttemptIsReachable' /\ CommitIsAwaited]_all

(***************************************************************************)
(* No attempt fences the server for ever, whoever hangs: it is committed,  *)
(* or admission is open again and the worker's fence was released or its   *)
(* failure latched; and no command leaves the shell without an answer or   *)
(* the end of the channel, even if the browser's status never comes.       *)
(***************************************************************************)
EveryAttemptSettles ==
  /\ \A a \in Attempts :
       auth.att[a].phase \in {"preparing", "prepared"} ~>
         \/ auth.att[a].phase = "committed"
         \/ auth.att[a].phase = "reopened" /\ auth.att[a].cleanup = "done"
  /\ (command # NoCommand) ~> (command = NoCommand \/ channel = "closed")
=============================================================================
