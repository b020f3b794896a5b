----------------------- MODULE ManualRestartProperties -----------------------
EXTENDS ManualRestart

(***************************************************************************)
(* Every start without a proof is earned: while the launch gate is open    *)
(* the running shell is the whole bundle on disk, and unless that bundle   *)
(* was put there by hand a committed receipt for exactly its version is    *)
(* certain to survive the machine stopping.  Whatever file operation the   *)
(* shell or the machine stopped at, check never mistakes an installation   *)
(* that no healthy server has proven for an ordinary one (updater_attempt  *)
(* .rs: "canonical absence is not admission").                             *)
(***************************************************************************)
AdmissionIsEarned ==
  (version # 0 /\ gate \in {"normal", "manual"}) =>
    /\ app = version
    /\ version = 1 \/ /\ IsCommitted(safe["completed"])
                      /\ safe["completed"].target = version

\* The installer works on a bundle nobody runs: no server of this shell, none
\* left behind by an earlier one, and nothing still starting.
InstallerIsAlone == Replacing => server = "none" /\ quitting = "no"

\* "restartAborted" is told to a page that goes on working: its backend has
\* not committed (a committed one never opens again), its server is not being
\* stopped by the restart, and its screen is not the restart's.
AbortIsTrue ==
  manual.phase = "aborted" =>
    /\ server = "self" => backend # "committed"
    /\ quitting # "fenced"
    /\ gate # "manual"

\* The hand-over from a working desktop to the installer, and back.
HandoverIsSafe == InstallerIsAlone /\ AbortIsTrue

\* What the code leaves to a person: a bundle that is not whole, a record that
\* is torn, an installation cut off before its outcome was recorded.  Each is
\* there for a moment in an update that goes well: it blocks when it lasts.
CutOff == fs["attempt"].kind = "attempt" /\ fs["attempt"].phase = "installing"

BlocksForGood ==
  \/ <>[](app = 0)
  \/ \E n \in Name : <>[](fs[n] = Torn)
  \/ <>[]CutOff

Working == version # 0 /\ gate = "normal" /\ server = "self" /\ ready

(***************************************************************************)
(* The journal never locks out an update that worked.  Once disturbances   *)
(* stop, a user who leaves the recovery screens and starts the app again   *)
(* reaches a working desktop, from every mixture of blocker, pending,      *)
(* committed and staged receipts that an interrupted finish can leave.     *)
(* Otherwise one and the same damage has come to stay: a lock-out that     *)
(* passes through damaged states, writing the journal anew at every start, *)
(* is not excused by them.                                                 *)
(***************************************************************************)
UpdateRecovers == []<>Working \/ BlocksForGood
=============================================================================
