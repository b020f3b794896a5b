-------------------------- MODULE MCDesktopRestart --------------------------
(* Bounds for TLC.  A behaviour stays in one of two corners: two attempts  *)
(* of two controllers while only the worker has work, for a cleanup that   *)
(* could overtake the next attempt; or one attempt against two owners, the *)
(* worker and one other, for reads of different moments.                   *)
EXTENDS DesktopRestartProperties, TLC

VARIABLE corner

Fencing ==
  /\ \A o \in Owners \ {Worker} :
       gen'[o] = 0 /\ \A a \in Attempts : auth'.att[a].seen[o] # "blocked"
  /\ guests' > guests => auth'.revision <= 2
  /\ busy' # busy => gen'[Worker] <= 1

Proving ==
  /\ auth'.sequence <= 1
  /\ Cardinality(auth'.lost \cup {auth'.att[a].epoch : a \in 1..auth'.sequence}) <= 1

CornerInit ==
  /\ Init
  /\ corner \in {"fencing", "proving"}
  /\ corner = "fencing" => \A o \in Owners \ {Worker} : ~busy[o]

CornerSpec ==
  /\ CornerInit
  /\ [][/\ Next
        /\ IF corner = "fencing" THEN Fencing ELSE Proving
        /\ UNCHANGED corner]_<<vars, corner>>

Symmetry == Permutations(Epochs)
=============================================================================
