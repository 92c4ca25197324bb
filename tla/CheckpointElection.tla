--------------------------- MODULE CheckpointElection ---------------------------
(***************************************************************************)
(* What the checkpoint election of spec 4.3 promises, with the workers'    *)
(* loops abstracted away.  A worker may be elected while nobody is; the    *)
(* elected worker's checkpoint is requested once and finishes once; a      *)
(* worker may end its session at any time except while the checkpoint is  *)
(* in flight, and the elected worker only after its checkpoint finished.   *)
(* Whether the others wait for the checkpoint to be requested is not       *)
(* promised: checkWorker does not make them (see NoExitWhileInFlight).     *)
(***************************************************************************)
CONSTANT Workers

VARIABLES
  elected,  \* the workers that won the election
  ckpt,     \* "none", "requested" or "done"
  exited    \* the workers whose session has ended

absVars == <<elected, ckpt, exited>>

AbsInit ==
  /\ elected = {}
  /\ ckpt = "none"
  /\ exited = {}

(* One worker is elected while nobody is.                                  *)
Elect(w) ==
  /\ elected = {}
  /\ w \notin exited
  /\ elected' = {w}
  /\ UNCHANGED <<ckpt, exited>>

(* The elected worker, still running, requests the one checkpoint.         *)
Request ==
  /\ elected # {}
  /\ \A w \in elected : w \notin exited
  /\ ckpt = "none"
  /\ ckpt' = "requested"
  /\ UNCHANGED <<elected, exited>>

(* The engine finishes the requested checkpoint.                           *)
Complete ==
  /\ ckpt = "requested"
  /\ ckpt' = "done"
  /\ UNCHANGED <<elected, exited>>

(* A worker ends its session, never while the checkpoint is in flight,     *)
(* and the elected one only after its checkpoint has finished.             *)
Exit(w) ==
  /\ w \notin exited
  /\ ckpt # "requested"
  /\ w \in elected => ckpt = "done"
  /\ exited' = exited \cup {w}
  /\ UNCHANGED <<elected, ckpt>>

AbsNext ==
  \/ \E w \in Workers : Elect(w) \/ Exit(w)
  \/ Request
  \/ Complete

AbsSpec == AbsInit /\ [][AbsNext]_absVars

=============================================================================
