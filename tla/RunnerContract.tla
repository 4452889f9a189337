--------------------------- MODULE RunnerContract ---------------------------
(***************************************************************************)
(* What Turn takes for granted of a runner: the CLI runs from the opening  *)
(* of the runner on, and a runner that closes undisturbed is closed after  *)
(* the CLI has exited.  Only a cancellation that lands in the cleanup (a   *)
(* cut) closes the runner earlier, and so does, with a runner that         *)
(* detaches, one that finds it at a yield.  The places are those of Turn's *)
(* `main`; "running" stands for "running" and "recording".                 *)
(***************************************************************************)
VARIABLES
  detaches,\* a cancel at its yield may leave the CLI running: claude with a session id
  place,   \* "opening", "running", "closing", "closed"
  cli,     \* "none", "running", "exited"
  cut      \* the cleanup was interrupted

contractVars == <<detaches, place, cli, cut>>

ContractInit == detaches \in BOOLEAN /\ place = "opening" /\ cli = "none" /\ cut = FALSE

Spawn ==
  /\ place = "opening"
  /\ place' = "running" /\ cli' = "running"
  /\ UNCHANGED <<detaches, cut>>

OpeningFails ==
  /\ place = "opening"
  /\ place' = "closed"
  /\ UNCHANGED <<detaches, cli, cut>>

Exits ==
  /\ cli = "running"
  /\ cli' = "exited"
  /\ UNCHANGED <<detaches, place, cut>>

\* The event stream is over; a cleanup with nothing to wait for is over with it.
Ends ==
  /\ place = "running"
  /\ \/ place' = "closing" /\ cli' \in {cli, "exited"}
     \/ place' = "closed" /\ cli' = "exited"
  /\ UNCHANGED <<detaches, cut>>

Closes ==
  /\ place = "closing"
  /\ place' = "closed" /\ cli' = "exited"
  /\ UNCHANGED <<detaches, cut>>

\* Some of the cleanup may still be done, without the CLI.
IsCut ==
  /\ place = "closing"
  /\ place' \in {"closing", "closed"} /\ cut' = TRUE
  /\ UNCHANGED <<detaches, cli>>

Detach ==
  /\ detaches
  /\ place = "running"
  /\ place' \in {"closing", "closed"} /\ cut' = TRUE
  /\ UNCHANGED <<detaches, cli>>

ContractNext == Spawn \/ OpeningFails \/ Exits \/ Ends \/ Closes \/ IsCut \/ Detach

ContractSpec == ContractInit /\ [][ContractNext]_contractVars
=============================================================================
