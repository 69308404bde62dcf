---------------------------- MODULE ScanContract ----------------------------
(***************************************************************************)
(* What scan_with_progress promises its caller: it returns once, with the  *)
(* streams the sequential scan finds and the settings of all of them when  *)
(* they were asked for, or with Cancelled after cancel() was called, or at *)
(* once with Unavailable when a format is missing.  It never returns a     *)
(* part of the result.                                                     *)
(***************************************************************************)
EXTENDS ScanOracle

VARIABLES
  data,       (* the input and the options                                 *)
  cancelled,  (* cancel() was called                                       *)
  outcome,    (* "None" until it returns                                   *)
  result      (* the streams returned, and those with settings searched    *)

contractVars == <<data, cancelled, outcome, result>>

Empty == [found |-> {}, matched |-> {}]

ContractInit ==
  /\ data \in Inputs
  /\ cancelled = FALSE
  /\ outcome = "None"
  /\ result = Empty

RequestCancel ==
  /\ ~ cancelled
  /\ cancelled' = TRUE
  /\ UNCHANGED <<data, outcome, result>>

ReturnUnavailable ==
  /\ outcome = "None"
  /\ ~ data.available
  /\ outcome' = "Unavailable"
  /\ UNCHANGED <<data, cancelled, result>>

ReturnCancelled ==
  /\ outcome = "None"
  /\ data.available
  /\ cancelled
  /\ outcome' = "Cancelled"
  /\ UNCHANGED <<data, cancelled, result>>

ReturnOk ==
  /\ outcome = "None"
  /\ data.available
  /\ ~ cancelled
  /\ outcome' = "Ok"
  /\ LET found == ScanSequential(data)
     IN  result' = [found |-> found, matched |-> IF data.matchParams THEN found ELSE {}]
  /\ UNCHANGED <<data, cancelled>>

ContractNext == RequestCancel \/ ReturnUnavailable \/ ReturnCancelled \/ ReturnOk

(* What may happen, and that something does.                                *)
ContractSafety == ContractInit /\ [][ContractNext]_contractVars

ContractSpec ==
  /\ ContractSafety
  /\ WF_contractVars(ReturnUnavailable \/ ReturnCancelled \/ ReturnOk)
=============================================================================
