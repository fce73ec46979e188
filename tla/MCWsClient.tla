----------------------------- MODULE MCWsClient -----------------------------
(***************************************************************************)
(* WsClient for TLC.  Which caller makes a call makes no difference, so    *)
(* the callers make their calls in the order of a sequence.  No call is    *)
(* fair, so this only leaves out behaviours that differ from others in     *)
(* the names of their callers.                                             *)
(***************************************************************************)
EXTENDS WsClient

CONSTANTS c1, c2, c3

Order == <<c1, c2, c3>>

InOrder ==
  \A k \in {1, 2} : call'[Order[k + 1]] # "none" => call'[Order[k]] # "none"

OrderedSpec ==
  /\ Init /\ [][Next /\ InOrder]_vars
  /\ WF_vars(Callbacks)
  /\ WF_vars(socket = "connecting" /\ Opening)

=============================================================================
