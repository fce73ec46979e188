---------------------------- MODULE MCRestSession ----------------------------
(***************************************************************************)
(* RestSession for TLC.  Which goroutine serves a request makes no         *)
(* difference, so the requests are interchangeable.                        *)
(***************************************************************************)
EXTENDS RestSession, TLC

Interchangeable == Permutations(Requests)

\* The same for liveness, where symmetry is of no use to TLC: requests that are
\* numbers arrive in that order.  No arrival is fair, so this only leaves out
\* behaviours that differ from others in the numbers of their requests.
InOrder ==
  \A r \in Requests, q \in Requests :
    q < r /\ kind'[r] # "none" => kind'[q] # "none"

OrderedSpec == Init /\ [][Next /\ InOrder]_vars /\ ServerFairness

==============================================================================
