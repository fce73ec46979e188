-------------------------------- MODULE Once --------------------------------
(***************************************************************************)
(* common/once.ts: a Once, and the Lazy value that is computed with it.    *)
(*                                                                         *)
(* JavaScript runs one callback at a time.  What may come between two      *)
(* callbacks of a Once is a call of Do by someone else.                    *)
(***************************************************************************)
CONSTANT Callers  \* bound: the calls there can be, of this and of others

VARIABLES
  state,    \* Once.#state
  reason,   \* Once.#rejectReason
  waiters,  \* Once.#waiters
  cleanup,  \* the finally callback is due
  outcome   \* of each call: "none", "pending", "ok", or the error it throws

onceVars == <<state, reason, waiters, cleanup>>

OnceInit ==
  /\ state = "Init"
  /\ reason = "none"
  /\ waiters = {}
  /\ cleanup = FALSE

\* This call of Do calls func.
Runs == state \in {"Init", "Rejected"}

\* Mutant: it is not looked at whether func has been fulfilled.
EnterAlways(cs) ==
  /\ state' = "Pending" /\ waiters' = waiters \cup cs
  /\ UNCHANGED <<reason, cleanup>>

\* The calls in cs wait for func, unless it has been fulfilled.
Enter(cs) ==
  /\ IF state = "Fulfilled" THEN UNCHANGED <<state, waiters>>
     ELSE state' = "Pending" /\ waiters' = waiters \cup cs
  /\ UNCHANGED <<reason, cleanup>>

\* A rejected Once rejects, and goes on as one that has never run.
Do(c) ==
  /\ outcome' = [outcome EXCEPT ![c] = CASE state = "Fulfilled" -> "ok"
                                         [] state = "Rejected" -> reason
                                         [] OTHER -> "pending"]
  /\ Enter({c})

Settle(s, answer) ==
  /\ state = "Pending" /\ ~cleanup
  /\ state' = s
  /\ outcome' = [c \in Callers |->
                   IF c \in waiters /\ outcome[c] = "pending" THEN answer ELSE outcome[c]]
  /\ cleanup' = TRUE
  /\ UNCHANGED waiters

\* func's promise is fulfilled, or rejected.
Fulfil == Settle("Fulfilled", "ok") /\ UNCHANGED reason
Reject(err) == Settle("Rejected", err) /\ reason' = err

\* It empties the list of waiters, whoever has joined it since.
Finally ==
  /\ cleanup
  /\ cleanup' = FALSE
  /\ waiters' = {}
  /\ UNCHANGED <<state, reason, outcome>>

=============================================================================
