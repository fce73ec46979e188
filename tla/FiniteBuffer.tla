---------------------------- MODULE FiniteBuffer ----------------------------
(***************************************************************************)
(* internal/finbuf: the buffer that keeps the last lines of the output of  *)
(* a REST process.  The n-th line that is written is the number n.         *)
(*                                                                         *)
(* Text goes through a LineBuffer first: what was written after the last   *)
(* newline is in no buffer, and no line of its own until it is completed.  *)
(***************************************************************************)
EXTENDS Naturals, Sequences

CONSTANT MaxLines  \* FiniteBuffer.MaxLines

\* SessionOpts.SetDefaults makes MaxLines at least minMaxLines (1000).
ASSUME MaxLinesAssumption == MaxLines \in Nat \ {0}

\* Mutant: nothing is dropped from a full buffer.
AddAll(buffer, line) == Append(buffer, line)

\* Mutant: the newest line is dropped from a full buffer.
AddKeepingOldest(buffer, line) ==
  IF Len(buffer) < MaxLines THEN Append(buffer, line) ELSE buffer

\* FiniteBuffer.line: the oldest line is dropped from a full buffer.
Add(buffer, line) ==
  IF Len(buffer) < MaxLines THEN Append(buffer, line) ELSE Append(Tail(buffer), line)

-----------------------------------------------------------------------------
(* What should be in the buffer when n lines were written. *)

Kept(n) == IF n < MaxLines THEN n ELSE MaxLines

LastLines(n) == [i \in 1 .. Kept(n) |-> n - Kept(n) + i]

=============================================================================
