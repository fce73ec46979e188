-------------------------- MODULE RestSessionProofs --------------------------
(***************************************************************************)
(* Theorems about one process of the REST server (module RestSession), for *)
(* every number of requests of every kind, of writes, pieces and lines: its *)
(* safety properties, and that it implements PowProcess.                   *)
(***************************************************************************)
EXTENDS RestSession, TLAPS

-----------------------------------------------------------------------------
(* The inductive invariant. *)

\* The stage of the session follows run, and the result is what run returned.
StageInv ==
  /\ stage = "init" <=> run = "off"
  /\ stage = "finished" <=> run \in {"closeDone", "done"}
  /\ returned = "none" <=> run \in {"off", "get", "do"}
  /\ stage = "finished" => result = returned

\* A handler is at a step of its own kind.
PlaceInv ==
  \A r \in Requests :
    /\ at[r] = "idle" => kind[r] = "none"
    /\ at[r] = "status" => kind[r] = "status"
    /\ at[r] \in {"copy", "turn", "piping"} => kind[r] = "input"
    /\ at[r] \in {"closeWriter", "closeReader"} =>
         kind[r] \in Closers \cup {"closeInput"}
    /\ at[r] \in {"cancel", "wait"} => kind[r] \in Closers

\* Only a write that is not complete waits for a reader.
MovedInv ==
  \A r \in Requests :
    /\ at[r] = "idle" => moved[r] = 0
    /\ at[r] \in {"turn", "piping"} => moved[r] < body[r] * Pieces

\* Before run ends the session, only a CloseWith has cancelled its context, and
\* it did so before it closed the pipe.
EndInv ==
  /\ cause # NoCause /\ run \in {"off", "get", "do", "closeInput", "cancel"} =>
       \E r \in Requests : kind[r] \in Closers /\ cause = CauseOf(kind[r])
  /\ PipeClosed /\ run \in {"off", "get", "do"} =>
       cause # NoCause \/ \E r \in Requests : kind[r] = "closeInput"
  /\ \A r \in Requests :
       kind[r] \in Closers /\ at[r] \in {"closeWriter", "closeReader"} =>
         cause # NoCause

\* What clients were told about the end of the process.
AnswerInv ==
  \A r \in Requests : at[r] = "answered" =>
    /\ kind[r] \in Closers => run = "done"
    /\ kind[r] = "status" /\ answer[r] # "pending" =>
         stage = "finished" /\ answer[r] = result /\ shown[r] = lines

\* The buffer holds the last lines of the output, and so did every status.
LinesInv ==
  /\ lines = LastLines(output)
  /\ \A r \in Requests : \E n \in 0 .. output : shown[r] = LastLines(n)

\* What the process has read is what the requests have moved, in order; and the
\* last write is under way if it is not complete, unless the pipe was closed.
ReadInv ==
  /\ \A k \in DOMAIN input :
       input[k][2] \in 1 .. moved[input[k][1]] /\ kind[input[k][1]] = "input"
  /\ \A r \in Requests : \A n \in 1 .. moved[r] :
       \E k \in DOMAIN input : input[k] = <<r, n>>
  /\ \A k \in DOMAIN input : \A l \in 1 .. (k - 1) :
       input[l][1] = input[k][1] => input[l][2] < input[k][2]

WriteInv ==
  /\ \A q, r \in Requests : at[q] = "piping" /\ at[r] = "piping" => q = r
  /\ \A k \in 1 .. (Len(input) - 1) :
       input[k][2] % Pieces # 0 => input[k + 1] = <<input[k][1], input[k][2] + 1>>
  /\ input # <<>> /\ input[Len(input)][2] % Pieces # 0 =>
       \/ PipeClosed
       \/ /\ at[input[Len(input)][1]] = "piping"
          /\ moved[input[Len(input)][1]] = input[Len(input)][2]

\* An input request that was answered 200 has moved all of its body.
CopiedInv ==
  \A r \in Requests : answer[r] = "200" =>
    /\ at[r] = "answered"
    /\ kind[r] = "input" => moved[r] = body[r] * Pieces

IInv ==
  /\ TypeOK /\ StageInv /\ PlaceInv /\ EndInv /\ AnswerInv
  /\ MovedInv /\ ReadInv /\ WriteInv /\ CopiedInv /\ LinesInv

-----------------------------------------------------------------------------
(* What each part of the session leaves alone. *)

\* run and the process change nothing of a request but what it has moved.
LEMMA RunKeepsRequests ==
  Start \/ Run => UNCHANGED <<requestVars, procVars, readerClosed>>
BY DEF Start, Run, Get, GetFails, RunCloseInput, RunCancel, RunFinish,
       RunCloseDone, RunStep

LEMMA ProcessKeepsSession ==
  Process => UNCHANGED <<sessionVars, cause, pipeVars, kind, body, answer, shown>>
BY DEF Process, ProcRead, ProcReadEnd, ProcWrite, ProcReturn, ProcStep,
       requestVars

\* A request does not touch the session, run and the process.
LEMMA HandleKeepsRun ==
  ASSUME NEW r \in Requests, Handle(r)
  PROVE  UNCHANGED <<sessionVars, runVars, procVars, kind, body, moved>>
BY DEF Handle, Serve, Send, Status, Write, WriteTurn, WriteFails, WriteRefused,
       BodyFails, Copied,
       CloseWith, CloseWriter, CloseReader, Waited, HandlerStep

LEMMA ArriveKeepsRest ==
  ASSUME NEW r \in Requests, NEW k \in Kinds, Arrive(r, k)
  PROVE  UNCHANGED <<sessionVars, cause, pipeVars, runVars, procVars, moved,
                     answer, shown>>
BY DEF Arrive

\* The cause of a closer is not one of the other causes.
LEMMA CausesOfClosers ==
  ASSUME NEW k \in Closers
  PROVE  CauseOf(k) \in {"ErrCancelClientRequest", "ErrCancelTimeout",
                         "errServerClose"}
BY DEF Closers, CauseOf

-----------------------------------------------------------------------------
(* The output. *)

\* Buffers with the same lines are the same.
LEMMA SameLines ==
  ASSUME NEW u \in Seq(Nat), NEW v \in Seq(Nat), Len(u) = Len(v),
         \A i \in 1 .. Len(u) : u[i] = v[i]
  PROVE  u = v
OBVIOUS

\* The buffer that holds the last of n lines holds the last of n + 1 when the
\* next one was added.
LEMMA LastLinesAreKept ==
  ASSUME NEW n \in Nat
  PROVE  /\ LastLines(n) \in Seq(1 .. n) /\ Len(LastLines(n)) = Kept(n)
         /\ Kept(n) \in 0 .. MaxLines
         /\ Add(LastLines(n), n + 1) = LastLines(n + 1)
<1> DEFINE s == LastLines(n)
           t == LastLines(n + 1)
<1>0. /\ MaxLines \in Nat /\ MaxLines > 0 /\ Kept(n) \in 0 .. MaxLines /\ Kept(n) <= n
      /\ Kept(n + 1) = IF n < MaxLines THEN n + 1 ELSE MaxLines
      /\ Kept(n) = IF n < MaxLines THEN n ELSE MaxLines
  BY MaxLinesAssumption DEF Kept
<1>1. /\ s = [i \in 1 .. Kept(n) |-> n - Kept(n) + i]
      /\ t = [i \in 1 .. Kept(n + 1) |-> (n + 1) - Kept(n + 1) + i]
  BY DEF LastLines
<1> HIDE DEF s, t
<1>2. s \in Seq(1 .. n) /\ Len(s) = Kept(n)
  <2>1. \A i \in 1 .. Kept(n) : n - Kept(n) + i \in 1 .. n
    BY <1>0
  <2>2. s \in [1 .. Kept(n) -> 1 .. n]
    BY <1>1, <2>1
  <2> QED BY <1>0, <2>2
<1>3. t \in Seq(Nat) /\ Len(t) = Kept(n + 1)
  <2>1. \A i \in 1 .. Kept(n + 1) : (n + 1) - Kept(n + 1) + i \in Nat
    BY <1>0
  <2>2. t \in [1 .. Kept(n + 1) -> Nat] /\ Kept(n + 1) \in Nat
    BY <1>0, <1>1, <2>1
  <2> QED BY <2>2
<1>4. CASE n < MaxLines
  <2>1. Add(s, n + 1) = Append(s, n + 1)
    BY <1>0, <1>2, <1>4 DEF Add
  <2>2. /\ Append(s, n + 1) \in Seq(Nat) /\ Len(Append(s, n + 1)) = n + 1
        /\ \A i \in 1 .. n : Append(s, n + 1)[i] = s[i]
        /\ Append(s, n + 1)[n + 1] = n + 1
    <3>1. s \in Seq(Nat) BY <1>2
    <3> QED BY <1>0, <1>2, <1>4, <3>1
  <2>3. \A i \in 1 .. (n + 1) : Append(s, n + 1)[i] = t[i]
    <3>1. \A i \in 1 .. n : s[i] = i /\ t[i] = i
      BY <1>0, <1>1, <1>4
    <3>2. t[n + 1] = n + 1
      BY <1>0, <1>1, <1>4
    <3> QED BY <2>2, <3>1, <3>2
  <2>4. Append(s, n + 1) = t
    BY <1>0, <1>3, <1>4, <2>2, <2>3, SameLines
  <2> QED BY <1>0, <1>2, <2>1, <2>4 DEF s, t
<1>5. CASE ~(n < MaxLines)
  <2> DEFINE M == MaxLines
  <2>0. Kept(n) = M /\ Kept(n + 1) = M /\ M \in Nat /\ M > 0 /\ M <= n
    BY <1>0, <1>5
  <2>1. Add(s, n + 1) = Append(Tail(s), n + 1)
    BY <1>2, <2>0 DEF Add
  <2>2. /\ Tail(s) \in Seq(Nat) /\ Len(Tail(s)) = M - 1
        /\ \A i \in 1 .. (M - 1) : Tail(s)[i] = s[i + 1]
    <3>1. s \in Seq(Nat) BY <1>2
    <3> QED BY <1>2, <2>0, <3>1
  <2>3. /\ Append(Tail(s), n + 1) \in Seq(Nat) /\ Len(Append(Tail(s), n + 1)) = M
        /\ \A i \in 1 .. (M - 1) : Append(Tail(s), n + 1)[i] = s[i + 1]
        /\ Append(Tail(s), n + 1)[M] = n + 1
    BY <2>0, <2>2
  <2>4. \A i \in 1 .. M : Append(Tail(s), n + 1)[i] = t[i]
    <3>1. \A i \in 1 .. (M - 1) : i + 1 \in 1 .. M /\ s[i + 1] = n - M + (i + 1)
      BY <1>1, <2>0
    <3>2. \A i \in 1 .. M : t[i] = (n + 1) - M + i
      BY <1>1, <2>0
    <3>3. \A i \in 1 .. (M - 1) : s[i + 1] = t[i]
      BY <2>0, <3>1, <3>2
    <3> QED BY <2>0, <2>3, <3>2, <3>3
  <2>5. Append(Tail(s), n + 1) = t
    BY ONLY <1>3, <2>0, <2>3, <2>4, SameLines
  <2> QED BY <1>0, <1>2, <2>1, <2>5 DEF s, t
<1> QED BY <1>4, <1>5

LEMMA LinesInvNext == IInv /\ Next => LinesInv'
<1> SUFFICES ASSUME IInv, Next PROVE LinesInv'
  OBVIOUS
<1>0. LinesInv /\ output \in Nat /\ shown \in [Requests -> Seq(1 .. MaxOutput)]
  BY ConstantsAssumption DEF IInv, TypeOK, SessionOK, RequestsOK
<1>1. CASE UNCHANGED <<output, lines, shown>>
  BY <1>0, <1>1 DEF LinesInv
<1>2. CASE Start \/ Run \/ Terminated
  BY <1>1, <1>2, RunKeepsRequests DEF requestVars, procVars, outVars, Terminated, vars
<1>3. CASE Process
  <2>1. CASE ProcWrite
    <3>1. output' = output + 1 /\ lines' = Add(lines, output') /\ UNCHANGED shown
      BY <2>1 DEF ProcWrite, requestVars
    <3>2. lines' = LastLines(output')
      BY <1>0, <3>1, LastLinesAreKept DEF LinesInv
    <3>3. \A n \in 0 .. output : n \in 0 .. output'
      BY <1>0, <3>1
    <3> QED BY <1>0, <3>1, <3>2, <3>3 DEF LinesInv
  <2>2. CASE (\E r \in Requests : ProcRead(r)) \/ ProcReadEnd \/ ProcReturn
    BY <1>1, <2>2 DEF ProcRead, ProcReadEnd, ProcReturn, procVars, outVars,
                      requestVars
  <2> QED BY <1>3, <2>1, <2>2 DEF Process
<1>4. ASSUME NEW r \in Requests, Handle(r) PROVE LinesInv'
  <2>1. UNCHANGED <<output, lines>>
    BY <1>4, HandleKeepsRun DEF procVars, outVars
  <2>2. UNCHANGED shown \/ shown' = [shown EXCEPT ![r] = lines]
    BY <1>4 DEF Handle, Serve, Send, Status, Write, WriteTurn, WriteFails,
                WriteRefused, BodyFails, Copied, CloseWith, CloseWriter,
                CloseReader, Waited, Answer
  <2>3. output \in 0 .. output
    BY <1>0
  <2> QED BY <1>0, <2>1, <2>2, <2>3 DEF LinesInv
<1>5. CASE \E r \in Requests, k \in Kinds : Arrive(r, k)
  BY <1>1, <1>5, ArriveKeepsRest DEF procVars, outVars
<1> QED BY <1>2, <1>3, <1>4, <1>5 DEF Next

-----------------------------------------------------------------------------
(* The stage. *)

LEMMA StageInvNext == IInv /\ Next => StageInv'
<1> SUFFICES ASSUME IInv, Next PROVE StageInv'
  OBVIOUS
<1>0. /\ StageInv
      /\ result \in (IF stage = "finished" THEN Results ELSE {"none"})
      /\ returned \in Results \cup {"none"}
  BY DEF IInv, TypeOK, SessionOK
<1>1. CASE Start
  BY <1>0, <1>1 DEF StageInv, Start, RunStep
<1>2. CASE Run
  <2>1. CASE Get \/ GetFails \/ RunCloseInput \/ RunCancel
    BY <1>0, <2>1 DEF StageInv, Get, GetFails, RunCloseInput, RunCancel,
                      RunStep, sessionVars
  <2>2. CASE RunFinish \/ RunCloseDone
    BY <1>0, <2>2 DEF StageInv, RunFinish, RunCloseDone, RunStep, sessionVars
  <2> QED BY <1>2, <2>1, <2>2 DEF Run
<1>3. CASE Process
  <2>1. CASE ProcReturn
    BY <1>0, <2>1 DEF StageInv, ProcReturn, ProcStep, Running, sessionVars
  <2>2. CASE (\E r \in Requests : ProcRead(r)) \/ ProcReadEnd \/ ProcWrite
    BY <1>0, <2>2 DEF StageInv, ProcRead, ProcReadEnd, ProcWrite, ProcStep,
                      sessionVars, runVars
  <2> QED BY <1>3, <2>1, <2>2 DEF Process
<1>4. CASE \E r \in Requests : Handle(r)
  BY <1>0, <1>4, HandleKeepsRun DEF StageInv, sessionVars, runVars
<1>5. CASE \E r \in Requests, k \in Kinds : Arrive(r, k)
  BY <1>0, <1>5, ArriveKeepsRest DEF StageInv, sessionVars, runVars
<1>6. CASE Terminated
  BY <1>0, <1>6 DEF StageInv, Terminated, vars, sessionVars, runVars
<1> QED BY <1>1, <1>2, <1>3, <1>4, <1>5, <1>6 DEF Next

-----------------------------------------------------------------------------
(* Where the handlers are. *)

LEMMA PlaceInvNext == IInv /\ Next => PlaceInv'
<1> SUFFICES ASSUME IInv, Next PROVE PlaceInv'
  OBVIOUS
<1>0. /\ PlaceInv
      /\ at \in [Requests -> {"idle", "status", "copy", "turn", "piping", "cancel",
                              "closeWriter", "closeReader", "wait", "answered"}]
      /\ kind \in [Requests -> Kinds \cup {"none"}]
  BY DEF IInv, TypeOK, RequestsOK
<1>1. CASE Start \/ Run \/ Terminated
  <2>1. UNCHANGED <<kind, at>>
    BY <1>1, RunKeepsRequests DEF requestVars, Terminated, vars
  <2> QED BY <1>0, <2>1 DEF PlaceInv
<1>2. CASE Process
  <2>1. UNCHANGED kind
    BY <1>2, ProcessKeepsSession
  <2>2. CASE ProcReadEnd \/ ProcWrite \/ ProcReturn
    BY <1>0, <2>2 DEF PlaceInv, ProcReadEnd, ProcWrite, ProcReturn, requestVars
  <2>3. ASSUME NEW r \in Requests, ProcRead(r) PROVE PlaceInv'
    <3>1. at[r] = "piping" /\ \E p \in {"copy", "piping"} : at' = [at EXCEPT ![r] = p]
      BY <1>0, <2>3 DEF ProcRead
    <3> QED BY <1>0, <2>1, <3>1 DEF PlaceInv
  <2> QED BY <1>2, <2>2, <2>3 DEF Process
<1>3. ASSUME NEW r \in Requests, Handle(r) PROVE PlaceInv'
  <2>1. UNCHANGED kind
    BY <1>3, HandleKeepsRun
  <2>2. CASE Status(r) \/ Write(r) \/ WriteTurn(r) \/ WriteFails(r) \/ WriteRefused(r)
    BY <1>0, <2>1, <2>2 DEF PlaceInv, Status, Write, WriteTurn, WriteFails,
                            WriteRefused,
                            HandlerStep
  <2>3. CASE BodyFails(r) \/ Copied(r) \/ CloseWith(r) \/ CloseWriter(r)
    BY <1>0, <2>1, <2>3 DEF PlaceInv, BodyFails, Copied, CloseWith,
                            CloseWriter, HandlerStep
  <2>4. CASE CloseReader(r) \/ Waited(r)
    BY <1>0, <2>1, <2>4 DEF PlaceInv, CloseReader, Waited, HandlerStep
  <2> QED BY <1>3, <2>2, <2>3, <2>4 DEF Handle, Serve, Send
<1>4. ASSUME NEW r \in Requests, NEW k \in Kinds, Arrive(r, k) PROVE PlaceInv'
  <2>1. k \in {"status", "input", "closeInput"} \cup Closers
    BY ConstantsAssumption
  <2>2. /\ kind' = [kind EXCEPT ![r] = k]
        /\ at' = [at EXCEPT ![r] = Entry(k)]
    BY <1>4 DEF Arrive
  <2> QED BY <1>0, <2>1, <2>2 DEF PlaceInv, Entry, Closers
<1> QED BY <1>1, <1>2, <1>3, <1>4 DEF Next

-----------------------------------------------------------------------------
(* Cancellation and the end of the input. *)

LEMMA EndInvNext == IInv /\ Next => EndInv'
<1> SUFFICES ASSUME IInv, Next PROVE EndInv'
  OBVIOUS
<1>0. EndInv /\ StageInv /\ PlaceInv
  BY DEF IInv
<1>T. /\ at \in [Requests -> {"idle", "status", "copy", "turn", "piping", "cancel",
                              "closeWriter", "closeReader", "wait", "answered"}]
      /\ kind \in [Requests -> Kinds \cup {"none"}]
  BY DEF IInv, TypeOK, RequestsOK
<1>1. CASE Start
  BY <1>0, <1>1 DEF EndInv, StageInv, Start, RunStep, PipeClosed, requestVars
<1>2. CASE Run
  <2>1. UNCHANGED <<kind, at, readerClosed>>
    BY <1>2, RunKeepsRequests DEF requestVars
  <2>2. CASE Get \/ GetFails \/ RunCloseInput
    <3>1. /\ UNCHANGED cause
          /\ run' = "cancel" \/ UNCHANGED writerClosed
          /\ run \in {"get", "closeInput"}
          /\ run \in {"off", "get", "do"} \/ run' \notin {"off", "get", "do"}
      BY <2>2 DEF Get, GetFails, RunCloseInput, RunStep
    <3> QED BY <1>0, <2>1, <3>1 DEF EndInv, PipeClosed
  <2>3. CASE RunCancel
    BY <1>0, <2>1, <2>3 DEF EndInv, RunCancel, RunStep, Cancel, NoCause
  <2>4. CASE RunFinish \/ RunCloseDone
    BY <1>0, <2>1, <2>4 DEF EndInv, RunFinish, RunCloseDone, RunStep
  <2> QED BY <1>2, <2>2, <2>3, <2>4 DEF Run
<1>3. CASE Process
  <2>1. UNCHANGED <<cause, writerClosed, readerClosed, kind>>
    BY <1>3, ProcessKeepsSession DEF pipeVars
  <2>2. CASE ProcReturn
    BY <1>0, <2>1, <2>2 DEF EndInv, ProcReturn, ProcStep, Running, requestVars
  <2>3. CASE ProcReadEnd \/ ProcWrite
    BY <1>0, <2>1, <2>3 DEF EndInv, ProcReadEnd, ProcWrite, requestVars,
                            runVars, PipeClosed
  <2>4. ASSUME NEW r \in Requests, ProcRead(r) PROVE EndInv'
    <3>1. /\ \E p \in {"copy", "piping"} : at' = [at EXCEPT ![r] = p]
          /\ run' = run
      BY <1>T, <2>4 DEF ProcRead, runVars
    <3> QED BY <1>0, <1>T, <2>1, <3>1 DEF EndInv, PipeClosed
  <2> QED BY <1>3, <2>2, <2>3, <2>4 DEF Process
<1>4. ASSUME NEW r \in Requests, Handle(r) PROVE EndInv'
  <2>1. UNCHANGED <<kind, run>>
    BY <1>4, HandleKeepsRun DEF runVars
  <2>2. CASE Status(r) \/ Write(r) \/ WriteTurn(r)
    BY <1>0, <1>T, <2>1, <2>2 DEF EndInv, Status, Write, WriteTurn,
                                  HandlerStep, PipeClosed, pipeVars
  <2>3. CASE WriteFails(r) \/ WriteRefused(r) \/ BodyFails(r) \/ Copied(r) \/ Waited(r)
    BY <1>0, <1>T, <2>1, <2>3 DEF EndInv, WriteFails, WriteRefused, BodyFails, Copied,
                                  Waited, HandlerStep, PipeClosed, pipeVars
  <2>4. CASE CloseWith(r)
    <3>1. kind[r] \in Closers
      BY <1>0, <2>4 DEF PlaceInv, CloseWith, HandlerStep
    <3>2. CauseOf(kind[r]) # NoCause
      BY <3>1, CausesOfClosers DEF NoCause
    <3>3. /\ at' = [at EXCEPT ![r] = "closeWriter"]
          /\ cause' = IF cause = NoCause THEN CauseOf(kind[r]) ELSE cause
          /\ UNCHANGED <<writerClosed, readerClosed>>
      BY <2>4 DEF CloseWith, HandlerStep, Cancel, pipeVars
    <3> QED BY <1>0, <1>T, <2>1, <3>1, <3>2, <3>3 DEF EndInv, PipeClosed
  <2>5. CASE CloseWriter(r) \/ CloseReader(r)
    <3>1. kind[r] \in Closers => cause # NoCause
      BY <1>0, <2>5 DEF EndInv, CloseWriter, CloseReader, HandlerStep
    <3>2. kind[r] \in Closers \cup {"closeInput"}
      BY <1>0, <2>5 DEF PlaceInv, CloseWriter, CloseReader, HandlerStep
    <3>3. /\ \E p \in {"closeReader", "wait", "answered"} : at' = [at EXCEPT ![r] = p]
          /\ UNCHANGED cause
      BY <2>5 DEF CloseWriter, CloseReader, HandlerStep
    <3> QED BY <1>0, <1>T, <2>1, <3>1, <3>2, <3>3 DEF EndInv
  <2> QED BY <1>4, <2>2, <2>3, <2>4, <2>5 DEF Handle, Serve, Send
<1>5. ASSUME NEW r \in Requests, NEW k \in Kinds, Arrive(r, k) PROVE EndInv'
  <2>1. kind[r] = "none"
    BY <1>0, <1>5 DEF PlaceInv, Arrive
  <2>2. UNCHANGED <<cause, writerClosed, readerClosed, run>>
    BY <1>5, ArriveKeepsRest DEF pipeVars, runVars
  <2>3. /\ kind' = [kind EXCEPT ![r] = k]
        /\ at' = [at EXCEPT ![r] = Entry(k)]
    BY <1>5 DEF Arrive
  <2>4. k \in Closers => Entry(k) = "cancel"
    BY DEF Entry, Closers
  <2>5. "none" \notin Closers
    BY DEF Closers
  <2> QED BY <1>0, <1>T, <2>1, <2>2, <2>3, <2>4, <2>5 DEF EndInv, PipeClosed
<1>6. CASE Terminated
  BY <1>0, <1>6 DEF EndInv, Terminated, vars, requestVars, runVars, pipeVars,
                    PipeClosed
<1> QED BY <1>1, <1>2, <1>3, <1>4, <1>5, <1>6 DEF Next

-----------------------------------------------------------------------------
(* Answers. *)

LEMMA AnswerInvNext == IInv /\ Next => AnswerInv'
<1> SUFFICES ASSUME IInv, Next PROVE AnswerInv'
  OBVIOUS
<1>0. AnswerInv /\ StageInv /\ PlaceInv
  BY DEF IInv
<1>T. /\ at \in [Requests -> {"idle", "status", "copy", "turn", "piping", "cancel",
                              "closeWriter", "closeReader", "wait", "answered"}]
      /\ kind \in [Requests -> Kinds \cup {"none"}]
      /\ answer \in [Requests -> {"none", "200", "500", "pending"} \cup Results]
      /\ shown \in [Requests -> Seq(1 .. MaxOutput)]
  BY DEF IInv, TypeOK, RequestsOK
<1>1. CASE Start \/ Run
  <2>1. UNCHANGED <<kind, at, answer, shown, lines>>
    BY <1>1, RunKeepsRequests DEF requestVars, procVars, outVars
  <2>2. run # "done"
    BY <1>0, <1>1 DEF StageInv, Start, Run, Get, GetFails, RunCloseInput, RunCancel,
                      RunFinish, RunCloseDone, RunStep
  <2>3. stage = "finished" => UNCHANGED <<stage, result>>
    BY <1>0, <1>1 DEF StageInv, Start, Run, Get, GetFails, RunCloseInput, RunCancel,
                      RunFinish, RunCloseDone, RunStep, sessionVars
  <2> QED BY <1>0, <2>1, <2>2, <2>3 DEF AnswerInv
<1>2. CASE Process
  <2>1. UNCHANGED <<stage, result, kind, answer, shown>>
    BY <1>2, ProcessKeepsSession DEF sessionVars
  <2>2. run = "do"
    BY <1>2 DEF Process, ProcRead, ProcReadEnd, ProcWrite, ProcReturn, ProcStep,
                Running
  <2>3. stage # "finished"
    BY <1>0, <2>2 DEF StageInv
  <2>4. CASE ProcReadEnd \/ ProcWrite \/ ProcReturn
    BY <1>0, <2>1, <2>2, <2>3, <2>4 DEF AnswerInv, ProcReadEnd, ProcWrite,
                                        ProcReturn, requestVars
  <2>5. ASSUME NEW r \in Requests, ProcRead(r) PROVE AnswerInv'
    <3>1. \E p \in {"copy", "piping"} : at' = [at EXCEPT ![r] = p]
      BY <1>T, <2>5 DEF ProcRead
    <3> QED BY <1>0, <1>T, <2>1, <2>2, <2>3, <3>1 DEF AnswerInv
  <2> QED BY <1>2, <2>4, <2>5 DEF Process
<1>3. ASSUME NEW r \in Requests, Handle(r) PROVE AnswerInv'
  <2>1. UNCHANGED <<stage, result, run, lines, kind>>
    BY <1>3, HandleKeepsRun DEF sessionVars, runVars, procVars, outVars
  <2>2. CASE Status(r)
    <3>1. /\ at[r] = "status"
          /\ at' = [at EXCEPT ![r] = "answered"]
          /\ answer' = [answer EXCEPT ![r] = IF stage = "finished" THEN result
                                                                  ELSE "pending"]
          /\ shown' = [shown EXCEPT ![r] = lines]
      BY <2>2 DEF Status, HandlerStep
    <3>2. kind[r] = "status"
      BY <1>0, <3>1 DEF PlaceInv
    <3>3. "status" \notin Closers
      BY DEF Closers
    <3> QED BY <1>0, <1>T, <2>1, <3>1, <3>2, <3>3 DEF AnswerInv
  <2>3. CASE Write(r) \/ WriteTurn(r) \/ CloseWith(r) \/ CloseWriter(r)
    <3>1. /\ \E p \in {"turn", "piping", "closeWriter", "closeReader"} :
               at' = [at EXCEPT ![r] = p]
          /\ UNCHANGED <<answer, shown>>
      BY <2>3 DEF Write, WriteTurn, CloseWith, CloseWriter, HandlerStep
    <3> QED BY <1>0, <1>T, <2>1, <3>1 DEF AnswerInv
  <2>4. CASE WriteFails(r) \/ WriteRefused(r) \/ BodyFails(r) \/ Copied(r)
    <3>1. /\ kind[r] = "input"
          /\ at' = [at EXCEPT ![r] = "answered"]
          /\ \E a \in {"200", "500"} : answer' = [answer EXCEPT ![r] = a]
          /\ UNCHANGED shown
      BY <1>0, <2>4 DEF PlaceInv, WriteFails, WriteRefused, BodyFails, Copied,
                        HandlerStep,
                        Answer
    <3>2. "input" \notin Closers
      BY DEF Closers
    <3> QED BY <1>0, <1>T, <2>1, <3>1, <3>2 DEF AnswerInv
  <2>5. CASE CloseReader(r)
    <3>1. CASE kind[r] = "closeInput"
      <4>1. /\ at' = [at EXCEPT ![r] = "answered"]
            /\ \E a \in {"200"} : answer' = [answer EXCEPT ![r] = a]
            /\ UNCHANGED shown
        BY <2>5, <3>1 DEF CloseReader, HandlerStep, Answer
      <4>2. "closeInput" \notin Closers
        BY DEF Closers
      <4> QED BY <1>0, <1>T, <2>1, <3>1, <4>1, <4>2 DEF AnswerInv
    <3>2. CASE kind[r] # "closeInput"
      <4>1. at' = [at EXCEPT ![r] = "wait"] /\ UNCHANGED <<answer, shown>>
        BY <2>5, <3>2 DEF CloseReader, HandlerStep
      <4> QED BY <1>0, <1>T, <2>1, <4>1 DEF AnswerInv
    <3> QED BY <3>1, <3>2
  <2>6. CASE Waited(r)
    <3>1. /\ kind[r] \in Closers /\ run = "done"
          /\ at' = [at EXCEPT ![r] = "answered"]
          /\ \E a \in {"200"} : answer' = [answer EXCEPT ![r] = a]
          /\ UNCHANGED shown
      BY <1>0, <2>6 DEF PlaceInv, Waited, HandlerStep, Answer, Done
    <3>2. "status" \notin Closers
      BY DEF Closers
    <3> QED BY <1>0, <1>T, <2>1, <3>1, <3>2 DEF AnswerInv
  <2> QED BY <1>3, <2>2, <2>3, <2>4, <2>5, <2>6 DEF Handle, Serve, Send
<1>4. ASSUME NEW r \in Requests, NEW k \in Kinds, Arrive(r, k) PROVE AnswerInv'
  <2>1. UNCHANGED <<stage, result, run, lines, answer, shown>>
    BY <1>4, ArriveKeepsRest DEF sessionVars, runVars, procVars, outVars
  <2>2. /\ kind' = [kind EXCEPT ![r] = k]
        /\ at' = [at EXCEPT ![r] = Entry(k)]
    BY <1>4 DEF Arrive
  <2>3. Entry(k) # "answered"
    BY DEF Entry
  <2> QED BY <1>0, <1>T, <2>1, <2>2, <2>3 DEF AnswerInv
<1>5. CASE Terminated
  BY <1>0, <1>5 DEF AnswerInv, Terminated, vars, requestVars, runVars, procVars,
                    outVars,
                    sessionVars
<1> QED BY <1>1, <1>2, <1>3, <1>4, <1>5 DEF Next

-----------------------------------------------------------------------------
(* What was moved. *)

\* A body is a whole number of writes: a write that is not complete is not the
\* end of it.
LEMMA WholeWrites ==
  ASSUME NEW b \in Nat, NEW m \in Nat, NEW P \in Nat \ {0},
         m < b * P, (m + 1) % P # 0
  PROVE  m + 1 < b * P
<1>1. b * P \in Nat
  OBVIOUS
<1>2. (b * P) % P = 0
  OBVIOUS
<1>3. m + 1 # b * P
  BY <1>2
<1> QED BY <1>1, <1>3

LEMMA MovedInvNext == IInv /\ Next => MovedInv'
<1> SUFFICES ASSUME IInv, Next PROVE MovedInv'
  OBVIOUS
<1>0. MovedInv
  BY DEF IInv
<1>T. /\ at \in [Requests -> {"idle", "status", "copy", "turn", "piping", "cancel",
                              "closeWriter", "closeReader", "wait", "answered"}]
      /\ body \in [Requests -> Nat]
      /\ moved \in [Requests -> Nat]
      /\ Pieces \in Nat \ {0}
  BY ConstantsAssumption DEF IInv, TypeOK, RequestsOK
<1>1. CASE Start \/ Run \/ Terminated
  <2>1. UNCHANGED <<at, body, moved>>
    BY <1>1, RunKeepsRequests DEF requestVars, Terminated, vars
  <2> QED BY <1>0, <2>1 DEF MovedInv
<1>2. CASE Process
  <2>1. UNCHANGED body
    BY <1>2, ProcessKeepsSession
  <2>2. CASE ProcReadEnd \/ ProcWrite \/ ProcReturn
    <3>1. UNCHANGED <<at, moved>>
      BY <2>2 DEF ProcReadEnd, ProcWrite, ProcReturn, requestVars
    <3> QED BY <1>0, <2>1, <3>1 DEF MovedInv
  <2>3. ASSUME NEW r \in Requests, ProcRead(r) PROVE MovedInv'
    <3>1. /\ at[r] = "piping"
          /\ moved' = [moved EXCEPT ![r] = @ + 1]
          /\ at' = [at EXCEPT ![r] = IF (moved[r] + 1) % Pieces = 0 THEN "copy"
                                                                   ELSE @]
      BY <2>3 DEF ProcRead
    <3>2. moved[r] \in Nat /\ body[r] \in Nat /\ moved[r] < body[r] * Pieces
      BY <1>0, <1>T, <3>1 DEF MovedInv
    <3>3. (moved[r] + 1) % Pieces # 0 => moved[r] + 1 < body[r] * Pieces
      BY <1>T, <3>2, WholeWrites
    <3>4. moved'[r] = moved[r] + 1
      BY <1>T, <3>1
    <3>5. at'[r] # "idle" /\ at'[r] # "turn"
      BY <1>T, <3>1
    <3>6. at'[r] = "piping" => (moved[r] + 1) % Pieces # 0
      BY <1>T, <3>1
    <3>7. \A q \in Requests \ {r} : at'[q] = at[q] /\ moved'[q] = moved[q]
      BY <1>T, <3>1
    <3>8. ASSUME NEW q \in Requests
          PROVE  /\ at'[q] = "idle" => moved'[q] = 0
                 /\ at'[q] \in {"turn", "piping"} => moved'[q] < body'[q] * Pieces
      <4>1. CASE q = r
        BY <2>1, <3>3, <3>4, <3>5, <3>6, <4>1
      <4>2. CASE q # r
        BY <1>0, <2>1, <3>7, <4>2 DEF MovedInv
      <4> QED BY <4>1, <4>2
    <3> QED BY <3>8 DEF MovedInv
  <2> QED BY <1>2, <2>2, <2>3 DEF Process
<1>3. ASSUME NEW r \in Requests, Handle(r) PROVE MovedInv'
  <2>1. UNCHANGED <<body, moved>>
    BY <1>3, HandleKeepsRun
  <2>2. CASE Write(r)
    <3>1. /\ moved[r] < body[r] * Pieces
          /\ at' = [at EXCEPT ![r] = "turn"]
      BY <2>2 DEF Write, MoreBody, HandlerStep
    <3> QED BY <1>0, <1>T, <2>1, <3>1 DEF MovedInv
  <2>3. CASE WriteTurn(r)
    <3>1. at[r] = "turn" /\ at' = [at EXCEPT ![r] = "piping"]
      BY <2>3 DEF WriteTurn, HandlerStep
    <3> QED BY <1>0, <1>T, <2>1, <3>1 DEF MovedInv
  <2>4. CASE Status(r) \/ WriteFails(r) \/ WriteRefused(r) \/ BodyFails(r) \/ Copied(r) \/ CloseWith(r)
    <3>1. \E p \in {"answered", "closeWriter"} : at' = [at EXCEPT ![r] = p]
      BY <2>4 DEF Status, WriteFails, WriteRefused, BodyFails, Copied, CloseWith,
                  HandlerStep
    <3> QED BY <1>0, <1>T, <2>1, <3>1 DEF MovedInv
  <2>5. CASE CloseWriter(r) \/ CloseReader(r) \/ Waited(r)
    <3>1. \E p \in {"answered", "closeReader", "wait"} : at' = [at EXCEPT ![r] = p]
      BY <2>5 DEF CloseWriter, CloseReader, Waited, HandlerStep
    <3> QED BY <1>0, <1>T, <2>1, <3>1 DEF MovedInv
  <2> QED BY <1>3, <2>2, <2>3, <2>4, <2>5 DEF Handle, Serve, Send
<1>4. ASSUME NEW r \in Requests, NEW k \in Kinds, Arrive(r, k) PROVE MovedInv'
  <2>1. UNCHANGED moved
    BY <1>4, ArriveKeepsRest
  <2>2. /\ \E p \in {"status", "copy", "closeWriter", "cancel"} :
             at' = [at EXCEPT ![r] = p]
        /\ \E n : body' = [body EXCEPT ![r] = n]
    BY <1>4 DEF Arrive, Entry
  <2> QED BY <1>0, <1>T, <2>1, <2>2 DEF MovedInv
<1> QED BY <1>1, <1>2, <1>3, <1>4 DEF Next

-----------------------------------------------------------------------------
(* Type correctness. *)

LEMMA SessionOKNext == IInv /\ Next => SessionOK'
<1> SUFFICES ASSUME IInv, Next PROVE SessionOK'
  OBVIOUS
<1>0. SessionOK /\ StageInv /\ PlaceInv
  BY DEF IInv, TypeOK
<1>1. CASE Start
  BY <1>0, <1>1 DEF SessionOK, StageInv, Start, RunStep, procVars, outVars
<1>2. CASE Run
  <2>1. CASE Get \/ GetFails
    BY <1>0, <2>1 DEF SessionOK, Get, GetFails, RunStep, sessionVars, procVars,
                      outVars,
                      Results
  <2>2. CASE RunCloseInput \/ RunCancel
    BY <1>0, <2>2 DEF SessionOK, RunCloseInput, RunCancel, RunStep, sessionVars,
                      procVars, outVars, Cancel
  <2>3. CASE RunFinish
    <3>1. returned \in Results
      BY <1>0, <2>3 DEF SessionOK, StageInv, RunFinish, RunStep
    <3> QED BY <1>0, <2>3, <3>1 DEF SessionOK, RunFinish, RunStep, procVars, outVars
  <2>4. CASE RunCloseDone
    BY <1>0, <2>4 DEF SessionOK, RunCloseDone, RunStep, sessionVars, procVars, outVars
  <2> QED BY <1>2, <2>1, <2>2, <2>3, <2>4 DEF Run
<1>3. CASE Process
  <2>1. UNCHANGED <<stage, result, cause>>
    BY <1>3, ProcessKeepsSession DEF sessionVars
  <2>2. CASE (\E r \in Requests : ProcRead(r)) \/ ProcReadEnd
    <3>1. /\ UNCHANGED <<run, returned, output, lines>>
          /\ inputEnd' \in {inputEnd, "io.EOF", "io.ErrClosedPipe"}
      BY <2>2 DEF ProcRead, ProcReadEnd, runVars, outVars
    <3> QED BY <1>0, <2>1, <3>1 DEF SessionOK
  <2>3. CASE ProcWrite
    <3>1. output' = output + 1 /\ output < MaxOutput /\ output \in 0 .. MaxOutput
      BY <1>0, <2>3 DEF SessionOK, ProcWrite
    <3>2. output' \in 0 .. MaxOutput
      BY <3>1, ConstantsAssumption
    <3>3. output' \in 1 .. MaxOutput /\ lines' = Add(lines, output')
      BY <2>3, <3>1, <3>2 DEF ProcWrite
    <3>4. lines \in Seq(1 .. MaxOutput) /\ Len(lines) <= MaxLines
      BY <1>0 DEF SessionOK
    <3>5. lines' \in Seq(1 .. MaxOutput) /\ Len(lines') <= MaxLines
      <4>1. CASE Len(lines) < MaxLines
        BY <3>3, <3>4, <4>1, MaxLinesAssumption DEF Add
      <4>2. CASE ~(Len(lines) < MaxLines)
        <5>1. lines # <<>> /\ Len(lines) = MaxLines
          BY <3>4, <4>2, MaxLinesAssumption
        <5>2. Tail(lines) \in Seq(1 .. MaxOutput) /\ Len(Tail(lines)) = MaxLines - 1
          BY <3>4, <5>1
        <5> QED BY <3>3, <4>2, <5>2, MaxLinesAssumption DEF Add
      <4> QED BY <4>1, <4>2
    <3>6. UNCHANGED <<run, returned, inputEnd>>
      BY <2>3 DEF ProcWrite, runVars
    <3> QED BY <1>0, <2>1, <3>2, <3>5, <3>6 DEF SessionOK
  <2>4. CASE ProcReturn
    BY <1>0, <2>1, <2>4 DEF SessionOK, ProcReturn, procVars, outVars, Results
  <2> QED BY <1>3, <2>2, <2>3, <2>4 DEF Process
<1>4. ASSUME NEW r \in Requests, Handle(r) PROVE SessionOK'
  <2>1. UNCHANGED <<stage, result, run, returned, inputEnd, output, lines>>
    BY <1>4, HandleKeepsRun DEF sessionVars, runVars, procVars, outVars
  <2>2. UNCHANGED cause \/ CloseWith(r)
    BY <1>4 DEF Handle, Serve, Send, Status, Write, WriteTurn, WriteFails,
                WriteRefused, BodyFails, Copied,
                CloseWriter, CloseReader, Waited
  <2>3. CASE UNCHANGED cause
    BY <1>0, <2>1, <2>3 DEF SessionOK
  <2>4. CASE CloseWith(r)
    <3>1. kind[r] \in Closers
      BY <1>0, <2>4 DEF PlaceInv, CloseWith, HandlerStep
    <3> QED BY <1>0, <2>1, <2>4, <3>1 DEF SessionOK, CloseWith, Cancel
  <2> QED BY <2>2, <2>3, <2>4
<1>5. CASE \E r \in Requests, k \in Kinds : Arrive(r, k)
  BY <1>0, <1>5, ArriveKeepsRest DEF SessionOK, sessionVars, runVars, procVars,
                                     outVars
<1>6. CASE Terminated
  BY <1>0, <1>6 DEF SessionOK, Terminated, vars, sessionVars, runVars, procVars,
                    outVars
<1> QED BY <1>1, <1>2, <1>3, <1>4, <1>5, <1>6 DEF Next

LEMMA RequestsOKNext == IInv /\ Next => RequestsOK'
<1> SUFFICES ASSUME IInv, Next PROVE RequestsOK'
  OBVIOUS
<1>0. RequestsOK /\ SessionOK /\ StageInv /\ MovedInv
  BY DEF IInv, TypeOK
<1>T. body \in [Requests -> Nat] /\ Pieces \in Nat /\ MaxWrites \in Nat
  BY <1>0, ConstantsAssumption DEF RequestsOK
<1>1. CASE Start \/ Run \/ Terminated
  <2>1. UNCHANGED <<kind, at, body, moved, answer, shown>>
    BY <1>1, RunKeepsRequests DEF requestVars, Terminated, vars
  <2> QED BY <1>0, <2>1 DEF RequestsOK
<1>2. CASE Process
  <2>1. UNCHANGED <<kind, body, answer, shown>>
    BY <1>2, ProcessKeepsSession
  <2>2. CASE ProcReadEnd \/ ProcWrite \/ ProcReturn
    <3>1. UNCHANGED <<at, moved>>
      BY <2>2 DEF ProcReadEnd, ProcWrite, ProcReturn, requestVars
    <3> QED BY <1>0, <2>1, <3>1 DEF RequestsOK
  <2>3. ASSUME NEW r \in Requests, ProcRead(r) PROVE RequestsOK'
    <3>1. /\ at[r] = "piping"
          /\ \E p \in {"copy", "piping"} : at' = [at EXCEPT ![r] = p]
          /\ moved' = [moved EXCEPT ![r] = @ + 1]
      BY <1>0, <2>3 DEF ProcRead, RequestsOK
    <3>2. moved[r] \in Nat /\ moved[r] < body[r] * Pieces /\ body[r] * Pieces \in Nat
      BY <1>0, <1>T, <3>1 DEF RequestsOK, MovedInv
    <3>3. moved[r] + 1 \in Nat /\ moved[r] + 1 <= body[r] * Pieces
      BY <3>2
    <3>4. moved' \in [Requests -> Nat]
      BY <1>0, <3>1, <3>3 DEF RequestsOK
    <3>5. \A q \in Requests : moved'[q] <= body'[q] * Pieces
      BY <1>0, <2>1, <3>1, <3>3 DEF RequestsOK
    <3> QED BY <1>0, <2>1, <3>1, <3>4, <3>5 DEF RequestsOK
  <2> QED BY <1>2, <2>2, <2>3 DEF Process
<1>3. ASSUME NEW r \in Requests, Handle(r) PROVE RequestsOK'
  <2>1. UNCHANGED <<kind, body, moved>>
    BY <1>3, HandleKeepsRun
  <2>2. CASE Status(r)
    <3>1. /\ at' = [at EXCEPT ![r] = "answered"]
          /\ \E a \in {"pending"} \cup Results : answer' = [answer EXCEPT ![r] = a]
          /\ shown' = [shown EXCEPT ![r] = lines]
      BY <1>0, <2>2 DEF Status, HandlerStep, SessionOK
    <3>2. lines \in Seq(1 .. MaxOutput)
      BY <1>0 DEF SessionOK
    <3> QED BY <1>0, <2>1, <3>1, <3>2 DEF RequestsOK
  <2>3. CASE Write(r) \/ WriteTurn(r) \/ CloseWith(r) \/ CloseWriter(r)
    <3>1. /\ \E p \in {"turn", "piping", "closeWriter", "closeReader"} :
               at' = [at EXCEPT ![r] = p]
          /\ UNCHANGED <<answer, shown>>
      BY <2>3 DEF Write, WriteTurn, CloseWith, CloseWriter, HandlerStep
    <3> QED BY <1>0, <2>1, <3>1 DEF RequestsOK
  <2>4. CASE WriteFails(r) \/ WriteRefused(r) \/ BodyFails(r) \/ Copied(r) \/ Waited(r)
    <3>1. /\ at' = [at EXCEPT ![r] = "answered"]
          /\ \E a \in {"200", "500"} : answer' = [answer EXCEPT ![r] = a]
          /\ UNCHANGED shown
      BY <2>4 DEF WriteFails, WriteRefused, BodyFails, Copied, Waited, HandlerStep,
                  Answer
    <3> QED BY <1>0, <2>1, <3>1 DEF RequestsOK
  <2>5. CASE CloseReader(r)
    <3>1. /\ \E p \in {"answered", "wait"} : at' = [at EXCEPT ![r] = p]
          /\ (\E a \in {"200"} : answer' = [answer EXCEPT ![r] = a]) \/ UNCHANGED answer
          /\ UNCHANGED shown
      BY <2>5 DEF CloseReader, HandlerStep, Answer
    <3> QED BY <1>0, <2>1, <3>1 DEF RequestsOK
  <2> QED BY <1>3, <2>2, <2>3, <2>4, <2>5 DEF Handle, Serve, Send
<1>4. ASSUME NEW r \in Requests, NEW k \in Kinds, Arrive(r, k) PROVE RequestsOK'
  <2>1. UNCHANGED <<moved, answer, shown>>
    BY <1>4, ArriveKeepsRest
  <2>2. /\ kind' = [kind EXCEPT ![r] = k]
        /\ \E p \in {"status", "copy", "closeWriter", "cancel"} :
             at' = [at EXCEPT ![r] = p]
        /\ at[r] = "idle"
    BY <1>4 DEF Arrive, Entry
  <2>3. PICK n \in 0 .. MaxWrites : body' = [body EXCEPT ![r] = n]
    <3>1. 0 \in 0 .. MaxWrites
      BY <1>T
    <3>2. \E n \in IF k = "input" THEN 0 .. MaxWrites ELSE {0} :
            body' = [body EXCEPT ![r] = n]
      BY <1>4 DEF Arrive
    <3> QED BY <3>1, <3>2, Zenon
  <2>4. moved[r] = 0 /\ n * Pieces \in Nat
    BY <1>0, <1>T, <2>2 DEF MovedInv
  <2>5. \A q \in Requests : moved'[q] <= body'[q] * Pieces
    BY <1>0, <2>1, <2>3, <2>4 DEF RequestsOK
  <2> QED BY <1>0, <2>1, <2>2, <2>3, <2>5 DEF RequestsOK
<1> QED BY <1>1, <1>2, <1>3, <1>4 DEF Next

LEMMA TypeOKNext == IInv /\ Next => TypeOK'
<1> SUFFICES ASSUME IInv, Next PROVE TypeOK'
  OBVIOUS
<1>0. TypeOK
  BY DEF IInv
<1>1. writerClosed' \in BOOLEAN /\ readerClosed' \in BOOLEAN
  <2>1. CASE Start \/ Run
    BY <1>0, <2>1 DEF TypeOK, Start, Run, Get, GetFails, RunCloseInput, RunCancel,
                      RunFinish, RunCloseDone, RunStep
  <2>2. CASE Process
    BY <1>0, <2>2, ProcessKeepsSession DEF TypeOK, pipeVars
  <2>3. ASSUME NEW r \in Requests, Handle(r)
        PROVE  writerClosed' \in BOOLEAN /\ readerClosed' \in BOOLEAN
    BY <1>0, <2>3 DEF TypeOK, Handle, Serve, Send, Status, Write, WriteTurn,
                      WriteFails, WriteRefused,
                      BodyFails, Copied, CloseWith, CloseWriter, CloseReader,
                      Waited, pipeVars
  <2>4. CASE \E r \in Requests, k \in Kinds : Arrive(r, k)
    BY <1>0, <2>4, ArriveKeepsRest DEF TypeOK, pipeVars
  <2>5. CASE Terminated
    BY <1>0, <2>5 DEF TypeOK, Terminated, vars, pipeVars
  <2> QED BY <2>1, <2>2, <2>3, <2>4, <2>5 DEF Next
<1>2. input' \in Seq(Requests \X Nat)
  <2>1. ASSUME NEW r \in Requests, ProcRead(r) PROVE input' \in Seq(Requests \X Nat)
    <3>1. input \in Seq(Requests \X Nat) /\ moved[r] \in Nat
      BY <1>0 DEF TypeOK, RequestsOK
    <3>2. <<r, moved[r] + 1>> \in Requests \X Nat
      BY <3>1
    <3> QED BY <2>1, <3>1, <3>2 DEF ProcRead
  <2>2. CASE ~ \E r \in Requests : ProcRead(r)
    <3>1. UNCHANGED input
      <4>1. CASE Start \/ Run \/ Terminated
        BY <4>1, RunKeepsRequests DEF procVars, outVars, Terminated, vars
      <4>2. CASE Process
        BY <2>2, <4>2 DEF Process, ProcReadEnd, ProcWrite, ProcReturn, procVars,
                          outVars
      <4>3. CASE \E r \in Requests : Handle(r)
        BY <4>3, HandleKeepsRun DEF procVars, outVars
      <4>4. CASE \E r \in Requests, k \in Kinds : Arrive(r, k)
        BY <4>4, ArriveKeepsRest DEF procVars, outVars
      <4> QED BY <4>1, <4>2, <4>3, <4>4 DEF Next
    <3> QED BY <1>0, <3>1 DEF TypeOK
  <2> QED BY <2>1, <2>2
<1> QED BY <1>1, <1>2, SessionOKNext, RequestsOKNext DEF TypeOK

-----------------------------------------------------------------------------
(* The input. *)

\* Only a read touches what was read and what was moved.
LEMMA OthersKeepInput ==
  ASSUME Next, ~ \E r \in Requests : ProcRead(r)
  PROVE  UNCHANGED <<input, moved>>
<1>1. CASE Start \/ Run \/ Terminated
  BY <1>1, RunKeepsRequests DEF procVars, outVars, requestVars, Terminated, vars
<1>2. CASE Process
  BY <1>2 DEF Process, ProcReadEnd, ProcWrite, ProcReturn, procVars, outVars,
              requestVars
<1>3. CASE \E r \in Requests : Handle(r)
  BY <1>3, HandleKeepsRun DEF procVars, outVars
<1>4. CASE \E r \in Requests, k \in Kinds : Arrive(r, k)
  BY <1>4, ArriveKeepsRest DEF procVars, outVars
<1> QED BY <1>1, <1>2, <1>3, <1>4 DEF Next

\* What a read does to the input.
LEMMA ReadAppends ==
  ASSUME TypeOK, NEW r \in Requests, ProcRead(r)
  PROVE  /\ moved[r] \in Nat
         /\ moved' = [moved EXCEPT ![r] = moved[r] + 1]
         /\ Len(input) \in Nat
         /\ Len(input') = Len(input) + 1
         /\ DOMAIN input = 1 .. Len(input)
         /\ DOMAIN input' = 1 .. (Len(input) + 1)
         /\ \A k \in 1 .. Len(input) : input'[k] = input[k]
         /\ input'[Len(input) + 1] = <<r, moved[r] + 1>>
         /\ \A k \in 1 .. Len(input) : input[k] \in Requests \X Nat
<1>1. /\ moved \in [Requests -> Nat]
      /\ input \in Seq(Requests \X Nat)
  BY DEF TypeOK, RequestsOK
<1>2. /\ moved' = [moved EXCEPT ![r] = @ + 1]
      /\ input' = Append(input, <<r, moved[r] + 1>>)
  BY DEF ProcRead
<1>3. <<r, moved[r] + 1>> \in Requests \X Nat
  BY <1>1
<1>4. /\ Len(input) \in Nat
      /\ DOMAIN input = 1 .. Len(input)
      /\ \A k \in 1 .. Len(input) : input[k] \in Requests \X Nat
  BY <1>1
<1>5. /\ Len(input') = Len(input) + 1
      /\ \A k \in 1 .. Len(input) : input'[k] = input[k]
      /\ input'[Len(input) + 1] = <<r, moved[r] + 1>>
  BY <1>1, <1>2, <1>3
<1>6. DOMAIN input' = 1 .. (Len(input) + 1)
  <2>1. input' \in Seq(Requests \X Nat)
    BY <1>1, <1>2, <1>3
  <2> QED BY <1>5, <2>1
<1> QED BY <1>1, <1>2, <1>4, <1>5, <1>6

LEMMA ReadInvNext == IInv /\ Next => ReadInv'
<1> SUFFICES ASSUME IInv, Next PROVE ReadInv'
  OBVIOUS
<1>0. TypeOK /\ ReadInv /\ PlaceInv
  BY DEF IInv
<1>T. /\ kind \in [Requests -> Kinds \cup {"none"}]
      /\ moved \in [Requests -> Nat]
      /\ at \in [Requests -> {"idle", "status", "copy", "turn", "piping", "cancel",
                              "closeWriter", "closeReader", "wait", "answered"}]
      /\ input \in Seq(Requests \X Nat)
  BY <1>0 DEF TypeOK, RequestsOK
<1>1. ASSUME NEW r \in Requests, ProcRead(r) PROVE ReadInv'
  <2>1. at[r] = "piping" /\ kind[r] = "input"
    BY <1>0, <1>1 DEF PlaceInv, ProcRead
  <2>2. UNCHANGED kind
    BY <1>1, ProcessKeepsSession DEF Process
  <2> DEFINE L == Len(input)
             m == moved[r]
  <2>3. /\ m \in Nat /\ L \in Nat
        /\ DOMAIN input = 1 .. L /\ DOMAIN input' = 1 .. (L + 1)
        /\ \A k \in 1 .. L : input'[k] = input[k]
        /\ input'[L + 1] = <<r, m + 1>>
        /\ \A k \in 1 .. L : input[k] \in Requests \X Nat
        /\ moved' = [moved EXCEPT ![r] = m + 1]
    BY <1>0, <1>1, ReadAppends
  <2>4. moved'[r] = m + 1 /\ \A q \in Requests \ {r} : moved'[q] = moved[q]
    BY <1>T, <2>3
  <2> HIDE DEF L, m
  <2>5. \A k \in 1 .. L : input[k][1] \in Requests /\ input[k][2] \in Nat
    BY <2>3
  <2>6. \A k \in 1 .. L : input[k][2] \in 1 .. moved[input[k][1]]
                           /\ kind[input[k][1]] = "input"
    BY <1>0, <2>3 DEF ReadInv
  <2>7. \A k \in 1 .. L : moved'[input[k][1]] \in Nat
                           /\ moved[input[k][1]] <= moved'[input[k][1]]
    BY <1>T, <2>3, <2>4, <2>5 DEF m
  <2>8. \A k \in DOMAIN input' :
          input'[k][2] \in 1 .. moved'[input'[k][1]] /\ kind'[input'[k][1]] = "input"
    <3> SUFFICES ASSUME NEW k \in 1 .. (L + 1)
                 PROVE  input'[k][2] \in 1 .. moved'[input'[k][1]]
                        /\ kind'[input'[k][1]] = "input"
      BY <2>3
    <3>1. CASE k \in 1 .. L
      <4>1. input[k][2] \in 1 .. moved'[input[k][1]]
        BY <1>T, <2>5, <2>6, <2>7, <3>1
      <4> QED BY <2>2, <2>3, <2>6, <3>1, <4>1
    <3>2. CASE k = L + 1
      BY <2>1, <2>2, <2>3, <2>4, <3>2
    <3> QED BY <2>3, <3>1, <3>2
  <2>9. ASSUME NEW q \in Requests, NEW n \in 1 .. moved'[q]
        PROVE  \E k \in DOMAIN input' : input'[k] = <<q, n>>
    <3>1. CASE q = r /\ n = m + 1
      BY <2>3, <3>1
    <3>2. CASE ~(q = r /\ n = m + 1)
      <4>1. n \in 1 .. moved[q]
        BY <1>T, <2>3, <2>4, <3>2 DEF m
      <4>2. PICK k \in DOMAIN input : input[k] = <<q, n>>
        BY <1>0, <4>1 DEF ReadInv
      <4> QED BY <2>3, <4>2, SMTT(60)
    <3> QED BY <3>1, <3>2
  <2>10. ASSUME NEW k \in DOMAIN input', NEW l \in 1 .. (k - 1),
                input'[l][1] = input'[k][1]
         PROVE  input'[l][2] < input'[k][2]
    <3>1. l \in 1 .. L
      BY <2>3
    <3>2. CASE k \in 1 .. L
      <4>1. k \in DOMAIN input /\ input[l][1] = input[k][1]
        BY <2>3, <2>10, <3>1, <3>2
      <4>2. input[l][2] < input[k][2]
        BY <1>0, <4>1 DEF ReadInv
      <4> QED BY <2>3, <3>1, <3>2, <4>2
    <3>3. CASE k = L + 1
      <4>1. input[l][1] = r
        BY <2>3, <2>10, <3>1, <3>3
      <4>2. input[l][2] \in 1 .. m
        BY <2>6, <3>1, <4>1 DEF m
      <4> QED BY <2>3, <3>1, <3>3, <4>2
    <3> QED BY <2>3, <3>2, <3>3
  <2> QED BY <2>8, <2>9, <2>10 DEF ReadInv
<1>2. CASE ~ \E r \in Requests : ProcRead(r)
  <2>1. UNCHANGED <<input, moved>>
    BY <1>2, OthersKeepInput
  <2>2. ASSUME NEW r \in Requests, kind[r] = "input" PROVE kind'[r] = "input"
    <3>1. CASE Start \/ Run \/ Terminated
      BY <2>2, <3>1, RunKeepsRequests DEF requestVars, Terminated, vars
    <3>2. CASE Process
      BY <2>2, <3>2, ProcessKeepsSession
    <3>3. CASE \E q \in Requests : Handle(q)
      BY <2>2, <3>3, HandleKeepsRun
    <3>4. ASSUME NEW q \in Requests, NEW k \in Kinds, Arrive(q, k)
          PROVE  kind'[r] = "input"
      <4>1. kind[q] = "none" /\ kind' = [kind EXCEPT ![q] = k]
        BY <1>0, <3>4 DEF PlaceInv, Arrive
      <4> QED BY <1>T, <2>2, <4>1
    <3> QED BY <3>1, <3>2, <3>3, <3>4 DEF Next
  <2>3. \A k \in DOMAIN input : input[k][1] \in Requests
    BY <1>T
  <2>4. \A k \in DOMAIN input : kind'[input[k][1]] = "input"
    BY <1>0, <2>2, <2>3 DEF ReadInv
  <2> QED BY <1>0, <2>1, <2>4 DEF ReadInv
<1> QED BY <1>1, <1>2

\* A pipe stays closed.
LEMMA ClosedForGood == TypeOK /\ Next /\ PipeClosed => PipeClosed'
<1> SUFFICES ASSUME TypeOK, Next, PipeClosed PROVE PipeClosed'
  OBVIOUS
<1>1. CASE Start \/ Run
  BY <1>1 DEF PipeClosed, Start, Run, Get, GetFails, RunCloseInput, RunCancel,
              RunFinish, RunCloseDone, RunStep
<1>2. CASE Process
  BY <1>2, ProcessKeepsSession DEF PipeClosed, pipeVars
<1>3. ASSUME NEW r \in Requests, Handle(r) PROVE PipeClosed'
  BY <1>3 DEF PipeClosed, Handle, Serve, Send, Status, Write, WriteTurn, WriteFails,
              WriteRefused, BodyFails,
              Copied, CloseWith, CloseWriter, CloseReader, Waited, pipeVars
<1>4. CASE \E r \in Requests, k \in Kinds : Arrive(r, k)
  BY <1>4, ArriveKeepsRest DEF PipeClosed, pipeVars
<1>5. CASE Terminated
  BY <1>5 DEF PipeClosed, Terminated, vars, pipeVars
<1> QED BY <1>1, <1>2, <1>3, <1>4, <1>5 DEF Next

\* Who waits for a reader does so until it is read, or the pipe is closed.
LEMMA PipingStays ==
  ASSUME TypeOK, Next, NEW r \in Requests, at[r] = "piping",
         ~ \E q \in Requests : ProcRead(q)
  PROVE  at'[r] = "piping" \/ PipeClosed
<1>T. at \in [Requests -> {"idle", "status", "copy", "turn", "piping", "cancel",
                           "closeWriter", "closeReader", "wait", "answered"}]
  BY DEF TypeOK, RequestsOK
<1>1. CASE Start \/ Run \/ Terminated
  BY <1>1, RunKeepsRequests DEF requestVars, Terminated, vars
<1>2. CASE Process
  BY <1>2 DEF Process, ProcReadEnd, ProcWrite, ProcReturn, requestVars
<1>3. ASSUME NEW q \in Requests, Handle(q) PROVE at'[r] = "piping" \/ PipeClosed
  <2>1. CASE WriteFails(q)
    BY <2>1 DEF WriteFails
  <2>2. CASE ~WriteFails(q)
    <3>1. at[q] # "piping" /\ \E p : at' = [at EXCEPT ![q] = p]
      BY <1>3, <2>2 DEF Handle, Serve, Send, Status, Write, WriteTurn, WriteRefused,
                        BodyFails, Copied, CloseWith, CloseWriter, CloseReader, Waited, HandlerStep
    <3> QED BY <1>T, <3>1
  <2> QED BY <2>1, <2>2
<1>4. ASSUME NEW q \in Requests, NEW k \in Kinds, Arrive(q, k)
      PROVE  at'[r] = "piping" \/ PipeClosed
  BY <1>T, <1>4 DEF Arrive
<1> QED BY <1>1, <1>2, <1>3, <1>4 DEF Next

\* Only one request at a time waits for a reader.
LEMMA OnePiping ==
  ASSUME IInv, Next, NEW q \in Requests, NEW r \in Requests,
         at'[q] = "piping", at'[r] = "piping"
  PROVE  q = r
<1>0. \A s, t \in Requests : at[s] = "piping" /\ at[t] = "piping" => s = t
  BY DEF IInv, WriteInv
<1>T. at \in [Requests -> {"idle", "status", "copy", "turn", "piping", "cancel",
                           "closeWriter", "closeReader", "wait", "answered"}]
  BY DEF IInv, TypeOK, RequestsOK
<1>1. CASE \E s \in Requests : WriteTurn(s)
  <2>1. PICK s \in Requests : WriteTurn(s)
    BY <1>1
  <2>2. /\ at' = [at EXCEPT ![s] = "piping"]
        /\ \A t \in Requests : at[t] # "piping"
    BY <2>1 DEF WriteTurn, HandlerStep
  <2> QED BY <1>T, <2>2
<1>2. CASE ~ \E s \in Requests : WriteTurn(s)
  <2>1. ASSUME NEW s \in Requests, at'[s] = "piping" PROVE at[s] = "piping"
    <3>1. CASE Start \/ Run \/ Terminated
      BY <2>1, <3>1, RunKeepsRequests DEF requestVars, Terminated, vars
    <3>2. CASE Process
      <4>1. CASE ProcReadEnd \/ ProcWrite \/ ProcReturn
        BY <2>1, <4>1 DEF ProcReadEnd, ProcWrite, ProcReturn, requestVars
      <4>2. ASSUME NEW t \in Requests, ProcRead(t) PROVE at[s] = "piping"
        <5>1. at[t] = "piping" /\ \E p : at' = [at EXCEPT ![t] = p]
          BY <4>2 DEF ProcRead
        <5> QED BY <1>T, <2>1, <5>1
      <4> QED BY <3>2, <4>1, <4>2 DEF Process
    <3>3. ASSUME NEW t \in Requests, Handle(t) PROVE at[s] = "piping"
      <4>1. \E p \in {"answered", "turn", "closeWriter", "closeReader", "wait"} :
              at' = [at EXCEPT ![t] = p]
        BY <1>2, <3>3 DEF Handle, Serve, Send, Status, Write, WriteFails,
                          WriteRefused, BodyFails, Copied,
                          CloseWith, CloseWriter, CloseReader, Waited, HandlerStep
      <4> QED BY <1>T, <2>1, <4>1
    <3>4. ASSUME NEW t \in Requests, NEW k \in Kinds, Arrive(t, k)
          PROVE  at[s] = "piping"
      <4>1. \E p \in {"status", "copy", "closeWriter", "cancel"} :
              at' = [at EXCEPT ![t] = p]
        BY <3>4 DEF Arrive, Entry
      <4> QED BY <1>T, <2>1, <4>1
    <3> QED BY <3>1, <3>2, <3>3, <3>4 DEF Next
  <2> QED BY <1>0, <2>1
<1> QED BY <1>1, <1>2

LEMMA WriteInvNext == IInv /\ Next => WriteInv'
<1> SUFFICES ASSUME IInv, Next PROVE WriteInv'
  OBVIOUS
<1>0. TypeOK /\ WriteInv
  BY DEF IInv
<1>1. \A q, r \in Requests : at'[q] = "piping" /\ at'[r] = "piping" => q = r
  BY OnePiping
<1>2. ASSUME NEW r \in Requests, ProcRead(r) PROVE WriteInv'
  <2> DEFINE L == Len(input)
             m == moved[r]
  <2>1. /\ m \in Nat /\ L \in Nat
        /\ Len(input') = L + 1
        /\ \A k \in 1 .. L : input'[k] = input[k]
        /\ input'[L + 1] = <<r, m + 1>>
        /\ moved' = [moved EXCEPT ![r] = m + 1]
        /\ moved \in [Requests -> Nat]
    BY <1>0, <1>2, ReadAppends DEF TypeOK, RequestsOK
  <2>2. /\ at[r] = "piping" /\ ~PipeClosed
        /\ at' = [at EXCEPT ![r] = IF (m + 1) % Pieces = 0 THEN "copy" ELSE @]
        /\ at \in [Requests -> {"idle", "status", "copy", "turn", "piping", "cancel",
                                "closeWriter", "closeReader", "wait", "answered"}]
    BY <1>0, <1>2 DEF ProcRead, TypeOK, RequestsOK
  <2>3. L > 0 => input # <<>>
    BY <1>0 DEF TypeOK
  <2>4. L > 0 => input[L] \in Requests \X Nat
    BY <1>0, <1>2, ReadAppends
  <2> HIDE DEF L
  <2>5. L > 0 /\ input[L][2] % Pieces # 0 =>
          at[input[L][1]] = "piping" /\ moved[input[L][1]] = input[L][2]
    BY <1>0, <2>2, <2>3 DEF WriteInv, L
  <2>6. L > 0 /\ input[L][2] % Pieces # 0 =>
          input[L][1] = r /\ m = input[L][2]
    BY <1>0, <2>2, <2>4, <2>5 DEF WriteInv
  <2> HIDE DEF m
  <2>7. ASSUME NEW k \in 1 .. (Len(input') - 1), input'[k][2] % Pieces # 0
        PROVE  input'[k + 1] = <<input'[k][1], input'[k][2] + 1>>
    <3>1. k \in 1 .. L
      BY <2>1
    <3>2. CASE k = L
      BY <2>1, <2>6, <2>7, <3>1, <3>2
    <3>3. CASE k # L
      <4>1. k \in 1 .. (L - 1) /\ k + 1 \in 1 .. L
        BY <2>1, <3>1, <3>3
      <4>2. input'[k] = input[k] /\ input'[k + 1] = input[k + 1]
        BY <2>1, <3>1, <4>1
      <4>3. input[k + 1] = <<input[k][1], input[k][2] + 1>>
        BY <1>0, <2>7, <4>1, <4>2 DEF WriteInv, L
      <4> QED BY <4>2, <4>3
    <3> QED BY <3>2, <3>3
  <2>8. input'[Len(input')] = <<r, m + 1>>
    BY <2>1
  <2>9. moved'[r] = m + 1 /\ ((m + 1) % Pieces # 0 => at'[r] = "piping")
    BY <2>1, <2>2
  <2>10. input'[Len(input')][2] % Pieces # 0 =>
           /\ at'[input'[Len(input')][1]] = "piping"
           /\ moved'[input'[Len(input')][1]] = input'[Len(input')][2]
    BY <2>8, <2>9
  <2> QED BY <1>1, <2>7, <2>10 DEF WriteInv
<1>3. CASE ~ \E r \in Requests : ProcRead(r)
  <2>1. UNCHANGED <<input, moved>>
    BY <1>3, OthersKeepInput
  <2>2. ASSUME input # <<>>, input[Len(input)][2] % Pieces # 0
        PROVE  \/ PipeClosed'
               \/ /\ at'[input[Len(input)][1]] = "piping"
                  /\ moved[input[Len(input)][1]] = input[Len(input)][2]
    <3>1. input[Len(input)][1] \in Requests
      BY <1>0, <2>2 DEF TypeOK
    <3>2. CASE PipeClosed
      BY <1>0, <3>2, ClosedForGood
    <3>3. CASE ~PipeClosed
      BY <1>0, <1>3, <2>2, <3>1, <3>3, PipingStays DEF WriteInv
    <3> QED BY <3>2, <3>3
  <2>3. /\ input' = input
        /\ moved' = moved
        /\ \A k \in 1 .. (Len(input) - 1) : input[k][2] % Pieces # 0 =>
             input[k + 1] = <<input[k][1], input[k][2] + 1>>
    BY <1>0, <2>1 DEF WriteInv
  <2> QED BY <1>1, <2>2, <2>3 DEF WriteInv
<1> QED BY <1>2, <1>3

LEMMA CopiedInvNext == IInv /\ Next => CopiedInv'
<1> SUFFICES ASSUME IInv, Next PROVE CopiedInv'
  OBVIOUS
<1>0. CopiedInv /\ PlaceInv
  BY DEF IInv
<1>T. /\ at \in [Requests -> {"idle", "status", "copy", "turn", "piping", "cancel",
                              "closeWriter", "closeReader", "wait", "answered"}]
      /\ kind \in [Requests -> Kinds \cup {"none"}]
      /\ answer \in [Requests -> {"none", "200", "500", "pending"} \cup Results]
      /\ body \in [Requests -> 0 .. MaxWrites]
      /\ moved \in [Requests -> Nat]
  BY DEF IInv, TypeOK, RequestsOK
<1>1. CASE Start \/ Run \/ Terminated
  BY <1>0, <1>1, RunKeepsRequests DEF CopiedInv, requestVars, Terminated, vars
<1>2. CASE Process
  <2>1. UNCHANGED <<kind, body, answer>>
    BY <1>2, ProcessKeepsSession
  <2>2. CASE ProcReadEnd \/ ProcWrite \/ ProcReturn
    BY <1>0, <2>1, <2>2 DEF CopiedInv, ProcReadEnd, ProcWrite, ProcReturn,
                            requestVars
  <2>3. ASSUME NEW r \in Requests, ProcRead(r) PROVE CopiedInv'
    <3>1. /\ at[r] = "piping"
          /\ \E p : at' = [at EXCEPT ![r] = p]
          /\ \E n : moved' = [moved EXCEPT ![r] = n]
      BY <2>3 DEF ProcRead
    <3>2. answer[r] # "200"
      BY <1>0, <3>1 DEF CopiedInv
    <3> QED BY <1>0, <1>T, <2>1, <3>1, <3>2 DEF CopiedInv
  <2> QED BY <1>2, <2>2, <2>3 DEF Process
<1>3. ASSUME NEW r \in Requests, Handle(r) PROVE CopiedInv'
  <2>1. UNCHANGED <<kind, body, moved>>
    BY <1>3, HandleKeepsRun
  <2>2. at[r] # "answered" /\ \E p : at' = [at EXCEPT ![r] = p]
    BY <1>3 DEF Handle, Serve, Send, Status, Write, WriteTurn, WriteFails,
                WriteRefused, BodyFails, Copied,
                CloseWith, CloseWriter, CloseReader, Waited, HandlerStep
  <2>3. answer[r] # "200"
    BY <1>0, <2>2 DEF CopiedInv
  <2>4. \E a : answer' = [answer EXCEPT ![r] = a]
    <3>1. CASE UNCHANGED answer
      <4>1. answer = [answer EXCEPT ![r] = answer[r]]
        BY <1>T
      <4> QED BY <3>1, <4>1
    <3>2. CASE ~UNCHANGED answer
      BY <1>3, <3>2 DEF Handle, Serve, Send, Status, Write, WriteTurn, WriteFails,
                        WriteRefused, BodyFails,
                        Copied, CloseWith, CloseWriter, CloseReader, Waited, Answer
    <3> QED BY <3>1, <3>2
  <2>5. \A q \in Requests \ {r} : at'[q] = at[q] /\ answer'[q] = answer[q]
    BY <1>T, <2>2, <2>4
  <2>6. CASE kind[r] = "input"
    <3>1. CASE Copied(r)
      <4>1. moved[r] = body[r] * Pieces
        <5>1. moved[r] \in Nat /\ body[r] * Pieces \in Nat
          BY <1>T, ConstantsAssumption
        <5>2. moved[r] <= body[r] * Pieces /\ ~(moved[r] < body[r] * Pieces)
          BY <3>1 DEF Copied, MoreBody, IInv, TypeOK, RequestsOK
        <5> QED BY <5>1, <5>2
      <4>2. at'[r] = "answered"
        BY <1>T, <3>1 DEF Copied, HandlerStep
      <4> QED BY <1>0, <2>1, <2>5, <4>1, <4>2 DEF CopiedInv
    <3>2. CASE ~Copied(r)
      <4>1. "input" \notin Closers \cup {"closeInput"}
        BY DEF Closers
      <4>2. ~Status(r) /\ ~CloseReader(r) /\ ~Waited(r)
        BY <1>0, <2>6, <4>1 DEF PlaceInv, Status, CloseReader, Waited, HandlerStep
      <4>3. answer'[r] = answer[r] \/ answer'[r] = "500"
        BY <1>3, <1>T, <3>2, <4>2 DEF Handle, Serve, Send, Write, WriteTurn,
                                      WriteFails, WriteRefused,
                                      BodyFails, CloseWith, CloseWriter, Answer
      <4> QED BY <1>0, <2>1, <2>3, <2>5, <2>6, <4>3 DEF CopiedInv
    <3> QED BY <3>1, <3>2
  <2>7. CASE kind[r] # "input"
    <3>1. answer'[r] = "200" => at'[r] = "answered"
      BY <1>3, <1>T, <2>3 DEF Handle, Serve, Send, Status, Write, WriteTurn,
                              WriteFails, WriteRefused, BodyFails,
                              Copied, CloseWith, CloseWriter, CloseReader, Waited,
                              HandlerStep, Answer
    <3> QED BY <1>0, <2>1, <2>5, <2>7, <3>1 DEF CopiedInv
  <2> QED BY <2>6, <2>7
<1>4. ASSUME NEW r \in Requests, NEW k \in Kinds, Arrive(r, k) PROVE CopiedInv'
  <2>1. UNCHANGED <<answer, moved>>
    BY <1>4, ArriveKeepsRest
  <2>2. /\ at[r] = "idle"
        /\ \E p : at' = [at EXCEPT ![r] = p]
        /\ kind' = [kind EXCEPT ![r] = k]
        /\ \E n : body' = [body EXCEPT ![r] = n]
    BY <1>4 DEF Arrive
  <2>3. answer[r] # "200"
    BY <1>0, <2>2 DEF CopiedInv
  <2> QED BY <1>0, <1>T, <2>1, <2>2, <2>3 DEF CopiedInv
<1> QED BY <1>1, <1>2, <1>3, <1>4 DEF Next

-----------------------------------------------------------------------------
(* The invariant. *)

LEMMA InvInit == Init => IInv
<1> SUFFICES ASSUME Init PROVE IInv
  OBVIOUS
<1>1. SessionOK
  <2>1. <<>> \in Seq(1 .. MaxOutput) /\ Len(<<>>) <= MaxLines /\ 0 \in 0 .. MaxOutput
    BY ConstantsAssumption, MaxLinesAssumption
  <2> QED BY <2>1 DEF Init, SessionOK
<1>2. RequestsOK
  <2>1. 0 \in 0 .. MaxWrites /\ <<>> \in Seq(1 .. MaxOutput) /\ 0 <= 0 * Pieces
    BY ConstantsAssumption
  <2> QED BY <2>1 DEF Init, RequestsOK
<1>3. TypeOK
  <2>1. input \in Seq(Requests \X Nat)
    BY DEF Init
  <2> QED BY <1>1, <1>2, <2>1 DEF Init, TypeOK
<1>4. StageInv /\ PlaceInv /\ MovedInv
  BY DEF Init, StageInv, PlaceInv, MovedInv
<1>5. EndInv /\ AnswerInv /\ CopiedInv
  BY DEF Init, EndInv, AnswerInv, CopiedInv, PipeClosed
<1>6. DOMAIN input = {} /\ Len(input) = 0 /\ input = <<>>
  BY DEF Init
<1>7. ReadInv
  <2>1. \A r \in Requests : moved[r] = 0
    BY DEF Init
  <2>2. 1 .. 0 = {}
    OBVIOUS
  <2> QED BY <1>6, <2>1, <2>2 DEF ReadInv
<1>8. WriteInv
  <2>1. 1 .. (Len(input) - 1) = {}
    BY <1>6
  <2>2. \A r \in Requests : at[r] # "piping"
    BY DEF Init
  <2> QED BY <1>6, <2>1, <2>2 DEF WriteInv
<1>9. LinesInv
  <2>1. LastLines(0) = <<>>
    <3>1. LastLines(0) \in Seq(1 .. 0) /\ Len(LastLines(0)) = 0
      BY LastLinesAreKept, MaxLinesAssumption DEF Kept
    <3> QED BY <3>1
  <2> QED BY <2>1 DEF Init, LinesInv
<1> QED BY <1>3, <1>4, <1>5, <1>7, <1>8, <1>9 DEF IInv

LEMMA InvNext == IInv /\ [Next]_vars => IInv'
<1> SUFFICES ASSUME IInv, [Next]_vars PROVE IInv'
  OBVIOUS
<1>1. CASE Next
  BY <1>1, TypeOKNext, StageInvNext, PlaceInvNext, EndInvNext, AnswerInvNext,
     MovedInvNext, ReadInvNext, WriteInvNext, CopiedInvNext, LinesInvNext DEF IInv
<1>2. CASE UNCHANGED vars
  <2>1. UNCHANGED <<stage, result, cause, writerClosed, readerClosed, run, returned,
                    input, inputEnd, output, lines, kind, at, body, moved, answer,
                    shown>>
    BY <1>2 DEF vars, sessionVars, pipeVars, runVars, procVars, outVars, requestVars
  <2>2. TypeOK'
    BY <2>1 DEF IInv, TypeOK, SessionOK, RequestsOK
  <2>3. StageInv' /\ PlaceInv' /\ EndInv' /\ AnswerInv'
    BY <2>1 DEF IInv, StageInv, PlaceInv, EndInv, AnswerInv, PipeClosed
  <2>4. MovedInv' /\ ReadInv' /\ WriteInv' /\ CopiedInv' /\ LinesInv'
    BY <2>1 DEF IInv, MovedInv, ReadInv, WriteInv, CopiedInv, LinesInv, PipeClosed
  <2> QED BY <2>2, <2>3, <2>4 DEF IInv
<1> QED BY <1>1, <1>2

LEMMA Invariant == Spec => []IInv
BY InvInit, InvNext, PTL DEF Spec

\* Every variable has its type, a session that is finished has a result, and no
\* request moves more than its body (session.go).
THEOREM TypeCorrect == Spec => []TypeOK
<1>1. IInv => TypeOK
  BY DEF IInv
<1> QED BY <1>1, Invariant, PTL

\* What the process reads is made of whole writes of the input requests, and a
\* request is answered 200 only if its body was read (session.go Write,
\* serve.go serveInput).
THEOREM InputIsWhole == Spec => []InputWhole
<1>1. ASSUME IInv PROVE InputWhole
  <2>0. TypeOK /\ ReadInv /\ WriteInv /\ CopiedInv
    BY <1>1 DEF IInv
  <2>T. input \in Seq(Requests \X Nat)
    BY <2>0 DEF TypeOK
  <2>1. ASSUME NEW k \in DOMAIN input, NEW n \in 1 .. (input[k][2] - 1)
        PROVE  \E l \in 1 .. (k - 1) : input[l] = <<input[k][1], n>>
    <3>1. /\ input[k][1] \in Requests /\ input[k][2] \in Nat
          /\ moved[input[k][1]] \in Nat /\ n \in Nat
      BY <2>0, <2>T DEF TypeOK, RequestsOK
    <3>2. input[k][2] <= moved[input[k][1]]
      BY <2>0, <3>1 DEF ReadInv
    <3>3. n \in 1 .. moved[input[k][1]] /\ n < input[k][2]
      BY <3>1, <3>2
    <3>4. PICK l \in DOMAIN input : input[l] = <<input[k][1], n>>
      BY <2>0, <3>1, <3>3 DEF ReadInv
    <3>5. input[l][1] = input[k][1] /\ input[l][2] = n
      BY <3>4
    <3>6. k \in Nat /\ l \in Nat /\ l >= 1 /\ k >= 1
      BY <2>T
    <3>7. l # k
      BY <3>1, <3>3, <3>5
    <3>8. ~(k < l)
      <4>1. SUFFICES ASSUME k < l PROVE FALSE
        OBVIOUS
      <4>2. k \in 1 .. (l - 1)
        BY <3>6, <4>1
      <4>3. input[k][2] < input[l][2]
        BY <2>0, <3>5, <4>2 DEF ReadInv
      <4> QED BY <3>1, <3>3, <3>5, <4>3
    <3>9. l \in 1 .. (k - 1)
      BY <3>6, <3>7, <3>8
    <3> QED BY <3>4, <3>9
  <2>2. \A k \in DOMAIN input : \A l \in 1 .. (k - 1) :
          input[l][1] = input[k][1] => input[l][2] < input[k][2]
    BY <2>0 DEF ReadInv
  <2>3. \A k \in 1 .. (Len(input) - 1) :
          input[k][2] % Pieces # 0 => input[k + 1] = <<input[k][1], input[k][2] + 1>>
    BY <2>0 DEF WriteInv
  <2>4. \A r \in Requests : kind[r] = "input" /\ answer[r] = "200" =>
          \A n \in 1 .. (body[r] * Pieces) : \E k \in DOMAIN input : input[k] = <<r, n>>
    BY <2>0 DEF CopiedInv, ReadInv
  <2> QED BY <2>1, <2>2, <2>3, <2>4 DEF InputWhole
<1> QED BY <1>1, Invariant, PTL

\* A running process is cancelled, or its input ended, only on request
\* (session.go CloseWith, CloseInput).
THEOREM EndIsHonest == Spec => []EndHonest
<1>1. IInv => EndHonest
  BY DEF IInv, EndInv, EndHonest, Running
<1> QED BY <1>1, Invariant, PTL

\* A status shows the last lines of what was written at some moment, and a
\* status with a result shows the result and the last lines of all the output
\* (session.go Status, finbuf).
THEOREM StatusIsHonest == Spec => []StatusHonest
<1>1. ASSUME IInv PROVE StatusHonest
  <2>0. StageInv /\ AnswerInv /\ LinesInv
    BY <1>1 DEF IInv
  <2>1. stage = "finished" => result = returned /\ returned # "none" /\ ~Running
    BY <2>0 DEF StageInv, Running
  <2> QED BY <2>0, <2>1 DEF AnswerInv, LinesInv, StatusHonest
<1> QED BY <1>1, Invariant, PTL

\* Once a client was told that the process has ended, no status says that it is
\* pending (session.go CloseWith, Status).
THEOREM SettledIsFinal == Spec => SettledStays
<1>1. ASSUME IInv, Next, Settled, NEW r \in Requests,
             at[r] = "status", at'[r] = "answered"
      PROVE  answer'[r] # "pending"
  <2>0. StageInv /\ AnswerInv /\ SessionOK /\ PlaceInv
    BY <1>1 DEF IInv, TypeOK
  <2>T. /\ at \in [Requests -> {"idle", "status", "copy", "turn", "piping", "cancel",
                                "closeWriter", "closeReader", "wait", "answered"}]
        /\ answer \in [Requests -> {"none", "200", "500", "pending"} \cup Results]
    BY <1>1 DEF IInv, TypeOK, RequestsOK
  <2>1. stage = "finished"
    BY <1>1, <2>0 DEF Settled, AnswerInv, StageInv
  <2>2. result # "pending"
    BY <2>0, <2>1 DEF SessionOK, Results
  <2>3. Status(r)
    <3>1. ~(Start \/ Run \/ Terminated)
      BY <1>1, RunKeepsRequests DEF requestVars, Terminated, vars
    <3>2. ~Process
      <4>1. ASSUME NEW q \in Requests, ProcRead(q) PROVE FALSE
        <5>1. at[q] = "piping" /\ \E p : at' = [at EXCEPT ![q] = p]
          BY <4>1 DEF ProcRead
        <5> QED BY <1>1, <2>T, <5>1
      <4>2. ~(ProcReadEnd \/ ProcWrite \/ ProcReturn)
        BY <1>1 DEF ProcReadEnd, ProcWrite, ProcReturn, requestVars
      <4> QED BY <4>1, <4>2 DEF Process
    <3>3. ASSUME NEW q \in Requests, NEW k \in Kinds, Arrive(q, k) PROVE FALSE
      <4>1. at[q] = "idle" /\ \E p : at' = [at EXCEPT ![q] = p]
        BY <3>3 DEF Arrive
      <4> QED BY <1>1, <2>T, <4>1
    <3>4. PICK q \in Requests : Handle(q)
      BY <1>1, <3>1, <3>2, <3>3 DEF Next
    <3>5. \E p : at' = [at EXCEPT ![q] = p]
      BY <3>4 DEF Handle, Serve, Send, Status, Write, WriteTurn, WriteFails,
                  WriteRefused, BodyFails, Copied,
                  CloseWith, CloseWriter, CloseReader, Waited, HandlerStep
    <3>6. q = r
      BY <1>1, <2>T, <3>5
    <3> QED BY <1>1, <3>4, <3>6 DEF Handle, Serve, Send, Write, WriteTurn,
                                    WriteFails, WriteRefused, BodyFails,
                  Copied, CloseWith, CloseWriter, CloseReader, Waited, HandlerStep
  <2>4. answer'[r] = result
    BY <2>T, <2>1, <2>3 DEF Status
  <2> QED BY <2>2, <2>4
<1>2. IInv /\ [Next]_vars =>
        [\A r \in Requests :
           Settled /\ at[r] = "status" /\ at'[r] = "answered"
             => answer'[r] # "pending"]_vars
  BY <1>1
<1> QED BY <1>2, Invariant, PTL DEF Spec, SettledStays

-----------------------------------------------------------------------------
(* Every session implements PowProcess: the invariant of the refinement. *)

\* A request has no body before it arrives, and no answer before its end.
IdleInv ==
  \A r \in Requests : /\ at[r] = "idle" => body[r] = 0
                      /\ at[r] # "answered" => answer[r] = "none"

\* run has cancelled the context before it reports.
CancelledInv == run \in {"finish", "closeDone", "done"} => cause # NoCause

Inv == IInv /\ IdleInv /\ CancelledInv

-----------------------------------------------------------------------------
(* The two further invariants. *)

LEMMA IdleInvNext == IInv /\ IdleInv /\ [Next]_vars => IdleInv'
<1> SUFFICES ASSUME IInv, IdleInv, [Next]_vars PROVE IdleInv'
  OBVIOUS
<1>0. /\ at \in [Requests -> {"idle", "status", "copy", "turn", "piping", "cancel",
                              "closeWriter", "closeReader", "wait", "answered"}]
      /\ body \in [Requests -> 0 .. MaxWrites]
      /\ answer \in [Requests -> {"none", "200", "500", "pending"} \cup Results]
  BY DEF IInv, TypeOK, RequestsOK
<1>1. CASE UNCHANGED <<at, body, answer>>
  BY <1>1 DEF IdleInv
<1>2. CASE Start \/ Run \/ Terminated \/ UNCHANGED vars
  BY <1>1, <1>2, RunKeepsRequests DEF Terminated, vars, requestVars
<1>3. CASE Process
  <2>1. UNCHANGED <<body, answer>>
    BY <1>3, ProcessKeepsSession
  <2>2. \A r \in Requests : /\ at'[r] = "idle" => at[r] = "idle"
                            /\ at'[r] # "answered" => at[r] # "answered"
    BY <1>0, <1>3 DEF Process, ProcRead, ProcReadEnd, ProcWrite, ProcReturn,
                      requestVars
  <2> QED BY <2>1, <2>2 DEF IdleInv
<1>4. ASSUME NEW r \in Requests, Handle(r) PROVE IdleInv'
  <2>1. UNCHANGED body
    BY <1>4, HandleKeepsRun
  <2>2. at'[r] # "idle" /\ at[r] # "answered" /\ \E p : at' = [at EXCEPT ![r] = p]
    BY <1>0, <1>4 DEF Handle, Serve, Send, Status, Write, WriteTurn, WriteFails,
                      WriteRefused, BodyFails,
                      Copied, CloseWith, CloseWriter, CloseReader, Waited,
                      HandlerStep
  <2>3. \/ answer' = answer
        \/ at'[r] = "answered" /\ \E a : answer' = [answer EXCEPT ![r] = a]
    BY <1>0, <1>4
       DEF Handle, Serve, Send, Status, Write, WriteTurn, WriteFails, WriteRefused,
           BodyFails, Copied,
           CloseWith, CloseWriter, CloseReader, Waited, HandlerStep, Answer
  <2> QED BY <1>0, <2>1, <2>2, <2>3 DEF IdleInv
<1>5. ASSUME NEW r \in Requests, NEW k \in Kinds, Arrive(r, k) PROVE IdleInv'
  <2>1. UNCHANGED answer
    BY <1>5, ArriveKeepsRest
  <2>2. /\ at' = [at EXCEPT ![r] = Entry(k)] /\ Entry(k) # "idle"
        /\ at[r] = "idle" /\ \E n : body' = [body EXCEPT ![r] = n]
    BY <1>5 DEF Arrive, Entry
  <2> QED BY <1>0, <2>1, <2>2 DEF IdleInv
<1> QED BY <1>2, <1>3, <1>4, <1>5 DEF Next

LEMMA CancelledInvNext == CancelledInv /\ [Next]_vars => CancelledInv'
<1> SUFFICES ASSUME CancelledInv, [Next]_vars PROVE CancelledInv'
  OBVIOUS
<1>1. CASE Start \/ Run \/ Terminated \/ UNCHANGED vars
  BY <1>1 DEF Start, Run, Get, GetFails, RunCloseInput, RunCancel, RunFinish,
              RunCloseDone, RunStep, Terminated, vars, runVars, Cancel,
              NoCause, CancelledInv
<1>2. CASE Process
  BY <1>2 DEF Process, ProcRead, ProcReadEnd, ProcWrite, ProcReturn, ProcStep,
              runVars, CancelledInv
<1>3. ASSUME NEW r \in Requests, Handle(r) PROVE CancelledInv'
  <2>1. UNCHANGED run
    BY <1>3, HandleKeepsRun DEF runVars
  <2>2. cause # NoCause => cause' # NoCause
    BY <1>3 DEF Handle, Serve, Send, Status, Write, WriteTurn, WriteFails,
                WriteRefused, BodyFails,
                Copied, CloseWith, CloseWriter, CloseReader, Waited, Cancel
  <2> QED BY <2>1, <2>2 DEF CancelledInv
<1>4. ASSUME NEW r \in Requests, NEW k \in Kinds, Arrive(r, k)
      PROVE  CancelledInv'
  BY <1>4, ArriveKeepsRest DEF runVars, CancelledInv
<1> QED BY <1>1, <1>2, <1>3, <1>4 DEF Next

LEMMA InvAlways == Spec => []Inv
<1>1. Init => IdleInv /\ CancelledInv
  BY DEF Init, IdleInv, CancelledInv
<1> QED BY <1>1, IdleInvNext, CancelledInvNext, Invariant, PTL DEF Spec, Inv

-----------------------------------------------------------------------------
(* The pieces that the process has read. *)

LEMMA ReadIsMoved ==
  ASSUME IInv, NEW r \in Requests
  PROVE  PiecesRead(r) = 1 .. moved[r]
<1>0. /\ ReadInv /\ input \in Seq(Requests \X Nat) /\ moved[r] \in Nat
  BY DEF IInv, TypeOK, RequestsOK
<1>1. PiecesRead(r) \subseteq 1 .. moved[r]
  BY <1>0 DEF ReadInv, PiecesRead
<1>2. ASSUME NEW n \in 1 .. moved[r] PROVE n \in PiecesRead(r)
  <2>1. PICK k \in DOMAIN input : input[k] = <<r, n>>
    BY <1>0 DEF ReadInv
  <2>2. input[k][1] = r /\ input[k][2] = n
    BY <2>1
  <2> QED BY <2>2 DEF PiecesRead
<1> QED BY <1>1, <1>2

MovedIsRead == \A r \in Requests : PiecesRead(r) = 1 .. moved[r]

LEMMA ReadIsMovedNext == IInv' => MovedIsRead'
<1>1. IInv => MovedIsRead
  BY ReadIsMoved DEF MovedIsRead
<1> QED BY <1>1, PTL

Offered == [r \in Requests |-> 1 .. (body[r] * Pieces)]
Got     == [r \in Requests |-> PiecesRead(r)]

LEMMA Unseen ==
  ASSUME UNCHANGED <<body, input, run, returned, PipeClosed, cause, Told>>
  PROVE  UNCHANGED Abstract!vars
<1>1. UNCHANGED <<Offered, Got, Phase, Verdict(returned)>>
  BY DEF Offered, Got, PiecesRead, Phase, Running, Verdict
<1> QED BY <1>1 DEF Abstract!vars, Offered, Got

LEMMA CancelSeen ==
  ASSUME UNCHANGED <<body, input, returned, PipeClosed, Told, Phase>>,
         NEW c \in {CauseOf(k) : k \in Closers} \cup {"ErrCancelHandlerReturn"},
         Cancel(c)
  PROVE  [Abstract!Next]_(Abstract!vars)
<1>1. UNCHANGED <<Offered, Got, Phase, Verdict(returned)>>
  BY DEF Offered, Got, PiecesRead, Verdict
<1>2. CASE cause # NoCause
  BY <1>1, <1>2 DEF Cancel, Abstract!vars, Offered, Got
<1>3. CASE cause = NoCause
  BY <1>1, <1>3 DEF Cancel, Abstract!Next, Abstract!Cancel, Offered, Got
<1> QED BY <1>2, <1>3

LEMMA EndSeen ==
  ASSUME UNCHANGED <<body, input, returned, cause, Told, Phase>>,
         PipeClosed \in BOOLEAN, PipeClosed' = TRUE
  PROVE  [Abstract!Next]_(Abstract!vars)
<1>1. UNCHANGED <<Offered, Got, Phase, Verdict(returned)>>
  BY DEF Offered, Got, PiecesRead, Verdict
<1>2. CASE PipeClosed
  BY <1>1, <1>2 DEF Abstract!vars, Offered, Got
<1>3. CASE ~PipeClosed
  BY <1>1, <1>3 DEF Abstract!Next, Abstract!EndInput, Offered, Got
<1> QED BY <1>2, <1>3

-----------------------------------------------------------------------------
(* Step by step. *)

LEMMA RunSeen ==
  ASSUME Inv, Start \/ Run
  PROVE  [Abstract!Next]_(Abstract!vars)
<1>0. /\ UNCHANGED <<body, input, kind, answer, readerClosed>>
      /\ StageInv /\ writerClosed \in BOOLEAN /\ readerClosed \in BOOLEAN
  BY RunKeepsRequests DEF requestVars, procVars, outVars, Inv, IInv, TypeOK
<1>1. UNCHANGED <<Offered, Got, Told>>
  BY <1>0 DEF Offered, Got, PiecesRead, Told, Verdict
<1>2. CASE Start \/ RunFinish \/ RunCloseDone
  <2>1. UNCHANGED <<Phase, returned, PipeClosed, cause>>
    BY <1>0, <1>2 DEF Start, RunFinish, RunCloseDone, RunStep, Phase, Running,
                      PipeClosed
  <2> QED BY <1>1, <2>1 DEF Abstract!vars, Offered, Got, Verdict
<1>3. CASE Get
  <2>1. /\ Phase = "waiting" /\ Phase' = "running"
        /\ UNCHANGED <<Verdict(returned), PipeClosed, cause>>
    BY <1>0, <1>3 DEF Get, RunStep, Phase, Running, PipeClosed, Verdict
  <2> QED
    BY <1>1, <2>1 DEF Abstract!Next, Abstract!Begin, Offered, Got
<1>4. CASE GetFails
  <2>0. /\ run = "get" /\ run' = "closeInput"
        /\ returned' \in {"handler error", "panic"}
        /\ UNCHANGED <<writerClosed, cause>>
    BY <1>4 DEF GetFails, RunStep
  <2>1. Phase = "waiting" /\ Phase' = "over" /\ UNCHANGED PipeClosed
    BY <1>0, <2>0 DEF Phase, Running, PipeClosed
  <2>2. Verdict(returned)' = "rejected"
    BY <2>0 DEF Verdict
  <2> QED
    BY <1>1, <2>0, <2>1, <2>2 DEF Abstract!Next, Abstract!Finish, Offered, Got
<1>5. CASE RunCloseInput
  <2>1. /\ UNCHANGED <<returned, cause, Phase>>
        /\ PipeClosed \in BOOLEAN /\ PipeClosed' = TRUE
    BY <1>0, <1>5 DEF RunCloseInput, RunStep, Phase, Running, PipeClosed
  <2> QED BY <1>0, <1>1, <2>1, EndSeen
<1>6. CASE RunCancel
  <2>1. /\ UNCHANGED <<returned, PipeClosed, Phase>>
        /\ Cancel("ErrCancelHandlerReturn")
    BY <1>0, <1>6 DEF RunCancel, RunStep, Phase, Running, PipeClosed
  <2> QED BY <1>0, <1>1, <2>1, CancelSeen
<1> QED BY <1>2, <1>3, <1>4, <1>5, <1>6 DEF Run

LEMMA ProcessSeen ==
  ASSUME Inv, Inv', Process
  PROVE  [Abstract!Next]_(Abstract!vars)
<1>0. UNCHANGED <<stage, cause, PipeClosed, body, kind, answer>>
  BY ProcessKeepsSession DEF sessionVars, pipeVars, PipeClosed
<1>1. UNCHANGED <<Offered, Told>>
  BY <1>0 DEF Offered, Told, Verdict
<1>2. ASSUME NEW r \in Requests, ProcRead(r) PROVE Abstract!Next
  <2>0. /\ Running /\ ~PipeClosed /\ at[r] = "piping"
        /\ UNCHANGED <<run, returned>>
        /\ moved' = [moved EXCEPT ![r] = moved[r] + 1]
    BY <1>2 DEF ProcRead, ProcStep, runVars
  <2>1. /\ moved \in [Requests -> Nat] /\ body[r] \in Nat /\ Pieces \in Nat
        /\ moved[r] < body[r] * Pieces
    BY <2>0, ConstantsAssumption DEF Inv, IInv, TypeOK, RequestsOK, MovedInv
  <2>2. body[r] * Pieces \in Nat
    BY <2>1
  <2>3. moved[r] + 1 \in Offered[r] \ Got[r]
    BY <2>1, <2>2, ReadIsMoved DEF Inv, Offered, Got
  <2>4. \A q \in Offered[r] : q < moved[r] + 1 => q \in Got[r]
    BY <2>1, <2>2, ReadIsMoved DEF Inv, Offered, Got
  <2>5. Got' = [Got EXCEPT ![r] = Got[r] \cup {moved[r] + 1}]
    <3>1. \A q \in Requests : Got[q] = 1 .. moved[q]
      BY ReadIsMoved DEF Inv, Got
    <3>2. \A q \in Requests : Got'[q] = 1 .. moved'[q]
      BY ReadIsMovedNext DEF Inv, Got, MovedIsRead
    <3>3. 1 .. (moved[r] + 1) = (1 .. moved[r]) \cup {moved[r] + 1}
      BY <2>1
    <3>4. \A q \in Requests :
            Got'[q] = IF q = r THEN Got[r] \cup {moved[r] + 1} ELSE Got[q]
      BY <2>0, <2>1, <3>1, <3>2, <3>3
    <3> QED BY <3>4 DEF Got
  <2>6. UNCHANGED <<Phase, Verdict(returned)>> /\ Phase = "running"
    BY <2>0 DEF Phase, Running, Verdict
  <2>7. Abstract!Read(r)
    BY <1>0, <1>1, <2>0, <2>3, <2>4, <2>5, <2>6
       DEF Abstract!Read, Offered, Got
  <2> QED BY <2>7 DEF Abstract!Next
<1>3. CASE ProcReadEnd \/ ProcWrite
  BY <1>0, <1>1, <1>3, Unseen DEF ProcReadEnd, ProcWrite, runVars
<1>4. CASE ProcReturn
  <2>1. /\ Phase = "running" /\ Phase' = "over" /\ UNCHANGED input
        /\ Verdict(returned)' \in {"fulfilled", "rejected"}
    BY <1>4 DEF ProcReturn, ProcStep, Phase, Running, Verdict, procVars, outVars
  <2>2. UNCHANGED Got
    BY <2>1 DEF Got, PiecesRead
  <2> QED BY <1>0, <1>1, <2>1, <2>2 DEF Abstract!Next, Abstract!Finish,
                                        Offered, Got
<1> QED BY <1>2, <1>3, <1>4 DEF Process

\* The body of a new request is offered; a request that arrives knows nothing.
LEMMA ArriveSeen ==
  ASSUME Inv, NEW r \in Requests, NEW k \in Kinds, Arrive(r, k)
  PROVE  Abstract!Next
<1>0. /\ body \in [Requests -> 0 .. MaxWrites] /\ body[r] = 0 /\ answer[r] = "none"
      /\ kind \in [Requests -> Kinds \cup {"none"}]
      /\ UNCHANGED <<input, run, returned, cause, PipeClosed, answer>>
      /\ kind' = [kind EXCEPT ![r] = k]
      /\ \E n : body' = [body EXCEPT ![r] = n]
  BY ArriveKeepsRest DEF Arrive, Inv, IInv, TypeOK, RequestsOK, IdleInv,
                         procVars, outVars, runVars, pipeVars, PipeClosed
<1>1. UNCHANGED <<Got, Phase, Verdict(returned)>>
  BY <1>0 DEF Got, PiecesRead, Phase, Running, Verdict
<1>2. UNCHANGED Told
  <2>1. \A q \in Requests :
          /\ Verdict(answer[q])' = Verdict(answer[q])
          /\ (kind[q] = "status" /\ answer[q] \notin {"none", "pending"})'
               <=> kind[q] = "status" /\ answer[q] \notin {"none", "pending"}
    BY <1>0 DEF Verdict
  <2> QED BY <2>1 DEF Told
<1>3. Offered[r] = {} /\ \A q \in Requests \ {r} : Offered'[q] = Offered[q]
  BY <1>0, ConstantsAssumption DEF Offered
<1>4. Abstract!Offer(r)
  BY <1>0, <1>1, <1>2, <1>3 DEF Abstract!Offer, Offered, Got
<1> QED BY <1>4 DEF Abstract!Next

LEMMA HandleSeen ==
  ASSUME Inv, NEW r \in Requests, Handle(r)
  PROVE  [Abstract!Next]_(Abstract!vars)
<1>0. /\ UNCHANGED <<stage, result, input, run, returned, kind, body>>
      /\ answer \in [Requests -> {"none", "200", "500", "pending"} \cup Results]
      /\ writerClosed \in BOOLEAN /\ readerClosed \in BOOLEAN
      /\ PlaceInv /\ StageInv
  BY HandleKeepsRun DEF sessionVars, runVars, procVars, outVars, Inv, IInv, TypeOK,
                        RequestsOK
<1>1. UNCHANGED <<Offered, Got, Phase, Verdict(returned)>>
  BY <1>0 DEF Offered, Got, PiecesRead, Phase, Running, Verdict
<1>2. ASSUME ~Status(r) PROVE UNCHANGED Told
  <2>1. \/ answer' = answer
        \/ kind[r] # "status" /\ \E a : answer' = [answer EXCEPT ![r] = a]
    BY <1>0, <1>2 DEF Handle, Serve, Send, Write, WriteTurn, WriteFails,
                      WriteRefused, BodyFails,
                      Copied, CloseWith, CloseWriter, CloseReader, Waited,
                      HandlerStep, Answer, PlaceInv, Closers
  <2>2. \A q \in Requests : kind[q] = "status" => answer'[q] = answer[q]
    BY <1>0, <2>1
  <2> QED BY <1>0, <2>2 DEF Told, Verdict
<1>3. CASE Status(r)
  <2>1. /\ UNCHANGED <<cause, PipeClosed>> /\ kind[r] = "status"
        /\ answer' = [answer EXCEPT ![r] = IF stage = "finished" THEN result
                                                                ELSE "pending"]
        /\ at[r] = "status"
    BY <1>0, <1>3 DEF Status, HandlerStep, pipeVars, PipeClosed, PlaceInv
  <2>2. answer[r] = "none"
    BY <2>1 DEF Inv, IdleInv
  <2>3. CASE stage # "finished"
    <3>1. \A q \in Requests :
            /\ answer'[q] \in {"none", "pending"}
                 <=> answer[q] \in {"none", "pending"}
            /\ answer'[q] \notin {"none", "pending"} => answer'[q] = answer[q]
      BY <1>0, <2>1, <2>2, <2>3
    <3>2. UNCHANGED Told
      BY <1>0, <3>1 DEF Told, Verdict
    <3> QED BY <1>0, <2>1, <3>2, Unseen
  <2>4. CASE stage = "finished"
    <3>1. /\ result = returned /\ returned \in Results /\ Phase = "over"
          /\ cause # NoCause
      BY <1>0, <2>4 DEF StageInv, Phase, Running, Inv, CancelledInv, IInv,
                        TypeOK, SessionOK
    <3>2. returned \notin {"none", "pending"}
      BY <3>1 DEF Results
    <3>3. Told' = Told \cup {Verdict(returned)}
      <4>1. \A q \in Requests : q # r => answer'[q] = answer[q]
        BY <1>0, <2>1
      <4>2. answer'[r] = returned
        BY <1>0, <2>1, <2>4, <3>1
      <4>3. \A q \in Requests : q # r => Verdict(answer'[q]) = Verdict(answer[q])
        BY <4>1
      <4> QED BY <1>0, <2>1, <2>2, <3>2, <4>1, <4>2, <4>3 DEF Told
    <3> QED BY <1>1, <2>1, <3>1, <3>3 DEF Abstract!Next, Abstract!Tell, Offered,
                                          Got
  <2> QED BY <2>3, <2>4
<1>4. CASE Write(r) \/ WriteTurn(r) \/ WriteFails(r) \/ WriteRefused(r) \/ BodyFails(r)
           \/ Copied(r) \/ Waited(r)
  <2>1. UNCHANGED <<cause, PipeClosed>> /\ ~Status(r)
    BY <1>0, <1>4 DEF Write, WriteTurn, WriteFails, WriteRefused, BodyFails,
                      Copied, Waited,
                      pipeVars, PipeClosed, Status, HandlerStep
  <2> QED BY <1>0, <1>2, <2>1, Unseen
<1>5. CASE CloseWith(r)
  <2>1. /\ ~Status(r) /\ UNCHANGED PipeClosed /\ kind[r] \in Closers
        /\ Cancel(CauseOf(kind[r]))
    BY <1>0, <1>5 DEF CloseWith, HandlerStep, Status, pipeVars, PipeClosed,
                      PlaceInv
  <2> QED BY <1>0, <1>1, <1>2, <2>1, CancelSeen
<1>6. CASE CloseWriter(r) \/ CloseReader(r)
  <2>1. /\ ~Status(r) /\ UNCHANGED cause
        /\ PipeClosed \in BOOLEAN /\ PipeClosed' = TRUE
    BY <1>0, <1>6 DEF CloseWriter, CloseReader, HandlerStep, Status, PipeClosed
  <2> QED BY <1>0, <1>1, <1>2, <2>1, EndSeen
<1> QED BY <1>3, <1>4, <1>5, <1>6 DEF Handle, Serve, Send

LEMMA StepSeen ==
  ASSUME Inv, Inv', [Next]_vars
  PROVE  [Abstract!Next]_(Abstract!vars)
<1>1. CASE Terminated \/ UNCHANGED vars
  <2>1. UNCHANGED <<body, input, run, returned, PipeClosed, cause, kind, answer>>
    BY <1>1 DEF Terminated, vars, runVars, procVars, outVars, pipeVars, requestVars,
                PipeClosed
  <2>2. UNCHANGED Told
    BY <2>1 DEF Told, Verdict
  <2> QED BY <2>1, <2>2, Unseen
<1> QED BY <1>1, RunSeen, ProcessSeen, ArriveSeen, HandleSeen DEF Next

\* A session implements PowProcess: whatever number of requests work on it at
\* the same time, its clients know one process that reads each body in order and
\* without a gap, has one cause and one outcome, and a status tells the outcome
\* when the process is over and cancelled.
THEOREM SessionIsProcess == Spec => ImplementsProcess
<1>1. Init => Abstract!Init
  <2> SUFFICES ASSUME Init PROVE Abstract!Init
    OBVIOUS
  <2>1. Offered = [r \in Requests |-> {}] /\ Got = [r \in Requests |-> {}]
    <3>0. DOMAIN input = {}
      BY DEF Init
    <3>1. \A r \in Requests : body[r] = 0 /\ PiecesRead(r) = {}
      BY <3>0 DEF Init, PiecesRead
    <3>2. 1 .. (0 * Pieces) = {}
      BY ConstantsAssumption
    <3>3. \A r \in Requests : 1 .. (body[r] * Pieces) = {}
      BY <3>1, <3>2
    <3> QED BY <3>1, <3>3 DEF Offered, Got
  <2>2. Told = {}
    <3>1. \A r \in Requests : kind[r] = "none"
      BY DEF Init
    <3> QED BY <3>1 DEF Told
  <2>3. Phase = "waiting"
    <3>1. run = "off"
      BY DEF Init
    <3> QED BY <3>1 DEF Phase, Running
  <2>4. PipeClosed = FALSE
    BY DEF Init, PipeClosed
  <2>5. Verdict(returned) = "none"
    BY DEF Init, Verdict
  <2> QED BY <2>1, <2>2, <2>3, <2>4, <2>5 DEF Init, Abstract!Init, Offered, Got
<1>2. Inv /\ Inv' /\ [Next]_vars => [Abstract!Next]_(Abstract!vars)
  BY StepSeen
<1> QED BY <1>1, <1>2, InvAlways, PTL DEF Spec, ImplementsProcess, Abstract!Spec

==============================================================================
