----------------------------- MODULE RestSession -----------------------------
(***************************************************************************)
(* One process of the REST server: a Session of internal/rest_impl,        *)
(* session.go, with the handlers of serve.go that work on it.              *)
(*                                                                         *)
(* Every HTTP request is a goroutine of its own; so are the expiry of the  *)
(* session, which vapor finalizes, and its part of Server.Close.  They are *)
(* the Requests.  One more goroutine, "run", runs the process.  They share *)
(* the RWMutex of the session, the context, and an io.Pipe.                *)
(*                                                                         *)
(* The body of an input request is a number of writes, and each write is   *)
(* read in Pieces pieces; the n-th piece of request r is <<r, n>>.         *)
(***************************************************************************)
EXTENDS FiniteBuffer

CONSTANTS
  Requests,   \* bound: the requests there can be
  Kinds,      \* what they ask for
  MaxWrites,  \* bound: the writes a body is copied in
  Pieces,     \* how many reads a write takes
  MaxOutput   \* bound: the lines the process writes

Closers == {"cancel", "expire", "shutdown"}  \* those that call CloseWith

ASSUME ConstantsAssumption ==
  /\ Kinds \subseteq {"status", "input", "closeInput"} \cup Closers
  /\ MaxWrites \in Nat
  /\ Pieces \in Nat \ {0}
  /\ MaxOutput \in Nat

NoCause == "none"

CauseOf(k) == CASE k = "cancel"   -> "ErrCancelClientRequest"
                [] k = "expire"   -> "ErrCancelTimeout"
                [] k = "shutdown" -> "errServerClose"

VARIABLES
  stage,         \* session.stage
  result,        \* session.result and session.err, abstracted to their origin
  cause,         \* the cause of session.context
  writerClosed,  \* session.inw is closed
  readerClosed,  \* session.inr is closed
  run,           \* where run is
  returned,      \* its local variables res and err
  input,         \* the pieces the process has read
  inputEnd,      \* the error its first read after them returned
  output,        \* how many lines it has written
  lines,         \* those that session.out holds
  kind,          \* what each request asks for
  at,            \* where its handler is
  body,          \* how many writes its body takes
  moved,         \* how many pieces of its body were read
  answer,        \* what it was answered: a code, or what a status says
  shown          \* the lines of output a status showed

sessionVars == <<stage, result>>
pipeVars    == <<writerClosed, readerClosed>>
runVars     == <<run, returned>>
outVars     == <<output, lines>>
procVars    == <<input, inputEnd, outVars>>
requestVars == <<kind, at, body, moved, answer, shown>>
vars == <<sessionVars, cause, pipeVars, runVars, procVars, requestVars>>

\* Session.Init
Init ==
  /\ stage = "init"
  /\ result = "none"
  /\ cause = NoCause
  /\ writerClosed = FALSE
  /\ readerClosed = FALSE
  /\ run = "off"
  /\ returned = "none"
  /\ input = <<>>
  /\ inputEnd = "none"
  /\ output = 0
  /\ lines = <<>>
  /\ kind = [r \in Requests |-> "none"]
  /\ at = [r \in Requests |-> "idle"]
  /\ body = [r \in Requests |-> 0]
  /\ moved = [r \in Requests |-> 0]
  /\ answer = [r \in Requests |-> "none"]
  /\ shown = [r \in Requests |-> <<>>]

\* Mutant: a context remembers the last cause.
CancelLast(c) == cause' = c

\* A context remembers the first cause it is cancelled with.
Cancel(c) == cause' = IF cause = NoCause THEN c ELSE cause

\* Mutant: CloseWith waits for the process while it holds the lock.
HoldsReadLockWaiting(r) ==
  kind[r] \in Closers /\ at[r] \in {"cancel", "closeWriter", "closeReader", "wait"}

\* CloseWith holds the lock for reading while it cancels and closes.
HoldsReadLock(r) ==
  kind[r] \in Closers /\ at[r] \in {"cancel", "closeWriter", "closeReader"}

PipeClosed == writerClosed \/ readerClosed

\* Session.m can be locked for writing.  Status takes it and gives it back in
\* one step.
Unlocked == \A r \in Requests : ~HoldsReadLock(r)

-----------------------------------------------------------------------------
(* Session.Start and Session.run. *)

RunStep(from, to) ==
  /\ run = from
  /\ run' = to
  /\ UNCHANGED <<procVars, requestVars, readerClosed>>

\* serveNew starts the session it has just got from vapor.
Start ==
  /\ RunStep("off", "get")
  /\ stage = "init"
  /\ Unlocked
  /\ stage' = "running"
  /\ UNCHANGED <<result, cause, writerClosed, returned>>

Get ==
  /\ RunStep("get", "do")
  /\ UNCHANGED <<sessionVars, cause, writerClosed, returned>>

\* The handler returns an error or panics: there is no process to run.
GetFails ==
  /\ RunStep("get", "closeInput")
  /\ returned' \in {"handler error", "panic"}
  /\ UNCHANGED <<sessionVars, cause, writerClosed>>

\* Mutant: the deferred Close of the input is missing.
RunLeaveInput ==
  /\ RunStep("closeInput", "cancel")
  /\ UNCHANGED <<sessionVars, cause, writerClosed, returned>>

RunCloseInput ==
  /\ RunStep("closeInput", "cancel")
  /\ writerClosed' = TRUE
  /\ UNCHANGED <<sessionVars, cause, returned>>

RunCancel ==
  /\ RunStep("cancel", "finish")
  /\ Cancel("ErrCancelHandlerReturn")
  /\ UNCHANGED <<sessionVars, writerClosed, returned>>

\* Mutant: a panic leaves no result behind.
RunFinishNoPanic ==
  /\ RunStep("finish", "closeDone")
  /\ Unlocked
  /\ result' = IF returned = "panic" THEN "none" ELSE returned
  /\ stage' = "finished"
  /\ UNCHANGED <<cause, writerClosed, returned>>

RunFinish ==
  /\ RunStep("finish", "closeDone")
  /\ Unlocked
  /\ result' = returned
  /\ stage' = "finished"
  /\ UNCHANGED <<cause, writerClosed, returned>>

RunCloseDone ==
  /\ RunStep("closeDone", "done")
  /\ UNCHANGED <<sessionVars, cause, writerClosed, returned>>

\* Mutant: done is closed by the deferred function that runs first.
DoneEarly == run \notin {"off", "get", "do", "closeInput"}

\* session.done is closed.
Done == run = "done"

Run ==
  Get \/ GetFails \/ RunCloseInput \/ RunCancel \/ RunFinish \/ RunCloseDone

-----------------------------------------------------------------------------
(* The process, which may do as it likes. *)

Running == run = "do"

ProcStep ==
  /\ Running
  /\ UNCHANGED <<sessionVars, cause, pipeVars>>

\* A read of the pipe meets the write of request r.
ProcRead(r) ==
  /\ ProcStep
  /\ at[r] = "piping"
  /\ ~PipeClosed
  /\ input' = Append(input, <<r, moved[r] + 1>>)
  /\ moved' = [moved EXCEPT ![r] = @ + 1]
  /\ at' = [at EXCEPT ![r] = IF (moved[r] + 1) % Pieces = 0 THEN "copy" ELSE @]
  /\ UNCHANGED <<runVars, inputEnd, outVars, kind, body, answer,
                 shown>>

\* The pipe is closed: its read end has the say if it was closed as well.
ProcReadEnd ==
  /\ ProcStep
  /\ PipeClosed
  /\ inputEnd = "none"
  /\ inputEnd' = IF readerClosed THEN "io.ErrClosedPipe" ELSE "io.EOF"
  /\ UNCHANGED <<runVars, input, outVars, requestVars>>

ProcWrite ==
  /\ ProcStep
  /\ output < MaxOutput
  /\ output' = output + 1
  /\ lines' = Add(lines, output')
  /\ UNCHANGED <<runVars, input, inputEnd, requestVars>>

ProcReturn ==
  /\ ProcStep
  /\ run' = "closeInput"
  /\ returned' \in {"value", "process error", "panic"}
  /\ UNCHANGED <<procVars, requestVars>>

Process ==
  \/ \E r \in Requests : ProcRead(r)
  \/ ProcReadEnd \/ ProcWrite \/ ProcReturn

-----------------------------------------------------------------------------
(* The requests.  A client learns the id of the session when it was started, *)
(* and vapor forgets it before it finalizes it and after it was shut down.   *)

Forgotten ==
  \E r \in Requests : \/ kind[r] = "expire"
                      \/ kind[r] = "shutdown" /\ at[r] = "answered"

\* Server.Close may be called more than once, and all its calls find a session
\* that is still there.
Found(k) ==
  /\ ~Forgotten
  /\ k \in {"expire", "shutdown"} \/ stage # "init"

Entry(k) == CASE k = "status" -> "status"
              [] k = "input" -> "copy"
              [] k = "closeInput" -> "closeWriter"
              [] OTHER -> "cancel"

Arrive(r, k) ==
  /\ at[r] = "idle"
  /\ Found(k)
  /\ kind' = [kind EXCEPT ![r] = k]
  /\ at' = [at EXCEPT ![r] = Entry(k)]
  /\ \E n \in IF k = "input" THEN 0 .. MaxWrites ELSE {0} :
       body' = [body EXCEPT ![r] = n]
  /\ UNCHANGED <<sessionVars, cause, pipeVars, runVars, procVars, moved,
                 answer, shown>>

HandlerStep(r, from, to) ==
  /\ at[r] = from
  /\ at' = [at EXCEPT ![r] = to]
  /\ UNCHANGED <<sessionVars, runVars, procVars, kind, body, moved>>

Answer(r, a) ==
  /\ answer' = [answer EXCEPT ![r] = a]
  /\ UNCHANGED shown

\* Session.Status, as Status.MarshalJSON writes it: pending without a result.
Status(r) ==
  /\ HandlerStep(r, "status", "answered")
  /\ answer' = [answer EXCEPT ![r] = IF stage = "finished" THEN result ELSE "pending"]
  /\ shown' = [shown EXCEPT ![r] = lines]
  /\ UNCHANGED <<cause, pipeVars>>

\* serveInput: io.Copy waits until the client has sent a part of the body, and
\* writes it to the pipe.  The pipe refuses it if it is closed ...
MoreBody(r) == moved[r] < body[r] * Pieces

Write(r) ==
  /\ HandlerStep(r, "copy", "turn")
  /\ MoreBody(r)
  /\ ~PipeClosed
  /\ UNCHANGED <<cause, pipeVars, answer, shown>>

\* Mutant: the error is not checked.
WriteRefusedUnchecked(r) ==
  /\ HandlerStep(r, "copy", "answered")
  /\ MoreBody(r)
  /\ PipeClosed
  /\ Answer(r, "200")
  /\ UNCHANGED <<cause, pipeVars>>

WriteRefused(r) ==
  /\ HandlerStep(r, "copy", "answered")
  /\ MoreBody(r)
  /\ PipeClosed
  /\ Answer(r, "500")
  /\ UNCHANGED <<cause, pipeVars>>

\* ... or has it wait until no other write is under way ...
WriteTurn(r) ==
  /\ HandlerStep(r, "turn", "piping")
  /\ \A q \in Requests : at[q] # "piping"
  /\ UNCHANGED <<cause, pipeVars, answer, shown>>

\* ... and fails it if it is closed while the write waits for a reader.
WriteFails(r) ==
  /\ HandlerStep(r, "piping", "answered")
  /\ PipeClosed
  /\ Answer(r, "500")
  /\ UNCHANGED <<cause, pipeVars>>

\* The client goes away before it has sent all of the body.
BodyFails(r) ==
  /\ HandlerStep(r, "copy", "answered")
  /\ MoreBody(r)
  /\ Answer(r, "500")
  /\ UNCHANGED <<cause, pipeVars>>

\* Mutant: the end of the body ends the input.
CopiedClosing(r) ==
  /\ HandlerStep(r, "copy", "answered")
  /\ ~MoreBody(r)
  /\ Answer(r, "200")
  /\ writerClosed' = TRUE
  /\ UNCHANGED <<cause, readerClosed>>

Copied(r) ==
  /\ HandlerStep(r, "copy", "answered")
  /\ ~MoreBody(r)
  /\ Answer(r, "200")
  /\ UNCHANGED <<cause, pipeVars>>

\* The steps of serveInput that wait for its client: for more of the body, for
\* its end, or for the end of the connection.
Send(r) == Write(r) \/ WriteRefused(r) \/ BodyFails(r) \/ Copied(r)

\* Mutant: CloseWith leaves the input open.
CloseWithLeavesInput(r) ==
  /\ HandlerStep(r, "cancel", "wait")
  /\ Cancel(CauseOf(kind[r]))
  /\ UNCHANGED <<pipeVars, answer, shown>>

\* CloseWith cancels the context first.
CloseWith(r) ==
  /\ HandlerStep(r, "cancel", "closeWriter")
  /\ Cancel(CauseOf(kind[r]))
  /\ UNCHANGED <<pipeVars, answer, shown>>

\* CloseInput
CloseWriter(r) ==
  /\ HandlerStep(r, "closeWriter", "closeReader")
  /\ writerClosed' = TRUE
  /\ UNCHANGED <<cause, readerClosed, answer, shown>>

\* serveCloseInput answers; CloseWith gives the lock back.
CloseReader(r) ==
  /\ readerClosed' = TRUE
  /\ IF kind[r] = "closeInput"
       THEN HandlerStep(r, "closeReader", "answered") /\ Answer(r, "200")
       ELSE HandlerStep(r, "closeReader", "wait") /\ UNCHANGED <<answer, shown>>
  /\ UNCHANGED <<cause, writerClosed>>

Waited(r) ==
  /\ HandlerStep(r, "wait", "answered")
  /\ Done
  /\ Answer(r, "200")
  /\ UNCHANGED <<cause, pipeVars>>

\* The steps of the handlers that wait for the server, or for the process.
Serve(r) ==
  \/ Status(r)
  \/ WriteTurn(r) \/ WriteFails(r)
  \/ CloseWith(r) \/ CloseWriter(r) \/ CloseReader(r) \/ Waited(r)

Handle(r) == Serve(r) \/ Send(r)

\* All requests were answered and the process has ended.
Terminated ==
  /\ run = "done"
  /\ \A r \in Requests : at[r] \in {"idle", "answered"}
  /\ UNCHANGED vars

Next ==
  \/ Start \/ Run \/ Process
  \/ \E r \in Requests : Handle(r) \/ \E k \in Kinds : Arrive(r, k)
  \/ Terminated

Spec == Init /\ [][Next]_vars

-----------------------------------------------------------------------------
(* Fairness: the Go scheduler runs every goroutine that can move, a mutex is *)
(* given to everyone who waits for it, and the handler finds its process.    *)
(* A client may keep the handler of its input request waiting for ever.      *)

ServerFairness ==
  /\ WF_vars(Start)
  /\ WF_vars(Run)
  /\ \A r \in Requests : WF_vars(Serve(r))

\* The server alone; the process may hang.
ServerSpec == Spec /\ ServerFairness

\* Clients that send the rest of a body, or go away.
SendingClients == WF_vars(\E r \in Requests : Send(r))

\* A process that returns once its context is cancelled.
CancellableProcess == WF_vars(cause # NoCause /\ ProcReturn)

\* A process that ignores its context and reads until the end of its input,
\* as the echo process of cmd/exampleserver does.
ReadingProcess ==
  /\ WF_vars(\E r \in Requests : ProcRead(r))
  /\ WF_vars(ProcReadEnd)
  /\ WF_vars(inputEnd # "none" /\ ProcReturn)

-----------------------------------------------------------------------------
(* Properties. *)

Results == {"value", "process error", "panic", "handler error"}

SessionOK ==
  /\ stage \in {"init", "running", "finished"}
  /\ result \in IF stage = "finished" THEN Results ELSE {"none"}
  /\ returned \in Results \cup {"none"}
  /\ cause \in {CauseOf(k) : k \in Closers} \cup {"ErrCancelHandlerReturn", NoCause}
  /\ run \in {"off", "get", "do", "closeInput", "cancel", "finish", "closeDone",
              "done"}
  /\ inputEnd \in {"none", "io.EOF", "io.ErrClosedPipe"}
  /\ output \in 0 .. MaxOutput
  /\ lines \in Seq(1 .. MaxOutput) /\ Len(lines) <= MaxLines

RequestsOK ==
  /\ kind \in [Requests -> Kinds \cup {"none"}]
  /\ at \in [Requests -> {"idle", "status", "copy", "turn", "piping", "cancel",
                          "closeWriter", "closeReader", "wait", "answered"}]
  /\ body \in [Requests -> 0 .. MaxWrites]
  /\ moved \in [Requests -> Nat]
  /\ \A r \in Requests : moved[r] <= body[r] * Pieces
  /\ answer \in [Requests -> {"none", "200", "500", "pending"} \cup Results]
  /\ shown \in [Requests -> Seq(1 .. MaxOutput)]

\* Every variable has its type, a session that is finished has a result, and no
\* request moves more than its body.
TypeOK ==
  /\ writerClosed \in BOOLEAN /\ readerClosed \in BOOLEAN
  /\ input \in Seq(Requests \X Nat)
  /\ SessionOK
  /\ RequestsOK

\* Whatever the process reads belongs to an input request, in order and without
\* a gap, no write is torn apart by another request, and a request is answered
\* 200 only if the process has read all of its body.
InputWhole ==
  /\ \A k \in DOMAIN input :
       /\ \A n \in 1 .. (input[k][2] - 1) :
            \E l \in 1 .. (k - 1) : input[l] = <<input[k][1], n>>
       /\ \A l \in 1 .. (k - 1) :
            input[l][1] = input[k][1] => input[l][2] < input[k][2]
  /\ \A k \in 1 .. (Len(input) - 1) :
       input[k][2] % Pieces # 0 => input[k + 1] = <<input[k][1], input[k][2] + 1>>
  /\ \A r \in Requests :
       kind[r] = "input" /\ answer[r] = "200" =>
         \A n \in 1 .. (body[r] * Pieces) : \E k \in DOMAIN input : input[k] = <<r, n>>

\* A running process sees its context cancelled or its input at an end only if
\* somebody asked for it; and if the session was cancelled, the context tells
\* so before the input ends.
EndHonest ==
  Running =>
    /\ cause # NoCause =>
         \E r \in Requests : kind[r] \in Closers /\ cause = CauseOf(kind[r])
    /\ PipeClosed =>
         cause # NoCause \/ \E r \in Requests : kind[r] = "closeInput"

\* A status shows the last lines, MaxLines at most, of what the process had
\* written at some moment.  A status with a result has the result of the
\* process, which goes on no more, and the last lines of all it has written.
StatusHonest ==
  \A r \in Requests :
    kind[r] = "status" /\ at[r] = "answered" =>
      /\ \E n \in 0 .. output : shown[r] = LastLines(n)
      /\ answer[r] # "pending" =>
           /\ answer[r] = returned /\ returned # "none"
           /\ shown[r] = LastLines(output)
           /\ ~Running

\* The client has been told that the process has ended.
Settled ==
  \E r \in Requests :
    /\ at[r] = "answered"
    /\ \/ kind[r] \in Closers
       \/ kind[r] = "status" /\ answer[r] # "pending"

\* After the answer to a cancel request, or a status with a result, no status
\* says "pending": what the client was told stays true.
SettledStays ==
  [][\A r \in Requests :
       Settled /\ at[r] = "status" /\ at'[r] = "answered"
         => answer'[r] # "pending"]_vars

-----------------------------------------------------------------------------
(* What clients are promised, and how the session keeps it. *)

Verdict(r) == CASE r = "none" -> "none" [] r = "value" -> "fulfilled"
                [] OTHER -> "rejected"

Phase == CASE run \in {"off", "get"} -> "waiting"
           [] Running -> "running"
           [] OTHER -> "over"

PiecesRead(r) == {input[k][2] : k \in {k \in DOMAIN input : input[k][1] = r}}

Told ==
  {Verdict(answer[r]) : r \in {r \in Requests :
     kind[r] = "status" /\ answer[r] \notin {"none", "pending"}}}

Abstract == INSTANCE PowProcess WITH
  Writers <- Requests,
  Causes  <- {CauseOf(k) : k \in Closers} \cup {"ErrCancelHandlerReturn"},
  phase   <- Phase,
  offered <- [r \in Requests |-> 1 .. (body[r] * Pieces)],
  got     <- [r \in Requests |-> PiecesRead(r)],
  ended   <- PipeClosed,
  outcome <- Verdict(returned),
  told    <- Told

\* A session implements PowProcess, whatever its requests do at the same time.
ImplementsProcess == Abstract!Spec

Pending(kinds)  == \E r \in Requests : kind[r] \in kinds /\ at[r] # "answered"
Answered(kinds) == ~Pending(kinds)

\* Every cancel request is answered, and expiry and Server.Close come to an end,
\* before the process was started too, if it returns when its context is
\* cancelled: neither the lock, nor the pipe, nor a client that stalls keeps
\* any of them waiting for ever.
ClosersAnswered ==
  CancellableProcess => (Pending(Closers) ~> Answered(Closers))

\* The input requests that nobody reads are answered once the process is
\* cancelled or has returned, if their clients send them or go away.
InputReleased ==
  CancellableProcess /\ SendingClients =>
    ((cause # NoCause /\ Pending({"input"})) ~> Answered({"input"}))

\* A process that only looks at its input finishes after a cancel request, after
\* its expiry, and after Server.Close, as it does after a closeInput request.
ReaderFinishes ==
  ReadingProcess =>
    ((\E r \in Requests : kind[r] \in Closers \cup {"closeInput"})
       ~> (stage = "finished"))

\* internal/rest_impl/openapi.json:295 "Close the standard input of a process
\* and prevent any further input from being sent": a process whose input was
\* closed, and nothing else, sees the end of its standard input.
ClosedInputIsEOF ==
  (\A r \in Requests : kind[r] \notin Closers) => inputEnd # "io.ErrClosedPipe"

==============================================================================
