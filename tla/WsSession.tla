------------------------------ MODULE WsSession ------------------------------
(***************************************************************************)
(* One websocket connection, as internal/ws_impl/serve.go handles it.      *)
(*                                                                         *)
(* Three goroutines serve a connection: "serve" itself, which waits for    *)
(* the call message, runs the process and then executes its deferred       *)
(* functions; the "pump", which sorts the frames of the client; and the    *)
(* "feeder", which copies input text into the pipe the process reads.      *)
(* The process, the handler and the client are the environment.            *)
(*                                                                         *)
(* A frame is known by its position in sent, so a text that travels        *)
(* through the channel and the pipe is a number, and Nil is the flag value *)
(* that ends the input.  The textMessages channel is kept as the log of    *)
(* all that was ever sent on it (texts) and the number of values received  *)
(* from it (taken); what the channel buffers is the difference.            *)
(***************************************************************************)
EXTENDS Naturals, Sequences

CONSTANTS
  MessageBufferSize,  \* capacity of the textMessages channel (5 in the code)
  Kinds,              \* the kinds of frames the client sends
  MaxFrames,          \* bound: how many frames the client sends
  MaxOutput           \* bound: how many frames a connection carries back
                      \* before its process stops writing

TextKinds   == {"text", "empty"}     \* "empty" arrives with a nil body
BinaryKinds == {"call", "close", "cancel", "garbage"}  \* "garbage": no JSON

ASSUME ConstantsAssumption ==
  /\ MessageBufferSize \in Nat \ {0}
  /\ Kinds \subseteq TextKinds \cup BinaryKinds \cup {"other"}
  /\ MaxFrames \in Nat
  /\ MaxOutput \in Nat

Nil     == 0
NoCause == "none"

\* The special errors of proto/handler.go a context may be cancelled with.
ErrCancel == {"ErrCancelClientGone", "ErrCancelHandlerReturn",
              "ErrCancelClientRequest", "ErrCancelProtocolError",
              "ErrCancelTimeout"}

VARIABLES
  sent,             \* the frames the client has sent, in order
  connDone,         \* conn.Context() is done
  out,              \* the frames the server has sent
  nread,            \* how many frames the pump has received from conn.Read()
  initialMessage,   \* position of the initial binary message, 0 if none yet
  hadCancelBefore,  \* local variable of the pump
  pump,             \* where the pump is: "select", "send" or "done"
  pumpMsg,          \* what the pump is sending to textMessages
  texts,            \* all values ever sent on textMessages
  taken,            \* how many values were received from textMessages
  feeder,           \* "off", "range", "write", "drain" or "done"
  writerClosed,     \* the write end of the pipe is closed
  input,            \* what the process has read from the pipe
  cause,            \* the cause of ctx, NoCause while it is not cancelled
  serve,            \* where serve is
  result            \* the named results of serve, abstracted to their origin

clientVars == <<sent, connDone>>
pumpVars   == <<nread, initialMessage, hadCancelBefore, pump, pumpMsg>>
chanVars   == <<texts, taken>>
pipeVars   == <<writerClosed, input>>
serveVars  == <<serve, result>>
vars == <<clientVars, out, pumpVars, chanVars, feeder, pipeVars, cause,
          serveVars>>

Init ==
  /\ sent = <<>>
  /\ connDone = FALSE
  /\ out = <<>>
  /\ nread = 0
  /\ initialMessage = 0
  /\ hadCancelBefore = FALSE
  /\ pump = "select"
  /\ pumpMsg = Nil
  /\ texts = <<>>
  /\ taken = 0
  /\ feeder = "off"
  /\ writerClosed = FALSE
  /\ input = <<>>
  /\ cause = NoCause
  /\ serve = "call"
  /\ result = "none"

\* Mutant: a context remembers the last cause.
CancelLast(c) == cause' = c

\* A context remembers the first cause it is cancelled with.
Cancel(c) == cause' = IF cause = NoCause THEN c ELSE cause

-----------------------------------------------------------------------------
(* The connection, websocketx.Connection, as serve uses it. *)

ConnStep ==
  UNCHANGED <<out, pumpVars, chanVars, feeder, pipeVars, serveVars>>

ClientSend(k) ==
  /\ ~connDone
  /\ Len(sent) < MaxFrames
  /\ sent' = Append(sent, k)
  /\ ConnStep /\ UNCHANGED <<connDone, cause>>

\* The client goes away, the server is closed, or the closing handshake that
\* ShutdownWith began completes.
ConnEnd ==
  /\ ~connDone
  /\ connDone' = TRUE
  /\ ConnStep /\ UNCHANGED <<sent, cause>>

\* ctx is a child of conn.Context(): once its parent is done it is cancelled
\* with the cause of the parent, which belongs to package websocketx.  The
\* channel of the parent is closed before the child is cancelled, so the pump
\* may come first.
Propagate ==
  /\ connDone
  /\ cause = NoCause
  /\ cause' = "connection"
  /\ ConnStep /\ UNCHANGED clientVars

-----------------------------------------------------------------------------
(* The pump. *)

NextFrame == sent[nread + 1]

Receive ==
  /\ pump = "select"
  /\ nread < Len(sent)
  /\ nread' = nread + 1
  /\ UNCHANGED <<clientVars, out, chanVars, feeder, pipeVars, serveVars>>

\* The pump goes on to send m on textMessages, where it may block.
SendText(m) ==
  /\ pump' = "send"
  /\ pumpMsg' = m

StayInSelect == UNCHANGED <<pump, pumpMsg>>

\* Mutant: the nil body of an empty text is sent as it is.
PumpTextNilBody ==
  /\ Receive
  /\ NextFrame \in TextKinds
  /\ SendText(IF NextFrame = "empty" THEN Nil ELSE nread + 1)
  /\ UNCHANGED <<initialMessage, hadCancelBefore, cause>>

\* Mutant: the pump drops a text rather than wait for room in the channel.
PumpTextDrop ==
  /\ Receive
  /\ NextFrame \in TextKinds
  /\ IF Len(texts) - taken < MessageBufferSize
       THEN SendText(nread + 1) ELSE StayInSelect
  /\ UNCHANGED <<initialMessage, hadCancelBefore, cause>>

\* A text with a nil body is sent as an empty one: only a signal sends Nil.
PumpText ==
  /\ Receive
  /\ NextFrame \in TextKinds
  /\ SendText(nread + 1)
  /\ UNCHANGED <<initialMessage, hadCancelBefore, cause>>

PumpIgnore ==
  /\ Receive
  /\ NextFrame \notin TextKinds \cup BinaryKinds
  /\ StayInSelect /\ UNCHANGED <<initialMessage, hadCancelBefore, cause>>

PumpInitial ==
  /\ Receive
  /\ NextFrame \in BinaryKinds
  /\ initialMessage = 0
  /\ initialMessage' = nread + 1
  /\ StayInSelect /\ UNCHANGED <<hadCancelBefore, cause>>

\* Mutant: the initial message is also taken for a signal.
ReceiveSignalAlways(kinds) ==
  /\ Receive
  /\ NextFrame \in kinds
  /\ UNCHANGED initialMessage

ReceiveSignal(kinds) ==
  /\ Receive
  /\ initialMessage # 0
  /\ NextFrame \in kinds
  /\ UNCHANGED initialMessage

\* No JSON, or JSON without a known signal.
PumpBadSignal ==
  /\ ReceiveSignal({"garbage", "call"})
  /\ Cancel("ErrCancelProtocolError")
  /\ StayInSelect /\ UNCHANGED hadCancelBefore

PumpClose ==
  /\ ReceiveSignal({"close"})
  /\ SendText(Nil)
  /\ UNCHANGED <<hadCancelBefore, cause>>

PumpCancel ==
  /\ ReceiveSignal({"cancel"})
  /\ ~hadCancelBefore
  /\ hadCancelBefore' = TRUE
  /\ Cancel("ErrCancelClientRequest")
  /\ StayInSelect

\* Mutant: the second cancel is ignored.
PumpCancelIgnored ==
  /\ ReceiveSignal({"cancel"})
  /\ hadCancelBefore
  /\ StayInSelect
  /\ UNCHANGED <<hadCancelBefore, cause>>

\* The second cancel also ends the input.
PumpCancelAgain ==
  /\ ReceiveSignal({"cancel"})
  /\ hadCancelBefore
  /\ SendText(Nil)
  /\ UNCHANGED <<hadCancelBefore, cause>>

PumpSend ==
  /\ pump = "send"
  /\ Len(texts) - taken < MessageBufferSize
  /\ texts' = Append(texts, pumpMsg)
  /\ pump' = "select"
  /\ pumpMsg' = Nil
  /\ UNCHANGED <<clientVars, out, nread, initialMessage, hadCancelBefore,
                 taken, feeder, pipeVars, cause, serveVars>>

\* The deferred functions close initialMessage and textMessages.
PumpExit ==
  /\ pump = "select"
  /\ connDone
  /\ Cancel("ErrCancelClientGone")
  /\ pump' = "done"
  /\ UNCHANGED <<clientVars, out, nread, initialMessage, hadCancelBefore,
                 pumpMsg, chanVars, feeder, pipeVars, serveVars>>

ChannelsClosed == pump = "done"

Pump ==
  \/ PumpText \/ PumpIgnore \/ PumpInitial
  \/ PumpBadSignal \/ PumpClose \/ PumpCancel \/ PumpCancelAgain
  \/ PumpSend \/ PumpExit

-----------------------------------------------------------------------------
(* The feeder. *)

FeederStep(from, to) ==
  /\ feeder = from
  /\ feeder' = to
  /\ UNCHANGED <<clientVars, out, pumpVars, texts, cause, serveVars>>

Take ==
  /\ taken < Len(texts)
  /\ taken' = taken + 1

\* Mutant: what the closed channel still buffers is lost.
TextsCutShort ==
  /\ ChannelsClosed
  /\ UNCHANGED taken

NoMoreTexts ==
  /\ taken = Len(texts)
  /\ ChannelsClosed
  /\ UNCHANGED taken

FeederTakeText ==
  /\ FeederStep("range", "write")
  /\ Take
  /\ texts[taken + 1] # Nil
  /\ UNCHANGED pipeVars

\* Mutant: the flag is skipped, the loop goes on.
FeederSkipNil ==
  /\ FeederStep("range", "range")
  /\ Take
  /\ texts[taken + 1] = Nil
  /\ UNCHANGED pipeVars

FeederTakeNil ==
  /\ FeederStep("range", "drain")
  /\ Take
  /\ texts[taken + 1] = Nil
  /\ writerClosed' = TRUE
  /\ UNCHANGED input

FeederEnd ==
  /\ FeederStep("range", "done")
  /\ NoMoreTexts
  /\ writerClosed' = TRUE
  /\ UNCHANGED input

\* writer.Write returns an error, which the feeder ignores.
FeederWriteFails ==
  /\ FeederStep("write", "range")
  /\ writerClosed
  /\ UNCHANGED <<taken, pipeVars>>

FeederDrain ==
  /\ FeederStep("drain", "drain")
  /\ Take
  /\ UNCHANGED pipeVars

FeederDrained ==
  /\ FeederStep("drain", "done")
  /\ NoMoreTexts
  /\ UNCHANGED pipeVars

Feeder ==
  \/ FeederTakeText \/ FeederTakeNil \/ FeederEnd
  \/ FeederWriteFails \/ FeederDrain \/ FeederDrained

-----------------------------------------------------------------------------
(* The process, which may do as it likes while process.Do runs. *)

Running == serve = "run"

\* Write and Read of an io.Pipe meet: the feeder goes on when it was read.
ProcRead ==
  /\ Running
  /\ FeederStep("write", "range")
  /\ ~writerClosed
  /\ input' = Append(input, texts[taken])
  /\ UNCHANGED <<taken, writerClosed>>

ServeStep(from, to) ==
  /\ serve = from
  /\ serve' = to
  /\ UNCHANGED <<clientVars, pumpVars, chanVars, input>>

\* A write fails once the connection is done; the process learns that.
ProcWrite ==
  /\ ServeStep("run", "run")
  /\ ~connDone
  /\ Len(out) < MaxOutput
  /\ out' = Append(out, "output")
  /\ UNCHANGED <<feeder, writerClosed, cause, result>>

\* A value, an error, or a panic that the first deferred function recovers.
ProcReturn(r) ==
  /\ ServeStep("run", "closeWriter")
  /\ result' = r
  /\ UNCHANGED <<out, feeder, writerClosed, cause>>

ProcessResults == {"value", "process error", "panic"}

ReturnSomehow == \E r \in ProcessResults : ProcReturn(r)

Process == ProcRead \/ ProcWrite \/ ReturnSomehow

-----------------------------------------------------------------------------
(* serve, up to process.Do. *)

\* Return before the pipe exists: its deferred Close is not registered yet.
Fail(from, r) ==
  /\ ServeStep(from, "cancelCtx")
  /\ result' = r
  /\ UNCHANGED <<out, feeder, writerClosed, cause>>

CallReceived == initialMessage # 0

ServeCall ==
  /\ ServeStep("call", "get")
  /\ CallReceived
  /\ sent[initialMessage] # "garbage"
  /\ UNCHANGED <<out, feeder, writerClosed, cause, result>>

\* Not a call message, or the channel was closed before there was one.
ServeBadCall ==
  /\ IF CallReceived THEN sent[initialMessage] = "garbage"
                     ELSE ChannelsClosed
  /\ Fail("call", "ErrCancelProtocolError")

\* readCallTimeout may expire at any time, even when the call is there.
ServeTimeout == Fail("call", "ErrCancelTimeout")

ServeGet ==
  /\ ServeStep("get", "run")
  /\ feeder' = "range"
  /\ UNCHANGED <<out, writerClosed, cause, result>>

\* The handler returns an error or panics.
ServeGetFails == \E r \in {"handler error", "panic"} : Fail("get", r)

-----------------------------------------------------------------------------
(* serve, its deferred functions: the last one registered comes first. *)

\* Mutant: no deferred Close of the writer.
ServeLeaveWriter ==
  /\ ServeStep("closeWriter", "cancelCtx")
  /\ UNCHANGED <<out, feeder, writerClosed, cause, result>>

ServeCloseWriter ==
  /\ ServeStep("closeWriter", "cancelCtx")
  /\ writerClosed' = TRUE
  /\ UNCHANGED <<out, feeder, cause, result>>

ServeCancelCtx ==
  /\ ServeStep("cancelCtx", "report")
  /\ Cancel("ErrCancelHandlerReturn")
  /\ UNCHANGED <<out, feeder, writerClosed, result>>

\* Mutant: a recovered panic leaves no result behind.
StatusPanicPending(r) ==
  CASE r = "value" -> "fulfilled" [] r = "panic" -> "pending"
    [] OTHER -> "rejected"

\* proto.Result.MarshalJSON
Status(r) == IF r = "value" THEN "fulfilled" ELSE "rejected"

\* Mutant: the deferred report runs before the deferred cancel.
ServeReportEarly ==
  /\ ServeStep("cancelCtx", "shutdown")
  /\ ~connDone
  /\ out' = Append(out, Status(result))
  /\ UNCHANGED <<feeder, writerClosed, cause, result>>

ServeReport ==
  /\ ServeStep("report", "shutdown")
  /\ ~connDone
  /\ out' = Append(out, Status(result))
  /\ UNCHANGED <<feeder, writerClosed, cause, result>>

\* The connection is done, or the write fails because it is.
ServeReportSkip ==
  /\ ServeStep("report", "wait")
  /\ connDone
  /\ UNCHANGED <<out, feeder, writerClosed, cause, result>>

ServeShutdown ==
  /\ ServeStep("shutdown", "wait")
  /\ out' = IF connDone THEN out ELSE Append(out, "close")
  /\ UNCHANGED <<feeder, writerClosed, cause, result>>

\* wg.Wait: the pump, and the feeder if it was started.
ServeWait ==
  /\ ServeStep("wait", "done")
  /\ pump = "done"
  /\ feeder \in {"off", "done"}
  /\ UNCHANGED <<out, feeder, writerClosed, cause, result>>

Serve ==
  \/ ServeCall \/ ServeBadCall \/ ServeTimeout \/ ServeGet \/ ServeGetFails
  \/ ServeCloseWriter \/ ServeCancelCtx
  \/ ServeReport \/ ServeReportSkip \/ ServeShutdown \/ ServeWait

\* Everything has been wound down: only here may the system stop.
Terminated == serve = "done" /\ UNCHANGED vars

Next ==
  \/ \E k \in Kinds : ClientSend(k)
  \/ ConnEnd \/ Propagate
  \/ Pump \/ Feeder \/ Process \/ Serve
  \/ Terminated

Spec == Init /\ [][Next]_vars

-----------------------------------------------------------------------------
(* Fairness: the Go scheduler runs every goroutine that can move, a timer   *)
(* expires, and a closing handshake comes to an end.                        *)

Closing == out # <<>> /\ out[Len(out)] = "close"

ServerFairness ==
  /\ WF_vars(Pump)
  /\ WF_vars(Feeder)
  /\ WF_vars(Serve)
  /\ WF_vars(Propagate)
  /\ WF_vars(Closing /\ ConnEnd)

\* The server alone; the process may hang.
ServerSpec == Spec /\ ServerFairness

\* A process that returns once its context is cancelled.
CancellableProcess == WF_vars(cause # NoCause /\ ReturnSomehow)

\* A process that ignores its context and reads until the end of its input,
\* as the echo process of cmd/exampleserver does.
ReadingProcess == WF_vars(ProcRead) /\ WF_vars(writerClosed /\ ReturnSomehow)

-----------------------------------------------------------------------------
(* Properties. *)

FlagsOK ==
  /\ connDone \in BOOLEAN
  /\ hadCancelBefore \in BOOLEAN
  /\ writerClosed \in BOOLEAN

PlacesOK ==
  /\ pump \in {"select", "send", "done"}
  /\ feeder \in {"off", "range", "write", "drain", "done"}
  /\ serve \in {"call", "get", "run", "closeWriter", "cancelCtx", "report",
                "shutdown", "wait", "done"}
  /\ cause \in ErrCancel \cup {NoCause, "connection"}
  /\ result \in ProcessResults \cup
                {"none", "handler error", "ErrCancelProtocolError",
                 "ErrCancelTimeout"}

MessagesOK ==
  /\ sent \in Seq(Kinds)
  /\ out \in Seq({"output", "fulfilled", "rejected", "close"})
  /\ nread \in 0 .. Len(sent)
  /\ initialMessage \in 0 .. nread
  /\ pumpMsg \in 0 .. nread
  /\ texts \in Seq(Nat)
  /\ taken \in 0 .. Len(texts)
  /\ Len(texts) - taken <= MessageBufferSize
  /\ input \in Seq(Nat)

\* Every variable has its type, and textMessages never buffers more than its
\* capacity.
TypeOK == FlagsOK /\ PlacesOK /\ MessagesOK

IsText(i) == sent[i] \in TextKinds

\* A frame the protocol takes for a signal: any binary frame but the first.
IsSignal(i) ==
  /\ sent[i] \in BinaryKinds
  /\ \E j \in 1 .. (i - 1) : sent[j] \in BinaryKinds

IsCancel(i) == IsSignal(i) /\ sent[i] = "cancel"

\* The frames that end the input: a close signal, a second cancel signal.
EndsInput(i) ==
  \/ IsSignal(i) /\ sent[i] = "close"
  \/ IsCancel(i) /\ \E j \in 1 .. (i - 1) : IsCancel(j)

WasRead(i) == \E k \in DOMAIN input : input[k] = i

\* Through two goroutines, a channel and a pipe, the process reads the texts
\* of the client in the order they were sent, each once, without a gap, and
\* nothing that was sent after the client ended the input.
InputFaithful ==
  \A k \in DOMAIN input :
    /\ input[k] \in DOMAIN sent
    /\ IsText(input[k])
    /\ \A l \in 1 .. (k - 1) : input[l] < input[k]
    /\ \A i \in 1 .. input[k] : ~EndsInput(i) /\ (IsText(i) => WasRead(i))

\* A running process sees the end of its input only if the client ended it or
\* the connection is gone, and only after all text that came in before: an
\* empty text frame, a first cancel or a full buffer never cut it short.
EndOfInputHonest ==
  Running /\ writerClosed =>
    /\ connDone \/ \E i \in 1 .. nread : EndsInput(i)
    /\ \A i \in 1 .. nread :
         IsText(i) /\ (\A j \in 1 .. (i - 1) : ~EndsInput(j)) => WasRead(i)

\* The cause a process finds in its context tells what happened: a cancel
\* signal, a message that is no signal, the end of the connection; and "the
\* handler has returned" is never the cause while the process runs.
CauseHonest ==
  /\ cause = "ErrCancelClientRequest" => \E i \in 1 .. nread : IsCancel(i)
  /\ cause = "ErrCancelProtocolError" =>
       \E i \in 1 .. nread : IsSignal(i) /\ sent[i] \in {"garbage", "call"}
  /\ cause \in {"ErrCancelClientGone", "connection"} => connDone
  /\ cause = "ErrCancelHandlerReturn" => ~Running

\* The client gets one result, which is that of the process, after all of its
\* output and directly before the close frame; by then the context is
\* cancelled and no input can be written any more.
ResultReported ==
  \A i \in DOMAIN out :
    /\ out[i] = "close" =>
         i = Len(out) /\ i > 1 /\ out[i - 1] \in {"fulfilled", "rejected"}
    /\ out[i] \in {"fulfilled", "rejected"} =>
         /\ (out[i] = "fulfilled") = (result = "value")
         /\ \A j \in (i + 1) .. Len(out) : out[j] = "close"
         /\ cause # NoCause
         /\ feeder \in {"range", "write"} => writerClosed

-----------------------------------------------------------------------------
(* What the client is promised, and how the connection keeps it. *)

\* The texts that belong to the input of the process.
InputTexts ==
  {i \in DOMAIN sent : IsText(i) /\ \A j \in 1 .. (i - 1) : ~EndsInput(j)}

Phase == CASE serve \in {"call", "get"} -> "waiting"
           [] Running -> "running"
           [] OTHER -> "over"

Outcome == CASE result = "none" -> "none"
             [] result = "value" -> "fulfilled"
             [] OTHER -> "rejected"

Abstract == INSTANCE PowProcess WITH
  Writers <- {"client"},
  Causes  <- ErrCancel \cup {"connection"},
  phase   <- Phase,
  offered <- [w \in {"client"} |-> InputTexts],
  got     <- [w \in {"client"} |-> {input[k] : k \in DOMAIN input}],
  ended   <- writerClosed,
  outcome <- Outcome,
  told    <- {out[i] : i \in DOMAIN out} \ {"output", "close"}

\* A connection implements PowProcess: every step of the three goroutines is
\* one of the process a client knows, or invisible to it.
ImplementsProcess == Abstract!Spec

\* A connection whose process was started and whose context is cancelled is
\* wound down, whatever the client has flooded it with: serve returns, and
\* both other goroutines have ended by then.
CancelledWindsDown ==
  CancellableProcess =>
    ((feeder # "off" /\ cause # NoCause) ~> (serve = "done"))

\* The same for a process that only looks at its input: the end of the
\* connection, or the signal that ends the input, reaches it.
InputEndWindsDown ==
  ReadingProcess =>
    ((feeder # "off" /\ (connDone \/ \E i \in DOMAIN sent : EndsInput(i)))
       ~> (serve = "done"))

\* A process that keeps reading gets every text sent before the input ended,
\* however small the buffer: no goroutine misses its turn.
TextsArrive ==
  ReadingProcess =>
    \A i \in 1 .. MaxFrames :
      (/\ Running
       /\ i \in DOMAIN sent
       /\ IsText(i)
       /\ \A j \in 1 .. (i - 1) : ~EndsInput(j)) ~> (WasRead(i) \/ connDone \/ ~Running)

\* serve.go:103 "close the underlying connection, and then wait for
\* everything to finish!"
WaitEnds == (serve = "wait") ~> (serve = "done")

==============================================================================
