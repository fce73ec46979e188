--------------------------- MODULE WsSessionProofs ---------------------------
(***************************************************************************)
(* Theorems about one websocket connection (module WsSession), for every   *)
(* buffer size, every set of frame kinds and every bound on the frames:    *)
(* its safety properties, and that it implements PowProcess.               *)
(***************************************************************************)
EXTENDS WsSession, TLAPS

-----------------------------------------------------------------------------
(* The inductive invariant. *)

\* What the pump remembers of the binary frames it has received.
PumpInv ==
  /\ initialMessage = 0 => \A i \in 1 .. nread : sent[i] \notin BinaryKinds
  /\ initialMessage # 0 => sent[initialMessage] \in BinaryKinds
  /\ hadCancelBefore <=> \E i \in 1 .. nread : IsCancel(i)
  /\ pump = "done" => connDone

\* What the pump is about to send is what it received last.
PendingInv ==
  /\ pump = "send" /\ pumpMsg = Nil => nread > 0 /\ EndsInput(nread)
  /\ pump = "send" /\ pumpMsg # Nil => pumpMsg = nread /\ IsText(nread)
  /\ pump # "send" => pumpMsg = Nil

\* The channel carries positions of texts, in the order they were received.
LogOrdered ==
  /\ \A k \in DOMAIN texts :
       texts[k] # Nil =>
         /\ texts[k] \in 1 .. nread
         /\ IsText(texts[k])
         /\ pump = "send" => texts[k] < nread
  /\ \A k, l \in DOMAIN texts :
       k < l /\ texts[l] # Nil => texts[k] < texts[l]

\* No text that was received is missing in the channel.
LogComplete ==
  \A i \in 1 .. nread : IsText(i) =>
    \/ \E k \in DOMAIN texts : texts[k] = i
    \/ pump = "send" /\ pumpMsg = i

\* Behind every frame that ends the input there is a flag in the channel,
\* before all later texts.
EndsFlagged ==
  \A i \in 1 .. nread : EndsInput(i) =>
    \/ \E l \in DOMAIN texts :
         texts[l] = Nil /\ \A k \in 1 .. (l - 1) : texts[k] < i
    \/ pump = "send" /\ pumpMsg = Nil /\ i = nread

\* Behind every flag in the channel there is a frame that ends the input,
\* before all later texts.
FlagsHonest ==
  \A l \in DOMAIN texts : texts[l] = Nil =>
    \E i \in 1 .. nread :
      /\ EndsInput(i)
      /\ \A k \in (l + 1) .. Len(texts) : texts[k] # Nil => i < texts[k]

TextsInv ==
  PendingInv /\ LogOrdered /\ LogComplete /\ EndsFlagged /\ FlagsHonest

\* How far the process is behind the feeder.
FeederInv ==
  /\ serve \in {"call", "get"} => feeder = "off" /\ ~writerClosed
  /\ feeder = "off" => taken = 0 /\ input = <<>>
  /\ Len(input) <= taken
  /\ \A k \in DOMAIN input : input[k] = texts[k] /\ texts[k] # Nil
  /\ feeder = "write" => taken > 0 /\ texts[taken] # Nil
  /\ Running =>
       /\ feeder # "off"
       /\ writerClosed <=> feeder \in {"drain", "done"}
       /\ feeder = "range" => Len(input) = taken
       /\ feeder = "write" => Len(input) = taken - 1
       /\ feeder \in {"drain", "done"} =>
            \/ Len(input) < Len(texts) /\ texts[Len(input) + 1] = Nil
            \/ feeder = "done" /\ pump = "done" /\ Len(input) = Len(texts)

\* The context outlives the process: serve cancels it once it has returned.
CauseInv ==
  /\ CauseHonest
  /\ cause = "ErrCancelHandlerReturn" =>
       serve \in {"report", "shutdown", "wait", "done"}

IInv == TypeOK /\ PumpInv /\ TextsInv /\ FeederInv /\ CauseInv

-----------------------------------------------------------------------------
(* What each part of the system leaves alone. *)

\* The feeder, the process and serve change nothing the pump owns.
LEMMA OthersKeepPump ==
  Propagate \/ Feeder \/ Process \/ Serve \/ Terminated
    => UNCHANGED <<clientVars, pumpVars, texts>>
<1>1. Propagate => UNCHANGED <<clientVars, pumpVars, texts>>
  BY DEF Propagate, ConnStep, pumpVars, chanVars
<1>2. Feeder => UNCHANGED <<clientVars, pumpVars, texts>>
  BY DEF Feeder, FeederTakeText, FeederTakeNil, FeederEnd, FeederWriteFails,
         FeederDrain, FeederDrained, FeederStep
<1>3. Process => UNCHANGED <<clientVars, pumpVars, texts>>
  BY DEF Process, ProcRead, ProcWrite, ReturnSomehow, ProcReturn, FeederStep,
         ServeStep, chanVars
<1>4. Serve => UNCHANGED <<clientVars, pumpVars, texts>>
  BY DEF Serve, ServeCall, ServeBadCall, ServeTimeout, ServeGet,
         ServeGetFails, ServeCloseWriter, ServeCancelCtx, ServeReport,
         ServeReportSkip, ServeShutdown, ServeWait, Fail, ServeStep, chanVars
<1>5. Terminated => UNCHANGED <<clientVars, pumpVars, texts>>
  BY DEF Terminated, vars, chanVars
<1> QED BY <1>1, <1>2, <1>3, <1>4, <1>5

\* The client and the pump change nothing of what the feeder and serve own.
LEMMA PumpKeepsOthers ==
  (\E k \in Kinds : ClientSend(k)) \/ ConnEnd \/ Propagate \/ Pump \/ Terminated
    => UNCHANGED <<out, taken, feeder, pipeVars, serveVars>>
BY DEF ClientSend, ConnEnd, Propagate, Terminated, ConnStep, Pump, PumpText,
       PumpIgnore, PumpInitial, PumpBadSignal, PumpClose, PumpCancel,
       PumpCancelAgain, ReceiveSignal, PumpSend, PumpExit, Receive, chanVars,
       vars

-----------------------------------------------------------------------------
(* Type correctness.  That the feeder writes what it took from the channel   *)
(* is needed for what the process reads to have a type.                      *)

TypeInv == TypeOK /\ (feeder = "write" => taken > 0)

LEMMA TypeInit == Init => TypeInv
<1> SUFFICES ASSUME Init PROVE TypeInv
  OBVIOUS
<1>1. FlagsOK
  BY DEF Init, FlagsOK
<1>2. PlacesOK
  BY DEF Init, PlacesOK, ErrCancel, NoCause
<1>3. MessagesOK /\ feeder # "write"
  BY ConstantsAssumption DEF Init, MessagesOK, Nil
<1> QED BY <1>1, <1>2, <1>3 DEF TypeInv, TypeOK

LEMMA FlagsNext == FlagsOK /\ Next => FlagsOK'
<1> SUFFICES ASSUME FlagsOK, Next PROVE FlagsOK'
  OBVIOUS
<1>1. CASE \/ \E k \in Kinds : ClientSend(k)
           \/ ConnEnd \/ Propagate
  BY <1>1 DEF FlagsOK, ClientSend, ConnEnd, Propagate, ConnStep, clientVars,
              pumpVars, pipeVars
<1>2. CASE Pump
  BY <1>2, PumpKeepsOthers
     DEF FlagsOK, Pump, PumpText, PumpIgnore, PumpInitial, PumpBadSignal,
         PumpClose, PumpCancel, PumpCancelAgain, ReceiveSignal, PumpSend,
         PumpExit, Receive, clientVars, pipeVars
<1>3. CASE Feeder \/ Process
  BY <1>3, OthersKeepPump
     DEF FlagsOK, Feeder, FeederTakeText, FeederTakeNil, FeederEnd,
         FeederWriteFails, FeederDrain, FeederDrained, Process, ProcRead,
         ProcWrite, ReturnSomehow, ProcReturn, clientVars, pumpVars, pipeVars
<1>4. CASE Serve
  BY <1>4, OthersKeepPump
     DEF FlagsOK, Serve, ServeCall, ServeBadCall, ServeTimeout, ServeGet,
         ServeGetFails, ServeCloseWriter, ServeCancelCtx, ServeReport,
         ServeReportSkip, ServeShutdown, ServeWait, Fail, clientVars,
         pumpVars
<1>5. CASE Terminated
  BY <1>5 DEF FlagsOK, Terminated, vars, clientVars, pumpVars, pipeVars
<1> QED BY <1>1, <1>2, <1>3, <1>4, <1>5 DEF Next

LEMMA PlacesNext == PlacesOK /\ Next => PlacesOK'
<1> SUFFICES ASSUME PlacesOK, Next PROVE PlacesOK'
  OBVIOUS
<1> USE DEF PlacesOK, ErrCancel, NoCause, ProcessResults
<1>1. CASE \/ \E k \in Kinds : ClientSend(k)
           \/ ConnEnd \/ Propagate
  BY <1>1 DEF ClientSend, ConnEnd, Propagate, ConnStep, pumpVars, serveVars
<1>2. CASE Pump
  BY <1>2, PumpKeepsOthers
     DEF Pump, PumpText, PumpIgnore, PumpInitial, PumpBadSignal, PumpClose,
         PumpCancel, PumpCancelAgain, ReceiveSignal, SendText, StayInSelect,
         Cancel, PumpSend, PumpExit, Receive, serveVars
<1>3. CASE Feeder
  BY <1>3 DEF Feeder, FeederTakeText, FeederTakeNil, FeederEnd,
              FeederWriteFails, FeederDrain, FeederDrained, FeederStep,
              pumpVars, serveVars
<1>4. CASE Process
  BY <1>4 DEF Process, ProcRead, ProcWrite, ReturnSomehow, ProcReturn,
              FeederStep, ServeStep, pumpVars, serveVars
<1>5. CASE Serve
  BY <1>5, OthersKeepPump
     DEF Serve, ServeCall, ServeBadCall, ServeTimeout, ServeGet,
         ServeGetFails, ServeCloseWriter, ServeCancelCtx, ServeReport,
         ServeReportSkip, ServeShutdown, ServeWait, Fail, ServeStep, Cancel,
         pumpVars
<1>6. CASE Terminated
  BY <1>6 DEF Terminated, vars, pumpVars, serveVars
<1> QED BY <1>1, <1>2, <1>3, <1>4, <1>5, <1>6 DEF Next

LEMMA MessagesNext ==
  ASSUME TypeInv, Next PROVE MessagesOK' /\ (feeder' = "write" => taken' > 0)
<1> USE ConstantsAssumption DEF MessagesOK, Nil
<1>0. MessagesOK /\ (feeder = "write" => taken > 0)
  BY DEF TypeInv, TypeOK
<1>1. CASE \/ \E k \in Kinds : ClientSend(k)
           \/ ConnEnd \/ Propagate
  <2>1. UNCHANGED <<out, pumpVars, chanVars, feeder, input>>
    BY <1>1 DEF ClientSend, ConnEnd, Propagate, ConnStep, pipeVars
  <2>2. sent' = sent \/ \E k \in Kinds : sent' = Append(sent, k)
    BY <1>1 DEF ClientSend, ConnEnd, Propagate, clientVars
  <2>3. sent' \in Seq(Kinds) /\ Len(sent) <= Len(sent')
    <3>1. CASE sent' = sent
      BY <1>0, <3>1
    <3>2. ASSUME NEW k \in Kinds, sent' = Append(sent, k)
          PROVE  sent' \in Seq(Kinds) /\ Len(sent) <= Len(sent')
      BY <1>0, <3>2
    <3> QED BY <2>2, <3>1, <3>2
  <2> QED BY <1>0, <2>1, <2>3 DEF pumpVars, chanVars
<1>2. CASE Pump
  <2>1. UNCHANGED <<sent, connDone, out, taken, feeder, input>>
    BY <1>2, PumpKeepsOthers
       DEF Pump, PumpText, PumpIgnore, PumpInitial, PumpBadSignal, PumpClose,
           PumpCancel, PumpCancelAgain, ReceiveSignal, Receive, PumpSend,
           PumpExit, clientVars, pipeVars
  <2>2. CASE PumpSend
    BY <1>0, <2>1, <2>2 DEF PumpSend
  <2>3. CASE PumpExit
    BY <1>0, <2>1, <2>3 DEF PumpExit, chanVars
  <2>4. CASE Receive /\ UNCHANGED initialMessage
             /\ (StayInSelect \/ SendText(Nil) \/ SendText(nread + 1))
    BY <1>0, <2>1, <2>4 DEF Receive, StayInSelect, SendText, chanVars
  <2>5. CASE PumpInitial
    BY <1>0, <2>1, <2>5 DEF PumpInitial, Receive, StayInSelect, chanVars
  <2> QED
    BY <1>2, <2>2, <2>3, <2>4, <2>5
       DEF Pump, PumpText, PumpIgnore, PumpBadSignal, PumpClose, PumpCancel,
           PumpCancelAgain, ReceiveSignal
<1>3. CASE Feeder \/ Process
  <2>1. UNCHANGED <<sent, nread, initialMessage, pumpMsg, texts>>
    BY <1>3, OthersKeepPump DEF clientVars, pumpVars
  <2>2. CASE Feeder
    BY <1>0, <2>1, <2>2
       DEF Feeder, FeederTakeText, FeederTakeNil, FeederEnd, FeederWriteFails,
           FeederDrain, FeederDrained, FeederStep, Take, NoMoreTexts, pipeVars
  <2>3. CASE ProcRead
    BY <1>0, <2>1, <2>3 DEF ProcRead, FeederStep
  <2>4. CASE ProcWrite
    BY <1>0, <2>1, <2>4 DEF ProcWrite, ServeStep, chanVars
  <2>5. CASE ReturnSomehow
    BY <1>0, <2>1, <2>5 DEF ReturnSomehow, ProcReturn, ServeStep, chanVars
  <2> QED BY <1>3, <2>2, <2>3, <2>4, <2>5 DEF Process
<1>4. CASE Serve
  <2>1. /\ UNCHANGED <<sent, nread, initialMessage, pumpMsg, texts>>
        /\ UNCHANGED <<taken, input>>
        /\ feeder' = feeder \/ feeder' = "range"
    BY <1>4, OthersKeepPump
       DEF Serve, ServeCall, ServeBadCall, ServeTimeout, ServeGet,
           ServeGetFails, ServeCloseWriter, ServeCancelCtx, ServeReport,
           ServeReportSkip, ServeShutdown, ServeWait, Fail, ServeStep,
           clientVars, pumpVars, chanVars
  <2>2. \/ out' = out
        \/ \E m \in {"fulfilled", "rejected", "close"} : out' = Append(out, m)
    BY <1>4
       DEF Serve, ServeCall, ServeBadCall, ServeTimeout, ServeGet,
           ServeGetFails, ServeCloseWriter, ServeCancelCtx, ServeReport,
           ServeReportSkip, ServeShutdown, ServeWait, Fail, Status
  <2>3. out' \in Seq({"output", "fulfilled", "rejected", "close"})
    <3>1. CASE out' = out
      BY <1>0, <3>1
    <3>2. ASSUME NEW m \in {"fulfilled", "rejected", "close"},
                 out' = Append(out, m)
          PROVE  out' \in Seq({"output", "fulfilled", "rejected", "close"})
      BY <1>0, <3>2
    <3> QED BY <2>2, <3>1, <3>2
  <2> QED BY <1>0, <2>1, <2>3
<1>5. CASE Terminated
  BY <1>0, <1>5 DEF Terminated, vars, clientVars, pumpVars, chanVars, pipeVars
<1> QED BY <1>1, <1>2, <1>3, <1>4, <1>5 DEF Next

LEMMA TypeNext == TypeInv /\ [Next]_vars => TypeInv'
<1> SUFFICES ASSUME TypeInv, [Next]_vars PROVE TypeInv'
  OBVIOUS
<1>1. CASE Next
  BY <1>1, FlagsNext, PlacesNext, MessagesNext DEF TypeInv, TypeOK
<1>2. CASE UNCHANGED vars
  <2> USE <1>2 DEF vars, clientVars, pumpVars, chanVars, pipeVars, serveVars
  <2>1. FlagsOK => FlagsOK'
    BY DEF FlagsOK
  <2>2. PlacesOK => PlacesOK'
    BY DEF PlacesOK
  <2>3. MessagesOK => MessagesOK'
    BY DEF MessagesOK
  <2> QED BY <2>1, <2>2, <2>3 DEF TypeInv, TypeOK
<1> QED BY <1>1, <1>2

\* Every variable keeps its type, and the channel never buffers more than its
\* capacity, whatever that is.
THEOREM TypeCorrect == Spec => []TypeOK
<1>1. TypeInv => TypeOK
  BY DEF TypeInv
<1> QED BY <1>1, TypeInit, TypeNext, PTL DEF Spec

-----------------------------------------------------------------------------
(* Frames that were received stay what they are.                             *)

FrameKept(i) ==
  /\ sent'[i] = sent[i]
  /\ IsText(i)' <=> IsText(i)
  /\ IsSignal(i)' <=> IsSignal(i)
  /\ IsCancel(i)' <=> IsCancel(i)
  /\ EndsInput(i)' <=> EndsInput(i)

LEMMA SentGrows ==
  Next => sent' = sent \/ \E k \in Kinds : sent' = Append(sent, k)
<1>1. \A k \in Kinds : ClientSend(k) => sent' = Append(sent, k)
  BY DEF ClientSend
<1>2. ConnEnd => sent' = sent
  BY DEF ConnEnd
<1>3. Propagate \/ Feeder \/ Process \/ Serve \/ Terminated => sent' = sent
  BY OthersKeepPump DEF clientVars
<1>4. Pump => sent' = sent
  BY DEF Pump, PumpText, PumpIgnore, PumpInitial, PumpBadSignal, PumpClose,
         PumpCancel, PumpCancelAgain, ReceiveSignal, PumpSend, PumpExit,
         Receive, clientVars
<1> QED BY <1>1, <1>2, <1>3, <1>4 DEF Next

LEMMA FramesKept ==
  ASSUME TypeOK, Next
  PROVE  \A i \in 1 .. Len(sent) : FrameKept(i)
<1>0. sent \in Seq(Kinds)
  BY DEF TypeOK, MessagesOK
<1>1. \A i \in 1 .. Len(sent) : sent'[i] = sent[i]
  <2>1. ASSUME NEW k \in Kinds, sent' = Append(sent, k)
        PROVE  \A i \in 1 .. Len(sent) : sent'[i] = sent[i]
    BY <1>0, <2>1
  <2> QED BY <2>1, SentGrows
<1>2. \A i \in 1 .. Len(sent) :
        (IsText(i)' <=> IsText(i)) /\ (IsSignal(i)' <=> IsSignal(i))
  BY <1>0, <1>1 DEF IsText, IsSignal
<1>3. \A i \in 1 .. Len(sent) : IsCancel(i)' <=> IsCancel(i)
  BY <1>0, <1>1, <1>2 DEF IsCancel
<1>4. \A i \in 1 .. Len(sent) : EndsInput(i)' <=> EndsInput(i)
  BY <1>0, <1>1, <1>2, <1>3 DEF EndsInput
<1> QED BY <1>1, <1>2, <1>3, <1>4 DEF FrameKept

\* A frame that ends the input is no text.
LEMMA EndsInputIsNoText == \A i : EndsInput(i) => ~IsText(i)
BY DEF EndsInput, IsCancel, IsSignal, IsText, BinaryKinds, TextKinds

-----------------------------------------------------------------------------
(* What receiving a frame makes of PumpInv.                                  *)

\* A signal is told from the initial message by what the pump remembers.
LEMMA SignalSeen ==
  ASSUME TypeOK, PumpInv, nread < Len(sent)
  PROVE  /\ IsSignal(nread + 1)
              <=> sent[nread + 1] \in BinaryKinds /\ initialMessage # 0
         /\ (\E j \in 1 .. nread : IsCancel(j)) <=> hadCancelBefore
<1>1. nread \in Nat /\ initialMessage \in 0 .. nread
  BY DEF TypeOK, MessagesOK
<1>2. (\E j \in 1 .. nread : sent[j] \in BinaryKinds) <=> initialMessage # 0
  BY <1>1 DEF PumpInv
<1>3. (nread + 1) - 1 = nread
  BY <1>1
<1> QED BY <1>2, <1>3 DEF IsSignal, PumpInv

\* Which frames end the input, when they are received.
LEMMA EndSeen ==
  ASSUME TypeOK, PumpInv, nread < Len(sent)
  PROVE  EndsInput(nread + 1)
           <=> /\ initialMessage # 0
               /\ \/ sent[nread + 1] = "close"
                  \/ sent[nread + 1] = "cancel" /\ hadCancelBefore
<1>1. (nread + 1) - 1 = nread
  BY DEF TypeOK, MessagesOK
<1> QED BY <1>1, SignalSeen DEF EndsInput, IsCancel, BinaryKinds

LEMMA PumpInvNext ==
  ASSUME TypeOK, TypeOK', PumpInv, Next
  PROVE  PumpInv'
<1>0. /\ nread \in Nat /\ nread <= Len(sent) /\ initialMessage \in 0 .. nread
      /\ Len(sent) \in Nat
  BY DEF TypeOK, MessagesOK
<1>1. \A i \in 1 .. nread : FrameKept(i)
  BY <1>0, FramesKept
<1>2. CASE UNCHANGED pumpVars /\ (connDone => connDone')
  BY <1>0, <1>1, <1>2 DEF PumpInv, pumpVars, FrameKept
<1>3. CASE \/ PumpText \/ PumpIgnore \/ PumpInitial
           \/ PumpBadSignal \/ PumpClose \/ PumpCancel \/ PumpCancelAgain
  <2>1. /\ nread' = nread + 1 /\ nread < Len(sent) /\ sent' = sent
        /\ connDone' = connDone
    BY <1>3
       DEF PumpText, PumpIgnore, PumpInitial, PumpBadSignal, PumpClose,
           PumpCancel, PumpCancelAgain, ReceiveSignal, Receive, clientVars
  <2>2. \A i \in 1 .. nread + 1 : FrameKept(i)
    BY <1>0, <2>1, FramesKept
  <2>3. IsCancel(nread + 1)
          <=> sent[nread + 1] = "cancel" /\ initialMessage # 0
    BY <2>1, SignalSeen DEF IsCancel, BinaryKinds
  <2>4. (\E i \in 1 .. nread' : IsCancel(i)')
          <=> hadCancelBefore \/ IsCancel(nread + 1)
    BY <1>0, <2>1, <2>2 DEF PumpInv, FrameKept
  <2>5. CASE /\ hadCancelBefore' <=> hadCancelBefore \/ IsCancel(nread + 1)
             /\ initialMessage # 0 /\ UNCHANGED initialMessage
             /\ pump' # "done"
    BY <1>0, <2>1, <2>2, <2>4, <2>5 DEF PumpInv, FrameKept
  <2>6. CASE /\ sent[nread + 1] \notin BinaryKinds
             /\ UNCHANGED <<initialMessage, hadCancelBefore>>
             /\ pump' # "done"
    <3>1. hadCancelBefore' <=> hadCancelBefore \/ IsCancel(nread + 1)
      BY <2>3, <2>6 DEF BinaryKinds
    <3> QED BY <1>0, <2>1, <2>2, <2>4, <2>6, <3>1 DEF PumpInv, FrameKept
  <2>7. CASE PumpInitial
    <3>1. initialMessage = 0 /\ initialMessage' = nread + 1 /\ pump' # "done"
      BY <1>3, <2>7 DEF PumpInitial, StayInSelect, Receive
    <3>2. hadCancelBefore' <=> hadCancelBefore \/ IsCancel(nread + 1)
      BY <2>3, <2>7 DEF PumpInitial
    <3>3. sent[nread + 1] \in BinaryKinds
      BY <2>7 DEF PumpInitial, NextFrame
    <3> QED BY <1>0, <2>1, <2>2, <2>4, <3>1, <3>2, <3>3 DEF PumpInv, FrameKept
  <2>8. CASE PumpText \/ PumpIgnore
    BY <1>3, <2>6, <2>8
       DEF PumpText, PumpIgnore, NextFrame, SendText, StayInSelect, Receive,
           TextKinds, BinaryKinds
  <2>9. CASE PumpBadSignal \/ PumpClose \/ PumpCancel \/ PumpCancelAgain
    <3>1. initialMessage # 0 /\ UNCHANGED initialMessage /\ pump' # "done"
      BY <1>3, <2>9
         DEF PumpBadSignal, PumpClose, PumpCancel, PumpCancelAgain, SendText,
             ReceiveSignal, StayInSelect, Receive
    <3>2. hadCancelBefore' <=> hadCancelBefore \/ IsCancel(nread + 1)
      BY <2>3, <2>9, <3>1
         DEF PumpBadSignal, PumpClose, PumpCancel, PumpCancelAgain,
             ReceiveSignal, NextFrame
    <3> QED BY <2>5, <3>1, <3>2
  <2> QED BY <1>3, <2>7, <2>8, <2>9
<1>4. CASE PumpSend
  BY <1>0, <1>1, <1>4 DEF PumpSend, PumpInv, clientVars, FrameKept
<1>5. CASE PumpExit
  BY <1>0, <1>1, <1>5 DEF PumpExit, PumpInv, clientVars, FrameKept
<1>6. CASE Pump
  BY <1>3, <1>4, <1>5, <1>6 DEF Pump
<1>7. (\E k \in Kinds : ClientSend(k)) \/ ConnEnd
        => UNCHANGED pumpVars /\ (connDone => connDone')
  BY DEF ClientSend, ConnEnd, ConnStep
<1>8. Propagate \/ Feeder \/ Process \/ Serve \/ Terminated
        => UNCHANGED pumpVars /\ (connDone => connDone')
  BY OthersKeepPump DEF clientVars
<1> QED BY <1>2, <1>6, <1>7, <1>8 DEF Next

-----------------------------------------------------------------------------
(* The channel keeps faith with the frames.                                  *)

\* Receiving a frame: the channel is as it was, and what the pump goes on to
\* do fits the frame.
LEMMA TextsReceive ==
  ASSUME TypeOK, TextsInv, Next,
         pump = "select", nread' = nread + 1, nread < Len(sent),
         texts' = texts,
         \/ pump' = "select" /\ pumpMsg' = pumpMsg
            /\ ~IsText(nread + 1) /\ ~EndsInput(nread + 1)
         \/ pump' = "send" /\ pumpMsg' = nread + 1 /\ IsText(nread + 1)
         \/ pump' = "send" /\ pumpMsg' = Nil /\ EndsInput(nread + 1)
  PROVE  TextsInv'
<1>0. /\ nread \in Nat /\ nread + 1 <= Len(sent) /\ Len(sent) \in Nat
      /\ texts \in Seq(Nat) /\ pumpMsg = Nil
  BY DEF TypeOK, MessagesOK, TextsInv, PendingInv
<1>1. \A i \in 1 .. nread + 1 : FrameKept(i)
  BY <1>0, FramesKept
<1>2. PendingInv'
  BY <1>0, <1>1 DEF PendingInv, FrameKept, Nil
<1>3. LogOrdered'
  BY <1>0, <1>1 DEF TextsInv, LogOrdered, FrameKept
<1>4. LogComplete'
  BY <1>0, <1>1, EndsInputIsNoText DEF TextsInv, LogComplete, FrameKept
<1>5. EndsFlagged'
  BY <1>0, <1>1, EndsInputIsNoText DEF TextsInv, EndsFlagged, FrameKept
<1>6. FlagsHonest'
  <2> SUFFICES ASSUME NEW l \in DOMAIN texts, texts[l] = Nil
               PROVE  \E i \in 1 .. nread + 1 :
                        /\ EndsInput(i)'
                        /\ \A k \in (l + 1) .. Len(texts) :
                             texts[k] # Nil => i < texts[k]
    BY DEF FlagsHonest
  <2>1. PICK i \in 1 .. nread :
          /\ EndsInput(i)
          /\ \A k \in (l + 1) .. Len(texts) : texts[k] # Nil => i < texts[k]
    BY DEF TextsInv, FlagsHonest
  <2>2. i \in 1 .. nread + 1 /\ EndsInput(i)'
    BY <1>0, <1>1, <2>1 DEF FrameKept
  <2> QED BY <2>1, <2>2
<1> QED BY <1>2, <1>3, <1>4, <1>5, <1>6 DEF TextsInv

LEMMA TextsSend ==
  ASSUME TypeOK, TextsInv, Next, PumpSend
  PROVE  TextsInv'
<1>0. /\ nread \in Nat /\ nread <= Len(sent) /\ Len(sent) \in Nat
      /\ texts \in Seq(Nat) /\ pumpMsg \in Nat /\ Len(texts) \in Nat
  BY DEF TypeOK, MessagesOK
<1>1. \A i \in 1 .. nread : FrameKept(i)
  BY <1>0, FramesKept
<1>2. /\ pump = "send" /\ pump' = "select" /\ pumpMsg' = Nil
      /\ nread' = nread /\ sent' = sent /\ texts' = Append(texts, pumpMsg)
  BY DEF PumpSend, clientVars
<1>3. /\ Len(texts') = Len(texts) + 1
      /\ DOMAIN texts' = 1 .. Len(texts) + 1
      /\ DOMAIN texts = 1 .. Len(texts)
      /\ \A k \in 1 .. Len(texts) : texts'[k] = texts[k]
      /\ texts'[Len(texts) + 1] = pumpMsg
  BY <1>0, <1>2
<1>4. \/ pumpMsg = Nil /\ nread > 0 /\ EndsInput(nread)
      \/ pumpMsg # Nil /\ pumpMsg = nread /\ IsText(nread)
  BY <1>2 DEF TextsInv, PendingInv
<1>5. \A k \in DOMAIN texts : texts[k] < nread
  BY <1>0, <1>2, <1>4 DEF TextsInv, LogOrdered, Nil
<1>6. PendingInv'
  BY <1>2 DEF PendingInv
<1>7. LogOrdered'
  BY <1>0, <1>1, <1>2, <1>3, <1>4, <1>5
     DEF TextsInv, LogOrdered, FrameKept, Nil
<1>8. LogComplete'
  BY <1>0, <1>1, <1>2, <1>3 DEF TextsInv, LogComplete, FrameKept
<1>9. EndsFlagged'
  <2> SUFFICES ASSUME NEW i \in 1 .. nread, EndsInput(i)
               PROVE  \E l \in 1 .. Len(texts) + 1 :
                        /\ texts'[l] = Nil
                        /\ \A k \in 1 .. (l - 1) : texts'[k] < i
    BY <1>0, <1>1, <1>2, <1>3 DEF EndsFlagged, FrameKept
  <2>1. ASSUME NEW l \in DOMAIN texts, texts[l] = Nil,
               \A k \in 1 .. (l - 1) : texts[k] < i
        PROVE  l \in 1 .. Len(texts) + 1 /\ texts'[l] = Nil
               /\ \A k \in 1 .. (l - 1) : texts'[k] < i
    BY <1>0, <1>3, <2>1
  <2>2. CASE pumpMsg = Nil /\ i = nread
    <3>1. (Len(texts) + 1) - 1 = Len(texts)
      BY <1>0
    <3> QED BY <1>0, <1>3, <1>5, <2>2, <3>1
  <2> QED BY <2>1, <2>2 DEF TextsInv, EndsFlagged
<1>10. FlagsHonest'
  BY <1>0, <1>1, <1>2, <1>3, <1>4, EndsInputIsNoText
     DEF TextsInv, FlagsHonest, FrameKept
<1> QED BY <1>6, <1>7, <1>8, <1>9, <1>10 DEF TextsInv

LEMMA TextsInvNext ==
  ASSUME TypeOK, PumpInv, TextsInv, Next
  PROVE  TextsInv'
<1>0. /\ nread \in Nat /\ nread <= Len(sent) /\ Len(sent) \in Nat
      /\ pumpMsg \in 0 .. nread
  BY DEF TypeOK, MessagesOK
<1>1. \A i \in 1 .. nread : FrameKept(i)
  BY <1>0, FramesKept
<1>2. CASE UNCHANGED <<pumpVars, texts>>
  <2>1. UNCHANGED <<nread, pump, pumpMsg, texts>>
    BY <1>2 DEF pumpVars
  <2>2. PendingInv'
    BY <1>0, <1>1, <2>1 DEF TextsInv, PendingInv, FrameKept, Nil
  <2>3. LogOrdered' /\ LogComplete'
    BY <1>0, <1>1, <2>1 DEF TextsInv, LogOrdered, LogComplete, FrameKept
  <2>4. EndsFlagged' /\ FlagsHonest'
    BY <1>0, <1>1, <2>1 DEF TextsInv, EndsFlagged, FlagsHonest, FrameKept
  <2> QED BY <2>2, <2>3, <2>4 DEF TextsInv
<1>3. CASE \/ PumpText \/ PumpIgnore \/ PumpInitial
           \/ PumpBadSignal \/ PumpClose \/ PumpCancel \/ PumpCancelAgain
  <2>1. /\ pump = "select" /\ nread' = nread + 1 /\ nread < Len(sent)
        /\ texts' = texts
    BY <1>3
       DEF PumpText, PumpIgnore, PumpInitial, PumpBadSignal, PumpClose,
           PumpCancel, PumpCancelAgain, ReceiveSignal, Receive, chanVars
  <2>2. EndsInput(nread + 1)
          <=> /\ initialMessage # 0
              /\ \/ NextFrame = "close"
                 \/ NextFrame = "cancel" /\ hadCancelBefore
    BY <2>1, EndSeen DEF NextFrame
  <2>3. IsText(nread + 1) <=> NextFrame \in TextKinds
    BY DEF IsText, NextFrame
  <2>4. CASE PumpText
    BY <2>1, <2>3, <2>4, TextsReceive DEF PumpText, SendText
  <2>5. CASE PumpClose \/ PumpCancelAgain
    BY <2>1, <2>2, <2>5, TextsReceive
       DEF PumpClose, PumpCancelAgain, ReceiveSignal, SendText
  <2>6. CASE PumpIgnore \/ PumpInitial \/ PumpBadSignal \/ PumpCancel
    <3>1. pump' = "select" /\ pumpMsg' = pumpMsg
      BY <2>1, <2>6
         DEF PumpIgnore, PumpInitial, PumpBadSignal, PumpCancel, StayInSelect
    <3>2. ~IsText(nread + 1) /\ ~EndsInput(nread + 1)
      BY <2>2, <2>3, <2>6
         DEF PumpIgnore, PumpInitial, PumpBadSignal, PumpCancel,
             ReceiveSignal, TextKinds, BinaryKinds
    <3> QED BY <2>1, <3>1, <3>2, TextsReceive
  <2> QED BY <1>3, <2>4, <2>5, <2>6
<1>4. CASE PumpExit
  <2>1. /\ UNCHANGED <<nread, pumpMsg, texts>>
        /\ pump = "select" /\ pump' = "done"
    BY <1>4 DEF PumpExit, chanVars
  <2> QED
    BY <1>0, <1>1, <2>1
       DEF TextsInv, PendingInv, LogOrdered, LogComplete, EndsFlagged,
           FlagsHonest, FrameKept
<1>5. CASE Pump
  BY <1>3, <1>4, <1>5, TextsSend DEF Pump
<1>6. (\E k \in Kinds : ClientSend(k)) \/ ConnEnd
        => UNCHANGED <<pumpVars, texts>>
  BY DEF ClientSend, ConnEnd, ConnStep, chanVars
<1>7. Propagate \/ Feeder \/ Process \/ Serve \/ Terminated
        => UNCHANGED <<pumpVars, texts>>
  BY OthersKeepPump
<1> QED BY <1>2, <1>5, <1>6, <1>7 DEF Next

-----------------------------------------------------------------------------
(* The feeder and the process.                                               *)

LEMMA FeederInvNext ==
  ASSUME TypeInv, TypeInv', FeederInv, Next
  PROVE  FeederInv'
<1>0. /\ texts \in Seq(Nat) /\ taken \in 0 .. Len(texts) /\ input \in Seq(Nat)
      /\ Len(texts) \in Nat /\ Len(input) \in Nat /\ pumpMsg \in Nat
  BY SMTT(60) DEF TypeInv, TypeOK, MessagesOK
<1>1. DOMAIN input = 1 .. Len(input) /\ DOMAIN texts = 1 .. Len(texts)
  BY <1>0
<1>2. CASE UNCHANGED <<texts, pump, taken, feeder, writerClosed, input, serve>>
  BY <1>2 DEF FeederInv, Running
<1>3. CASE Pump
  <2>1. UNCHANGED <<taken, feeder, writerClosed, input, serve>>
    BY <1>3, PumpKeepsOthers DEF pipeVars, serveVars
  <2>2. CASE texts' = texts /\ (pump = "done" => pump' = "done")
    BY <2>1, <2>2 DEF FeederInv, Running
  <2>3. CASE PumpSend
    <3>1. /\ Len(texts') = Len(texts) + 1 /\ pump = "send"
          /\ \A k \in 1 .. Len(texts) : texts'[k] = texts[k]
      BY <1>0, <2>3 DEF PumpSend
    <3>2. /\ Len(input) <= taken
          /\ \A k \in 1 .. Len(input) : input[k] = texts[k]
          /\ Running /\ feeder \in {"drain", "done"} =>
               Len(input) < Len(texts) /\ texts[Len(input) + 1] = Nil
      BY <1>1, <3>1 DEF FeederInv
    <3>3. Len(input) <= Len(texts) /\ taken <= Len(texts)
      BY <1>0, <3>2
    <3>4. \A k \in 1 .. Len(input) : input[k] = texts'[k]
      BY <1>0, <3>1, <3>2, <3>3
    <3>5. feeder = "write" => texts'[taken] # Nil
      BY <1>0, <3>1 DEF FeederInv
    <3>6. Running /\ feeder \in {"drain", "done"} =>
            Len(input) < Len(texts') /\ texts'[Len(input) + 1] = Nil
      BY <1>0, <3>1, <3>2
    <3> QED BY <1>0, <1>1, <2>1, <3>4, <3>5, <3>6 DEF FeederInv, Running
  <2>4. PumpExit => texts' = texts /\ pump' = "done"
    BY DEF PumpExit, chanVars
  <2>5. CASE Receive
    BY <2>2, <2>5 DEF Receive, chanVars
  <2> QED
    BY <1>3, <2>2, <2>3, <2>4, <2>5
       DEF Pump, PumpText, PumpIgnore, PumpInitial, PumpBadSignal, PumpClose,
           PumpCancel, PumpCancelAgain, ReceiveSignal
<1>4. CASE Feeder
  <2>1. UNCHANGED <<texts, pump, serve>>
    BY <1>4, OthersKeepPump
       DEF Feeder, FeederTakeText, FeederTakeNil, FeederEnd, FeederWriteFails,
           FeederDrain, FeederDrained, FeederStep, pumpVars, serveVars
  <2>2. input' = input
    BY <1>4
       DEF Feeder, FeederTakeText, FeederTakeNil, FeederEnd, FeederWriteFails,
           FeederDrain, FeederDrained, pipeVars
  <2>3. CASE FeederTakeText
    <3>1. /\ feeder = "range" /\ feeder' = "write" /\ taken' = taken + 1
          /\ texts[taken'] # Nil /\ writerClosed' = writerClosed
      BY <2>3 DEF FeederTakeText, FeederStep, Take, pipeVars
    <3>2. /\ taken' > 0 /\ Len(input) <= taken'
          /\ Len(input) = taken => Len(input) = taken' - 1
      BY <1>0, <3>1 DEF FeederInv
    <3> QED BY <2>1, <2>2, <3>1, <3>2 DEF FeederInv, Running
  <2>4. CASE FeederTakeNil
    <3>1. /\ feeder = "range" /\ feeder' = "drain" /\ taken' = taken + 1
          /\ taken < Len(texts) /\ texts[taken + 1] = Nil /\ writerClosed'
      BY <2>4 DEF FeederTakeNil, FeederStep, Take
    <3>2. /\ Len(input) <= taken'
          /\ Running =>
               Len(input) < Len(texts) /\ texts[Len(input) + 1] = Nil
      BY <1>0, <3>1 DEF FeederInv
    <3> QED BY <2>1, <2>2, <3>1, <3>2 DEF FeederInv, Running
  <2>5. CASE FeederEnd
    BY <1>0, <1>1, <2>1, <2>2, <2>5
       DEF FeederEnd, FeederStep, NoMoreTexts, ChannelsClosed, FeederInv,
           Running
  <2>6. CASE FeederWriteFails
    BY <1>0, <1>1, <2>1, <2>2, <2>6
       DEF FeederWriteFails, FeederStep, pipeVars, FeederInv, Running
  <2>7. CASE FeederDrain
    BY <1>0, <1>1, <2>1, <2>2, <2>7
       DEF FeederDrain, FeederStep, Take, pipeVars, FeederInv, Running
  <2>8. CASE FeederDrained
    BY <1>0, <1>1, <2>1, <2>2, <2>8
       DEF FeederDrained, FeederStep, NoMoreTexts, pipeVars, FeederInv,
           Running
  <2> QED BY <1>4, <2>3, <2>4, <2>5, <2>6, <2>7, <2>8 DEF Feeder
<1>5. CASE ProcRead
  <2>1. /\ UNCHANGED <<texts, pump, serve, taken, writerClosed>> /\ Running
        /\ feeder = "write" /\ feeder' = "range" /\ ~writerClosed
        /\ input' = Append(input, texts[taken])
    BY <1>5 DEF ProcRead, FeederStep, pumpVars, serveVars
  <2>2. /\ taken > 0 /\ texts[taken] # Nil /\ Len(input) = taken - 1
        /\ texts[taken] \in Nat
    BY <1>0, <2>1 DEF FeederInv
  <2>3. /\ Len(input') = taken /\ DOMAIN input' = 1 .. taken
        /\ \A k \in 1 .. Len(input) : input'[k] = input[k]
        /\ input'[taken] = texts[taken]
    BY <1>0, <2>1, <2>2
  <2> QED BY <1>0, <1>1, <2>1, <2>2, <2>3 DEF FeederInv, Running
<1>6. CASE Serve
  <2>1. UNCHANGED <<texts, pump, taken, input>>
    BY <1>6, OthersKeepPump
       DEF Serve, ServeCall, ServeBadCall, ServeTimeout, ServeGet,
           ServeGetFails, ServeCloseWriter, ServeCancelCtx, ServeReport,
           ServeReportSkip, ServeShutdown, ServeWait, Fail, ServeStep,
           pumpVars, chanVars
  <2>2. CASE ServeGet
    BY <1>0, <1>1, <2>1, <2>2 DEF ServeGet, ServeStep, FeederInv, Running
  <2>3. CASE ServeCall
    BY <2>1, <2>3 DEF ServeCall, ServeStep, FeederInv, Running
  <2>4. ASSUME ~ServeGet, ~ServeCall
        PROVE  serve' \notin {"call", "get", "run"} /\ feeder' = feeder
    BY <1>6, <2>4
       DEF Serve, ServeBadCall, ServeTimeout, ServeGetFails, ServeCloseWriter,
           ServeCancelCtx, ServeReport, ServeReportSkip, ServeShutdown,
           ServeWait, Fail, ServeStep
  <2>5. CASE serve' \notin {"call", "get", "run"} /\ feeder' = feeder
    BY <2>1, <2>5 DEF FeederInv, Running
  <2> QED BY <2>2, <2>3, <2>4, <2>5
<1>7. ProcWrite
        => UNCHANGED <<texts, pump, taken, feeder, writerClosed, input, serve>>
  BY DEF ProcWrite, ServeStep, pumpVars, chanVars
<1>8. CASE ReturnSomehow
  BY <1>8
     DEF ReturnSomehow, ProcReturn, ServeStep, pumpVars, chanVars, FeederInv,
         Running
<1>9. (\E k \in Kinds : ClientSend(k)) \/ ConnEnd \/ Propagate \/ Terminated
        => UNCHANGED <<texts, pump, taken, feeder, writerClosed, input, serve>>
  BY DEF ClientSend, ConnEnd, Propagate, Terminated, ConnStep, pumpVars,
         chanVars, pipeVars, serveVars, vars
<1> QED
  BY <1>2, <1>3, <1>4, <1>5, <1>6, <1>7, <1>8, <1>9 DEF Next, Process

-----------------------------------------------------------------------------
(* The cause of the context.                                                 *)

LEMMA CauseInvNext ==
  ASSUME TypeOK, PumpInv, CauseInv, Next
  PROVE  CauseInv'
<1>0. nread \in Nat /\ nread <= Len(sent) /\ Len(sent) \in Nat
  BY DEF TypeOK, MessagesOK
<1>1. \A i \in 1 .. nread : FrameKept(i)
  BY <1>0, FramesKept
<1>2. CASE /\ cause' = cause /\ (connDone => connDone')
           /\ nread' \in Nat /\ nread <= nread'
           /\ serve \in {"report", "shutdown", "wait", "done"} =>
                serve' \in {"report", "shutdown", "wait", "done"}
  BY <1>0, <1>1, <1>2 DEF CauseInv, CauseHonest, FrameKept, Running
<1>3. CASE PumpExit
  <2>1. /\ connDone' /\ UNCHANGED <<sent, nread, serve>>
        /\ cause' = IF cause = NoCause THEN "ErrCancelClientGone" ELSE cause
    BY <1>3 DEF PumpExit, Cancel, clientVars, serveVars
  <2> QED
    BY <1>0, <1>1, <2>1 DEF CauseInv, CauseHonest, FrameKept, Running
<1>4. CASE PumpBadSignal \/ PumpCancel
  <2>1. /\ nread < Len(sent) /\ nread' = nread + 1
        /\ UNCHANGED <<sent, connDone, serve>>
    BY <1>4
       DEF PumpBadSignal, PumpCancel, ReceiveSignal, Receive, clientVars,
           serveVars
  <2>2. \A i \in 1 .. nread' : FrameKept(i)
    BY <1>0, <2>1, FramesKept
  <2>3. initialMessage # 0 /\ sent[nread + 1] \in BinaryKinds
    BY <1>4
       DEF PumpBadSignal, PumpCancel, ReceiveSignal, NextFrame, BinaryKinds
  <2>4. IsSignal(nread + 1)
    BY <2>1, <2>3, SignalSeen
  <2>5. \/ cause' = cause
        \/ cause' = "ErrCancelProtocolError"
             /\ sent[nread + 1] \in {"garbage", "call"}
        \/ cause' = "ErrCancelClientRequest" /\ sent[nread + 1] = "cancel"
    BY <1>4
       DEF PumpBadSignal, PumpCancel, ReceiveSignal, NextFrame, Cancel
  <2> QED
    BY <1>0, <2>1, <2>2, <2>4, <2>5
       DEF CauseInv, CauseHonest, FrameKept, Running, IsCancel
<1>5. CASE PumpText \/ PumpIgnore \/ PumpInitial \/ PumpClose
           \/ PumpCancelAgain \/ PumpSend
  BY <1>0, <1>2, <1>5
     DEF PumpText, PumpIgnore, PumpInitial, PumpClose, PumpCancelAgain,
         ReceiveSignal, PumpSend, Receive, clientVars, serveVars
<1>6. CASE Propagate
  BY <1>0, <1>1, <1>6
     DEF Propagate, ConnStep, clientVars, pumpVars, serveVars, CauseInv,
         CauseHonest, FrameKept, Running
<1>7. CASE Serve
  <2>1. UNCHANGED <<sent, connDone, nread>>
    BY <1>7, OthersKeepPump DEF clientVars, pumpVars
  <2>2. CASE ServeCancelCtx
    <3>1. /\ serve' = "report"
          /\ cause' = IF cause = NoCause THEN "ErrCancelHandlerReturn"
                      ELSE cause
      BY <2>2 DEF ServeCancelCtx, ServeStep, Cancel
    <3> QED
      BY <1>0, <1>1, <2>1, <3>1
         DEF CauseInv, CauseHonest, FrameKept, Running
  <2>3. CASE ~ServeCancelCtx
    <3>1. /\ cause' = cause
          /\ serve \in {"report", "shutdown", "wait", "done"} =>
               serve' \in {"report", "shutdown", "wait", "done"}
      BY <1>7, <2>3
         DEF Serve, ServeCall, ServeBadCall, ServeTimeout, ServeGet,
             ServeGetFails, ServeCloseWriter, ServeReport, ServeReportSkip,
             ServeShutdown, ServeWait, Fail, ServeStep
    <3> QED BY <1>0, <1>2, <2>1, <3>1
  <2> QED BY <2>2, <2>3
<1>8. CASE Feeder \/ Process
  <2>1. UNCHANGED <<sent, connDone, nread, cause>>
    BY <1>8, OthersKeepPump
       DEF Feeder, FeederTakeText, FeederTakeNil, FeederEnd, FeederWriteFails,
           FeederDrain, FeederDrained, FeederStep, Process, ProcRead,
           ProcWrite, ReturnSomehow, ProcReturn, clientVars, pumpVars
  <2>2. serve \in {"report", "shutdown", "wait", "done"} => serve' = serve
    BY <1>8
       DEF Feeder, FeederTakeText, FeederTakeNil, FeederEnd, FeederWriteFails,
           FeederDrain, FeederDrained, FeederStep, Process, ProcRead,
           ProcWrite, ReturnSomehow, ProcReturn, ServeStep, serveVars
  <2> QED BY <1>0, <1>2, <2>1, <2>2
<1>9. CASE (\E k \in Kinds : ClientSend(k)) \/ ConnEnd \/ Terminated
  BY <1>0, <1>2, <1>9
     DEF ClientSend, ConnEnd, Terminated, ConnStep, pumpVars, serveVars, vars,
         clientVars
<1> QED
  BY <1>3, <1>4, <1>5, <1>6, <1>7, <1>8, <1>9 DEF Next, Pump

-----------------------------------------------------------------------------
(* The inductive invariant holds.                                            *)

LEMMA InvInit == Init => IInv
<1> SUFFICES ASSUME Init PROVE IInv
  OBVIOUS
<1>1. TypeOK
  BY TypeInit DEF TypeInv
<1>2. PumpInv
  BY DEF Init, PumpInv
<1>3. TextsInv
  BY DEF Init, TextsInv, PendingInv, LogOrdered, LogComplete, EndsFlagged,
         FlagsHonest
<1>4. FeederInv
  BY DEF Init, FeederInv, Running
<1>5. CauseInv
  BY DEF Init, CauseInv, CauseHonest, NoCause
<1> QED BY <1>1, <1>2, <1>3, <1>4, <1>5 DEF IInv

LEMMA InvNext == IInv /\ [Next]_vars => IInv'
<1> SUFFICES ASSUME IInv, [Next]_vars PROVE IInv'
  OBVIOUS
<1>1. TypeInv
  BY DEF IInv, TypeInv, FeederInv
<1>2. TypeInv' /\ TypeOK'
  BY <1>1, TypeNext DEF TypeInv
<1>3. CASE Next
  BY <1>1, <1>2, <1>3, PumpInvNext, TextsInvNext, FeederInvNext, CauseInvNext
     DEF IInv
<1>4. CASE UNCHANGED vars
  <2> USE <1>4 DEF vars, clientVars, pumpVars, chanVars, pipeVars, serveVars
  <2>1. PumpInv => PumpInv'
    BY DEF PumpInv, IsCancel, IsSignal
  <2>2. TextsInv => TextsInv'
    BY DEF TextsInv, PendingInv, LogOrdered, LogComplete, EndsFlagged,
           FlagsHonest, EndsInput, IsCancel, IsSignal, IsText
  <2>3. FeederInv => FeederInv'
    BY DEF FeederInv, Running
  <2>4. CauseInv => CauseInv'
    BY DEF CauseInv, CauseHonest, IsCancel, IsSignal, Running
  <2> QED BY <1>2, <2>1, <2>2, <2>3, <2>4 DEF IInv
<1> QED BY <1>3, <1>4

LEMMA Invariant == Spec => []IInv
BY InvInit, InvNext, PTL DEF Spec

-----------------------------------------------------------------------------
(* What follows from it.                                                     *)

\* The cause a process finds in its context tells what happened.
THEOREM CauseIsHonest == Spec => []CauseHonest
<1>1. IInv => CauseHonest
  BY DEF IInv, CauseInv
<1> QED BY <1>1, Invariant, PTL

\* The process reads the texts of the client in order, each once, without a
\* gap and none from after the end of the input, for every buffer size and
\* however many frames there are.
THEOREM InputIsFaithful == Spec => []InputFaithful
<1>1. IInv => InputFaithful
  <2> SUFFICES ASSUME IInv, NEW k \in DOMAIN input
               PROVE  /\ input[k] \in DOMAIN sent
                      /\ IsText(input[k])
                      /\ \A l \in 1 .. (k - 1) : input[l] < input[k]
                      /\ \A i \in 1 .. input[k] :
                           ~EndsInput(i) /\ (IsText(i) => WasRead(i))
    BY DEF InputFaithful
  <2> USE DEF IInv, TextsInv
  <2>1. /\ sent \in Seq(Kinds) /\ texts \in Seq(Nat) /\ input \in Seq(Nat)
        /\ nread \in 0 .. Len(sent) /\ taken \in 0 .. Len(texts)
        /\ Len(input) \in Nat /\ Len(texts) \in Nat /\ Len(sent) \in Nat
    BY DEF TypeOK, MessagesOK
  <2>2. /\ DOMAIN input = 1 .. Len(input) /\ DOMAIN texts = 1 .. Len(texts)
        /\ DOMAIN sent = 1 .. Len(sent)
    BY <2>1
  <2>3. \A l \in 1 .. Len(input) :
          l \in DOMAIN texts /\ input[l] = texts[l] /\ texts[l] # Nil
    <3>1. /\ Len(input) <= taken
          /\ \A l \in DOMAIN input : input[l] = texts[l] /\ texts[l] # Nil
      BY DEF FeederInv
    <3> QED BY <2>1, <2>2, <3>1, SMTT(60)
  <2>4. k \in 1 .. Len(input) /\ k \in DOMAIN texts /\ input[k] = texts[k]
    <3>1. k \in 1 .. Len(input)
      BY <2>2
    <3> QED BY <2>3, <3>1
  <2>5. /\ texts[k] \in 1 .. nread /\ IsText(texts[k])
        /\ pump = "send" => texts[k] < nread
    BY <2>3, <2>4 DEF LogOrdered
  <2>6. \A l \in DOMAIN texts : l < k => texts[l] < texts[k]
    BY <2>3, <2>4 DEF LogOrdered
  <2>7. ASSUME NEW i \in 1 .. texts[k], EndsInput(i) PROVE FALSE
    <3>1. i \in 1 .. nread /\ ~(pump = "send" /\ i = nread)
      BY <2>1, <2>5
    <3>2. PICK l \in DOMAIN texts :
            texts[l] = Nil /\ \A m \in 1 .. (l - 1) : texts[m] < i
      BY <2>7, <3>1 DEF EndsFlagged
    <3>3. l > k
      BY <2>2, <2>3, <2>4, <3>2
    <3>4. k \in 1 .. (l - 1)
      BY <2>2, <2>4, <3>3
    <3> QED BY <2>1, <2>5, <3>2, <3>4, SMTT(60)
  <2>8. ASSUME NEW i \in 1 .. texts[k], IsText(i) PROVE WasRead(i)
    <3>1. i \in 1 .. nread /\ ~(pump = "send" /\ i = nread)
      BY <2>1, <2>5
    <3>2. PICK l \in DOMAIN texts : texts[l] = i
      BY <2>8, <3>1 DEF LogComplete, PendingInv, Nil
    <3>3. l <= k
      <4>1. k < l => texts[k] < texts[l]
        BY <2>4, <3>1, <3>2 DEF LogOrdered, Nil
      <4> QED BY <2>1, <2>2, <2>4, <2>5, <3>2, <4>1
    <3>4. l \in 1 .. Len(input)
      BY <2>2, <2>4, <3>3
    <3> QED BY <2>2, <2>3, <3>2, <3>4 DEF WasRead
  <2>9. \A l \in 1 .. (k - 1) : input[l] < input[k]
    BY <2>2, <2>3, <2>4, <2>6
  <2> QED BY <2>1, <2>2, <2>4, <2>5, <2>7, <2>8, <2>9
<1> QED BY <1>1, Invariant, PTL

\* The process sees the end of its input only if the client ended the input or
\* the connection is gone, and not before it has read every text that came in
\* earlier.
THEOREM EndOfInputIsHonest == Spec => []EndOfInputHonest
<1>1. IInv => EndOfInputHonest
  <2> SUFFICES ASSUME IInv, Running, writerClosed
               PROVE  /\ connDone \/ \E i \in 1 .. nread : EndsInput(i)
                      /\ \A i \in 1 .. nread :
                           /\ IsText(i)
                           /\ \A j \in 1 .. (i - 1) : ~EndsInput(j)
                           => WasRead(i)
    BY DEF EndOfInputHonest
  <2> USE DEF IInv, TextsInv
  <2>0. texts \in Seq(Nat) /\ input \in Seq(Nat) /\ taken \in 0 .. Len(texts)
    BY DEF TypeOK, MessagesOK
  <2>1. /\ nread \in Nat /\ Len(input) \in Nat /\ Len(texts) \in Nat
        /\ DOMAIN input = 1 .. Len(input) /\ DOMAIN texts = 1 .. Len(texts)
    BY <2>0 DEF TypeOK, MessagesOK
  <2>2. /\ Len(input) <= Len(texts)
        /\ \A l \in 1 .. Len(input) : input[l] = texts[l]
    <3>1. Len(input) <= taken /\ \A l \in DOMAIN input : input[l] = texts[l]
      BY DEF FeederInv
    <3>2. Len(input) <= Len(texts)
      BY <2>0, <2>1, <3>1
    <3> QED BY <2>1, <3>1, <3>2
  <2>3. \/ Len(input) < Len(texts) /\ texts[Len(input) + 1] = Nil
        \/ pump = "done" /\ Len(input) = Len(texts)
    BY DEF FeederInv
  <2>4. CASE Len(input) < Len(texts) /\ texts[Len(input) + 1] = Nil
    <3>1. PICK e \in 1 .. nread :
            /\ EndsInput(e)
            /\ \A k \in ((Len(input) + 1) + 1) .. Len(texts) :
                 texts[k] # Nil => e < texts[k]
      <4>1. Len(input) + 1 \in DOMAIN texts
        BY <2>1, <2>4
      <4> QED BY <2>4, <4>1 DEF FlagsHonest
    <3>2. ASSUME NEW i \in 1 .. nread, IsText(i),
                 \A j \in 1 .. (i - 1) : ~EndsInput(j)
          PROVE  WasRead(i)
      <4>1. i < e
        BY <2>1, <3>1, <3>2, EndsInputIsNoText
      <4>2. PICK l \in DOMAIN texts : texts[l] = i
        BY <2>1, <3>1, <3>2, <4>1 DEF LogComplete, PendingInv, Nil
      <4>3. l \in 1 .. Len(input)
        BY <2>1, <2>4, <3>1, <4>1, <4>2 DEF Nil
      <4> QED BY <2>1, <2>2, <4>2, <4>3 DEF WasRead
    <3> QED BY <3>1, <3>2
  <2>5. CASE pump = "done" /\ Len(input) = Len(texts)
    <3>1. connDone
      BY <2>5 DEF PumpInv
    <3>2. ASSUME NEW i \in 1 .. nread, IsText(i) PROVE WasRead(i)
      <4>1. PICK l \in DOMAIN texts : texts[l] = i
        BY <2>5, <3>2 DEF LogComplete
      <4> QED BY <2>1, <2>2, <2>5, <4>1 DEF WasRead
    <3> QED BY <3>1, <3>2
  <2> QED BY <2>3, <2>4, <2>5
<1> QED BY <1>1, Invariant, PTL

-----------------------------------------------------------------------------
(* The report to the client.                                                 *)

Ending == {"report", "shutdown", "wait", "done"}

\* What serve has put in order by the time it reports.
ReportInv ==
  /\ serve \in {"cancelCtx"} \cup Ending /\ feeder \in {"range", "write"}
       => writerClosed
  /\ serve \in Ending => cause # NoCause
  /\ serve \notin {"shutdown", "wait", "done"}
       => \A i \in DOMAIN out : out[i] = "output"
  /\ serve = "shutdown"
       => out # <<>> /\ out[Len(out)] \in {"fulfilled", "rejected"}
  /\ ResultReported

LEMMA ReportInvNext ==
  ASSUME TypeInv, FeederInv, ReportInv, Next
  PROVE  ReportInv'
<1>0. out \in Seq({"output", "fulfilled", "rejected", "close"})
      /\ Len(out) \in Nat /\ DOMAIN out = 1 .. Len(out)
  BY DEF TypeInv, TypeOK, MessagesOK
<1>1. CASE /\ UNCHANGED <<out, serve, result>>
           /\ cause # NoCause => cause' # NoCause
           /\ writerClosed => writerClosed'
           /\ feeder' \in {"range", "write"} => feeder \in {"range", "write"}
  BY <1>1 DEF ReportInv, ResultReported
<1>2. CASE \/ (\E k \in Kinds : ClientSend(k)) \/ ConnEnd \/ Propagate
           \/ Pump \/ Terminated
  <2>1. UNCHANGED <<out, feeder, writerClosed, serve, result>>
    BY <1>2, PumpKeepsOthers DEF pipeVars, serveVars
  <2>2. cause # NoCause => cause' # NoCause
    BY <1>2
       DEF ClientSend, ConnEnd, Propagate, Terminated, Pump, PumpText,
           PumpIgnore, PumpInitial, PumpBadSignal, PumpClose, PumpCancel,
           PumpCancelAgain, ReceiveSignal, PumpSend, PumpExit, Cancel, vars,
           NoCause
  <2> QED BY <1>1, <2>1, <2>2
<1>3. CASE Feeder \/ ProcRead
  BY <1>1, <1>3
     DEF Feeder, FeederTakeText, FeederTakeNil, FeederEnd, FeederWriteFails,
         FeederDrain, FeederDrained, FeederStep, pipeVars, ProcRead, serveVars
<1>4. CASE ProcWrite
  <2>1. /\ serve = "run" /\ UNCHANGED <<serve, result>>
        /\ out' = Append(out, "output")
    BY <1>4 DEF ProcWrite, ServeStep
  <2>2. \A i \in DOMAIN out' : out'[i] = "output"
    BY <1>0, <2>1 DEF ReportInv
  <2> QED BY <2>1, <2>2 DEF ReportInv, ResultReported, Ending
<1>5. CASE /\ UNCHANGED out
           /\ serve' \in {"call", "get", "run", "closeWriter", "cancelCtx"}
           /\ serve \notin {"shutdown", "wait", "done"}
           /\ serve' = "cancelCtx" /\ feeder' \in {"range", "write"}
                => writerClosed'
  BY <1>5 DEF ReportInv, ResultReported, Ending
<1>6. CASE ReturnSomehow
  BY <1>5, <1>6 DEF ReturnSomehow, ProcReturn, ServeStep
<1>7. CASE ServeCall \/ ServeBadCall \/ ServeTimeout \/ ServeGet
           \/ ServeGetFails \/ ServeCloseWriter
  BY <1>5, <1>7
     DEF ServeCall, ServeBadCall, ServeTimeout, ServeGet, ServeGetFails,
         ServeCloseWriter, Fail, ServeStep, FeederInv
<1>8. CASE ServeCancelCtx
  BY <1>8
     DEF ServeCancelCtx, ServeStep, Cancel, NoCause, Ending, ReportInv,
         ResultReported
<1>9. CASE ServeReport
  <2>1. /\ serve = "report" /\ serve' = "shutdown"
        /\ UNCHANGED <<feeder, writerClosed, cause, result>>
        /\ out' = Append(out, Status(result))
        /\ Status(result) \in {"fulfilled", "rejected"}
        /\ (Status(result) = "fulfilled") = (result = "value")
    BY <1>9 DEF ServeReport, ServeStep, Status
  <2>2. /\ Len(out') = Len(out) + 1 /\ DOMAIN out' = 1 .. Len(out) + 1
        /\ \A i \in 1 .. Len(out) : out'[i] = "output"
        /\ out'[Len(out) + 1] = Status(result)
    BY <1>0, <2>1 DEF ReportInv
  <2>3. /\ cause # NoCause
        /\ feeder \in {"range", "write"} => writerClosed
    BY <2>1 DEF ReportInv, Ending
  <2>4. ResultReported'
    BY <1>0, <2>1, <2>2, <2>3 DEF ResultReported
  <2> QED BY <1>0, <2>1, <2>2, <2>3, <2>4 DEF ReportInv, Ending
<1>10. CASE ServeReportSkip \/ ServeWait
  BY <1>10
     DEF ServeReportSkip, ServeWait, ServeStep, Ending, ReportInv,
         ResultReported
<1>11. CASE ServeShutdown
  <2>1. /\ serve = "shutdown" /\ serve' = "wait"
        /\ UNCHANGED <<feeder, writerClosed, cause, result>>
        /\ out' = out \/ out' = Append(out, "close")
    BY <1>11 DEF ServeShutdown, ServeStep
  <2>2. ResultReported'
    <3>1. CASE out' = out
      BY <2>1, <3>1 DEF ReportInv, ResultReported
    <3>2. CASE out' = Append(out, "close")
      <4>1. /\ Len(out') = Len(out) + 1 /\ DOMAIN out' = 1 .. Len(out) + 1
            /\ \A i \in 1 .. Len(out) : out'[i] = out[i]
            /\ out'[Len(out) + 1] = "close"
        BY <1>0, <3>2
      <4>2. Len(out) > 0 /\ out[Len(out)] \in {"fulfilled", "rejected"}
        BY <1>0, <2>1 DEF ReportInv
      <4>3. \A i \in 1 .. Len(out) : out[i] # "close"
        BY <1>0, <4>2 DEF ReportInv, ResultReported
      <4> QED BY <1>0, <2>1, <4>1, <4>2, <4>3 DEF ReportInv, ResultReported
    <3> QED BY <2>1, <3>1, <3>2
  <2> QED BY <2>1, <2>2 DEF ReportInv, Ending
<1> QED
  BY <1>2, <1>3, <1>4, <1>6, <1>7, <1>8, <1>9, <1>10, <1>11
     DEF Next, Process, Serve

\* The client gets one result, that of the process, after all of its output;
\* by then the context is cancelled and no input can be written any more.
THEOREM ResultIsReported == Spec => []ResultReported
<1>1. Init => ReportInv
  BY DEF Init, ReportInv, ResultReported, Ending
<1>2. IInv /\ ReportInv /\ [Next]_vars => ReportInv'
  <2> SUFFICES ASSUME IInv, ReportInv, [Next]_vars PROVE ReportInv'
    OBVIOUS
  <2>1. TypeInv /\ FeederInv
    BY DEF IInv, TypeInv, FeederInv
  <2>2. CASE UNCHANGED vars
    BY <2>2 DEF vars, pipeVars, serveVars, ReportInv, ResultReported
  <2> QED BY <2>1, <2>2, ReportInvNext
<1>3. ReportInv => ResultReported
  BY DEF ReportInv
<1> QED BY <1>1, <1>2, <1>3, Invariant, PTL DEF Spec

-----------------------------------------------------------------------------
(* Every connection implements PowProcess: the invariant of the refinement. *)

\* serve has a result when there is no process to wait for any more.
ResultInv == serve \in {"call", "get", "run"} <=> result = "none"

Inv == IInv /\ ReportInv /\ ResultInv /\ InputFaithful

LEMMA ResultInvNext == ResultInv /\ [Next]_vars => ResultInv'
<1> SUFFICES ASSUME ResultInv, [Next]_vars PROVE ResultInv'
  OBVIOUS
<1>1. CASE UNCHANGED serveVars
  BY <1>1 DEF ResultInv, serveVars
<1>2. CASE (\E k \in Kinds : ClientSend(k)) \/ ConnEnd \/ Propagate
           \/ Pump \/ Terminated
  BY <1>1, <1>2, PumpKeepsOthers
<1>3. CASE Feeder
  BY <1>1, <1>3
     DEF Feeder, FeederTakeText, FeederTakeNil, FeederEnd, FeederWriteFails,
         FeederDrain, FeederDrained, FeederStep
<1>4. CASE Process
  BY <1>4
     DEF Process, ProcRead, FeederStep, serveVars, ProcWrite, ReturnSomehow,
         ProcReturn, ServeStep, ProcessResults, ResultInv
<1>5. CASE Serve
  BY <1>5
     DEF Serve, ServeCall, ServeBadCall, ServeTimeout, ServeGet,
         ServeGetFails, ServeCloseWriter, ServeCancelCtx, ServeReport,
         ServeReportSkip, ServeShutdown, ServeWait, Fail, ServeStep, ResultInv
<1> QED BY <1>1, <1>2, <1>3, <1>4, <1>5 DEF Next, vars

LEMMA InvAlways == Spec => []Inv
<1>1. Init => ReportInv /\ ResultInv
  BY DEF Init, ReportInv, ResultReported, Ending, ResultInv
<1>2. IInv /\ ReportInv /\ [Next]_vars => ReportInv'
  <2> SUFFICES ASSUME IInv, ReportInv, [Next]_vars PROVE ReportInv'
    OBVIOUS
  <2>1. TypeInv /\ FeederInv
    BY DEF IInv, TypeInv, FeederInv
  <2>2. CASE UNCHANGED vars
    BY <2>2 DEF vars, pipeVars, serveVars, ReportInv, ResultReported
  <2> QED BY <2>1, <2>2, ReportInvNext
<1> QED BY <1>1, <1>2, ResultInvNext, Invariant, InputIsFaithful, PTL
           DEF Spec, Inv

-----------------------------------------------------------------------------
(* What stays as it is seen by PowProcess. *)

Offered == [w \in {"client"} |-> InputTexts]
Got     == [w \in {"client"} |-> {input[k] : k \in DOMAIN input}]
Told    == {out[i] : i \in DOMAIN out} \ {"output", "close"}

\* InputTexts depends on sent alone.
LEMMA OfferedKept == UNCHANGED sent => UNCHANGED Offered
BY DEF Offered, InputTexts, IsText, EndsInput, IsCancel, IsSignal

LEMMA Stutters ==
  ASSUME UNCHANGED <<sent, serve, result, input, writerClosed, cause, out>>
  PROVE  UNCHANGED Abstract!vars
<1>1. UNCHANGED <<Offered, Got, Told, Phase, Outcome>>
  BY OfferedKept DEF Got, Told, Phase, Running, Outcome
<1> QED BY <1>1 DEF Abstract!vars, Offered, Got, Told

\* A cancellation is seen once.
LEMMA CancelSeen ==
  ASSUME UNCHANGED <<sent, input, writerClosed, out, result>>,
         UNCHANGED Phase,
         NEW c \in ErrCancel \cup {"connection"}, Cancel(c)
  PROVE  [Abstract!Next]_(Abstract!vars)
<1>1. UNCHANGED <<Offered, Got, Told, Phase, Outcome>>
  BY OfferedKept DEF Got, Told, Outcome
<1>2. CASE cause # NoCause
  BY <1>1, <1>2 DEF Cancel, Abstract!vars, Offered, Got, Told
<1>3. CASE cause = NoCause
  BY <1>1, <1>3 DEF Cancel, Abstract!Next, Abstract!Cancel, Offered, Got, Told
<1> QED BY <1>2, <1>3

\* So is the end of the input.
LEMMA EndSeenOnce ==
  ASSUME UNCHANGED <<sent, input, cause, out, result>>, UNCHANGED Phase,
         writerClosed \in BOOLEAN, writerClosed' = TRUE
  PROVE  [Abstract!Next]_(Abstract!vars)
<1>1. UNCHANGED <<Offered, Got, Told, Phase, Outcome>>
  BY OfferedKept DEF Got, Told, Outcome
<1>2. CASE writerClosed
  BY <1>1, <1>2 DEF Abstract!vars, Offered, Got, Told
<1>3. CASE ~writerClosed
  BY <1>1, <1>3 DEF Abstract!Next, Abstract!EndInput, Offered, Got, Told
<1> QED BY <1>2, <1>3

-----------------------------------------------------------------------------
(* Step by step. *)

\* More frames are more input, behind what was there.
LEMMA SendIsOffer ==
  ASSUME Inv, NEW k \in Kinds, ClientSend(k)
  PROVE  [Abstract!Next]_(Abstract!vars)
<1>0. /\ TypeOK /\ Next /\ sent \in Seq(Kinds) /\ sent' = Append(sent, k)
      /\ UNCHANGED <<out, input, writerClosed, cause, serve, result>>
  BY DEF Inv, IInv, TypeOK, MessagesOK, ClientSend, ConnStep, Next, pipeVars,
         serveVars
<1>1. UNCHANGED <<Got, Told, Phase, Outcome>>
  BY <1>0 DEF Got, Told, Phase, Running, Outcome
<1>2. \A i \in 1 .. Len(sent) : i \in InputTexts' <=> i \in InputTexts
  <2>1. \A i \in 1 .. Len(sent) : (IsText(i)' <=> IsText(i))
                                 /\ (EndsInput(i)' <=> EndsInput(i))
    BY <1>0, FramesKept DEF FrameKept
  <2>2. DOMAIN sent = 1 .. Len(sent) /\ DOMAIN sent' = 1 .. (Len(sent) + 1)
        /\ Len(sent) \in Nat
    BY <1>0
  <2> QED BY <2>1, <2>2 DEF InputTexts
<1>3. /\ InputTexts \subseteq 1 .. Len(sent) /\ Len(sent) \in Nat
      /\ InputTexts' \subseteq 1 .. (Len(sent) + 1)
  BY <1>0 DEF InputTexts
<1>4. /\ InputTexts \subseteq InputTexts'
      /\ \A p \in InputTexts' \ InputTexts, q \in InputTexts : q < p
  BY <1>2, <1>3
<1> QED
  BY <1>0, <1>1, <1>4 DEF Abstract!Next, Abstract!Offer, Offered, Got, Told

\* The text that the process reads is the next one it has not read.
LEMMA ReadIsRead ==
  ASSUME Inv, Inv', ProcRead
  PROVE  Abstract!Next
<1>0. /\ input \in Seq(Nat) /\ texts \in Seq(Nat) /\ taken \in 0 .. Len(texts)
      /\ Len(input) \in Nat
      /\ feeder = "write" /\ Running /\ ~writerClosed
      /\ input' = Append(input, texts[taken])
      /\ taken > 0
      /\ UNCHANGED <<sent, out, writerClosed, cause, serve, result>>
  BY DEF Inv, IInv, TypeOK, MessagesOK, ProcRead, FeederStep, FeederInv,
         clientVars, serveVars
<1>p. PICK p \in Nat, n \in Nat : p = texts[taken] /\ n = Len(input) + 1
  BY <1>0
<1>1. /\ p \in Nat /\ DOMAIN input = 1 .. Len(input)
      /\ DOMAIN input' = 1 .. n /\ n \in DOMAIN input' /\ input'[n] = p
      /\ \A k \in 1 .. Len(input) : input'[k] = input[k]
  BY <1>0, <1>p
<1>2. UNCHANGED <<Offered, Told, Phase, Outcome>>
  BY <1>0, OfferedKept DEF Told, Phase, Running, Outcome
<1>3. /\ p \in DOMAIN sent /\ IsText(p)
      /\ \A k \in 1 .. Len(input) : input[k] < p
      /\ \A i \in 1 .. p : ~EndsInput(i) /\ (IsText(i) => WasRead(i)')
  <2>1. /\ input'[n] \in DOMAIN sent' /\ sent'[input'[n]] \in TextKinds
        /\ \A l \in 1 .. (n - 1) : input'[l] < input'[n]
        /\ \A i \in 1 .. input'[n] : ~EndsInput(i)'
        /\ \A i \in 1 .. input'[n] : sent'[i] \in TextKinds => WasRead(i)'
    BY <1>1 DEF Inv, InputFaithful, IsText
  <2>2. \A i : EndsInput(i)' <=> EndsInput(i)
    BY <1>0 DEF EndsInput, IsCancel, IsSignal
  <2> QED BY <1>0, <1>p, <1>1, <2>1, <2>2 DEF IsText
<1>4. {input'[k] : k \in DOMAIN input'} = {input[k] : k \in DOMAIN input} \cup {p}
  BY <1>0, <1>p, <1>1, SMTT(60)
<1>5. p \in InputTexts /\ p \notin {input[k] : k \in DOMAIN input}
  BY <1>0, <1>1, <1>3 DEF InputTexts
<1>6. \A q \in InputTexts : q < p => q \in {input[k] : k \in DOMAIN input}
  <2> SUFFICES ASSUME NEW q \in InputTexts, q < p
               PROVE  q \in {input[k] : k \in DOMAIN input}
    OBVIOUS
  <2>1. q \in 1 .. p /\ IsText(q)
    <3>1. sent \in Seq(Kinds)
      BY DEF Inv, IInv, TypeOK, MessagesOK
    <3> QED BY <1>1, <3>1 DEF InputTexts
  <2>2. WasRead(q)'
    BY <1>3, <2>1
  <2> QED BY <1>1, <1>4, <2>2, SMTT(60) DEF WasRead
<1>7. /\ Got' = [Got EXCEPT !["client"] = Got["client"] \cup {p}]
      /\ Offered["client"] = InputTexts
      /\ Got["client"] = {input[k] : k \in DOMAIN input}
      /\ Phase = "running"
  BY <1>0, <1>4 DEF Got, Offered, Phase, Running
<1>8. Abstract!Read("client")
  BY <1>0, <1>2, <1>5, <1>6, <1>7 DEF Abstract!Read, Offered, Got, Told
<1> QED BY <1>8 DEF Abstract!Next

LEMMA PumpStep ==
  ASSUME Pump
  PROVE  [Abstract!Next]_(Abstract!vars)
<1>1. UNCHANGED <<sent, out, writerClosed, input, serve, result, Phase>>
  <2>1. UNCHANGED <<out, pipeVars, serveVars>>
    BY PumpKeepsOthers
  <2>2. UNCHANGED sent
    BY DEF Pump, PumpText, PumpIgnore, PumpInitial, PumpBadSignal, PumpClose,
           PumpCancel, PumpCancelAgain, ReceiveSignal, PumpSend, PumpExit,
           Receive, clientVars
  <2> QED BY <2>1, <2>2 DEF pipeVars, serveVars, Phase, Running
<1>2. CASE UNCHANGED cause
  BY <1>1, <1>2, Stutters
<1>3. ASSUME NEW c \in ErrCancel, Cancel(c)
      PROVE  [Abstract!Next]_(Abstract!vars)
  BY <1>1, <1>3, CancelSeen
<1> QED
  BY <1>2, <1>3
     DEF Pump, PumpText, PumpIgnore, PumpInitial, PumpBadSignal, PumpClose,
         PumpCancel, PumpCancelAgain, PumpSend, PumpExit, ErrCancel

LEMMA FeederStepSeen ==
  ASSUME Inv, Feeder
  PROVE  [Abstract!Next]_(Abstract!vars)
<1>1. UNCHANGED <<sent, out, input, cause, serve, result, Phase>>
      /\ writerClosed \in BOOLEAN
  BY DEF Feeder, FeederTakeText, FeederTakeNil, FeederEnd, FeederWriteFails,
         FeederDrain, FeederDrained, FeederStep, clientVars, serveVars,
         pipeVars, Phase, Running, Inv, IInv, TypeOK, FlagsOK
<1>2. CASE UNCHANGED writerClosed
  BY <1>1, <1>2, Stutters
<1>3. CASE writerClosed' = TRUE
  BY <1>1, <1>3, EndSeenOnce
<1> QED
  BY <1>2, <1>3
     DEF Feeder, FeederTakeText, FeederTakeNil, FeederEnd, FeederWriteFails,
         FeederDrain, FeederDrained, pipeVars

\* The process or the handler comes to an end: it may do so once.
LEMMA FinishSeen ==
  ASSUME UNCHANGED <<sent, out, input, writerClosed, cause>>,
         Phase # "over", Phase' = "over",
         Outcome' \in IF Phase = "running" THEN {"fulfilled", "rejected"}
                                           ELSE {"rejected"}
  PROVE  Abstract!Next
<1>1. UNCHANGED <<Offered, Got, Told>>
  BY OfferedKept DEF Got, Told
<1> QED BY <1>1 DEF Abstract!Next, Abstract!Finish, Offered, Got, Told

LEMMA ServeStepSeen ==
  ASSUME Inv, Serve
  PROVE  [Abstract!Next]_(Abstract!vars)
<1>0. /\ UNCHANGED <<sent, input>>
      /\ writerClosed \in BOOLEAN
      /\ out \in Seq({"output", "fulfilled", "rejected", "close"})
  BY OthersKeepPump
     DEF Serve, ServeCall, ServeBadCall, ServeTimeout, ServeGet,
         ServeGetFails, ServeCloseWriter, ServeCancelCtx, ServeReport,
         ServeReportSkip, ServeShutdown, ServeWait, Fail, ServeStep,
         clientVars, Inv, IInv, TypeOK, FlagsOK, MessagesOK
<1>1. CASE ServeCall \/ ServeReportSkip \/ ServeWait
  <2>1. UNCHANGED <<Phase, Outcome, out, writerClosed, cause>>
    BY <1>1 DEF ServeCall, ServeReportSkip, ServeWait, ServeStep, Phase,
                Running, Outcome
  <2>2. UNCHANGED <<Offered, Got, Told>>
    BY <1>0, <2>1, OfferedKept DEF Got, Told
  <2> QED BY <2>1, <2>2 DEF Abstract!vars, Offered, Got, Told
<1>2. CASE ServeGet
  <2>1. /\ Phase = "waiting" /\ Phase' = "running"
        /\ UNCHANGED <<Outcome, out, writerClosed, cause>>
    BY <1>2 DEF ServeGet, ServeStep, Phase, Running, Outcome
  <2>2. UNCHANGED <<Offered, Got, Told>>
    BY <1>0, <2>1, OfferedKept DEF Got, Told
  <2> QED
    BY <2>1, <2>2 DEF Abstract!Next, Abstract!Begin, Offered, Got, Told
<1>3. CASE ServeBadCall \/ ServeTimeout \/ ServeGetFails
  BY <1>0, <1>3, FinishSeen
     DEF ServeBadCall, ServeTimeout, ServeGetFails, Fail, ServeStep, Phase,
         Running, Outcome
<1>4. CASE ServeCloseWriter
  BY <1>0, <1>4, EndSeenOnce DEF ServeCloseWriter, ServeStep, Phase, Running
<1>5. CASE ServeCancelCtx
  <2>1. /\ UNCHANGED <<out, writerClosed, result, Phase>>
        /\ Cancel("ErrCancelHandlerReturn")
    BY <1>5 DEF ServeCancelCtx, ServeStep, Phase, Running
  <2> QED BY <1>0, <2>1, CancelSeen DEF ErrCancel
<1>6. CASE ServeReport
  <2>1. /\ Phase = "over" /\ UNCHANGED <<Phase, Outcome, writerClosed, cause>>
        /\ cause # NoCause
        /\ out' = Append(out, Outcome) /\ Outcome \in {"fulfilled", "rejected"}
    BY <1>6 DEF ServeReport, ServeStep, Phase, Running, Outcome, Status, Inv,
                ReportInv, ResultInv, Ending
  <2>2. Told' = Told \cup {Outcome}
    <3>1. /\ DOMAIN out = 1 .. Len(out) /\ DOMAIN out' = 1 .. (Len(out) + 1)
          /\ Len(out) \in Nat /\ out'[Len(out) + 1] = Outcome
          /\ \A i \in 1 .. Len(out) : out'[i] = out[i]
      BY <1>0, <2>1
    <3> QED BY <2>1, <3>1 DEF Told
  <2>3. UNCHANGED <<Offered, Got>>
    BY <1>0, OfferedKept DEF Got
  <2> QED
    BY <2>1, <2>2, <2>3 DEF Abstract!Next, Abstract!Tell, Offered, Got, Told
<1>7. CASE ServeShutdown
  <2>1. /\ UNCHANGED <<Phase, Outcome, writerClosed, cause>>
        /\ out' = out \/ out' = Append(out, "close")
    BY <1>7 DEF ServeShutdown, ServeStep, Phase, Running, Outcome
  <2>2. Told' = Told
    <3>1. CASE out' = Append(out, "close")
      <4>1. /\ DOMAIN out = 1 .. Len(out) /\ DOMAIN out' = 1 .. (Len(out) + 1)
            /\ Len(out) \in Nat /\ out'[Len(out) + 1] = "close"
            /\ \A i \in 1 .. Len(out) : out'[i] = out[i]
        BY <1>0, <3>1
      <4> QED BY <4>1 DEF Told
    <3> QED BY <2>1, <3>1 DEF Told
  <2>3. UNCHANGED <<Offered, Got>>
    BY <1>0, OfferedKept DEF Got
  <2> QED BY <2>1, <2>2, <2>3 DEF Abstract!vars, Offered, Got, Told
<1> QED BY <1>1, <1>2, <1>3, <1>4, <1>5, <1>6, <1>7 DEF Serve

LEMMA StepSeen ==
  ASSUME Inv, Inv', [Next]_vars
  PROVE  [Abstract!Next]_(Abstract!vars)
<1>1. CASE (\E k \in Kinds : ClientSend(k)) \/ Pump \/ Feeder \/ Serve
  BY <1>1, SendIsOffer, PumpStep, FeederStepSeen, ServeStepSeen
<1>2. CASE UNCHANGED vars \/ Terminated \/ ConnEnd
  BY <1>2, Stutters DEF Terminated, ConnEnd, ConnStep, vars, clientVars,
                        pipeVars, serveVars
<1>3. CASE Propagate
  <2>1. /\ UNCHANGED <<sent, input, writerClosed, out, result, Phase>>
        /\ Cancel("connection")
    BY <1>3 DEF Propagate, ConnStep, clientVars, pipeVars, serveVars, Phase,
                Running, Cancel
  <2> QED BY <2>1, CancelSeen
<1>4. CASE ProcRead
  BY <1>4, ReadIsRead
<1>5. CASE ProcWrite
  <2>1. /\ UNCHANGED <<sent, input, writerClosed, cause, Phase, Outcome>>
        /\ out' = Append(out, "output")
    BY <1>5 DEF ProcWrite, ServeStep, clientVars, Phase, Running, Outcome
  <2>2. Told' = Told
    <3>1. out \in Seq({"output", "fulfilled", "rejected", "close"})
      BY DEF Inv, IInv, TypeOK, MessagesOK
    <3>2. /\ DOMAIN out = 1 .. Len(out) /\ DOMAIN out' = 1 .. (Len(out) + 1)
          /\ Len(out) \in Nat /\ out'[Len(out) + 1] = "output"
          /\ \A i \in 1 .. Len(out) : out'[i] = out[i]
      BY <2>1, <3>1
    <3> QED BY <3>2 DEF Told
  <2>3. UNCHANGED <<Offered, Got>>
    BY <2>1, OfferedKept DEF Got
  <2> QED BY <2>1, <2>2, <2>3 DEF Abstract!vars, Offered, Got, Told
<1>6. CASE ReturnSomehow
  BY <1>6, FinishSeen
     DEF ReturnSomehow, ProcReturn, ServeStep, clientVars, Phase, Running,
         Outcome, ProcessResults
<1> QED BY <1>1, <1>2, <1>3, <1>4, <1>5, <1>6 DEF Next, Process

\* A connection implements PowProcess: however its three goroutines interleave,
\* a client knows one process that reads its texts in order and without a gap,
\* has one cause and one outcome, and is told of the outcome when it is over
\* and cancelled.
THEOREM ConnectionIsProcess == Spec => ImplementsProcess
<1>1. Init => Abstract!Init
  BY DEF Init, Abstract!Init, Phase, Outcome, Running, InputTexts
<1>2. Inv /\ Inv' /\ [Next]_vars => [Abstract!Next]_(Abstract!vars)
  BY StepSeen
<1> QED BY <1>1, <1>2, InvAlways, PTL DEF Spec, ImplementsProcess, Abstract!Spec

==============================================================================
