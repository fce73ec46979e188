--------------------------- MODULE WsClientProofs ---------------------------
(***************************************************************************)
(* What the websocket client tells and sends, for any number of calls of   *)
(* its methods, and of lines of output.                                    *)
(***************************************************************************)
EXTENDS WsClient, TLAPS

\* There is one socket at most, and nothing was sent before it opens.
SocketInv ==
  /\ ~connected => socket = "none"
  /\ socket \in {"none", "connecting"} =>
       /\ wire = <<>> /\ inbox = <<>>
       /\ shown = 0 /\ written = 0
       /\ verdict = "none" /\ received = "none" /\ closeFrame = "none"
  /\ socket = "open" => wire # <<>>
  /\ state = "Fulfilled" => socket = "closed"

\* What is on its way: the lines that were not shown yet, then a result, then
\* a close frame.
FlowInv ==
  /\ received # "none" => received = verdict
  /\ socket = "open" =>
       /\ closeFrame = "none"
       /\ shown <= written
       /\ \A k \in DOMAIN inbox :
            /\ inbox[k] = "line" <=> k <= written - shown
            /\ inbox[k] \in Results => inbox[k] = verdict
            /\ inbox[k] \in CloseFrames => k = Len(inbox)
            /\ inbox[k] = "normal" => verdict # "none"
       /\ written - shown <= Len(inbox)

\* A close frame comes after everything else.
ClosingInv == closeFrame # "none" => shown = written

\* The input is closed by a message that has no text after it.
CloseSentInv == \A k \in Position("close") : inputClosed

IInv ==
  /\ OnceOK /\ ClientOK /\ SocketOK
  /\ SocketInv /\ FlowInv /\ ClosingInv
  /\ CloseSentInv /\ WireInOrder /\ WaitTells

\* A message that is sent goes to the end of the wire, behind the call.
LEMMA SendKeeps ==
  ASSUME IInv, socket = "open",
         NEW kind \in {"text", "close", "cancel"}, NEW c \in Callers,
         wire' = Append(wire, <<kind, c>>),
         kind = "text" => ~inputClosed,
         kind = "close" \/ inputClosed => inputClosed'
  PROVE  wire' \in Seq(Messages) /\ wire' # <<>> /\ CloseSentInv' /\ WireInOrder'
<1> DEFINE m == <<kind, c>>
<1> USE DEF IInv, SocketOK
<1>1. m \in Messages BY DEF Messages
<1> HIDE DEF m
<1>2. /\ wire' \in Seq(Messages) /\ wire' # <<>>
      /\ Len(wire') = Len(wire) + 1
      /\ \A k \in DOMAIN wire : wire'[k] = wire[k]
      /\ wire'[Len(wire) + 1] = m
  BY <1>1 DEF m
<1>3. /\ DOMAIN wire = 1 .. Len(wire) /\ DOMAIN wire' = 1 .. (Len(wire) + 1)
      /\ Len(wire) \in Nat
  BY <1>2
<1>4. m[1] = kind BY DEF m
<1>5. CloseSentInv'
  BY <1>2, <1>3, <1>4 DEF CloseSentInv, Position
<1>6. WireInOrder'
  <2>1. PICK k \in Position("call") : \A l \in DOMAIN wire : l < k => wire[l][2] = "hook"
    BY DEF SocketInv, WireInOrder
  <2>2. k \in Position("call")' /\ \A l \in DOMAIN wire' : l < k => wire'[l][2] = "hook"
    BY <1>2, <1>3, <2>1 DEF Position
  <2>3. ASSUME NEW i \in Position("close")', NEW j \in Position("text")' PROVE j < i
    <3>1. CASE i = Len(wire) + 1
      BY <1>2, <1>3, <1>4, <2>3, <3>1 DEF Position
    <3>2. CASE i \in DOMAIN wire
      <4>1. i \in Position("close") /\ inputClosed
        BY <1>2, <2>3, <3>2 DEF Position, CloseSentInv
      <4>2. j \in Position("text") BY <1>2, <1>3, <1>4, <2>3, <4>1 DEF Position
      <4> QED BY <4>1, <4>2 DEF WireInOrder
    <3> QED BY <1>3, <2>3, <3>1, <3>2 DEF Position
  <2> QED BY <2>2, <2>3 DEF WireInOrder
<1> QED BY <1>2, <1>5, <1>6

LEMMA ConnectKeeps ==
  ASSUME IInv, NEW c \in Callers, Connect(c)
  PROVE  IInv'
<1> USE DEF IInv, onceVars, clientVars, socketVars, serverVars, Connect, CallStep,
        Enter, Runs, Answer
<1>1. OnceOK' /\ ClientOK'
  BY DEF OnceOK, ClientOK, Outcomes
<1>5. SocketOK'
  BY DEF ClientOK, SocketOK, SocketInv, Messages, Results, CloseFrames
<1>2. SocketInv' /\ FlowInv' /\ ClosingInv'
  BY DEF OnceOK, ClientOK, SocketOK, SocketInv, FlowInv, ClosingInv, Results,
     CloseFrames
<1>3. CloseSentInv' /\ WireInOrder'
  BY DEF ClientOK, SocketOK, SocketInv, CloseSentInv, Position, Messages, WireInOrder
<1>4. WaitTells' BY DEF OnceOK, ClientOK, SocketInv, FlowInv, ClosingInv, WaitTells
<1> QED BY <1>1, <1>2, <1>3, <1>4, <1>5

LEMMA SendTextKeeps ==
  ASSUME IInv, NEW c \in Callers, SendText(c)
  PROVE  IInv'
<1> USE DEF IInv, onceVars, clientVars, socketVars, serverVars, SendText, CallStep,
        Method, Send, Answer
<1>a. \/ UNCHANGED wire
      \/ /\ wire' \in Seq(Messages) /\ wire' # <<>>
         /\ socket = "open" /\ CloseSentInv' /\ WireInOrder'
  <2>1. CASE UNCHANGED wire BY <2>1
  <2>2. CASE socket = "open" /\ wire' = Append(wire, <<"text", c>>) /\ ~inputClosed
    BY <2>2, SendKeeps
  <2> QED BY <2>1, <2>2
<1>1. OnceOK' /\ ClientOK'
  BY <1>a DEF OnceOK, ClientOK, Outcomes
<1>5. SocketOK'
  BY <1>a DEF ClientOK, SocketOK, SocketInv, Messages, Results, CloseFrames
<1>2. SocketInv' /\ FlowInv' /\ ClosingInv'
  BY <1>a DEF OnceOK, ClientOK, SocketOK, SocketInv, FlowInv, ClosingInv, Results,
     CloseFrames
<1>3. CloseSentInv' /\ WireInOrder'
  BY <1>a DEF ClientOK, SocketOK, SocketInv, CloseSentInv, Position, Messages, WireInOrder
<1>4. WaitTells' BY <1>a DEF OnceOK, ClientOK, SocketInv, FlowInv, ClosingInv, WaitTells
<1> QED BY <1>1, <1>2, <1>3, <1>4, <1>5

LEMMA CloseInputKeeps ==
  ASSUME IInv, NEW c \in Callers, CloseInput(c)
  PROVE  IInv'
<1> USE DEF IInv, onceVars, clientVars, socketVars, serverVars, CloseInput, CallStep,
        Method, Send, Answer
<1>a. \/ UNCHANGED wire
      \/ /\ wire' \in Seq(Messages) /\ wire' # <<>>
         /\ socket = "open" /\ CloseSentInv' /\ WireInOrder'
  <2>1. CASE UNCHANGED wire BY <2>1
  <2>2. CASE socket = "open" /\ wire' = Append(wire, <<"close", c>>)
    BY <2>2, SendKeeps
  <2> QED BY <2>1, <2>2
<1>1. OnceOK' /\ ClientOK'
  BY <1>a DEF OnceOK, ClientOK, Outcomes
<1>5. SocketOK'
  BY <1>a DEF ClientOK, SocketOK, SocketInv, Messages, Results, CloseFrames
<1>2. SocketInv' /\ FlowInv' /\ ClosingInv'
  BY <1>a DEF OnceOK, ClientOK, SocketOK, SocketInv, FlowInv, ClosingInv, Results,
     CloseFrames
<1>3. CloseSentInv' /\ WireInOrder'
  BY <1>a DEF ClientOK, SocketOK, SocketInv, CloseSentInv, Position, Messages, WireInOrder
<1>4. WaitTells' BY <1>a DEF OnceOK, ClientOK, SocketInv, FlowInv, ClosingInv, WaitTells
<1> QED BY <1>1, <1>2, <1>3, <1>4, <1>5

LEMMA CancelKeeps ==
  ASSUME IInv, NEW c \in Callers, Cancel(c)
  PROVE  IInv'
<1> USE DEF IInv, onceVars, clientVars, socketVars, serverVars, Cancel, CallStep,
        Method, Send, Answer
<1>a. \/ UNCHANGED wire
      \/ /\ wire' \in Seq(Messages) /\ wire' # <<>>
         /\ socket = "open" /\ CloseSentInv' /\ WireInOrder'
  <2>1. CASE UNCHANGED wire BY <2>1
  <2>2. CASE socket = "open" /\ wire' = Append(wire, <<"cancel", c>>)
    BY <2>2, SendKeeps
  <2> QED BY <2>1, <2>2
<1>1. OnceOK' /\ ClientOK'
  BY <1>a DEF OnceOK, ClientOK, Outcomes
<1>5. SocketOK'
  BY <1>a DEF ClientOK, SocketOK, SocketInv, Messages, Results, CloseFrames
<1>2. SocketInv' /\ FlowInv' /\ ClosingInv'
  BY <1>a DEF OnceOK, ClientOK, SocketOK, SocketInv, FlowInv, ClosingInv, Results,
     CloseFrames
<1>3. CloseSentInv' /\ WireInOrder'
  BY <1>a DEF ClientOK, SocketOK, SocketInv, CloseSentInv, Position, Messages, WireInOrder
<1>4. WaitTells' BY <1>a DEF OnceOK, ClientOK, SocketInv, FlowInv, ClosingInv, WaitTells
<1> QED BY <1>1, <1>2, <1>3, <1>4, <1>5

LEMMA WaitKeeps ==
  ASSUME IInv, NEW c \in Callers, Wait(c)
  PROVE  IInv'
<1> USE DEF IInv, onceVars, clientVars, socketVars, serverVars, Wait, CallStep, Do,
        Enter, Runs
<1>1. OnceOK' /\ ClientOK'
  BY DEF OnceOK, ClientOK, Outcomes
<1>5. SocketOK'
  BY DEF ClientOK, SocketOK, SocketInv, Messages, Results, CloseFrames
<1>2. SocketInv' /\ FlowInv' /\ ClosingInv'
  BY DEF OnceOK, ClientOK, SocketOK, SocketInv, FlowInv, ClosingInv, Results,
     CloseFrames
<1>3. CloseSentInv' /\ WireInOrder'
  BY DEF ClientOK, SocketOK, SocketInv, CloseSentInv, Position, Messages, WireInOrder
<1>4. WaitTells' BY DEF OnceOK, ClientOK, SocketInv, FlowInv, ClosingInv, WaitTells
<1> QED BY <1>1, <1>2, <1>3, <1>4, <1>5

LEMMA NeverReachedKeeps ==
  ASSUME IInv, NeverReached
  PROVE  IInv'
<1> USE DEF IInv, onceVars, clientVars, socketVars, serverVars, NeverReached, Reject,
        Settle
<1>1. OnceOK' /\ ClientOK'
  BY DEF OnceOK, ClientOK, Outcomes
<1>5. SocketOK'
  BY DEF ClientOK, SocketOK, SocketInv, Messages, Results, CloseFrames
<1>2. SocketInv' /\ FlowInv' /\ ClosingInv'
  BY DEF OnceOK, ClientOK, SocketOK, SocketInv, FlowInv, ClosingInv, Results,
     CloseFrames
<1>3. CloseSentInv' /\ WireInOrder'
  BY DEF ClientOK, SocketOK, SocketInv, CloseSentInv, Position, Messages, WireInOrder
<1>4. WaitTells' BY DEF OnceOK, ClientOK, SocketInv, FlowInv, ClosingInv, WaitTells
<1> QED BY <1>1, <1>2, <1>3, <1>4, <1>5

LEMMA InvalidURLKeeps ==
  ASSUME IInv, InvalidURL
  PROVE  IInv'
<1> USE DEF IInv, onceVars, clientVars, socketVars, serverVars, InvalidURL, Reject,
        Settle
<1>1. OnceOK' /\ ClientOK'
  BY DEF OnceOK, ClientOK, Outcomes
<1>5. SocketOK'
  BY DEF ClientOK, SocketOK, SocketInv, Messages, Results, CloseFrames
<1>2. SocketInv' /\ FlowInv' /\ ClosingInv'
  BY DEF OnceOK, ClientOK, SocketOK, SocketInv, FlowInv, ClosingInv, Results,
     CloseFrames
<1>3. CloseSentInv' /\ WireInOrder'
  BY DEF ClientOK, SocketOK, SocketInv, CloseSentInv, Position, Messages, WireInOrder
<1>4. WaitTells' BY DEF OnceOK, ClientOK, SocketInv, FlowInv, ClosingInv, WaitTells
<1> QED BY <1>1, <1>2, <1>3, <1>4, <1>5

LEMMA SettledKeeps ==
  ASSUME IInv, Settled
  PROVE  IInv'
<1> USE DEF IInv, onceVars, clientVars, socketVars, serverVars, Settled,
        Finally
<1>1. OnceOK' BY DEF OnceOK
<1>6. ClientOK' BY DEF ClientOK, Outcomes
<1>5. SocketOK' BY DEF SocketOK
<1>2. SocketInv' /\ FlowInv' /\ ClosingInv' BY DEF SocketInv, FlowInv, ClosingInv
<1>3. CloseSentInv' /\ WireInOrder' BY DEF CloseSentInv, Position, WireInOrder
<1>4. WaitTells' BY DEF WaitTells, OnceOK
<1> QED BY <1>1, <1>2, <1>3, <1>4, <1>5, <1>6

\* A callback of ws.send settles a promise, and nothing else.
LEMMA SentKeeps ==
  ASSUME IInv, Sent
  PROVE  IInv'
<1> USE DEF IInv, onceVars, clientVars, socketVars, serverVars, Sent,
        OnSent, OnCallSent, CallbackStep, Answer
<1>1. OnceOK' BY DEF OnceOK
<1>6. ClientOK' BY DEF ClientOK, Outcomes
<1>5. SocketOK' BY DEF SocketOK
<1>2. SocketInv' /\ FlowInv' /\ ClosingInv' BY DEF SocketInv, FlowInv, ClosingInv
<1>3. CloseSentInv' /\ WireInOrder' BY DEF CloseSentInv, Position, WireInOrder
<1>4. WaitTells' BY DEF WaitTells, OnceOK
<1> QED BY <1>1, <1>2, <1>3, <1>4, <1>5, <1>6

\* The call comes first on the wire, or behind the one message of beforeCall.
LEMMA HookKeeps ==
  ASSUME IInv, OnOpen
  PROVE  /\ wire' \in Seq(Messages) /\ wire' # <<>>
         /\ CloseSentInv' /\ WireInOrder'
<1> DEFINE toCall == <<"call", "hook">>
<1>1. PICK h \in HookCalls :
        /\ wire' = wire \o HookSends(h) \o <<toCall>>
        /\ inputClosed' = (inputClosed \/ h = "closeInput")
  BY DEF OnOpen
<1>2. wire = <<>> BY DEF IInv, SocketInv, OnOpen
<1>3. \A kind \in {"text", "call", "close", "cancel"} : <<kind, "hook">> \in Messages
  BY DEF Messages
<1>4. CASE HookSends(h) = <<>>
  <2>1. wire' = <<toCall>> BY <1>1, <1>2, <1>4
  <2>2. wire' \in Seq(Messages) /\ wire' # <<>> /\ wire'[1] = toCall /\ DOMAIN wire' = {1}
    BY <1>3, <2>1
  <2> QED BY <2>2 DEF CloseSentInv, WireInOrder, Position
<1>5. ASSUME NEW kind \in {"text", "close", "cancel"},
             HookSends(h) = <<<<kind, "hook">>>>, kind = "close" => inputClosed'
      PROVE  /\ wire' \in Seq(Messages) /\ wire' # <<>>
             /\ CloseSentInv' /\ WireInOrder'
  <2> DEFINE m == <<kind, "hook">>
  <2>1. wire' = (<<>> \o <<m>>) \o <<toCall>> BY <1>1, <1>2, <1>5
  <2>2. m \in Messages /\ toCall \in Messages BY <1>3
  <2>3. /\ wire' \in Seq(Messages) /\ Len(wire') = 2
        /\ wire'[1] = m /\ wire'[2] = toCall
    <3> HIDE DEF m, toCall
    <3>1. /\ <<>> \o <<m>> \in Seq(Messages) /\ Len(<<>> \o <<m>>) = 1
          /\ (<<>> \o <<m>>)[1] = m
      BY <2>2
    <3> QED BY <2>1, <2>2, <3>1
  <2>4. wire' # <<>> /\ DOMAIN wire' = {1, 2} BY <2>3
  <2> QED BY <1>5, <2>3, <2>4 DEF CloseSentInv, WireInOrder, Position
<1> QED BY <1>1, <1>4, <1>5, HookCallsAssumption DEF HookSends

LEMMA OnOpenKeeps ==
  ASSUME IInv, OnOpen
  PROVE  IInv'
<1> USE DEF IInv, onceVars, clientVars, socketVars, serverVars, OnOpen
<1>0. inputClosed' \in BOOLEAN BY DEF ClientOK
<1>1. OnceOK' /\ ClientOK' BY <1>0 DEF OnceOK, ClientOK
<1>5. SocketOK' BY HookKeeps DEF SocketOK, Results, CloseFrames
<1>2. SocketInv' /\ FlowInv' /\ ClosingInv'
  BY HookKeeps DEF OnceOK, SocketOK, SocketInv, FlowInv, ClosingInv, Results, CloseFrames
<1>3. WaitTells' BY DEF OnceOK, SocketInv, FlowInv, ClosingInv, WaitTells
<1> QED BY <1>1, <1>2, <1>3, <1>5, HookKeeps

LEMMA OnMessageKeeps ==
  ASSUME IInv, OnMessage
  PROVE  IInv'
<1> USE DEF IInv, onceVars, clientVars, socketVars, serverVars, OnMessage
<1>1. OnceOK' /\ ClientOK'
  BY DEF OnceOK, ClientOK, Outcomes
<1>5. SocketOK'
  BY DEF ClientOK, SocketOK, SocketInv, Messages, Results, CloseFrames
<1>2. SocketInv' /\ FlowInv' /\ ClosingInv'
  BY DEF OnceOK, ClientOK, SocketOK, SocketInv, FlowInv, ClosingInv, Results,
     CloseFrames
<1>3. CloseSentInv' /\ WireInOrder'
  BY DEF ClientOK, SocketOK, SocketInv, CloseSentInv, Position, Messages, WireInOrder
<1>4. WaitTells' BY DEF OnceOK, ClientOK, SocketInv, FlowInv, ClosingInv, WaitTells
<1> QED BY <1>1, <1>2, <1>3, <1>4, <1>5

LEMMA OnErrorKeeps ==
  ASSUME IInv, OnError
  PROVE  IInv'
<1> USE DEF IInv, onceVars, clientVars, socketVars, serverVars, OnError, IsCall
<1>1. OnceOK' /\ ClientOK'
  BY DEF OnceOK, ClientOK, Outcomes
<1>5. SocketOK'
  BY DEF ClientOK, SocketOK, SocketInv, Messages, Results, CloseFrames
<1>2. SocketInv' /\ FlowInv' /\ ClosingInv'
  BY DEF OnceOK, ClientOK, SocketOK, SocketInv, FlowInv, ClosingInv, Results,
     CloseFrames
<1>3. CloseSentInv' /\ WireInOrder'
  BY DEF ClientOK, SocketOK, SocketInv, CloseSentInv, Position, Messages, WireInOrder
<1>4. WaitTells' BY DEF OnceOK, ClientOK, SocketInv, FlowInv, ClosingInv, WaitTells
<1> QED BY <1>1, <1>2, <1>3, <1>4, <1>5

LEMMA OnCloseFrameKeeps ==
  ASSUME IInv, OnCloseFrame
  PROVE  IInv'
<1> USE DEF IInv, onceVars, clientVars, socketVars, serverVars, OnCloseFrame
<1>1. OnceOK' /\ ClientOK'
  BY DEF OnceOK, ClientOK, Outcomes
<1>5. SocketOK'
  BY DEF ClientOK, SocketOK, SocketInv, Messages, Results, CloseFrames
<1>2. SocketInv' /\ FlowInv' /\ ClosingInv'
  BY DEF OnceOK, ClientOK, SocketOK, SocketInv, FlowInv, ClosingInv, Results,
     CloseFrames
<1>3. CloseSentInv' /\ WireInOrder'
  BY DEF ClientOK, SocketOK, SocketInv, CloseSentInv, Position, Messages, WireInOrder
<1>4. WaitTells' BY DEF OnceOK, ClientOK, SocketInv, FlowInv, ClosingInv, WaitTells
<1> QED BY <1>1, <1>2, <1>3, <1>4, <1>5

LEMMA OnCloseKeeps ==
  ASSUME IInv, socket \in {"open", "closing"}, OnClose, hack' \in {"off", hack}
  PROVE  IInv'
<1> USE DEF IInv, onceVars, clientVars, socketVars, serverVars, OnClose, Succeeded,
        Fulfil, Reject, Settle
<1>1. OnceOK' BY DEF OnceOK, ClientOK
<1>2. ClientOK' BY DEF ClientOK, Outcomes
<1>3. SocketOK' BY DEF SocketOK, CloseFrames
<1>4. SocketInv' BY DEF OnceOK, SocketInv
<1>5. FlowInv' BY DEF SocketInv, FlowInv
<1>6. ClosingInv' BY DEF SocketInv, FlowInv, ClosingInv, CloseFrames
<1>7. CloseSentInv' /\ WireInOrder' BY DEF CloseSentInv, WireInOrder, Position
<1>8. WaitTells' BY DEF OnceOK, SocketInv, FlowInv, ClosingInv, WaitTells
<1> QED BY <1>1, <1>2, <1>3, <1>4, <1>5, <1>6, <1>7, <1>8

\* closeStateHack goes from polling to its timer only when the socket is CLOSING.
LEMMA HackKeeps ==
  ASSUME IInv,
         UNCHANGED <<onceVars, outcome, connected, ws, inputClosed, received, getter,
                     stored, shown, call, socketVars, serverVars>>,
         hack' \in {"off", hack} \/ (hack' = "timer" /\ socket = "closing")
  PROVE  IInv'
<1> USE DEF IInv, onceVars, clientVars, socketVars, serverVars
<1>1. OnceOK' /\ ClientOK' BY DEF OnceOK, ClientOK
<1>2. SocketOK' BY DEF SocketOK
<1>3. SocketInv' /\ FlowInv' /\ ClosingInv' BY DEF SocketInv, FlowInv, ClosingInv
<1>4. CloseSentInv' /\ WireInOrder' BY DEF CloseSentInv, Position, WireInOrder
<1>5. WaitTells' BY DEF WaitTells
<1> QED BY <1>1, <1>2, <1>3, <1>4, <1>5

LEMMA ServerWritesKeeps ==
  ASSUME IInv, ServerWrites
  PROVE  IInv'
<1> USE DEF IInv, onceVars, clientVars, socketVars, serverVars, ServerWrites,
        ServerSends
<1>1. OnceOK' /\ ClientOK'
  BY DEF OnceOK, ClientOK, Outcomes
<1>5. SocketOK'
  BY DEF ClientOK, SocketOK, SocketInv, Messages, Results, CloseFrames
<1>2. SocketInv' /\ FlowInv' /\ ClosingInv'
  BY DEF OnceOK, ClientOK, SocketOK, SocketInv, FlowInv, ClosingInv, Results,
     CloseFrames
<1>3. CloseSentInv' /\ WireInOrder'
  BY DEF ClientOK, SocketOK, SocketInv, CloseSentInv, Position, Messages, WireInOrder
<1>4. WaitTells' BY DEF OnceOK, ClientOK, SocketInv, FlowInv, ClosingInv, WaitTells
<1> QED BY <1>1, <1>2, <1>3, <1>4, <1>5

LEMMA ServerResultKeeps ==
  ASSUME IInv, ServerResult
  PROVE  IInv'
<1> USE DEF IInv, onceVars, clientVars, socketVars, serverVars, ServerResult,
        ServerSends
<1>1. OnceOK' /\ ClientOK'
  BY DEF OnceOK, ClientOK, Outcomes
<1>5. SocketOK'
  BY VerdictsAssumption DEF ClientOK, SocketOK, SocketInv, Messages, Results, CloseFrames
<1>2. SocketInv' /\ FlowInv' /\ ClosingInv'
  BY VerdictsAssumption DEF OnceOK, ClientOK, SocketOK, SocketInv, FlowInv, ClosingInv,
     Results, CloseFrames
<1>3. CloseSentInv' /\ WireInOrder'
  BY DEF ClientOK, SocketOK, SocketInv, CloseSentInv, Position, Messages, WireInOrder
<1>4. WaitTells' BY DEF OnceOK, ClientOK, SocketInv, FlowInv, ClosingInv, WaitTells
<1> QED BY <1>1, <1>2, <1>3, <1>4, <1>5

LEMMA ServerClosesKeeps ==
  ASSUME IInv, ServerCloses
  PROVE  IInv'
<1> USE DEF IInv, onceVars, clientVars, socketVars, serverVars, ServerCloses,
        ServerSends
<1>1. OnceOK' /\ ClientOK'
  BY DEF OnceOK, ClientOK, Outcomes
<1>5. SocketOK'
  BY DEF ClientOK, SocketOK, SocketInv, Messages, Results, CloseFrames
<1>2. SocketInv' /\ FlowInv' /\ ClosingInv'
  BY DEF OnceOK, ClientOK, SocketOK, SocketInv, FlowInv, ClosingInv, Results,
     CloseFrames
<1>3. CloseSentInv' /\ WireInOrder'
  BY DEF ClientOK, SocketOK, SocketInv, CloseSentInv, Position, Messages, WireInOrder
<1>4. WaitTells' BY DEF OnceOK, ClientOK, SocketInv, FlowInv, ClosingInv, WaitTells
<1> QED BY <1>1, <1>2, <1>3, <1>4, <1>5

LEMMA InvInit == Init => IInv
<1> SUFFICES ASSUME Init PROVE IInv
  OBVIOUS
<1> USE DEF Init, OnceInit, IInv
<1>1. OnceOK /\ ClientOK BY DEF OnceOK, ClientOK, Outcomes
<1>2. SocketOK BY DEF SocketOK
<1>3. SocketInv /\ FlowInv /\ ClosingInv /\ WaitTells
  BY DEF SocketInv, FlowInv, ClosingInv, WaitTells
<1>4. CloseSentInv /\ WireInOrder BY DEF CloseSentInv, WireInOrder, Position
<1> QED BY <1>1, <1>2, <1>3, <1>4

LEMMA InvNext == ASSUME IInv, [Next]_vars PROVE IInv'
<1>1. ASSUME NEW c \in Callers,
             Connect(c) \/ SendText(c) \/ CloseInput(c) \/ Cancel(c) \/ Wait(c)
      PROVE  IInv'
  BY <1>1, ConnectKeeps, SendTextKeeps, CloseInputKeeps, CancelKeeps, WaitKeeps
<1>2. ASSUME Opening \/ OnMessage \/ OnCloseFrame PROVE IInv'
  BY <1>2, OnOpenKeeps, OnErrorKeeps, OnMessageKeeps, OnCloseFrameKeeps DEF Opening
<1>3. ASSUME Break \/ HangUp PROVE IInv'
  BY <1>3, OnCloseKeeps DEF Break, HangUp
<1>4. ASSUME HackPoll \/ HackTimer PROVE IInv'
  BY <1>4, OnCloseKeeps, HackKeeps DEF HackPoll, HackTimer
<1>5. ASSUME NeverReached \/ InvalidURL \/ Settled \/ Sent PROVE IInv'
  BY <1>5, NeverReachedKeeps, InvalidURLKeeps, SettledKeeps, SentKeeps
<1>6. ASSUME ServerWrites \/ ServerResult \/ ServerCloses PROVE IInv'
  BY <1>6, ServerWritesKeeps, ServerResultKeeps, ServerClosesKeeps
<1>7. ASSUME UNCHANGED vars PROVE IInv'
  BY <1>7, HackKeeps DEF vars, clientVars
<1> QED BY <1>1, <1>2, <1>3, <1>4, <1>5, <1>6, <1>7 DEF Next, Callbacks

LEMMA Invariant == Spec => []IInv
BY InvInit, InvNext, PTL DEF Spec

-----------------------------------------------------------------------------

\* Every variable keeps its type; the Once runs a getter exactly while it is
\* pending; closeStateHack watches no socket that has not opened, and has no timer
\* for an open one.
THEOREM TypeCorrect == Spec => []TypeOK
<1>1. IInv => TypeOK BY DEF IInv, TypeOK
<1> QED BY <1>1, Invariant, PTL

\* A wait is fulfilled only with the result of the server, after all lines of
\* output were shown and after a normal close (onmessage, onclose).
THEOREM WaitTellsTheTruth == Spec => []WaitTells
<1>1. IInv => WaitTells BY DEF IInv
<1> QED BY <1>1, Invariant, PTL

\* Whatever callers send while the socket connects, only what beforeCall sends
\* itself comes before the call; no text comes after the message that closes the
\* input, beforeCall's own one included (onopen, #send).
THEOREM WireIsInOrder == Spec => []WireInOrder
<1>1. IInv => WireInOrder BY DEF IInv
<1> QED BY <1>1, Invariant, PTL

=============================================================================
