------------------------------ MODULE WsClient ------------------------------
(***************************************************************************)
(* The WebsocketSession of the client, pow_client/clients/websocket.ts, in *)
(* Node, its WebSocket, and what the server sends to it.                   *)
(*                                                                         *)
(* A call of a method is a caller.  The WebSocket is the one of the        *)
(* library: it delivers what was sent in order, fires error before close   *)
(* when it cannot connect, and goes through CLOSING.  From there it may    *)
(* never get to CLOSED by itself, which is what closeStateHack is for.     *)
(***************************************************************************)
EXTENDS Once, Naturals, Sequences

CONSTANTS
  Calls,     \* what the callers call
  HookCalls, \* what beforeCall calls: one method, or "none"
  Verdicts,  \* the statuses of results: none is looked at, so one is enough
  MaxLines   \* bound: the lines the process writes

ASSUME HookCallsAssumption ==
  HookCalls \subseteq {"none", "sendText", "closeInput", "cancel"}

ASSUME VerdictsAssumption == Verdicts \subseteq {"fulfilled", "rejected"}

VARIABLES
  connected,    \* #connected
  ws,           \* this.ws is not null
  inputClosed,  \* #inputClosed
  received,     \* receivedResult
  getter,       \* what Once runs: "off", "socket", or "never", the getter of wait
  stored,       \* Lazy.stored
  hack,         \* closeStateHack: "off", "poll" in the interval, or "timer"
  shown,        \* how many lines onLogLine got
  call,         \* what each caller has called
  socket,       \* WebSocket.readyState
  wire,         \* the frames sent: <<kind, caller>>
  inbox,        \* the frames sent by the server and not yet received
  closeFrame,   \* the close frame received: "none", "normal" or "other"
  written,      \* how many lines the server has sent
  verdict       \* the result it has sent

clientVars == <<connected, ws, inputClosed, received, getter, stored, hack, shown, call>>
socketVars == <<socket, wire, inbox, closeFrame>>
serverVars == <<written, verdict>>
vars == <<onceVars, outcome, clientVars, socketVars, serverVars>>

Init ==
  /\ OnceInit
  /\ outcome = [c \in Callers |-> "none"]
  /\ connected = FALSE /\ ws = FALSE /\ inputClosed = FALSE
  /\ received = "none" /\ getter = "off" /\ stored = "none"
  /\ hack = "off" /\ shown = 0
  /\ call = [c \in Callers |-> "none"]
  /\ socket = "none" /\ wire = <<>> /\ inbox = <<>> /\ closeFrame = "none"
  /\ written = 0 /\ verdict = "none"

Answer(c, a) == outcome' = [outcome EXCEPT ![c] = a]
IsCall(c, k) == call[c] = k
Pending(c, k) == IsCall(c, k) /\ outcome[c] = "pending"

-----------------------------------------------------------------------------
(* The methods. *)

CallStep(c, k) ==
  /\ k \in Calls
  /\ outcome[c] = "none"
  /\ call' = [call EXCEPT ![c] = k]
  /\ UNCHANGED <<received, stored, hack, shown, inbox, closeFrame, serverVars>>

\* A new WebSocket is made by the getter, and only if the Once calls that.  The
\* constructor may throw, which rejects the result and not the connect.
Connect(c) ==
  /\ CallStep(c, "connect")
  /\ connected' = TRUE
  /\ IF connected
     THEN Answer(c, "errAlreadyConnected") /\ UNCHANGED <<onceVars, ws, getter, socket>>
     ELSE /\ Answer(c, "pending")
          /\ Enter({})
          /\ getter' = IF Runs THEN "socket" ELSE getter
          /\ \/ ~Runs /\ UNCHANGED <<ws, socket>>
             \/ Runs /\ ws' = TRUE /\ socket' = "connecting"
             \/ Runs /\ UNCHANGED <<ws, socket>>
  /\ UNCHANGED <<inputClosed, wire>>

\* #send: ws.send throws while CONNECTING, and fails after OPEN.  Otherwise it
\* calls back later.
Send(c, kind) ==
  IF ws /\ socket = "open"
    THEN wire' = Append(wire, <<kind, c>>) /\ Answer(c, "pending")
    ELSE UNCHANGED wire /\ Answer(c, IF ws THEN "failed" ELSE "errNotConnected")

Method(c, kind, ignored) ==
  /\ IF ignored THEN UNCHANGED wire /\ Answer(c, "ignored") ELSE Send(c, kind)
  /\ UNCHANGED <<onceVars, connected, ws, getter, socket>>

\* Mutant: closed input is not looked at.
SendTextAlways(c) ==
  /\ CallStep(c, "sendText")
  /\ Method(c, "text", FALSE)
  /\ UNCHANGED inputClosed

SendText(c) ==
  /\ CallStep(c, "sendText")
  /\ Method(c, "text", inputClosed)
  /\ UNCHANGED inputClosed

CloseInput(c) ==
  /\ CallStep(c, "closeInput")
  /\ Method(c, "close", inputClosed)
  /\ inputClosed' = TRUE

Cancel(c) ==
  /\ CallStep(c, "cancel")
  /\ Method(c, "cancel", FALSE)
  /\ UNCHANGED inputClosed

Wait(c) ==
  /\ CallStep(c, "wait")
  /\ Do(c)
  /\ getter' = IF Runs THEN "never" ELSE getter
  /\ UNCHANGED <<connected, ws, inputClosed, socket, wire>>

-----------------------------------------------------------------------------
(* The getters and the events of the socket. *)

NeverReached ==
  /\ getter = "never"
  /\ Reject("errNeverReached")
  /\ getter' = "off"
  /\ UNCHANGED <<connected, ws, inputClosed, received, stored, hack, shown, call,
                 socketVars, serverVars>>

InvalidURL ==
  /\ getter = "socket" /\ socket = "none"
  /\ Reject("failed")
  /\ getter' = "off"
  /\ UNCHANGED <<connected, ws, inputClosed, received, stored, hack, shown, call,
                 socketVars, serverVars>>

Settled == Finally /\ UNCHANGED <<clientVars, socketVars, serverVars>>

\* What beforeCall sends before the call.
HookSends(h) ==
  CASE h = "sendText"   -> IF inputClosed THEN <<>> ELSE <<<<"text", "hook">>>>
    [] h = "closeInput" -> IF inputClosed THEN <<>> ELSE <<<<"close", "hook">>>>
    [] h = "cancel"     -> <<<<"cancel", "hook">>>>
    [] h = "none"       -> <<>>

OnOpen ==
  /\ socket = "connecting"
  /\ socket' = "open"
  /\ hack' = "poll"
  /\ \E h \in HookCalls :
       /\ wire' = wire \o HookSends(h) \o <<<<"call", "hook">>>>
       /\ inputClosed' = (inputClosed \/ h = "closeInput")
  /\ UNCHANGED <<onceVars, outcome, connected, ws, received, getter, stored, shown,
                 call, inbox, closeFrame, serverVars>>

CallbackStep == UNCHANGED <<onceVars, clientVars, socketVars, serverVars>>

\* ws.send calls back, with an error or without ("settled" is either), perhaps
\* after the socket has been closed.
OnSent(c) ==
  /\ \E k \in {"sendText", "closeInput", "cancel"} : Pending(c, k)
  /\ Answer(c, "settled")
  /\ CallbackStep

CallIsSent == \E k \in DOMAIN wire : wire[k][1] = "call"

\* Mutant: connect is not rejected when the call cannot be sent any more.
OnCallSentUncaught(c) ==
  /\ Pending(c, "connect") /\ CallIsSent
  /\ socket = "open"
  /\ Answer(c, "ok")
  /\ CallbackStep

\* The same for the call, unless an error came first.
OnCallSent(c) ==
  /\ Pending(c, "connect") /\ CallIsSent
  /\ \E a \in {"ok", "failed"} : Answer(c, a)
  /\ CallbackStep

OnMessage ==
  /\ socket = "open"
  /\ inbox # <<>> /\ Head(inbox) \in {"line", "junk", "fulfilled", "rejected"}
  /\ inbox' = Tail(inbox)
  /\ shown' = IF Head(inbox) = "line" THEN shown + 1 ELSE shown
  /\ received' = IF Head(inbox) \in {"fulfilled", "rejected"} THEN Head(inbox)
                                                             ELSE received
  /\ UNCHANGED <<onceVars, outcome, connected, ws, inputClosed, getter, stored, hack,
                 call, socket, wire, closeFrame, serverVars>>

\* It closes the socket, and rejects both promises.
OnError ==
  /\ socket \in {"connecting", "open"} /\ state = "Pending" /\ ~cleanup
  /\ socket' = "closing"
  /\ ws' = FALSE
  /\ state' = "Rejected" /\ reason' = "failed" /\ cleanup' = TRUE
  /\ outcome' = [c \in Callers |->
                   IF outcome[c] = "pending" /\ (c \in waiters \/ IsCall(c, "connect"))
                   THEN "failed" ELSE outcome[c]]
  /\ getter' = "off"
  /\ UNCHANGED <<waiters, connected, inputClosed, received, stored, hack, shown, call,
                 wire, inbox, closeFrame, serverVars>>

\* The library answers a close frame, and waits for the server to hang up.
OnCloseFrame ==
  /\ socket = "open"
  /\ inbox # <<>> /\ Head(inbox) \in {"normal", "other"}
  /\ closeFrame' = Head(inbox)
  /\ inbox' = <<>>
  /\ socket' = "closing"
  /\ UNCHANGED <<onceVars, outcome, clientVars, wire, serverVars>>

\* Mutant: a result is all that is needed.
SucceededLax == received # "none"

\* What onclose asks for: a clean close, 1000, no reason, and a result.
Succeeded == closeFrame = "normal" /\ received # "none"

\* onclose does nothing to a result that is settled.
OnClose ==
  /\ socket' = "closed" /\ inbox' = <<>>
  /\ \/ getter # "socket" /\ UNCHANGED <<onceVars, outcome, getter, stored, ws>>
     \/ getter = "socket" /\ getter' = "off" /\ Succeeded
          /\ Fulfil /\ stored' = received /\ ws' = FALSE
     \/ getter = "socket" /\ getter' = "off" /\ ~Succeeded
          /\ Reject("failed") /\ UNCHANGED <<stored, ws>>
  /\ UNCHANGED <<connected, inputClosed, received, shown, call, wire, closeFrame,
                 serverVars>>

Break  == socket = "open" /\ OnClose /\ UNCHANGED hack
HangUp == socket = "closing" /\ OnClose /\ UNCHANGED hack

HackPoll ==
  /\ hack = "poll"
  /\ ~(ws /\ socket = "open")
  /\ hack' = IF ws /\ socket = "closing" THEN "timer" ELSE "off"
  /\ UNCHANGED <<onceVars, outcome, connected, ws, inputClosed, received, getter, stored,
                 shown, call, socketVars, serverVars>>

\* Mutant: it calls close, which does nothing when the socket is CLOSING.
HackTimerCloses ==
  /\ hack = "timer"
  /\ hack' = "off"
  /\ UNCHANGED <<onceVars, outcome, connected, ws, inputClosed, received, getter, stored,
                 shown, call, socketVars, serverVars>>

\* ws.terminate
HackTimer ==
  /\ hack = "timer"
  /\ hack' = "off"
  /\ IF socket = "closing" THEN OnClose
     ELSE UNCHANGED <<onceVars, outcome, connected, ws, inputClosed, received, getter,
                      stored, shown, call, socketVars, serverVars>>

-----------------------------------------------------------------------------
(* The server, module WsSession: output, a result, a close frame. *)

ServerSends(f) ==
  /\ socket = "open"
  /\ ~\E k \in DOMAIN inbox : inbox[k] \in {"normal", "other"}
  /\ inbox' = Append(inbox, f)
  /\ UNCHANGED <<onceVars, outcome, clientVars, socket, wire, closeFrame>>

ServerWrites ==
  /\ written < MaxLines /\ verdict = "none"
  /\ ServerSends("line")
  /\ written' = written + 1
  /\ UNCHANGED verdict

\* "junk" is what isResult does not accept: no such message comes from WsSession,
\* but the client is written for other servers, too.
ServerResult ==
  /\ verdict = "none"
  /\ verdict' \in Verdicts \cup {"junk"}
  /\ ServerSends(verdict')
  /\ UNCHANGED written

\* "normal", 1000 without a reason, comes after a result; "other" from
\* Server.Close, or a proxy.
ServerCloses ==
  /\ \E f \in {"normal", "other"} :
       (f = "normal" => verdict # "none") /\ ServerSends(f)
  /\ UNCHANGED serverVars

-----------------------------------------------------------------------------

Opening == OnOpen \/ OnError
Sent == \E c \in Callers : OnSent(c) \/ OnCallSent(c)
Callbacks == NeverReached \/ InvalidURL \/ Settled \/ Sent \/ HackPoll \/ HackTimer

Next ==
  \/ \E c \in Callers :
       Connect(c) \/ SendText(c) \/ CloseInput(c) \/ Cancel(c) \/ Wait(c)
  \/ Opening \/ Callbacks \/ OnMessage \/ OnCloseFrame \/ Break \/ HangUp
  \/ ServerWrites \/ ServerResult \/ ServerCloses

\* Fairness: JavaScript runs a callback that is due, and a timer fires; a socket
\* opens or fails, and calls back for what it was given to send.
Spec ==
  /\ Init /\ [][Next]_vars
  /\ WF_vars(Callbacks)
  /\ WF_vars(socket = "connecting" /\ Opening)

-----------------------------------------------------------------------------
(* Properties. *)

Outcomes == {"none", "pending", "ok", "ignored", "failed", "settled",
             "errNotConnected", "errAlreadyConnected", "errNeverReached"}

CloseFrames == {"normal", "other"}
Results == {"fulfilled", "rejected", "junk"}
Messages == {"text", "call", "close", "cancel"} \X (Callers \cup {"hook"})

OnceOK ==
  /\ state \in {"Init", "Pending", "Fulfilled", "Rejected"}
  /\ reason \in {"none", "failed", "errNeverReached"}
  /\ waiters \subseteq Callers
  /\ cleanup \in BOOLEAN
  /\ getter \in {"off", "socket", "never"}
  /\ (getter # "off") = (state = "Pending")
  /\ stored \in {"none", "fulfilled", "rejected"}
  /\ (stored # "none") = (state = "Fulfilled")

ClientOK ==
  /\ connected \in BOOLEAN /\ ws \in BOOLEAN /\ inputClosed \in BOOLEAN
  /\ received \in {"none", "fulfilled", "rejected"}
  /\ shown \in Nat
  /\ call \in [Callers -> Calls \cup {"none"}]
  /\ outcome \in [Callers -> Outcomes]

SocketOK ==
  /\ socket \in {"none", "connecting", "open", "closing", "closed"}
  /\ ws => socket # "none"
  /\ hack \in {"off", "poll", "timer"}
  /\ hack # "off" => socket \in {"open", "closing", "closed"}
  /\ hack = "timer" => socket # "open"
  /\ wire \in Seq(Messages)
  /\ inbox \in Seq({"line"} \cup Results \cup CloseFrames)
  /\ closeFrame \in CloseFrames \cup {"none"}
  /\ written \in Nat
  /\ verdict \in Results \cup {"none"}

\* Every variable has its type; a Once runs a getter exactly while it is pending;
\* a socket that has not opened is not watched, and an open one has no timer.
TypeOK == OnceOK /\ ClientOK /\ SocketOK

\* A wait is fulfilled only with the result of the server, after all lines of
\* output were shown and after a normal close; whatever breaks and in which order
\* the events come.
WaitTells ==
  state = "Fulfilled" =>
    /\ stored = verdict
    /\ shown = written
    /\ closeFrame = "normal"

Position(kind) == {k \in DOMAIN wire : wire[k][1] = kind}

\* Nothing of what callers send while the socket connects is before the call,
\* which the server takes the first binary message for: only what beforeCall
\* sends itself is.  No text follows the closing of the input.
WireInOrder ==
  /\ wire # <<>> => \E k \in Position("call") :
       \A l \in DOMAIN wire : l < k => wire[l][2] = "hook"
  /\ \A k \in Position("close"), l \in Position("text") : l < k

\* A connect that has made a socket settles: if it opens or fails, if the call is
\* sent or not, whatever comes in between, and whatever a wait has left in the
\* Once before.  (It makes none if the URL is invalid, or if it joins a wait
\* that is still being rejected: it never settles then.)
ConnectSettles ==
  \A c \in Callers :
    (Pending(c, "connect") /\ socket # "none") ~> ~Pending(c, "connect")

\* Once the socket closes a wait that joined the connection settles, even if the
\* server never hangs up.
WaitSettles ==
  \A c \in Callers :
    (Pending(c, "wait") /\ socket = "closing" /\ reason = "none") ~> ~Pending(c, "wait")

=============================================================================
