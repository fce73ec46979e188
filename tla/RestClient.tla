----------------------------- MODULE RestClient -----------------------------
(***************************************************************************)
(* The RestSession of the client, pow_client/clients/rest.ts, its requests *)
(* on their way, and the process they work on.                             *)
(*                                                                         *)
(* A call of a method is a caller, which makes one request; the getter of  *)
(* wait makes one status request after the other, as "poll".  A request or *)
(* its answer may be lost; the client cannot tell which, and the server    *)
(* may still handle the request afterwards.  The server is reduced to what *)
(* a client sees of module RestSession, and every handler to the step that *)
(* has an effect, and the answer of cancel, which waits for the process.   *)
(***************************************************************************)
EXTENDS Once, FiniteBuffer

CONSTANTS
  Calls,     \* what the callers call
  MaxOutput  \* bound: the lines the process writes

ASSUME ConstantsAssumption == "poll" \notin Callers

VARIABLES
  connected,    \* #connected
  id,           \* #id is known
  inputClosed,  \* #inputClosed
  stored,       \* Lazy.stored: the result, and the lines of output, it has
  poll,         \* the getter of wait: "off", "ask", "asked", or "sleep"
  late,         \* maxWait is over
  call,         \* what each caller has called
  earlier,      \* the sendTexts that had been fulfilled by then
  request,      \* where each request is
  response,     \* its answer
  proc,         \* "none", "running", or how it has ended
  found,        \* its session is in vapor
  closed,       \* its input is closed
  input,        \* whose text it has read
  output,       \* how many lines it has written
  lines         \* FiniteBuffer.lines

clientVars == <<connected, id, inputClosed, stored, poll, late, call, earlier>>
netVars    == <<request, response>>
serverVars == <<proc, found, closed, input, output, lines>>
vars == <<onceVars, outcome, clientVars, netVars, serverVars>>

Requests == Callers \cup {"poll"}
None == <<"none", <<>>>>

Init ==
  /\ OnceInit
  /\ outcome = [c \in Callers |-> "none"]
  /\ connected = FALSE /\ id = FALSE /\ inputClosed = FALSE
  /\ stored = None
  /\ poll = "off" /\ late = FALSE
  /\ call = [c \in Callers |-> "none"]
  /\ earlier = [c \in Callers |-> {}]
  /\ request = [r \in Requests |-> "none"]
  /\ response = [r \in Requests |-> None]
  /\ proc = "none" /\ found = FALSE /\ closed = FALSE
  /\ input = <<>> /\ output = 0 /\ lines = <<>>

-----------------------------------------------------------------------------
(* The methods. *)

CallStep(c, k) ==
  /\ k \in Calls
  /\ outcome[c] = "none"
  /\ call' = [call EXCEPT ![c] = k]
  /\ earlier' = [earlier EXCEPT ![c] =
                   {b \in Callers : call[b] = "sendText" /\ outcome[b] = "ok"}]
  /\ UNCHANGED <<id, stored, response, serverVars>>

Answer(c, a) == outcome' = [outcome EXCEPT ![c] = a]

\* #rest
Rest(c) == request' = [request EXCEPT ![c] = "sent"] /\ Answer(c, "pending")

\* Without an id all methods but connect throw; some do nothing when inputClosed.
Method(c, ignored) ==
  /\ IF id /\ ~ignored THEN Rest(c)
     ELSE UNCHANGED request /\ Answer(c, IF id THEN "ignored" ELSE "errNotConnected")
  /\ UNCHANGED <<onceVars, connected, poll, late>>

\* Mutant: connected is set when the answer is there.
ConnectLate(c) ==
  /\ CallStep(c, "connect")
  /\ IF id THEN UNCHANGED request /\ Answer(c, "errAlreadyConnected") ELSE Rest(c)
  /\ connected' = id
  /\ UNCHANGED <<onceVars, inputClosed, poll, late>>

Connect(c) ==
  /\ CallStep(c, "connect")
  /\ IF connected THEN UNCHANGED request /\ Answer(c, "errAlreadyConnected") ELSE Rest(c)
  /\ connected' = TRUE
  /\ UNCHANGED <<onceVars, inputClosed, poll, late>>

\* Mutant: the request is not awaited.
SendTextUnawaited(c) ==
  /\ CallStep(c, "sendText")
  /\ id /\ ~inputClosed
  /\ request' = [request EXCEPT ![c] = "sent"]
  /\ Answer(c, "ok")
  /\ UNCHANGED <<onceVars, connected, poll, late, inputClosed>>

SendText(c) ==
  /\ CallStep(c, "sendText")
  /\ Method(c, inputClosed)
  /\ UNCHANGED inputClosed

CloseInput(c) ==
  /\ CallStep(c, "closeInput")
  /\ Method(c, inputClosed)
  /\ inputClosed' = (inputClosed \/ id)

Cancel(c) ==
  /\ CallStep(c, "cancel")
  /\ Method(c, FALSE)
  /\ UNCHANGED inputClosed

Wait(c) ==
  /\ CallStep(c, "wait")
  /\ Do(c)
  /\ poll' = IF Runs THEN "ask" ELSE poll
  /\ late' = (late /\ ~Runs)
  /\ UNCHANGED <<connected, inputClosed, request>>

\* Any status but 2xx is an error.
Receive(c) ==
  /\ call[c] # "wait" /\ outcome[c] = "pending"
  /\ request[c] = "answered"
  /\ Answer(c, IF response[c][1] = "200" THEN "ok" ELSE "failed")
  /\ id' = (id \/ (call[c] = "connect" /\ response[c][1] = "200"))
  /\ UNCHANGED <<onceVars, connected, inputClosed, stored, poll, late, call, earlier,
                 netVars, serverVars>>

Lost(c) ==
  /\ call[c] # "wait" /\ outcome[c] = "pending"
  /\ Answer(c, "failed")
  /\ UNCHANGED <<onceVars, clientVars, netVars, serverVars>>

-----------------------------------------------------------------------------
(* The getter of wait. *)

PollStep(from) ==
  /\ poll = from
  /\ UNCHANGED <<connected, id, inputClosed, call, earlier, serverVars>>

\* status
Ask ==
  /\ PollStep("ask") /\ id
  /\ poll' = "asked"
  /\ request' = [request EXCEPT !["poll"] = "sent"]
  /\ UNCHANGED <<onceVars, outcome, stored, late, response>>

GiveUp(from, err) ==
  /\ PollStep(from)
  /\ Reject(err)
  /\ poll' = "off"
  /\ UNCHANGED <<stored, late, netVars>>

AskUnconnected == ~id /\ GiveUp("ask", "errNotConnected")

Asked(result) == request["poll"] = "answered" /\ response["poll"][1] = result

AskFails == Asked("error") /\ GiveUp("asked", "failed")
AskLost  == GiveUp("asked", "failed")

\* Mutant: the time that has passed is not looked at.
StillPendingPatient ==
  /\ PollStep("asked") /\ Asked("pending")
  /\ poll' = "sleep"
  /\ UNCHANGED <<onceVars, outcome, stored, late, netVars>>

StillPending ==
  /\ Asked("pending")
  /\ \/ late /\ GiveUp("asked", "errWaitExceeded")
     \/ /\ ~late /\ PollStep("asked")
        /\ poll' = "sleep"
        /\ UNCHANGED <<onceVars, outcome, stored, late, netVars>>

Wake ==
  /\ PollStep("sleep")
  /\ poll' = "ask"
  /\ UNCHANGED <<onceVars, outcome, stored, late, netVars>>

TimePasses ==
  /\ poll # "off" /\ ~late
  /\ late' = TRUE
  /\ UNCHANGED <<onceVars, outcome, connected, id, inputClosed, stored, poll, call,
                 earlier, netVars, serverVars>>

\* What isStatus does not accept is a rejected result.
GotResult ==
  /\ PollStep("asked")
  /\ \E s \in {"fulfilled", "rejected", "invalid"} :
       Asked(s) /\ stored' = <<IF s = "invalid" THEN "rejected" ELSE s,
                               response["poll"][2]>>
  /\ Fulfil
  /\ poll' = "off"
  /\ UNCHANGED <<late, netVars>>

Settled == Finally /\ UNCHANGED <<clientVars, netVars, serverVars>>

Getter ==
  \/ Ask \/ AskUnconnected \/ AskFails \/ StillPending \/ Wake \/ GotResult
  \/ Settled

-----------------------------------------------------------------------------
(* The server and its process. *)

ServerStep == UNCHANGED <<onceVars, outcome, clientVars>>

Serve(r, from, a) ==
  /\ ServerStep
  /\ request[r] = from
  /\ request' = [request EXCEPT ![r] = "answered"]
  /\ response' = [response EXCEPT ![r] = a]

IsCall(r, k) == r \in Callers /\ call[r] = k

OK == <<"200", <<>>>>
Error == <<"error", <<>>>>

ServeNew(r) ==
  /\ IsCall(r, "connect")
  /\ Serve(r, "sent", OK)
  /\ proc' = "running" /\ found' = TRUE
  /\ UNCHANGED <<closed, input, output, lines>>

\* A session that cannot be made or is not found any more, or a closed pipe.
ServeError(r) ==
  /\ \/ IsCall(r, "connect")
     \/ ~found /\ ~IsCall(r, "connect")
     \/ IsCall(r, "sendText") /\ closed
  /\ Serve(r, "sent", Error)
  /\ UNCHANGED serverVars

\* The process reads the text: until then the request has no answer.
ServeInput(r) ==
  /\ IsCall(r, "sendText") /\ proc = "running" /\ ~closed
  /\ Serve(r, "sent", OK)
  /\ input' = Append(input, r)
  /\ UNCHANGED <<proc, found, closed, output, lines>>

ServeCloseInput(r) ==
  /\ IsCall(r, "closeInput") /\ found
  /\ Serve(r, "sent", OK)
  /\ closed' = TRUE
  /\ UNCHANGED <<proc, found, input, output, lines>>

ServeCancel(r) ==
  /\ IsCall(r, "cancel") /\ found
  /\ request[r] = "sent"
  /\ request' = [request EXCEPT ![r] = "waiting"]
  /\ closed' = TRUE
  /\ ServerStep /\ UNCHANGED <<response, proc, found, input, output, lines>>

Ended == proc \in {"fulfilled", "rejected"}

AnswerCancel(r) ==
  /\ Ended
  /\ Serve(r, "waiting", OK)
  /\ UNCHANGED serverVars

\* An answer that is no status comes from elsewhere, a proxy for example.
ServeStatus(r) ==
  /\ r = "poll"
  /\ \/ found /\ Serve(r, "sent", <<IF Ended THEN proc ELSE "pending", lines>>)
     \/ Serve(r, "sent", <<"invalid", <<>>>>)
  /\ UNCHANGED serverVars

Handle(r) ==
  \/ ServeNew(r) \/ ServeError(r) \/ ServeInput(r) \/ ServeCloseInput(r)
  \/ ServeCancel(r) \/ AnswerCancel(r) \/ ServeStatus(r)

ProcStep == ServerStep /\ UNCHANGED netVars

ProcWrite ==
  /\ proc = "running" /\ output < MaxOutput
  /\ output' = output + 1
  /\ lines' = Add(lines, output')
  /\ ProcStep /\ UNCHANGED <<proc, found, closed, input>>

ProcReturn ==
  /\ proc = "running"
  /\ proc' \in {"fulfilled", "rejected"}
  /\ closed' = TRUE
  /\ ProcStep /\ UNCHANGED <<found, input, output, lines>>

\* Nobody has asked for the session for some time.  (The context it cancels is
\* left out: a process may return whenever it likes.)
Expire ==
  /\ found
  /\ found' = FALSE
  /\ closed' = TRUE
  /\ ProcStep /\ UNCHANGED <<proc, input, output, lines>>

Process == ProcWrite \/ ProcReturn

Next ==
  \/ \E c \in Callers :
       \/ Connect(c) \/ SendText(c) \/ CloseInput(c) \/ Cancel(c) \/ Wait(c)
       \/ Receive(c) \/ Lost(c)
  \/ Getter \/ AskLost \/ TimePasses
  \/ \E r \in Requests : Handle(r)
  \/ Process \/ Expire

\* Fairness: JavaScript runs a callback that is due, a timer fires, and the
\* server answers a status.
Spec ==
  /\ Init /\ [][Next]_vars
  /\ WF_vars(Getter) /\ WF_vars(TimePasses) /\ WF_vars(Handle("poll"))

-----------------------------------------------------------------------------
(* Properties. *)

Outcomes == {"none", "pending", "ok", "ignored", "failed", "errNotConnected",
             "errAlreadyConnected", "errWaitExceeded"}

Results == {"fulfilled", "rejected"}
Answers == {"none", "200", "error", "pending", "invalid"} \cup Results

OnceOK ==
  /\ state \in {"Init", "Pending", "Fulfilled", "Rejected"}
  /\ reason \in {"none", "failed", "errNotConnected", "errWaitExceeded"}
  /\ state = "Rejected" => reason # "none"
  /\ waiters \subseteq Callers
  /\ cleanup \in BOOLEAN

ClientOK ==
  /\ outcome \in [Callers -> Outcomes]
  /\ call \in [Callers -> Calls \cup {"none"}]
  /\ earlier \in [Callers -> SUBSET Callers]
  /\ connected \in BOOLEAN /\ id \in BOOLEAN /\ inputClosed \in BOOLEAN
  /\ stored \in (Results \cup {"none"}) \X Seq(Nat)
  /\ (state = "Fulfilled") = (stored # None)
  /\ poll \in {"off", "ask", "asked", "sleep"} /\ late \in BOOLEAN
  /\ (poll # "off") = (state = "Pending")

ServerOK ==
  /\ request \in [Requests -> {"none", "sent", "waiting", "answered"}]
  /\ response \in [Requests -> Answers \X Seq(Nat)]
  /\ proc \in {"none", "running"} \cup Results
  /\ found \in BOOLEAN /\ closed \in BOOLEAN
  /\ input \in Seq(Callers)
  /\ output \in Nat
  /\ lines \in Seq(Nat) /\ Len(lines) <= MaxLines

\* Every variable has its type, a Once that is rejected has a reason, there is a
\* getter exactly while it is pending, and a result exactly when it is fulfilled.
TypeOK == OnceOK /\ ClientOK /\ ServerOK

\* However often connect is called, and whatever becomes of its request, there is
\* one request for a process, and an id belongs to a process that was started.
OneProcess ==
  /\ \A b, c \in Callers :
       IsCall(b, "connect") /\ IsCall(c, "connect") /\ request[b] # "none"
         /\ request[c] # "none" => b = c
  /\ id => proc # "none"

Read(c) == \E k \in DOMAIN input : input[k] = c

\* A sendText that is fulfilled was read by the process, unless the client had
\* closed the input; and a text is read after all texts whose sendText was
\* fulfilled before it was sent.
SentIsRead ==
  \A c \in Callers : IsCall(c, "sendText") =>
    /\ outcome[c] = "ok" => Read(c)
    /\ \A b \in earlier[c], k \in DOMAIN input :
         input[k] = c => \E l \in 1 .. (k - 1) : input[l] = b

\* A fulfilled wait tells how the process has ended and the last lines of its
\* whole output, though the status it is from was asked for earlier; what is no
\* status makes it a failure, never a success.
WaitTells ==
  stored # None =>
    \/ Ended /\ stored[1] = proc /\ stored[2] = LastLines(output)
    \/ Asked("invalid") /\ stored[1] = "rejected"

\* A wait settles, after maxWait at the latest, even if it joins one that goes
\* on and whether the process ends, expires or hangs.  (A wait that comes
\* between the rejection of an earlier one and the end of its Once is lost.)
WaitSettles ==
  \A c \in Callers :
    (IsCall(c, "wait") /\ outcome[c] = "pending" /\ reason = "none")
      ~> (outcome[c] # "pending")

=============================================================================
