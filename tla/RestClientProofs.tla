-------------------------- MODULE RestClientProofs --------------------------
(***************************************************************************)
(* What the REST client and its server promise each other, for any number  *)
(* of calls of its methods, and of lines of output.                        *)
(***************************************************************************)
EXTENDS RestClient, TLAPS

\* A caller calls one method, which makes one request.
CallInv ==
  \A c \in Callers :
    /\ outcome[c] = "none" => call[c] = "none"
    /\ call[c] = "none" => request[c] = "none"
    /\ c \in waiters => call[c] = "wait"
    /\ request[c] = "waiting" => call[c] = "cancel"
    /\ request[c] # "answered" => response[c] = None

\* The first connect is the only one that makes a request.
ConnectInv ==
  /\ ~connected => proc = "none"
  /\ \A c \in Callers : call[c] = "connect" =>
       /\ request[c] # "none" => connected
       /\ request[c] = "sent" => proc = "none"
       /\ response[c][1] = "200" => proc # "none"

\* A text whose request was answered with success was read, and what was read
\* was sent.
TextInv ==
  \A c \in Callers :
    /\ Read(c) => request[c] = "answered"
    /\ call[c] = "sendText" /\ (outcome[c] = "ok" \/ response[c][1] = "200") => Read(c)
    /\ \A b \in earlier[c] : Read(b)

\* lines are the last lines of the output, and all of them until it is full.
LinesInv ==
  /\ Len(lines) <= output
  /\ \A i \in 1 .. Len(lines) : lines[i] = output - Len(lines) + i
  /\ Len(lines) < MaxLines => Len(lines) = output

\* A status that has a result has the final one.
PollInv ==
  /\ \A s \in Results : Asked(s) => proc = s /\ response["poll"][2] = lines
  /\ response["poll"][1] # "200" /\ request["poll"] # "waiting"

IInv ==
  /\ OnceOK /\ ClientOK /\ ServerOK
  /\ CallInv /\ ConnectInv /\ TextInv /\ LinesInv /\ PollInv
  /\ OneProcess /\ SentIsRead /\ WaitTells

LEMMA AnswerTypes ==
  /\ OK \in Answers \X Seq(Nat) /\ OK[1] = "200"
  /\ Error \in Answers \X Seq(Nat) /\ Error[1] = "error"
<1>1. <<>> \in Seq(Nat) OBVIOUS
<1>2. "200" \in Answers /\ "error" \in Answers BY DEF Answers
<1> QED BY <1>1, <1>2 DEF OK, Error

\* An answer changes the response of its request only.
LEMMA ServeAnswers ==
  ASSUME IInv, NEW r \in Requests, NEW from, NEW a \in Answers \X Seq(Nat),
         Serve(r, from, a)
  PROVE  /\ response' \in [Requests -> Answers \X Seq(Nat)]
         /\ response'[r] = a /\ request'[r] = "answered" /\ request[r] = from
         /\ \A q \in Requests \ {r} : response'[q] = response[q] /\ request'[q] = request[q]
BY DEF Serve, IInv, OnceOK, ServerOK

\* A line that is added to a full buffer moves the others one place forward.
LEMMA FullBuffer ==
  ASSUME NEW s \in Seq(Nat), Len(s) > 0, NEW n \in Nat, Len(s) <= n,
         \A i \in 1 .. Len(s) : s[i] = n - Len(s) + i
  PROVE  /\ Len(Append(Tail(s), n + 1)) = Len(s)
         /\ \A i \in 1 .. Len(s) : Append(Tail(s), n + 1)[i] = (n + 1) - Len(s) + i
<1> DEFINE L == Len(s)
           t == Append(Tail(s), n + 1)
<1>1. /\ L \in Nat /\ L > 0 /\ Tail(s) \in Seq(Nat) /\ Len(Tail(s)) = L - 1
      /\ \A i \in 1 .. (L - 1) : Tail(s)[i] = s[i + 1]
  OBVIOUS
<1>2. /\ Len(t) = L /\ t[L] = n + 1
      /\ \A i \in 1 .. (L - 1) : t[i] = Tail(s)[i]
  BY <1>1
<1>3. \A i \in 1 .. L : s[i] = n - L + i OBVIOUS
<1> HIDE DEF L, t
<1>4. ASSUME NEW i \in 1 .. L PROVE t[i] = (n + 1) - L + i
  <2>1. CASE i = L BY <1>1, <1>2, <2>1
  <2>2. CASE i \in 1 .. (L - 1)
    <3>1. i + 1 \in 1 .. L /\ t[i] = s[i + 1] BY <1>1, <1>2, <2>2
    <3>2. s[i + 1] = n - L + (i + 1) BY <1>3, <3>1
    <3> QED BY <1>1, <3>1, <3>2
  <2> QED BY <1>1, <2>1, <2>2
<1> QED BY <1>2, <1>4 DEF L, t

\* The client after a call of a method that is answered with a.
LEMMA CallKeepsTypes ==
  ASSUME IInv, NEW c \in Callers, NEW k, CallStep(c, k),
         NEW a \in Outcomes, outcome' = [outcome EXCEPT ![c] = a],
         connected' \in BOOLEAN, inputClosed' \in BOOLEAN,
         UNCHANGED <<state, poll, late>>
  PROVE  ClientOK'
<1>1. outcome' \in [Callers -> Outcomes]
  BY DEF IInv, ClientOK
<1>2. call' \in [Callers -> Calls \cup {"none"}]
  BY DEF IInv, ClientOK, CallStep
<1>3. earlier' \in [Callers -> SUBSET Callers]
  BY DEF IInv, ClientOK, CallStep
<1>4. UNCHANGED <<id, stored>>
  BY DEF CallStep
<1> QED BY <1>1, <1>2, <1>3, <1>4 DEF IInv, ClientOK, None

LEMMA ConnectKeeps ==
  ASSUME IInv, NEW c \in Callers, Connect(c)
  PROVE  IInv'
<1> USE ConstantsAssumption, MaxLinesAssumption
    DEF IInv, onceVars, clientVars, netVars, serverVars, OnceOK,
        ClientOK, ServerOK, Requests, Answers, Results, Connect, Rest,
        CallStep, Answer
<1>1. OnceOK' BY DEF Outcomes, None, LinesInv
<1>2. ClientOK'
  <2>1. \E a \in Outcomes : outcome' = [outcome EXCEPT ![c] = a]
    BY DEF Outcomes
  <2>2. /\ connected' \in BOOLEAN /\ inputClosed' \in BOOLEAN
        /\ UNCHANGED <<state, poll, late>>
    OBVIOUS
  <2>3. \E k : CallStep(c, k)
    BY DEF Connect
  <2> HIDE DEF IInv, ClientOK, CallStep
  <2> QED BY <2>1, <2>2, <2>3, CallKeepsTypes
<1>10. ServerOK' BY DEF None
<1>3. CallInv' BY DEF CallInv
<1>4. ConnectInv'
  <2> USE DEF CallInv, ConnectInv, None
  <2>1. CASE connected BY <2>1
  <2>2. CASE ~connected
    <3>1. proc = "none" BY <2>2
    <3>2. \A d \in Callers : d = c \/ call[d] = "connect" => response[d] = None
      BY <2>2
    <3> QED BY <2>2, <3>1, <3>2
  <2> QED BY <2>1, <2>2
<1>5. TextInv' /\ SentIsRead' BY DEF CallInv, TextInv, Read, None, SentIsRead, IsCall
<1>6. LinesInv' BY DEF LinesInv
<1>7. PollInv' BY DEF PollInv, Asked, ConnectInv
<1>8. OneProcess' BY DEF CallInv, ConnectInv, OneProcess, IsCall
<1>9. WaitTells' BY DEF PollInv, Asked, LinesInv, WaitTells, ConnectInv, Ended, None
<1> QED BY <1>1, <1>2, <1>3, <1>4, <1>5, <1>6, <1>7, <1>8, <1>9, <1>10

LEMMA SendTextKeeps ==
  ASSUME IInv, NEW c \in Callers, SendText(c)
  PROVE  IInv'
<1> USE ConstantsAssumption, MaxLinesAssumption
    DEF IInv, onceVars, clientVars, netVars, serverVars, OnceOK,
        ClientOK, ServerOK, Requests, Answers, Results, SendText, CallStep,
        Answer, Method, Rest
<1>1. OnceOK' BY DEF Outcomes, None, LinesInv
<1>2. ClientOK'
  <2>1. \E a \in Outcomes : outcome' = [outcome EXCEPT ![c] = a]
    BY DEF Outcomes
  <2>2. /\ connected' \in BOOLEAN /\ inputClosed' \in BOOLEAN
        /\ UNCHANGED <<state, poll, late>>
    OBVIOUS
  <2>3. \E k : CallStep(c, k)
    BY DEF SendText
  <2> HIDE DEF IInv, ClientOK, CallStep
  <2> QED BY <2>1, <2>2, <2>3, CallKeepsTypes
<1>10. ServerOK' BY DEF None
<1>3. CallInv' /\ ConnectInv' BY DEF CallInv, ConnectInv, None
<1>4. TextInv' /\ SentIsRead'
  <2>1. \A d \in Callers :
          /\ d # c => outcome'[d] = outcome[d] /\ call'[d] = call[d]
                      /\ earlier'[d] = earlier[d] /\ request'[d] = request[d]
          /\ Read(d)' = Read(d)
    BY DEF Read
  <2>2. /\ call'[c] = "sendText" /\ outcome'[c] # "ok"
        /\ request[c] = "none" /\ UNCHANGED <<response, input>>
        /\ \A b \in earlier'[c] : call[b] = "sendText" /\ outcome[b] = "ok"
        /\ earlier'[c] \subseteq Callers
    BY DEF CallInv
  <2>3. ~Read(c) /\ response[c] = None
    BY <2>2 DEF TextInv, CallInv
  <2>4. TextInv /\ SentIsRead
    OBVIOUS
  <2>5. TextInv'
    <3>1. \A d \in Callers : Read(d)' => request'[d] = "answered"
      BY <2>1, <2>3, <2>4 DEF TextInv
    <3>2. \A d \in Callers :
            call'[d] = "sendText" /\ (outcome'[d] = "ok" \/ response'[d][1] = "200")
              => Read(d)'
      BY ONLY <2>1, <2>2, <2>3, <2>4 DEF TextInv, None
    <3>3. \A d \in Callers : \A b \in earlier'[d] : Read(b)'
      BY ONLY <2>1, <2>2, <2>4, earlier \in [Callers -> SUBSET Callers] DEF TextInv
    <3> QED BY ONLY <3>1, <3>2, <3>3 DEF TextInv
  <2>6. SentIsRead'
    BY ONLY <2>1, <2>2, <2>3, <2>4 DEF SentIsRead, IsCall, Read
  <2> QED BY <2>5, <2>6
<1>5. LinesInv' BY DEF LinesInv
<1>6. PollInv' BY DEF PollInv, Asked, ConnectInv
<1>7. OneProcess' BY DEF CallInv, ConnectInv, OneProcess, IsCall
<1>8. WaitTells' BY DEF PollInv, Asked, LinesInv, WaitTells, ConnectInv, Ended, None
<1> QED BY <1>1, <1>2, <1>3, <1>4, <1>5, <1>6, <1>7, <1>8, <1>10

LEMMA CloseInputKeeps ==
  ASSUME IInv, NEW c \in Callers, CloseInput(c)
  PROVE  IInv'
<1> USE ConstantsAssumption, MaxLinesAssumption
    DEF IInv, onceVars, clientVars, netVars, serverVars, OnceOK,
        ClientOK, ServerOK, Requests, Answers, Results, CloseInput, CallStep,
        Answer, Method, Rest
<1>1. OnceOK' BY DEF Outcomes, None, LinesInv
<1>2. ClientOK'
  <2>1. \E a \in Outcomes : outcome' = [outcome EXCEPT ![c] = a]
    BY DEF Outcomes
  <2>2. /\ connected' \in BOOLEAN /\ inputClosed' \in BOOLEAN
        /\ UNCHANGED <<state, poll, late>>
    OBVIOUS
  <2>3. \E k : CallStep(c, k)
    BY DEF CloseInput
  <2> HIDE DEF IInv, ClientOK, CallStep
  <2> QED BY <2>1, <2>2, <2>3, CallKeepsTypes
<1>10. ServerOK' BY DEF None
<1>3. CallInv' /\ ConnectInv' BY DEF CallInv, ConnectInv, None
<1>4. TextInv' /\ SentIsRead' BY DEF CallInv, TextInv, Read, None, SentIsRead, IsCall
<1>5. LinesInv' BY DEF LinesInv
<1>6. PollInv' BY DEF PollInv, Asked, ConnectInv
<1>7. OneProcess' BY DEF CallInv, ConnectInv, OneProcess, IsCall
<1>8. WaitTells' BY DEF PollInv, Asked, LinesInv, WaitTells, ConnectInv, Ended, None
<1> QED BY <1>1, <1>2, <1>3, <1>4, <1>5, <1>6, <1>7, <1>8, <1>10

LEMMA CancelKeeps ==
  ASSUME IInv, NEW c \in Callers, Cancel(c)
  PROVE  IInv'
<1> USE ConstantsAssumption, MaxLinesAssumption
    DEF IInv, onceVars, clientVars, netVars, serverVars, OnceOK,
        ClientOK, ServerOK, Requests, Answers, Results, Cancel, CallStep,
        Answer, Method, Rest
<1>1. OnceOK' BY DEF Outcomes, None, LinesInv
<1>2. ClientOK'
  <2>1. \E a \in Outcomes : outcome' = [outcome EXCEPT ![c] = a]
    BY DEF Outcomes
  <2>2. /\ connected' \in BOOLEAN /\ inputClosed' \in BOOLEAN
        /\ UNCHANGED <<state, poll, late>>
    OBVIOUS
  <2>3. \E k : CallStep(c, k)
    BY DEF Cancel
  <2> HIDE DEF IInv, ClientOK, CallStep
  <2> QED BY <2>1, <2>2, <2>3, CallKeepsTypes
<1>10. ServerOK' BY DEF None
<1>3. CallInv' /\ ConnectInv' BY DEF CallInv, ConnectInv, None
<1>4. TextInv' /\ SentIsRead' BY DEF CallInv, TextInv, Read, None, SentIsRead, IsCall
<1>5. LinesInv' BY DEF LinesInv
<1>6. PollInv' BY DEF PollInv, Asked, ConnectInv
<1>7. OneProcess' BY DEF CallInv, ConnectInv, OneProcess, IsCall
<1>8. WaitTells' BY DEF PollInv, Asked, LinesInv, WaitTells, ConnectInv, Ended, None
<1> QED BY <1>1, <1>2, <1>3, <1>4, <1>5, <1>6, <1>7, <1>8, <1>10

LEMMA WaitKeeps ==
  ASSUME IInv, NEW c \in Callers, Wait(c)
  PROVE  IInv'
<1> USE ConstantsAssumption, MaxLinesAssumption
    DEF IInv, onceVars, clientVars, netVars, serverVars, OnceOK,
        ClientOK, ServerOK, Requests, Answers, Results, Wait, CallStep, Do,
        Enter, Runs
<1>1. OnceOK' BY DEF Outcomes, None, LinesInv
<1>2. ClientOK' /\ ServerOK' BY DEF Outcomes, None, LinesInv
<1>3. CallInv' /\ ConnectInv' BY DEF CallInv, ConnectInv, None
<1>4. TextInv' /\ SentIsRead' BY DEF CallInv, TextInv, Read, None, SentIsRead, IsCall
<1>5. LinesInv' BY DEF LinesInv
<1>6. PollInv' BY DEF PollInv, Asked, ConnectInv
<1>7. OneProcess' BY DEF CallInv, ConnectInv, OneProcess, IsCall
<1>8. WaitTells' BY DEF PollInv, Asked, LinesInv, WaitTells, ConnectInv, Ended, None
<1> QED BY <1>1, <1>2, <1>3, <1>4, <1>5, <1>6, <1>7, <1>8

LEMMA ReceiveKeeps ==
  ASSUME IInv, NEW c \in Callers, Receive(c)
  PROVE  IInv'
<1> USE ConstantsAssumption, MaxLinesAssumption
    DEF IInv, onceVars, clientVars, netVars, serverVars, OnceOK,
        ClientOK, ServerOK, Requests, Answers, Results, Receive, Answer
<1>1. OnceOK' BY DEF Outcomes, None, LinesInv
<1>2. ClientOK' /\ ServerOK' BY DEF Outcomes, None, LinesInv
<1>3. CallInv' /\ ConnectInv' BY DEF CallInv, ConnectInv, None
<1>4. TextInv' /\ SentIsRead' BY DEF CallInv, TextInv, Read, None, SentIsRead, IsCall
<1>5. LinesInv' BY DEF LinesInv
<1>6. PollInv' BY DEF PollInv, Asked, ConnectInv
<1>7. OneProcess' BY DEF CallInv, ConnectInv, OneProcess, IsCall
<1>8. WaitTells' BY DEF PollInv, Asked, LinesInv, WaitTells, ConnectInv, Ended, None
<1> QED BY <1>1, <1>2, <1>3, <1>4, <1>5, <1>6, <1>7, <1>8

LEMMA LostKeeps ==
  ASSUME IInv, NEW c \in Callers, Lost(c)
  PROVE  IInv'
<1> USE ConstantsAssumption, MaxLinesAssumption
    DEF IInv, onceVars, clientVars, netVars, serverVars, OnceOK,
        ClientOK, ServerOK, Requests, Answers, Results, Lost, Answer
<1>1. OnceOK' BY DEF Outcomes, None, LinesInv
<1>2. ClientOK' /\ ServerOK' BY DEF Outcomes, None, LinesInv
<1>3. CallInv' /\ ConnectInv' BY DEF CallInv, ConnectInv, None
<1>4. TextInv' /\ SentIsRead' BY DEF CallInv, TextInv, Read, None, SentIsRead, IsCall
<1>5. LinesInv' BY DEF LinesInv
<1>6. PollInv' BY DEF PollInv, Asked, ConnectInv
<1>7. OneProcess' BY DEF CallInv, ConnectInv, OneProcess, IsCall
<1>8. WaitTells' BY DEF PollInv, Asked, LinesInv, WaitTells, ConnectInv, Ended, None
<1> QED BY <1>1, <1>2, <1>3, <1>4, <1>5, <1>6, <1>7, <1>8

LEMMA AskKeeps ==
  ASSUME IInv, Ask
  PROVE  IInv'
<1> USE ConstantsAssumption, MaxLinesAssumption
    DEF IInv, onceVars, clientVars, netVars, serverVars, OnceOK,
        ClientOK, ServerOK, Requests, Answers, Results, Ask, PollStep
<1>1. OnceOK' BY DEF Outcomes, None, LinesInv
<1>2. ClientOK' /\ ServerOK' BY DEF Outcomes, None, LinesInv
<1>3. CallInv' /\ ConnectInv' BY DEF CallInv, ConnectInv, None
<1>4. TextInv' /\ SentIsRead' BY DEF CallInv, TextInv, Read, None, SentIsRead, IsCall
<1>5. LinesInv' BY DEF LinesInv
<1>6. PollInv' BY DEF PollInv, Asked, ConnectInv
<1>7. OneProcess' BY DEF CallInv, ConnectInv, OneProcess, IsCall
<1>8. WaitTells' BY DEF PollInv, Asked, LinesInv, WaitTells, ConnectInv, Ended, None
<1> QED BY <1>1, <1>2, <1>3, <1>4, <1>5, <1>6, <1>7, <1>8

LEMMA GiveUpKeeps ==
  ASSUME IInv, NEW from \in {"ask", "asked"},
         NEW err \in {"failed", "errNotConnected", "errWaitExceeded"},
         GiveUp(from, err)
  PROVE  IInv'
<1> USE ConstantsAssumption, MaxLinesAssumption
    DEF IInv, onceVars, clientVars, netVars, serverVars, OnceOK,
        ClientOK, ServerOK, Requests, Answers, Results, GiveUp, PollStep,
        Reject, Settle
<1>1. OnceOK' BY DEF Outcomes, None, LinesInv
<1>2. ClientOK' /\ ServerOK' BY DEF Outcomes, None, LinesInv
<1>3. CallInv' /\ ConnectInv' BY DEF CallInv, ConnectInv, None
<1>4. TextInv' /\ SentIsRead' BY DEF CallInv, TextInv, Read, None, SentIsRead, IsCall
<1>5. LinesInv' BY DEF LinesInv
<1>6. PollInv' BY DEF PollInv, Asked, ConnectInv
<1>7. OneProcess' BY DEF CallInv, ConnectInv, OneProcess, IsCall
<1>8. WaitTells' BY DEF PollInv, Asked, LinesInv, WaitTells, ConnectInv, Ended, None
<1> QED BY <1>1, <1>2, <1>3, <1>4, <1>5, <1>6, <1>7, <1>8

LEMMA StillPendingKeeps ==
  ASSUME IInv, PollStep("asked"), poll' = "sleep",
         UNCHANGED <<onceVars, outcome, stored, late, netVars>>
  PROVE  IInv'
<1> USE ConstantsAssumption, MaxLinesAssumption
    DEF IInv, onceVars, clientVars, netVars, serverVars, OnceOK,
        ClientOK, ServerOK, Requests, Answers, Results, PollStep
<1>1. OnceOK' BY DEF Outcomes, None, LinesInv
<1>2. ClientOK' /\ ServerOK' BY DEF Outcomes, None, LinesInv
<1>3. CallInv' /\ ConnectInv' BY DEF CallInv, ConnectInv, None
<1>4. TextInv' /\ SentIsRead' BY DEF CallInv, TextInv, Read, None, SentIsRead, IsCall
<1>5. LinesInv' BY DEF LinesInv
<1>6. PollInv' BY DEF PollInv, Asked, ConnectInv
<1>7. OneProcess' BY DEF CallInv, ConnectInv, OneProcess, IsCall
<1>8. WaitTells' BY DEF PollInv, Asked, LinesInv, WaitTells, ConnectInv, Ended, None
<1> QED BY <1>1, <1>2, <1>3, <1>4, <1>5, <1>6, <1>7, <1>8

LEMMA WakeKeeps ==
  ASSUME IInv, Wake
  PROVE  IInv'
<1> USE ConstantsAssumption, MaxLinesAssumption
    DEF IInv, onceVars, clientVars, netVars, serverVars, OnceOK,
        ClientOK, ServerOK, Requests, Answers, Results, Wake, PollStep
<1>1. OnceOK' BY DEF Outcomes, None, LinesInv
<1>2. ClientOK' /\ ServerOK' BY DEF Outcomes, None, LinesInv
<1>3. CallInv' /\ ConnectInv' BY DEF CallInv, ConnectInv, None
<1>4. TextInv' /\ SentIsRead' BY DEF CallInv, TextInv, Read, None, SentIsRead, IsCall
<1>5. LinesInv' BY DEF LinesInv
<1>6. PollInv' BY DEF PollInv, Asked, ConnectInv
<1>7. OneProcess' BY DEF CallInv, ConnectInv, OneProcess, IsCall
<1>8. WaitTells' BY DEF PollInv, Asked, LinesInv, WaitTells, ConnectInv, Ended, None
<1> QED BY <1>1, <1>2, <1>3, <1>4, <1>5, <1>6, <1>7, <1>8

LEMMA TimePassesKeeps ==
  ASSUME IInv, TimePasses
  PROVE  IInv'
<1> USE ConstantsAssumption, MaxLinesAssumption
    DEF IInv, onceVars, clientVars, netVars, serverVars, OnceOK,
        ClientOK, ServerOK, Requests, Answers, Results, TimePasses
<1>1. OnceOK' BY DEF Outcomes, None, LinesInv
<1>2. ClientOK' /\ ServerOK' BY DEF Outcomes, None, LinesInv
<1>3. CallInv' /\ ConnectInv' BY DEF CallInv, ConnectInv, None
<1>4. TextInv' /\ SentIsRead' BY DEF CallInv, TextInv, Read, None, SentIsRead, IsCall
<1>5. LinesInv' BY DEF LinesInv
<1>6. PollInv' BY DEF PollInv, Asked, ConnectInv
<1>7. OneProcess' BY DEF CallInv, ConnectInv, OneProcess, IsCall
<1>8. WaitTells' BY DEF PollInv, Asked, LinesInv, WaitTells, ConnectInv, Ended, None
<1> QED BY <1>1, <1>2, <1>3, <1>4, <1>5, <1>6, <1>7, <1>8

LEMMA GotResultKeeps ==
  ASSUME IInv, GotResult
  PROVE  IInv'
<1> USE ConstantsAssumption, MaxLinesAssumption
    DEF IInv, onceVars, clientVars, netVars, serverVars, OnceOK,
        ClientOK, ServerOK, Requests, Answers, Results, GotResult, PollStep,
        Fulfil, Settle
<1>a. PICK s \in Results \cup {"invalid"} :
        Asked(s) /\ stored' = <<IF s = "invalid" THEN "rejected" ELSE s, response["poll"][2]>>
  BY DEF Results
<1>1. OnceOK' BY <1>a DEF Outcomes, None, LinesInv
<1>2. ClientOK' /\ ServerOK' BY <1>a DEF Outcomes, None, LinesInv
<1>3. CallInv' /\ ConnectInv' BY <1>a DEF CallInv, ConnectInv, None
<1>4. TextInv' /\ SentIsRead'
  BY <1>a DEF CallInv, TextInv, Read, None, SentIsRead, IsCall
<1>5. LinesInv' BY <1>a DEF LinesInv
<1>6. PollInv' BY <1>a DEF PollInv, Asked, ConnectInv
<1>7. OneProcess' BY <1>a DEF CallInv, ConnectInv, OneProcess, IsCall
<1>8. WaitTells'
  <2>1. CASE s = "invalid" BY <1>a, <2>1 DEF WaitTells, Asked
  <2>2. CASE s \in Results
    <3>1. stored'[1] = proc /\ stored'[2] = lines /\ Ended
      BY <1>a, <2>2 DEF PollInv, Results, Ended
    <3>2. Len(lines) = Kept(output)
      BY DEF ServerOK, LinesInv, Kept
    <3>3. lines = [i \in 1 .. Len(lines) |-> output - Len(lines) + i]
      BY DEF ServerOK, LinesInv
    <3>4. lines = LastLines(output) BY <3>2, <3>3 DEF LastLines
    <3> QED BY <3>1, <3>4 DEF WaitTells, Ended
  <2> QED BY <2>1, <2>2
<1> QED BY <1>1, <1>2, <1>3, <1>4, <1>5, <1>6, <1>7, <1>8

LEMMA SettledKeeps ==
  ASSUME IInv, Settled
  PROVE  IInv'
<1> USE ConstantsAssumption, MaxLinesAssumption
    DEF IInv, onceVars, clientVars, netVars, serverVars, OnceOK,
        ClientOK, ServerOK, Requests, Answers, Results, Settled, Finally
<1>1. OnceOK' BY DEF Outcomes, None, LinesInv
<1>2. ClientOK' /\ ServerOK' BY DEF Outcomes, None, LinesInv
<1>3. CallInv' /\ ConnectInv' BY DEF CallInv, ConnectInv, None
<1>4. TextInv' /\ SentIsRead' BY DEF CallInv, TextInv, Read, None, SentIsRead, IsCall
<1>5. LinesInv' BY DEF LinesInv
<1>6. PollInv' BY DEF PollInv, Asked, ConnectInv
<1>7. OneProcess' BY DEF CallInv, ConnectInv, OneProcess, IsCall
<1>8. WaitTells' BY DEF PollInv, Asked, LinesInv, WaitTells, ConnectInv, Ended, None
<1> QED BY <1>1, <1>2, <1>3, <1>4, <1>5, <1>6, <1>7, <1>8

LEMMA ServeNewKeeps ==
  ASSUME IInv, NEW r \in Requests, ServeNew(r)
  PROVE  IInv'
<1> USE ConstantsAssumption, MaxLinesAssumption
    DEF IInv, onceVars, clientVars, netVars, serverVars, OnceOK,
        ClientOK, ServerOK, Requests, Answers, Results, ServeNew, Serve,
        ServerStep, IsCall, OK, Error
<1>a. /\ response' \in [Requests -> Answers \X Seq(Nat)]
      /\ response'[r] = OK /\ request'[r] = "answered" /\ request[r] = "sent"
      /\ \A q \in Requests \ {r} : response'[q] = response[q] /\ request'[q] = request[q]
      /\ OK[1] = "200"
  BY ServeAnswers, AnswerTypes DEF ServeNew
<1>1. OnceOK' BY <1>a DEF Outcomes, None, LinesInv
<1>2. ClientOK' BY <1>a DEF Outcomes, None
<1>3. ServerOK'
  BY <1>a DEF ServerOK
<1>4. CallInv' BY <1>a DEF CallInv
<1>5. ConnectInv'
  BY <1>a DEF CallInv, ConnectInv, OneProcess, None
<1>6. TextInv' /\ SentIsRead'
  BY <1>a DEF CallInv, TextInv, Read, None, SentIsRead, IsCall
<1>7. LinesInv' BY <1>a DEF LinesInv
<1>8. PollInv' BY <1>a DEF PollInv, Asked, ConnectInv
<1>9. OneProcess' BY <1>a DEF CallInv, ConnectInv, OneProcess, IsCall
<1>10. WaitTells'
  BY <1>a DEF PollInv, Asked, LinesInv, WaitTells, ConnectInv, Ended, None
<1> QED BY <1>1, <1>2, <1>3, <1>4, <1>5, <1>6, <1>7, <1>8, <1>9, <1>10

LEMMA ServeErrorKeeps ==
  ASSUME IInv, NEW r \in Requests, ServeError(r)
  PROVE  IInv'
<1> USE ConstantsAssumption, MaxLinesAssumption
    DEF IInv, onceVars, clientVars, netVars, serverVars, OnceOK,
        ClientOK, ServerOK, Requests, Answers, Results, ServeError, Serve,
        ServerStep, IsCall, OK, Error
<1>a. /\ response' \in [Requests -> Answers \X Seq(Nat)]
      /\ response'[r] = Error /\ request'[r] = "answered" /\ request[r] = "sent"
      /\ \A q \in Requests \ {r} : response'[q] = response[q] /\ request'[q] = request[q]
      /\ Error[1] = "error"
  BY ServeAnswers, AnswerTypes DEF ServeError
<1>1. OnceOK' BY <1>a DEF Outcomes, None, LinesInv
<1>2. ClientOK' BY <1>a DEF Outcomes, None
<1>3. ServerOK'
  BY <1>a DEF ServerOK
<1>4. CallInv' /\ ConnectInv' BY <1>a DEF CallInv, ConnectInv, None
<1>5. TextInv' /\ SentIsRead'
  BY <1>a DEF CallInv, TextInv, Read, None, SentIsRead, IsCall
<1>6. LinesInv' BY <1>a DEF LinesInv
<1>7. PollInv' BY <1>a DEF PollInv, Asked, ConnectInv
<1>8. OneProcess' BY <1>a DEF CallInv, ConnectInv, OneProcess, IsCall
<1>9. WaitTells'
  BY <1>a DEF PollInv, Asked, LinesInv, WaitTells, ConnectInv, Ended, None
<1> QED BY <1>1, <1>2, <1>3, <1>4, <1>5, <1>6, <1>7, <1>8, <1>9

LEMMA ServeInputKeeps ==
  ASSUME IInv, NEW r \in Requests, ServeInput(r)
  PROVE  IInv'
<1> USE ConstantsAssumption, MaxLinesAssumption
    DEF IInv, onceVars, clientVars, netVars, serverVars, OnceOK,
        ClientOK, ServerOK, Requests, Answers, Results, ServeInput, Serve,
        ServerStep, IsCall, OK, Error
<1>a. /\ response' \in [Requests -> Answers \X Seq(Nat)]
      /\ response'[r] = OK /\ request'[r] = "answered" /\ request[r] = "sent"
      /\ \A q \in Requests \ {r} : response'[q] = response[q] /\ request'[q] = request[q]
      /\ OK[1] = "200"
  BY ServeAnswers, AnswerTypes DEF ServeInput
<1>b. /\ r \in Callers /\ input' \in Seq(Callers)
      /\ Len(input') = Len(input) + 1 /\ Len(input) \in Nat
      /\ DOMAIN input = 1 .. Len(input) /\ DOMAIN input' = 1 .. (Len(input) + 1)
      /\ \A k \in DOMAIN input : input'[k] = input[k]
      /\ input'[Len(input) + 1] = r
  BY DEF ServerOK
<1>c. Read(r)' /\ \A c \in Callers : Read(c) => Read(c)'
  BY ONLY <1>b DEF Read
<1>d. \A c \in Callers \ {r} : Read(c)' => Read(c)
  BY ONLY <1>b DEF Read
<1>1. OnceOK' BY <1>a DEF Outcomes, None, LinesInv
<1>2. ClientOK' BY <1>a DEF Outcomes, None
<1>3. ServerOK'
  BY <1>a, <1>b DEF ServerOK
<1>4. CallInv' /\ ConnectInv' BY <1>a DEF CallInv, ConnectInv, None
<1>5. TextInv'
  BY <1>a, <1>c, <1>d DEF OnceOK, ClientOK, CallInv, TextInv, Requests
<1>6. SentIsRead'
  <2> SUFFICES ASSUME NEW c \in Callers, call[c] = "sendText"
               PROVE /\ outcome[c] = "ok" => Read(c)'
                     /\ \A b \in earlier[c], k \in DOMAIN input' :
                          input'[k] = c => \E l \in 1 .. (k - 1) : input'[l] = b
    BY DEF SentIsRead, IsCall
  <2>1. outcome[c] = "ok" => Read(c)'
    BY <1>c DEF SentIsRead, IsCall
  <2>2. ASSUME NEW b \in earlier[c], NEW k \in DOMAIN input', input'[k] = c
        PROVE  \E l \in 1 .. (k - 1) : input'[l] = b
    <3>1. CASE k = Len(input) + 1
      <4>1. PICK l \in DOMAIN input : input[l] = b BY DEF TextInv, Read
      <4>2. l \in 1 .. (k - 1) /\ input'[l] = b BY <1>b, <3>1, <4>1
      <4> QED BY <4>2
    <3>2. CASE k \in DOMAIN input
      <4>1. PICK l \in 1 .. (k - 1) : input[l] = b
        BY <1>b, <2>2, <3>2 DEF SentIsRead, IsCall
      <4>2. l \in DOMAIN input BY <1>b, <3>2
      <4> QED BY <1>b, <4>1, <4>2
    <3> QED BY <1>b, <3>1, <3>2
  <2> QED BY <2>1, <2>2
<1>7. LinesInv' BY <1>a DEF LinesInv
<1>8. PollInv' BY <1>a DEF PollInv, Asked, ConnectInv
<1>9. OneProcess' BY <1>a DEF CallInv, ConnectInv, OneProcess, IsCall
<1>10. WaitTells'
  BY <1>a DEF PollInv, Asked, LinesInv, WaitTells, ConnectInv, Ended, None
<1> QED BY <1>1, <1>2, <1>3, <1>4, <1>5, <1>6, <1>7, <1>8, <1>9, <1>10

LEMMA ServeCloseInputKeeps ==
  ASSUME IInv, NEW r \in Requests, ServeCloseInput(r)
  PROVE  IInv'
<1> USE ConstantsAssumption, MaxLinesAssumption
    DEF IInv, onceVars, clientVars, netVars, serverVars, OnceOK,
        ClientOK, ServerOK, Requests, Answers, Results, ServeCloseInput, Serve,
        ServerStep, IsCall, OK, Error
<1>a. /\ response' \in [Requests -> Answers \X Seq(Nat)]
      /\ response'[r] = OK /\ request'[r] = "answered" /\ request[r] = "sent"
      /\ \A q \in Requests \ {r} : response'[q] = response[q] /\ request'[q] = request[q]
      /\ OK[1] = "200"
  BY ServeAnswers, AnswerTypes DEF ServeCloseInput
<1>1. OnceOK' BY <1>a DEF Outcomes, None, LinesInv
<1>2. ClientOK' BY <1>a DEF Outcomes, None
<1>3. ServerOK'
  BY <1>a DEF ServerOK
<1>4. CallInv' /\ ConnectInv' BY <1>a DEF CallInv, ConnectInv, None
<1>5. TextInv' /\ SentIsRead'
  BY <1>a DEF CallInv, TextInv, Read, None, SentIsRead, IsCall
<1>6. LinesInv' BY <1>a DEF LinesInv
<1>7. PollInv' BY <1>a DEF PollInv, Asked, ConnectInv
<1>8. OneProcess' BY <1>a DEF CallInv, ConnectInv, OneProcess, IsCall
<1>9. WaitTells'
  BY <1>a DEF PollInv, Asked, LinesInv, WaitTells, ConnectInv, Ended, None
<1> QED BY <1>1, <1>2, <1>3, <1>4, <1>5, <1>6, <1>7, <1>8, <1>9

LEMMA ServeCancelKeeps ==
  ASSUME IInv, NEW r \in Requests, ServeCancel(r)
  PROVE  IInv'
<1> USE ConstantsAssumption, MaxLinesAssumption
    DEF IInv, onceVars, clientVars, netVars, serverVars, OnceOK,
        ClientOK, ServerOK, Requests, Answers, Results, ServeCancel, Serve,
        ServerStep, IsCall, OK, Error
<1>1. OnceOK' BY DEF Outcomes, None, LinesInv
<1>2. ClientOK' /\ ServerOK' BY DEF Outcomes, None, LinesInv
<1>3. CallInv' /\ ConnectInv' BY DEF CallInv, ConnectInv, None
<1>4. TextInv' /\ SentIsRead' BY DEF CallInv, TextInv, Read, None, SentIsRead, IsCall
<1>5. LinesInv' BY DEF LinesInv
<1>6. PollInv' BY DEF PollInv, Asked, ConnectInv
<1>7. OneProcess' BY DEF CallInv, ConnectInv, OneProcess, IsCall
<1>8. WaitTells' BY DEF PollInv, Asked, LinesInv, WaitTells, ConnectInv, Ended, None
<1> QED BY <1>1, <1>2, <1>3, <1>4, <1>5, <1>6, <1>7, <1>8

LEMMA AnswerCancelKeeps ==
  ASSUME IInv, NEW r \in Requests, AnswerCancel(r)
  PROVE  IInv'
<1> USE ConstantsAssumption, MaxLinesAssumption
    DEF IInv, onceVars, clientVars, netVars, serverVars, OnceOK,
        ClientOK, ServerOK, Requests, Answers, Results, AnswerCancel, Serve,
        ServerStep, IsCall, OK, Error
<1>a. /\ response' \in [Requests -> Answers \X Seq(Nat)]
      /\ response'[r] = OK /\ request'[r] = "answered" /\ request[r] = "waiting"
      /\ \A q \in Requests \ {r} : response'[q] = response[q] /\ request'[q] = request[q]
      /\ OK[1] = "200"
  BY ServeAnswers, AnswerTypes DEF AnswerCancel
<1>1. OnceOK' BY <1>a DEF Outcomes, None, LinesInv
<1>2. ClientOK' BY <1>a DEF Outcomes, None
<1>3. ServerOK'
  BY <1>a DEF ServerOK
<1>4. CallInv' /\ ConnectInv' BY <1>a DEF CallInv, ConnectInv, None
<1>5. TextInv' /\ SentIsRead'
  BY <1>a DEF CallInv, TextInv, Read, None, SentIsRead, IsCall
<1>6. LinesInv' BY <1>a DEF LinesInv
<1>7. PollInv' BY <1>a DEF PollInv, Asked, ConnectInv
<1>8. OneProcess' BY <1>a DEF CallInv, ConnectInv, OneProcess, IsCall
<1>9. WaitTells'
  BY <1>a DEF PollInv, Asked, LinesInv, WaitTells, ConnectInv, Ended, None
<1> QED BY <1>1, <1>2, <1>3, <1>4, <1>5, <1>6, <1>7, <1>8, <1>9

LEMMA ServeStatusKeeps ==
  ASSUME IInv, NEW r \in Requests, ServeStatus(r)
  PROVE  IInv'
<1> USE ConstantsAssumption, MaxLinesAssumption
    DEF IInv, onceVars, clientVars, netVars, serverVars, OnceOK,
        ClientOK, ServerOK, Requests, Answers, Results, ServeStatus, Serve,
        ServerStep, IsCall, OK, Error
<1>s. PICK a \in Answers \X Seq(Nat) :
        /\ Serve(r, "sent", a)
        /\ a[1] # "200"
        /\ a[1] \in Results => proc = a[1] /\ a[2] = lines
  <2>1. <<IF Ended THEN proc ELSE "pending", lines>> \in Answers \X Seq(Nat)
    BY DEF Ended, ServerOK, Answers, Results
  <2>2. <<"invalid", <<>>>> \in Answers \X Seq(Nat)
    <3>1. <<>> \in Seq(Nat) OBVIOUS
    <3>2. "invalid" \in Answers BY DEF Answers
    <3> QED BY <3>1, <3>2
  <2> QED BY <2>1, <2>2 DEF Ended, Results, ServeStatus
<1>a. /\ response' = [response EXCEPT !["poll"] = a]
      /\ request' = [request EXCEPT !["poll"] = "answered"]
      /\ request["poll"] = "sent"
      /\ UNCHANGED <<onceVars, outcome, clientVars, serverVars>>
      /\ a[1] # "200" /\ (a[1] \in Results => proc = a[1] /\ a[2] = lines)
  BY <1>s DEF ServeStatus
<1> HIDE DEF ServeStatus, Serve
<1>1. OnceOK' BY <1>a DEF Outcomes, None, LinesInv
<1>2. ClientOK' BY <1>a DEF Outcomes, None
<1>3. ServerOK'
  BY <1>a DEF ServerOK
<1>4. CallInv' /\ ConnectInv' BY <1>a DEF CallInv, ConnectInv, None
<1>5. TextInv' /\ SentIsRead'
  BY <1>a DEF CallInv, TextInv, Read, None, SentIsRead, IsCall
<1>6. LinesInv' BY <1>a DEF LinesInv
<1>7. PollInv' BY <1>a DEF PollInv, Asked, ConnectInv
<1>8. OneProcess' BY <1>a DEF CallInv, ConnectInv, OneProcess, IsCall
<1>9. WaitTells'
  BY <1>a DEF PollInv, Asked, LinesInv, WaitTells, ConnectInv, Ended, None
<1> QED BY <1>1, <1>2, <1>3, <1>4, <1>5, <1>6, <1>7, <1>8, <1>9

LEMMA ProcWriteKeeps ==
  ASSUME IInv, ProcWrite
  PROVE  IInv'
<1> USE ConstantsAssumption, MaxLinesAssumption
    DEF IInv, onceVars, clientVars, netVars, serverVars, OnceOK,
        ClientOK, ServerOK, Requests, Answers, Results, ProcWrite, Add,
        ProcStep, ServerStep
<1>1. OnceOK' BY DEF Outcomes, None, LinesInv
<1>2. ClientOK' /\ ServerOK' BY DEF Outcomes, None, LinesInv
<1>3. CallInv' /\ ConnectInv' BY DEF CallInv, ConnectInv, None
<1>4. TextInv' /\ SentIsRead' BY DEF CallInv, TextInv, Read, None, SentIsRead, IsCall
<1>5. LinesInv'
  <2>1. /\ lines \in Seq(Nat) /\ Len(lines) \in Nat /\ output \in Nat
        /\ output' = output + 1 /\ MaxLines \in Nat \ {0} /\ Len(lines) <= MaxLines
    BY DEF ServerOK, OnceOK
  <2>2. CASE Len(lines) < MaxLines
    <3>1. /\ lines' \in Seq(Nat) /\ Len(lines') = Len(lines) + 1
          /\ \A i \in 1 .. Len(lines) : lines'[i] = lines[i]
          /\ lines'[Len(lines) + 1] = output + 1
      BY <2>1, <2>2
    <3> QED BY <2>1, <2>2, <3>1 DEF LinesInv
  <2>3. CASE Len(lines) = MaxLines
    <3>1. lines' = Append(Tail(lines), output + 1) BY <2>1, <2>3
    <3>a. /\ Len(lines) > 0 /\ Len(lines) <= output
          /\ \A i \in 1 .. Len(lines) : lines[i] = output - Len(lines) + i
      BY <2>1, <2>3 DEF LinesInv
    <3>2. /\ Len(lines') = Len(lines)
          /\ \A i \in 1 .. Len(lines) : lines'[i] = (output + 1) - Len(lines) + i
      BY ONLY <2>1, <3>1, <3>a, FullBuffer
    <3>3. /\ Len(lines') <= output'
          /\ Len(lines') < MaxLines => Len(lines') = output'
      BY ONLY <2>1, <2>3, <3>2, <3>a
    <3> QED BY ONLY <2>1, <3>2, <3>3 DEF LinesInv
  <2> QED BY <2>1, <2>2, <2>3
<1>6. PollInv' BY DEF PollInv, Asked, ConnectInv
<1>7. OneProcess' BY DEF CallInv, ConnectInv, OneProcess, IsCall
<1>8. WaitTells' BY DEF PollInv, Asked, LinesInv, WaitTells, ConnectInv, Ended, None
<1> QED BY <1>1, <1>2, <1>3, <1>4, <1>5, <1>6, <1>7, <1>8

LEMMA ProcReturnKeeps ==
  ASSUME IInv, ProcReturn
  PROVE  IInv'
<1> USE ConstantsAssumption, MaxLinesAssumption
    DEF IInv, onceVars, clientVars, netVars, serverVars, OnceOK,
        ClientOK, ServerOK, Requests, Answers, Results, ProcReturn, ProcStep,
        ServerStep
<1>1. OnceOK' BY DEF Outcomes, None, LinesInv
<1>2. ClientOK' /\ ServerOK' BY DEF Outcomes, None, LinesInv
<1>3. CallInv' /\ ConnectInv' BY DEF CallInv, ConnectInv, None
<1>4. TextInv' /\ SentIsRead' BY DEF CallInv, TextInv, Read, None, SentIsRead, IsCall
<1>5. LinesInv' BY DEF LinesInv
<1>6. PollInv' BY DEF PollInv, Asked, ConnectInv
<1>7. OneProcess' BY DEF CallInv, ConnectInv, OneProcess, IsCall
<1>8. WaitTells' BY DEF PollInv, Asked, LinesInv, WaitTells, ConnectInv, Ended, None
<1> QED BY <1>1, <1>2, <1>3, <1>4, <1>5, <1>6, <1>7, <1>8

LEMMA ExpireKeeps ==
  ASSUME IInv, Expire
  PROVE  IInv'
<1> USE ConstantsAssumption, MaxLinesAssumption
    DEF IInv, onceVars, clientVars, netVars, serverVars, OnceOK,
        ClientOK, ServerOK, Requests, Answers, Results, Expire, ProcStep,
        ServerStep
<1>1. OnceOK' BY DEF Outcomes, None, LinesInv
<1>2. ClientOK' /\ ServerOK' BY DEF Outcomes, None, LinesInv
<1>3. CallInv' /\ ConnectInv' BY DEF CallInv, ConnectInv, None
<1>4. TextInv' /\ SentIsRead' BY DEF CallInv, TextInv, Read, None, SentIsRead, IsCall
<1>5. LinesInv' BY DEF LinesInv
<1>6. PollInv' BY DEF PollInv, Asked, ConnectInv
<1>7. OneProcess' BY DEF CallInv, ConnectInv, OneProcess, IsCall
<1>8. WaitTells' BY DEF PollInv, Asked, LinesInv, WaitTells, ConnectInv, Ended, None
<1> QED BY <1>1, <1>2, <1>3, <1>4, <1>5, <1>6, <1>7, <1>8

LEMMA InvInit == Init => IInv
<1> SUFFICES ASSUME Init PROVE IInv
  OBVIOUS
<1> USE ConstantsAssumption, MaxLinesAssumption DEF Init, OnceInit, IInv, None
<1>1. OnceOK BY DEF OnceOK, Outcomes, Requests
<1>2. <<"none", <<>>>> \in (Results \cup {"none"}) \X Seq(Nat)
  <2>1. <<>> \in Seq(Nat) OBVIOUS
  <2> QED BY <2>1
<1>3. ClientOK
  <2>1. /\ outcome \in [Callers -> Outcomes]
        /\ call \in [Callers -> Calls \cup {"none"}]
        /\ earlier \in [Callers -> SUBSET Callers]
    BY DEF Outcomes
  <2>2. /\ connected \in BOOLEAN /\ id \in BOOLEAN /\ inputClosed \in BOOLEAN
        /\ late \in BOOLEAN
    OBVIOUS
  <2>3. /\ (state = "Fulfilled") = (stored # None)
        /\ poll \in {"off", "ask", "asked", "sleep"}
        /\ (poll # "off") = (state = "Pending")
    OBVIOUS
  <2> QED BY <1>2, <2>1, <2>2, <2>3 DEF ClientOK
<1>4. ServerOK
  <2>1. <<"none", <<>>>> \in Answers \X Seq(Nat)
    <3>1. <<>> \in Seq(Nat) OBVIOUS
    <3>2. "none" \in Answers BY DEF Answers
    <3> QED BY <3>1, <3>2
  <2>2. response \in [Requests -> Answers \X Seq(Nat)] BY <2>1
  <2>3. /\ request \in [Requests -> {"none", "sent", "waiting", "answered"}]
        /\ proc = "none" /\ found \in BOOLEAN /\ closed \in BOOLEAN
    OBVIOUS
  <2>4. input \in Seq(Callers) /\ output \in Nat OBVIOUS
  <2>5. lines \in Seq(Nat) /\ Len(lines) <= MaxLines OBVIOUS
  <2> QED BY <2>2, <2>3, <2>4, <2>5 DEF ServerOK
<1>5. CallInv /\ ConnectInv /\ PollInv
  BY DEF CallInv, ConnectInv, PollInv, Asked, Requests
<1>6. TextInv /\ SentIsRead BY DEF TextInv, SentIsRead, Read, IsCall, Requests
<1>7. LinesInv /\ OneProcess /\ WaitTells
  BY DEF LinesInv, OneProcess, IsCall, WaitTells
<1> QED BY <1>1, <1>3, <1>4, <1>5, <1>6, <1>7

LEMMA InvNext == ASSUME IInv, [Next]_vars PROVE IInv'
<1>1. ASSUME NEW c \in Callers,
             \/ Connect(c) \/ SendText(c) \/ CloseInput(c) \/ Cancel(c) \/ Wait(c)
             \/ Receive(c) \/ Lost(c)
      PROVE  IInv'
  BY <1>1, ConnectKeeps, SendTextKeeps, CloseInputKeeps, CancelKeeps, WaitKeeps,
     ReceiveKeeps, LostKeeps
<1>2. ASSUME AskUnconnected \/ AskFails \/ AskLost PROVE IInv'
  BY <1>2, GiveUpKeeps DEF AskUnconnected, AskFails, AskLost
<1>3. ASSUME StillPending PROVE IInv'
  BY <1>3, GiveUpKeeps, StillPendingKeeps DEF StillPending
<1>4. ASSUME Ask \/ Wake \/ GotResult \/ Settled \/ TimePasses PROVE IInv'
  BY <1>4, AskKeeps, WakeKeeps, GotResultKeeps, SettledKeeps, TimePassesKeeps
<1>5. ASSUME NEW r \in Requests, Handle(r) PROVE IInv'
  BY <1>5, ServeNewKeeps, ServeErrorKeeps, ServeInputKeeps, ServeCloseInputKeeps,
     ServeCancelKeeps, AnswerCancelKeeps, ServeStatusKeeps DEF Handle
<1>6. ASSUME ProcWrite \/ ProcReturn \/ Expire PROVE IInv'
  BY <1>6, ProcWriteKeeps, ProcReturnKeeps, ExpireKeeps
<1>7. ASSUME UNCHANGED vars PROVE IInv'
  BY <1>7 DEF vars, onceVars, clientVars, netVars, serverVars, IInv, OnceOK, ClientOK,
     ServerOK, CallInv, ConnectInv, TextInv, Read, LinesInv, PollInv, Asked,
     OneProcess, IsCall, SentIsRead, WaitTells, Ended
<1> QED BY <1>1, <1>2, <1>3, <1>4, <1>5, <1>6, <1>7 DEF Next, Getter, Process

LEMMA Invariant == Spec => []IInv
BY InvInit, InvNext, PTL DEF Spec

-----------------------------------------------------------------------------

\* Every variable has its type, and the getter of wait is there exactly while its
\* Once is pending, and its result exactly when it is fulfilled.
THEOREM TypeCorrect == Spec => []TypeOK
<1>1. IInv => TypeOK BY DEF IInv, TypeOK
<1> QED BY <1>1, Invariant, PTL

\* A client has one process at most, and an id only if it was started (connect).
THEOREM StartsOneProcess == Spec => []OneProcess
<1>1. IInv => OneProcess BY DEF IInv
<1> QED BY <1>1, Invariant, PTL

\* What a fulfilled sendText sent was read by the process, after everything that
\* an earlier fulfilled one sent (sendText, serveInput).
THEOREM SentTextIsRead == Spec => []SentIsRead
<1>1. IInv => SentIsRead BY DEF IInv
<1> QED BY <1>1, Invariant, PTL

\* A fulfilled wait tells how the process has ended and the last lines of its
\* whole output (wait, status, FiniteBuffer).
THEOREM WaitTellsTheTruth == Spec => []WaitTells
<1>1. IInv => WaitTells BY DEF IInv
<1> QED BY <1>1, Invariant, PTL

=============================================================================
