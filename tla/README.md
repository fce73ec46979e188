# process_over_websocket in TLA+

process_over_websocket runs processes on a server for remote clients. A client
either opens a websocket, over which one process is started, fed and watched,
or it uses a REST API, in which a process has an id and every action is a
request of its own. This directory holds a model of both servers and of the
TypeScript client: TLA+ modules, TLC configurations that check them on small
instances, and theorems that TLAPS proves for all instances.

    tlc -workers 2 -config WsSignals.cfg WsSession.tla
    tlapm WsSessionProofs.tla

`PROJECT.json` lists every run, theorem and mutant, and maps every definition
to the lines of code it stands for. A mutant is a definition with a plausible
bug in it, stated in the module just before the right one; each property fails
if one of the definitions is replaced by its mutant, so no property holds by
accident of the model.

## 1. The system

| part | code | state | operations |
|---|---|---|---|
| websocket server | `internal/ws_impl/serve.go` | for each connection: the frames not read yet, the initial message, the channel `textMessages`, a pipe, a context, three goroutines | `serve`, with its message loop, its input loop and its deferred functions |
| REST session | `internal/rest_impl/session.go` | stage, result, context and its cause, a pipe, `done`, the output | `Init`, `Start`, `run`, `Write`, `CloseInput`, `CloseWith`, `Status` |
| REST server | `internal/rest_impl/serve.go` | a `Vapor` of sessions | `new`, `status`, `input`, `closeInput`, `cancel`; `Finalize`; `Close` |
| vapor | `internal/vapor/vapor.go` | `stopped`, `started`, a ttlcache of entries, each initialized once | `New`, `GetNew`, `Get`, `Evict`, `EvictAfter`, `Close`; the eviction function |
| protocol | `proto/` | none | signals, results, the `ErrCancel*` causes |
| finite buffer | `internal/finbuf/buffer.go` | the last lines of output | `Write`, `String` |
| combined server | `server.go` | which of both servers exist | `doInit`, `ServeHTTP`; `Close`, `Shutdown` |
| path cleaning, ordered map | `internal/clean`, `internal/omap` | none | pure functions |
| REST client | `client/pow_client/clients/rest.ts`, `common/once.ts` | `#id`, a `Lazy` result, `#inputClosed` | `connect`, `wait` with its polling, `sendText`, `closeInput`, `cancel`, `status` |
| websocket client | `client/pow_client/clients/websocket.ts`, `common/once.ts` | the socket, a `Lazy` result, `#inputClosed` | the same without `status`; the events of the socket, `closeStateHack` |

How they interact. Both servers look up a `proto.Process` through the same
`proto.Handler` and run it with a context, a reader and a writer. In the
websocket server the reader is a pipe that the *input loop* fills from
`textMessages`, which the *message loop* fills from the connection; the message
loop also cancels the context. In the REST server each HTTP request is a
goroutine that finds the session through vapor and works on it directly; vapor
finalizes a session in yet another goroutine when it expires, and
`Server.Close` closes all sessions.

What is hard, and what must hold:

- *Websocket.* A text passes through two goroutines, a bounded channel and a
  pipe, while signals, the end of the connection and the return of the process
  close one or the other. The process must read the texts of the client in
  order and whole, see the end of its input only when it was ended, and learn
  the right cause of a cancellation; the client must get one result, after all
  output; and the goroutines must end.
- *REST session.* Requests are concurrent with each other and with the process.
  Bodies must arrive whole, whoever closes the input must not be mistaken for
  the end of it, `CloseWith` waits for a process that needs the lock for its
  result, and what a client was once told must stay true.
- *Vapor and `Server.Close`.* Elements are made, used, evicted and expire while
  `EvictAfter` walks over a list of keys taken earlier. Nothing may be seen
  before it is initialized, nothing may remain, no process may be left running
  that nobody cancels any more, and `Close` must return.
- *Client.* JavaScript runs one callback at a time, but every `await` lets others
  in between: a `Once` that is shared by several `wait`s is settled, reset and
  joined in any order, requests are lost or answered late, a socket fails, breaks
  or gets stuck. What a `wait` tells must be the truth, and it must settle.
- *Routing.* A base path is cleaned, used as a prefix of strings by one server,
  glued to the names of routes by the other, and put together again by the
  client. These must fit.

`PROJECT.json` lists the single hazards, each with its line.

## 2. Modules

### WsSession: one connection

Three goroutines and an environment, one action per step of each.

| in the model | in `serve.go` |
|---|---|
| `sent`, `nread` | the frames of the client, and how many the message loop has received |
| `initialMessage`, `hadCancelBefore`, `pump`, `pumpMsg` | the locals of the message loop (the *pump*) and the value it is sending |
| `texts`, `taken` | all values ever sent on `textMessages`, and how many were received: the channel buffers the difference |
| `feeder`, `writerClosed`, `input` | the input loop (the *feeder*), the pipe, and what the process has read |
| `cause`, `connDone` | the cause of `ctx`; `conn.Context()` is done |
| `serve`, `result`, `out` | where `serve` is, its named results, the frames sent to the client |

A frame is one of seven kinds: a text, an empty text (whose body is nil), the
binary frames *call*, *close*, *cancel* and *garbage* (no JSON), and frames that
are neither. What a binary frame means depends on its place: the first is the
call, whatever it says. A text is known by its position in `sent`, which makes
"in order and without a gap" a property of numbers; 0 is the nil that ends the
input. A context keeps the first cause. The end of `conn.Context()` and the
cancellation of its child are two steps (`ConnEnd`, `Propagate`), because the
message loop may come between them. The timer of the call may fire at any time
before the call is read. `ConnEnd`, `Propagate`, `ClientSend` and the reads of
the process stand for code outside this repository.

### RestSession: one process of the REST server

`run` and its deferred functions are the steps of one goroutine; every HTTP
request, the expiry of the session and its part of `Server.Close` are
`Requests`, each a goroutine with the steps of its handler: `CloseWith` alone is
four (cancel, close the write end, close the read end, wait). The RWMutex is
there as far as it orders steps: `Start` and the end of `run` need `Unlocked`,
and `CloseWith` holds the read lock until both ends of the pipe are closed.
`Status` takes and gives back the lock within one step. Writers to an `io.Pipe`
first look whether it is closed, then wait for their turn, then meet a reader
for each piece of their data, or fail when the pipe is closed; a body is a
number of writes of `Pieces` pieces each, so that a write torn apart would show.
What waits for the client, the next part of a body, its end, or the end of the
connection, is `Send`, apart from the steps of the server (`Serve`). The output
is counted in lines, of which FiniteBuffer keeps the last `MaxLines`: a status
shows those, and no unfinished line. The process may read, write output, see the
end of its input, return a value or an error, or panic, at any time.

### FiniteBuffer

`Add` is `FiniteBuffer.line`, on the sequence of the lines in the buffer, with
the n-th line the number n; `LastLines(n)` says what should be in it when n lines
were written. RestSession and RestClient extend it.

### Vapor

Every call is a goroutine with the steps of its method, where another goroutine
could come between two of them. The ttlcache underneath is modelled from its use:
an element whose time is over is not found any more (`"expired"`), but stays in the map
until the background task, `DeleteExpired` or a deletion removes it, and the
removal starts a goroutine that runs the eviction function. Time is not
modelled: an element may expire whenever it is in the map. `EvictAfter` has one
goroutine for each key. `stop` holds its lock between the deletion of all
elements and the end of the background task; `start` waits for that. That
`NewID` returns an empty id or one in use is the step `NewIDFails`. `NewID`
and `Finalize` are set, as `rest_impl` sets them. `NewID` is taken not to repeat
the id of an element that has expired and is still in the map: `GetOrSet` would
replace that element, and it would never be finalized. The ids of `rest_impl`
are random.

### RestServer: sessions in vapor

Extends Vapor: `GetNew` is the request for a new process, which is started in a
later step, `Get` any other request, and `EvictAfter` followed by `Close` is
`Server.Close`. A session is reduced to its stage and to whether it is cancelled.
`Finalize` cancels only what has expired and waits for it, the `f` of
`EvictAfter` cancels and waits.

### PowProcess: what both servers promise

The abstract specification of one process: pieces of input that writers offer
and the process reads in order, an end of the input after which nothing is
read, the first cause of a cancellation, one outcome, and what clients are told
of it, which is nothing but that outcome and only when it is final. It knows
neither goroutines nor channels, pipes, locks or requests.

WsSession and RestSession define, at their end, what a client sees of their
state (`Phase`, `Offered`, `Told` and the like), and `ImplementsProcess`, which
is `PowProcess` with that put in for its variables. For a websocket there is one
writer, the client; for a REST session every request is one, so what two
requests write may come in any order, but never torn.

### Once, RestClient and WsClient: the client

`Once` is `common/once.ts`: `Do`, the two ways its function ends, and the
`finally` that empties the list of waiters, which is a callback, and so a step,
of its own. A caller is a call of a method by the program that uses the client;
several may be under way.

`RestClient` adds the methods of `rest.ts`. The getter of `wait` goes through
"ask", "asked" and "sleep". A request is sent, handled by the server at some
later time, and answered; at any time the client may learn that it failed
(`Lost`, `AskLost`), and the server may still handle it. The server is the one
of RestSession as a client sees it: each handler is the step at which it has an
effect, `cancel` is answered only when the process has ended, and a session may
expire. `lines` is the FiniteBuffer with `MaxLines` lines.

`WsClient` adds the methods and events of `websocket.ts`, in Node (in a browser
`#sendSync` does not report errors). The socket is `connecting`, `open`,
`closing`, `closed`; from `closing` it need not get any further by itself. The
server sends lines, a result and a close frame, in order, and may break off or
send something else at any time. `ws.send` calls back in a step of its own,
with an error or without, and perhaps after the socket has closed (`OnSent`);
`connect` waits for that of the call (`OnCallSent`), unless an error rejects it
first. `beforeCall` calls one method at most (`HookCalls`), and what it sends is
on the wire before the call. `getter` is the function that the Once runs:
the one of `connect`, which ends with the socket, or the one of `wait`, which is
"never reached".

### OrderedMap and Server: routing and the API document

`Server` is `server.go` with what decides where a request goes: `Clean`, on
sequences of characters, because prefixes of strings are what can go wrong; the
check of the websocket server; the routes and http.ServeMux; the fallback
between both; and the client's `#buildURL`, which must fit to them. `Close`
starts one step for each server and waits for both. The characters are a
constant, with the few that matter among them; the name of a route and an id are
one character each, which none of the properties can tell from a word. The
swagger pages are taken to be served (`DisableSwaggerUI` is not set).
`OrderedMap` has the parsing and printing of the API document, over sequences of
JSON tokens, and `getSpecWithServer`. `Docs` are objects, and `doc` is the text
of one: `json.Unmarshal` refuses what is no object before omap sees it. Both
modules are functions rather than machines: `Segments`, `Resolved` and `Join` go
from the end of a sequence, `Decoder` and `Buffer` through the rounds of their
loops, and the properties compare them with a direct definition of what they
should give.

### MC modules

`MCRestSession` and `MCVapor` add the symmetry of requests, callers and ids for
the runs that check invariants. For liveness, where symmetry is of no use,
`MCRestSession` and `MCWsClient` put requests and callers into an order instead
(`OrderedSpec`): that a request arrives is never fair, so this leaves out
only behaviours that differ from others by a permutation. `MCServer` has the
paths and documents that Server is checked with. WsSession, RestServer and
RestClient are checked as they are.

## 3. Runs

| run | instance | shows |
|---|---|---|
| `WsSignals` | 4 frames of all 7 kinds, buffer 1, 1 output frame | `InputFaithful`, `EndOfInputHonest`, `CauseHonest`, `ResultReported`, `TypeOK` |
| `WsProcesses` | 4 frames (text, call, close, cancel), buffer 1 | `CancelledWindsDown`, `InputEndWindsDown`, `TextsArrive` |
| `RestSessionRequests` | 3 requests of all 6 kinds, 2 writes of 2 pieces, 2 lines and a buffer of 1 | `InputWhole`, `EndHonest`, `StatusHonest`, `SettledStays`, `TypeOK`, no deadlock |
| `RestSessionProcesses` | 3 requests of all 6 kinds | `ClosersAnswered`, `InputReleased`, `ReaderFinishes` |
| `VaporCalls` | 4 callers of all 6 operations, 2 elements | `InitializedFirst`, `EvictAfterLeavesNothing`, `TypeOK` |
| `RestServer` | 3 callers of new and `Server.Close`, 2 sessions | `DeletedHasEnded`, `CloseAccountsForAll`, `SessionsEnd`, `CloseReturns`, no deadlock |
| `RestClient` | 3 calls of all 5 methods, 2 of 3 lines kept | `OneProcess`, `SentIsRead`, `WaitTells`, `WaitSettles`, `TypeOK` |
| `WsClient` | 3 calls of all 5 methods, nothing, `sendText`, `closeInput` or `cancel` in `beforeCall`, 1 line | `WaitTells`, `WireInOrder`, `ConnectSettles`, `WaitSettles`, `TypeOK` |
| `Server` | 45 base paths of up to 5 characters, 4 choices of servers, requests to all URLs of the client and 12 others; 493 documents | `CleanIsClean`, `ClientReachesServer`, `ServesItsBase`, `FallbackTransparent`, `SpecKeepsOrder` |

`WsSignals` and `RestSessionRequests` also check `ImplementsProcess`.

`VaporCalls`, the runs of WsSession, of the clients and of Server do not check
for deadlock; the others do. The runs of WsSession contain the situation of the
first finding below, in which the code stops although it is not done; in
`VaporCalls`, after a `Close` without `EvictAfter`, nothing removes an expired
element any more; and a client whose calls are all made, or a server that is
closed, has nothing left to do.

*Bounds.* The second cancel, which behaves unlike the first, needs three frames
(call, cancel, cancel), and a fourth can come before or after them. A buffer of
one is full with one text; with the text the feeder writes and the one the pump
cannot send, three texts and the call are a connection on which every goroutine
waits. Three requests are enough for one that blocks, one that closes and one
that asks, or for two writers and a closer; two writes of two pieces distinguish
the end of a write from the end of a body. Two elements and four callers let two
`EvictAfter`s, or one and a `Close`, meet a new element and an old one.
`MaxNewIDCalls` is 1: a loop that may give up at once has all outcomes.
`MaxOutput`, `MaxFrames`, `MaxWrites`, `MaxElements` and the sets of requests
and callers bound the environment; `MessageBufferSize` and `MaxNewIDCalls` are
constants of the code. Three calls of a client are a `connect` and two others,
or three `wait`s that join, fail and join again, which is what it takes to lose
one. A buffer of two lines for three, or of one line for two, is full and
overwritten once. The websocket client never looks at the status of a result, so
one (`Verdicts`) stands for both. Base paths have up to two segments, with every
way to write `.`, `..` and double slashes in up to three characters, and
documents up to three keys with values that are flat, nested, and contain the
key that is looked for.

*Fairness.* Every goroutine that can move is run (Go's scheduler), a timer
fires, a closing handshake ends, and a mutex is given to whoever waits for it:
weak fairness of each goroutine (`ServerFairness`). Of clients and processes
only what the property itself says is assumed, as the antecedent of an
implication. A client may stop in the middle of a request body, and keep its
handler waiting for ever; only `InputReleased` assumes that clients go on
sending or go away (`SendingClients`). A `CancellableProcess` returns once its
context is cancelled, a `ReadingProcess` reads until the end of its input and
then returns, like the echo process of `cmd/exampleserver`. In RestServer
(`CancellableSpec`) processes return when cancelled, and a session expires in
the end if nothing else happens to it, since nobody extends its time for ever.
Of a client: a callback or timer that is due is run, and time passes.
`RestClient` assumes that a status is answered in the end, or the request fails,
since axios has no timeout here; `WsClient` that a connection opens or fails,
and that a socket calls back for what it was given to send, but nothing of its
closing.

### Where the code does not do what it says

Each of these runs ends in a counterexample; `PROJECT.json` has the quotations.

- `WsLeak` (`WaitEnds`): a client that sends more texts than the channel holds
  without ever starting a process, or whose call fails, leaves the message loop
  blocked on `textMessages`, where it does not see the end of the connection;
  `serve` then waits for it for ever. For the same reason a cancel signal behind
  texts that the process does not read is not received while the connection lasts.
- `RestSessionEOF` (`ClosedInputIsEOF`): `CloseInput` closes both ends of the
  pipe, so the process reads `io.ErrClosedPipe` in place of the end of its
  input; a process that reports errors of its reads is then rejected.
- `CleanSlash` (`CleanEndsWithSlash`): the comment of `Clean` says that its result
  always ends with a slash; it does only if the argument did. With a base path
  without one, client and server do not fit (`ClientReachesServer`).

Other places where code and words differ are part of properties that hold:

- `server.Close` of REST does not wait for sessions that have just expired,
  though the comment in line 300 says so: `CloseAccountsForAll` says that those
  are the only ones.
- Without REST the fallback of the websocket server is a nil pointer in a
  non-nil interface, and a plain HTTP request is a panic (`Fallback`).
- A `Once` that was rejected rejects and runs its function again, and a call that
  joins between the rejection and its `finally` is never settled: the antecedent
  `reason = "none"` of both `WaitSettles`.
- `wait` of the websocket client does not look at `#connected`
  (`websocket.ts:131`): before `connect` it is told "never reached" (`NeverReached`),
  where `types.ts:112` promises `errNotConnected`.
- `connect` of the websocket client never settles if its URL is invalid, or if a
  `wait` before it is still being rejected, since no socket is made then: the
  antecedent of `ConnectSettles`.
- A `cancel` or `closeInput` in `beforeCall` is the first binary message, which the
  server takes for the call (`websocket.ts:59-63`). No doc says what `beforeCall`
  may do; `WireInOrder` says that nothing but its message comes before the call.

Two more places are worth knowing and listed among the hazards. The cause of a
process's context may be that of the connection's context, or the unexported
`errServerClose`, though `proto/handler.go:43` speaks of the `ErrCancel*` errors
only. And an element that `New` makes while `Close` runs may be left in a cache
without its background task; the REST server, which calls `EvictAfter` first, is
not concerned.

## 4. Theorems

All are proved for every value of the constants: any buffer size (at least 1),
any set of frame kinds, any number of frames, requests, writes, pieces, lines,
callers, ids and elements, any buffer of lines (at least 1), any base path,
request path and API document. The assumptions are the `ConstantsAssumption`s of
the modules, `MaxLinesAssumption`, `TokensAssumption` (the punctuation of JSON and
the three words of `Servers` are tokens), `HookCallsAssumption` and
`VerdictsAssumption` (what `beforeCall` may call, and what results there are), and
`ServerCalls`.

`WsSessionProofs`: `TypeCorrect`, `CauseIsHonest`, `InputIsFaithful`,
`EndOfInputIsHonest`, `ResultIsReported`, `ConnectionIsProcess`.
`RestSessionProofs`: `TypeCorrect`, `InputIsWhole`, `EndIsHonest`,
`StatusIsHonest`, `SettledIsFinal`, `SessionIsProcess`. `VaporProofs`:
`TypeCorrect`, `ElementsInitializedFirst`, `EvictAfterEvicts`.
`RestServerProofs`: `DeletedSessionsHaveEnded`, `CloseAccountsForSessions`.
`WsClientProofs`: `TypeCorrect`, `WaitTellsTheTruth`, `WireIsInOrder`.
`RestClientProofs`: `TypeCorrect`, `StartsOneProcess`, `SentTextIsRead`,
`WaitTellsTheTruth`. `OrderedMapProofs`: `RoundTrip`. `ServerProofs`:
`CleanPathsAreClean`, `ClientRequestsReachServer`, `ServerServesItsBase`,
`FallbackIsTransparent`, `DocumentIsKept`.

The safety properties are not inductive. `InputFaithful`, for instance, speaks
of what the process has read, and a step of the feeder keeps it only if what
is in the channel is in order already. The invariant `IInv` of WsSessionProofs
follows a text on its way:

- `PumpInv`: the pump knows the first binary frame, and whether there was a
  cancel, among the frames it has received;
- `TextsInv`: the log of the channel has every text received so far
  (`LogComplete`), in order (`LogOrdered`), and a nil behind every frame that
  ends the input (`EndsFlagged`) and behind nothing else (`FlagsHonest`);
- `FeederInv`: what the process has read is a beginning of that log, without a
  nil, and complete when the pipe was closed while the process runs;
- `CauseInv`: nobody but the end of `serve` gives the cause
  `ErrCancelHandlerReturn`.

Lemmas say what the pump leaves alone and what everyone else leaves alone, so
that each part of the invariant is proved against the actions that matter to it.
`ResultReported` needs its own small invariant `ReportInv` on the frames sent.

In RestSessionProofs, `IInv` ties the stage to the place of `run`
(`StageInv`), each handler to its kind (`PlaceInv`), the input that was read to
the pieces the requests have moved (`MovedInv`, `ReadInv`, `WriteInv`,
`CopiedInv`), the end of the input to a cause (`EndInv`), the lines in the buffer to the
number of lines written (`LinesInv`), and answers to the end of the process
(`AnswerInv`). The arithmetic core is `WholeWrites`: a body
is a multiple of the size of a write, so a write that is not over is not the
end of the body.

In VaporProofs, `IInv` says where a caller can be and with what (`PlaceInv`),
that an element to return was initialized (`AnswerInv`) and made by one caller
only (`FreshInv`), and follows `EvictAfter` through its steps (`EvictInv`): as
long as its goroutines work, an element that can be found is the matter of one
of them, since `Mark` keeps new ones out and `Keys` has seen all others; after
`Wait` there is none left, and after `DeleteExpired` nothing at all.
RestServerProofs adds the sessions: a deletion comes after the process ended
(`DeletedHasEnded`, inductive by itself once `Close` finds the map empty,
`ClosedInv`), and `Finalize` of an expired session waits for it (`ReasonInv`).
It assumes of `Calls` what `ServerCalls` says: that the server never calls
`New`, `Evict`, or `Close` without `EvictAfter`.

In WsClientProofs the argument is about what is on its way (`FlowInv`): of the
frames not received yet the first `written - shown` are the lines that were not
shown, a result among them is the server's, and a close frame is the last. So
when the close frame is received all lines were shown (`ClosingInv`), and
`onclose` finds the result there is. `SocketInv` says that there is one socket
at most, and that an open one has sent the call already; `HookKeeps` that this
call comes first or behind the one message of `beforeCall`, and `CloseSentInv`
that whoever sends a close has closed the input. In RestClientProofs,
`ConnectInv` ties the one request of the first `connect` to the process,
`TextInv` every successful `sendText` to what was read, `LinesInv` the lines in
the buffer to the number of lines written (`FullBuffer` is its arithmetic), and
`PollInv` an answer that is on its way, perhaps for long, to the end of the
process, after which neither the result nor the lines change.

`ConnectionIsProcess` and `SessionIsProcess`, at the end of WsSessionProofs and
RestSessionProofs, say that both sessions implement PowProcess. The invariants above are
what the refinement needs: a step of the feeder reads *the next* piece because
the log is ordered, and a status tells *the* outcome because `AnswerInv` holds.
Every action is shown to be one step of PowProcess or to leave what a client
sees alone; several of them are both, depending on the state (a cancellation
that is not the first one changes nothing).

The theorems of Server and OrderedMap need induction on numbers and on the
length of a sequence, and the induction theorems of the library take a predicate
as a parameter, which the provers cannot instantiate. So `NatInductionSet` and
`SeqInductionSet` state induction over a *set* that contains 0, or `<<>>`, and is
closed under the successor, or under `Append`; they follow from the least element
of a set of numbers, which follows from its order being well-founded. A recursive
function is a CHOOSE, so that it satisfies its own equation is a theorem too:
`SeqRecursion` builds, for any first value and step, a function on sequences that
does, out of the finite ones that do (`SegmentsEquation`, `ResolvedEquation`,
`JoinEquation`; `BufferEquation` and `DecoderEquation` likewise).

In OrderedMapProofs, `EntryAt` says where an entry is found in the text that is
written, `ValueEndIs` that the brackets of a value are closed at its end and not
before (`CountShift` counts them in the text and in the value alike), and
`DecoderIs` that after each round of the loop the decoder stands behind the
entries it has read. `RoundTrip` follows, and with `SetIs`, which says that `Set`
changes one value or adds one key at the end, `DocumentIsKept`.

In ServerProofs, `ResolvedType` says that what path.Clean leaves are segments that
need no resolving, `ResolvedNormal` that such segments stay as they are, and
`SegmentsOfJoin` that a path is split into what it was joined of; so a clean path
is joined segments, perhaps with a slash (`CleanForm`), and stays as it is
(`CleanJoin`, `CleanDir`). The client's URL is below the base in both cases
(`ClientPathIs`), and is a route if the base ends with a slash (`RouteIsFound`).
If not, it has a slash where every route has its name (`RouteIsMissed`). That a
path has the base as a prefix and that it is at or below it is the same
(`PrefixIsNotElsewhere`, `NotElsewhereIsValid`) up to slashes at the end, which
is where the two servers could differ. The invariant `ServerInv` says only that
options do not change and that the answer is the handler's.

Only checked by TLC are the liveness properties: fairness and ENABLED are beyond
the prover.

## 5. Not modelled

- JSON, HTTP and the websocket protocol itself, headers, and the messages as
  the client parses them (`isResult`, `isStatus`): a message is what it says.
- What `Close` and `Shutdown` of the combined server do with connections inside
  websocketx: Server has the two steps and that both are waited for.
- `Session.Wait` and `Session.Stage`, which nothing calls and which only read.
- The goroutine in which vapor starts the cache: its `Stop` may come first, but
  what happens then is inside ttlcache.
- The request that `run` hands to the handler after its HTTP handler returned:
  what is still valid of it is up to net/http.
- In the client: more than one call inside `beforeCall`, or one that is not
  `sendText`, `closeInput` or `cancel`; the socket of a browser, where `#sendSync`
  reports no errors; and that the promise `Get` returns to `connect` is awaited
  by nobody, so that Node reports its rejection as unhandled.
- An unfinished last line of output, which no status shows.
- `cmd/`: the processes of the example server appear as the antecedents
  `CancellableProcess` and `ReadingProcess`; its flags and logging do not.

## 6. Plan

1. RestClient composed with RestSession in place of the server it has inside,
   and both clients shown to implement PowProcess too.
2. Messages as both ends read them: results as `proto` writes them against
   `isResult` and `isStatus`.
