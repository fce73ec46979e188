------------------------------- MODULE Server -------------------------------
(***************************************************************************)
(* The server of both protocols, server.go, as a client sees it from the   *)
(* outside: which handler a request gets to, over the path cleaning of     *)
(* package clean, the check of the websocket server and the routes of the  *)
(* REST server; the API document it serves; and its Close.                 *)
(*                                                                         *)
(* A path is the sequence of its characters, of which there are few.  What *)
(* the handlers do is in the modules WsSession and RestServer.             *)
(***************************************************************************)
EXTENDS OrderedMap

CONSTANTS
  Chars,      \* the characters of paths; a name of the API is one, too
  BasePaths,  \* Options.BasePath
  Paths,      \* the paths of requests, next to those of the client
  Docs        \* openapi.json, as the object it is the text of

ASSUME ConstantsAssumption ==
  /\ {"/", ".", "a", "b", "docs", "openapi.json",
      "new", "status", "input", "closeInput", "cancel"} \subseteq Chars
  /\ BasePaths \subseteq Seq(Chars) /\ Paths \subseteq Seq(Chars)
  /\ \A om \in Docs : IsObject(om)

VARIABLES
  base,        \* Options.BasePath
  disabled,    \* DisableREST and DisableWebsocket: a subset of {"rest", "websocket"}
  doc,         \* specJSON
  initialized, \* doInit was called
  up,          \* the servers that doInit has made and nobody has closed
  closer,      \* Close: "none", "waiting", or "returned"
  closing,     \* its goroutines
  answer       \* before Close: the request served, and its handler

vars == <<base, disabled, doc, initialized, up, closer, closing, answer>>

-----------------------------------------------------------------------------
(* Package clean. *)

\* path.Clean of a path that starts with a slash: it is split at its slashes ...
Segments[p \in Seq(Chars)] ==
  IF p = <<>> THEN <<<<>>>>
  ELSE LET segments == Segments[Front(p)]
       IN  IF Last(p) = "/" THEN Append(segments, <<>>)
           ELSE Append(Front(segments), Append(Last(segments), Last(p)))

Resolve(segments, s) ==
  CASE s \in {<<>>, <<".">>} -> segments
    [] s = <<".", ".">> -> IF segments = <<>> THEN <<>> ELSE Front(segments)
    [] OTHER -> Append(segments, s)

\* ... its segments are resolved one by one ...
Resolved[segments \in Seq(Seq(Chars))] ==
  IF segments = <<>> THEN <<>> ELSE Resolve(Resolved[Front(segments)], Last(segments))

\* ... and what is left is joined again.
Join[segments \in Seq(Seq(Chars))] ==
  IF segments = <<>> THEN <<>> ELSE Join[Front(segments)] \o <<"/">> \o Last(segments)

PathClean(p) ==
  LET segments == Resolved[Segments[p]]
  IN  IF segments = <<>> THEN <<"/">> ELSE Join[segments]

Rooted(p) == IF p # <<>> /\ Head(p) = "/" THEN p ELSE <<"/">> \o p

\* Mutant: the slash of the root is put back, too.
CleanRootTwice(p) ==
  LET np == PathClean(Rooted(p))
  IN  IF Last(Rooted(p)) = "/" THEN np \o <<"/">> ELSE np

Clean(p) ==
  LET np == PathClean(Rooted(p))
  IN  IF Last(Rooted(p)) = "/" /\ np # <<"/">> THEN np \o <<"/">> ELSE np

-----------------------------------------------------------------------------
(* The REST server. *)

Methods == [new |-> "POST", status |-> "GET", input |-> "POST", closeInput |-> "POST",
            cancel |-> "POST"]

\* The name of a route, and the id, are one character each.
Routes == DOMAIN Methods
Endpoint(r, id) == IF r = "new" THEN <<r>> ELSE <<r, "/", id>>
Route(r, id) == Clean(base) \o Endpoint(r, id)

Ids == {"a", "b"}

Matches(path) == {r \in Routes : \E id \in Ids : path = Route(r, id)}
Match(path) == CHOOSE r \in Matches(path) : TRUE

DocsPath == Clean(base) \o <<"docs", "/">>
OpenAPIPath == Clean(base) \o <<"openapi.json">>

\* http.ServeMux redirects to the clean path, and to that of the docs.
Redirects(path) == path # Clean(path) \/ path \o <<"/">> = DocsPath

Mux(method, path) ==
  IF Redirects(path) THEN "redirect"
  ELSE IF Matches(path) # {} THEN
    IF method = Methods[Match(path)] THEN Match(path) ELSE "notAllowed"
  ELSE IF IsPrefix(DocsPath, path) THEN "docs"
  ELSE IF path = OpenAPIPath THEN IF method = "GET" THEN "openapi" ELSE "notAllowed"
  ELSE "notFound"

Rest(req) == IF req.upgrade THEN "notFound" ELSE Mux(req.method, req.path)

-----------------------------------------------------------------------------
(* The websocket server and the combined one. *)

EndsWithSlash(path) == path # <<>> /\ Last(path) = "/"

IsValidRequestPath(path) ==
  IsPrefix(Clean(base), IF EndsWithSlash(path) THEN path ELSE path \o <<"/">>)

\* Mutant: there is no fallback.
FallbackNone(req) == "notFound"

\* The fallback is server.rest, which is a nil pointer without REST, and no nil
\* http.Handler: to serve with it is a panic.
Fallback(req) == IF "rest" \in disabled THEN "panic" ELSE Rest(req)

\* Mutant: the path is not checked.
WebsocketAnywhere(req) == IF req.upgrade THEN "websocket" ELSE Fallback(req)

Websocket(req) ==
  IF ~IsValidRequestPath(req.path) THEN "notFound"
  ELSE IF req.upgrade THEN "websocket" ELSE Fallback(req)

Handler(req) ==
  CASE disabled = {"rest", "websocket"} -> "notFound"
    [] disabled = {"websocket"} -> Rest(req)
    [] OTHER -> Websocket(req)

Init ==
  /\ base \in BasePaths /\ disabled \in SUBSET {"rest", "websocket"}
  /\ doc \in {Marshal(om) : om \in Docs}
  /\ initialized = FALSE
  /\ up = {}
  /\ closer = "none" /\ closing = {}
  /\ answer = <<>>

DoInit ==
  /\ initialized' = TRUE
  /\ up' = IF initialized THEN up ELSE {"rest", "websocket"} \ disabled
  /\ UNCHANGED <<base, disabled, doc>>

\* Mutant: a slash is put between them in any case.
BuildURLSlash(remote, path) == remote \o <<"/">> \o path

\* #buildURL, of a client whose remote is the base with or without a slash.
BuildURL(remote, path) ==
  (IF EndsWithSlash(remote) THEN Front(remote) ELSE remote) \o <<"/">> \o path

ClientPaths(r) == {BuildURL(Clean(base), Endpoint(r, id)) : id \in Ids}

Requests ==
  [method : {"GET", "POST"}, upgrade : BOOLEAN,
   path : Paths \cup UNION {ClientPaths(r) : r \in Routes}]

\* Bound: one request, which leaves no trace here, and before Close.
ServeHTTP(req) ==
  /\ closer = "none" /\ answer = <<>>
  /\ DoInit
  /\ answer' = <<req, Handler(req)>>
  /\ UNCHANGED <<closer, closing>>

\* Close, and Shutdown, which differs in what becomes of the connections.
Close ==
  /\ closer = "none"
  /\ DoInit
  /\ closer' = "waiting"
  /\ closing' = {"rest", "websocket"}
  /\ answer' = <<>>

\* A server that was not made is nil.
ClosePart(s) ==
  /\ s \in closing
  /\ closing' = closing \ {s}
  /\ up' = up \ {s}
  /\ UNCHANGED <<base, disabled, doc, initialized, closer, answer>>

CloseWait ==
  /\ closer = "waiting" /\ closing = {}
  /\ closer' = "returned"
  /\ UNCHANGED <<base, disabled, doc, initialized, up, closing, answer>>

Next ==
  \/ \E req \in Requests : ServeHTTP(req)
  \/ Close \/ CloseWait
  \/ \E s \in {"rest", "websocket"} : ClosePart(s)

Spec == Init /\ [][Next]_vars

-----------------------------------------------------------------------------
(* Properties. *)

BaseHasSlash == Last(Clean(base)) = "/"

\* Clean gives a path that starts with a slash, has no empty, "." or ".." segment,
\* and does not change when it is cleaned again.
CleanIsClean ==
  \A p \in {base} \cup Paths :
    /\ Head(Clean(p)) = "/" /\ Clean(Clean(p)) = Clean(p)
    /\ \A s \in ToSet(Front(Tail(Segments[Clean(p)]))) : s \notin {<<>>, <<".">>, <<".", ".">>}

\* What path.go:15 says of Clean, "It always ends with a '/'".  It does so only if
\* its argument does, or is the root.
CleanEndsWithSlash == \A p \in {base} \cup Paths : Last(Clean(p)) = "/"

\* A request of the client gets to the handler it is for, exactly if REST is
\* enabled and the base path ends with a slash: without one the routes of the
\* server are glued to its last segment.
ClientReachesServer ==
  \A r \in Routes :
    answer # <<>> /\ answer[1].method = Methods[r] /\ ~answer[1].upgrade
      /\ answer[1].path \in ClientPaths(r)
    => (answer[2] = r <=> "rest" \notin disabled /\ BaseHasSlash)

Elsewhere(path) ==
  ~\E k \in 0 .. Len(path) : SubSeq(path, 1, k) \o <<"/">> = Clean(base)
                               /\ (k = Len(path) \/ path[k + 1] = "/")

\* With a base that ends with a slash no request for a path elsewhere is served,
\* and an upgrade of a path at or below it is the websocket server's.
ServesItsBase ==
  answer # <<>> /\ BaseHasSlash =>
    /\ Elsewhere(answer[1].path) => answer[2] \in {"notFound", "redirect"}
    /\ ~Elsewhere(answer[1].path) /\ answer[1].upgrade /\ "websocket" \notin disabled =>
         answer[2] = "websocket"

\* A request without upgrade to a clean path is answered as by a server without
\* websockets, unless there is no REST.
FallbackTransparent ==
  answer # <<>> /\ disabled = {} /\ ~answer[1].upgrade
    /\ answer[1].path = Clean(answer[1].path)
  => answer[2] = Rest(answer[1])

Servers == <<"[", "{", "url", ":", "base", "}", "]">>

KeysOf(om) == [i \in DOMAIN om |-> om[i][1]]

\* The API document that is served has the keys of openapi.json in their order,
\* one of them "servers" with the base; all other values are what they were.
SpecKeepsOrder ==
  LET old == Unmarshal(doc)
      new == Unmarshal(SpecWithServer(doc, Servers))
  IN  /\ Marshal(old) = doc
      /\ IsPrefix(KeysOf(old), KeysOf(new)) /\ Len(new) <= Len(old) + 1
      /\ \A i \in DOMAIN new :
           new[i][2] = IF new[i][1] = "servers" THEN Servers ELSE old[i][2]
      /\ "servers" \in ToSet(KeysOf(new))

=============================================================================
