------------------------------ MODULE MCServer ------------------------------
(* Instances of Server: short paths, and documents with up to three keys.  *)
EXTENDS Server

MCChars == {"/", ".", "a", "b", "docs", "openapi.json"} \cup Routes
MCBasePaths == SeqOf({"/", ".", "a"}, 3) \cup {<<"/", ".", ".", "/">>, <<"a", "/", "/", "b", "/">>,
                <<"/", "a", "/", ".", ".">>, <<"/", "a", "/", "b">>, <<"/", "a", "/", "b", "/">>}
MCPaths == {<<"/">> \o p : p \in SeqOf({"/", "a"}, 2)}
             \cup {<<>>, <<"/", "a", "docs">>, <<"/", "a", "/", "docs", "/">>,
                   <<"/", "a", "/", "openapi.json">>, <<"/", "b", "/", "a">>}

MCTokens == Punctuation \cup {"servers", "url", "base", "a", "b", "1"}
Values == {<<"1">>, <<"[", "]">>, <<"[", "1", ",", "[", "]", "]">>,
           <<"{", "servers", ":", "{", "b", ":", "1", "}", "}">>}
MCDocs ==
  UNION {{om \in [1 .. n -> {"a", "b", "servers"} \X Values] :
            \A i, j \in 1 .. n : i # j => om[i][1] # om[j][1]} : n \in 0 .. 3}

\* All base paths with one document, and all documents with one base path.
MCInit ==
  /\ Init
  /\ (base = <<"/">> /\ disabled = {}) \/ doc = Marshal(<<>>)

MCSpec == MCInit /\ [][Next]_vars

=============================================================================
