----------------------------- MODULE OrderedMap -----------------------------
(***************************************************************************)
(* Package omap: JSON objects whose keys keep their order, and with them   *)
(* getSpecWithServer.  A text is the sequence of its tokens.  That it is   *)
(* JSON was checked by json.Unmarshal before UnmarshalJSON is called.      *)
(***************************************************************************)
EXTENDS Integers, Sequences, SequencesExt, FiniteSetsExt

CONSTANT
  Tokens  \* of JSON: punctuation, strings with their quotes, numbers

Punctuation == {"{", "}", "[", "]", ":", ","}

ASSUME TokensAssumption == Punctuation \cup {"servers", "url", "base"} \subseteq Tokens

Error == "error"

Opening == {"[", "{"}
Closing == {"]", "}"}

Count(text, i, j, tokens) == Cardinality({k \in i .. j : text[k] \in tokens})

\* The brackets from i to j are all closed.
Closed(text, i, j) == Count(text, i, j, Opening) = Count(text, i, j, Closing)

\* Where the value that starts at i ends.
ValueEnd(text, i) == Min({j \in i .. Len(text) : Closed(text, i, j)})

\* What comes after the first colon.
ParseValue(value) ==
  LET colon == Min({k \in DOMAIN value : value[k] = ":"})
  IN  SubSeq(value, colon + 1, Len(value))

\* The text is that of an object, or errWantObjectStart.
StartsObject(text) == text[1] = "{"

\* A round of the loop of UnmarshalJSON, which ends at "}".
DecodeEntry(text, d) ==
  LET end == ValueEnd(text, d.offset + 2)
  IN  IF text[d.offset] = "}" THEN d
      ELSE [offset  |-> IF text[end + 1] = "," THEN end + 2 ELSE end + 1,
            entries |-> Append(d.entries,
                               <<text[d.offset], ParseValue(SubSeq(text, d.offset + 1, end))>>)]

\* The decoder after each number of rounds.
Decoder(text) ==
  LET decoder[n \in 0 .. Len(text)] ==
        IF n = 0 THEN [offset |-> 2, entries |-> <<>>] ELSE DecodeEntry(text, decoder[n - 1])
  IN  decoder

Unmarshal(text) == Decoder(text)[Len(text)].entries

MarshalEntry(om, n) ==
  <<om[n][1], ":">> \o om[n][2] \o (IF n = Len(om) THEN <<>> ELSE <<",">>)

\* The buffer of MarshalJSON after each number of entries.
Buffer(om) ==
  LET buffer[n \in 0 .. Len(om)] ==
        IF n = 0 THEN <<"{">> ELSE buffer[n - 1] \o MarshalEntry(om, n)
  IN  buffer

Marshal(om) == Buffer(om)[Len(om)] \o <<"}">>

\* Mutant: the entry moves to the end.
SetLast(om, k, value) ==
  Append(SelectSeq(om, LAMBDA entry : entry[1] # k), <<k, value>>)

Set(om, k, value) ==
  IF \E i \in DOMAIN om : om[i][1] = k
  THEN LET first == Min({i \in DOMAIN om : om[i][1] = k})
       IN  [om EXCEPT ![first][2] = value]
  ELSE Append(om, <<k, value>>)

\* getSpecWithServer: doInit panics at an error.
SpecWithServer(spec, servers) ==
  IF StartsObject(spec) THEN Marshal(Set(Unmarshal(spec), "servers", servers)) ELSE Error

-----------------------------------------------------------------------------
(* What a JSON object is. *)

Keys == Tokens \ Punctuation

\* A value ends where its brackets are closed for the first time.
IsValue(value) ==
  /\ value \in Seq(Tokens) /\ value # <<>>
  /\ \A j \in DOMAIN value : Closed(value, 1, j) <=> j = Len(value)

IsObject(om) ==
  /\ om \in Seq(Keys \X Seq(Tokens))
  /\ \A i \in DOMAIN om : IsValue(om[i][2])
  /\ \A i, j \in DOMAIN om : om[i][1] = om[j][1] => i = j

=============================================================================
