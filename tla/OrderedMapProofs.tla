-------------------------- MODULE OrderedMapProofs --------------------------
(***************************************************************************)
(* Theorems about package omap (module OrderedMap): an object that is      *)
(* written as text is read as it was, and Set changes one key.  They hold  *)
(* for every object, however long it is and however deep its values are.   *)
(*                                                                         *)
(* Induction takes a set of numbers in place of a predicate, and that the  *)
(* recursive functions satisfy their equations is proved first.            *)
(***************************************************************************)
EXTENDS OrderedMap, WellFoundedInduction, SequenceTheorems, FiniteSetTheorems, TLAPS

\* Every set of numbers has a least one.
LEMMA NatLeast ==
  ASSUME NEW T \in SUBSET Nat, T # {}
  PROVE  \E m \in T : \A k \in T : m <= k
<1> DEFINE Less == {ss \in Nat \X Nat : ss[1] < ss[2]}
<1>1. IsWellFoundedOn(Less, Nat)
  BY NatLessThanWellFounded DEF OpToRel
<1>2. PICK m \in T : \A k \in T : <<k, m>> \notin Less
  <2> HIDE DEF Less
  <2> QED
    BY <1>1, WFMin
<1>3. ASSUME NEW k \in T PROVE m <= k
  <2>1. <<k, m>> \in Nat \X Nat /\ <<k, m>> \notin Less
    BY <1>2
  <2>2. ~(<<k, m>>[1] < <<k, m>>[2])
    BY <2>1
  <2>3. k \in Nat /\ m \in Nat
    OBVIOUS
  <2>4. QED
    BY <2>2, <2>3
<1>4. QED
  BY <1>3

\* Induction, over a set instead of a predicate.
LEMMA NatInductionSet ==
  ASSUME NEW Q, 0 \in Q, \A n \in Nat : n \in Q => n + 1 \in Q
  PROVE  \A n \in Nat : n \in Q
<1> SUFFICES ASSUME NEW n \in Nat, n \notin Q PROVE FALSE
  OBVIOUS
<1>1. PICK m \in Nat \ Q : \A k \in Nat \ Q : m <= k
  BY NatLeast
<1>2. m # 0 /\ m - 1 \in Nat /\ m - 1 \in Q
  BY <1>1
<1>3. QED
  BY <1>1, <1>2

\* The least element is the one that Min chooses.
LEMMA MinIs ==
  ASSUME NEW T \in SUBSET Int, NEW m \in T, \A k \in T : m <= k
  PROVE  Min(T) = m
<1>1. Min(T) \in T /\ Min(T) <= m
  BY DEF Min
<1>2. Min(T) \in Int /\ m <= Min(T)
  BY <1>1
<1>3. QED
  BY <1>1, <1>2

-----------------------------------------------------------------------------
(* Sequences. *)

LEMMA Single ==
  ASSUME NEW S, NEW a \in S
  PROVE  <<a>> \in Seq(S) /\ Len(<<a>>) = 1 /\ <<a>>[1] = a
OBVIOUS

LEMMA Pair ==
  ASSUME NEW S, NEW a \in S, NEW b \in S
  PROVE  <<a, b>> \in Seq(S) /\ Len(<<a, b>>) = 2 /\ <<a, b>>[1] = a /\ <<a, b>>[2] = b
OBVIOUS

LEMMA Empty ==
  ASSUME NEW S
  PROVE  <<>> \in Seq(S) /\ Len(<<>>) = 0
BY EmptySeq

LEMMA Length ==
  ASSUME NEW S, NEW s \in Seq(S)
  PROVE  Len(s) \in Nat /\ DOMAIN s = 1 .. Len(s)
OBVIOUS

LEMMA Concat ==
  ASSUME NEW S, NEW s \in Seq(S), NEW t \in Seq(S)
  PROVE  /\ s \o t \in Seq(S)
         /\ Len(s \o t) = Len(s) + Len(t)
         /\ \A i \in 1 .. Len(s) : (s \o t)[i] = s[i]
         /\ \A i \in 1 .. Len(t) : (s \o t)[Len(s) + i] = t[i]
<1>1. \A i \in 1 .. Len(t) : (s \o t)[Len(s) + i] = t[i]
  OBVIOUS
<1>2. QED
  BY <1>1

LEMMA SubSeqAppend ==
  ASSUME NEW S, NEW s \in Seq(S), NEW k \in Nat, k + 1 \in 1 .. Len(s)
  PROVE  Append(SubSeq(s, 1, k), s[k + 1]) = SubSeq(s, 1, k + 1)
OBVIOUS

-----------------------------------------------------------------------------
(* Recursive definitions satisfy their equations. *)

LEMMA BufferEquation ==
  ASSUME NEW om, Len(om) \in Nat
  PROVE  /\ Buffer(om)[0] = <<"{">>
         /\ \A n \in 1 .. Len(om) : Buffer(om)[n] = Buffer(om)[n - 1] \o MarshalEntry(om, n)
<1> DEFINE Rec(g, n) ==
             g = [k \in 0 .. n |-> IF k = 0 THEN <<"{">> ELSE g[k - 1] \o MarshalEntry(om, k)]
           Q == {n \in Nat : \E g : Rec(g, n)}
<1>1. 0 \in Q
  <2>1. Rec([k \in 0 .. 0 |-> <<"{">>], 0)
    OBVIOUS
  <2>2. QED
    BY <2>1
<1>2. ASSUME NEW n \in Nat, n \in Q PROVE n + 1 \in Q
  <2>1. PICK g : Rec(g, n)
    BY <1>2
  <2> DEFINE h == [k \in 0 .. n + 1 |-> IF k = 0 THEN <<"{">>
                                         ELSE g[k - 1] \o MarshalEntry(om, k)]
  <2>2. ASSUME NEW j \in 0 .. n PROVE h[j] = g[j]
    <3>1. g[j] = IF j = 0 THEN <<"{">> ELSE g[j - 1] \o MarshalEntry(om, j)
      BY <2>1
    <3>2. h[j] = IF j = 0 THEN <<"{">> ELSE g[j - 1] \o MarshalEntry(om, j)
      BY j \in 0 .. n + 1
    <3>3. QED
      BY <3>1, <3>2
  <2>3. Rec(h, n + 1)
    <3>1. ASSUME NEW k \in 0 .. n + 1, k # 0 PROVE g[k - 1] = h[k - 1]
      <4>1. k - 1 \in 0 .. n
        BY <3>1
      <4> HIDE DEF h
      <4>2. QED
        BY <4>1, <2>2
    <3>2. h = [k \in 0 .. n + 1 |-> IF k = 0 THEN <<"{">> ELSE h[k - 1] \o MarshalEntry(om, k)]
      BY <3>1
    <3>3. QED
      BY <3>2
  <2>4. QED
    <3> HIDE DEF Rec, h
    <3> QED
      BY <2>3
<1>3. PICK g : Rec(g, Len(om))
  <2> HIDE DEF Q
  <2>1. Len(om) \in Q
    BY <1>1, <1>2, NatInductionSet
  <2>2. QED
    BY <2>1 DEF Q
<1>4. Rec(Buffer(om), Len(om))
  BY <1>3 DEF Buffer
<1>5. ASSUME NEW n \in 0 .. Len(om)
      PROVE  Buffer(om)[n] = IF n = 0 THEN <<"{">> ELSE Buffer(om)[n - 1] \o MarshalEntry(om, n)
  <2> DEFINE B == Buffer(om)
  <2>1. Rec(B, Len(om))
    BY <1>4
  <2> HIDE DEF B
  <2>2. B[n] = IF n = 0 THEN <<"{">> ELSE B[n - 1] \o MarshalEntry(om, n)
    BY <2>1
  <2>3. QED
    BY <2>2 DEF B
<1>6. Buffer(om)[0] = <<"{">>
  <2>1. 0 \in 0 .. Len(om)
    OBVIOUS
  <2>2. QED
    BY <1>5, <2>1
<1>7. ASSUME NEW n \in 1 .. Len(om)
      PROVE  Buffer(om)[n] = Buffer(om)[n - 1] \o MarshalEntry(om, n)
  <2>1. n \in 0 .. Len(om) /\ n # 0
    OBVIOUS
  <2>2. QED
    BY <1>5, <2>1
<1>8. QED
  BY <1>6, <1>7

LEMMA DecoderEquation ==
  ASSUME NEW text, Len(text) \in Nat
  PROVE  /\ Decoder(text)[0] = [offset |-> 2, entries |-> <<>>]
         /\ \A n \in 1 .. Len(text) : Decoder(text)[n] = DecodeEntry(text, Decoder(text)[n - 1])
<1> DEFINE First == [offset |-> 2, entries |-> <<>>]
           Rec(g, n) == g = [k \in 0 .. n |-> IF k = 0 THEN First ELSE DecodeEntry(text, g[k - 1])]
           Q == {n \in Nat : \E g : Rec(g, n)}
<1>1. 0 \in Q
  <2>1. Rec([k \in 0 .. 0 |-> First], 0)
    OBVIOUS
  <2>2. QED
    BY <2>1
<1>2. ASSUME NEW n \in Nat, n \in Q PROVE n + 1 \in Q
  <2>1. PICK g : Rec(g, n)
    BY <1>2
  <2> DEFINE h == [k \in 0 .. n + 1 |-> IF k = 0 THEN First ELSE DecodeEntry(text, g[k - 1])]
  <2>2. ASSUME NEW j \in 0 .. n PROVE h[j] = g[j]
    <3>1. g[j] = IF j = 0 THEN First ELSE DecodeEntry(text, g[j - 1])
      BY <2>1
    <3>2. h[j] = IF j = 0 THEN First ELSE DecodeEntry(text, g[j - 1])
      BY j \in 0 .. n + 1
    <3>3. QED
      BY <3>1, <3>2
  <2>3. Rec(h, n + 1)
    <3>1. ASSUME NEW k \in 0 .. n + 1, k # 0 PROVE g[k - 1] = h[k - 1]
      <4>1. k - 1 \in 0 .. n
        BY <3>1
      <4> HIDE DEF h
      <4>2. QED
        BY <4>1, <2>2
    <3>2. h = [k \in 0 .. n + 1 |-> IF k = 0 THEN First ELSE DecodeEntry(text, h[k - 1])]
      BY <3>1
    <3>3. QED
      BY <3>2
  <2>4. QED
    <3> HIDE DEF Rec, h
    <3> QED
      BY <2>3
<1>3. PICK g : Rec(g, Len(text))
  <2> HIDE DEF Q
  <2>1. Len(text) \in Q
    BY <1>1, <1>2, NatInductionSet
  <2>2. QED
    BY <2>1 DEF Q
<1>4. Rec(Decoder(text), Len(text))
  BY <1>3 DEF Decoder
<1>5. QED
  BY <1>4

-----------------------------------------------------------------------------
(* The text that MarshalJSON writes. *)

LEMMA TokenTypes ==
  /\ Keys \subseteq Tokens
  /\ ":" \in Tokens /\ "," \in Tokens /\ "{" \in Tokens /\ "}" \in Tokens
BY TokensAssumption DEF Punctuation, Keys

\* What an entry adds is its key, a colon, its value, and a comma but for the last.
LEMMA MarshalEntryIs ==
  ASSUME NEW om \in Seq(Keys \X Seq(Tokens)), NEW n \in 1 .. Len(om)
  PROVE  LET e == MarshalEntry(om, n)
             v == om[n][2]
         IN  /\ e \in Seq(Tokens) /\ v \in Seq(Tokens)
             /\ Len(e) = IF n = Len(om) THEN Len(v) + 2 ELSE Len(v) + 3
             /\ e[1] = om[n][1] /\ e[2] = ":"
             /\ \A j \in 1 .. Len(v) : e[j + 2] = v[j]
             /\ n # Len(om) => e[Len(v) + 3] = ","
<1> DEFINE k == om[n][1]
           v == om[n][2]
           last == IF n = Len(om) THEN <<>> ELSE <<",">>
<1>1. k \in Tokens /\ v \in Seq(Tokens)
  <2>1. om[n] \in Keys \X Seq(Tokens)
    OBVIOUS
  <2>2. k \in Keys /\ v \in Seq(Tokens)
    BY <2>1
  <2>3. QED
    BY <2>2, TokenTypes
<1>2. last \in Seq(Tokens) /\ Len(last) = IF n = Len(om) THEN 0 ELSE 1
  BY TokenTypes, Single, Empty
<1>3. n # Len(om) => last[1] = ","
  OBVIOUS
<1>4. MarshalEntry(om, n) = (<<k, ":">> \o v) \o last
  BY DEF MarshalEntry
<1> HIDE DEF k, v, last
<1>5. /\ <<k, ":">> \in Seq(Tokens)
      /\ Len(<<k, ":">>) = 2 /\ <<k, ":">>[1] = k /\ <<k, ":">>[2] = ":"
  BY <1>1, TokenTypes, Pair
<1> DEFINE kc == <<k, ":">>
<1> HIDE DEF kc
<1>6. /\ kc \in Seq(Tokens)
      /\ Len(kc) = 2 /\ kc[1] = k /\ kc[2] = ":"
  BY <1>5 DEF kc
<1> DEFINE kv == kc \o v
<1> HIDE DEF kv
<1>7. /\ kv \in Seq(Tokens)
      /\ Len(kv) = Len(v) + 2 /\ Len(v) \in Nat
      /\ kv[1] = k /\ kv[2] = ":"
      /\ \A j \in 1 .. Len(v) : kv[j + 2] = v[j]
  <2>0. kc \in Seq(Tokens) /\ v \in Seq(Tokens)
    BY <1>1, <1>6
  <2>1. /\ kv \in Seq(Tokens) /\ Len(kv) = Len(kc) + Len(v)
        /\ \A i \in 1 .. Len(kc) : kv[i] = kc[i]
        /\ \A i \in 1 .. Len(v) : kv[Len(kc) + i] = v[i]
    <3>1. kc \o v \in Seq(Tokens) /\ Len(kc \o v) = Len(kc) + Len(v)
      BY <2>0
    <3>2. \A i \in 1 .. Len(kc) : (kc \o v)[i] = kc[i]
      BY <2>0
    <3>3. \A i \in 1 .. Len(v) : (kc \o v)[Len(kc) + i] = v[i]
      BY <2>0
    <3>4. QED
      BY <3>1, <3>2, <3>3 DEF kv
  <2>2. QED
    BY <1>1, <1>6, <2>1, Length
<1>8. MarshalEntry(om, n) = kv \o last
  BY <1>4 DEF kv, kc
<1> DEFINE e == kv \o last
<1>9. /\ e \in Seq(Tokens)
      /\ Len(e) = Len(kv) + Len(last)
      /\ \A i \in 1 .. Len(kv) : e[i] = kv[i]
      /\ \A i \in 1 .. Len(last) : e[Len(kv) + i] = last[i]
  <2>1. kv \in Seq(Tokens) /\ last \in Seq(Tokens)
    BY <1>2, <1>7
  <2> HIDE DEF last
  <2>2. e \in Seq(Tokens) /\ Len(e) = Len(kv) + Len(last)
    BY <2>1
  <2>3. \A i \in 1 .. Len(kv) : e[i] = kv[i]
    BY <2>1
  <2>4. \A i \in 1 .. Len(last) : e[Len(kv) + i] = last[i]
    BY <2>1
  <2>5. QED
    BY <2>2, <2>3, <2>4
<1>10. Len(v) \in Nat
  BY <1>1, Length
<1> HIDE DEF e
<1>11. /\ Len(e) = IF n = Len(om) THEN Len(v) + 2 ELSE Len(v) + 3
       /\ e[1] = k /\ e[2] = ":"
       /\ \A j \in 1 .. Len(v) : e[j + 2] = v[j]
  BY <1>2, <1>7, <1>9, <1>10, SMTT(60)
<1>12. n # Len(om) => e[Len(v) + 3] = ","
  <2> SUFFICES ASSUME n # Len(om) PROVE e[Len(v) + 3] = ","
    OBVIOUS
  <2>1. Len(last) = 1 /\ last[1] = ","
    BY <1>2, <1>3
  <2>2. e[Len(kv) + 1] = last[1]
    <3>1. 1 \in 1 .. Len(last)
      <4>1. Len(last) = 1
        BY <2>1
      <4>2. 1 \in 1 .. 1
        OBVIOUS
      <4>3. QED
        BY ONLY <4>1, <4>2
    <3>2. QED
      BY <3>1, <1>9
  <2>3. Len(kv) + 1 = Len(v) + 3
    BY <1>7
  <2>4. QED
    BY <2>1, <2>2, <2>3
<1>13. QED
  BY <1>1, <1>8, <1>9, <1>11, <1>12 DEF k, v, e

LEMMA BufferType ==
  ASSUME NEW om \in Seq(Keys \X Seq(Tokens)), NEW n \in 0 .. Len(om)
  PROVE  Buffer(om)[n] \in Seq(Tokens) /\ Len(Buffer(om)[n]) > n
<1> DEFINE Q == {k \in Nat : k <= Len(om) =>
                               Buffer(om)[k] \in Seq(Tokens) /\ Len(Buffer(om)[k]) > k}
<1>0. Len(om) \in Nat
  OBVIOUS
<1>1. 0 \in Q
  <2> DEFINE t == <<"{">>
  <2>1. Buffer(om)[0] = t
    BY <1>0, BufferEquation
  <2>2. t \in Seq(Tokens) /\ Len(t) = 1
    BY TokenTypes, Single
  <2> HIDE DEF t
  <2>3. Buffer(om)[0] \in Seq(Tokens) /\ Len(Buffer(om)[0]) > 0
    BY <2>1, <2>2
  <2>4. QED
    BY <2>3
<1>2. ASSUME NEW k \in Nat, k \in Q PROVE k + 1 \in Q
  <2> SUFFICES ASSUME k + 1 <= Len(om)
               PROVE  /\ Buffer(om)[k + 1] \in Seq(Tokens)
                      /\ Len(Buffer(om)[k + 1]) > k + 1
    OBVIOUS
  <2> DEFINE b == Buffer(om)[k]
  <2>1. b \in Seq(Tokens) /\ Len(b) > k
    BY <1>2
  <2>2. Buffer(om)[k + 1] = b \o MarshalEntry(om, k + 1)
    <3>1. k + 1 \in 1 .. Len(om) /\ (k + 1) - 1 = k
      BY <1>0
    <3>2. QED
      BY <1>0, <3>1, BufferEquation
  <2>3. MarshalEntry(om, k + 1) \in Seq(Tokens) /\ Len(MarshalEntry(om, k + 1)) >= 2
    <3>1. k + 1 \in 1 .. Len(om)
      BY <1>0
    <3> DEFINE e == MarshalEntry(om, k + 1)
               v == om[k + 1][2]
    <3>2. /\ e \in Seq(Tokens) /\ v \in Seq(Tokens)
          /\ Len(e) = IF k + 1 = Len(om) THEN Len(v) + 2 ELSE Len(v) + 3
      BY <3>1, MarshalEntryIs
    <3> HIDE DEF e, v
    <3>3. Len(v) \in Nat
      BY <3>2, Length
    <3>4. QED
      BY <3>2, <3>3 DEF e
  <2>4. QED
    <3> HIDE DEF b
    <3> QED
      BY <2>1, <2>2, <2>3
<1>3. QED
  <2> HIDE DEF Q
  <2>1. \A k \in Nat : k \in Q
    BY <1>1, <1>2, NatInductionSet
  <2>2. QED
    BY <1>0, <2>1 DEF Q

\* A buffer begins with every earlier one.
LEMMA BufferGrows ==
  ASSUME NEW om \in Seq(Keys \X Seq(Tokens)), NEW k \in 0 .. Len(om), NEW n \in k .. Len(om)
  PROVE  /\ Len(Buffer(om)[k]) <= Len(Buffer(om)[n])
         /\ \A i \in 1 .. Len(Buffer(om)[k]) : Buffer(om)[n][i] = Buffer(om)[k][i]
<1> DEFINE B(m) == Buffer(om)[m]
           Grown(m) == Len(B(k)) <= Len(B(m)) /\ \A i \in 1 .. Len(B(k)) : B(m)[i] = B(k)[i]
           Q == {d \in Nat : k + d <= Len(om) => Grown(k + d)}
<1>0. Len(om) \in Nat /\ k \in Nat /\ n \in Nat /\ k <= n /\ n <= Len(om)
  BY Length
<1>1. \A m \in 0 .. Len(om) : B(m) \in Seq(Tokens) /\ Len(B(m)) \in Nat
  BY BufferType, Length
<1>2. 0 \in Q
  <2>1. k + 0 = k
    BY <1>0
  <2>2. Grown(k)
    BY <1>0, <1>1
  <2>3. QED
    <3> HIDE DEF Grown
    <3> QED
      BY <2>1, <2>2
<1>3. ASSUME NEW d \in Nat, d \in Q PROVE d + 1 \in Q
  <2> SUFFICES ASSUME k + (d + 1) <= Len(om) PROVE Grown(k + (d + 1))
    OBVIOUS
  <2> DEFINE m == k + d
  <2>1. m \in 0 .. Len(om) /\ m + 1 \in 1 .. Len(om) /\ k + (d + 1) = m + 1 /\ (m + 1) - 1 = m
    BY <1>0
  <2>2. Grown(m)
    BY <1>0, <1>3, <2>1
  <2> HIDE DEF m
  <2>3. B(m + 1) = B(m) \o MarshalEntry(om, m + 1)
    BY <1>0, <2>1, BufferEquation
  <2> DEFINE b == B(m)
             e == MarshalEntry(om, m + 1)
  <2>4. b \in Seq(Tokens) /\ e \in Seq(Tokens) /\ Len(b) \in Nat /\ Len(e) \in Nat
    BY <1>1, <2>1, MarshalEntryIs, Length
  <2>5. B(m + 1) = b \o e
    BY <2>3
  <2> HIDE DEF e, b
  <2>6. Len(B(m + 1)) = Len(b) + Len(e) /\ \A i \in 1 .. Len(b) : B(m + 1)[i] = b[i]
    BY <2>4, <2>5
  <2>7. Len(B(k)) <= Len(b) /\ \A i \in 1 .. Len(B(k)) : b[i] = B(k)[i]
    BY <2>2 DEF b
  <2>8. Len(B(k)) \in Nat
    BY <1>1
  <2> HIDE DEF B
  <2>9. Len(B(k)) <= Len(B(m + 1)) /\ \A i \in 1 .. Len(B(k)) : B(m + 1)[i] = B(k)[i]
    BY <2>4, <2>6, <2>7, <2>8
  <2>10. QED
    BY <2>1, <2>9
<1>4. QED
  <2>1. \A d \in Nat : d \in Q
    <3> HIDE DEF Q
    <3> QED
      BY <1>2, <1>3, NatInductionSet
  <2>2. n - k \in Nat /\ k + (n - k) = n
    BY <1>0
  <2>3. Grown(n)
    <3> HIDE DEF Grown
    <3> QED
      BY <1>0, <2>1, <2>2
  <2>4. QED
    BY <2>3

\* Where an entry is in the text of its object.
LEMMA EntryAt ==
  ASSUME NEW om \in Seq(Keys \X Seq(Tokens)), NEW n \in 1 .. Len(om)
  PROVE  LET text == Marshal(om)
             s    == Len(Buffer(om)[n - 1])
             v    == om[n][2]
         IN  /\ s \in Nat /\ v \in Seq(Tokens) /\ s + 3 + Len(v) <= Len(text)
             /\ text[s + 1] = om[n][1] /\ text[s + 2] = ":"
             /\ \A j \in 1 .. Len(v) : text[(s + 2) + j] = v[j]
             /\ text[s + 3 + Len(v)] = IF n = Len(om) THEN "}" ELSE ","
             /\ Len(Buffer(om)[n]) = IF n = Len(om) THEN s + 2 + Len(v) ELSE s + 3 + Len(v)
<1> DEFINE text == Marshal(om)
           b == Buffer(om)[n - 1]
           c == Buffer(om)[n]
           all == Buffer(om)[Len(om)]
           v == om[n][2]
           e == MarshalEntry(om, n)
           brace == <<"}">>
           key == om[n][1]
<1>1. Len(om) \in Nat /\ n - 1 \in 0 .. Len(om) /\ n \in 0 .. Len(om) /\ n \in Nat
  BY Length
<1>2. b \in Seq(Tokens) /\ Len(b) \in Nat /\ c \in Seq(Tokens) /\ Len(c) \in Nat
      /\ all \in Seq(Tokens) /\ Len(all) \in Nat
  <2>1. Len(om) \in 0 .. Len(om)
    BY <1>1
  <2>2. QED
    BY <1>1, <2>1, BufferType, Length
<1>3. /\ e \in Seq(Tokens) /\ v \in Seq(Tokens) /\ Len(v) \in Nat
      /\ Len(e) = IF n = Len(om) THEN Len(v) + 2 ELSE Len(v) + 3
  <2>1. v \in Seq(Tokens)
    BY MarshalEntryIs
  <2>2. Len(v) \in Nat
    BY <2>1, Length
  <2>3. QED
    BY <2>2, MarshalEntryIs
<1>3a. e[1] = key /\ e[2] = ":"
  BY MarshalEntryIs
<1>3b. \A j \in 1 .. Len(v) : e[j + 2] = v[j]
  BY MarshalEntryIs
<1>3c. n # Len(om) => e[Len(v) + 3] = ","
  BY MarshalEntryIs
<1>4. c = b \o e
  BY <1>1, BufferEquation
<1>5. Len(c) <= Len(all) /\ \A i \in 1 .. Len(c) : all[i] = c[i]
  <2>1. Len(om) \in n .. Len(om)
    BY <1>1
  <2>2. QED
    BY <1>1, <2>1, BufferGrows
<1>6. text = all \o brace
  BY DEF Marshal
<1>7. brace \in Seq(Tokens) /\ Len(brace) = 1
  BY TokenTypes, Single
<1>7a. brace[1] = "}"
  BY TokenTypes, Single
<1>8. n = Len(om) => all = c
  OBVIOUS
<1> HIDE DEF b, c, all, v, e, brace, text, key
<1>9. /\ Len(c) = Len(b) + Len(e)
      /\ \A i \in 1 .. Len(e) : c[Len(b) + i] = e[i]
  <2>1. Len(c) = Len(b) + Len(e)
    <3>1. b \in Seq(Tokens) /\ e \in Seq(Tokens)
      BY <1>2, <1>3
    <3>2. Len(b \o e) = Len(b) + Len(e)
      BY <3>1
    <3>3. QED
      BY <1>4, <3>2
  <2>2. \A i \in 1 .. Len(e) : c[Len(b) + i] = e[i]
    <3>1. b \in Seq(Tokens) /\ e \in Seq(Tokens)
      BY <1>2, <1>3
    <3>2. \A i \in 1 .. Len(e) : (b \o e)[Len(b) + i] = e[i]
      BY <3>1
    <3>3. QED
      BY <1>4, <3>2
  <2>3. QED
    BY <2>1, <2>2
<1>10. /\ Len(text) = Len(all) + 1
       /\ \A i \in 1 .. Len(all) : text[i] = all[i]
       /\ text[Len(all) + 1] = "}"
  <2>1. all \in Seq(Tokens) /\ brace \in Seq(Tokens)
    BY <1>2, <1>7
  <2>2. Len(all \o brace) = Len(all) + Len(brace)
    BY <2>1
  <2>3. \A i \in 1 .. Len(all) : (all \o brace)[i] = all[i]
    BY <2>1
  <2>4. \A i \in 1 .. Len(brace) : (all \o brace)[Len(all) + i] = brace[i]
    BY <2>1
  <2>5. (all \o brace)[Len(all) + 1] = brace[1]
    <3>1. 1 \in 1 .. Len(brace)
      BY <1>7
    <3>2. QED
      BY <2>4, <3>1
  <2>6. QED
    BY <1>6, <1>7, <1>7a, <2>2, <2>3, <2>5
<1>11. Len(e) \in Nat /\ Len(e) >= Len(v) + 2
  BY <1>3
<1>12. \A i \in 1 .. Len(e) : text[Len(b) + i] = e[i]
  <2> SUFFICES ASSUME NEW i \in 1 .. Len(e) PROVE text[Len(b) + i] = e[i]
    OBVIOUS
  <2>1. Len(b) + i \in 1 .. Len(c) /\ Len(b) + i \in 1 .. Len(all)
    BY <1>2, <1>5, <1>9, <1>11
  <2>2. text[Len(b) + i] = all[Len(b) + i] /\ all[Len(b) + i] = c[Len(b) + i]
    BY <1>5, <1>10, <2>1
  <2>3. QED
    BY <1>9, <2>2
<1>13. text[Len(b) + 1] = key /\ text[Len(b) + 2] = ":"
  <2>1. 1 \in 1 .. Len(e) /\ 2 \in 1 .. Len(e)
    BY <1>3, <1>11
  <2>2. QED
    BY <1>3a, <1>12, <2>1
<1>14. ASSUME NEW j \in 1 .. Len(v) PROVE text[(Len(b) + 2) + j] = v[j]
  <2>1. j + 2 \in 1 .. Len(e) /\ Len(b) + (j + 2) = (Len(b) + 2) + j
    BY <1>2, <1>3, <1>11
  <2>2. e[j + 2] = v[j]
    BY <1>3b
  <2>3. QED
    BY <1>12, <2>1, <2>2
<1>15. Len(c) = IF n = Len(om) THEN Len(b) + 2 + Len(v) ELSE Len(b) + 3 + Len(v)
  BY <1>2, <1>3, <1>9
<1>16. text[Len(b) + 3 + Len(v)] = IF n = Len(om) THEN "}" ELSE ","
  <2>1. CASE n = Len(om)
    <3>1. Len(all) + 1 = Len(b) + 3 + Len(v)
      <4>1. Len(all) = Len(c) /\ Len(c) = Len(b) + 2 + Len(v)
        BY <1>8, <1>15, <2>1
      <4>2. Len(b) \in Nat /\ Len(v) \in Nat
        BY <1>2, <1>3
      <4>3. QED
        BY ONLY <4>1, <4>2
    <3>2. QED
      BY <1>10, <2>1, <3>1
  <2>2. CASE n # Len(om)
    <3>1. Len(v) + 3 \in 1 .. Len(e) /\ Len(b) + (Len(v) + 3) = Len(b) + 3 + Len(v)
      BY <1>2, <1>3, <2>2
    <3>2. text[Len(b) + (Len(v) + 3)] = e[Len(v) + 3]
      BY <1>12, <3>1
    <3>3. e[Len(v) + 3] = ","
      BY <1>3c, <2>2
    <3>4. QED
      BY <2>2, <3>1, <3>2, <3>3
  <2>3. QED
    BY <2>1, <2>2
<1>17. Len(b) + 3 + Len(v) <= Len(text)
  <2>1. CASE n = Len(om)
    <3>1. Len(all) = Len(c) /\ Len(c) = Len(b) + 2 + Len(v) /\ Len(text) = Len(all) + 1
      BY <1>8, <1>10, <1>15, <2>1
    <3>2. Len(b) \in Nat /\ Len(v) \in Nat
      BY <1>2, <1>3
    <3>3. QED
      BY ONLY <3>1, <3>2
  <2>2. CASE n # Len(om)
    <3>1. Len(c) <= Len(all) /\ Len(c) = Len(b) + 3 + Len(v) /\ Len(text) = Len(all) + 1
      BY <1>5, <1>10, <1>15, <2>2
    <3>2. Len(b) \in Nat /\ Len(v) \in Nat /\ Len(all) \in Nat
      BY <1>2, <1>3
    <3>3. QED
      BY ONLY <3>1, <3>2
  <2>3. QED
    BY <2>1, <2>2
<1>18. QED
  BY <1>2, <1>3, <1>13, <1>14, <1>15, <1>16, <1>17 DEF b, c, v, text, key

-----------------------------------------------------------------------------
(* What UnmarshalJSON reads. *)

\* Brackets are counted alike in a value and where it stands in a text.
LEMMA CountShift ==
  ASSUME NEW text, NEW value, NEW s \in Nat, NEW j \in Nat, NEW tokens,
         \A i \in 1 .. j : text[s + i] = value[i]
  PROVE  Count(text, s + 1, s + j, tokens) = Count(value, 1, j, tokens)
<1> DEFINE A == {k \in s + 1 .. s + j : text[k] \in tokens}
           C == {k \in 1 .. j : value[k] \in tokens}
           f == [k \in C |-> s + k]
<1>1. f \in [C -> A]
  OBVIOUS
<1>2. \A k, l \in C : f[k] = f[l] => k = l
  OBVIOUS
<1>3. ASSUME NEW a \in A PROVE \E k \in C : f[k] = a
  <2>1. a - s \in 1 .. j /\ s + (a - s) = a
    OBVIOUS
  <2>2. text[a] = value[a - s] /\ text[a] \in tokens
    BY <2>1
  <2>3. a - s \in C /\ f[a - s] = a
    BY <2>1, <2>2
  <2>4. QED
    BY <2>3
<1>4. f \in Bijection(C, A)
  <2> HIDE DEF f, A, C
  <2>1. f \in Surjection(C, A)
    BY <1>1, <1>3 DEF Surjection
  <2>2. f \in Injection(C, A)
    BY <1>1, <1>2 DEF Injection, IsInjective
  <2>3. QED
    BY <2>1, <2>2 DEF Bijection
<1>5. IsFiniteSet(C)
  <2>1. IsFiniteSet(1 .. j)
    BY FS_Interval
  <2>2. C \in SUBSET (1 .. j)
    OBVIOUS
  <2>3. QED
    <3> HIDE DEF C
    <3> QED
      BY <2>1, <2>2, FS_Subset
<1>6. Cardinality(A) = Cardinality(C)
  <2> HIDE DEF f, A, C
  <2>1. ExistsBijection(C, A)
    BY <1>4 DEF ExistsBijection
  <2>2. QED
    BY <1>5, <2>1, FS_Bijection
<1>7. QED
  BY <1>6 DEF Count

\* readValue ends where the value does.
LEMMA ValueEndIs ==
  ASSUME NEW text, NEW value, IsValue(value), NEW s \in Nat, Len(text) \in Nat,
         s + Len(value) <= Len(text),
         \A i \in 1 .. Len(value) : text[s + i] = value[i]
  PROVE  ValueEnd(text, s + 1) = s + Len(value)
<1> DEFINE T == {j \in s + 1 .. Len(text) : Closed(text, s + 1, j)}
<1>1. Len(value) \in Nat /\ Len(value) > 0 /\ DOMAIN value = 1 .. Len(value)
  BY DEF IsValue
<1>2. ASSUME NEW j \in 1 .. Len(value) PROVE Closed(text, s + 1, s + j) <=> j = Len(value)
  <2>1. Closed(text, s + 1, s + j) <=> Closed(value, 1, j)
    <3>1. ASSUME NEW tokens
          PROVE  Count(text, s + 1, s + j, tokens) = Count(value, 1, j, tokens)
      <4>1. j \in Nat /\ \A i \in 1 .. j : text[s + i] = value[i]
        BY <1>1
      <4>2. QED
        BY <4>1, CountShift
    <3>2. QED
      BY <3>1 DEF Closed
  <2>2. Closed(value, 1, j) <=> j = Len(value)
    BY <1>1 DEF IsValue
  <2>3. QED
    BY <2>1, <2>2
<1>3. s + Len(value) \in T
  <2>1. Len(value) \in 1 .. Len(value) /\ s + Len(value) \in s + 1 .. Len(text)
    BY <1>1
  <2>2. QED
    BY <1>2, <2>1
<1>4. ASSUME NEW k \in T PROVE s + Len(value) <= k
  <2> SUFFICES ASSUME k < s + Len(value) PROVE FALSE
    BY <1>1
  <2>1. k - s \in 1 .. Len(value) /\ k - s # Len(value) /\ s + (k - s) = k
    BY <1>1
  <2>2. QED
    BY <1>2, <2>1
<1>5. T \in SUBSET Int
  OBVIOUS
<1>6. Min(T) = s + Len(value)
  <2> HIDE DEF T
  <2> QED
    BY <1>3, <1>4, <1>5, MinIs
<1>7. QED
  BY <1>6 DEF ValueEnd

\* parseValue drops the colon, and no colon of the value.
LEMMA ParseValueIs ==
  ASSUME NEW value \in Seq(Tokens), NEW raw \in Seq(Tokens),
         Len(raw) = Len(value) + 1, raw[1] = ":",
         \A i \in 1 .. Len(value) : raw[i + 1] = value[i]
  PROVE  ParseValue(raw) = value
<1> DEFINE T == {k \in DOMAIN raw : raw[k] = ":"}
<1>0. Len(value) \in Nat /\ Len(raw) \in Nat /\ DOMAIN raw = 1 .. Len(raw)
  BY Length
<1>1. 1 \in T
  BY <1>0
<1>2. T \in SUBSET Int /\ \A k \in T : 1 <= k
  BY <1>0
<1>3. Min(T) = 1
  <2> HIDE DEF T
  <2> QED
    BY <1>1, <1>2, MinIs
<1>4. ParseValue(raw) = SubSeq(raw, 1 + 1, Len(raw))
  BY <1>3 DEF ParseValue
<1>5. SubSeq(raw, 2, Len(raw)) = value
  <2> DEFINE r == SubSeq(raw, 2, Len(raw))
  <2>1. r \in Seq(Tokens) /\ Len(r) = Len(value) /\ \A i \in 1 .. Len(value) : r[i] = raw[i + 1]
    BY <1>0
  <2> HIDE DEF r
  <2>2. \A i \in 1 .. Len(r) : r[i] = value[i]
    BY <2>1
  <2>3. r = value
    BY <2>1, <2>2, SeqEqual
  <2>4. QED
    BY <2>3 DEF r
<1>6. QED
  BY <1>4, <1>5

\* A round of the loop reads the next entry.
LEMMA DecodeEntryIs ==
  ASSUME NEW om, IsObject(om), NEW n \in 1 .. Len(om), NEW entries
  PROVE  DecodeEntry(Marshal(om),
                     [offset |-> Len(Buffer(om)[n - 1]) + 1, entries |-> entries])
           = [offset |-> Len(Buffer(om)[n]) + 1, entries |-> Append(entries, om[n])]
<1> DEFINE text == Marshal(om)
           s == Len(Buffer(om)[n - 1])
           s2 == Len(Buffer(om)[n])
           v == om[n][2]
           key == om[n][1]
           end == ValueEnd(text, (s + 1) + 2)
           raw == SubSeq(text, (s + 1) + 1, end)
           d == [offset |-> s + 1, entries |-> entries]
<1>1. om \in Seq(Keys \X Seq(Tokens)) /\ IsValue(v)
  BY DEF IsObject
<1>2. om[n] = <<key, v>> /\ key \in Keys
  <2>1. om[n] \in Keys \X Seq(Tokens)
    BY <1>1
  <2>2. QED
    BY <2>1
<1>3. text \in Seq(Tokens) /\ Len(text) \in Nat
  <2> DEFINE all == Buffer(om)[Len(om)]
             brace == <<"}">>
  <2>1. Len(om) \in 0 .. Len(om)
    BY <1>1, Length
  <2>2. all \in Seq(Tokens)
    BY <1>1, <2>1, BufferType
  <2>3. brace \in Seq(Tokens)
    BY TokenTypes, Single
  <2>4. text = all \o brace
    BY DEF Marshal
  <2> HIDE DEF all, brace, text
  <2>5. all \o brace \in Seq(Tokens)
    BY <2>2, <2>3
  <2>6. QED
    BY <2>4, <2>5, Length
<1>4. s \in Nat /\ v \in Seq(Tokens) /\ Len(v) \in Nat /\ s + 3 + Len(v) <= Len(text)
  <2>1. s \in Nat /\ v \in Seq(Tokens) /\ s + 3 + Len(v) <= Len(text)
    BY <1>1, EntryAt
  <2>2. QED
    BY <2>1, Length
<1>5. text[s + 1] = key /\ text[s + 2] = ":"
  BY <1>1, EntryAt, ZenonT(60)
<1>6. \A j \in 1 .. Len(v) : text[(s + 2) + j] = v[j]
  BY <1>1, EntryAt
<1>7. text[s + 3 + Len(v)] = IF n = Len(om) THEN "}" ELSE ","
  BY <1>1, EntryAt
<1>8. s2 = IF n = Len(om) THEN s + 2 + Len(v) ELSE s + 3 + Len(v)
  BY <1>1, EntryAt
<1>9. DecodeEntry(text, d) =
        IF text[s + 1] = "}" THEN d
        ELSE [offset  |-> IF text[end + 1] = "," THEN end + 2 ELSE end + 1,
              entries |-> Append(entries, <<text[s + 1], ParseValue(raw)>>)]
  BY DEF DecodeEntry
<1> HIDE DEF text, s, s2, v, key, end, raw, d
<1>10. end = (s + 2) + Len(v)
  <2>1. s + 2 \in Nat /\ (s + 2) + Len(v) <= Len(text) /\ (s + 2) + 1 = (s + 1) + 2
    BY <1>3, <1>4
  <2>2. ValueEnd(text, (s + 2) + 1) = (s + 2) + Len(v)
    BY <1>1, <1>3, <1>6, <2>1, ValueEndIs
  <2>3. QED
    BY <2>1, <2>2 DEF end
<1>11. ParseValue(raw) = v
  <2>1. (s + 1) + 1 \in 1 .. Len(text) /\ end \in 1 .. Len(text) /\ end - ((s + 1) + 1) + 1 = Len(v) + 1
    BY <1>3, <1>4, <1>10
  <2>2. /\ raw \in Seq(Tokens) /\ Len(raw) = Len(v) + 1
        /\ \A i \in 1 .. Len(v) + 1 : raw[i] = text[(s + 1) + i]
    BY <1>3, <1>4, <1>10, <2>1 DEF raw
  <2>3. raw[1] = ":"
    <3>1. 1 \in 1 .. Len(v) + 1 /\ (s + 1) + 1 = s + 2
      BY <1>4
    <3>2. QED
      BY <1>5, <2>2, <3>1
  <2>4. ASSUME NEW i \in 1 .. Len(v) PROVE raw[i + 1] = v[i]
    <3>1. i + 1 \in 1 .. Len(v) + 1 /\ (s + 1) + (i + 1) = (s + 2) + i
      BY <1>4
    <3>2. QED
      BY <1>6, <2>2, <3>1
  <2>5. QED
    BY <1>4, <2>2, <2>3, <2>4, ParseValueIs
<1>12. text[s + 1] # "}"
  BY <1>2, <1>5 DEF Keys, Punctuation
<1>13. (IF text[end + 1] = "," THEN end + 2 ELSE end + 1) = s2 + 1
  <2>1. end + 1 = s + 3 + Len(v)
    BY <1>4, <1>10
  <2>2. CASE n = Len(om)
    <3>1. text[end + 1] # ","
      BY <1>7, <2>1, <2>2
    <3>2. QED
      BY <1>4, <1>8, <1>10, <2>2, <3>1
  <2>3. CASE n # Len(om)
    <3>1. text[end + 1] = ","
      BY <1>7, <2>1, <2>3
    <3>2. s2 = s + 3 + Len(v) /\ end + 2 = s2 + 1
      BY <1>4, <1>8, <1>10, <2>3
    <3>3. QED
      BY <3>1, <3>2
  <2>4. QED
    BY <2>2, <2>3
<1>14. DecodeEntry(text, d) = [offset |-> s2 + 1, entries |-> Append(entries, <<key, v>>)]
  BY <1>5, <1>9, <1>11, <1>12, <1>13
<1>15. QED
  BY <1>2, <1>14 DEF text, d, s, s2

LEMMA MarshalType ==
  ASSUME NEW om, IsObject(om)
  PROVE  /\ Marshal(om) \in Seq(Tokens) /\ Len(Marshal(om)) \in Nat
         /\ Len(Marshal(om)) > Len(om) + 1 /\ Len(om) \in Nat
         /\ Len(Marshal(om)) = Len(Buffer(om)[Len(om)]) + 1
         /\ Marshal(om)[1] = "{"
         /\ Marshal(om)[Len(Marshal(om))] = "}"
<1> DEFINE all == Buffer(om)[Len(om)]
           first == Buffer(om)[0]
           brace == <<"}">>
           open == <<"{">>
           text == Marshal(om)
<1>0. om \in Seq(Keys \X Seq(Tokens)) /\ Len(om) \in Nat
  BY Length DEF IsObject
<1>1. Len(om) \in 0 .. Len(om) /\ 0 \in 0 .. Len(om)
  BY <1>0
<1>2. all \in Seq(Tokens) /\ Len(all) > Len(om) /\ Len(all) \in Nat
  BY <1>0, <1>1, BufferType, Length
<1>3. brace \in Seq(Tokens) /\ Len(brace) = 1
  BY TokenTypes, Single
<1>4. brace[1] = "}"
  BY TokenTypes, Single
<1>5. text = all \o brace
  BY DEF Marshal
<1>6. first = open
  BY <1>0, BufferEquation
<1>7. Len(open) = 1 /\ open[1] = "{"
  BY TokenTypes, Single
<1>8. \A i \in 1 .. Len(first) : all[i] = first[i]
  BY <1>0, <1>1, BufferGrows
<1> HIDE DEF all, first, brace, open, text
<1>types. all \in Seq(Tokens) /\ brace \in Seq(Tokens)
  BY <1>2, <1>3
<1>9. all \o brace \in Seq(Tokens)
  BY <1>types
<1>10. Len(all \o brace) = Len(all) + Len(brace)
  BY <1>types
<1>11. \A i \in 1 .. Len(all) : (all \o brace)[i] = all[i]
  BY <1>types
<1>12. \A i \in 1 .. Len(brace) : (all \o brace)[Len(all) + i] = brace[i]
  BY <1>types
<1>13. Len(text) = Len(all) + 1
  BY <1>3, <1>5, <1>10
<1>14. text[1] = "{"
  <2>1. 1 \in 1 .. Len(all) /\ 1 \in 1 .. Len(first)
    <3>1. Len(first) = 1
      BY <1>6, <1>7
    <3>2. Len(all) \in Nat /\ Len(all) > 0
      BY <1>0, <1>2
    <3>3. QED
      BY ONLY <3>1, <3>2
  <2>2. text[1] = all[1] /\ all[1] = first[1]
    BY <1>5, <1>8, <1>11, <2>1
  <2>3. QED
    BY <1>6, <1>7, <2>2
<1>15. text[Len(text)] = "}"
  <2>1. 1 \in 1 .. Len(brace)
    BY <1>3
  <2>2. (all \o brace)[Len(all) + 1] = brace[1]
    BY <1>12, <2>1
  <2>3. QED
    BY <1>4, <1>5, <1>13, <2>2
<1>16. text \in Seq(Tokens) /\ Len(text) \in Nat /\ Len(text) > Len(om) + 1
  BY <1>0, <1>2, <1>5, <1>9, <1>13
<1>17. QED
  BY <1>0, <1>13, <1>14, <1>15, <1>16 DEF text, all

\* After n rounds the decoder has read n entries, and after the last it stands still.
LEMMA DecoderIs ==
  ASSUME NEW om, IsObject(om), NEW n \in 0 .. Len(Marshal(om))
  PROVE  LET m == IF n <= Len(om) THEN n ELSE Len(om)
         IN  Decoder(Marshal(om))[n]
               = [offset |-> Len(Buffer(om)[m]) + 1, entries |-> SubSeq(om, 1, m)]
<1> DEFINE text == Marshal(om)
           After(k) == [offset |-> Len(Buffer(om)[k]) + 1, entries |-> SubSeq(om, 1, k)]
           Capped(k) == IF k <= Len(om) THEN k ELSE Len(om)
           Q == {k \in Nat : k <= Len(text) => Decoder(text)[k] = After(Capped(k))}
<1>0. om \in Seq(Keys \X Seq(Tokens)) /\ Len(om) \in Nat /\ Len(text) \in Nat
  BY MarshalType DEF IsObject
<1>length. Len(text) = Len(Buffer(om)[Len(om)]) + 1
  BY MarshalType
<1>end. text[Len(text)] = "}"
  BY MarshalType
<1>bound. n \in Nat /\ n <= Len(text)
  BY <1>0
<1> HIDE DEF text
<1>1. 0 \in Q
  <2> DEFINE open == <<"{">>
  <2>1. Buffer(om)[0] = open
    BY <1>0, BufferEquation
  <2>2. Len(open) = 1
    BY TokenTypes, Single
  <2>3. Len(Buffer(om)[0]) + 1 = 2
    <3> HIDE DEF open
    <3> QED
      BY <2>1, <2>2
  <2>4. SubSeq(om, 1, 0) = <<>>
    BY SubSeqEmpty
  <2>5. Capped(0) = 0
    BY <1>0
  <2>6. Decoder(text)[0] = [offset |-> 2, entries |-> <<>>]
    BY <1>0, DecoderEquation
  <2>7. Decoder(text)[0] = After(Capped(0))
    BY <2>3, <2>4, <2>5, <2>6
  <2>8. QED
    BY <2>7
<1>2. ASSUME NEW k \in Nat, k \in Q PROVE k + 1 \in Q
  <2> SUFFICES ASSUME k + 1 <= Len(text)
               PROVE  Decoder(text)[k + 1] = After(Capped(k + 1))
    OBVIOUS
  <2>1. k + 1 \in 1 .. Len(text) /\ (k + 1) - 1 = k
    BY <1>0
  <2>2. Decoder(text)[k] = After(Capped(k))
    BY <1>0, <1>2, <2>1
  <2>3. Decoder(text)[k + 1] = DecodeEntry(text, After(Capped(k)))
    BY <1>0, <2>1, <2>2, DecoderEquation
  <2>4. CASE k < Len(om)
    <3>1. Capped(k) = k /\ Capped(k + 1) = k + 1 /\ k + 1 \in 1 .. Len(om)
      BY <1>0, <2>4
    <3>2. DecodeEntry(text, After(k))
            = [offset |-> Len(Buffer(om)[k + 1]) + 1,
               entries |-> Append(SubSeq(om, 1, k), om[k + 1])]
      BY <2>1, <3>1, DecodeEntryIs DEF text
    <3>3. Append(SubSeq(om, 1, k), om[k + 1]) = SubSeq(om, 1, k + 1)
      BY <1>0, <3>1, SubSeqAppend
    <3>4. QED
      BY <2>3, <3>1, <3>2, <3>3
  <2>5. CASE ~(k < Len(om))
    <3>1. Capped(k) = Len(om) /\ Capped(k + 1) = Len(om)
      BY <1>0, <2>5
    <3>2. After(Len(om)).offset = Len(text)
      BY <1>length
    <3>3. DecodeEntry(text, After(Len(om))) = After(Len(om))
      <4> HIDE DEF After
      <4> QED
        BY <1>end, <3>2 DEF DecodeEntry
    <3>4. QED
      BY <2>3, <3>1, <3>3
  <2>6. QED
    BY <2>4, <2>5
<1>3. \A k \in Nat : k \in Q
  <2> HIDE DEF Q
  <2> QED
    BY <1>1, <1>2, NatInductionSet
<1>4. QED
  BY <1>3, <1>bound DEF text

\* UnmarshalJSON reads back what MarshalJSON has written, whatever keys and values.
THEOREM RoundTrip ==
  ASSUME NEW om, IsObject(om)
  PROVE  StartsObject(Marshal(om)) /\ Unmarshal(Marshal(om)) = om
<1> DEFINE text == Marshal(om)
<1>1. /\ Len(text) \in Nat /\ Len(om) \in Nat /\ Len(text) > Len(om) + 1
      /\ om \in Seq(Keys \X Seq(Tokens))
  BY MarshalType DEF IsObject
<1>2. StartsObject(text)
  BY MarshalType DEF StartsObject
<1>3. Decoder(text)[Len(text)]
        = [offset |-> Len(Buffer(om)[Len(om)]) + 1, entries |-> SubSeq(om, 1, Len(om))]
  <2>1. Len(text) \in 0 .. Len(text) /\ ~(Len(text) <= Len(om))
    BY <1>1
  <2>2. QED
    BY <2>1, DecoderIs
<1>4. SubSeq(om, 1, Len(om)) = om
  BY <1>1, SubSeqFull
<1>5. QED
  BY <1>2, <1>3, <1>4 DEF Unmarshal

-----------------------------------------------------------------------------
(* Set. *)

\* Set changes the value of one key, or adds it at the end, and nothing else.
LEMMA SetIs ==
  ASSUME NEW om, IsObject(om), NEW k \in Keys, NEW value, IsValue(value)
  PROVE  LET new == Set(om, k, value)
         IN  /\ IsObject(new)
             /\ Len(om) <= Len(new) /\ Len(new) <= Len(om) + 1
             /\ \A i \in 1 .. Len(om) : new[i][1] = om[i][1]
             /\ \A i \in 1 .. Len(new) :
                  new[i][2] = IF new[i][1] = k THEN value ELSE om[i][2]
             /\ \E i \in 1 .. Len(new) : new[i][1] = k
<1> DEFINE new == Set(om, k, value)
           entry == <<k, value>>
<1>1. om \in Seq(Keys \X Seq(Tokens)) /\ Len(om) \in Nat /\ DOMAIN om = 1 .. Len(om)
  BY Length DEF IsObject
<1>2. /\ \A i \in 1 .. Len(om) : IsValue(om[i][2])
      /\ \A i, j \in 1 .. Len(om) : om[i][1] = om[j][1] => i = j
  BY <1>1 DEF IsObject
<1>3. entry \in Keys \X Seq(Tokens) /\ entry[1] = k /\ entry[2] = value
  BY DEF IsValue
<1>4. CASE \E i \in DOMAIN om : om[i][1] = k
  <2>1. PICK m \in 1 .. Len(om) : om[m][1] = k
    BY <1>1, <1>4
  <2>2. {i \in DOMAIN om : om[i][1] = k} = {m}
    BY <1>1, <1>2, <2>1
  <2>3. Min({m}) = m
    BY MinIs
  <2>4. new = [om EXCEPT ![m][2] = value]
    BY <1>4, <2>2, <2>3 DEF Set
  <2>5. [om[m] EXCEPT ![2] = value] = entry
    <3>1. om[m] \in Keys \X Seq(Tokens)
      BY <1>1, <2>1
    <3>2. PICK a \in Keys, b \in Seq(Tokens) : om[m] = <<a, b>>
      BY <3>1
    <3>3. a = k
      BY <2>1, <3>2
    <3>4. [<<k, b>> EXCEPT ![2] = value] = <<k, value>>
      OBVIOUS
    <3>5. QED
      BY <3>2, <3>3, <3>4
  <2>6. new = [om EXCEPT ![m] = entry]
    BY <2>4, <2>5
  <2> HIDE DEF entry, new
  <2>7. /\ new \in Seq(Keys \X Seq(Tokens)) /\ Len(new) = Len(om)
        /\ \A i \in 1 .. Len(om) : new[i] = IF i = m THEN entry ELSE om[i]
    <3>1. [om EXCEPT ![m] = entry] \in Seq(Keys \X Seq(Tokens))
          /\ Len([om EXCEPT ![m] = entry]) = Len(om)
      BY <1>1, <1>3, <2>1, ExceptSeq
    <3>2. \A i \in 1 .. Len(om) : [om EXCEPT ![m] = entry][i] = IF i = m THEN entry ELSE om[i]
      BY <1>1
    <3>3. QED
      BY <2>6, <3>1, <3>2
  <2>8. \A i \in 1 .. Len(om) : new[i][1] = om[i][1]
    BY <1>3, <2>1, <2>7
  <2>9. \A i \in 1 .. Len(om) : new[i][2] = IF i = m THEN value ELSE om[i][2]
    BY <1>3, <2>7
  <2>10. IsObject(new)
    <3>1. DOMAIN new = 1 .. Len(om)
      BY <2>7, Length
    <3>2. \A i \in 1 .. Len(om) : IsValue(new[i][2])
      BY <1>2, <2>9
    <3>3. \A i, j \in 1 .. Len(om) : new[i][1] = new[j][1] => i = j
      BY <1>2, <2>8
    <3>4. QED
      BY <2>7, <3>1, <3>2, <3>3 DEF IsObject
  <2>11. \A i \in 1 .. Len(om) : new[i][2] = IF new[i][1] = k THEN value ELSE om[i][2]
    BY <1>2, <2>1, <2>8, <2>9
  <2>12. new[m][1] = k
    BY <2>1, <2>8
  <2>13. QED
    BY <1>1, <2>1, <2>7, <2>8, <2>10, <2>11, <2>12 DEF new
<1>5. CASE ~\E i \in DOMAIN om : om[i][1] = k
  <2>1. new = Append(om, entry)
    BY <1>5 DEF Set
  <2> HIDE DEF entry, new
  <2>2. /\ new \in Seq(Keys \X Seq(Tokens)) /\ Len(new) = Len(om) + 1
        /\ \A i \in 1 .. Len(om) : new[i] = om[i]
        /\ new[Len(om) + 1] = entry
    BY <1>1, <1>3, <2>1, AppendProperties
  <2>3. \A i \in 1 .. Len(new) : i \in 1 .. Len(om) \/ i = Len(om) + 1
    BY <1>1, <2>2
  <2>4. Len(om) + 1 \in 1 .. Len(new)
    BY <1>1, <2>2
  <2>5. \A i \in 1 .. Len(om) : new[i][1] # k
    BY <1>1, <1>5, <2>2
  <2>6. IsObject(new)
    <3>1. DOMAIN new = 1 .. Len(new)
      BY <2>2, Length
    <3>2. \A i \in 1 .. Len(new) : IsValue(new[i][2])
      BY <1>2, <1>3, <2>2, <2>3
    <3>3. \A i, j \in 1 .. Len(new) : new[i][1] = new[j][1] => i = j
      BY <1>2, <1>3, <2>2, <2>3, <2>5
    <3>4. QED
      BY <2>2, <3>1, <3>2, <3>3 DEF IsObject
  <2>7. \A i \in 1 .. Len(new) : new[i][2] = IF new[i][1] = k THEN value ELSE om[i][2]
    BY <1>3, <2>2, <2>3, <2>5
  <2>8. \A i \in 1 .. Len(om) : new[i][1] = om[i][1]
    BY <2>2
  <2>9. Len(om) <= Len(new) /\ Len(new) <= Len(om) + 1
    BY <1>1, <2>2
  <2>10. \E i \in 1 .. Len(new) : new[i][1] = k
    BY <1>3, <2>2, <2>4
  <2>11. QED
    BY <2>6, <2>7, <2>8, <2>9, <2>10 DEF new
<1>6. QED
  BY <1>4, <1>5

=============================================================================
