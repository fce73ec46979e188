---------------------------- MODULE ServerProofs ----------------------------
(***************************************************************************)
(* Theorems about the server of both protocols (module Server), for every  *)
(* base path, every request path and every API document.                   *)
(***************************************************************************)
EXTENDS Server, OrderedMapProofs

-----------------------------------------------------------------------------
(* Sequences, from their end. *)

LEMMA SubSeqPrefix ==
  ASSUME NEW S, NEW s \in Seq(S), NEW k \in 0 .. Len(s)
  PROVE  /\ SubSeq(s, 1, k) \in Seq(S) /\ Len(SubSeq(s, 1, k)) = k
         /\ \A i \in 1 .. k : SubSeq(s, 1, k)[i] = s[i]
OBVIOUS

LEMMA FrontLast ==
  ASSUME NEW S, NEW s \in Seq(S), s # <<>>
  PROVE  /\ Front(s) \in Seq(S) /\ Last(s) \in S
         /\ Len(s) \in Nat /\ Len(s) > 0 /\ Len(Front(s)) = Len(s) - 1
         /\ Append(Front(s), Last(s)) = s
<1>1. Len(s) \in Nat /\ Len(s) > 0
  BY EmptySeq
<1>2. Front(s) \in Seq(S) /\ Last(s) \in S /\ Len(Front(s)) = Len(s) - 1
  <2>1. Len(s) \in 1 .. Len(s)
    BY <1>1
  <2>2. Last(s) \in S
    BY <2>1, ElementOfSeq DEF Last
  <2> DEFINE n == Len(s) - 1
  <2>3. n \in 0 .. Len(s)
    BY <1>1
  <2>front. SubSeq(s, 1, n) \in Seq(S) /\ Len(SubSeq(s, 1, n)) = n
    <3> HIDE DEF n
    <3> QED
      BY <2>3, SubSeqPrefix
  <2>4. QED
    BY <2>2, <2>front DEF Front
<1>3. Append(Front(s), Last(s)) = s
  <2> DEFINE n == Len(s) - 1
  <2>1. n \in Nat /\ n + 1 \in 1 .. Len(s) /\ n + 1 = Len(s)
    BY <1>1
  <2> HIDE DEF n
  <2>2. Append(SubSeq(s, 1, n), s[n + 1]) = SubSeq(s, 1, n + 1)
    BY <2>1, SubSeqAppend
  <2>3. SubSeq(s, 1, Len(s)) = s
    BY SubSeqFull
  <2>4. QED
    BY <2>1, <2>2, <2>3 DEF Front, Last, n
<1>4. QED
  BY <1>1, <1>2, <1>3

LEMMA FrontLastAppend ==
  ASSUME NEW S, NEW s \in Seq(S), NEW a \in S
  PROVE  /\ Append(s, a) \in Seq(S) /\ Append(s, a) # <<>>
         /\ Front(Append(s, a)) = s /\ Last(Append(s, a)) = a
BY DEF Front, Last

\* Appending to a concatenation appends to its second part.
LEMMA ConcatAppend ==
  ASSUME NEW S, NEW s \in Seq(S), NEW t \in Seq(S), NEW a \in S
  PROVE  /\ s \o t \in Seq(S)
         /\ s \o Append(t, a) = Append(s \o t, a)
<1>1. s \o t \in Seq(S) /\ <<a>> \in Seq(S)
  BY Single, ConcatProperties
<1>2. Append(t, a) = t \o <<a>>
  BY AppendIsConcat
<1>3. Append(s \o t, a) = (s \o t) \o <<a>>
  BY <1>1, AppendIsConcat
<1>4. (s \o t) \o <<a>> = s \o (t \o <<a>>)
  BY <1>1, ConcatAssociative
<1>5. QED
  BY <1>1, <1>2, <1>3, <1>4, Zenon

\* Induction on the length of a sequence, over a set instead of a predicate.
LEMMA SeqInductionSet ==
  ASSUME NEW S, NEW Q, <<>> \in Q,
         \A s \in Seq(S), a \in S : s \in Q => Append(s, a) \in Q
  PROVE  \A s \in Seq(S) : s \in Q
<1> DEFINE R == {n \in Nat : \A s \in Seq(S) : Len(s) = n => s \in Q}
<1>1. 0 \in R
  BY EmptySeq
<1>2. ASSUME NEW n \in Nat, n \in R PROVE n + 1 \in R
  <2> SUFFICES ASSUME NEW s \in Seq(S), Len(s) = n + 1 PROVE s \in Q
    OBVIOUS
  <2>1. s # <<>>
    BY EmptySeq
  <2>2. Front(s) \in Seq(S) /\ Last(s) \in S /\ Append(Front(s), Last(s)) = s
    BY <2>1, FrontLast
  <2>3. Len(Front(s)) = n
    BY <2>1, FrontLast
  <2>4. Front(s) \in Q
    BY <1>2, <2>2, <2>3
  <2>5. QED
    BY <2>2, <2>4
<1>3. \A n \in Nat : n \in R
  <2> HIDE DEF R
  <2> QED
    BY <1>1, <1>2, NatInductionSet
<1>4. QED
  BY <1>3, Length

\* A function on sequences may be defined by recursion on the last element.
Folds(f, S, T, first, step) ==
  /\ f \in [Seq(S) -> T]
  /\ \A s \in Seq(S) : f[s] = IF s = <<>> THEN first ELSE step[<<f[Front(s)], Last(s)>>]

LEMMA SeqRecursion ==
  ASSUME NEW S, NEW T, NEW first \in T, NEW step \in [T \X S -> T]
  PROVE  \E f : Folds(f, S, T, first, step)
<1> DEFINE Short(n) == {s \in Seq(S) : Len(s) <= n}
           Rec(f, D) == \A s \in D :
                          f[s] = IF s = <<>> THEN first ELSE step[<<f[Front(s)], Last(s)>>]
           Q == {n \in Nat : \E f \in [Short(n) -> T] : Rec(f, Short(n))}
<1>1. 0 \in Q
  <2> DEFINE f == [s \in Short(0) |-> first]
  <2>1. f \in [Short(0) -> T] /\ Rec(f, Short(0))
    BY EmptySeq
  <2> HIDE DEF f, Rec, Short
  <2>2. QED
    BY <2>1
<1>2. ASSUME NEW n \in Nat, n \in Q PROVE n + 1 \in Q
  <2>1. PICK g \in [Short(n) -> T] : Rec(g, Short(n))
    BY <1>2
  <2> DEFINE h == [s \in Short(n + 1) |->
                     IF s = <<>> THEN first ELSE step[<<g[Front(s)], Last(s)>>]]
  <2>2. ASSUME NEW s \in Short(n + 1), s # <<>>
        PROVE  Front(s) \in Short(n) /\ Front(s) \in Short(n + 1) /\ Last(s) \in S
    <3>1. Front(s) \in Seq(S) /\ Last(s) \in S /\ Len(s) \in Nat /\ Len(Front(s)) = Len(s) - 1
      BY <2>2, FrontLast
    <3>2. QED
      BY <3>1
  <2>3. h \in [Short(n + 1) -> T]
    <3> HIDE DEF Short
    <3> QED
      BY <2>2
  <2>4. \A s \in Short(n) : h[s] = g[s]
    <3>1. Short(n) \subseteq Short(n + 1)
      BY Length
    <3> HIDE DEF Short
    <3>2. QED
      BY <2>1, <3>1
  <2>5. Rec(h, Short(n + 1))
    <3> HIDE DEF Short
    <3> QED
      BY <2>2, <2>4
  <2>6. QED
    <3> HIDE DEF Rec, h, Short
    <3> QED
      BY <2>3, <2>5
<1>3. \A n \in Nat : n \in Q
  <2> HIDE DEF Q
  <2> QED
    BY <1>1, <1>2, NatInductionSet
<1> DEFINE F(n) == CHOOSE f \in [Short(n) -> T] : Rec(f, Short(n))
<1>4. ASSUME NEW n \in Nat
      PROVE  F(n) \in [Short(n) -> T] /\ Rec(F(n), Short(n))
  <2>1. \E f \in [Short(n) -> T] : Rec(f, Short(n))
    BY <1>3
  <2> HIDE DEF Rec, Short
  <2>2. QED
    BY <2>1
<1>5. ASSUME NEW m \in Nat, NEW n \in Nat, m <= n
      PROVE  \A s \in Seq(S) : Len(s) <= m => F(m)[s] = F(n)[s]
  <2> DEFINE A == {s \in Seq(S) : Len(s) <= m => F(m)[s] = F(n)[s]}
  <2> HIDE DEF F
  <2>1. <<>> \in A
    <3>1. <<>> \in Short(m) /\ <<>> \in Short(n) /\ <<>> \in Seq(S)
      BY EmptySeq
    <3>2. QED
      BY <1>4, <3>1
  <2>2. ASSUME NEW s \in Seq(S), NEW a \in S, s \in A PROVE Append(s, a) \in A
    <3> DEFINE t == Append(s, a)
    <3>1. t \in Seq(S) /\ t # <<>> /\ Front(t) = s /\ Last(t) = a
      BY FrontLastAppend
    <3>2. Len(t) = Len(s) + 1 /\ Len(s) \in Nat
      OBVIOUS
    <3> HIDE DEF t
    <3> SUFFICES ASSUME Len(t) <= m PROVE F(m)[t] = F(n)[t]
      BY <3>1 DEF t
    <3>3. F(m)[s] = F(n)[s]
      BY <2>2, <3>2
    <3>4. t \in Short(m) /\ t \in Short(n)
      BY <1>5, <3>1, <3>2
    <3>5. F(m)[t] = step[<<F(m)[s], a>>]
      BY <1>4, <3>1, <3>4
    <3>6. F(n)[t] = step[<<F(n)[s], a>>]
      BY <1>4, <3>1, <3>4
    <3>7. QED
      BY <3>3, <3>5, <3>6
  <2>3. \A s \in Seq(S) : s \in A
    <3> HIDE DEF A
    <3> QED
      BY <2>1, <2>2, SeqInductionSet
  <2>4. QED
    BY <2>3
<1> DEFINE f == [s \in Seq(S) |-> F(Len(s))[s]]
<1>6. f \in [Seq(S) -> T]
  <2> SUFFICES ASSUME NEW s \in Seq(S) PROVE F(Len(s))[s] \in T
    OBVIOUS
  <2>1. Len(s) \in Nat /\ s \in Short(Len(s))
    BY Length
  <2> HIDE DEF F, Short
  <2>2. QED
    BY <1>4, <2>1
<1>7. Rec(f, Seq(S))
  <2> SUFFICES ASSUME NEW s \in Seq(S)
               PROVE  f[s] = IF s = <<>> THEN first ELSE step[<<f[Front(s)], Last(s)>>]
    OBVIOUS
  <2>1. Len(s) \in Nat /\ s \in Short(Len(s))
    BY Length
  <2> HIDE DEF F
  <2>2. f[s] = IF s = <<>> THEN first ELSE step[<<F(Len(s))[Front(s)], Last(s)>>]
    BY <1>4, <2>1
  <2>3. ASSUME s # <<>> PROVE F(Len(s))[Front(s)] = f[Front(s)]
    <3>1. Front(s) \in Seq(S) /\ Len(Front(s)) = Len(s) - 1 /\ Len(s) > 0
      BY <2>3, FrontLast
    <3>2. Len(Front(s)) \in Nat /\ Len(Front(s)) <= Len(s)
      BY <2>1, <3>1
    <3>3. F(Len(Front(s)))[Front(s)] = F(Len(s))[Front(s)]
      BY <1>5, <2>1, <3>1, <3>2
    <3>4. QED
      BY <3>1, <3>3
  <2> HIDE DEF f
  <2>4. QED
    BY <2>2, <2>3
<1>8. Folds(f, S, T, first, step)
  <2> HIDE DEF f
  <2> QED
    BY <1>6, <1>7 DEF Folds
<1>9. QED
  BY <1>8

-----------------------------------------------------------------------------
(* path.Clean: the three recursions satisfy their equations. *)

\* A segment has no slash; one that path.Clean leaves is not empty, ".", or "..".
Bare == Seq(Chars \ {"/"})
Normal == Bare \ {<<>>, <<".">>, <<".", ".">>}

LEMMA CharTypes == "/" \in Chars /\ "." \in Chars
BY ConstantsAssumption

LEMMA BareIsPath == Bare \subseteq Seq(Chars) /\ Normal \subseteq Bare /\ <<>> \in Bare
<1>1. ASSUME NEW s \in Bare PROVE s \in Seq(Chars)
  BY SeqMonotonic DEF Bare
<1>2. QED
  BY <1>1, Empty DEF Normal, Bare

LEMMA SegmentsEquation ==
  /\ Segments[<<>>] = <<<<>>>>
  /\ \A p \in Seq(Chars), c \in Chars :
       Segments[Append(p, c)] =
         IF c = "/" THEN Append(Segments[p], <<>>)
         ELSE Append(Front(Segments[p]), Append(Last(Segments[p]), c))
<1> DEFINE T == Seq(Seq(Chars)) \ {<<>>}
           Step(ss, c) == IF c = "/" THEN Append(ss, <<>>)
                          ELSE Append(Front(ss), Append(Last(ss), c))
           step == [w \in T \X Chars |-> Step(w[1], w[2])]
           Rec(f) == f = [p \in Seq(Chars) |->
                            IF p = <<>> THEN <<<<>>>> ELSE Step(f[Front(p)], Last(p))]
<1>1. ASSUME NEW ss \in T, NEW c \in Chars PROVE Step(ss, c) \in T
  <2>1. Front(ss) \in Seq(Seq(Chars)) /\ Last(ss) \in Seq(Chars)
    BY FrontLast
  <2>2. <<>> \in Seq(Chars) /\ Append(Last(ss), c) \in Seq(Chars)
    BY <2>1, Empty
  <2>3. Append(ss, <<>>) \in T
    <3> DEFINE e == <<>>
    <3>1. ss \in Seq(Seq(Chars)) /\ e \in Seq(Chars)
      BY <2>2
    <3> HIDE DEF e
    <3>2. Append(ss, e) \in Seq(Seq(Chars)) /\ Append(ss, e) # <<>>
      BY <3>1, AppendProperties
    <3>3. QED
      BY <3>2 DEF e
  <2> DEFINE a == Append(Last(ss), c)
             b == Front(ss)
  <2>4. Append(b, a) \in T
    <3>1. a \in Seq(Chars) /\ b \in Seq(Seq(Chars))
      BY <2>1, <2>2
    <3> HIDE DEF a, b
    <3>2. QED
      BY <3>1, FrontLastAppend
  <2>5. QED
    BY <2>3, <2>4
<1>2. <<<<>>>> \in T
  <2>1. <<>> \in Seq(Chars)
    BY Empty
  <2>2. <<<<>>>> \in Seq(Seq(Chars)) /\ Len(<<<<>>>>) = 1
    BY <2>1, Single
  <2>3. QED
    BY <2>2, Empty
<1>3. PICK f \in [Seq(Chars) -> T] :
        \A p \in Seq(Chars) : f[p] = IF p = <<>> THEN <<<<>>>> ELSE step[<<f[Front(p)], Last(p)>>]
  <2>1. step \in [T \X Chars -> T]
    <3> HIDE DEF T, Step
    <3> QED
      BY <1>1
  <2> DEFINE first == <<<<>>>>
  <2>2. first \in T
    BY <1>2
  <2> HIDE DEF T, step, first
  <2>3. \E f : Folds(f, Chars, T, first, step)
    BY <2>1, <2>2, SeqRecursion
  <2>4. QED
    BY <2>3 DEF first, Folds
<1>4. Rec(f)
  <2>1. ASSUME NEW p \in Seq(Chars), p # <<>>
        PROVE  step[<<f[Front(p)], Last(p)>>] = Step(f[Front(p)], Last(p))
    <3>1. Front(p) \in Seq(Chars) /\ Last(p) \in Chars
      BY <2>1, FrontLast
    <3>2. f[Front(p)] \in T
      BY <3>1
    <3> HIDE DEF T, Step
    <3>3. QED
      BY <3>1, <3>2
  <2> HIDE DEF T, Step, step
  <2>2. QED
    BY <1>3, <2>1
<1>5. Rec(Segments)
  BY <1>4 DEF Segments
<1>6. Segments[<<>>] = <<<<>>>>
  BY <1>5, Empty
<1>7. ASSUME NEW p \in Seq(Chars), NEW c \in Chars
      PROVE  Segments[Append(p, c)] = Step(Segments[p], c)
  <2> DEFINE q == Append(p, c)
  <2>1. q \in Seq(Chars) /\ q # <<>> /\ Front(q) = p /\ Last(q) = c
    BY FrontLastAppend
  <2> HIDE DEF q, Step
  <2>2. Segments[q] = Step(Segments[p], c)
    BY <1>5, <2>1
  <2>3. QED
    BY <2>2 DEF q
<1>8. QED
  BY <1>6, <1>7

LEMMA ResolvedEquation ==
  /\ Resolved[<<>>] = <<>>
  /\ \A ss \in Seq(Seq(Chars)), s \in Seq(Chars) :
       Resolved[Append(ss, s)] = Resolve(Resolved[ss], s)
<1> DEFINE T == Seq(Seq(Chars))
           Step(t, s) == Resolve(t, s)
           step == [w \in T \X Seq(Chars) |-> Step(w[1], w[2])]
           Rec(f) == f = [ss \in Seq(Seq(Chars)) |->
                            IF ss = <<>> THEN <<>> ELSE Step(f[Front(ss)], Last(ss))]
<1>1. ASSUME NEW t \in T, NEW s \in Seq(Chars) PROVE Step(t, s) \in T
  <2>1. t # <<>> => Front(t) \in Seq(Seq(Chars))
    BY FrontLast
  <2>2. Append(t, s) \in Seq(Seq(Chars)) /\ <<>> \in Seq(Seq(Chars))
    BY FrontLastAppend, Empty
  <2>3. QED
    BY <2>1, <2>2 DEF Resolve
<1>2. PICK f \in [Seq(Seq(Chars)) -> T] :
        \A ss \in Seq(Seq(Chars)) :
          f[ss] = IF ss = <<>> THEN <<>> ELSE step[<<f[Front(ss)], Last(ss)>>]
  <2>1. step \in [T \X Seq(Chars) -> T]
    <3> HIDE DEF T, Step
    <3> QED
      BY <1>1
  <2>2. <<>> \in T
    BY Empty
  <2> HIDE DEF T, step
  <2>3. \E f : Folds(f, Seq(Chars), T, <<>>, step)
    BY <2>1, <2>2, SeqRecursion
  <2>4. QED
    BY <2>3 DEF Folds
<1>3. Rec(f)
  <2>1. ASSUME NEW ss \in Seq(Seq(Chars)), ss # <<>>
        PROVE  step[<<f[Front(ss)], Last(ss)>>] = Step(f[Front(ss)], Last(ss))
    <3>1. Front(ss) \in Seq(Seq(Chars)) /\ Last(ss) \in Seq(Chars)
      BY <2>1, FrontLast
    <3>2. f[Front(ss)] \in T
      BY <3>1
    <3> HIDE DEF T, Step
    <3>3. QED
      BY <3>1, <3>2
  <2> HIDE DEF T, Step, step
  <2>2. QED
    BY <1>2, <2>1
<1>4. Rec(Resolved)
  BY <1>3 DEF Resolved
<1>5. Resolved[<<>>] = <<>>
  BY <1>4, Empty
<1>6. ASSUME NEW ss \in Seq(Seq(Chars)), NEW s \in Seq(Chars)
      PROVE  Resolved[Append(ss, s)] = Step(Resolved[ss], s)
  <2> DEFINE tt == Append(ss, s)
  <2>1. tt \in Seq(Seq(Chars)) /\ tt # <<>> /\ Front(tt) = ss /\ Last(tt) = s
    BY FrontLastAppend
  <2> HIDE DEF tt, Step
  <2>2. Resolved[tt] = Step(Resolved[ss], s)
    BY <1>4, <2>1
  <2>3. QED
    BY <2>2 DEF tt
<1>7. QED
  BY <1>5, <1>6

LEMMA JoinEquation ==
  /\ Join[<<>>] = <<>>
  /\ \A ss \in Seq(Seq(Chars)), s \in Seq(Chars) :
       Join[Append(ss, s)] = Join[ss] \o <<"/">> \o s
<1> DEFINE T == Seq(Chars)
           Step(t, s) == t \o <<"/">> \o s
           step == [w \in T \X Seq(Chars) |-> Step(w[1], w[2])]
           Rec(f) == f = [ss \in Seq(Seq(Chars)) |->
                            IF ss = <<>> THEN <<>> ELSE Step(f[Front(ss)], Last(ss))]
<1>1. ASSUME NEW t \in T, NEW s \in Seq(Chars) PROVE Step(t, s) \in T
  <2>1. <<"/">> \in Seq(Chars)
    BY CharTypes, Single
  <2>2. t \o <<"/">> \in Seq(Chars)
    BY <2>1
  <2>3. QED
    BY <2>2
<1>2. PICK f \in [Seq(Seq(Chars)) -> T] :
        \A ss \in Seq(Seq(Chars)) :
          f[ss] = IF ss = <<>> THEN <<>> ELSE step[<<f[Front(ss)], Last(ss)>>]
  <2>1. step \in [T \X Seq(Chars) -> T]
    <3> HIDE DEF T, Step
    <3> QED
      BY <1>1
  <2>2. <<>> \in T
    BY Empty
  <2> HIDE DEF T, step
  <2>3. \E f : Folds(f, Seq(Chars), T, <<>>, step)
    BY <2>1, <2>2, SeqRecursion
  <2>4. QED
    BY <2>3 DEF Folds
<1>3. Rec(f)
  <2>1. ASSUME NEW ss \in Seq(Seq(Chars)), ss # <<>>
        PROVE  step[<<f[Front(ss)], Last(ss)>>] = Step(f[Front(ss)], Last(ss))
    <3>1. Front(ss) \in Seq(Seq(Chars)) /\ Last(ss) \in Seq(Chars)
      BY <2>1, FrontLast
    <3>2. f[Front(ss)] \in T
      BY <3>1
    <3> HIDE DEF T, Step
    <3>3. QED
      BY <3>1, <3>2
  <2> HIDE DEF T, Step, step
  <2>2. QED
    BY <1>2, <2>1
<1>4. Rec(Join)
  BY <1>3 DEF Join
<1>5. Join[<<>>] = <<>>
  BY <1>4, Empty
<1>6. ASSUME NEW ss \in Seq(Seq(Chars)), NEW s \in Seq(Chars)
      PROVE  Join[Append(ss, s)] = Step(Join[ss], s)
  <2> DEFINE tt == Append(ss, s)
  <2>1. tt \in Seq(Seq(Chars)) /\ tt # <<>> /\ Front(tt) = ss /\ Last(tt) = s
    BY FrontLastAppend
  <2> HIDE DEF tt, Step
  <2>2. Join[tt] = Step(Join[ss], s)
    BY <1>4, <2>1
  <2>3. QED
    BY <2>2 DEF tt
<1>7. QED
  BY <1>5, <1>6

-----------------------------------------------------------------------------
(* path.Clean: what the recursions compute. *)

LEMMA SegmentsType ==
  \A p \in Seq(Chars) : Segments[p] \in Seq(Bare) /\ Segments[p] # <<>>
<1> DEFINE Q == {p \in Seq(Chars) : Segments[p] \in Seq(Bare) /\ Segments[p] # <<>>}
<1>1. <<>> \in Q
  <2> DEFINE root == <<<<>>>>
  <2>1. <<>> \in Bare
    BY BareIsPath
  <2>2. root \in Seq(Bare) /\ Len(root) = 1
    BY <2>1, Single
  <2>3. Segments[<<>>] = root
    BY SegmentsEquation
  <2> HIDE DEF root
  <2>4. root # <<>>
    BY <2>2, Empty
  <2>5. QED
    BY <2>2, <2>3, <2>4, Empty
<1>2. ASSUME NEW p \in Seq(Chars), NEW c \in Chars, p \in Q PROVE Append(p, c) \in Q
  <2> DEFINE ss == Segments[p]
  <2>1. ss \in Seq(Bare) /\ ss # <<>>
    BY <1>2
  <2>2. Segments[Append(p, c)] = IF c = "/" THEN Append(ss, <<>>)
                                 ELSE Append(Front(ss), Append(Last(ss), c))
    BY SegmentsEquation
  <2> HIDE DEF ss
  <2>3. Append(p, c) \in Seq(Chars)
    BY FrontLastAppend
  <2>4. CASE c = "/"
    <3>1. Append(ss, <<>>) \in Seq(Bare) /\ Append(ss, <<>>) # <<>>
      BY <2>1, BareIsPath, FrontLastAppend
    <3>2. QED
      BY <2>2, <2>3, <2>4, <3>1
  <2>5. CASE c # "/"
    <3>1. Front(ss) \in Seq(Bare) /\ Last(ss) \in Bare
      BY <2>1, FrontLast
    <3>2. Append(Last(ss), c) \in Bare
      BY <2>5, <3>1 DEF Bare
    <3> DEFINE l == Append(Last(ss), c)
               t == Append(Front(ss), l)
    <3>3. t \in Seq(Bare) /\ t # <<>>
      <4>1. l \in Bare
        BY <3>2
      <4> HIDE DEF l
      <4>2. QED
        BY <3>1, <4>1, AppendProperties
    <3>4. QED
      BY <2>2, <2>3, <2>5, <3>3
  <2>6. QED
    BY <2>4, <2>5
<1>3. \A p \in Seq(Chars) : p \in Q
  <2> HIDE DEF Q
  <2> QED
    BY <1>1, <1>2, SeqInductionSet
<1>4. QED
  BY <1>3

\* Sequences of segments, as the domains of Resolved and Join have them.
LEMMA SegmentsAreBare ==
  /\ Seq(Bare) \subseteq Seq(Seq(Chars)) /\ Seq(Normal) \subseteq Seq(Bare)
  /\ Seq(Normal) \subseteq Seq(Seq(Chars))
<1>1. ASSUME NEW ss \in Seq(Bare) PROVE ss \in Seq(Seq(Chars))
  BY BareIsPath, SeqMonotonic
<1>2. ASSUME NEW ss \in Seq(Normal) PROVE ss \in Seq(Bare)
  BY BareIsPath, SeqMonotonic
<1>3. QED
  BY <1>1, <1>2

\* What is left has no ".", "..", or empty segment.
LEMMA ResolvedType ==
  \A ss \in Seq(Bare) : Resolved[ss] \in Seq(Normal)
<1> DEFINE Q == {ss \in Seq(Bare) : Resolved[ss] \in Seq(Normal)}
<1>1. <<>> \in Q
  BY ResolvedEquation, Empty
<1>2. ASSUME NEW ss \in Seq(Bare), NEW s \in Bare, ss \in Q PROVE Append(ss, s) \in Q
  <2> DEFINE t == Resolved[ss]
  <2>1. t \in Seq(Normal)
    BY <1>2
  <2>2. Resolved[Append(ss, s)] = Resolve(t, s)
    BY ResolvedEquation, SegmentsAreBare, BareIsPath
  <2> HIDE DEF t
  <2>3. t # <<>> => Front(t) \in Seq(Normal)
    BY <2>1, FrontLast
  <2>4. s \notin {<<>>, <<".">>, <<".", ".">>} => Append(t, s) \in Seq(Normal)
    <3>1. s \notin {<<>>, <<".">>, <<".", ".">>} => s \in Normal
      BY DEF Normal
    <3>2. QED
      BY <2>1, <3>1, FrontLastAppend
  <2>5. Resolve(t, s) \in Seq(Normal)
    BY <2>1, <2>3, <2>4, Empty DEF Resolve
  <2>6. Append(ss, s) \in Seq(Bare)
    BY FrontLastAppend
  <2>7. QED
    BY <2>2, <2>5, <2>6
<1>3. \A ss \in Seq(Bare) : ss \in Q
  <2> HIDE DEF Q
  <2> QED
    BY <1>1, <1>2, SeqInductionSet
<1>4. QED
  BY <1>3

\* Segments that need not be resolved are left as they are.
LEMMA ResolvedNormal ==
  \A ss \in Seq(Normal) : Resolved[<<<<>>>> \o ss] = ss
<1> DEFINE root == <<<<>>>>
           Q == {ss \in Seq(Normal) : Resolved[root \o ss] = ss}
<1>1. root \in Seq(Seq(Chars)) /\ root = Append(<<>>, <<>>)
  <2>1. <<>> \in Seq(Chars)
    BY Empty
  <2>2. root \in Seq(Seq(Chars))
    BY <2>1, Single
  <2>3. QED
    BY <2>2
<1> HIDE DEF root
<1>2. <<>> \in Q
  <2>1. root \o <<>> = root
    BY <1>1, ConcatEmptySeq
  <2>2. <<>> \in Seq(Seq(Chars)) /\ <<>> \in Seq(Chars) /\ <<>> \in Seq(Normal)
    BY Empty
  <2>3. Resolved[root] = Resolve(Resolved[<<>>], <<>>)
    BY <1>1, <2>2, ResolvedEquation
  <2>4. Resolved[root] = <<>>
    BY <2>3, ResolvedEquation DEF Resolve
  <2>5. QED
    BY <2>1, <2>2, <2>4
<1>3. ASSUME NEW ss \in Seq(Normal), NEW s \in Normal, ss \in Q PROVE Append(ss, s) \in Q
  <2>1. ss \in Seq(Seq(Chars)) /\ s \in Seq(Chars)
    BY SegmentsAreBare, BareIsPath
  <2>2. root \o Append(ss, s) = Append(root \o ss, s) /\ root \o ss \in Seq(Seq(Chars))
    BY <1>1, <2>1, ConcatAppend
  <2>3. Resolved[root \o Append(ss, s)] = Resolve(ss, s)
    BY <1>3, <2>1, <2>2, ResolvedEquation
  <2>4. Resolve(ss, s) = Append(ss, s)
    BY DEF Resolve, Normal
  <2>5. Append(ss, s) \in Seq(Normal)
    BY FrontLastAppend
  <2>6. QED
    BY <2>3, <2>4, <2>5
<1>4. \A ss \in Seq(Normal) : ss \in Q
  <2> HIDE DEF Q
  <2> QED
    BY <1>2, <1>3, SeqInductionSet
<1>5. QED
  BY <1>4 DEF root

-----------------------------------------------------------------------------
(* Paths that are joined segments. *)

Slash == <<"/">>

LEMMA SlashType ==
  /\ Slash \in Seq(Chars) /\ Len(Slash) = 1 /\ Slash # <<>>
  /\ Slash[1] = "/" /\ Last(Slash) = "/" /\ Head(Slash) = "/"
  /\ \A p \in Seq(Chars) : p \o Slash = Append(p, "/")
<1>1. Slash \in Seq(Chars) /\ Len(Slash) = 1 /\ Slash[1] = "/"
  BY CharTypes, Single DEF Slash
<1>2. Slash # <<>>
  BY <1>1, Empty
<1>3. Last(Slash) = "/"
  BY <1>1 DEF Last
<1>4. Head(Slash) = "/"
  BY <1>1, <1>2, HeadTailProperties
<1>5. ASSUME NEW p \in Seq(Chars) PROVE p \o Slash = Append(p, "/")
  BY CharTypes, AppendIsConcat DEF Slash
<1>6. QED
  BY <1>1, <1>2, <1>3, <1>4, <1>5

\* The ends of a concatenation.
LEMMA ConcatEnds ==
  ASSUME NEW S, NEW s \in Seq(S), NEW t \in Seq(S)
  PROVE  /\ t # <<>> => s \o t # <<>> /\ Last(s \o t) = Last(t)
         /\ s # <<>> => s \o t # <<>> /\ Head(s \o t) = Head(s) /\ Head(s) = s[1]
<1>1. s \o t \in Seq(S) /\ Len(s \o t) = Len(s) + Len(t) /\ Len(s) \in Nat /\ Len(t) \in Nat
  BY Concat, Length
<1>2. ASSUME t # <<>> PROVE s \o t # <<>> /\ Last(s \o t) = Last(t)
  <2>1. Len(t) \in 1 .. Len(t)
    BY <1>1, <1>2, EmptySeq
  <2>2. (s \o t)[Len(s) + Len(t)] = t[Len(t)]
    BY <2>1, Concat
  <2>3. QED
    BY <1>1, <1>2, <2>2, ConcatEqualIffEmpty DEF Last
<1>3. ASSUME s # <<>> PROVE s \o t # <<>> /\ Head(s \o t) = Head(s) /\ Head(s) = s[1]
  <2>1. 1 \in 1 .. Len(s)
    BY <1>1, <1>3, EmptySeq
  <2>2. (s \o t)[1] = s[1]
    BY <2>1, Concat
  <2>3. s \o t # <<>>
    BY <1>3, ConcatEqualIffEmpty
  <2>4. Head(s) = s[1]
    BY <1>3, HeadTailProperties
  <2>5. Head(s \o t) = (s \o t)[1]
    <3> DEFINE u == s \o t
    <3>1. u \in Seq(S) /\ u # <<>>
      BY <1>1, <2>3
    <3> HIDE DEF u
    <3>2. Head(u) = u[1]
      BY <3>1, HeadTailProperties
    <3>3. QED
      BY <3>2 DEF u
  <2>6. QED
    BY <2>2, <2>3, <2>4, <2>5
<1>4. QED
  BY <1>2, <1>3

LEMMA JoinType ==
  ASSUME NEW ss \in Seq(Bare)
  PROVE  /\ Join[ss] \in Seq(Chars)
         /\ ss # <<>> => Join[ss] # <<>> /\ Head(Join[ss]) = "/"
<1> DEFINE Q == {tt \in Seq(Bare) : /\ Join[tt] \in Seq(Chars)
                                    /\ tt # <<>> => Join[tt] # <<>> /\ Head(Join[tt]) = "/"}
<1>1. <<>> \in Q
  BY JoinEquation, Empty
<1>2. ASSUME NEW tt \in Seq(Bare), NEW s \in Bare, tt \in Q PROVE Append(tt, s) \in Q
  <2> DEFINE p == Join[tt]
  <2>1. /\ tt \in Seq(Seq(Chars)) /\ s \in Seq(Chars) /\ p \in Seq(Chars)
        /\ tt # <<>> => p # <<>> /\ Head(p) = "/"
    BY <1>2, SegmentsAreBare, BareIsPath
  <2>2. Join[Append(tt, s)] = (p \o Slash) \o s
    BY <2>1, JoinEquation DEF Slash
  <2>3. tt = <<>> => p = <<>>
    BY JoinEquation
  <2> HIDE DEF p
  <2>4. p \o Slash \in Seq(Chars) /\ p \o Slash # <<>>
    BY <2>1, SlashType, Concat, ConcatEnds
  <2>5. Head(p \o Slash) = "/"
    <3>1. CASE tt = <<>>
      <4>1. p \o Slash = Slash
        BY <2>3, <3>1, SlashType, ConcatEmptySeq
      <4>2. QED
        BY <4>1, SlashType
    <3>2. CASE tt # <<>>
      BY <2>1, <3>2, SlashType, ConcatEnds
    <3>3. QED
      BY <3>1, <3>2
  <2>6. (p \o Slash) \o s \in Seq(Chars)
    BY <2>1, <2>4, Concat
  <2>7. (p \o Slash) \o s # <<>> /\ Head((p \o Slash) \o s) = "/"
    BY <2>1, <2>4, <2>5, ConcatEnds
  <2>8. Append(tt, s) \in Seq(Bare)
    BY FrontLastAppend
  <2>9. QED
    BY <2>2, <2>6, <2>7, <2>8
<1>3. \A tt \in Seq(Bare) : tt \in Q
  <2> HIDE DEF Q
  <2> QED
    BY <1>1, <1>2, SeqInductionSet
<1>4. QED
  BY <1>3

\* One that has no empty segment does not end with a slash.
LEMMA JoinNormal ==
  ASSUME NEW ss \in Seq(Normal)
  PROVE  /\ Join[ss] \in Seq(Chars)
         /\ ss # <<>> => Join[ss] # <<>> /\ Head(Join[ss]) = "/" /\ Last(Join[ss]) # "/"
<1>1. ss \in Seq(Bare)
  BY SegmentsAreBare
<1>2. ASSUME ss # <<>> PROVE Last(Join[ss]) # "/"
  <2> DEFINE tt == Front(ss)
             s  == Last(ss)
  <2>1. tt \in Seq(Normal) /\ s \in Normal /\ Append(tt, s) = ss
    BY <1>2, FrontLast
  <2> HIDE DEF tt, s
  <2>2. tt \in Seq(Bare) /\ s \in Bare /\ s # <<>>
    BY <2>1, SegmentsAreBare DEF Normal
  <2>3. tt \in Seq(Seq(Chars)) /\ s \in Seq(Chars)
    BY <2>2, SegmentsAreBare, BareIsPath
  <2>4. Join[ss] = (Join[tt] \o Slash) \o s
    BY <2>1, <2>3, JoinEquation DEF Slash
  <2>5. Join[tt] \o Slash \in Seq(Chars)
    BY <2>2, JoinType, SlashType, Concat
  <2>6. Last(Join[ss]) = Last(s)
    <3> DEFINE q == Join[tt] \o Slash
    <3>1. q \in Seq(Chars) /\ Join[ss] = q \o s
      BY <2>4, <2>5
    <3> HIDE DEF q
    <3>2. Last(q \o s) = Last(s)
      BY <2>2, <2>3, <3>1, ConcatEnds
    <3>3. QED
      BY <3>1, <3>2
  <2>7. Last(s) \in Chars \ {"/"}
    BY <2>2, FrontLast DEF Bare
  <2>8. QED
    BY <2>6, <2>7
<1>3. QED
  BY <1>1, <1>2, JoinType

\* A segment at the end of a path is part of its last segment.
LEMMA SegmentsConcat ==
  ASSUME NEW p \in Seq(Chars), NEW s \in Bare
  PROVE  Segments[p \o s] = Append(Front(Segments[p]), Last(Segments[p]) \o s)
<1> DEFINE ss == Front(Segments[p])
           l  == Last(Segments[p])
           Q  == {t \in Bare : Segments[p \o t] = Append(ss, l \o t)}
<1>1. /\ ss \in Seq(Bare) /\ l \in Bare /\ Append(ss, l) = Segments[p]
      /\ ss \in Seq(Seq(Chars)) /\ l \in Seq(Chars)
  BY SegmentsType, FrontLast, SegmentsAreBare, BareIsPath
<1> HIDE DEF ss, l
<1>2. <<>> \in Q
  <2>1. p \o <<>> = p /\ l \o <<>> = l
    BY <1>1, ConcatEmptySeq
  <2>2. QED
    BY <1>1, <2>1, BareIsPath
<1>3. ASSUME NEW t \in Bare, NEW c \in Chars \ {"/"}, t \in Q PROVE Append(t, c) \in Q
  <2>1. t \in Seq(Chars) /\ c \in Chars /\ c # "/" /\ Append(t, c) \in Bare
    BY BareIsPath DEF Bare
  <2>2. p \o Append(t, c) = Append(p \o t, c) /\ p \o t \in Seq(Chars)
    BY <2>1, ConcatAppend
  <2>3. l \o Append(t, c) = Append(l \o t, c) /\ l \o t \in Seq(Chars)
    BY <1>1, <2>1, ConcatAppend
  <2> DEFINE m == l \o t
             q == p \o t
  <2>4. Segments[q] = Append(ss, m) /\ m \in Seq(Chars) /\ q \in Seq(Chars)
    BY <1>3, <2>2, <2>3
  <2> HIDE DEF m, q
  <2>5. Front(Segments[q]) = ss /\ Last(Segments[q]) = m
    BY <1>1, <2>4, FrontLastAppend
  <2>6. Segments[Append(q, c)] = Append(ss, Append(m, c))
    BY <2>1, <2>4, <2>5, SegmentsEquation
  <2>7. QED
    BY <2>1, <2>2, <2>3, <2>6 DEF m, q
<1>4. \A t \in Seq(Chars \ {"/"}) : t \in Q
  <2>1. \A t \in Seq(Chars \ {"/"}), c \in Chars \ {"/"} : t \in Q => Append(t, c) \in Q
    BY <1>3 DEF Bare
  <2> HIDE DEF Q
  <2> QED
    BY <1>2, <2>1, SeqInductionSet
<1>5. QED
  BY <1>4 DEF Bare, ss, l

\* The segments of a path that is joined are those it is joined of.
LEMMA SegmentsOfJoin ==
  ASSUME NEW ss \in Seq(Bare)
  PROVE  Segments[Join[ss]] = <<<<>>>> \o ss
<1> DEFINE root == <<<<>>>>
           Q == {tt \in Seq(Bare) : Segments[Join[tt]] = root \o tt}
<1>1. root \in Seq(Bare)
  BY BareIsPath, Single
<1>2. Segments[<<>>] = root
  BY SegmentsEquation
<1> HIDE DEF root
<1>3. <<>> \in Q
  <2>1. root \o <<>> = root
    BY <1>1, ConcatEmptySeq
  <2>2. QED
    BY <1>2, <2>1, JoinEquation, Empty
<1>4. ASSUME NEW tt \in Seq(Bare), NEW s \in Bare, tt \in Q PROVE Append(tt, s) \in Q
  <2> DEFINE p == Join[tt]
             u == root \o tt
  <2>1. p \in Seq(Chars) /\ Segments[p] = u /\ u \in Seq(Bare)
    BY <1>1, <1>4, JoinType, Concat
  <2>2. root \o Append(tt, s) = Append(u, s)
    BY <1>1
  <2>3. Join[Append(tt, s)] = (p \o Slash) \o s
    BY JoinEquation, SegmentsAreBare, BareIsPath DEF Slash
  <2> HIDE DEF p, u
  <2>4. Segments[p \o Slash] = Append(u, <<>>) /\ p \o Slash \in Seq(Chars)
    <3>1. Segments[Append(p, "/")] = Append(u, <<>>)
      BY <2>1, CharTypes, SegmentsEquation
    <3>2. QED
      BY <2>1, <3>1, SlashType, Concat
  <2>5. Front(Append(u, <<>>)) = u /\ Last(Append(u, <<>>)) = <<>>
    BY <2>1, BareIsPath, FrontLastAppend
  <2>6. Segments[(p \o Slash) \o s] = Append(u, <<>> \o s)
    BY <2>4, <2>5, SegmentsConcat
  <2>7. <<>> \o s = s
    BY ConcatEmptySeq DEF Bare
  <2>8. Append(tt, s) \in Seq(Bare)
    BY FrontLastAppend
  <2>9. QED
    BY <2>2, <2>3, <2>6, <2>7, <2>8
<1>5. \A tt \in Seq(Bare) : tt \in Q
  <2> HIDE DEF Q
  <2> QED
    BY <1>3, <1>4, SeqInductionSet
<1>6. QED
  BY <1>5 DEF root

-----------------------------------------------------------------------------
(* What Clean returns. *)

\* The path of these segments, with a slash at its end.
Dir(segments) == Join[segments] \o Slash

\* What path.Clean leaves of the segments of a path.
Left(p) == Resolved[Segments[Rooted(p)]]

LEMMA DirType ==
  ASSUME NEW ss \in Seq(Normal)
  PROVE  /\ Dir(ss) \in Seq(Chars) /\ Dir(ss) # <<>>
         /\ Head(Dir(ss)) = "/" /\ Last(Dir(ss)) = "/"
         /\ Dir(<<>>) = Slash /\ Join[<<>>] = <<>>
<1>1. Join[ss] \in Seq(Chars) /\ (ss # <<>> => Join[ss] # <<>> /\ Head(Join[ss]) = "/")
  BY JoinNormal
<1>2. Join[<<>>] = <<>>
  BY JoinEquation
<1>3. Dir(<<>>) = Slash
  BY <1>2, SlashType, ConcatEmptySeq DEF Dir
<1>4. Dir(ss) \in Seq(Chars) /\ Dir(ss) # <<>> /\ Last(Dir(ss)) = "/"
  BY <1>1, SlashType, Concat, ConcatEnds DEF Dir
<1>5. Head(Dir(ss)) = "/"
  <2>1. CASE ss = <<>>
    BY <1>3, <2>1, SlashType
  <2>2. CASE ss # <<>>
    BY <1>1, <2>2, SlashType, ConcatEnds DEF Dir
  <2>3. QED
    BY <2>1, <2>2
<1>6. QED
  BY <1>2, <1>3, <1>4, <1>5

LEMMA RootedIs ==
  ASSUME NEW p \in Seq(Chars)
  PROVE  /\ Rooted(p) \in Seq(Chars)
         /\ p # <<>> /\ Head(p) = "/" => Rooted(p) = p
BY SlashType, Concat DEF Rooted, Slash

LEMMA LeftType ==
  ASSUME NEW p \in Seq(Chars)
  PROVE  Left(p) \in Seq(Normal)
BY RootedIs, SegmentsType, ResolvedType DEF Left

LEMMA SegmentsOfDir ==
  ASSUME NEW ss \in Seq(Normal)
  PROVE  Segments[Dir(ss)] = Append(<<<<>>>> \o ss, <<>>)
<1>1. Segments[Join[ss]] = <<<<>>>> \o ss /\ Join[ss] \in Seq(Chars)
  BY SegmentsOfJoin, SegmentsAreBare, JoinNormal
<1>2. Segments[Append(Join[ss], "/")] = Append(Segments[Join[ss]], <<>>)
  BY <1>1, CharTypes, SegmentsEquation
<1>3. QED
  BY <1>1, <1>2, SlashType DEF Dir

LEMMA PathCleanIs ==
  ASSUME NEW ss \in Seq(Normal)
  PROVE  LET np == IF ss = <<>> THEN Slash ELSE Join[ss]
         IN  PathClean(Join[ss]) = np /\ PathClean(Dir(ss)) = np
<1> DEFINE root == <<<<>>>>
<1>1. root \in Seq(Seq(Chars))
  <2>1. <<>> \in Seq(Chars)
    BY Empty
  <2>2. QED
    BY <2>1, Single
<1>2. Resolved[root \o ss] = ss
  BY ResolvedNormal
<1>3. Segments[Join[ss]] = root \o ss
  BY SegmentsOfJoin, SegmentsAreBare
<1>4. Segments[Dir(ss)] = Append(root \o ss, <<>>)
  BY SegmentsOfDir
<1> HIDE DEF root
<1>5. Resolved[Segments[Dir(ss)]] = ss
  <2>1. root \o ss \in Seq(Seq(Chars)) /\ <<>> \in Seq(Chars)
    BY <1>1, SegmentsAreBare, Concat, Empty
  <2>2. Resolved[Append(root \o ss, <<>>)] = Resolve(ss, <<>>)
    BY <1>2, <2>1, ResolvedEquation
  <2>3. QED
    BY <1>4, <2>2 DEF Resolve
<1>6. Resolved[Segments[Join[ss]]] = ss
  BY <1>2, <1>3
<1>7. QED
  BY <1>5, <1>6 DEF PathClean, Slash

LEMMA CleanJoin ==
  ASSUME NEW ss \in Seq(Normal), ss # <<>>
  PROVE  Clean(Join[ss]) = Join[ss]
<1>1. Rooted(Join[ss]) = Join[ss] /\ Last(Join[ss]) # "/"
  BY JoinNormal, RootedIs
<1>2. PathClean(Join[ss]) = Join[ss]
  BY PathCleanIs
<1>3. QED
  BY <1>1, <1>2 DEF Clean

LEMMA CleanDir ==
  ASSUME NEW ss \in Seq(Normal)
  PROVE  Clean(Dir(ss)) = Dir(ss)
<1>1. Rooted(Dir(ss)) = Dir(ss) /\ Last(Dir(ss)) = "/"
  BY DirType, RootedIs
<1>2. CASE ss = <<>>
  <2>1. PathClean(Dir(ss)) = Slash /\ Dir(ss) = Slash
    BY <1>2, PathCleanIs, DirType
  <2>2. QED
    BY <1>1, <2>1 DEF Clean, Slash
<1>3. CASE ss # <<>>
  <2>1. PathClean(Dir(ss)) = Join[ss]
    BY <1>3, PathCleanIs
  <2>2. Join[ss] # Slash
    BY <1>3, JoinNormal, SlashType
  <2>3. QED
    BY <1>1, <2>1, <2>2 DEF Clean, Slash, Dir
<1>4. QED
  BY <1>2, <1>3

\* The form of a clean path.
LEMMA CleanForm ==
  ASSUME NEW p \in Seq(Chars)
  PROVE  Clean(p) = IF Last(Rooted(p)) = "/" \/ Left(p) = <<>> THEN Dir(Left(p))
                    ELSE Join[Left(p)]
<1> DEFINE ss == Left(p)
<1>1. ss \in Seq(Normal)
  BY LeftType
<1>2. PathClean(Rooted(p)) = IF ss = <<>> THEN Slash ELSE Join[ss]
  BY DEF PathClean, Left, Slash
<1> HIDE DEF ss
<1>3. CASE ss = <<>>
  <2>1. Clean(p) = Slash
    BY <1>2, <1>3 DEF Clean, Slash
  <2>2. Dir(ss) = Slash
    BY <1>3, DirType, Empty
  <2>3. QED
    BY <1>3, <2>1, <2>2 DEF ss
<1>4. CASE ss # <<>>
  <2>1. Join[ss] # Slash
    BY <1>1, <1>4, JoinNormal, SlashType
  <2>2. Clean(p) = IF Last(Rooted(p)) = "/" THEN Dir(ss) ELSE Join[ss]
    BY <1>2, <1>4, <2>1 DEF Clean, Slash, Dir
  <2>3. QED
    BY <1>4, <2>2 DEF ss
<1>5. QED
  BY <1>3, <1>4

LEMMA CleanType ==
  ASSUME NEW p \in Seq(Chars)
  PROVE  /\ Clean(p) \in Seq(Chars) /\ Clean(p) # <<>> /\ Head(Clean(p)) = "/"
         /\ Clean(Clean(p)) = Clean(p)
         /\ Last(Clean(p)) = "/" => Clean(p) = Dir(Left(p))
         /\ Last(Clean(p)) # "/" => Left(p) # <<>> /\ Clean(p) = Join[Left(p)]
<1> DEFINE ss == Left(p)
<1>1. ss \in Seq(Normal)
  BY LeftType
<1>2. Clean(p) = IF Last(Rooted(p)) = "/" \/ ss = <<>> THEN Dir(ss) ELSE Join[ss]
  BY CleanForm
<1> HIDE DEF ss
<1>3. CASE Last(Rooted(p)) = "/" \/ ss = <<>>
  <2>1. Clean(p) = Dir(ss)
    BY <1>2, <1>3
  <2>2. QED
    BY <1>1, <2>1, DirType, CleanDir DEF ss
<1>4. CASE ~(Last(Rooted(p)) = "/" \/ ss = <<>>)
  <2>1. Clean(p) = Join[ss] /\ ss # <<>>
    BY <1>2, <1>4
  <2>2. QED
    BY <1>1, <2>1, JoinNormal, CleanJoin DEF ss
<1>5. QED
  BY <1>3, <1>4

LEMMA TailOfRoot ==
  ASSUME NEW tt \in Seq(Bare)
  PROVE  Tail(<<<<>>>> \o tt) = tt
<1> DEFINE root == <<<<>>>>
<1>1. root \in Seq(Bare) /\ Len(root) = 1
  BY BareIsPath, Single
<1> HIDE DEF root
<1>2. Tail(root \o tt) = tt
  <2> DEFINE u == root \o tt
  <2>1. u \in Seq(Bare) /\ Len(u) = Len(tt) + 1 /\ u # <<>> /\ Len(tt) \in Nat
    <3>1. u \in Seq(Bare) /\ Len(u) = Len(root) + Len(tt) /\ Len(tt) \in Nat
      BY <1>1, Concat, Length
    <3> HIDE DEF u
    <3>2. Len(u) = Len(tt) + 1 /\ Len(u) # 0
      BY ONLY <1>1, <3>1
    <3>3. QED
      BY <3>1, <3>2, Empty
  <2>2. \A i \in 1 .. Len(tt) : u[i + 1] = tt[i]
    <3>1. \A i \in 1 .. Len(tt) : u[Len(root) + i] = tt[i]
      <4>1. root \in Seq(Bare)
        BY <1>1
      <4>2. QED
        BY ONLY <4>1, tt \in Seq(Bare), Concat
    <3> HIDE DEF u
    <3>2. QED
      BY <1>1, <2>1, <3>1
  <2> HIDE DEF u
  <2>3. Tail(u) \in Seq(Bare) /\ Len(Tail(u)) = Len(tt)
    BY <2>1, HeadTailProperties
  <2>4. \A i \in 1 .. Len(tt) : Tail(u)[i] = u[i + 1]
    BY <2>1, HeadTailProperties
  <2>5. Tail(u) = tt
    BY <2>2, <2>3, <2>4, SeqEqual
  <2>6. QED
    BY <2>5 DEF u
<1>3. QED
  BY <1>2 DEF root

LEMMA RootedAppend ==
  ASSUME NEW ss \in Seq(Bare)
  PROVE  Append(<<<<>>>> \o ss, <<>>) = <<<<>>>> \o Append(ss, <<>>)
<1> DEFINE Agree(s, t, a) == s \o Append(t, a) = Append(s \o t, a)
<1>1. ASSUME NEW S PROVE \A s, t \in Seq(S), a \in S : Agree(s, t, a)
  BY ConcatAppend
<1>2. <<>> \in Bare /\ <<<<>>>> \in Seq(Bare)
  BY BareIsPath, Single
<1>3. Agree(<<<<>>>>, ss, <<>>)
  <2> HIDE DEF Agree
  <2>1. QED
    BY <1>1, <1>2
<1>4. QED
  BY <1>3

\* The conjunct of CleanIsClean about one path.
LEMMA CleanSegments ==
  ASSUME NEW p \in Seq(Chars)
  PROVE  \A s \in ToSet(Front(Tail(Segments[Clean(p)]))) :
           s \notin {<<>>, <<".">>, <<".", ".">>}
<1> DEFINE ss == Left(p)
<1>1. ss \in Seq(Normal) /\ ss \in Seq(Bare)
  BY LeftType, SegmentsAreBare
<1>2. Clean(p) = IF Last(Rooted(p)) = "/" \/ ss = <<>> THEN Dir(ss) ELSE Join[ss]
  BY CleanForm
<1> HIDE DEF ss
<1>3. ASSUME NEW tt \in Seq(Normal)
      PROVE  \A s \in ToSet(tt) : s \notin {<<>>, <<".">>, <<".", ".">>}
  <2>1. \A i \in DOMAIN tt : tt[i] \in Normal
    BY Length
  <2>2. QED
    BY <2>1 DEF ToSet, Normal
<1>4. CASE Last(Rooted(p)) = "/" \/ ss = <<>>
  <2>1. Clean(p) = Dir(ss)
    BY <1>2, <1>4
  <2>2. Append(ss, <<>>) \in Seq(Bare) /\ Front(Append(ss, <<>>)) = ss
    BY <1>1, BareIsPath, FrontLastAppend
  <2>3. Append(<<<<>>>> \o ss, <<>>) = <<<<>>>> \o Append(ss, <<>>)
    BY <1>1, RootedAppend
  <2>4. Front(Tail(Segments[Clean(p)])) = ss
    BY <1>1, <2>1, <2>2, <2>3, SegmentsOfDir, TailOfRoot
  <2>5. QED
    BY <1>1, <1>3, <2>4
<1>5. CASE ~(Last(Rooted(p)) = "/" \/ ss = <<>>)
  <2>1. Clean(p) = Join[ss] /\ ss # <<>>
    BY <1>2, <1>5
  <2>2. Tail(Segments[Clean(p)]) = ss
    BY <1>1, <2>1, SegmentsOfJoin, TailOfRoot
  <2>3. Front(ss) \in Seq(Normal)
    BY <1>1, <2>1, FrontLast
  <2>4. QED
    BY <1>3, <2>2, <2>3
<1>6. QED
  BY <1>4, <1>5

-----------------------------------------------------------------------------
(* Prefixes. *)

LEMMA PrefixIs ==
  ASSUME NEW S, NEW s \in Seq(S), NEW t \in Seq(S)
  PROVE  IsPrefix(s, t) <=> Len(s) <= Len(t) /\ \A i \in 1 .. Len(s) : s[i] = t[i]
<1>1. SubSeq(s, 1, Len(s)) = s /\ Len(s) \in Nat /\ Len(t) \in Nat
  BY SubSeqFull, Length
<1>2. ASSUME Len(s) <= Len(t)
      PROVE  (SubSeq(t, 1, Len(s)) = s) <=> (\A i \in 1 .. Len(s) : s[i] = t[i])
  <2> DEFINE u == SubSeq(t, 1, Len(s))
  <2>1. u \in Seq(S) /\ Len(u) = Len(s) /\ \A i \in 1 .. Len(s) : u[i] = t[i]
    <3>1. Len(s) \in 0 .. Len(t)
      BY <1>1, <1>2
    <3>2. QED
      BY <3>1, SubSeqPrefix
  <2> HIDE DEF u
  <2>2. (\A i \in 1 .. Len(s) : s[i] = t[i]) => u = s
    BY <2>1, SeqEqual
  <2>3. u = s => \A i \in 1 .. Len(s) : s[i] = t[i]
    BY <2>1
  <2>4. QED
    BY <2>2, <2>3 DEF u
<1>3. QED
  BY <1>1, <1>2 DEF IsPrefix

LEMMA PrefixOfConcat ==
  ASSUME NEW S, NEW s \in Seq(S), NEW t \in Seq(S)
  PROVE  IsPrefix(s, s \o t)
<1>1. /\ s \o t \in Seq(S) /\ Len(s \o t) = Len(s) + Len(t)
      /\ \A i \in 1 .. Len(s) : (s \o t)[i] = s[i]
      /\ Len(s) \in Nat /\ Len(t) \in Nat
  BY Concat, Length
<1> DEFINE u == s \o t
<1>prefix. u \in Seq(S) /\ Len(s) <= Len(u) /\ \A i \in 1 .. Len(s) : s[i] = u[i]
  BY <1>1
<1> HIDE DEF u
<1>2. IsPrefix(s, u)
  BY <1>prefix, PrefixIs
<1>3. QED
  BY <1>2 DEF u

LEMMA PrefixTransitive ==
  ASSUME NEW S, NEW s \in Seq(S), NEW t \in Seq(S), NEW u \in Seq(S),
         IsPrefix(s, t), IsPrefix(t, u)
  PROVE  IsPrefix(s, u)
<1>1. Len(s) \in Nat /\ Len(t) \in Nat /\ Len(u) \in Nat
  BY Length
<1>2. Len(s) <= Len(t) /\ \A i \in 1 .. Len(s) : s[i] = t[i]
  BY PrefixIs
<1>3. Len(t) <= Len(u) /\ \A i \in 1 .. Len(t) : t[i] = u[i]
  BY PrefixIs
<1>4. Len(s) <= Len(u) /\ \A i \in 1 .. Len(s) : s[i] = u[i]
  BY <1>1, <1>2, <1>3
<1>5. QED
  BY <1>4, PrefixIs

-----------------------------------------------------------------------------
(* The base path, and what is below it. *)

LEMMA NameTypes ==
  /\ "docs" \in Chars /\ "openapi.json" \in Chars
  /\ Routes = {"new", "status", "input", "closeInput", "cancel"}
  /\ Routes \subseteq Chars \ {"/", ".", "docs", "openapi.json"}
  /\ Ids \subseteq Chars \ {"/", "."}
BY ConstantsAssumption DEF Routes, Methods, Ids

\* A segment of one character, which is neither a slash nor a dot.
LEMMA NameIsNormal ==
  ASSUME NEW c \in Chars \ {"/", "."}
  PROVE  <<c>> \in Normal /\ <<c>> \in Seq(Chars) /\ Len(<<c>>) = 1 /\ <<c>>[1] = c
<1>1. <<c>> \in Seq(Chars \ {"/"}) /\ <<c>> \in Seq(Chars) /\ Len(<<c>>) = 1 /\ <<c>>[1] = c
  BY Single
<1>2. <<c>> # <<>>
  BY <1>1, Empty
<1>3. <<".">>[1] = "." /\ <<".", ".">>[1] = "."
  BY CharTypes, Single, Pair
<1>4. <<c>> # <<".">> /\ <<c>> # <<".", ".">>
  BY <1>1, <1>3
<1>5. QED
  BY <1>1, <1>2, <1>4 DEF Normal, Bare

Associates(s, t, u) == s \o (t \o u) = (s \o t) \o u

LEMMA ConcatAssociates ==
  ASSUME NEW S
  PROVE  \A s, t, u \in Seq(S) : Associates(s, t, u)
<1> SUFFICES ASSUME NEW s \in Seq(S), NEW t \in Seq(S), NEW u \in Seq(S)
             PROVE  s \o (t \o u) = (s \o t) \o u
  BY DEF Associates
<1> QED
  BY ConcatAssociative

LEMMA EndpointIs ==
  ASSUME NEW r \in Routes, NEW id \in Ids
  PROVE  LET e == Endpoint(r, id)
         IN  /\ e \in Seq(Chars) /\ e # <<>> /\ e[1] = r /\ Last(e) # "/"
             /\ e = IF r = "new" THEN <<r>> ELSE (<<r>> \o Slash) \o <<id>>
<1>1. r \in Chars \ {"/", "."} /\ id \in Chars \ {"/", "."}
  BY NameTypes
<1>2. /\ <<r>> \in Seq(Chars) /\ Len(<<r>>) = 1 /\ <<r>>[1] = r
      /\ <<id>> \in Seq(Chars) /\ Len(<<id>>) = 1 /\ <<id>>[1] = id
  BY <1>1, NameIsNormal
<1>3. CASE r = "new"
  <2>1. Endpoint(r, id) = <<r>>
    BY <1>3 DEF Endpoint
  <2>2. Last(<<r>>) = r /\ <<r>> # <<>>
    BY <1>2, Empty DEF Last
  <2>3. QED
    BY <1>1, <1>2, <1>3, <2>1, <2>2
<1>4. CASE r # "new"
  <2>1. Endpoint(r, id) = <<r, "/", id>>
    BY <1>4 DEF Endpoint
  <2>2. <<r, "/", id>> = (<<r>> \o Slash) \o <<id>>
    <3> DEFINE first == <<r>>
    <3>1. <<r, "/", id>> = Append(Append(first, "/"), id)
      OBVIOUS
    <3>2. first \in Seq(Chars)
      BY <1>2
    <3> HIDE DEF first
    <3>3. Append(first, "/") = first \o Slash /\ first \o Slash \in Seq(Chars)
      BY <3>2, SlashType, Concat
    <3> DEFINE second == first \o Slash
    <3> HIDE DEF second
    <3>4. Append(second, id) = second \o <<id>>
      BY <1>1, <3>3, AppendIsConcat DEF second
    <3>5. QED
      BY <3>1, <3>3, <3>4 DEF first, second
  <2> DEFINE a == <<r>>
             z == <<id>>
  <2>3. a \in Seq(Chars) /\ a # <<>> /\ a[1] = r /\ z \in Seq(Chars) /\ z # <<>> /\ Last(z) = id
    BY <1>2, Empty DEF Last
  <2> HIDE DEF a, z
  <2> DEFINE q == a \o Slash
  <2>4. q \in Seq(Chars) /\ q # <<>> /\ Head(q) = r
    BY <2>3, SlashType, Concat, ConcatEnds
  <2> HIDE DEF q
  <2>5. q \o z \in Seq(Chars) /\ q \o z # <<>> /\ Head(q \o z) = r /\ Last(q \o z) = id
    BY <2>3, <2>4, Concat, ConcatEnds
  <2> DEFINE e == q \o z
  <2>6. e = Endpoint(r, id)
    BY <2>1, <2>2 DEF a, z, q
  <2> HIDE DEF e
  <2>7. e \in Seq(Chars) /\ e # <<>> /\ Head(e) = r /\ Last(e) = id
    BY <2>5 DEF e
  <2>8. e[1] = r
    BY <2>7
  <2>9. QED
    BY <1>1, <1>4, <2>2, <2>1, <2>6, <2>7, <2>8
<1>5. QED
  BY <1>3, <1>4

\* The route of an endpoint is clean if the base ends with a slash.
LEMMA EndpointBelowDir ==
  ASSUME NEW ss \in Seq(Normal), NEW r \in Routes, NEW id \in Ids
  PROVE  LET p == Dir(ss) \o Endpoint(r, id)
         IN  p \in Seq(Chars) /\ p # <<>> /\ Clean(p) = p /\ Last(p) # "/"
<1> DEFINE d == Dir(ss)
           e == Endpoint(r, id)
           tt == Append(ss, <<r>>)
           uu == Append(tt, <<id>>)
<1>1. /\ <<r>> \in Normal /\ <<id>> \in Normal
      /\ <<r>> \in Seq(Chars) /\ <<id>> \in Seq(Chars)
  BY NameTypes, NameIsNormal
<1>2. d \in Seq(Chars) /\ e \in Seq(Chars) /\ e # <<>> /\ Last(e) # "/"
  BY DirType, EndpointIs
<1>3. tt \in Seq(Normal) /\ tt # <<>>
  BY <1>1, FrontLastAppend
<1>4. uu \in Seq(Normal) /\ uu # <<>>
  <2> HIDE DEF tt
  <2> QED
    BY <1>1, <1>3, FrontLastAppend
<1>5. Join[tt] = d \o <<r>>
  <2>1. Join[tt] = (Join[ss] \o Slash) \o <<r>>
    BY <1>1, SegmentsAreBare, JoinEquation DEF Slash
  <2>2. QED
    BY <2>1 DEF Dir
<1>6. Join[uu] = (Join[tt] \o Slash) \o <<id>>
  <2>1. tt \in Seq(Seq(Chars))
    BY <1>3, SegmentsAreBare
  <2> HIDE DEF tt
  <2>2. QED
    BY <1>1, <2>1, JoinEquation DEF Slash
<1>7. d \o e = IF r = "new" THEN Join[tt] ELSE Join[uu]
  <2>1. CASE r = "new"
    <3>1. e = <<r>>
      BY <2>1, EndpointIs
    <3>2. QED
      BY <1>5, <2>1, <3>1
  <2>2. CASE r # "new"
    <3> DEFINE a == <<r>>
               z == <<id>>
    <3>1. e = (a \o Slash) \o z
      BY <2>2, EndpointIs
    <3>2. Join[uu] = ((d \o a) \o Slash) \o z
      BY <1>5, <1>6
    <3>3. a \in Seq(Chars) /\ z \in Seq(Chars)
      BY <1>1
    <3> HIDE DEF a, z, d, e, tt, uu
    <3> DEFINE w == a \o Slash
    <3>4. d \o w = (d \o a) \o Slash
      <4>1. Associates(d, a, Slash)
        BY <1>2, <3>3, SlashType, ConcatAssociates
      <4>2. QED
        BY <4>1 DEF Associates
    <3>5. d \o (w \o z) = (d \o w) \o z
      <4>1. w \in Seq(Chars)
        BY <3>3, SlashType, Concat
      <4> HIDE DEF w
      <4>2. Associates(d, w, z)
        BY <1>2, <3>3, <4>1, ConcatAssociates
      <4>3. QED
        BY <4>2 DEF Associates
    <3>6. QED
      BY <2>2, <3>1, <3>2, <3>4, <3>5
  <2>3. QED
    BY <2>1, <2>2
<1> HIDE DEF tt, uu
<1>8. Clean(d \o e) = d \o e
  BY <1>3, <1>4, <1>7, CleanJoin
<1> HIDE DEF d, e
<1>9. d \o e \in Seq(Chars) /\ d \o e # <<>> /\ Last(d \o e) # "/"
  BY <1>2, Concat, ConcatEnds
<1>10. QED
  BY <1>8, <1>9 DEF d, e

\* Where the second sequence of a concatenation starts.
LEMMA ConcatNext ==
  ASSUME NEW S, NEW s \in Seq(S), NEW t \in Seq(S), t # <<>>
  PROVE  (s \o t)[Len(s) + 1] = t[1] /\ Len(s) + 1 \in 1 .. Len(s \o t)
<1>1. Len(t) \in Nat /\ Len(t) # 0 /\ Len(s) \in Nat
  BY EmptySeq, Length
<1>2. 1 \in 1 .. Len(t) /\ Len(s) + 1 \in 1 .. Len(s) + Len(t)
  BY ONLY <1>1
<1>3. (s \o t)[Len(s) + 1] = t[1]
  BY <1>2, Concat
<1>4. Len(s \o t) = Len(s) + Len(t)
  BY Concat
<1>5. QED
  BY <1>2, <1>3, <1>4

\* The client puts its paths below the base, whether that ends with a slash or not.
LEMMA ClientPathIs ==
  ASSUME base \in Seq(Chars), NEW r \in Routes, NEW id \in Ids
  PROVE  BuildURL(Clean(base), Endpoint(r, id)) = Dir(Left(base)) \o Endpoint(r, id)
<1> DEFINE ss == Left(base)
           e  == Endpoint(r, id)
<1>1. ss \in Seq(Normal) /\ Clean(base) # <<>>
  BY LeftType, CleanType
<1>2. Join[ss] \in Seq(Chars)
  BY <1>1, JoinNormal
<1>3. Last(Clean(base)) = "/" => Clean(base) = Dir(ss)
  BY CleanType
<1>4. Last(Clean(base)) # "/" => Clean(base) = Join[ss]
  BY CleanType
<1> HIDE DEF ss, e
<1>5. Front(Dir(ss)) = Join[ss]
  <2>1. Front(Append(Join[ss], "/")) = Join[ss]
    BY <1>2, CharTypes, FrontLastAppend
  <2>2. QED
    BY <1>2, <2>1, SlashType DEF Dir
<1>6. CASE Last(Clean(base)) = "/"
  <2>1. BuildURL(Clean(base), e) = (Front(Clean(base)) \o Slash) \o e
    BY <1>1, <1>6 DEF BuildURL, EndsWithSlash, Slash
  <2>2. QED
    BY <1>3, <1>5, <1>6, <2>1 DEF Dir, ss, e
<1>7. CASE Last(Clean(base)) # "/"
  <2>1. BuildURL(Clean(base), e) = (Clean(base) \o Slash) \o e
    BY <1>1, <1>7 DEF BuildURL, EndsWithSlash, Slash
  <2>2. QED
    BY <1>4, <1>7, <2>1 DEF Dir, ss, e
<1>8. QED
  BY <1>6, <1>7

\* The character after the base is the name of the route.
LEMMA RouteAt ==
  ASSUME NEW b \in Seq(Chars), NEW r \in Routes, NEW id \in Ids
  PROVE  /\ b \o Endpoint(r, id) \in Seq(Chars)
         /\ Len(b) + 1 \in 1 .. Len(b \o Endpoint(r, id))
         /\ (b \o Endpoint(r, id))[Len(b) + 1] = r
<1> DEFINE e == Endpoint(r, id)
<1>1. e \in Seq(Chars) /\ e # <<>> /\ e[1] = r
  BY EndpointIs
<1> HIDE DEF e
<1>2. (b \o e)[Len(b) + 1] = e[1] /\ Len(b) + 1 \in 1 .. Len(b \o e)
  BY <1>1, ConcatNext
<1>3. b \o e \in Seq(Chars)
  BY <1>1, Concat
<1>4. QED
  BY <1>1, <1>2, <1>3 DEF e

\* The cases of Mux.
LEMMA MuxIs ==
  ASSUME NEW method, NEW path
  PROVE  /\ ~Redirects(path) /\ Matches(path) # {} =>
              Mux(method, path) = IF method = Methods[Match(path)] THEN Match(path)
                                  ELSE "notAllowed"
         /\ \/ Mux(method, path) \in {"redirect", "docs", "openapi", "notAllowed", "notFound"}
            \/ Matches(path) # {} /\ Mux(method, path) = Match(path)
         /\ \/ Mux(method, path) = "notFound"
            \/ Mux(method, path) = "redirect" /\ Redirects(path)
            \/ Matches(path) # {} \/ IsPrefix(DocsPath, path) \/ path = OpenAPIPath
<1> DEFINE m == Mux(method, path)
<1>1. CASE Redirects(path)
  <2>1. m = "redirect"
    BY <1>1 DEF Mux
  <2>2. QED
    BY <1>1, <2>1
<1>2. CASE ~Redirects(path) /\ Matches(path) # {}
  <2>1. m = IF method = Methods[Match(path)] THEN Match(path) ELSE "notAllowed"
    BY <1>2 DEF Mux
  <2> HIDE DEF m
  <2>2. QED
    BY <1>2, <2>1 DEF m
<1>3. CASE ~Redirects(path) /\ Matches(path) = {}
  <2>1. m = IF IsPrefix(DocsPath, path) THEN "docs"
            ELSE IF path = OpenAPIPath THEN IF method = "GET" THEN "openapi" ELSE "notAllowed"
            ELSE "notFound"
    BY <1>3 DEF Mux
  <2> HIDE DEF m
  <2>2. m \in {"docs", "openapi", "notAllowed", "notFound"}
    BY <2>1
  <2>3. m = "notFound" \/ IsPrefix(DocsPath, path) \/ path = OpenAPIPath
    BY <2>1
  <2>4. m \in {"redirect", "docs", "openapi", "notAllowed", "notFound"}
    BY <2>2
  <2>5. QED
    BY <1>3, <2>3, <2>4 DEF m
<1>4. QED
  BY <1>1, <1>2, <1>3

\* Below a base that ends with a slash the route of an endpoint is found ...
LEMMA RouteIsFound ==
  ASSUME base \in Seq(Chars), BaseHasSlash, NEW r \in Routes, NEW id \in Ids
  PROVE  Mux(Methods[r], Route(r, id)) = r
<1> DEFINE b == Clean(base)
           p == Route(r, id)
<1>1. b \in Seq(Chars) /\ b = Dir(Left(base)) /\ Left(base) \in Seq(Normal)
  BY CleanType, LeftType DEF BaseHasSlash
<1>2. p = b \o Endpoint(r, id)
  BY DEF Route
<1>3. Clean(p) = p
  BY <1>1, <1>2, EndpointBelowDir
<1>4. p \in Seq(Chars) /\ Len(b) + 1 \in 1 .. Len(p) /\ p[Len(b) + 1] = r
  BY <1>1, <1>2, RouteAt
<1>5. ~Redirects(p)
  <2> DEFINE d == <<"docs", "/">>
  <2>1. d \in Seq(Chars) /\ Len(d) = 2 /\ d[1] = "docs"
    BY NameTypes, CharTypes, Pair
  <2> HIDE DEF p, b
  <2>2. (b \o d)[Len(b) + 1] = "docs"
    <3> HIDE DEF d
    <3>1. d # <<>>
      <4>1. Len(d) # 0
        BY <2>1
      <4>2. QED
        BY <4>1, Empty
    <3>2. (b \o d)[Len(b) + 1] = d[1]
      <4>1. b \in Seq(Chars)
        BY <1>1
      <4>2. QED
        BY <2>1, <3>1, <4>1, ConcatNext
    <3>3. QED
      BY <2>1, <3>2
  <2>3. (p \o Slash)[Len(b) + 1] = r
    BY <1>4, SlashType, Concat
  <2>4. r # "docs"
    BY NameTypes
  <2>5. QED
    BY <1>3, <2>2, <2>3, <2>4 DEF Redirects, DocsPath, Slash, d, b
<1>6. Matches(p) = {r}
  <2>1. r \in Matches(p)
    BY DEF Matches
  <2>2. ASSUME NEW r2 \in Routes, NEW id2 \in Ids, p = Route(r2, id2) PROVE r2 = r
    <3>1. (b \o Endpoint(r2, id2))[Len(b) + 1] = r2
      BY <1>1, RouteAt
    <3>2. QED
      BY <1>4, <2>2, <3>1 DEF Route
  <2>3. QED
    BY <2>1, <2>2 DEF Matches
<1>7. Match(p) = r
  BY <1>6 DEF Match
<1>8. Matches(p) # {}
  BY <1>6
<1>9. QED
  <2> HIDE DEF p
  <2>1. Mux(Methods[r], p) = r
    <3> DEFINE method == Methods[r]
    <3>1. Methods[Match(p)] = method
      BY <1>7
    <3> HIDE DEF method
    <3>2. Mux(method, p) = r
      BY <1>5, <1>7, <1>8, <3>1, MuxIs
    <3>3. QED
      BY <3>2 DEF method
  <2>2. QED
    BY <2>1 DEF p

\* ... and if the base does not end with one, the client's path is that of no route.
LEMMA RouteIsMissed ==
  ASSUME base \in Seq(Chars), ~BaseHasSlash,
         NEW r \in Routes, NEW id \in Ids, NEW r2 \in Routes, NEW id2 \in Ids
  PROVE  BuildURL(Clean(base), Endpoint(r, id)) # Route(r2, id2)
<1> DEFINE b == Clean(base)
           d == Dir(Left(base))
           e == Endpoint(r, id)
<1>1. b \in Seq(Chars) /\ b = Join[Left(base)] /\ Left(base) \in Seq(Normal)
  BY CleanType, LeftType DEF BaseHasSlash
<1>2. d = b \o Slash /\ d \in Seq(Chars) /\ e \in Seq(Chars)
  BY <1>1, DirType, EndpointIs DEF Dir
<1>3. BuildURL(b, e) = d \o e
  BY ClientPathIs
<1>4. (b \o Endpoint(r2, id2))[Len(b) + 1] = r2 /\ r2 # "/"
  <2>1. r2 # "/"
    BY NameTypes
  <2>2. b \in Seq(Chars)
    BY <1>1
  <2> HIDE DEF b
  <2>3. (b \o Endpoint(r2, id2))[Len(b) + 1] = r2
    BY <2>2, RouteAt
  <2>4. QED
    BY <2>1, <2>3
<1>5. Len(b) + 1 = Len(d) /\ Len(d) \in 1 .. Len(d) /\ d[Len(b) + 1] = "/"
  <2>1. 1 \in 1 .. Len(Slash) /\ Len(Slash) = 1 /\ Len(b) \in Nat /\ Slash \in Seq(Chars)
    BY <1>1, SlashType, Length
  <2> HIDE DEF b, d
  <2>type. b \in Seq(Chars)
    BY <1>1
  <2>2. (b \o Slash)[Len(b) + 1] = Slash[1]
    BY <2>type, SlashType, ConcatNext
  <2>3. Len(b \o Slash) = Len(b) + 1
    BY ONLY <2>1, <2>type, Concat
  <2>4. QED
    BY <1>2, <2>1, <2>2, <2>3, SlashType
<1>6. (d \o e)[Len(d)] = d[Len(d)]
  <2> HIDE DEF d, e
  <2> QED
    BY <1>2, <1>5, Concat
<1>7. QED
  <2> HIDE DEF d, e
  <2> QED
    BY <1>3, <1>4, <1>5, <1>6 DEF Route, e

\* A request gets to a route only by the REST server, and only to one of its path.
LEMMA HandlerIsRoute ==
  ASSUME disabled \subseteq {"rest", "websocket"}, NEW req, Handler(req) \in Routes
  PROVE  /\ "rest" \notin disabled /\ ~req.upgrade
         /\ Handler(req) = Mux(req.method, req.path)
         /\ \E id \in Ids : req.path = Route(Handler(req), id)
<1>1. "notFound" \notin Routes /\ "panic" \notin Routes /\ "websocket" \notin Routes
      /\ "redirect" \notin Routes /\ "docs" \notin Routes /\ "openapi" \notin Routes
      /\ "notAllowed" \notin Routes
  BY NameTypes
<1>2. Handler(req) = Rest(req) /\ "rest" \notin disabled
  <2>1. CASE disabled = {"rest", "websocket"}
    BY <1>1, <2>1 DEF Handler
  <2>2. CASE disabled = {"websocket"}
    BY <2>2 DEF Handler
  <2>3. CASE disabled # {"rest", "websocket"} /\ disabled # {"websocket"}
    <3>1. Handler(req) = Websocket(req)
      BY <2>3 DEF Handler
    <3>2. Websocket(req) = Fallback(req)
      BY <1>1, <3>1 DEF Websocket
    <3>3. QED
      BY <1>1, <3>1, <3>2 DEF Fallback
  <2>4. QED
    BY <2>1, <2>2, <2>3
<1>3. ~req.upgrade /\ Rest(req) = Mux(req.method, req.path)
  BY <1>1, <1>2 DEF Rest
<1> DEFINE m == Mux(req.method, req.path)
<1>4. m \in Routes
  BY <1>2, <1>3
<1>5. m \in Matches(req.path)
  <2>1. \/ m \in {"redirect", "docs", "openapi", "notAllowed", "notFound"}
        \/ Matches(req.path) # {} /\ m = Match(req.path)
    BY MuxIs
  <2>2. Matches(req.path) # {} => Match(req.path) \in Matches(req.path)
    BY DEF Match
  <2> HIDE DEF m
  <2>3. QED
    BY <1>1, <1>4, <2>1, <2>2
<1>6. QED
  BY <1>2, <1>3, <1>5 DEF Matches

-----------------------------------------------------------------------------
(* What the websocket server takes for its own. *)

\* The REST server has handlers only below the base.
LEMMA BelowBase ==
  ASSUME base \in Seq(Chars), NEW path \in Seq(Chars),
         Matches(path) # {} \/ IsPrefix(DocsPath, path) \/ path = OpenAPIPath
  PROVE  IsPrefix(Clean(base), path)
<1> DEFINE b == Clean(base)
<1>1. b \in Seq(Chars)
  BY CleanType
<1> HIDE DEF b
<1>2. CASE Matches(path) # {}
  <2>1. PICK r \in Routes, id \in Ids : path = Route(r, id)
    BY <1>2 DEF Matches
  <2>2. Endpoint(r, id) \in Seq(Chars) /\ path = b \o Endpoint(r, id)
    BY <2>1, EndpointIs DEF Route, b
  <2>3. QED
    BY <1>1, <2>2, PrefixOfConcat DEF b
<1>3. CASE IsPrefix(DocsPath, path)
  <2> DEFINE d == <<"docs", "/">>
  <2>1. d \in Seq(Chars)
    BY NameTypes, CharTypes, Pair
  <2>2. DocsPath = b \o d
    BY DEF DocsPath, b
  <2> HIDE DEF d
  <2>3. IsPrefix(b, DocsPath) /\ DocsPath \in Seq(Chars)
    BY <1>1, <2>1, <2>2, PrefixOfConcat, Concat
  <2>4. IsPrefix(b, path)
    BY <1>1, <1>3, <2>3, PrefixTransitive
  <2>5. QED
    BY <2>4 DEF b
<1>4. CASE path = OpenAPIPath
  <2> DEFINE d == <<"openapi.json">>
  <2>1. d \in Seq(Chars)
    BY NameTypes, Single
  <2>2. OpenAPIPath = b \o d
    BY DEF OpenAPIPath, b
  <2> HIDE DEF d
  <2>3. QED
    BY <1>1, <1>4, <2>1, <2>2, PrefixOfConcat DEF b
<1>5. QED
  BY <1>2, <1>3, <1>4

LEMMA PrefixIsValid ==
  ASSUME base \in Seq(Chars), NEW path \in Seq(Chars), IsPrefix(Clean(base), path)
  PROVE  IsValidRequestPath(path) /\ IsPrefix(Clean(base), path \o Slash)
<1>1. Clean(base) \in Seq(Chars) /\ path \o Slash \in Seq(Chars)
  BY CleanType, SlashType, Concat
<1>2. IsPrefix(path, path \o Slash)
  BY SlashType, PrefixOfConcat
<1>3. IsPrefix(Clean(base), path \o Slash)
  BY <1>1, <1>2, PrefixTransitive
<1>4. QED
  BY <1>3 DEF IsValidRequestPath, Slash

LEMMA DocsAreValid ==
  ASSUME base \in Seq(Chars), NEW path \in Seq(Chars), path \o Slash = DocsPath
  PROVE  IsValidRequestPath(path)
<1> DEFINE b == Clean(base)
           d == <<"docs", "/">>
<1>1. b \in Seq(Chars)
  BY CleanType
<1>2. d \in Seq(Chars) /\ Len(d) = 2 /\ d[1] = "docs" /\ d # <<>>
  BY NameTypes, CharTypes, Pair
<1>3. path \o Slash = b \o d
  BY DEF DocsPath
<1> HIDE DEF b, d
<1>4. IsPrefix(b, path \o Slash)
  BY <1>1, <1>2, <1>3, PrefixOfConcat
<1>5. Len(b) + 1 = Len(path) /\ Len(path) \in 1 .. Len(path)
  <2>1. Len(b \o d) = Len(b) + Len(d) /\ Len(b) \in Nat
    BY <1>1, <1>2, Concat, Length
  <2>2. Len(path \o Slash) = Len(path) + Len(Slash) /\ Len(path) \in Nat
    BY SlashType, Concat, Length
  <2>3. Len(b) + 2 = Len(path) + 1
    BY <1>2, <1>3, <2>1, <2>2, SlashType
  <2>4. QED
    BY ONLY <2>1, <2>2, <2>3
<1>6. (b \o d)[Len(b) + 1] = "docs"
  BY <1>1, <1>2, ConcatNext
<1>7. (path \o Slash)[Len(path)] = path[Len(path)]
  BY <1>5, SlashType, Concat
<1>8. Last(path) = "docs"
  BY <1>3, <1>5, <1>6, <1>7 DEF Last
<1>9. ~EndsWithSlash(path)
  <2>1. "docs" # "/"
    OBVIOUS
  <2>2. QED
    BY <1>8, <2>1 DEF EndsWithSlash
<1>10. QED
  BY <1>4, <1>9 DEF IsValidRequestPath, Slash, b

LEMMA SubSeqIsPrefix ==
  ASSUME NEW S, NEW t \in Seq(S), NEW n \in 0 .. Len(t)
  PROVE  IsPrefix(SubSeq(t, 1, n), t)
<1> DEFINE s == SubSeq(t, 1, n)
<1>1. s \in Seq(S) /\ Len(s) = n /\ (\A i \in 1 .. n : s[i] = t[i]) /\ Len(t) \in Nat
  BY SubSeqPrefix, Length
<1> HIDE DEF s
<1>2. IsPrefix(s, t)
  BY <1>1, PrefixIs
<1>3. QED
  BY <1>2 DEF s

\* A path that has the base as a prefix is at or below it ...
LEMMA PrefixIsNotElsewhere ==
  ASSUME base \in Seq(Chars), BaseHasSlash, NEW path \in Seq(Chars),
         IsPrefix(Clean(base), path \o Slash)
  PROVE  ~Elsewhere(path)
<1> DEFINE b == Clean(base)
           q == path \o Slash
           n == Len(b) - 1
           s == SubSeq(path, 1, n)
<1>1. b \in Seq(Chars) /\ b # <<>> /\ Last(b) = "/"
  BY CleanType DEF BaseHasSlash
<1>2. /\ q \in Seq(Chars) /\ Len(q) = Len(path) + 1 /\ Len(path) \in Nat
      /\ \A i \in 1 .. Len(path) : q[i] = path[i]
  <2>1. q \in Seq(Chars) /\ Len(q) = Len(path) + Len(Slash) /\ Len(path) \in Nat
    BY SlashType, Concat, Length
  <2>2. \A i \in 1 .. Len(path) : q[i] = path[i]
    BY SlashType, Concat
  <2>3. QED
    BY <2>1, <2>2, SlashType
<1>3. Len(b) <= Len(q) /\ \A i \in 1 .. Len(b) : b[i] = q[i]
  <2>1. IsPrefix(b, q)
    OBVIOUS
  <2> HIDE DEF b, q
  <2>2. QED
    BY <1>1, <1>2, <2>1, PrefixIs
<1> HIDE DEF b, q
<1>4. /\ Front(b) \in Seq(Chars) /\ Len(b) \in Nat /\ Len(b) > 0 /\ Len(Front(b)) = n
      /\ Append(Front(b), "/") = b
  BY <1>1, FrontLast
<1>5. n \in 0 .. Len(path) /\ n \in 0 .. Len(b) /\ n + 1 = Len(b)
  BY <1>2, <1>3, <1>4
<1>6. s \in Seq(Chars) /\ Len(s) = n /\ \A i \in 1 .. n : s[i] = path[i]
  <2> HIDE DEF n
  <2> QED
    BY <1>5, SubSeqPrefix
<1>7. \A i \in 1 .. n : Front(b)[i] = b[i]
  <2>1. Front(b) = SubSeq(b, 1, n)
    BY DEF Front
  <2> HIDE DEF n
  <2>2. QED
    BY <1>1, <1>5, <2>1, SubSeqPrefix
<1> HIDE DEF s, n
<1>8. \A i \in 1 .. n : s[i] = Front(b)[i]
  <2> SUFFICES ASSUME NEW i \in 1 .. n PROVE s[i] = Front(b)[i]
    OBVIOUS
  <2>1. i \in 1 .. Len(path) /\ i \in 1 .. Len(b)
    BY ONLY <1>2, <1>4, <1>5, i \in 1 .. n
  <2>2. QED
    BY <1>2, <1>3, <1>6, <1>7, <2>1
<1>9. s = Front(b)
  BY <1>4, <1>6, <1>8, SeqEqual
<1>10. s \o Slash = b
  BY <1>4, <1>6, <1>9, SlashType
<1>11. n = Len(path) \/ path[n + 1] = "/"
  <2>1. ASSUME n # Len(path) PROVE path[n + 1] = "/"
    <3>1. n + 1 \in 1 .. Len(path) /\ n + 1 \in 1 .. Len(b)
      BY ONLY <1>2, <1>4, <1>5, <2>1
    <3>2. b[n + 1] = "/"
      BY <1>1, <1>5 DEF Last
    <3>3. QED
      BY <1>2, <1>3, <3>1, <3>2
  <2>2. QED
    BY <2>1
<1>12. QED
  BY <1>5, <1>10, <1>11 DEF Elsewhere, Slash, s, b

\* ... and what is at or below it is valid.
LEMMA NotElsewhereIsValid ==
  ASSUME base \in Seq(Chars), BaseHasSlash, NEW path \in Seq(Chars), ~Elsewhere(path)
  PROVE  IsValidRequestPath(path)
<1> DEFINE b == Clean(base)
           ss == Left(base)
<1>1. b \in Seq(Chars) /\ b = Dir(ss) /\ ss \in Seq(Normal)
  BY CleanType, LeftType DEF BaseHasSlash
<1>2. PICK k \in 0 .. Len(path) :
        SubSeq(path, 1, k) \o Slash = b /\ (k = Len(path) \/ path[k + 1] = "/")
  BY DEF Elsewhere, Slash
<1> HIDE DEF b, ss
<1>3. Len(path) \in Nat /\ k \in Nat /\ k <= Len(path)
  BY Length
<1>4. ASSUME k # Len(path) PROVE IsPrefix(b, path)
  <2>1. k + 1 \in 1 .. Len(path) /\ k + 1 \in 0 .. Len(path)
    BY ONLY <1>3, <1>4
  <2>2. Append(SubSeq(path, 1, k), path[k + 1]) = SubSeq(path, 1, k + 1)
    BY <1>3, <2>1, SubSeqAppend
  <2>3. SubSeq(path, 1, k) \in Seq(Chars)
    BY SubSeqPrefix
  <2>4. b = Append(SubSeq(path, 1, k), path[k + 1])
    <3> DEFINE s == SubSeq(path, 1, k)
    <3>1. s \o Slash = Append(s, "/")
      BY <2>3, SlashType
    <3> HIDE DEF s
    <3>2. QED
      BY <1>2, <1>4, <3>1 DEF s
  <2>5. QED
    BY <2>1, <2>2, <2>4, SubSeqIsPrefix
<1>5. CASE k # Len(path)
  BY <1>4, <1>5, PrefixIsValid DEF b
<1>6. CASE k = Len(path)
  <2>1. path \o Slash = b
    BY <1>2, <1>6, SubSeqFull
  <2>2. ~EndsWithSlash(path)
    <3>1. Append(path, "/") = Append(Join[ss], "/") /\ Join[ss] \in Seq(Chars)
      BY <1>1, <2>1, JoinNormal, SlashType DEF Dir
    <3>2. Front(Append(path, "/")) = path /\ Front(Append(Join[ss], "/")) = Join[ss]
      BY <3>1, CharTypes, FrontLastAppend
    <3>3. path = Join[ss]
      BY <3>1, <3>2
    <3>4. CASE ss = <<>>
      BY <3>3, <3>4, JoinEquation DEF EndsWithSlash
    <3>5. CASE ss # <<>>
      BY <1>1, <3>3, <3>5, JoinNormal DEF EndsWithSlash
    <3>6. QED
      BY <3>4, <3>5
  <2>3. IsPrefix(b, path \o Slash)
    <3>1. Len(b) \in Nat
      BY <1>1, Length
    <3>2. IsPrefix(b, b)
      BY <1>1, <3>1, PrefixIs
    <3>3. QED
      BY <2>1, <3>2
  <2>4. QED
    BY <2>2, <2>3 DEF IsValidRequestPath, Slash, b
<1>7. QED
  BY <1>5, <1>6

-----------------------------------------------------------------------------
(* The API document. *)

LEMMA Seven ==
  ASSUME NEW S, NEW a \in S, NEW b \in S, NEW c \in S, NEW d \in S, NEW e \in S, NEW f \in S,
         NEW g \in S
  PROVE  <<a, b, c, d, e, f, g>> \in Seq(S) /\ Len(<<a, b, c, d, e, f, g>>) = 7
OBVIOUS

\* Which tokens of Servers are brackets.
LEMMA ServersTokens ==
  /\ Servers \in Seq(Tokens) /\ Len(Servers) = 7
  /\ \A k \in 1 .. 7 : Servers[k] \in Opening <=> k \in {1, 2}
  /\ \A k \in 1 .. 7 : Servers[k] \in Closing <=> k \in {6, 7}
<1>1. /\ "[" \in Tokens /\ "{" \in Tokens /\ "url" \in Tokens /\ ":" \in Tokens
      /\ "base" \in Tokens /\ "}" \in Tokens /\ "]" \in Tokens
  BY TokensAssumption DEF Punctuation
<1>2. Servers \in Seq(Tokens) /\ Len(Servers) = 7
  BY <1>1, Seven DEF Servers
<1>3. /\ Servers[1] = "[" /\ Servers[2] = "{" /\ Servers[3] = "url" /\ Servers[4] = ":"
      /\ Servers[5] = "base" /\ Servers[6] = "}" /\ Servers[7] = "]"
  BY DEF Servers
<1>4. \A k \in 1 .. 7 : k \in {1, 2, 3, 4, 5, 6, 7}
  OBVIOUS
<1>5. \A k \in {1, 2, 3, 4, 5, 6, 7} : Servers[k] \in Opening <=> k \in {1, 2}
  BY <1>3 DEF Opening
<1>6. \A k \in {1, 2, 3, 4, 5, 6, 7} : Servers[k] \in Closing <=> k \in {6, 7}
  BY <1>3 DEF Closing
<1>7. QED
  BY <1>2, <1>4, <1>5, <1>6

LEMMA SmallSets ==
  /\ Cardinality({}) = 0
  /\ \A a : Cardinality({a}) = 1
  /\ \A a, b : a # b => Cardinality({a, b}) = 2
<1>1. Cardinality({}) = 0
  BY FS_EmptySet
<1>2. ASSUME NEW a PROVE IsFiniteSet({a}) /\ Cardinality({a}) = 1
  BY FS_Singleton
<1>3. ASSUME NEW a, NEW b, a # b PROVE Cardinality({a, b}) = 2
  <2>1. Cardinality({a} \cup {b}) = Cardinality({a}) + 1
    BY <1>2, <1>3, FS_AddElement
  <2>2. {a} \cup {b} = {a, b}
    OBVIOUS
  <2>3. QED
    BY <1>2, <2>1, <2>2
<1>4. QED
  BY <1>1, <1>2, <1>3

LEMMA ServersIsValue == IsValue(Servers)
<1>0. /\ Cardinality({}) = 0 /\ Cardinality({1}) = 1 /\ Cardinality({6}) = 1
      /\ Cardinality({1, 2}) = 2 /\ Cardinality({6, 7}) = 2
  <2>1. 1 # 2 /\ 6 # 7
    OBVIOUS
  <2>2. QED
    BY <2>1, SmallSets, Zenon
<1>1. ASSUME NEW j \in 1 .. 7
      PROVE  /\ {k \in 1 .. j : Servers[k] \in Opening} = {k \in {1, 2} : k <= j}
             /\ {k \in 1 .. j : Servers[k] \in Closing} = {k \in {6, 7} : k <= j}
  BY ServersTokens
<1>2. ASSUME NEW j \in 1 .. 7 PROVE Closed(Servers, 1, j) <=> j = 7
  <2> DEFINE O == {k \in {1, 2} : k <= j}
             C == {k \in {6, 7} : k <= j}
  <2>1. Closed(Servers, 1, j) <=> Cardinality(O) = Cardinality(C)
    BY <1>1 DEF Closed, Count
  <2>2. CASE j = 1
    <3>1. O = {1} /\ C = {}
      BY <2>2
    <3>2. Cardinality(O) = 1 /\ Cardinality(C) = 0
      BY <1>0, <3>1
    <3>3. QED
      BY <2>1, <2>2, <3>2
  <2>3. CASE j \in 2 .. 5
    <3>1. O = {1, 2} /\ C = {}
      BY <2>3
    <3>2. Cardinality(O) = 2 /\ Cardinality(C) = 0
      BY <1>0, <3>1
    <3>3. QED
      BY <2>1, <2>3, <3>2
  <2>4. CASE j = 6
    <3>1. O = {1, 2} /\ C = {6}
      BY <2>4
    <3>2. Cardinality(O) = 2 /\ Cardinality(C) = 1
      BY <1>0, <3>1
    <3>3. QED
      BY <2>1, <2>4, <3>2
  <2>5. CASE j = 7
    <3>1. O = {1, 2} /\ C = {6, 7}
      BY <2>5
    <3>2. Cardinality(O) = 2 /\ Cardinality(C) = 2
      BY <1>0, <3>1
    <3>3. QED
      BY <2>1, <2>5, <3>2
  <2>6. QED
    BY <2>2, <2>3, <2>4, <2>5
<1>3. Servers # <<>> /\ DOMAIN Servers = 1 .. 7
  BY ServersTokens, Length, Empty
<1>4. QED
  BY <1>2, <1>3, ServersTokens DEF IsValue

LEMMA KeysOfIs ==
  ASSUME NEW om \in Seq(Keys \X Seq(Tokens))
  PROVE  /\ KeysOf(om) \in Seq(Keys) /\ Len(KeysOf(om)) = Len(om)
         /\ \A i \in 1 .. Len(om) : KeysOf(om)[i] = om[i][1]
<1>1. Len(om) \in Nat /\ DOMAIN om = 1 .. Len(om)
  BY Length
<1>2. \A i \in 1 .. Len(om) : om[i][1] \in Keys
  <2>1. \A i \in 1 .. Len(om) : om[i] \in Keys \X Seq(Tokens)
    BY ElementOfSeq
  <2>2. QED
    BY <2>1
<1>3. KeysOf(om) = [i \in 1 .. Len(om) |-> om[i][1]]
  BY <1>1 DEF KeysOf
<1>4. KeysOf(om) \in Seq(Keys) /\ Len(KeysOf(om)) = Len(om)
  BY <1>1, <1>2, <1>3, IsASeq
<1>5. QED
  BY <1>3, <1>4

LEMMA DocumentKeepsOrder ==
  ASSUME NEW om, IsObject(om), doc = Marshal(om)
  PROVE  SpecKeepsOrder
<1> DEFINE new == Set(om, "servers", Servers)
<1>1. Unmarshal(doc) = om /\ StartsObject(doc)
  BY RoundTrip
<1>2. "servers" \in Keys
  BY TokensAssumption DEF Keys, Punctuation
<1>3. /\ IsObject(new) /\ Len(om) <= Len(new) /\ Len(new) <= Len(om) + 1
      /\ \A i \in 1 .. Len(om) : new[i][1] = om[i][1]
      /\ \A i \in 1 .. Len(new) :
           new[i][2] = IF new[i][1] = "servers" THEN Servers ELSE om[i][2]
      /\ \E i \in 1 .. Len(new) : new[i][1] = "servers"
  BY <1>2, ServersIsValue, SetIs
<1>4. SpecWithServer(doc, Servers) = Marshal(new)
  BY <1>1 DEF SpecWithServer
<1> HIDE DEF new
<1>5. Unmarshal(SpecWithServer(doc, Servers)) = new
  BY <1>3, <1>4, RoundTrip
<1>6. /\ om \in Seq(Keys \X Seq(Tokens)) /\ new \in Seq(Keys \X Seq(Tokens))
      /\ Len(om) \in Nat /\ Len(new) \in Nat /\ DOMAIN new = 1 .. Len(new)
  BY <1>3, Length DEF IsObject
<1>7. /\ KeysOf(om) \in Seq(Keys) /\ Len(KeysOf(om)) = Len(om)
      /\ \A i \in 1 .. Len(om) : KeysOf(om)[i] = om[i][1]
  BY <1>6, KeysOfIs
<1>8. /\ KeysOf(new) \in Seq(Keys) /\ Len(KeysOf(new)) = Len(new)
      /\ \A i \in 1 .. Len(new) : KeysOf(new)[i] = new[i][1]
  BY <1>6, KeysOfIs
<1>9. IsPrefix(KeysOf(om), KeysOf(new))
  <2>1. \A i \in 1 .. Len(om) : i \in 1 .. Len(new)
    BY <1>3, <1>6
  <2>2. \A i \in 1 .. Len(om) : KeysOf(om)[i] = KeysOf(new)[i]
    BY <1>3, <1>7, <1>8, <2>1
  <2>3. Len(KeysOf(om)) <= Len(KeysOf(new))
    BY <1>3, <1>7, <1>8
  <2>4. \A i \in 1 .. Len(KeysOf(om)) : KeysOf(om)[i] = KeysOf(new)[i]
    BY <1>7, <2>2
  <2> DEFINE ks == KeysOf(om)
             ns == KeysOf(new)
  <2>5. /\ ks \in Seq(Keys) /\ ns \in Seq(Keys) /\ Len(ks) <= Len(ns)
        /\ \A i \in 1 .. Len(ks) : ks[i] = ns[i]
    BY <1>7, <1>8, <2>3, <2>4
  <2> HIDE DEF ks, ns
  <2>6. IsPrefix(ks, ns)
    BY <2>5, PrefixIs
  <2>7. QED
    BY <2>6 DEF ks, ns
<1>10. "servers" \in ToSet(KeysOf(new))
  <2>1. PICK i \in 1 .. Len(new) : new[i][1] = "servers"
    BY <1>3
  <2>2. DOMAIN KeysOf(new) = 1 .. Len(new)
    BY <1>8, Length
  <2>3. KeysOf(new)[i] = "servers"
    BY <1>8, <2>1
  <2>4. QED
    BY <2>2, <2>3 DEF ToSet
<1>11. QED
  BY <1>1, <1>3, <1>5, <1>6, <1>9, <1>10 DEF SpecKeepsOrder

-----------------------------------------------------------------------------
(* The invariant: options do not change, and an answer is that of the handler. *)

ServerInv ==
  /\ base \in BasePaths /\ disabled \subseteq {"rest", "websocket"}
  /\ \E om \in Docs : doc = Marshal(om)
  /\ answer # <<>> => answer[1] \in Requests /\ answer[2] = Handler(answer[1])

\* Where a request goes depends on the options only.
LEMMA HandlerStays ==
  ASSUME UNCHANGED <<base, disabled>>
  PROVE  Requests' = Requests /\ \A req : Handler(req)' = Handler(req)
<1>1. Requests' = Requests
  BY DEF Requests, ClientPaths, BuildURL
<1>2. ASSUME NEW path PROVE Matches(path)' = Matches(path)
  BY DEF Matches, Route
<1>3. ASSUME NEW path PROVE Match(path)' = Match(path)
  BY <1>2 DEF Match
<1>4. DocsPath' = DocsPath /\ OpenAPIPath' = OpenAPIPath
  BY DEF DocsPath, OpenAPIPath
<1>5. ASSUME NEW path PROVE Redirects(path)' = Redirects(path)
  BY <1>4 DEF Redirects
<1>6. ASSUME NEW method, NEW path PROVE Mux(method, path)' = Mux(method, path)
  BY <1>2, <1>3, <1>4, <1>5 DEF Mux
<1>7. ASSUME NEW req PROVE Rest(req)' = Rest(req)
  BY <1>6 DEF Rest
<1>8. ASSUME NEW path PROVE IsValidRequestPath(path)' = IsValidRequestPath(path)
  BY DEF IsValidRequestPath
<1>9. ASSUME NEW req PROVE Fallback(req)' = Fallback(req)
  BY <1>7 DEF Fallback
<1>10. ASSUME NEW req PROVE Websocket(req)' = Websocket(req)
  BY <1>8, <1>9 DEF Websocket
<1>11. ASSUME NEW req PROVE Handler(req)' = Handler(req)
  BY <1>7, <1>10 DEF Handler
<1>12. QED
  BY <1>1, <1>11

LEMMA ServerInvInit == Init => ServerInv
BY DEF Init, ServerInv

LEMMA ServerInvNext == ServerInv /\ [Next]_vars => ServerInv'
<1> SUFFICES ASSUME ServerInv, [Next]_vars PROVE ServerInv'
  OBVIOUS
<1>1. UNCHANGED <<base, disabled, doc>>
  BY DEF Next, ServeHTTP, Close, ClosePart, CloseWait, DoInit, vars
<1>2. Requests' = Requests /\ \A req : Handler(req)' = Handler(req)
  BY <1>1, HandlerStays
<1>3. answer' # <<>> => answer'[1] \in Requests /\ answer'[2] = Handler(answer'[1])
  <2>1. ASSUME NEW req \in Requests, ServeHTTP(req)
        PROVE  answer'[1] \in Requests /\ answer'[2] = Handler(answer'[1])
    BY <2>1 DEF ServeHTTP
  <2>2. CASE Close
    BY <2>2 DEF Close
  <2>3. CASE UNCHANGED answer
    BY <2>3 DEF ServerInv
  <2>4. QED
    BY <2>1, <2>2, <2>3 DEF Next, ClosePart, CloseWait, vars
<1>4. (answer # <<>> => answer[1] \in Requests /\ answer[2] = Handler(answer[1]))'
  BY <1>2, <1>3
<1>5. QED
  BY <1>1, <1>4 DEF ServerInv

LEMMA ServerInvariant == Spec => []ServerInv
BY ServerInvInit, ServerInvNext, PTL DEF Spec

-----------------------------------------------------------------------------
(* Theorems. *)

\* Every base path and every request path is cleaned to a path that is clean:
\* path.go puts a slash at the end only if there was one.
THEOREM CleanPathsAreClean == Spec => []CleanIsClean
<1>1. ServerInv => CleanIsClean
  <2> SUFFICES ASSUME ServerInv, NEW p \in {base} \cup Paths
               PROVE  /\ Head(Clean(p)) = "/" /\ Clean(Clean(p)) = Clean(p)
                      /\ \A s \in ToSet(Front(Tail(Segments[Clean(p)]))) :
                           s \notin {<<>>, <<".">>, <<".", ".">>}
    BY DEF CleanIsClean
  <2>1. p \in Seq(Chars)
    BY ConstantsAssumption DEF ServerInv
  <2>2. Head(Clean(p)) = "/" /\ Clean(Clean(p)) = Clean(p)
    BY <2>1, CleanType
  <2>3. QED
    BY <2>1, <2>2, CleanSegments
<1>2. QED
  BY <1>1, ServerInvariant, PTL

\* What the other theorems take from the invariant.
LEMMA RequestIs ==
  ASSUME ServerInv
  PROVE  /\ base \in Seq(Chars) /\ disabled \in {{}, {"rest"}, {"websocket"}, {"rest", "websocket"}}
         /\ answer # <<>> => answer[1].path \in Seq(Chars) /\ answer[1].upgrade \in BOOLEAN
                              /\ answer[2] = Handler(answer[1])
<1>1. base \in Seq(Chars)
  BY ConstantsAssumption DEF ServerInv
<1>2. disabled \in {{}, {"rest"}, {"websocket"}, {"rest", "websocket"}}
  BY DEF ServerInv
<1>3. ASSUME NEW r \in Routes, NEW id \in Ids
      PROVE  BuildURL(Clean(base), Endpoint(r, id)) \in Seq(Chars)
  <2>1. Left(base) \in Seq(Normal)
    BY <1>1, LeftType
  <2>2. Dir(Left(base)) \in Seq(Chars)
    BY <2>1, DirType
  <2>3. Dir(Left(base)) \o Endpoint(r, id) \in Seq(Chars)
    BY <2>2, RouteAt
  <2>4. QED
    BY <1>1, <2>3, ClientPathIs
<1>4. ASSUME NEW req \in Requests PROVE req.path \in Seq(Chars) /\ req.upgrade \in BOOLEAN
  <2>1. req.path \in Paths \cup UNION {ClientPaths(r) : r \in Routes} /\ req.upgrade \in BOOLEAN
    BY DEF Requests
  <2>2. req.path \in Paths \/ \E r \in Routes, id \in Ids :
                                req.path = BuildURL(Clean(base), Endpoint(r, id))
    BY <2>1 DEF ClientPaths
  <2>3. QED
    BY <1>3, <2>1, <2>2, ConstantsAssumption
<1>5. QED
  BY <1>1, <1>2, <1>4 DEF ServerInv

\* A request of the client gets to its handler exactly if REST is enabled and the
\* base path ends with a slash (doInit in rest_impl/serve.go, #buildURL in rest.ts).
THEOREM ClientRequestsReachServer == Spec => []ClientReachesServer
<1>1. ServerInv => ClientReachesServer
  <2> SUFFICES ASSUME ServerInv, NEW r \in Routes, answer # <<>>,
                      answer[1].method = Methods[r], ~answer[1].upgrade,
                      answer[1].path \in ClientPaths(r)
               PROVE  answer[2] = r <=> "rest" \notin disabled /\ BaseHasSlash
    BY DEF ClientReachesServer
  <2> DEFINE req == answer[1]
  <2>1. /\ base \in Seq(Chars) /\ disabled \in {{}, {"rest"}, {"websocket"}, {"rest", "websocket"}}
        /\ req.path \in Seq(Chars) /\ answer[2] = Handler(req)
    BY RequestIs
  <2>2. PICK id \in Ids : req.path = BuildURL(Clean(base), Endpoint(r, id))
    BY DEF ClientPaths
  <2>3. ~req.upgrade /\ req.method = Methods[r]
    OBVIOUS
  <2> HIDE DEF req
  <2>4. ASSUME Handler(req) = r PROVE "rest" \notin disabled /\ BaseHasSlash
    <3>1. Handler(req) \in Routes
      BY <2>4
    <3>2. "rest" \notin disabled /\ \E id2 \in Ids : req.path = Route(r, id2)
      BY <2>1, <2>4, <3>1, HandlerIsRoute
    <3>3. BaseHasSlash
      BY <2>1, <2>2, <3>2, RouteIsMissed
    <3>4. QED
      BY <3>2, <3>3
  <2>5. ASSUME "rest" \notin disabled, BaseHasSlash PROVE Handler(req) = r
    <3>1. Clean(base) = Dir(Left(base))
      BY <2>1, <2>5, CleanType DEF BaseHasSlash
    <3>2. req.path = Route(r, id)
      BY <2>1, <2>2, <3>1, ClientPathIs DEF Route
    <3>3. Rest(req) = r
      BY <2>1, <2>3, <2>5, <3>2, RouteIsFound DEF Rest
    <3>4. CASE disabled = {"websocket"}
      BY <3>3, <3>4 DEF Handler
    <3>5. CASE disabled = {}
      <4>1. Matches(req.path) # {}
        BY <3>2 DEF Matches
      <4>2. IsValidRequestPath(req.path)
        BY <2>1, <4>1, BelowBase, PrefixIsValid
      <4>3. Websocket(req) = Rest(req)
        BY <2>3, <2>5, <4>2 DEF Websocket, Fallback
      <4>4. QED
        BY <3>3, <3>5, <4>3 DEF Handler
    <3>6. QED
      BY <2>1, <2>5, <3>4, <3>5
  <2>6. QED
    BY <2>1, <2>4, <2>5
<1>2. QED
  BY <1>1, ServerInvariant, PTL

\* With a base that ends with a slash the server serves nothing elsewhere, and every
\* upgrade at or below the base (isValidRequestPath in ws_impl/serve.go).
THEOREM ServerServesItsBase == Spec => []ServesItsBase
<1>1. ServerInv => ServesItsBase
  <2> SUFFICES ASSUME ServerInv, answer # <<>>, BaseHasSlash
               PROVE  /\ Elsewhere(answer[1].path) => answer[2] \in {"notFound", "redirect"}
                      /\ ~Elsewhere(answer[1].path) /\ answer[1].upgrade
                           /\ "websocket" \notin disabled => answer[2] = "websocket"
    BY DEF ServesItsBase
  <2> DEFINE req == answer[1]
  <2>1. /\ base \in Seq(Chars) /\ disabled \in {{}, {"rest"}, {"websocket"}, {"rest", "websocket"}}
        /\ req.path \in Seq(Chars) /\ answer[2] = Handler(req)
    BY RequestIs
  <2> HIDE DEF req
  <2>2. ASSUME Elsewhere(req.path) PROVE Handler(req) \in {"notFound", "redirect"}
    <3>1. ~IsPrefix(Clean(base), req.path \o Slash)
      BY <2>1, <2>2, PrefixIsNotElsewhere
    <3>2. ~IsPrefix(Clean(base), req.path)
      BY <2>1, <3>1, PrefixIsValid
    <3>3. ~IsValidRequestPath(req.path)
      BY <3>1, <3>2 DEF IsValidRequestPath, Slash
    <3>4. Rest(req) \in {"notFound", "redirect"}
      <4>1. ~(Matches(req.path) # {} \/ IsPrefix(DocsPath, req.path) \/ req.path = OpenAPIPath)
        BY <2>1, <3>2, BelowBase
      <4>2. Mux(req.method, req.path) \in {"notFound", "redirect"}
        BY <4>1, MuxIs
      <4>3. QED
        BY <4>2 DEF Rest
    <3>5. Websocket(req) = "notFound"
      BY <3>3 DEF Websocket
    <3>6. QED
      BY <3>4, <3>5 DEF Handler
  <2>3. ASSUME ~Elsewhere(req.path), req.upgrade, "websocket" \notin disabled
        PROVE  Handler(req) = "websocket"
    <3>1. IsValidRequestPath(req.path)
      BY <2>1, <2>3, NotElsewhereIsValid
    <3>2. Websocket(req) = "websocket"
      BY <2>3, <3>1 DEF Websocket
    <3>3. disabled # {"websocket"} /\ disabled # {"rest", "websocket"}
      BY <2>3
    <3>4. QED
      BY <3>2, <3>3 DEF Handler
  <2>4. QED
    BY <2>1, <2>2, <2>3 DEF req
<1>2. QED
  BY <1>1, ServerInvariant, PTL

\* A request without upgrade to a clean path is answered as by a server without
\* websockets, unless there is no REST (the fallback of doInit in server.go).
THEOREM FallbackIsTransparent == Spec => []FallbackTransparent
<1>1. ServerInv => FallbackTransparent
  <2> SUFFICES ASSUME ServerInv, answer # <<>>, disabled = {}, ~answer[1].upgrade,
                      answer[1].path = Clean(answer[1].path)
               PROVE  answer[2] = Rest(answer[1])
    BY DEF FallbackTransparent
  <2> DEFINE req == answer[1]
  <2>1. base \in Seq(Chars) /\ req.path \in Seq(Chars) /\ answer[2] = Handler(req)
    BY RequestIs
  <2>2. ~req.upgrade /\ req.path = Clean(req.path)
    OBVIOUS
  <2> HIDE DEF req
  <2>3. Handler(req) = Websocket(req) /\ Fallback(req) = Rest(req)
    BY DEF Handler, Fallback
  <2>4. CASE IsValidRequestPath(req.path)
    BY <2>1, <2>2, <2>3, <2>4 DEF Websocket, req
  <2>5. CASE ~IsValidRequestPath(req.path)
    <3>1. ~(Matches(req.path) # {} \/ IsPrefix(DocsPath, req.path) \/ req.path = OpenAPIPath)
      BY <2>1, <2>5, BelowBase, PrefixIsValid
    <3>2. ~Redirects(req.path)
      BY <2>1, <2>2, <2>5, DocsAreValid DEF Redirects, Slash
    <3>3. Mux(req.method, req.path) = "notFound"
      BY <3>1, <3>2, MuxIs
    <3>4. Rest(req) = "notFound" /\ Websocket(req) = "notFound"
      BY <2>5, <3>3 DEF Rest, Websocket
    <3>5. QED
      BY <2>1, <2>3, <3>4 DEF req
  <2>6. QED
    BY <2>4, <2>5
<1>2. QED
  BY <1>1, ServerInvariant, PTL

\* The API document that is served has the keys of openapi.json in their order and
\* the values it had, but for "servers" (package omap, getSpecWithServer).
THEOREM DocumentIsKept == Spec => []SpecKeepsOrder
<1>1. ServerInv => SpecKeepsOrder
  BY ConstantsAssumption, DocumentKeepsOrder DEF ServerInv
<1>2. QED
  BY <1>1, ServerInvariant, PTL

=============================================================================
