-------------------------- MODULE CommandLineProofs -------------------------
(***************************************************************************)
(* What CommandLine.tla makes of a line, for lines of any bytes and any    *)
(* length. The expressions that are replaced and the numbers that are read *)
(* are functions of how far the line is read, so that what they do to the  *)
(* whole of it follows step by step (Steps); the expressions that match    *)
(* the beginning of what is left are all told by where a run of bytes ends *)
(* (SpanEnds).                                                             *)
(***************************************************************************)
EXTENDS CommandLine, SequenceTheorems, WellFoundedInduction, TLAPS

-----------------------------------------------------------------------------
(* Step by step.                                                           *)

(* A nonempty set of natural numbers has a least element.                  *)
LEMMA LeastOf ==
    ASSUME NEW S \in SUBSET Nat, S # {}
    PROVE  \E d \in S : \A e \in S : d <= e
  <1>1. PICK d \in S : \A e \in S : ~(<<e, d>> \in OpToRel(<, Nat))
      BY WFMin, NatLessThanWellFounded, Zenon
  <1>2. \A e \in S : ~(e < d)
      BY <1>1, Zenon DEF OpToRel
  <1> QED BY <1>2

(* What holds at zero and, if at i, then at i + 1, holds up to N.          *)
LEMMA Steps ==
    ASSUME NEW N \in Nat, NEW S, 0 \in S, \A i \in 0..(N - 1) : i \in S => i + 1 \in S
    PROVE  \A i \in 0..N : i \in S
  <1> DEFINE T == {i \in 0..N : i \notin S}
  <1> SUFFICES ASSUME T # {} PROVE FALSE
      OBVIOUS
  <1>1. T \in SUBSET Nat
      OBVIOUS
  <1>2. PICK d \in T : \A e \in T : d <= e
    <2> HIDE DEF T
    <2> QED BY <1>1, LeastOf
  <1>3. d # 0 /\ d \in 0..N /\ d - 1 \in 0..(N - 1) /\ d - 1 \in 0..N
      BY <1>2
  <1>4. d - 1 \in S
      BY <1>2, <1>3
  <1> QED BY <1>2, <1>3, <1>4

(* There is a function that begins with x0 and goes on by step.            *)
Defines(N, X, x0, step) ==
    \E f \in [0..N -> X] : f[0] = x0 /\ \A i \in 1..N : f[i] = step[i][f[i - 1]]

(* A function that is defined by what each step makes of the one before    *)
(* exists.                                                                 *)
LEMMA Unrolled ==
    ASSUME NEW N \in Nat, NEW X, NEW x0 \in X, NEW step \in [1..N -> [X -> X]]
    PROVE  Defines(N, X, x0, step)
  <1> DEFINE Upto(f, n) == \A i \in 0..n : f[i] = IF i = 0 THEN x0 ELSE step[i][f[i - 1]]
             S == {n \in 0..N : \E f \in [0..N -> X] : Upto(f, n)}
  <1>1. 0 \in S
    <2> DEFINE g == [i \in 0..N |-> x0]
    <2>1. g \in [0..N -> X] /\ Upto(g, 0)
        OBVIOUS
    <2> HIDE DEF g, Upto
    <2> QED BY <2>1
  <1>2. ASSUME NEW n \in 0..(N - 1), n \in S PROVE n + 1 \in S
    <2>1. PICK f \in [0..N -> X] : Upto(f, n)
        BY <1>2
    <2> DEFINE g == [f EXCEPT ![n + 1] = step[n + 1][f[n]]]
    <2>2. n \in 0..N /\ n + 1 \in 1..N /\ n + 1 \in 0..N
        OBVIOUS
    <2>3. step[n + 1][f[n]] \in X
        BY <2>2
    <2>4. g \in [0..N -> X] /\ \A i \in 0..n : g[i] = f[i]
        BY <2>3
    <2>5. g[n + 1] = step[n + 1][g[n]]
        BY <2>2, <2>4
    <2>6. Upto(g, n + 1)
      <3> SUFFICES ASSUME NEW i \in 0..(n + 1)
                   PROVE  g[i] = IF i = 0 THEN x0 ELSE step[i][g[i - 1]]
          OBVIOUS
      <3>1. CASE i = n + 1
          BY <2>5, <3>1
      <3>2. CASE i \in 0..n
        <4>1. i # 0 => i - 1 \in 0..n
            BY <3>2
        <4> HIDE DEF g
        <4> QED BY <2>1, <2>4, <3>2, <4>1
      <3> QED BY <3>1, <3>2
    <2> HIDE DEF g, Upto
    <2> QED BY <2>2, <2>4, <2>6
  <1>3. N \in S
    <2>1. \A n \in 0..(N - 1) : n \in S => n + 1 \in S
        BY <1>2
    <2> HIDE DEF S
    <2>2. \A n \in 0..N : n \in S
        BY <1>1, <2>1, Steps, Zenon
    <2> QED BY <2>2
  <1>4. PICK f \in [0..N -> X] : Upto(f, N)
      BY <1>3
  <1>5. f[0] = x0 /\ \A i \in 1..N : f[i] = step[i][f[i - 1]]
      BY <1>4
  <1> QED BY <1>5 DEF Defines

(* What is made of the first bytes of s, with each of them.                *)
Traced(s, X, x, step) ==
    \E out \in [0..Len(s) -> X] :
       /\ out[0] = x
       /\ \A i \in 1..Len(s) : out[i] = step[s[i]][out[i - 1]]
       /\ Along(s, x, step) = out[Len(s)]

(* What is made along a line is what the last step makes.                  *)
LEMMA AlongSteps ==
    ASSUME NEW B, NEW s \in Seq(B), NEW X, NEW x \in X, NEW step \in [B -> [X -> X]]
    PROVE  Traced(s, X, x, step)
  <1> DEFINE N == Len(s)
             Body(f) == [i \in 0..N |-> IF i = 0 THEN x ELSE step[s[i]][f[i - 1]]]
             out == CHOOSE f : f = Body(f)
             each == [i \in 1..N |-> step[s[i]]]
  <1>1. N \in Nat /\ \A i \in 1..N : s[i] \in B /\ i \in 0..N /\ i - 1 \in 0..N /\ i # 0
      OBVIOUS
  <1>2. each \in [1..N -> [X -> X]]
      BY <1>1
  <1>3. N \in Nat
      BY <1>1
  <1>4. PICK f \in [0..N -> X] : f[0] = x /\ \A i \in 1..N : f[i] = each[i][f[i - 1]]
    <2> HIDE DEF each, N
    <2>1. Defines(N, X, x, each)
        BY <1>2, <1>3, Unrolled
    <2> QED BY <2>1 DEF Defines
  <1>5. f = Body(f)
    <2>1. \A i \in 0..N : i # 0 => i \in 1..N
        BY <1>1
    <2>2. \A i \in 1..N : each[i] = step[s[i]]
        OBVIOUS
    <2>3. \A i \in 0..N : f[i] = IF i = 0 THEN x ELSE step[s[i]][f[i - 1]]
      <3> HIDE DEF each
      <3> QED BY <1>4, <2>1, <2>2
    <2>4. f = [i \in 0..N |-> f[i]]
        BY <1>4
    <2> QED BY <2>3, <2>4
  <1>6. out = Body(out)
    <2> HIDE DEF Body
    <2> QED BY <1>5, Zenon
  <1>7. Along(s, x, step) = out[N]
      BY DEF Along
  <1> HIDE DEF out
  <1>8. out[0] = x /\ \A i \in 1..N : out[i] = step[s[i]][out[i - 1]]
    <2>1. 0 \in 0..N
        BY <1>1
    <2> QED BY <1>1, <1>6, <2>1
  <1>9. \A i \in 0..N : out[i] \in X
    <2> DEFINE S == {i \in 0..N : out[i] \in X}
    <2>1. 0 \in S
      <3>1. 0 \in 0..N
          BY <1>1
      <3> HIDE DEF N
      <3> QED BY <1>8, <3>1
    <2>2. \A i \in 0..(N - 1) : i \in S => i + 1 \in S
      <3> SUFFICES ASSUME NEW i \in 0..(N - 1), i \in S PROVE i + 1 \in S
          OBVIOUS
      <3>1. i + 1 \in 1..N /\ i + 1 \in 0..N /\ (i + 1) - 1 = i
          BY <1>1
      <3> QED BY <1>1, <1>8, <3>1
    <2>3. \A i \in 0..N : i \in S
      <3> HIDE DEF S
      <3> QED BY <1>1, <2>1, <2>2, Steps, Zenon
    <2> QED BY <2>3
  <1>10. out \in [0..N -> X]
      BY <1>6, <1>9
  <1> QED BY <1>7, <1>8, <1>10 DEF Traced

-----------------------------------------------------------------------------
(* Sequences.                                                              *)

(* t is h and then s.                                                      *)
Joins(S, h, s, t) ==
    /\ t \in Seq(S) /\ Len(t) = Len(h) + Len(s)
    /\ \A i \in 1..Len(h) : t[i] = h[i]
    /\ \A i \in 1..Len(s) : t[Len(h) + i] = s[i]

LEMMA Joined ==
    ASSUME NEW S, NEW h \in Seq(S), NEW s \in Seq(S)
    PROVE  Joins(S, h, s, h \o s)
  BY DEF Joins

(* A sequence of three.                                                    *)
LEMMA Three ==
    ASSUME NEW S, NEW a \in S, NEW b \in S, NEW c \in S
    PROVE  LET h == <<a, b, c>> IN h \in Seq(S) /\ Len(h) = 3 /\ h[1] = a /\ h[2] = b /\ h[3] = c
  OBVIOUS

(* The rest of a sequence after its first.                                 *)
LEMMA TailOf ==
    ASSUME NEW S, NEW s \in Seq(S), s # <<>>
    PROVE  /\ Tail(s) \in Seq(S) /\ Len(Tail(s)) = Len(s) - 1
           /\ \A i \in 1..(Len(s) - 1) : Tail(s)[i] = s[i + 1]
  OBVIOUS

(* Three bytes and then a line.                                            *)
LEMMA Prefixed ==
    ASSUME NEW S, NEW a \in S, NEW b \in S, NEW c \in S, NEW s \in Seq(S)
    PROVE  LET t == <<a, b, c>> \o s IN
           /\ t \in Seq(S) /\ Len(t) = 3 + Len(s)
           /\ t[1] = a /\ t[2] = b /\ t[3] = c
           /\ \A i \in 1..Len(s) : t[3 + i] = s[i]
  <1> DEFINE h == <<a, b, c>>
             t == h \o s
  <1>1. h \in Seq(S) /\ Len(h) = 3 /\ h[1] = a /\ h[2] = b /\ h[3] = c
      BY Three
  <1> HIDE DEF h
  <1>2. Joins(S, h, s, t)
    <2>1. h \in Seq(S)
        BY <1>1
    <2> QED BY <2>1, Joined
  <1> HIDE DEF t
  <1>3. t[1] = a /\ t[2] = b /\ t[3] = c
    <2>1. 1 \in 1..Len(h) /\ 2 \in 1..Len(h) /\ 3 \in 1..Len(h)
        BY <1>1
    <2> QED BY <1>1, <1>2, <2>1, Zenon DEF Joins
  <1>4. Len(t) = 3 + Len(s) /\ \A i \in 1..Len(s) : t[3 + i] = s[i]
      BY <1>1, <1>2, Zenon DEF Joins
  <1> QED BY <1>2, <1>3, <1>4, Zenon DEF t, h, Joins

(* The first of a sequence and then its rest.                              *)
LEMMA FirstAndRest ==
    ASSUME NEW S, NEW s \in Seq(S), s # <<>>
    PROVE  <<s[1]>> \o Tail(s) = s
  OBVIOUS

(* All but the last of a sequence.                                         *)
LEMMA FrontIs ==
    ASSUME NEW S, NEW t \in Seq(S), t # <<>>
    PROVE  Front(t) \in Seq(S) /\ Len(Front(t)) = Len(t) - 1 /\ \A i \in 1..(Len(t) - 1) : Front(t)[i] = t[i]
  <1> DEFINE m == Len(t) - 1
  <1>1. m \in 0..Len(t)
      OBVIOUS
  <1> HIDE DEF m
  <1>2. SubSeq(t, 1, m) \in Seq(S) /\ Len(SubSeq(t, 1, m)) = m /\ \A i \in 1..m : SubSeq(t, 1, m)[i] = t[i]
      BY <1>1
  <1> QED BY <1>2 DEF Front, m

(* A sequence that one is put before.                                      *)
LEMMA Before ==
    ASSUME NEW S, NEW a \in S, NEW s \in Seq(S)
    PROVE  LET t == <<a>> \o s IN t \in Seq(S) /\ t[1] = a /\ Tail(t) = s /\ Len(t) = Len(s) + 1
  OBVIOUS

-----------------------------------------------------------------------------
(* Runs of bytes.                                                          *)

(* Span is where the run of bytes of B that begins s ends.                 *)
LEMMA SpanEnds ==
    ASSUME NEW s \in Seq(Byte), NEW B
    PROVE  /\ Span(s, B) \in 0..Len(s)
           /\ \A i \in 1..Span(s, B) : s[i] \in B
           /\ Span(s, B) < Len(s) => s[Span(s, B) + 1] \notin B
  <1> DEFINE Stop == {n \in 0..Len(s) : n = Len(s) \/ s[n + 1] \notin B}
  <1>1. Stop \in SUBSET Nat /\ Len(s) \in Stop
      OBVIOUS
  <1>2. PICK d \in Stop : \A e \in Stop : d <= e
    <2> HIDE DEF Stop
    <2> QED BY <1>1, LeastOf
  <1>3. \A i \in 1..d : s[i] \in B
    <2> SUFFICES ASSUME NEW i \in 1..d, s[i] \notin B PROVE FALSE
        OBVIOUS
    <2>1. i - 1 \in 0..Len(s) /\ (i - 1) + 1 = i
        BY <1>2
    <2>2. i - 1 \in Stop
        BY <2>1
    <2>3. d <= i - 1
      <3> HIDE DEF Stop
      <3> QED BY <1>2, <2>2
    <2> QED BY <1>2, <2>3
  <1>4. \E n \in 0..Len(s) : (\A i \in 1..n : s[i] \in B) /\ (n < Len(s) => s[n + 1] \notin B)
      BY <1>2, <1>3
  <1> QED BY <1>4, Zenon DEF Span

(* It ends nowhere else.                                                   *)
LEMMA SpanIs ==
    ASSUME NEW s \in Seq(Byte), NEW B, NEW n \in 0..Len(s),
           \A i \in 1..n : s[i] \in B, n < Len(s) => s[n + 1] \notin B
    PROVE  Span(s, B) = n
  <1>1. /\ Span(s, B) \in 0..Len(s)
        /\ \A i \in 1..Span(s, B) : s[i] \in B
        /\ Span(s, B) < Len(s) => s[Span(s, B) + 1] \notin B
      BY SpanEnds
  <1>2. ~(Span(s, B) < n)
      BY <1>1
  <1>3. ~(n < Span(s, B))
      BY <1>1
  <1> QED BY <1>1, <1>2, <1>3

-----------------------------------------------------------------------------
(* The text of a message.                                                  *)

NoPage(s) == \A i \in 1..(Len(s) - 3) : \E j \in i..(i + 3) : s[j] # "newline"

NewlineStep == [b \in Byte |-> [t \in Seq(Byte) |->
                   IF Newlines(t) /\ b = "newline" THEN t ELSE Append(t, b)]]

(* What Collapse has made of the first i bytes of s.                       *)
LEMMA CollapseSteps ==
    ASSUME NEW s \in Seq(Byte)
    PROVE  \E out \in [0..Len(s) -> Seq(Byte)] :
              /\ out[0] = <<>>
              /\ \A i \in 1..Len(s) : out[i] = IF Newlines(out[i - 1]) /\ s[i] = "newline"
                                               THEN out[i - 1] ELSE Append(out[i - 1], s[i])
              /\ Collapse(s) = out[Len(s)]
  <1>1. NewlineStep \in [Byte -> [Seq(Byte) -> Seq(Byte)]]
    <2>1. \A b \in Byte : [t \in Seq(Byte) |->
              IF Newlines(t) /\ b = "newline" THEN t ELSE Append(t, b)] \in [Seq(Byte) -> Seq(Byte)]
        OBVIOUS
    <2> QED BY <2>1 DEF NewlineStep
  <1>2. PICK out \in [0..Len(s) -> Seq(Byte)] :
            /\ out[0] = <<>>
            /\ \A i \in 1..Len(s) : out[i] = NewlineStep[s[i]][out[i - 1]]
            /\ Along(s, <<>>, NewlineStep) = out[Len(s)]
    <2>1. <<>> \in Seq(Byte)
        OBVIOUS
    <2>2. Traced(s, Seq(Byte), <<>>, NewlineStep)
        BY <1>1, <2>1, AlongSteps
    <2> QED BY <2>2 DEF Traced
  <1>3. \A i \in 1..Len(s) : out[i] = IF Newlines(out[i - 1]) /\ s[i] = "newline"
                                      THEN out[i - 1] ELSE Append(out[i - 1], s[i])
    <2> SUFFICES ASSUME NEW i \in 1..Len(s)
                 PROVE  out[i] = IF Newlines(out[i - 1]) /\ s[i] = "newline"
                                 THEN out[i - 1] ELSE Append(out[i - 1], s[i])
        OBVIOUS
    <2>1. s[i] \in Byte /\ out[i - 1] \in Seq(Byte)
      <3>1. i - 1 \in 0..Len(s)
          OBVIOUS
      <3> QED BY <1>2, <3>1
    <2> QED BY <1>2, <2>1 DEF NewlineStep
  <1> QED BY <1>2, <1>3 DEF Collapse, NewlineStep

(* No run of four newlines is left.                                        *)
LEMMA CollapseLeavesNoPage ==
    ASSUME NEW s \in Seq(Byte)
    PROVE  Collapse(s) \in Seq(Byte) /\ NoPage(Collapse(s))
  <1>1. PICK out \in [0..Len(s) -> Seq(Byte)] :
            /\ out[0] = <<>>
            /\ \A i \in 1..Len(s) : out[i] = IF Newlines(out[i - 1]) /\ s[i] = "newline"
                                             THEN out[i - 1] ELSE Append(out[i - 1], s[i])
            /\ Collapse(s) = out[Len(s)]
      BY CollapseSteps
  <1> DEFINE S == {i \in 0..Len(s) : NoPage(out[i])}
  <1>2. 0 \in S
      BY <1>1 DEF NoPage
  <1>3. \A i \in 0..(Len(s) - 1) : i \in S => i + 1 \in S
    <2> SUFFICES ASSUME NEW i \in 0..(Len(s) - 1), NoPage(out[i]) PROVE NoPage(out[i + 1])
        OBVIOUS
    <2> DEFINE t == out[i]
    <2>1. i \in 0..Len(s) /\ i + 1 \in 1..Len(s) /\ (i + 1) - 1 = i
        OBVIOUS
    <2>2. t \in Seq(Byte) /\ s[i + 1] \in Byte
        BY <1>1, <2>1
    <2>3. out[i + 1] = IF Newlines(t) /\ s[i + 1] = "newline" THEN t ELSE Append(t, s[i + 1])
        BY <1>1, <2>1
    <2> HIDE DEF t
    <2>4. CASE Newlines(t) /\ s[i + 1] = "newline"
        BY <2>3, <2>4 DEF t
    <2>5. CASE ~(Newlines(t) /\ s[i + 1] = "newline")
      <3> DEFINE u == Append(t, s[i + 1])
      <3>1. Len(u) = Len(t) + 1 /\ u[Len(t) + 1] = s[i + 1] /\ \A k \in 1..Len(t) : u[k] = t[k]
          BY <2>2
      <3> HIDE DEF u
      <3>2. ASSUME NEW k \in 1..(Len(u) - 3) PROVE \E j \in k..(k + 3) : u[j] # "newline"
        <4>1. CASE k \in 1..(Len(t) - 3)
          <5>1. PICK j \in k..(k + 3) : t[j] # "newline"
              BY <4>1, <2>2 DEF NoPage, t
          <5>2. j \in 1..Len(t)
              BY <2>2, <4>1, <5>1
          <5>3. u[j] # "newline"
              BY <3>1, <5>1, <5>2
          <5> QED BY <5>3
        <4>2. CASE k = Len(t) - 2
          <5>1. CASE s[i + 1] # "newline"
              BY <2>2, <3>1, <4>2, <5>1
          <5>2. CASE ~Newlines(t)
            <6>1. PICK j \in (Len(t) - 2)..Len(t) : t[j] # "newline"
                BY <2>2, <3>1, <4>2, <5>2 DEF Newlines
            <6> QED BY <2>2, <3>1, <4>2, <6>1
          <5> QED BY <2>5, <5>1, <5>2
        <4> QED BY <2>2, <3>1, <4>1, <4>2
      <3> QED BY <2>3, <2>5, <3>2 DEF NoPage, u
    <2> QED BY <2>4, <2>5
  <1>4. \A i \in 0..Len(s) : i \in S
    <2>1. Len(s) \in Nat
        OBVIOUS
    <2> HIDE DEF S
    <2> QED BY <1>2, <1>3, <2>1, Steps, Zenon
  <1> QED BY <1>1, <1>4

(* A text without one is left as it is.                                    *)
LEMMA CollapseKeeps ==
    ASSUME NEW s \in Seq(Byte), NoPage(s)
    PROVE  Collapse(s) = s
  <1>1. PICK out \in [0..Len(s) -> Seq(Byte)] :
            /\ out[0] = <<>>
            /\ \A i \in 1..Len(s) : out[i] = IF Newlines(out[i - 1]) /\ s[i] = "newline"
                                             THEN out[i - 1] ELSE Append(out[i - 1], s[i])
            /\ Collapse(s) = out[Len(s)]
      BY CollapseSteps
  <1> DEFINE S == {i \in 0..Len(s) : out[i] = SubSeq(s, 1, i)}
  <1>2. 0 \in S
      BY <1>1
  <1>3. \A i \in 0..(Len(s) - 1) : i \in S => i + 1 \in S
    <2> SUFFICES ASSUME NEW i \in 0..(Len(s) - 1), out[i] = SubSeq(s, 1, i)
                 PROVE  out[i + 1] = SubSeq(s, 1, i + 1)
        OBVIOUS
    <2>1. i + 1 \in 1..Len(s) /\ (i + 1) - 1 = i
        OBVIOUS
    <2>2. Len(out[i]) = i /\ \A k \in 1..i : out[i][k] = s[k]
        OBVIOUS
    <2>3. ~(Newlines(out[i]) /\ s[i + 1] = "newline")
      <3> SUFFICES ASSUME Newlines(out[i]), s[i + 1] = "newline" PROVE FALSE
          OBVIOUS
      <3>1. i >= 3 /\ \A k \in (i - 2)..i : s[k] = "newline"
          BY <2>2 DEF Newlines
      <3>2. i - 2 \in 1..(Len(s) - 3)
          BY <3>1
      <3>3. PICK j \in (i - 2)..((i - 2) + 3) : s[j] # "newline"
          BY <3>2 DEF NoPage
      <3> QED BY <3>1, <3>3
    <2>4. out[i + 1] = Append(SubSeq(s, 1, i), s[i + 1])
        BY <1>1, <2>1, <2>3
    <2> QED BY <2>1, <2>4
  <1>4. \A i \in 0..Len(s) : i \in S
    <2>1. Len(s) \in Nat
        OBVIOUS
    <2> HIDE DEF S
    <2> QED BY <1>2, <1>3, <2>1, Steps, Zenon
  <1> QED BY <1>1, <1>4

(* Half letters are gone, and nothing else has changed.                    *)
LEMMA ReplaceCleans ==
    ASSUME NEW s \in Seq(Byte)
    PROVE  LET r == ReplaceInvalidUtf8(s) IN
           /\ r \in Seq(Byte) /\ Len(r) = Len(s)
           /\ \A i \in 1..Len(s) : r[i] = IF Invalid(s, i) THEN " " ELSE s[i]
           /\ \A i \in DOMAIN r : ~Invalid(r, i)
           /\ \A i \in 1..Len(s) : r[i] = "newline" => s[i] = "newline"
  <1> DEFINE r == ReplaceInvalidUtf8(s)
  <1>1. DOMAIN s = 1..Len(s) /\ \A i \in 1..Len(s) : s[i] \in Byte
      OBVIOUS
  <1>2. r \in Seq(Byte) /\ Len(r) = Len(s) /\ DOMAIN r = 1..Len(s)
    <2>1. \A i \in 1..Len(s) : (IF Invalid(s, i) THEN " " ELSE s[i]) \in Byte
      <3>1. " " \in Byte
          BY DEF Byte
      <3> QED BY <1>1, <3>1
    <2>2. r = [i \in 1..Len(s) |-> IF Invalid(s, i) THEN " " ELSE s[i]]
        BY <1>1 DEF ReplaceInvalidUtf8
    <2>3. r \in [1..Len(s) -> Byte]
        BY <2>1, <2>2
    <2>4. Len(s) \in Nat
        OBVIOUS
    <2> HIDE DEF r
    <2>5. r \in Seq(Byte)
        BY <2>3, <2>4, SeqDef
    <2>6. DOMAIN r = 1..Len(s)
        BY <2>3
    <2>7. Len(r) = Len(s)
        BY <2>4, <2>5, <2>6, LenProperties
    <2> QED BY <2>5, <2>6, <2>7
  <1>3. \A i \in 1..Len(s) : r[i] = IF Invalid(s, i) THEN " " ELSE s[i]
      BY <1>1 DEF ReplaceInvalidUtf8
  <1> HIDE DEF r
  <1>4. ASSUME NEW i \in 1..Len(s) PROVE ~Invalid(r, i)
    <2>1. CASE r[i] = "lead"
      <3>1. s[i] = "lead" /\ ~Invalid(s, i)
          BY <1>3, <2>1
      <3>2. i # Len(s) /\ s[i + 1] = "cont"
          BY <3>1 DEF Invalid
      <3>3. i + 1 \in 1..Len(s) /\ (i + 1) - 1 = i
          BY <3>2
      <3>4. ~Invalid(s, i + 1)
          BY <3>1, <3>2, <3>3 DEF Invalid
      <3>5. r[i + 1] = "cont"
          BY <1>3, <3>2, <3>3, <3>4
      <3> QED BY <1>2, <2>1, <3>2, <3>5 DEF Invalid
    <2>2. CASE r[i] = "cont"
      <3>1. s[i] = "cont" /\ ~Invalid(s, i)
          BY <1>3, <2>2
      <3>2. i # 1 /\ s[i - 1] = "lead"
          BY <3>1 DEF Invalid
      <3>3. i - 1 \in 1..Len(s) /\ (i - 1) + 1 = i /\ i - 1 # Len(s)
          BY <3>2
      <3>4. ~Invalid(s, i - 1)
          BY <3>1, <3>2, <3>3 DEF Invalid
      <3>5. r[i - 1] = "lead"
          BY <1>3, <3>2, <3>3, <3>4
      <3> QED BY <1>2, <2>2, <3>2, <3>5 DEF Invalid
    <2> QED BY <2>1, <2>2 DEF Invalid
  <1>5. \A i \in 1..Len(s) : r[i] = "newline" => s[i] = "newline"
      BY <1>3
  <1> QED BY <1>2, <1>3, <1>4, <1>5 DEF r

(* What members are sent can be read.                                      *)
LEMMA TextFine ==
    ASSUME CommandLineAssumption, NEW s \in Seq(Byte)
    PROVE  LET t == Text(s) IN
           /\ t \in Seq(Byte) /\ Len(t) <= MaxText
           /\ \A i \in DOMAIN t : ~Invalid(t, i)
           /\ NoPage(t)
  <1> DEFINE c == Collapse(s)
             d == Cut(c)
             t == ReplaceInvalidUtf8(d)
  <1>1. MaxText \in Nat
      BY DEF CommandLineAssumption
  <1>2. c \in Seq(Byte) /\ NoPage(c)
      BY CollapseLeavesNoPage
  <1> HIDE DEF c
  <1>3. d \in Seq(Byte) /\ Len(d) <= MaxText /\ Len(d) <= Len(c) /\ \A i \in 1..Len(d) : d[i] = c[i]
      BY <1>1, <1>2 DEF Cut
  <1> HIDE DEF d
  <1>4. /\ t \in Seq(Byte) /\ Len(t) = Len(d) /\ \A i \in DOMAIN t : ~Invalid(t, i)
        /\ \A i \in 1..Len(d) : t[i] = "newline" => d[i] = "newline"
      BY <1>3, ReplaceCleans
  <1> HIDE DEF t
  <1>5. ASSUME NEW i \in 1..(Len(t) - 3) PROVE \E j \in i..(i + 3) : t[j] # "newline"
    <2>1. i \in 1..(Len(c) - 3)
        BY <1>2, <1>3, <1>4
    <2>2. PICK j \in i..(i + 3) : c[j] # "newline"
        BY <1>2, <2>1 DEF NoPage
    <2>3. j \in 1..Len(d)
        BY <1>3, <1>4, <2>2
    <2> QED BY <1>3, <1>4, <2>2, <2>3
  <1>6. Text(s) = t
      BY DEF Text, t, d, c
  <1> QED BY <1>3, <1>4, <1>5, <1>6 DEF NoPage

(* A text that can be read is left as it is.                               *)
LEMMA TextKeeps ==
    ASSUME NEW s \in Seq(Byte), NoPage(s), Len(s) <= MaxText, MaxText \in Nat,
           \A i \in DOMAIN s : ~Invalid(s, i)
    PROVE  Text(s) = s
  <1>1. Cut(Collapse(s)) = s
      BY CollapseKeeps DEF Cut
  <1>2. ReplaceInvalidUtf8(s) = s
    <2>1. ReplaceInvalidUtf8(s) = [i \in DOMAIN s |-> s[i]]
        BY DEF ReplaceInvalidUtf8
    <2> QED BY <2>1
  <1> QED BY <1>1, <1>2 DEF Text

(* TextClean of any line.                                                  *)
LEMMA CleanText ==
    ASSUME CommandLineAssumption, line \in Seq(Byte)
    PROVE  TextClean
  <1> DEFINE t == Text(line)
             did == Process(line)
             Fine(s) == /\ Len(s) <= MaxText /\ \A i \in DOMAIN s : ~Invalid(s, i)
                        /\ NoPage(s)
  <1>1. Fine(t)
      BY TextFine
  <1>2. Fine(line) => t = line
      BY TextKeeps DEF CommandLineAssumption
  <1>3. did.kind = "said" => t[1] # "/" /\ ~Blank(t) /\ did.text = t
    <2> DEFINE p == TakeCommand(t)
    <2>1. did = IF t = <<>> THEN [kind |-> "nothing"]
                ELSE IF Blank(t) THEN [kind |-> "blank"]
                ELSE IF p.found
                THEN [kind |-> "command", name |-> Tail(p.match), args |-> Arguments(p)]
                ELSE IF t[1] = "/" THEN [kind |-> "no command"]
                ELSE [kind |-> "said", text |-> t]
        BY DEF Process
    <2> HIDE DEF t, did, p
    <2> QED BY <2>1
  <1> QED BY <1>1, <1>2, <1>3 DEF TextClean, NoPage

-----------------------------------------------------------------------------
(* The parser.                                                             *)

ParserType == [found: BOOLEAN, next: Seq(Byte), match: Seq(Byte), suffix: Seq(Byte)]

(* An expression that matches a run of bytes, or nothing.                  *)
LEMMA TakesRun ==
    ASSUME NEW p \in ParserType, NEW B
    PROVE  LET n == Span(p.next, B) q == TakeAll(p, B) IN
           /\ n \in 0..Len(p.next)
           /\ q \in ParserType
           /\ q.next = SubSeq(p.next, n + 1, Len(p.next))
           /\ q.found <=> n # 0
           /\ n # 0 => q.match = SubSeq(p.next, 1, n) /\ q.suffix = q.next
           /\ p.next = <<>> => q.suffix = p.suffix
  <1> DEFINE s == p.next
             n == Span(s, B)
             q == TakeAll(p, B)
  <1>1. s \in Seq(Byte) /\ n \in 0..Len(s)
      BY SpanEnds DEF ParserType
  <1>2. q = TakeNext(p, n)
      BY DEF TakeAll
  <1> HIDE DEF n, q
  <1>3. CASE s = <<>>
    <2>1. n = 0 /\ q = [p EXCEPT !.found = FALSE]
        BY <1>1, <1>2, <1>3 DEF TakeNext
    <2>2. q \in ParserType /\ q.next = s /\ q.found = FALSE /\ q.suffix = p.suffix
        BY <2>1 DEF ParserType
    <2>3. SubSeq(s, n + 1, Len(s)) = s
        BY <1>1, <1>3, <2>1
    <2> QED BY <1>1, <2>1, <2>2, <2>3 DEF n, q
  <1>4. CASE s # <<>> /\ n = 0
    <2>1. q = [found |-> FALSE, next |-> s, match |-> <<>>, suffix |-> <<>>]
        BY <1>2, <1>4 DEF TakeNext, Parser
    <2>2. q \in ParserType /\ q.next = s /\ q.found = FALSE
      <3>1. <<>> \in Seq(Byte)
          OBVIOUS
      <3> QED BY <1>1, <2>1, <3>1 DEF ParserType
    <2>3. SubSeq(s, n + 1, Len(s)) = s
        BY <1>1, <1>4
    <2> QED BY <1>1, <1>4, <2>2, <2>3 DEF n, q
  <1>5. CASE s # <<>> /\ n # 0
    <2> DEFINE rest == SubSeq(s, n + 1, Len(s))
               match == SubSeq(s, 1, n)
    <2>1. q = [found |-> TRUE, next |-> rest, match |-> match, suffix |-> rest]
        BY <1>2, <1>5 DEF TakeNext
    <2>2. rest \in Seq(Byte) /\ match \in Seq(Byte)
        BY <1>1
    <2> HIDE DEF rest, match, s
    <2>3. q \in ParserType
        BY <2>1, <2>2 DEF ParserType
    <2>4. q.found = TRUE /\ q.next = rest /\ q.match = match /\ q.suffix = rest /\ s # <<>>
        BY <1>5, <2>1
    <2> QED BY <1>1, <1>5, <2>3, <2>4 DEF n, q, rest, match, s
  <1> QED BY <1>3, <1>4, <1>5

(* The rest of a sequence, and the rest of that.                           *)
LEMMA Rest ==
    ASSUME NEW s \in Seq(Byte), NEW n \in 0..Len(s)
    PROVE  LET r == SubSeq(s, n + 1, Len(s)) IN
           /\ r \in Seq(Byte) /\ Len(r) = Len(s) - n
           /\ \A i \in 1..Len(r) : r[i] = s[n + i]
  OBVIOUS

LEMMA RestOfRest ==
    ASSUME NEW s \in Seq(Byte), NEW n \in 0..Len(s)
    PROVE  LET r == SubSeq(s, n + 1, Len(s)) IN
           \A k \in 0..Len(r) : SubSeq(r, k + 1, Len(r)) = SubSeq(s, n + k + 1, Len(s))
  <1> DEFINE r == SubSeq(s, n + 1, Len(s))
  <1>1. r \in Seq(Byte) /\ Len(r) = Len(s) - n /\ \A i \in 1..Len(r) : r[i] = s[n + i]
      BY Rest
  <1> HIDE DEF r
  <1>2. ASSUME NEW k \in 0..Len(r) PROVE SubSeq(r, k + 1, Len(r)) = SubSeq(s, n + k + 1, Len(s))
    <2> DEFINE a == SubSeq(r, k + 1, Len(r))
               b == SubSeq(s, n + k + 1, Len(s))
    <2>1. a \in Seq(Byte) /\ Len(a) = Len(r) - k /\ \A i \in 1..Len(a) : a[i] = r[k + i]
        BY <1>1, Rest
    <2>2. b \in Seq(Byte) /\ Len(b) = Len(s) - (n + k) /\ \A i \in 1..Len(b) : b[i] = s[n + k + i]
      <3>1. n + k \in 0..Len(s)
          BY <1>1
      <3> QED BY <3>1, Rest
    <2> HIDE DEF a, b
    <2>3. Len(a) = Len(b)
        BY <1>1, <2>1, <2>2
    <2>4. ASSUME NEW i \in 1..Len(a) PROVE a[i] = b[i]
      <3>1. k + i \in 1..Len(r) /\ n + (k + i) = n + k + i
          BY <1>1, <2>1
      <3> QED BY <1>1, <2>1, <2>2, <2>3, <3>1
    <2> QED BY <2>1, <2>2, <2>3, <2>4, SeqEqual DEF a, b
  <1> QED BY <1>2 DEF r

(* What TrimStart leaves.                                                  *)
LEMMA TrimStartIs ==
    ASSUME NEW s \in Seq(Byte)
    PROVE  LET t == TrimStart(s) IN
           /\ t \in Seq(Byte)
           /\ t # <<>> => t[1] \notin Space
           /\ t # <<>> => t[Len(t)] = s[Len(s)]
           /\ s = <<>> \/ s[1] \notin Space => t = s
  <1> DEFINE n == Span(s, Space)
             t == SubSeq(s, n + 1, Len(s))
  <1>1. n \in 0..Len(s) /\ (\A i \in 1..n : s[i] \in Space) /\ (n < Len(s) => s[n + 1] \notin Space)
      BY SpanEnds
  <1>2. t \in Seq(Byte) /\ Len(t) = Len(s) - n /\ \A i \in 1..Len(t) : t[i] = s[n + i]
    <2> HIDE DEF n
    <2> QED BY <1>1, Rest
  <1>3. TrimStart(s) = t
      BY DEF TrimStart
  <1> HIDE DEF n, t
  <1>4. t # <<>> => t[1] \notin Space /\ t[Len(t)] = s[Len(s)]
    <2> SUFFICES ASSUME t # <<>> PROVE t[1] \notin Space /\ t[Len(t)] = s[Len(s)]
        OBVIOUS
    <2>1. 1 \in 1..Len(t) /\ Len(t) \in 1..Len(t) /\ n < Len(s) /\ n + Len(t) = Len(s)
        BY <1>1, <1>2
    <2> QED BY <1>1, <1>2, <2>1
  <1>5. s = <<>> \/ s[1] \notin Space => t = s
    <2> SUFFICES ASSUME s = <<>> \/ s[1] \notin Space PROVE t = s
        OBVIOUS
    <2>1. n = 0
        BY <1>1
    <2> QED BY <2>1 DEF t
  <1> QED BY <1>2, <1>3, <1>4, <1>5

(* A byte is of a word or a space.                                         *)
LEMMA WordOrSpace ==
    /\ \A b \in Byte : b \in Word <=> b \notin Space
    /\ Space \subseteq Byte /\ Word \subseteq Byte /\ Digit \subseteq Word /\ Hex \subseteq Word
    /\ "/" \in Word /\ "a" \in Word /\ " " \in Space /\ "#" \notin Hex
  BY DEF Byte, Word, Space, Digit, Hex

(* What a command's name is, and what is left of the line.                 *)
LEMMA CommandTaken ==
    ASSUME NEW s \in Seq(Byte)
    PROVE  LET p == TakeCommand(s) m == Span(Tail(s), Word) IN
           /\ p.found <=> s # <<>> /\ s[1] = "/" /\ m # 0
           /\ p.found =>
                 /\ m + 1 \in 1..Len(s) /\ \A i \in 1..(m + 1) : s[i] \in Word
                 /\ m + 1 < Len(s) => s[m + 2] \notin Word
                 /\ p = [found |-> TRUE, next |-> SubSeq(s, m + 2, Len(s)),
                         match |-> SubSeq(s, 1, m + 1), suffix |-> SubSeq(s, m + 2, Len(s))]
                 /\ p \in ParserType
  <1> DEFINE m == Span(Tail(s), Word)
             p == TakeCommand(s)
             n == IF s # <<>> /\ s[1] = "/" THEN m ELSE 0
  <1>1. p = TakeNext(Parser(s), IF n = 0 THEN 0 ELSE n + 1)
      BY DEF TakeCommand
  <1>2. CASE s = <<>>
    <2>1. p.found = FALSE
        BY <1>1, <1>2 DEF TakeNext, Parser
    <2> QED BY <1>2, <2>1
  <1>3. CASE s # <<>> /\ ~(s[1] = "/" /\ m # 0)
    <2>1. p = Parser(s)
        BY <1>1, <1>3 DEF TakeNext, Parser
    <2> QED BY <1>3, <2>1 DEF Parser
  <1>4. CASE s # <<>> /\ s[1] = "/" /\ m # 0
    <2>1. Tail(s) \in Seq(Byte) /\ Len(Tail(s)) = Len(s) - 1 /\ \A i \in 1..(Len(s) - 1) : Tail(s)[i] = s[i + 1]
        BY <1>4
    <2>2. /\ m \in 0..Len(Tail(s)) /\ \A i \in 1..m : Tail(s)[i] \in Word
          /\ m < Len(Tail(s)) => Tail(s)[m + 1] \notin Word
        BY <2>1, SpanEnds
    <2>3. n = m
        BY <1>4
    <2> HIDE DEF m, n
    <2>4. m \in Nat /\ m + 1 \in 1..Len(s)
        BY <1>4, <2>1, <2>2
    <2>5. ASSUME NEW i \in 1..(m + 1) PROVE s[i] \in Word
      <3>1. CASE i = 1
          BY <1>4, <3>1, WordOrSpace
      <3>2. CASE i # 1
        <4>1. i - 1 \in 1..m /\ i - 1 \in 1..(Len(s) - 1) /\ (i - 1) + 1 = i
            BY <2>4, <3>2
        <4> QED BY <2>1, <2>2, <4>1
      <3> QED BY <3>1, <3>2
    <2>6. m + 1 < Len(s) => s[m + 2] \notin Word
      <3> SUFFICES ASSUME m + 1 < Len(s) PROVE s[m + 2] \notin Word
          OBVIOUS
      <3>1. m + 1 \in 1..(Len(s) - 1) /\ (m + 1) + 1 = m + 2
          BY <2>4
      <3> QED BY <2>1, <2>2, <3>1
    <2> DEFINE rest == SubSeq(s, m + 2, Len(s))
               match == SubSeq(s, 1, m + 1)
    <2>7. (m + 1) + 1 = m + 2
        BY <2>4
    <2>8. p = [found |-> TRUE, next |-> rest, match |-> match, suffix |-> rest]
      <3>1. p = TakeNext(Parser(s), m + 1) /\ m + 1 # 0
          BY <1>1, <1>4, <2>3, <2>4
      <3> HIDE DEF p
      <3>2. Parser(s).next = s
          BY DEF Parser
      <3> QED BY <1>4, <2>7, <3>1, <3>2 DEF TakeNext
    <2>9. rest \in Seq(Byte) /\ match \in Seq(Byte)
        BY <2>4
    <2> HIDE DEF rest, match, p
    <2>10. p \in ParserType /\ p.found
        BY <2>8, <2>9 DEF ParserType
    <2> QED BY <1>4, <2>4, <2>5, <2>6, <2>8, <2>10 DEF rest, match, p, m
  <1> QED BY <1>2, <1>3, <1>4

(* A command gets the line without the spaces before it.                   *)
LEMMA GivenIs ==
    ASSUME NEW s \in Seq(Byte)
    PROVE  LET p == Given(s) IN
           p \in ParserType /\ p.next = TrimStart(s) /\ p.suffix = TrimStart(s)
  <1> DEFINE slash == "/"
             letter == "a"
             blank == " "
             t == <<slash, letter, blank>> \o s
             k == Span(s, Space)
  <1>1. /\ slash \in Byte /\ letter \in Byte /\ blank \in Byte
        /\ letter \in Word /\ blank \in Space /\ blank \notin Word
      BY DEF Byte, Word, Space
  <1> HIDE DEF slash, letter, blank
  <1>2. /\ t \in Seq(Byte) /\ Len(t) = 3 + Len(s) /\ Len(s) \in Nat
        /\ t[1] = slash /\ t[2] = letter /\ t[3] = blank /\ \A i \in 1..Len(s) : t[3 + i] = s[i]
      BY <1>1, Prefixed
  <1> HIDE DEF t
  <1>3. t # <<>> /\ t[1] = "/"
    <2>1. t # <<>>
        BY <1>2
    <2> QED BY <1>2, <2>1, Zenon DEF slash
  <1> DEFINE r == Tail(t)
  <1>4. r \in Seq(Byte) /\ Len(r) = Len(s) + 2 /\ r[1] = letter /\ r[2] = blank
    <2>1. /\ r \in Seq(Byte) /\ Len(r) = Len(t) - 1
          /\ \A i \in 1..(Len(t) - 1) : r[i] = t[i + 1]
        BY <1>2, TailOf
    <2> HIDE DEF r
    <2>2. 1 \in 1..(Len(t) - 1) /\ 2 \in 1..(Len(t) - 1) /\ 1 + 1 = 2 /\ 2 + 1 = 3
        BY <1>2
    <2> QED BY <1>2, <2>1, <2>2
  <1>5. Span(r, Word) = 1
    <2> HIDE DEF r
    <2>1. 1 \in 0..Len(r) /\ 1 + 1 = 2 /\ \A i \in 1..1 : i = 1
        BY <1>2, <1>4
    <2>2. (\A i \in 1..1 : r[i] \in Word) /\ r[1 + 1] \notin Word
        BY <1>1, <1>4, <2>1
    <2> QED BY <1>4, <2>1, <2>2, SpanIs
  <1> DEFINE q == TakeCommand(t)
             u == SubSeq(t, 3, Len(t))
  <1>6. q \in ParserType /\ q.next = u
    <2> DEFINE m == Span(r, Word)
    <2>1. /\ q.found <=> t # <<>> /\ t[1] = "/" /\ m # 0
          /\ q.found => q \in ParserType
                        /\ q = [found |-> TRUE, next |-> SubSeq(t, m + 2, Len(t)),
                                match |-> SubSeq(t, 1, m + 1), suffix |-> SubSeq(t, m + 2, Len(t))]
      <3>1. t \in Seq(Byte)
          BY <1>2
      <3> QED BY <3>1, CommandTaken, Zenon
    <2> HIDE DEF q, m
    <2>2. m # 0 /\ m + 2 = 3
        BY <1>5 DEF m
    <2>3. q.found
        BY <1>3, <2>1, <2>2, Zenon
    <2> QED BY <2>1, <2>2, <2>3
  <1>7. u \in Seq(Byte) /\ Len(u) = Len(s) + 1 /\ u[1] = blank /\ \A i \in 1..Len(s) : u[i + 1] = s[i]
    <2>1. 2 \in 0..Len(t) /\ 2 + 1 = 3
        BY <1>2
    <2>2. u \in Seq(Byte) /\ Len(u) = Len(t) - 2 /\ \A i \in 1..Len(u) : u[i] = t[2 + i]
        BY <1>2, <2>1, Rest
    <2> HIDE DEF u
    <2>3. Len(u) = Len(s) + 1
        BY <1>2, <2>2
    <2>4. ASSUME NEW i \in 1..Len(s) PROVE u[i + 1] = s[i]
      <3>1. i + 1 \in 1..Len(u) /\ 2 + (i + 1) = 3 + i
          BY <1>2, <2>3
      <3> QED BY <1>2, <2>2, <3>1
    <2>5. 1 \in 1..Len(u) /\ 2 + 1 = 3
        BY <1>2, <2>3
    <2> QED BY <1>2, <2>2, <2>3, <2>4, <2>5
  <1> HIDE DEF q, u
  <1>8. k \in 0..Len(s) /\ (\A i \in 1..k : s[i] \in Space) /\ (k < Len(s) => s[k + 1] \notin Space)
      BY SpanEnds
  <1> HIDE DEF k
  <1>9. Span(u, Space) = k + 1
    <2>1. k + 1 \in 0..Len(u)
        BY <1>7, <1>8
    <2>2. ASSUME NEW i \in 1..(k + 1) PROVE u[i] \in Space
      <3>1. CASE i = 1
          BY <1>1, <1>7, <3>1
      <3>2. CASE i # 1
        <4>1. i - 1 \in 1..k /\ i - 1 \in 1..Len(s) /\ (i - 1) + 1 = i
            BY <1>8, <3>2
        <4> QED BY <1>7, <1>8, <4>1
      <3> QED BY <3>1, <3>2
    <2>3. k + 1 < Len(u) => u[(k + 1) + 1] \notin Space
      <3> SUFFICES ASSUME k + 1 < Len(u) PROVE u[(k + 1) + 1] \notin Space
          OBVIOUS
      <3>1. k + 1 \in 1..Len(s)
          BY <1>7, <1>8
      <3> QED BY <1>7, <1>8, <3>1
    <2> QED BY <1>7, <2>1, <2>2, <2>3, SpanIs
  <1> DEFINE g == TakeAll(q, Space)
  <1>10. k + 1 # 0
      BY <1>8
  <1>11. g \in ParserType /\ g.next = SubSeq(u, (k + 1) + 1, Len(u)) /\ g.suffix = g.next
      BY <1>6, <1>9, <1>10, TakesRun
  <1> HIDE DEF g
  <1>12. SubSeq(u, (k + 1) + 1, Len(u)) = SubSeq(s, k + 1, Len(s))
      BY <1>7, <1>8
  <1>13. Given(s) = g
      BY DEF Given, Arguments, g, q, t, slash, letter, blank
  <1> QED BY <1>11, <1>12, <1>13 DEF TrimStart, k

(* Bytes of a word, then spaces, then a rest that does not start with one: *)
(* Splits says so of the two ends.                                         *)
LEMMA SplitsAt ==
    ASSUME NEW s \in Seq(Byte), NEW w \in 0..Len(s), NEW k \in 0..(Len(s) - w),
           \A i \in 1..w : s[i] \notin Space,
           \A i \in (w + 1)..(w + k) : s[i] \in Space,
           w + k < Len(s) => k > 0 /\ s[w + k + 1] \notin Space
    PROVE  Splits(s, SubSeq(s, 1, w), SubSeq(s, w + k + 1, Len(s)))
  <1> DEFINE word == SubSeq(s, 1, w)
             mid == SubSeq(s, w + 1, w + k)
             rest == SubSeq(s, w + k + 1, Len(s))
  <1>1. word \in Seq(Byte) /\ Len(word) = w /\ \A i \in 1..w : word[i] = s[i]
      OBVIOUS
  <1>2. rest \in Seq(Byte) /\ Len(rest) = Len(s) - (w + k) /\ \A i \in 1..Len(rest) : rest[i] = s[w + k + i]
    <2>1. w + k \in 0..Len(s)
        OBVIOUS
    <2> QED BY <2>1, Rest
  <1>3. mid \in Seq(Byte) /\ Len(mid) = k /\ \A i \in 1..k : mid[i] = s[w + i]
    <2>1. w + 1 \in 1..(Len(s) + 1) /\ w + k \in w..Len(s)
        OBVIOUS
    <2> QED BY <2>1
  <1> HIDE DEF word, mid, rest
  <1>4. ToSet(word) \cap Space = {}
    <2>1. ASSUME NEW i \in DOMAIN word PROVE word[i] \notin Space
        BY <1>1
    <2> QED BY <2>1 DEF ToSet
  <1>5. Blank(mid)
    <2>1. ASSUME NEW i \in DOMAIN mid PROVE mid[i] \in Space
      <3>1. i \in 1..k /\ w + i \in (w + 1)..(w + k)
          BY <1>3
      <3> QED BY <1>3, <3>1
    <2> QED BY <2>1 DEF Blank, ToSet
  <1>6. rest # <<>> => k > 0 /\ rest[1] \notin Space
    <2> SUFFICES ASSUME rest # <<>> PROVE k > 0 /\ rest[1] \notin Space
        OBVIOUS
    <2>1. 1 \in 1..Len(rest) /\ w + k < Len(s)
        BY <1>2
    <2> QED BY <1>2, <2>1
  <1>7. /\ k \in 0..Len(s) /\ Len(word) + k + Len(rest) = Len(s)
        /\ word = SubSeq(s, 1, Len(word))
        /\ mid = SubSeq(s, Len(word) + 1, Len(word) + k)
        /\ rest = SubSeq(s, Len(word) + k + 1, Len(s))
    <2>1. Len(word) = w
        BY <1>1
    <2>2. k \in 0..Len(s) /\ w + k + Len(rest) = Len(s)
        BY <1>2
    <2> QED BY <2>1, <2>2 DEF word, mid, rest
  <1>8. Splits(s, word, rest)
      BY <1>4, <1>5, <1>6, <1>7, Zenon DEF Splits
  <1> QED BY <1>8 DEF word, rest

(* What a command is called, and all that follows it.                      *)
LEMMA ExactCommand ==
    ASSUME CommandLineAssumption, line \in Seq(Byte)
    PROVE  CommandExact
  <1> DEFINE did == Process(line)
             t == Text(line)
             p == TakeCommand(t)
             a == TakeAll(p, Space)
             name == Tail(p.match)
             w == Span(Tail(t), Word) + 1
             k == Span(p.next, Space)
  <1> SUFFICES ASSUME did.kind = "command"
               PROVE  /\ did.name # <<>> /\ Splits(t, <<"/">> \o did.name, did.args.suffix)
                      /\ Styled(did.args) = did.args.suffix
      BY DEF CommandExact
  <1>1. p.found /\ did.name = name /\ did.args = a
    <2>1. did = IF t = <<>> THEN [kind |-> "nothing"]
                ELSE IF Blank(t) THEN [kind |-> "blank"]
                ELSE IF p.found THEN [kind |-> "command", name |-> name, args |-> a]
                ELSE IF t[1] = "/" THEN [kind |-> "no command"]
                ELSE [kind |-> "said", text |-> t]
        BY DEF Process, Arguments
    <2> HIDE DEF t, did, p, name, a
    <2> QED BY <2>1
  <1> HIDE DEF did
  <1>2. t \in Seq(Byte)
      BY TextFine
  <1> HIDE DEF t
  <1>3. /\ p \in ParserType /\ t[1] = "/" /\ w \in 2..Len(t)
        /\ \A i \in 1..w : t[i] \in Word
        /\ w < Len(t) => t[w + 1] \notin Word
        /\ p.next = SubSeq(t, w + 1, Len(t)) /\ p.suffix = p.next /\ p.match = SubSeq(t, 1, w)
    <2> DEFINE m == Span(Tail(t), Word)
    <2>1. /\ t # <<>> /\ t[1] = "/" /\ m # 0 /\ m + 1 \in 1..Len(t)
          /\ \A i \in 1..(m + 1) : t[i] \in Word
          /\ m + 1 < Len(t) => t[m + 2] \notin Word
          /\ p = [found |-> TRUE, next |-> SubSeq(t, m + 2, Len(t)),
                  match |-> SubSeq(t, 1, m + 1), suffix |-> SubSeq(t, m + 2, Len(t))]
          /\ p \in ParserType
        BY <1>1, <1>2, CommandTaken, Zenon
    <2>2. Tail(t) \in Seq(Byte)
        BY <1>2, <2>1
    <2>3. m \in Nat
      <3>1. m \in 0..Len(Tail(t))
          BY <2>2, SpanEnds, Zenon
      <3> HIDE DEF m
      <3> QED BY <3>1
    <2> HIDE DEF m, p
    <2>4. w = m + 1
        BY DEF m
    <2> HIDE DEF w
    <2>5. w \in 2..Len(t) /\ w + 1 = m + 2
        BY <2>1, <2>3, <2>4
    <2>6. p.next = SubSeq(t, w + 1, Len(t)) /\ p.suffix = p.next /\ p.match = SubSeq(t, 1, w)
        BY <2>1, <2>4, <2>5, Zenon
    <2> QED BY <2>1, <2>4, <2>5, <2>6, Zenon
  <1> HIDE DEF p, w
  <1>4. w \in 0..Len(t) /\ w \in Nat
      BY <1>3
  <1>5. /\ p.next \in Seq(Byte) /\ Len(p.next) = Len(t) - w
        /\ \A i \in 1..Len(p.next) : p.next[i] = t[w + i]
      BY <1>2, <1>3, <1>4, Rest
  <1>6. /\ k \in 0..Len(p.next) /\ \A i \in 1..k : p.next[i] \in Space
        /\ k < Len(p.next) => p.next[k + 1] \notin Space
      BY <1>5, SpanEnds
  <1>7. /\ k # 0 => a.suffix = SubSeq(p.next, k + 1, Len(p.next))
        /\ p.next = <<>> => a.suffix = p.suffix
      BY <1>3, TakesRun
  <1> HIDE DEF k, a
  <1>8. k = 0 => p.next = <<>>
    <2> SUFFICES ASSUME k = 0, p.next # <<>> PROVE FALSE
        OBVIOUS
    <2>1. 1 \in 1..Len(p.next) /\ w < Len(t)
        BY <1>4, <1>5
    <2>2. t[w + 1] \in Byte /\ t[w + 1] \notin Word /\ t[w + 1] \notin Space
        BY <1>2, <1>3, <1>4, <1>5, <1>6, <2>1
    <2> QED BY <2>2, WordOrSpace
  <1>9. a.suffix = SubSeq(t, w + k + 1, Len(t))
    <2>1. SubSeq(p.next, k + 1, Len(p.next)) = SubSeq(t, w + k + 1, Len(t))
        BY <1>2, <1>3, <1>4, <1>6, RestOfRest
    <2>2. CASE k # 0
        BY <1>7, <2>1, <2>2
    <2>3. CASE k = 0
      <3>1. a.suffix = p.next
          BY <1>3, <1>7, <1>8, <2>3
      <3>2. w + k + 1 = w + 1
          BY <1>4, <2>3
      <3> QED BY <1>3, <3>1, <3>2
    <2> QED BY <2>2, <2>3
  <1>10. Splits(t, p.match, a.suffix)
    <2>1. k \in 0..(Len(t) - w)
        BY <1>5, <1>6
    <2>2. \A i \in 1..w : t[i] \notin Space
        BY <1>2, <1>3, <1>4, WordOrSpace
    <2>3. ASSUME NEW i \in (w + 1)..(w + k) PROVE t[i] \in Space
      <3>1. i - w \in 1..k /\ i - w \in 1..Len(p.next) /\ w + (i - w) = i
          BY <1>4, <1>6
      <3> QED BY <1>5, <1>6, <3>1
    <2>4. w + k < Len(t) => k > 0 /\ t[w + k + 1] \notin Space
      <3> SUFFICES ASSUME w + k < Len(t) PROVE k > 0 /\ t[w + k + 1] \notin Space
          OBVIOUS
      <3>1. k + 1 \in 1..Len(p.next) /\ w + (k + 1) = w + k + 1 /\ Len(p.next) # 0
          BY <1>4, <1>5, <1>6
      <3>2. k # 0
          BY <1>8, <3>1
      <3> QED BY <1>5, <1>6, <3>1, <3>2
    <2>5. Splits(t, SubSeq(t, 1, w), SubSeq(t, w + k + 1, Len(t)))
        BY <1>2, <1>4, <2>1, <2>2, <2>3, <2>4, SplitsAt
    <2> QED BY <1>3, <1>9, <2>5
  <1>11. name # <<>> /\ <<"/">> \o name = p.match
    <2> DEFINE c == p.match
    <2>1. c \in Seq(Byte) /\ Len(c) >= 2 /\ c[1] = t[1]
        BY <1>2, <1>3
    <2> HIDE DEF c
    <2>2. c # <<>> /\ Tail(c) # <<>>
      <3>1. c # <<>>
          BY <2>1
      <3> DEFINE r == Tail(c)
      <3>2. r \in Seq(Byte) /\ Len(r) = Len(c) - 1
          BY <2>1, <3>1, TailOf
      <3> HIDE DEF r
      <3>3. r # <<>>
          BY <2>1, <3>2
      <3> QED BY <3>1, <3>3 DEF r
    <2>3. <<c[1]>> \o Tail(c) = c
        BY <2>1, <2>2, FirstAndRest
    <2>4. c[1] = "/"
        BY <1>3, <2>1
    <2> QED BY <2>2, <2>3, <2>4, Zenon DEF c
  <1>12. Styled(a) = a.suffix
    <2> DEFINE rest == a.suffix
    <2>1. rest # <<>> => rest[1] \notin Space
        BY <1>10 DEF Splits
    <2>2. rest \in Seq(Byte)
        BY <1>3, TakesRun DEF ParserType, a
    <2> HIDE DEF rest
    <2>3. Blank(rest) => rest = <<>>
      <3> SUFFICES ASSUME Blank(rest), rest # <<>> PROVE FALSE
          OBVIOUS
      <3>1. 1 \in DOMAIN rest
          BY <2>2
      <3> QED BY <2>1, <3>1 DEF Blank, ToSet
    <2> QED BY <2>3 DEF Styled, rest
  <1> QED BY <1>1, <1>10, <1>11, <1>12

(* The number that digits tell.                                            *)
LEMMA ReadUintRange ==
    ASSUME CommandLineAssumption, NEW s \in Seq(Digit), s # <<>>
    PROVE  ReadUint(s) \in 1..MaxUint
  <1> DEFINE step == [b \in Digit |-> [n \in Nat |-> 10 * n + 1]]
             value == Along(s, 0, step)
  <1>1. step \in [Digit -> [Nat -> Nat]]
      OBVIOUS
  <1>2. Len(s) \in 1..Len(s) /\ Len(s) - 1 \in 0..Len(s) /\ s[Len(s)] \in Digit
    <2>1. Len(s) \in Nat /\ Len(s) # 0
        OBVIOUS
    <2> QED BY <2>1
  <1>3. \A b \in Digit : \A n \in Nat : step[b][n] = 10 * n + 1
      OBVIOUS
  <1> HIDE DEF step
  <1>4. PICK out \in [0..Len(s) -> Nat] :
            /\ \A i \in 1..Len(s) : out[i] = step[s[i]][out[i - 1]]
            /\ value = out[Len(s)]
    <2>1. 0 \in Nat
        OBVIOUS
    <2>2. Traced(s, Nat, 0, step)
        BY <1>1, <2>1, AlongSteps
    <2> QED BY <2>2 DEF Traced
  <1> HIDE DEF value
  <1>5. value = 10 * out[Len(s) - 1] + 1 /\ out[Len(s) - 1] \in Nat
      BY <1>2, <1>3, <1>4
  <1>6. value \in Nat /\ value >= 1
      BY <1>5
  <1>7. MaxUint \in Nat /\ MaxUint >= 1
      BY DEF CommandLineAssumption
  <1>8. ReadUint(s) = IF value > MaxUint THEN MaxUint ELSE value
      BY DEF ReadUint, value, step
  <1> QED BY <1>6, <1>7, <1>8

(* What follows a word: it is nothing, or it starts with a space.          *)
Past(s) == SubSeq(s, Span(s, Word) + 1, Len(s))

LEMMA PastIs ==
    ASSUME NEW s \in Seq(Byte)
    PROVE  LET r == Past(s) w == Span(s, Word) IN
           /\ w \in 0..Len(s) /\ (\A i \in 1..w : s[i] \in Word)
           /\ r \in Seq(Byte) /\ Len(r) = Len(s) - w /\ \A i \in 1..Len(r) : r[i] = s[w + i]
           /\ r # <<>> => r[1] \in Space
  <1> DEFINE w == Span(s, Word)
             r == SubSeq(s, w + 1, Len(s))
  <1>1. /\ w \in 0..Len(s) /\ (\A i \in 1..w : s[i] \in Word)
        /\ w < Len(s) => s[w + 1] \notin Word
      BY SpanEnds
  <1> HIDE DEF w
  <1>2. r \in Seq(Byte) /\ Len(r) = Len(s) - w /\ \A i \in 1..Len(r) : r[i] = s[w + i]
      BY <1>1, Rest
  <1> HIDE DEF r
  <1>3. r # <<>> => r[1] \in Space
    <2> SUFFICES ASSUME r # <<>> PROVE r[1] \in Space
        OBVIOUS
    <2>1. 1 \in 1..Len(r) /\ w < Len(s)
        BY <1>1, <1>2
    <2>2. r[1] = s[w + 1] /\ r[1] \in Byte
        BY <1>2, <2>1
    <2> QED BY <1>1, <2>1, <2>2, WordOrSpace
  <1> QED BY <1>1, <1>2, <1>3 DEF Past, r, w

(* The text of a private message is that, without the spaces.              *)
LEMMA AfterWordIs ==
    ASSUME NEW p \in ParserType
    PROVE  AfterWord(p) = TrimStart(Past(p.next))
  <1> DEFINE s == p.next
             r == Past(s)
             q == TakeAll(p, Word)
             u == TakeAll(q, Space)
             k == Span(r, Space)
  <1>1. s \in Seq(Byte)
      BY DEF ParserType
  <1>2. r \in Seq(Byte) /\ (r # <<>> => r[1] \in Space)
      BY <1>1, PastIs
  <1>3. q \in ParserType /\ q.next = r
      BY TakesRun DEF Past
  <1>4. AfterWord(p) = IF u.found THEN u.suffix ELSE <<>>
      BY DEF AfterWord
  <1> HIDE DEF q, r
  <1>5. /\ u.found <=> k # 0
        /\ k # 0 => u.suffix = SubSeq(r, k + 1, Len(r))
      BY <1>3, TakesRun
  <1>6. k \in 0..Len(r) /\ (k < Len(r) => r[k + 1] \notin Space)
      BY <1>2, SpanEnds
  <1>7. TrimStart(r) = SubSeq(r, k + 1, Len(r))
      BY DEF TrimStart
  <1> HIDE DEF u, k
  <1>8. CASE k # 0
      BY <1>4, <1>5, <1>7, <1>8 DEF r, s
  <1>9. CASE k = 0
    <2>1. r = <<>>
      <3> SUFFICES ASSUME r # <<>> PROVE FALSE
          OBVIOUS
      <3>1. 0 < Len(r)
          BY <1>2
      <3> QED BY <1>2, <1>6, <1>9, <3>1
    <2>2. SubSeq(r, k + 1, Len(r)) = <<>>
        BY <1>9, <2>1
    <2> QED BY <1>4, <1>5, <1>7, <1>9, <2>2 DEF r, s
  <1> QED BY <1>8, <1>9

(* A line is its first word, and what a private message takes as text.     *)
LEMMA WordAndRest ==
    ASSUME NEW s \in Seq(Byte)
    PROVE  Splits(s, SubSeq(s, 1, Span(s, Word)), TrimStart(Past(s)))
  <1> DEFINE w == Span(s, Word)
             r == Past(s)
             k == Span(r, Space)
  <1>1. /\ w \in 0..Len(s) /\ (\A i \in 1..w : s[i] \in Word)
        /\ r \in Seq(Byte) /\ Len(r) = Len(s) - w /\ \A i \in 1..Len(r) : r[i] = s[w + i]
        /\ r # <<>> => r[1] \in Space
        /\ r = SubSeq(s, w + 1, Len(s))
      BY PastIs DEF Past
  <1> HIDE DEF w, r
  <1>2. /\ k \in 0..Len(r) /\ (\A i \in 1..k : r[i] \in Space)
        /\ k < Len(r) => r[k + 1] \notin Space
      BY <1>1, SpanEnds
  <1>3. TrimStart(r) = SubSeq(r, k + 1, Len(r))
      BY DEF TrimStart
  <1> HIDE DEF k
  <1>4. TrimStart(r) = SubSeq(s, w + k + 1, Len(s))
      BY <1>1, <1>2, <1>3, RestOfRest
  <1>5. k \in 0..(Len(s) - w)
      BY <1>1, <1>2
  <1>6. \A i \in 1..w : s[i] \notin Space
      BY <1>1, WordOrSpace
  <1>7. ASSUME NEW i \in (w + 1)..(w + k) PROVE s[i] \in Space
    <2>1. i - w \in 1..k /\ i - w \in 1..Len(r) /\ w + (i - w) = i
        BY <1>1, <1>2
    <2> QED BY <1>1, <1>2, <2>1
  <1>8. ASSUME w + k < Len(s) PROVE k > 0 /\ s[w + k + 1] \notin Space
    <2>1. k \in Nat /\ w \in Nat /\ k < Len(r)
        BY <1>1, <1>2, <1>8
    <2>2. k + 1 \in 1..Len(r) /\ w + (k + 1) = w + k + 1 /\ r # <<>>
      <3>1. Len(r) \in Nat /\ Len(r) # 0
          BY <1>1, <2>1
      <3> QED BY <2>1, <3>1
    <2>3. k # 0
        BY <1>1, <1>2, <2>1, <2>2
    <2> QED BY <1>1, <1>2, <2>1, <2>2, <2>3
  <1>9. Splits(s, SubSeq(s, 1, w), SubSeq(s, w + k + 1, Len(s)))
      BY <1>1, <1>5, <1>6, <1>7, <1>8, SplitsAt
  <1> QED BY <1>4, <1>9 DEF w, r

(* Digits are of the first word: what follows it stays the same.           *)
LEMMA PastDigits ==
    ASSUME NEW s \in Seq(Byte)
    PROVE  Past(SubSeq(s, Span(s, Digit) + 1, Len(s))) = Past(s)
  <1> DEFINE d == Span(s, Digit)
             w == Span(s, Word)
             r == SubSeq(s, d + 1, Len(s))
  <1>1. /\ w \in 0..Len(s) /\ (\A i \in 1..w : s[i] \in Word)
        /\ w < Len(s) => s[w + 1] \notin Word
      BY SpanEnds
  <1>2. d \in 0..Len(s) /\ \A i \in 1..d : s[i] \in Digit
      BY SpanEnds
  <1> HIDE DEF d, w
  <1>3. d <= w
    <2> SUFFICES ASSUME w < d PROVE FALSE
        BY <1>1, <1>2
    <2>1. w + 1 \in 1..d /\ w < Len(s)
        BY <1>1, <1>2
    <2> QED BY <1>1, <1>2, <2>1, WordOrSpace
  <1>4. r \in Seq(Byte) /\ Len(r) = Len(s) - d /\ \A i \in 1..Len(r) : r[i] = s[d + i]
      BY <1>2, Rest
  <1>5. \A k \in 0..Len(r) : SubSeq(r, k + 1, Len(r)) = SubSeq(s, d + k + 1, Len(s))
      BY <1>2, RestOfRest
  <1> HIDE DEF r
  <1>6. Span(r, Word) = w - d
    <2>1. w - d \in 0..Len(r)
        BY <1>1, <1>2, <1>3, <1>4
    <2>2. ASSUME NEW i \in 1..(w - d) PROVE r[i] \in Word
      <3>1. i \in 1..Len(r) /\ d + i \in 1..w
          BY <1>1, <1>2, <1>3, <1>4
      <3> QED BY <1>1, <1>4, <3>1
    <2>3. ASSUME w - d < Len(r) PROVE r[(w - d) + 1] \notin Word
      <3>1. (w - d) + 1 \in 1..Len(r) /\ d + ((w - d) + 1) = w + 1 /\ w < Len(s)
          BY <1>1, <1>2, <1>3, <1>4, <2>3
      <3> QED BY <1>1, <1>4, <3>1
    <2> QED BY <1>4, <2>1, <2>2, <2>3, SpanIs
  <1>7. SubSeq(r, (w - d) + 1, Len(r)) = SubSeq(s, w + 1, Len(s))
    <2>1. w - d \in 0..Len(r) /\ d + (w - d) + 1 = w + 1
        BY <1>1, <1>2, <1>3, <1>4
    <2> QED BY <1>5, <2>1
  <1> QED BY <1>6, <1>7 DEF Past, r, d, w

(* A private message.                                                      *)
LEMMA ExactPrivate ==
    ASSUME CommandLineAssumption, line \in Seq(Byte)
    PROVE  PrivateExact /\ PrivateById(Given(line)).to \in 0..MaxUint
  <1> DEFINE p == Given(line)
             s == p.suffix
             w == Span(s, Word)
             d == Span(s, Digit)
             q == TakeAll(p, Word)
             n == TakeAll(p, Digit)
             text == TrimStart(Past(s))
             to == IF d # 0 THEN ReadUint(SubSeq(s, 1, d)) ELSE 0
  <1>1. p \in ParserType /\ p.next = s /\ s \in Seq(Byte)
      BY GivenIs DEF ParserType
  <1> HIDE DEF p
  <1>2. /\ q.found <=> w # 0
        /\ w # 0 => q.match = SubSeq(s, 1, w)
      BY <1>1, TakesRun
  <1>3. /\ d \in 0..Len(s) /\ n \in ParserType /\ n.next = SubSeq(s, d + 1, Len(s))
        /\ n.found <=> d # 0
        /\ d # 0 => n.match = SubSeq(s, 1, d)
      BY <1>1, TakesRun
  <1>4. AfterWord(p) = text
      BY <1>1, AfterWordIs
  <1>5. AfterWord(n) = text
      BY <1>1, <1>3, AfterWordIs, PastDigits
  <1>6. Splits(s, SubSeq(s, 1, w), text)
      BY <1>1, WordAndRest
  <1>7. Private(p).to = SubSeq(s, 1, w) /\ Private(p).text = text
    <2>1. w = 0 => SubSeq(s, 1, w) = <<>>
        BY <1>1
    <2> HIDE DEF q, text, w
    <2>2. Private(p) = [to |-> IF q.found THEN q.match ELSE <<>>, text |-> AfterWord(p)]
        BY DEF Private, q
    <2> QED BY <1>2, <1>4, <2>1, <2>2
  <1>8. /\ (\A i \in 1..d : s[i] \in Digit)
        /\ d < Len(s) => s[d + 1] \notin Digit
      BY <1>1, SpanEnds
  <1> HIDE DEF d, n, text
  <1>9. PrivateById(p).to = to /\ PrivateById(p).text = text
    <2>1. PrivateById(p) = [to |-> IF n.found THEN ReadUint(n.match) ELSE 0, text |-> AfterWord(n)]
        BY DEF PrivateById, n
    <2>2. PrivateById(p).to = IF n.found THEN ReadUint(n.match) ELSE 0
        BY <2>1
    <2>3. PrivateById(p).text = AfterWord(n)
        BY <2>1
    <2> QED BY <1>3, <1>5, <2>2, <2>3, Zenon
  <1>10. Account(p) = IF d # 0 THEN {to} ELSE {}
    <2>1. Account(p) = IF n.found THEN {ReadUint(n.match)} ELSE {}
        BY DEF Account, n
    <2> QED BY <1>3, <2>1
  <1>11. d # 0 => to \in 1..MaxUint
    <2> SUFFICES ASSUME d # 0 PROVE to \in 1..MaxUint
        OBVIOUS
    <2> DEFINE m == SubSeq(s, 1, d)
    <2>1. m \in Seq(Byte) /\ Len(m) = d /\ \A i \in 1..d : m[i] = s[i]
        BY <1>1, <1>3
    <2> HIDE DEF m
    <2>2. m \in Seq(Digit) /\ m # <<>>
        BY <1>8, <2>1
    <2>3. ReadUint(m) \in 1..MaxUint
        BY <2>2, ReadUintRange
    <2> QED BY <2>3 DEF m
  <1>12. d = 0 <=> (s = <<>> \/ s[1] \notin Digit)
    <2>1. s = <<>> => d = 0
        BY <1>3
    <2>2. ASSUME s # <<>> PROVE d = 0 <=> s[1] \notin Digit
      <3>1. Len(s) \in Nat /\ 0 < Len(s) /\ d \in Nat
          BY <1>1, <1>3, <2>2
      <3>2. d # 0 => 1 \in 1..d
          BY <3>1
      <3>3. d = 0 => d + 1 = 1
          OBVIOUS
      <3> QED BY <1>8, <3>1, <3>2, <3>3
    <2> QED BY <2>1, <2>2
  <1> HIDE DEF to, s, w
  <1>13. to = 0 <=> d = 0
    <2>1. d = 0 => to = 0
        BY DEF to
    <2>2. d # 0 => to # 0
        BY <1>11
    <2> QED BY <2>1, <2>2
  <1>14. Account(p) = {to} \ {0}
      BY <1>10, <1>13
  <1>15. PrivateExact
      BY <1>6, <1>7, <1>9, <1>12, <1>13, <1>14 DEF PrivateExact, p, s
  <1>16. to \in 0..MaxUint
    <2>1. MaxUint \in Nat
        BY DEF CommandLineAssumption
    <2>2. CASE d = 0
        BY <1>13, <2>1, <2>2
    <2>3. CASE d # 0
        BY <1>11, <2>1, <2>3
    <2> QED BY <2>2, <2>3
  <1> QED BY <1>9, <1>15, <1>16 DEF p

-----------------------------------------------------------------------------
(* A nick.                                                                 *)

(* What TrimEnd leaves.                                                    *)
LEMMA TrimEndIs ==
    ASSUME NEW s \in Seq(Byte)
    PROVE  LET t == TrimEnd(s) IN
           /\ t \in Seq(Byte)
           /\ t # <<>> => t[Len(t)] \notin Space
           /\ s = <<>> \/ s[Len(s)] \notin Space => t = s
  <1> DEFINE r == Reverse(s)
             n == Span(r, Space)
             a == SubSeq(r, n + 1, Len(r))
             t == Reverse(a)
  <1>1. r \in Seq(Byte) /\ Len(r) = Len(s) /\ \A i \in 1..Len(s) : r[i] = s[(Len(s) - i) + 1]
      BY DEF Reverse
  <1> HIDE DEF r
  <1>2. n \in 0..Len(s) /\ (n < Len(s) => r[n + 1] \notin Space)
      BY <1>1, SpanEnds
  <1>3. (\A i \in 1..n : r[i] \in Space)
      BY <1>1, SpanEnds
  <1> HIDE DEF n
  <1>4. a \in Seq(Byte) /\ Len(a) = Len(s) - n /\ \A i \in 1..Len(a) : a[i] = r[n + i]
      BY <1>1, <1>2, Rest
  <1> HIDE DEF a
  <1>5. t \in Seq(Byte) /\ Len(t) = Len(a) /\ \A i \in 1..Len(a) : t[i] = a[(Len(a) - i) + 1]
      BY <1>4 DEF Reverse
  <1>6. TrimEnd(s) = t
      BY <1>1 DEF TrimEnd, t, a, n, r
  <1> HIDE DEF t
  <1>7. t # <<>> => t[Len(t)] \notin Space
    <2> SUFFICES ASSUME t # <<>> PROVE t[Len(t)] \notin Space
        OBVIOUS
    <2>1. Len(t) \in 1..Len(a) /\ (Len(a) - Len(t)) + 1 = 1 /\ 1 \in 1..Len(a) /\ n < Len(s)
        BY <1>2, <1>4, <1>5
    <2>2. t[Len(t)] = a[1] /\ a[1] = r[n + 1]
        BY <1>4, <1>5, <2>1
    <2> QED BY <1>2, <2>1, <2>2
  <1>8. s = <<>> \/ s[Len(s)] \notin Space => t = s
    <2> SUFFICES ASSUME s = <<>> \/ s[Len(s)] \notin Space PROVE t = s
        OBVIOUS
    <2>1. n = 0
      <3>1. CASE s = <<>>
          BY <1>2, <3>1
      <3>2. CASE s # <<>> /\ n # 0
        <4>1. 1 \in 1..n /\ 1 \in 1..Len(s) /\ (Len(s) - 1) + 1 = Len(s)
            BY <1>2, <3>2
        <4> QED BY <1>1, <1>3, <3>2, <4>1
      <3> QED BY <3>1, <3>2
    <2>2. Len(t) = Len(s) /\ Len(a) = Len(s)
        BY <1>2, <1>4, <1>5, <2>1
    <2>3. ASSUME NEW i \in 1..Len(t) PROVE t[i] = s[i]
      <3> DEFINE j == (Len(s) - i) + 1
      <3>1. j \in 1..Len(s) /\ n + j = j /\ (Len(s) - j) + 1 = i
          BY <2>1, <2>2
      <3> HIDE DEF j
      <3>2. t[i] = a[j]
          BY <1>5, <2>2 DEF j
      <3>3. a[j] = r[j] /\ r[j] = s[i]
          BY <1>1, <1>4, <2>2, <3>1
      <3> QED BY <3>2, <3>3
    <2> QED BY <1>5, <2>2, <2>3, SeqEqual
  <1> QED BY <1>5, <1>6, <1>7, <1>8

(* No two spaces follow one another.                                       *)
NoPair(s) == \A i \in 1..(Len(s) - 1) : ~(s[i] \in Space /\ s[i + 1] \in Space)

(* What one byte more makes of a text.                                     *)
SpaceAfter(t, b) == IF b \in Space /\ t # <<>> /\ Last(t) \in Space
                    THEN Append(Front(t), " ") ELSE Append(t, b)
SpaceStep == [b \in Byte |-> [t \in Seq(Byte) |-> SpaceAfter(t, b)]]

(* What LongSpaces has made of the first i bytes of s.                     *)
LEMMA LongSpacesSteps ==
    ASSUME NEW s \in Seq(Byte)
    PROVE  \E out \in [0..Len(s) -> Seq(Byte)] :
              /\ out[0] = <<>>
              /\ \A i \in 1..Len(s) : out[i] = SpaceAfter(out[i - 1], s[i])
              /\ LongSpaces(s) = out[Len(s)]
  <1>1. SpaceStep \in [Byte -> [Seq(Byte) -> Seq(Byte)]]
    <2>1. ASSUME NEW b \in Byte, NEW t \in Seq(Byte)
          PROVE  SpaceAfter(t, b) \in Seq(Byte)
      <3> DEFINE blank == " "
                 f == Front(t)
      <3>1. blank \in Byte
          BY DEF Byte
      <3> HIDE DEF blank
      <3>2. f \in Seq(Byte)
          BY DEF Front
      <3> HIDE DEF f
      <3>3. Append(f, blank) \in Seq(Byte) /\ Append(t, b) \in Seq(Byte)
          BY <3>1, <3>2
      <3> QED BY <3>3, Zenon DEF f, blank, SpaceAfter
    <2> QED BY <2>1 DEF SpaceStep
  <1>2. PICK out \in [0..Len(s) -> Seq(Byte)] :
            /\ out[0] = <<>>
            /\ \A i \in 1..Len(s) : out[i] = SpaceStep[s[i]][out[i - 1]]
            /\ Along(s, <<>>, SpaceStep) = out[Len(s)]
    <2>1. <<>> \in Seq(Byte)
        OBVIOUS
    <2>2. Traced(s, Seq(Byte), <<>>, SpaceStep)
        BY <1>1, <2>1, AlongSteps
    <2> QED BY <2>2 DEF Traced
  <1>3. ASSUME NEW i \in 1..Len(s)
        PROVE  out[i] = SpaceAfter(out[i - 1], s[i])
    <2>1. i - 1 \in 0..Len(s)
        OBVIOUS
    <2>2. s[i] \in Byte /\ out[i - 1] \in Seq(Byte)
        BY <1>2, <2>1
    <2> QED BY <1>2, <2>2 DEF SpaceStep
  <1> QED BY <1>2, <1>3 DEF LongSpaces, SpaceStep, SpaceAfter

(* A text that starts with no space still does not, and no two follow one  *)
(* another.                                                                *)
LEMMA SpaceAfterKeeps ==
    ASSUME NEW t \in Seq(Byte), t # <<>>, NoPair(t), t[1] \notin Space, NEW b \in Byte
    PROVE  LET u == SpaceAfter(t, b) IN
           /\ u \in Seq(Byte) /\ u # <<>> /\ NoPair(u) /\ u[1] = t[1]
           /\ Last(u) \in Space <=> b \in Space
  <1> DEFINE blank == " "
             f == Front(t)
             both == b \in Space /\ Last(t) \in Space
             u == IF both THEN Append(f, blank) ELSE Append(t, b)
             Good(x) == /\ x \in Seq(Byte) /\ x # <<>> /\ NoPair(x) /\ x[1] = t[1]
                        /\ Last(x) \in Space <=> b \in Space
  <1>1. blank \in Byte /\ blank \in Space
      BY DEF Byte, Space
  <1> HIDE DEF blank
  <1>2. f \in Seq(Byte) /\ Len(f) = Len(t) - 1 /\ \A i \in 1..(Len(t) - 1) : f[i] = t[i]
      BY FrontIs
  <1> HIDE DEF f
  <1>3. ASSUME both PROVE Good(u)
    <2> DEFINE v == Append(f, blank)
    <2>1. v \in Seq(Byte) /\ Len(v) = Len(t) /\ v[Len(t)] = blank /\ \A i \in 1..(Len(t) - 1) : v[i] = t[i]
        BY <1>1, <1>2
    <2> HIDE DEF v
    <2>2. Len(t) \in Nat /\ Len(t) # 0
        OBVIOUS
    <2>3. t[Len(t)] \in Space
        BY <1>3 DEF Last
    <2>4. Len(t) # 1
        BY <2>3
    <2>5. v # <<>> /\ v[1] = t[1] /\ Last(v) \in Space
        BY <1>1, <2>1, <2>2, <2>4 DEF Last
    <2>6. ASSUME NEW i \in 1..(Len(v) - 1) PROVE ~(v[i] \in Space /\ v[i + 1] \in Space)
      <3>1. i \in 1..(Len(t) - 1) /\ (i + 1 = Len(t) \/ i + 1 \in 1..(Len(t) - 1))
          BY <2>1, <2>2
      <3>2. ~(t[i] \in Space /\ t[i + 1] \in Space)
          BY <3>1 DEF NoPair
      <3> QED BY <2>1, <2>3, <3>1, <3>2
    <2>7. u = v
        BY <1>3 DEF v
    <2> QED BY <1>3, <2>1, <2>5, <2>6, <2>7 DEF NoPair
  <1>4. ASSUME ~both PROVE Good(u)
    <2> DEFINE v == Append(t, b)
    <2>1. v \in Seq(Byte) /\ Len(v) = Len(t) + 1 /\ v[Len(t) + 1] = b /\ \A i \in 1..Len(t) : v[i] = t[i]
        OBVIOUS
    <2> HIDE DEF v
    <2>2. Len(t) \in Nat /\ Len(t) # 0
        OBVIOUS
    <2>3. v # <<>> /\ v[1] = t[1] /\ Last(v) = b
        BY <2>1, <2>2 DEF Last
    <2>4. ASSUME NEW i \in 1..(Len(v) - 1) PROVE ~(v[i] \in Space /\ v[i + 1] \in Space)
      <3>1. i \in 1..Len(t)
          BY <2>1, <2>2
      <3>2. CASE i = Len(t)
          BY <1>4, <2>1, <2>2, <3>2 DEF Last
      <3>3. CASE i \in 1..(Len(t) - 1)
        <4>1. i + 1 \in 1..Len(t) /\ ~(t[i] \in Space /\ t[i + 1] \in Space)
            BY <2>2, <3>3 DEF NoPair
        <4> QED BY <2>1, <3>1, <4>1
      <3> QED BY <2>2, <3>1, <3>2, <3>3
    <2>5. u = v
        BY <1>4 DEF v
    <2> QED BY <2>1, <2>3, <2>4, <2>5 DEF NoPair
  <1>5. SpaceAfter(t, b) = u
      BY Zenon DEF SpaceAfter, u, both, blank, f
  <1> HIDE DEF u
  <1> QED BY <1>3, <1>4, <1>5, Zenon

(* Of a text that neither starts nor ends with a space, no two are left.   *)
LEMMA LongSpacesClean ==
    ASSUME NEW s \in Seq(Byte), s # <<>>, s[1] \notin Space
    PROVE  LET t == LongSpaces(s) IN
           /\ t \in Seq(Byte) /\ t # <<>> /\ NoPair(t) /\ t[1] = s[1]
           /\ Last(t) \in Space <=> Last(s) \in Space
  <1>1. PICK out \in [0..Len(s) -> Seq(Byte)] :
            /\ out[0] = <<>>
            /\ \A i \in 1..Len(s) : out[i] = SpaceAfter(out[i - 1], s[i])
            /\ LongSpaces(s) = out[Len(s)]
      BY LongSpacesSteps
  <1> DEFINE Good(t, i) == t # <<>> /\ NoPair(t) /\ t[1] = s[1] /\ (Last(t) \in Space <=> s[i] \in Space)
             S == {i \in 0..Len(s) : i = 0 \/ Good(out[i], i)}
  <1>2. 0 \in S
      OBVIOUS
  <1>3. ASSUME NEW i \in 0..(Len(s) - 1), i \in S PROVE i + 1 \in S
    <2> DEFINE t == out[i]
               b == s[i + 1]
    <2>1. i \in 0..Len(s) /\ i + 1 \in 1..Len(s) /\ (i + 1) - 1 = i /\ i + 1 \in 0..Len(s)
        OBVIOUS
    <2>2. t \in Seq(Byte) /\ b \in Byte
        BY <1>1, <2>1
    <2>3. out[i + 1] = SpaceAfter(t, b)
        BY <1>1, <2>1
    <2>4. CASE i = 0
      <3>1. t = <<>> /\ b = s[1] /\ i + 1 = 1
          BY <1>1, <2>4
      <3> HIDE DEF t, b
      <3>2. out[i + 1] = Append(<<>>, b)
          BY <2>3, <3>1 DEF SpaceAfter
      <3> DEFINE u == Append(<<>>, b)
      <3>3. Len(u) = 1 /\ u[1] = b /\ u # <<>>
          OBVIOUS
      <3> HIDE DEF u
      <3>4. NoPair(u) /\ Last(u) = b
          BY <3>3 DEF NoPair, Last
      <3> QED BY <2>1, <3>1, <3>2, <3>3, <3>4 DEF u
    <2>5. CASE i # 0
      <3>1. Good(t, i)
          BY <1>3, <2>5
      <3> HIDE DEF t, b
      <3> DEFINE u == SpaceAfter(t, b)
      <3>2. out[i + 1] = u
          BY <2>3
      <3>3. /\ u # <<>> /\ NoPair(u) /\ u[1] = t[1]
            /\ Last(u) \in Space <=> b \in Space
          BY <2>2, <3>1, SpaceAfterKeeps
      <3> HIDE DEF u
      <3>4. Good(out[i + 1], i + 1)
          BY <3>1, <3>2, <3>3, Zenon DEF b
      <3> QED BY <2>1, <3>4
    <2> QED BY <2>4, <2>5
  <1>4. \A i \in 0..Len(s) : i \in S
    <2>1. Len(s) \in Nat
        OBVIOUS
    <2> HIDE DEF S
    <2> QED BY <1>2, <1>3, <2>1, Steps, Zenon
  <1>5. Len(s) \in 0..Len(s) /\ Len(s) # 0
      OBVIOUS
  <1>6. Good(out[Len(s)], Len(s)) /\ out[Len(s)] \in Seq(Byte)
      BY <1>1, <1>4, <1>5
  <1> QED BY <1>1, <1>6, Zenon DEF Last

(* A text without two spaces is left as it is.                             *)
LEMMA LongSpacesKeeps ==
    ASSUME NEW s \in Seq(Byte), NoPair(s)
    PROVE  LongSpaces(s) = s
  <1>1. PICK out \in [0..Len(s) -> Seq(Byte)] :
            /\ out[0] = <<>>
            /\ \A i \in 1..Len(s) : out[i] = SpaceAfter(out[i - 1], s[i])
            /\ LongSpaces(s) = out[Len(s)]
      BY LongSpacesSteps
  <1> DEFINE S == {i \in 0..Len(s) : out[i] = SubSeq(s, 1, i)}
  <1>2. 0 \in S
      BY <1>1
  <1>3. ASSUME NEW i \in 0..(Len(s) - 1), i \in S PROVE i + 1 \in S
    <2> DEFINE t == SubSeq(s, 1, i)
               b == s[i + 1]
    <2>1. i + 1 \in 1..Len(s) /\ (i + 1) - 1 = i /\ i + 1 \in 0..Len(s) /\ i \in Nat
        OBVIOUS
    <2>2. out[i] = t
        BY <1>3
    <2>3. t \in Seq(Byte) /\ Len(t) = i /\ \A k \in 1..i : t[k] = s[k]
        OBVIOUS
    <2>4. Append(t, b) = SubSeq(s, 1, i + 1)
        BY <2>1
    <2> HIDE DEF t
    <2>5. ~(b \in Space /\ t # <<>> /\ Last(t) \in Space)
      <3> SUFFICES ASSUME b \in Space, t # <<>>, Last(t) \in Space PROVE FALSE
          OBVIOUS
      <3>1. i # 0
          BY <2>3
      <3>2. i \in 1..(Len(s) - 1) /\ s[i] \in Space
          BY <2>1, <2>3, <3>1 DEF Last
      <3> QED BY <3>2 DEF NoPair
    <2>6. out[i + 1] = Append(t, b)
      <3>1. out[i + 1] = SpaceAfter(out[i], b)
          BY <1>1, <2>1
      <3> QED BY <2>2, <2>5, <3>1, Zenon DEF SpaceAfter
    <2> QED BY <2>1, <2>4, <2>6
  <1>4. \A i \in 0..Len(s) : i \in S
    <2>1. Len(s) \in Nat
        OBVIOUS
    <2> HIDE DEF S
    <2> QED BY <1>2, <1>3, <2>1, Steps, Zenon
  <1> QED BY <1>1, <1>4

(* The form of a nick.                                                     *)
LEMMA NormalNick ==
    ASSUME line \in Seq(Byte)
    PROVE  NickNormal
  <1> DEFINE u == Given(line).suffix
             e == TrimEnd(u)
             b == TrimStart(e)
             n == LongSpaces(b)
  <1>1. u \in Seq(Byte)
      BY GivenIs DEF ParserType
  <1> HIDE DEF u
  <1>2. e \in Seq(Byte) /\ (e # <<>> => e[Len(e)] \notin Space)
      BY <1>1, TrimEndIs
  <1> HIDE DEF e
  <1>3. /\ b \in Seq(Byte) /\ (b # <<>> => b[1] \notin Space)
        /\ b # <<>> => b[Len(b)] = e[Len(e)]
        /\ e = <<>> => b = e
      BY <1>2, TrimStartIs
  <1> HIDE DEF b
  <1>4. Nick(Given(line)) = n
      BY DEF Nick, n, b, e, u
  <1>5. b = <<>> => n = <<>>
    <2>1. <<>> \in Seq(Byte) /\ NoPair(<<>>)
        BY DEF NoPair
    <2> QED BY <2>1, LongSpacesKeeps
  <1> HIDE DEF n
  <1> SUFFICES ASSUME n # <<>>
               PROVE  /\ n[1] \notin Space /\ Last(n) \notin Space /\ NoPair(n)
                      /\ Nick(Given(n)) = n /\ Named(Given(n)) = n
      BY <1>4 DEF NickNormal, Allowed, NoPair
  <1>6. b # <<>> /\ e # <<>> /\ b[1] \notin Space /\ Last(b) \notin Space
      BY <1>2, <1>3, <1>5 DEF Last
  <1>7. n \in Seq(Byte) /\ NoPair(n) /\ n[1] \notin Space /\ Last(n) \notin Space
      BY <1>3, <1>6, LongSpacesClean DEF n
  <1>8. Given(n).suffix = TrimStart(n)
      BY <1>7, GivenIs
  <1>9. TrimStart(n) = n
      BY <1>7, TrimStartIs
  <1>10. TrimEnd(n) = n
      BY <1>7, TrimEndIs DEF Last
  <1>11. LongSpaces(n) = n
      BY <1>7, LongSpacesKeeps
  <1>12. Nick(Given(n)) = n /\ Named(Given(n)) = n
      BY <1>8, <1>9, <1>10, <1>11 DEF Nick, Named
  <1> QED BY <1>7, <1>12

-----------------------------------------------------------------------------
(* A color.                                                                *)

(* The form of a color.                                                    *)
LEMMA FormOfColor ==
    ASSUME line \in Seq(Byte)
    PROVE  ColorWellFormed
  <1> DEFINE mark == "#"
             p == Given(line)
             s == p.next
             hash == IF s # <<>> /\ s[1] = mark THEN 1 ELSE 0
             r == SubSeq(s, hash + 1, Len(s))
             hex == Span(r, Hex)
             n == IF hex >= 6 THEN hash + 6 ELSE IF hex >= 3 THEN hash + 3 ELSE 0
             m == SubSeq(s, 1, n)
             q == TakeNext(p, n)
             c == Color(p)
             Form(x) == x[1] = mark /\ ToSet(Tail(x)) \subseteq Hex /\ Len(x) \in {4, 7}
  <1>1. mark \in Byte /\ mark \notin Hex /\ Hex \subseteq Byte
      BY DEF Byte, Hex
  <1> HIDE DEF mark
  <1>2. s \in Seq(Byte)
      BY GivenIs DEF ParserType
  <1> HIDE DEF p
  <1>3. c = IF ~q.found THEN <<>> ELSE IF q.match[1] = mark THEN q.match ELSE <<mark>> \o q.match
      BY DEF Color, TakeColor, mark
  <1>4. ASSUME ~(s # <<>> /\ n # 0) PROVE c = <<>>
    <2>1. ~q.found
        BY <1>4 DEF TakeNext, Parser
    <2> QED BY <1>3, <2>1
  <1>5. ASSUME s # <<>>, n # 0 PROVE q.found /\ q.match = m
    <2> DEFINE rest == SubSeq(s, n + 1, Len(s))
    <2>1. q = [found |-> TRUE, next |-> rest, match |-> m, suffix |-> rest]
        BY <1>5 DEF TakeNext
    <2> HIDE DEF q, rest, m
    <2> QED BY <2>1
  <1> HIDE DEF q, c
  <1>6. ASSUME s # <<>>, n # 0 PROVE Form(c)
    <2>1. hash \in 0..Len(s) /\ hash \in {0, 1} /\ (hash = 1 => s[1] = mark) /\ (hash = 0 => s[1] # mark)
        BY <1>2, <1>6
    <2> HIDE DEF hash
    <2>2. r \in Seq(Byte) /\ Len(r) = Len(s) - hash /\ \A i \in 1..Len(r) : r[i] = s[hash + i]
        BY <1>2, <2>1, Rest
    <2> HIDE DEF r
    <2>3. hex \in 0..Len(r) /\ \A i \in 1..hex : r[i] \in Hex
        BY <2>2, SpanEnds
    <2> HIDE DEF hex
    <2>4. PICK d \in {3, 6} : n = hash + d /\ d <= hex
        BY <1>6, <2>1, <2>3
    <2> HIDE DEF n
    <2>5. n \in 1..Len(s) /\ n \in Nat /\ d \in 1..Len(r)
        BY <2>1, <2>2, <2>3, <2>4
    <2>6. m \in Seq(Byte) /\ Len(m) = n /\ \A i \in 1..n : m[i] = s[i]
        BY <1>2, <2>5
    <2> HIDE DEF m
    <2>7. ASSUME NEW i \in (hash + 1)..n PROVE m[i] \in Hex
      <3>1. i \in 1..n /\ i - hash \in 1..hex /\ i - hash \in 1..Len(r) /\ hash + (i - hash) = i
          BY <2>1, <2>2, <2>3, <2>4, <2>5
      <3> QED BY <2>2, <2>3, <2>6, <3>1
    <2>8. m[1] = s[1] /\ m # <<>>
        BY <2>5, <2>6
    <2>9. CASE hash = 1
      <3>1. c = m
          BY <1>3, <1>5, <1>6, <2>1, <2>8, <2>9
      <3> DEFINE t == Tail(m)
      <3>2. t \in Seq(Byte) /\ Len(t) = Len(m) - 1 /\ \A i \in 1..(Len(m) - 1) : t[i] = m[i + 1]
          BY <2>6, <2>8, TailOf
      <3> HIDE DEF t
      <3>3. ASSUME NEW i \in DOMAIN t PROVE t[i] \in Hex
        <4>1. i \in 1..(Len(m) - 1) /\ i + 1 \in (hash + 1)..n
            BY <2>5, <2>6, <2>9, <3>2
        <4> QED BY <2>7, <3>2, <4>1
      <3>4. ToSet(t) \subseteq Hex
          BY <3>3 DEF ToSet
      <3>5. Len(m) \in {4, 7}
          BY <2>4, <2>6, <2>9
      <3>6. m[1] = mark
          BY <2>1, <2>8, <2>9
      <3> QED BY <3>1, <3>4, <3>5, <3>6 DEF t
    <2>10. CASE hash = 0
      <3>1. c = <<mark>> \o m
          BY <1>3, <1>5, <1>6, <2>1, <2>8, <2>10
      <3>2. c[1] = mark /\ Tail(c) = m /\ Len(c) = Len(m) + 1
          BY <1>1, <2>6, <3>1, Before
      <3>3. ASSUME NEW i \in DOMAIN m PROVE m[i] \in Hex
        <4>1. i \in (hash + 1)..n
            BY <2>5, <2>6, <2>10
        <4> QED BY <2>7, <4>1
      <3>4. ToSet(m) \subseteq Hex
          BY <3>3 DEF ToSet
      <3>5. Len(c) \in {4, 7}
          BY <2>4, <2>6, <2>10, <3>2
      <3> QED BY <3>2, <3>4, <3>5
    <2> QED BY <2>1, <2>9, <2>10
  <1>7. c # <<>> => Form(c)
      BY <1>4, <1>6
  <1> QED BY <1>7 DEF ColorWellFormed, c, p, mark

-----------------------------------------------------------------------------
(* Of the specification.                                                   *)

(* ArgumentsExact of any line.                                             *)
LEMMA ExactArguments ==
    ASSUME CommandLineAssumption, line \in Seq(Byte)
    PROVE  ArgumentsExact
  BY ExactCommand, ExactPrivate, NormalNick, FormOfColor DEF ArgumentsExact

(* A line is a sequence of bytes, and not longer than the bound.           *)
Bytes == line \in Seq(Byte) /\ Len(line) <= MaxLine

LEMMA BytesHolds ==
    ASSUME CommandLineAssumption
    PROVE  Spec => []Bytes
  <1>1. Init => Bytes
      BY DEF Init, Bytes, CommandLineAssumption
  <1>2. Bytes /\ [Next]_line => Bytes'
    <2> SUFFICES ASSUME Bytes, [Next]_line PROVE Bytes'
        OBVIOUS
    <2>1. CASE Send
        BY <2>1 DEF Bytes, Send, CommandLineAssumption
    <2>2. ASSUME NEW b \in Byte, Write(b) PROVE Bytes'
        BY <2>2 DEF Bytes, Write, CommandLineAssumption
    <2>3. CASE UNCHANGED line
        BY <2>3 DEF Bytes
    <2> QED BY <2>1, <2>2, <2>3 DEF Next
  <1> QED BY <1>1, <1>2, PTL DEF Spec

(* Whatever is written, the parser finds a number that has room: TypeOK of *)
(* CommandLine.                                                            *)
THEOREM TypeCorrect ==
    ASSUME CommandLineAssumption
    PROVE  Spec => []TypeOK
  <1>1. Bytes => TypeOK
      BY ExactPrivate DEF Bytes, TypeOK
  <1> QED BY <1>1, BytesHolds, PTL

(* What is said to a room is readable and within the limit, for any bytes  *)
(* that come in: replaceInvalidUtf8 after the cut, and newlines before it. *)
THEOREM TextCleanOfSpec ==
    ASSUME CommandLineAssumption
    PROVE  Spec => []TextClean
  <1>1. Bytes => TextClean
      BY CleanText DEF Bytes
  <1> QED BY <1>1, BytesHolds, PTL

(* What a command takes from the line is what was written there, for every *)
(* command that regex_parser tears it apart for.                           *)
THEOREM ArgumentsExactOfSpec ==
    ASSUME CommandLineAssumption
    PROVE  Spec => []ArgumentsExact
  <1>1. Bytes => ArgumentsExact
      BY ExactArguments DEF Bytes
  <1> QED BY <1>1, BytesHolds, PTL

=============================================================================
