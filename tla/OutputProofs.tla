---------------------------- MODULE OutputProofs ----------------------------
(***************************************************************************)
(* What run_project and run_tests make of the output of a build tool, for  *)
(* every output: any number of lines, any words, any arguments.            *)
(***************************************************************************)
EXTENDS BuildOutput, FunctionProofs

-----------------------------------------------------------------------------
(* Tracebacks *)

NoFrame == [frame |-> None, out |-> <<>>]

\* f is the fold over the first lines of the output, for every set of their places.
IsTracebackFold(f, lines, n) ==
  f = [s \in SUBSET (1..n) |-> IF s = {} THEN NoFrame ELSE Traced(f[s \ {Max(s)}], Trim(lines[Max(s)].text))]

\* The fold of the traceback parser over any number of lines has a value: by induction on
\* the number.
LEMMA TracebackFoldExists ==
  ASSUME NEW lines, NEW n \in Nat
  PROVE  \E f : IsTracebackFold(f, lines, n)
  <1> DEFINE T == {m \in Nat : \E f : IsTracebackFold(f, lines, m)}
             Step(x, i) == Traced(x, Trim(lines[i].text))
  <1>1. 0 \in T
    <2> DEFINE f == [s \in SUBSET (1..0) |-> NoFrame]
    <2>1. \A s \in SUBSET (1..0) : s = {}
      OBVIOUS
    <2>2. f = [s \in SUBSET (1..0) |-> IF s = {} THEN NoFrame ELSE Step(f[s \ {Max(s)}], Max(s))]
      BY <2>1
    <2>3. IsTracebackFold(f, lines, 0)
      <3> HIDE DEF f
      <3> QED
        BY <2>2, Zenon DEF IsTracebackFold
    <2> QED
      BY <2>3
  <1>2. ASSUME NEW m \in T
        PROVE  m + 1 \in T
    <2>1. PICK f : f = [s \in SUBSET (1..m) |-> IF s = {} THEN NoFrame ELSE Step(f[s \ {Max(s)}], Max(s))]
      BY Zenon DEF IsTracebackFold
    <2>2. m \in Nat /\ m + 1 \in Nat
      OBVIOUS
    <2> DEFINE g == [s \in SUBSET (1..m + 1) |-> IF m + 1 \in s THEN Step(f[s \ {m + 1}], m + 1) ELSE f[s]]
    <2> HIDE DEF Step
    <2>3. ASSUME NEW s \in SUBSET (1..m + 1)
          PROVE  g[s] = IF s = {} THEN NoFrame ELSE Step(g[s \ {Max(s)}], Max(s))
      <3>1. CASE m + 1 \in s
        <4>1. Max(s) = m + 1 /\ s \ {m + 1} \in SUBSET (1..m)
          BY <2>2, <3>1, GreatestPlace
        <4>2. g[s \ {m + 1}] = f[s \ {m + 1}]
          BY <4>1
        <4>3. g[s] = Step(f[s \ {m + 1}], m + 1)
          BY <3>1
        <4> HIDE DEF g
        <4> QED
          BY <3>1, <4>1, <4>2, <4>3
      <3>2. CASE m + 1 \notin s
        <4>1. s \in SUBSET (1..m)
          BY <2>2, <3>2, GreatestPlace
        <4>2. g[s] = f[s]
          BY <3>2
        <4>3. f[s] = IF s = {} THEN NoFrame ELSE Step(f[s \ {Max(s)}], Max(s))
          BY <2>1, <4>1
        <4>4. s # {} => g[s \ {Max(s)}] = f[s \ {Max(s)}]
          <5> SUFFICES ASSUME s # {}
                       PROVE  g[s \ {Max(s)}] = f[s \ {Max(s)}]
            OBVIOUS
          <5>1. s \ {Max(s)} \in SUBSET (1..m)
            BY <2>2, <4>1, GreatestPlace
          <5> QED
            BY <2>2, <5>1
        <4> HIDE DEF g
        <4> QED
          BY <4>2, <4>3, <4>4
      <3> QED
        BY <3>1, <3>2
    <2>4. g = [s \in SUBSET (1..m + 1) |-> IF s = {} THEN NoFrame ELSE Step(g[s \ {Max(s)}], Max(s))]
      <3> DEFINE h == [s \in SUBSET (1..m + 1) |-> IF s = {} THEN NoFrame ELSE Step(g[s \ {Max(s)}], Max(s))]
                 D == SUBSET (1..m + 1)
      <3>1. DOMAIN g = D /\ g = [s \in D |-> g[s]]
        OBVIOUS
      <3>2. \A s \in D : h[s] = IF s = {} THEN NoFrame ELSE Step(g[s \ {Max(s)}], Max(s))
        OBVIOUS
      <3>3. DOMAIN h = D /\ h = [s \in D |-> h[s]]
        OBVIOUS
      <3> HIDE DEF g, h, D
      <3>4. \A s \in D : g[s] = h[s]
        BY <2>3, <3>2 DEF D
      <3>5. g = h
        BY <3>1, <3>3, <3>4
      <3> QED
        BY <3>5 DEF h
    <2>5. IsTracebackFold(g, lines, m + 1)
      <3> HIDE DEF g
      <3> QED
        BY <2>4, Zenon DEF IsTracebackFold, Step
    <2> QED
      BY <2>2, <2>5
  <1>3. T = Nat
    <2> HIDE DEF T
    <2>1. T \in SUBSET Nat
      BY DEF T
    <2> QED
      BY <1>1, <1>2, <2>1, SetInduction
  <1> QED
    BY <1>3

\* g holds what the traceback parser keeps from before the first line to after the last.
IsTracebackTrace(g, lines, n) ==
  /\ g[0] = NoFrame
  /\ \A k \in 0..n - 1 : g[k + 1] = Traced(g[k], Trim(lines[k + 1].text))
  /\ Traceback(lines) = g[n].out

\* The traceback parser passes through such states and ends in the last one.
LEMMA TracebackTrace ==
  ASSUME NEW lines, NEW n \in Nat, DOMAIN lines = 1..n
  PROVE  \E g : IsTracebackTrace(g, lines, n)
  <1> DEFINE Step(x, i) == Traced(x, Trim(lines[i].text))
             f == CHOOSE g : IsTracebackFold(g, lines, n)
  <1>1. IsTracebackFold(f, lines, n)
    BY TracebackFoldExists, Zenon
  <1>2. Traceback(lines) =
          (LET iter[s \in SUBSET DOMAIN lines] ==
                 IF s = {} THEN NoFrame ELSE Traced(iter[s \ {Max(s)}], Trim(lines[Max(s)].text))
           IN iter[DOMAIN lines]).out
    BY DEF Traceback, FoldLeft, MapThenFoldSet, NoFrame
  <1>4. Traceback(lines) = f[1..n].out
    BY <1>2 DEF IsTracebackFold
  <1> HIDE DEF f
  <1> DEFINE g == [k \in 0..n |-> f[1..k]]
  <1>5. \A s \in SUBSET (1..n) : f[s] = IF s = {} THEN NoFrame ELSE Step(f[s \ {Max(s)}], Max(s))
    BY <1>1 DEF IsTracebackFold
  <1> HIDE DEF Step
  <1>6. g[0] = NoFrame
    <2>1. 1..0 = {} /\ {} \in SUBSET (1..n) /\ 0 \in 0..n
      OBVIOUS
    <2>2. g[0] = f[1..0]
      BY <2>1
    <2>3. f[{}] = NoFrame
      BY <1>5, <2>1
    <2> HIDE DEF g
    <2> QED
      BY <2>1, <2>2, <2>3
  <1>7. ASSUME NEW k \in 0..n - 1
        PROVE  g[k + 1] = Step(g[k], k + 1)
    <2>1. k \in Nat /\ k + 1 \in 0..n /\ k \in 0..n /\ 1..k + 1 \in SUBSET (1..n) /\ k + 1 \in 1..k + 1
      OBVIOUS
    <2>2. Max(1..k + 1) = k + 1
      <3>1. 1..k + 1 \in SUBSET (1..k + 1)
        OBVIOUS
      <3> QED
        BY <2>1, <3>1, GreatestPlace
    <2>3. (1..k + 1) \ {k + 1} = 1..k
      BY <2>1
    <2>4. 1..k + 1 # {}
      BY <2>1
    <2>5. f[1..k + 1] = Step(f[1..k], k + 1)
      BY <1>5, <2>1, <2>2, <2>3, <2>4
    <2> QED
      BY <2>1, <2>5
  <1>8. g[n] = f[1..n]
    OBVIOUS
  <1> HIDE DEF g
  <1> QED
    BY <1>4, <1>6, <1>7, <1>8, Zenon DEF Step, IsTracebackTrace

\* The frames and the exceptions of n lines, the frames that go with line i, and what is
\* reported for it.
FramesIn(at, n) == {i \in 1..n : FrameOf(at[i]) # None /\ at[i][1] = "File"}
ExceptionsIn(at, n) == {i \in 1..n : ~IsPrefix(<<"File">>, at[i]) /\ is_exception_line(at[i])}
OwnOf(at, n, i) == {f \in FramesIn(at, n) : f < i /\ \A e \in ExceptionsIn(at, n) : e \notin f..i - 1}
PairedIn(at, n) == {i \in ExceptionsIn(at, n) : OwnOf(at, n, i) # {}}
PairedTo(at, n, k) == {j \in PairedIn(at, n) : j <= k}
ReportedFor(at, n, i) ==
  Diagnostic("error", None, at[Max(OwnOf(at, n, i))][2], at[Max(OwnOf(at, n, i))][4], None, at[i])

\* What the parser keeps after k of the lines.
TracedTo(s, at, n, k) ==
  /\ s.frame = IF OwnOf(at, n, k + 1) = {} THEN None ELSE FrameOf(at[Max(OwnOf(at, n, k + 1))])
  /\ s.out \in Seq({ReportedFor(at, n, i) : i \in PairedIn(at, n)})
  /\ ToSet(s.out) = {ReportedFor(at, n, i) : i \in PairedTo(at, n, k)}
  /\ Len(s.out) = Cardinality(PairedTo(at, n, k))
  /\ s = [frame |-> s.frame, out |-> s.out]

\* A frame of a line that begins with File.
LEMMA FrameFacts ==
  ASSUME NEW U, "File" \in U, None \notin [file : U, line : U], NEW s \in Seq(U)
  PROVE  /\ FrameOf(s) # None /\ s[1] = "File" <=> FrameOf(s) # None /\ IsPrefix(<<"File">>, s)
         /\ FrameOf(s) # None => FrameOf(s) = [file |-> s[2], line |-> s[4]]
  <1>1. FrameOf(s) # None => Len(s) >= 4 /\ FrameOf(s) = [file |-> s[2], line |-> s[4]]
    BY DEF FrameOf
  <1>2. IsPrefix(<<"File">>, s) <=> Len(<<"File">>) <= Len(s) /\ \A k \in 1..Len(<<"File">>) : <<"File">>[k] = s[k]
    <2> DEFINE one == <<"File">>
    <2>1. one \in Seq(U)
      OBVIOUS
    <2> HIDE DEF one
    <2>2. IsPrefix(one, s) <=> Len(one) <= Len(s) /\ \A k \in 1..Len(one) : one[k] = s[k]
      BY <2>1, PrefixByPlace
    <2> QED
      BY <2>2, Zenon DEF one
  <1>3. IsPrefix(<<"File">>, s) <=> 1 <= Len(s) /\ "File" = s[1]
    BY <1>2
  <1> QED
    BY <1>1, <1>3

\* The frames that go with the line after line k: line k may be one, and an exception on
\* line k takes those there were.
LEMMA OwnGrows ==
  ASSUME NEW at, NEW n \in Nat, NEW k \in 1..n
  PROVE  /\ k \in ExceptionsIn(at, n) => OwnOf(at, n, k + 1) = {}
         /\ k \notin ExceptionsIn(at, n) /\ k \notin FramesIn(at, n) => OwnOf(at, n, k + 1) = OwnOf(at, n, k)
         /\ k \notin ExceptionsIn(at, n) /\ k \in FramesIn(at, n) =>
              OwnOf(at, n, k + 1) # {} /\ Max(OwnOf(at, n, k + 1)) = k
  <1> DEFINE F == FramesIn(at, n)
             E == ExceptionsIn(at, n)
             Own(i) == {f \in F : f < i /\ \A e \in E : e \notin f..i - 1}
  <1>1. F \subseteq 1..n /\ E \subseteq 1..n
    BY DEF FramesIn, ExceptionsIn
  <1> HIDE DEF F, E
  <1>2. k \in E => Own(k + 1) = {}
    <2> SUFFICES ASSUME k \in E, NEW f \in F, f < k + 1, \A e \in E : e \notin f..(k + 1) - 1
                 PROVE  FALSE
      OBVIOUS
    <2>1. f \in Nat /\ k \in f..(k + 1) - 1
      BY <1>1
    <2> QED
      BY <2>1
  <1>3. k \notin E /\ k \notin F => Own(k + 1) = Own(k)
    <2> SUFFICES ASSUME k \notin E, k \notin F, NEW f \in F
                 PROVE  f \in Own(k + 1) <=> f \in Own(k)
      OBVIOUS
    <2>1. f \in Nat /\ (f < k + 1 <=> f < k)
      BY <1>1
    <2>2. \A e \in E : e \in f..(k + 1) - 1 <=> e \in f..k - 1
      BY <1>1, <2>1
    <2> QED
      BY <2>1, <2>2
  <1>4. k \notin E /\ k \in F => Own(k + 1) # {} /\ Max(Own(k + 1)) = k
    <2> SUFFICES ASSUME k \notin E, k \in F
                 PROVE  Own(k + 1) # {} /\ Max(Own(k + 1)) = k
      OBVIOUS
    <2>1. k \in Own(k + 1)
      BY <1>1
    <2>2. Own(k + 1) \in SUBSET (1..k)
      <3>1. \A f \in Own(k + 1) : f \in 1..n /\ f < k + 1
        BY <1>1
      <3>2. \A f \in 1..n : f < k + 1 => f \in 1..k
        OBVIOUS
      <3> HIDE DEF Own
      <3> QED
        BY <3>1, <3>2
    <2> HIDE DEF Own
    <2>3. k - 1 \in Nat /\ (k - 1) + 1 = k
      OBVIOUS
    <2> QED
      BY <2>1, <2>2, <2>3, GreatestPlace
  <1> QED
    BY <1>2, <1>3, <1>4 DEF OwnOf, F, E

\* The exceptions up to line k that have a frame, one more or none than up to the line before.
LEMMA PairedGrows ==
  ASSUME NEW at, NEW n \in Nat, NEW k \in 1..n
  PROVE  /\ k \notin PairedIn(at, n) => PairedTo(at, n, k) = PairedTo(at, n, k - 1)
         /\ k \in PairedIn(at, n) =>
              /\ PairedTo(at, n, k) = PairedTo(at, n, k - 1) \cup {k}
              /\ Cardinality(PairedTo(at, n, k)) = Cardinality(PairedTo(at, n, k - 1)) + 1
  <1> DEFINE Q == PairedIn(at, n)
             P(m) == {j \in Q : j <= m}
  <1>1. Q \subseteq 1..n
    BY DEF PairedIn, ExceptionsIn
  <1> HIDE DEF Q
  <1>2. IsFiniteSet(P(k - 1))
    <2>1. IsFiniteSet(1..n)
      BY FS_Interval
    <2>2. P(k - 1) \in SUBSET (1..n)
      BY <1>1
    <2> HIDE DEF P
    <2> QED
      BY <2>1, <2>2, FS_Subset
  <1>3. ASSUME NEW j \in Q
        PROVE  j <= k <=> j <= k - 1 \/ j = k
    BY <1>1
  <1>4. k \notin Q => P(k) = P(k - 1)
    BY <1>3
  <1>5. k \in Q => P(k) = P(k - 1) \cup {k} /\ k \notin P(k - 1)
    <2>1. k <= k /\ ~(k <= k - 1)
      OBVIOUS
    <2> QED
      BY <1>3, <2>1
  <1> HIDE DEF P
  <1>6. k \in Q => Cardinality(P(k - 1) \cup {k}) = Cardinality(P(k - 1)) + 1
    BY <1>2, <1>5, FS_AddElement
  <1>7. P(k) = PairedTo(at, n, k) /\ P(k - 1) = PairedTo(at, n, k - 1)
    BY Zenon DEF P, Q, PairedTo
  <1> QED
    BY <1>4, <1>5, <1>6, <1>7 DEF Q

\* One line more.
LEMMA TracedOn ==
  ASSUME NEW U, "File" \in U, None \notin [file : U, line : U],
         NEW n \in Nat, NEW at, \A i \in 1..n : at[i] \in Seq(U), NEW k \in 1..n, NEW s, TracedTo(s, at, n, k - 1)
  PROVE  TracedTo(Traced(s, at[k]), at, n, k)
  <1> DEFINE D(i) == ReportedFor(at, n, i)
             P(m) == PairedTo(at, n, m)
             Own == OwnOf(at, n, k)
             Later == OwnOf(at, n, k + 1)
             t == Traced(s, at[k])
  <1>1. /\ s.frame = IF Own = {} THEN None ELSE FrameOf(at[Max(Own)])
        /\ s.out \in Seq({D(i) : i \in PairedIn(at, n)})
        /\ ToSet(s.out) = {D(i) : i \in P(k - 1)}
        /\ Len(s.out) = Cardinality(P(k - 1))
        /\ s = [frame |-> s.frame, out |-> s.out]
    <2>1. (k - 1) + 1 = k
      OBVIOUS
    <2> QED
      BY <2>1, Zenon DEF TracedTo
  <1>2. /\ FrameOf(at[k]) # None /\ at[k][1] = "File" <=> FrameOf(at[k]) # None /\ IsPrefix(<<"File">>, at[k])
        /\ \A i \in 1..n : FrameOf(at[i]) # None => FrameOf(at[i]) = [file |-> at[i][2], line |-> at[i][4]]
    BY FrameFacts
  <1>3. Own # {} => Max(Own) \in 1..n /\ FrameOf(at[Max(Own)]) # None
    <2>1. Own \in SUBSET (1..n)
      BY DEF OwnOf, FramesIn
    <2>2. Own # {} => Max(Own) \in Own
      BY <2>1, GreatestPlace
    <2> QED
      BY <2>2, Zenon DEF OwnOf, FramesIn
  <1>4. /\ k \in ExceptionsIn(at, n) => Later = {}
        /\ k \notin ExceptionsIn(at, n) /\ k \notin FramesIn(at, n) => Later = Own
        /\ k \notin ExceptionsIn(at, n) /\ k \in FramesIn(at, n) => Later # {} /\ Max(Later) = k
    BY OwnGrows
  <1>5. /\ k \notin PairedIn(at, n) => P(k) = P(k - 1)
        /\ k \in PairedIn(at, n) => P(k) = P(k - 1) \cup {k} /\ Cardinality(P(k)) = Cardinality(P(k - 1)) + 1
    BY PairedGrows
  <1>6. /\ k \in FramesIn(at, n) <=> FrameOf(at[k]) # None /\ IsPrefix(<<"File">>, at[k])
        /\ k \in ExceptionsIn(at, n) <=> ~IsPrefix(<<"File">>, at[k]) /\ is_exception_line(at[k])
        /\ k \in PairedIn(at, n) <=> k \in ExceptionsIn(at, n) /\ Own # {}
    BY <1>2, Zenon DEF FramesIn, ExceptionsIn, PairedIn
  <1> HIDE DEF Own, Later, D, P
  <1>7. \A x : /\ x.frame = (IF Later = {} THEN None ELSE FrameOf(at[Max(Later)]))
               /\ x.out \in Seq({D(i) : i \in PairedIn(at, n)})
               /\ ToSet(x.out) = {D(i) : i \in P(k)}
               /\ Len(x.out) = Cardinality(P(k))
               /\ x = [frame |-> x.frame, out |-> x.out]
             => TracedTo(x, at, n, k)
    BY Zenon DEF TracedTo, Later, D, P
  <1>8. CASE IsPrefix(<<"File">>, at[k])
    <2>1. k \notin ExceptionsIn(at, n) /\ P(k) = P(k - 1)
      BY <1>5, <1>6, <1>8
    <2>2. t = [frame |-> IF FrameOf(at[k]) = None THEN s.frame ELSE FrameOf(at[k]), out |-> s.out]
      BY <1>1, <1>8 DEF Traced
    <2> HIDE DEF t
    <2>3. t.out = s.out /\ t.frame = (IF FrameOf(at[k]) = None THEN s.frame ELSE FrameOf(at[k]))
          /\ t = [frame |-> t.frame, out |-> t.out]
      BY <2>2
    <2>4. t.frame = IF Later = {} THEN None ELSE FrameOf(at[Max(Later)])
      BY <1>1, <1>4, <1>6, <1>8, <2>1, <2>3
    <2> QED
      BY <1>1, <1>7, <2>1, <2>3, <2>4, Zenon DEF t
  <1>9. CASE ~IsPrefix(<<"File">>, at[k]) /\ ~is_exception_line(at[k])
    <2>1. k \notin ExceptionsIn(at, n) /\ P(k) = P(k - 1) /\ Later = Own
      BY <1>4, <1>5, <1>6, <1>9
    <2>2. t = s
      BY <1>9 DEF Traced
    <2> HIDE DEF t
    <2> QED
      BY <1>1, <1>7, <2>1, <2>2, Zenon DEF t
  <1>10. CASE ~IsPrefix(<<"File">>, at[k]) /\ is_exception_line(at[k]) /\ s.frame = None
    <2>1. Own = {} /\ Later = {} /\ P(k) = P(k - 1)
      BY <1>1, <1>3, <1>4, <1>5, <1>6, <1>10
    <2>2. t = s
      BY <1>10 DEF Traced
    <2> HIDE DEF t
    <2> QED
      BY <1>1, <1>7, <2>1, <2>2, Zenon DEF t
  <1>11. CASE ~IsPrefix(<<"File">>, at[k]) /\ is_exception_line(at[k]) /\ s.frame # None
    <2>1. Own # {} /\ Later = {} /\ k \in PairedIn(at, n)
      BY <1>1, <1>4, <1>6, <1>11
    <2>2. t = [frame |-> None, out |-> Append(s.out, Diagnostic("error", None, s.frame.file, s.frame.line, None, at[k]))]
      BY <1>11 DEF Traced
    <2>3. s.frame = [file |-> at[Max(Own)][2], line |-> at[Max(Own)][4]]
      BY <1>1, <1>2, <1>3, <2>1
    <2>4. Diagnostic("error", None, s.frame.file, s.frame.line, None, at[k]) = D(k)
      <3>1. s.frame.file = at[Max(Own)][2] /\ s.frame.line = at[Max(Own)][4]
        BY <2>3
      <3> QED
        BY <3>1, Zenon DEF D, ReportedFor, Own
    <2> HIDE DEF t
    <2>5. t.frame = None /\ t.out = Append(s.out, D(k)) /\ t = [frame |-> t.frame, out |-> t.out]
      BY <2>2, <2>4
    <2>6. /\ t.out \in Seq({D(i) : i \in PairedIn(at, n)}) /\ ToSet(t.out) = ToSet(s.out) \cup {D(k)}
          /\ Len(t.out) = Len(s.out) + 1
      <3> DEFINE S == {D(i) : i \in PairedIn(at, n)}
                 u == s.out
                 d == D(k)
      <3>1. u \in Seq(S) /\ d \in S /\ t.out = Append(u, d)
        BY <1>1, <2>1, <2>5, Zenon
      <3> HIDE DEF S, u, d
      <3>2. Append(u, d) \in Seq(S) /\ Len(Append(u, d)) = Len(u) + 1
        BY <3>1
      <3>3. ToSet(Append(u, d)) = ToSet(u) \cup {d}
        <4>1. /\ \A x : x \in ToSet(u) <=> \E i \in 1..Len(u) : x = u[i]
              /\ \A x : x \in ToSet(Append(u, d)) <=> \E i \in 1..Len(Append(u, d)) : x = Append(u, d)[i]
          <5> DEFINE w == Append(u, d)
          <5>1. u \in Seq(S) /\ w \in Seq(S)
            BY <3>1, <3>2
          <5> HIDE DEF w
          <5>2. /\ \A x : x \in ToSet(u) <=> \E i \in 1..Len(u) : x = u[i]
                /\ \A x : x \in ToSet(w) <=> \E i \in 1..Len(w) : x = w[i]
            BY <5>1, RangeByPlace
          <5> QED
            BY <5>2, Zenon DEF w
        <4>2. Len(u) \in Nat /\ \A i \in 1..Len(u) + 1 : Append(u, d)[i] = IF i = Len(u) + 1 THEN d ELSE u[i]
          BY <3>1
        <4>3. \A i : i \in 1..Len(u) + 1 <=> i \in 1..Len(u) \/ i = Len(u) + 1
          BY <4>2
        <4>4. ~(Len(u) + 1 \in 1..Len(u))
          BY <4>2
        <4> HIDE DEF ToSet
        <4>5. ASSUME NEW x
              PROVE  x \in ToSet(Append(u, d)) <=> x \in ToSet(u) \/ x = d
          BY <3>2, <4>1, <4>2, <4>3, <4>4
        <4> QED
          BY <4>5
      <3> QED
        BY <3>1, <3>2, <3>3 DEF S, u, d
    <2>7. ToSet(t.out) = {D(i) : i \in P(k)} /\ Len(t.out) = Cardinality(P(k))
      BY <1>1, <1>5, <2>1, <2>6
    <2> QED
      BY <1>7, <2>1, <2>5, <2>6, <2>7, Zenon DEF t
  <1> QED
    BY <1>8, <1>9, <1>10, <1>11

\* The texts of the lines are at, and what the traceback parser reports of them.
TextsOf(lines, at, n, U) ==
  \A i \in 1..n : at[i] = Trim(lines[i].text) /\ at[i] \in Seq(U)
TracebackOf(lines, at, n) ==
  LET found == {ReportedFor(at, n, i) : i \in PairedIn(at, n)} IN
  /\ Traceback(lines) \in Seq(found)
  /\ ToSet(Traceback(lines)) = found
  /\ Len(Traceback(lines)) = Cardinality(PairedIn(at, n))

\* What the traceback parser reports of n lines: by induction on the number.
LEMMA TracebackFacts ==
  ASSUME NEW U, "File" \in U, None \notin [file : U, line : U], NEW n \in Nat, NEW lines, DOMAIN lines = 1..n,
         NEW at, TextsOf(lines, at, n, U)
  PROVE  TracebackOf(lines, at, n)
  <1>0. \A i \in 1..n : at[i] = Trim(lines[i].text) /\ at[i] \in Seq(U)
    BY Zenon DEF TextsOf
  <1> USE <1>0
  <1>1. PICK g : IsTracebackTrace(g, lines, n)
    BY TracebackTrace
  <1> DEFINE T == {k \in Nat : k <= n => TracedTo(g[k], at, n, k)}
  <1>2. 0 \in T
    <2>1. OwnOf(at, n, 1) = {} /\ PairedTo(at, n, 0) = {}
      BY DEF OwnOf, FramesIn, PairedIn, PairedTo, ExceptionsIn
    <2>2. g[0] = [frame |-> None, out |-> <<>>]
      BY <1>1 DEF IsTracebackTrace, NoFrame
    <2>3. Cardinality({}) = 0 /\ 0 + 1 = 1
      BY FS_EmptySet
    <2> DEFINE S == {ReportedFor(at, n, i) : i \in PairedIn(at, n)}
               E == {ReportedFor(at, n, i) : i \in PairedTo(at, n, 0)}
    <2>4. E = {}
      BY <2>1
    <2>5. g[0].frame = None /\ g[0].out = <<>> /\ g[0] = [frame |-> g[0].frame, out |-> g[0].out]
      BY <2>2
    <2>6. Len(g[0].out) = 0 /\ ToSet(g[0].out) = {} /\ g[0].out \in Seq(S)
      BY <2>5, OneOrNone, Zenon
    <2>7. TracedTo(g[0], at, n, 0)
      BY <2>1, <2>3, <2>4, <2>5, <2>6, Zenon DEF TracedTo
    <2> QED
      BY <2>7
  <1>3. ASSUME NEW k \in T
        PROVE  k + 1 \in T
    <2>1. k \in Nat /\ k + 1 \in Nat
      OBVIOUS
    <2> SUFFICES ASSUME k + 1 <= n
                 PROVE  TracedTo(g[k + 1], at, n, k + 1)
      BY <2>1
    <2>2. k \in 0..n - 1 /\ k + 1 \in 1..n /\ (k + 1) - 1 = k /\ TracedTo(g[k], at, n, k)
      BY <2>1
    <2>3. g[k + 1] = Traced(g[k], at[k + 1])
      BY <1>1, <2>2 DEF IsTracebackTrace
    <2>4. TracedTo(Traced(g[k], at[k + 1]), at, n, k + 1)
      <3>1. TracedTo(g[k], at, n, (k + 1) - 1)
        BY <2>2
      <3> QED
        BY <2>2, <3>1, TracedOn
    <2> QED
      BY <2>3, <2>4
  <1>4. TracedTo(g[n], at, n, n)
    <2>1. T \in SUBSET Nat
      OBVIOUS
    <2> HIDE DEF T
    <2>2. T = Nat
      BY <1>2, <1>3, <2>1, SetInduction
    <2> QED
      BY <2>2 DEF T
  <1>5. PairedTo(at, n, n) = PairedIn(at, n)
    BY DEF PairedTo, PairedIn, ExceptionsIn
  <1>6. Traceback(lines) = g[n].out
    BY <1>1 DEF IsTracebackTrace
  <1> QED
    BY <1>4, <1>5, <1>6, Zenon DEF TracedTo, TracebackOf

-----------------------------------------------------------------------------
(* The words of a line *)

\* What is left of a sequence without its first elements.
LEMMA DropFacts ==
  ASSUME NEW U, NEW s \in Seq(U), NEW n \in 0..Len(s)
  PROVE  /\ Drop(s, n) \in Seq(U) /\ Len(Drop(s, n)) = Len(s) - n
         /\ \A i \in 1..Len(s) - n : Drop(s, n)[i] = s[n + i]
  <1>1. Len(s) \in Nat /\ \A i \in 1..Len(s) : s[i] \in U
    OBVIOUS
  <1>2. \A i \in n + 1..Len(s) : s[i] \in U
    BY <1>1
  <1>3. /\ SubSeq(s, n + 1, Len(s)) \in Seq(U)
        /\ Len(SubSeq(s, n + 1, Len(s))) = IF n + 1 <= Len(s) THEN Len(s) - (n + 1) + 1 ELSE 0
        /\ \A i \in 1..Len(s) - (n + 1) + 1 : SubSeq(s, n + 1, Len(s))[i] = s[n + 1 + i - 1]
    <2>1. n + 1 \in Int /\ Len(s) \in Int
      BY <1>1
    <2> QED
      BY <1>2, <2>1, SubSeqProperties
  <1> DEFINE d == SubSeq(s, n + 1, Len(s))
  <1> HIDE DEF d
  <1>4. d \in Seq(U) /\ Len(d) = Len(s) - n
    BY <1>1, <1>3 DEF d
  <1>5. ASSUME NEW i \in 1..Len(s) - n
        PROVE  d[i] = s[n + i]
    <2>1. i \in 1..Len(s) - (n + 1) + 1 /\ n + 1 + i - 1 = n + i
      BY <1>1
    <2> QED
      BY <1>3, <2>1 DEF d
  <1> QED
    BY <1>4, <1>5 DEF d, Drop

\* Two steps are one, no step changes nothing, and Tail is one.
LEMMA DropDrop ==
  ASSUME NEW U, NEW s \in Seq(U)
  PROVE  /\ \A n \in 0..Len(s) : \A m \in 0..Len(s) - n : Drop(Drop(s, n), m) = Drop(s, n + m)
         /\ Drop(s, 0) = s
         /\ s # <<>> => Tail(s) = Drop(s, 1)
  <1>0. Len(s) \in Nat
    OBVIOUS
  <1>1. ASSUME NEW n \in 0..Len(s), NEW m \in 0..Len(s) - n
        PROVE  Drop(Drop(s, n), m) = Drop(s, n + m)
    <2> DEFINE d == Drop(s, n)
               e == Drop(d, m)
               b == Drop(s, n + m)
    <2>1. d \in Seq(U) /\ Len(d) = Len(s) - n /\ \A i \in 1..Len(s) - n : d[i] = s[n + i]
      BY DropFacts
    <2> HIDE DEF d
    <2>2. m \in 0..Len(d) /\ n + m \in 0..Len(s)
      BY <1>0, <2>1
    <2>3. e \in Seq(U) /\ Len(e) = Len(d) - m /\ \A i \in 1..Len(d) - m : e[i] = d[m + i]
      BY <2>1, <2>2, DropFacts
    <2>4. b \in Seq(U) /\ Len(b) = Len(s) - (n + m) /\ \A i \in 1..Len(s) - (n + m) : b[i] = s[n + m + i]
      BY <2>2, DropFacts
    <2> HIDE DEF e, b
    <2>5. Len(e) = Len(b)
      BY <1>0, <2>1, <2>3, <2>4
    <2>6. ASSUME NEW i \in 1..Len(e)
          PROVE  e[i] = b[i]
      <3>1. i \in 1..Len(d) - m /\ i \in 1..Len(s) - (n + m) /\ m + i \in 1..Len(s) - n /\ n + (m + i) = n + m + i
        BY <1>0, <2>1, <2>3
      <3> QED
        BY <2>1, <2>3, <2>4, <3>1
    <2>7. e = b
      BY <2>3, <2>4, <2>5, <2>6, SeqEqual
    <2> QED
      BY <2>7 DEF e, b, d
  <1>2. Drop(s, 0) = s
    BY SubSeqFull DEF Drop
  <1>3. s # <<>> => Tail(s) = Drop(s, 1)
    BY TailIsSubSeq DEF Drop
  <1> QED
    BY <1>1, <1>2, <1>3

\* Where the first of the places of a sequence is that pass.
LEMMA FirstPlace ==
  ASSUME NEW n \in Nat, NEW I \in SUBSET (1..n), NEW k \in I, \A i \in I : k <= i
  PROVE  Min(I) = k
  <1>1. Min(I) \in I /\ \A y \in I : Min(I) <= y
    BY LeastOne
  <1> DEFINE m == Min(I)
  <1>2. m \in I /\ \A y \in I : m <= y
    BY <1>1, Zenon DEF m
  <1>4. \A x \in I : x \in Nat
    OBVIOUS
  <1> HIDE DEF m
  <1>3. m = k
    <2>1. m <= k /\ k <= m /\ m \in Nat /\ k \in Nat
      BY <1>2, <1>4
    <2> QED
      BY <2>1
  <1> QED
    BY <1>3 DEF m

\* The places that do not hold the word, the first of them, and none.
LEMMA TrimStartFacts ==
  ASSUME NEW U, NEW s \in Seq(U)
  PROVE  /\ TrimStart(s) \in Seq(U)
         /\ \A k \in 0..Len(s) - 1 : s[k + 1] # "sp" /\ (\A i \in 1..k : s[i] = "sp") => TrimStart(s) = Drop(s, k)
  <1> DEFINE I == {i \in 1..Len(s) : s[i] # "sp"}
             sel == IF I # {} THEN Min(I) ELSE 0
  <1>1. TrimStart(s) = IF sel = 0 THEN <<>> ELSE Drop(s, sel - 1)
    BY DEF TrimStart, SelectInSeq
  <1>2. Len(s) \in Nat /\ I \in SUBSET (1..Len(s)) /\ \A x \in I : x \in 1..Len(s)
    OBVIOUS
  <1> HIDE DEF I
  <1>3. I # {} => Min(I) \in I /\ Min(I) \in 1..Len(s)
    <2>1. I \in SUBSET Nat
      BY <1>2
    <2>2. I # {} => Min(I) \in I
      BY <2>1, LeastOne
    <2> QED
      BY <1>2, <2>2
  <1>4. TrimStart(s) \in Seq(U)
    <2>1. CASE I = {}
      BY <1>1, <2>1
    <2>2. CASE I # {}
      <3>0. \A x \in 1..Len(s) : x - 1 \in 0..Len(s) /\ x # 0
        BY <1>2
      <3>1. Min(I) - 1 \in 0..Len(s) /\ sel = Min(I) /\ Min(I) # 0
        BY <1>3, <2>2, <3>0
      <3> HIDE DEF sel
      <3>2. Drop(s, sel - 1) \in Seq(U)
        BY <3>1, DropFacts
      <3> QED
        BY <1>1, <3>1, <3>2
    <2> QED
      BY <2>1, <2>2
  <1>5. ASSUME NEW k \in 0..Len(s) - 1, s[k + 1] # "sp", \A i \in 1..k : s[i] = "sp"
        PROVE  TrimStart(s) = Drop(s, k)
    <2>1. k + 1 \in I /\ k \in Nat
      BY <1>2, <1>5 DEF I
    <2>2. \A i \in I : k + 1 <= i
      <3> SUFFICES ASSUME NEW i \in I, i < k + 1
                   PROVE  FALSE
        BY <1>2, <2>1
      <3>1. i \in 1..k
        BY <1>2, <2>1
      <3> QED
        BY <1>5, <3>1 DEF I
    <2>3. Min(I) = k + 1
      BY <1>2, <2>1, <2>2, FirstPlace
    <2>4. sel = k + 1 /\ (k + 1) - 1 = k /\ k + 1 # 0
      BY <2>1, <2>3
    <2> HIDE DEF sel
    <2> QED
      BY <1>1, <2>4
  <1> QED
    BY <1>4, <1>5

\* A line begins and ends with a word.
Bounded(s) == s # <<>> /\ s[1] # "sp" /\ s[Len(s)] # "sp"

\* What Trim leaves: what it is given without the spaces at the start, if it ends with a word.
LEMMA TrimFacts ==
  ASSUME NEW U, NEW s \in Seq(U)
  PROVE  /\ Trim(s) \in Seq(U)
         /\ \A k \in 0..Len(s) - 1 : s[k + 1] # "sp" /\ (\A i \in 1..k : s[i] = "sp") /\ s[Len(s)] # "sp" =>
              Trim(s) = Drop(s, k)
         /\ Bounded(s) => Trim(s) = s
  <1> DEFINE t == TrimStart(s)
             I == {i \in 1..Len(t) : t[i] # "sp"}
             sel == IF I # {} THEN Max(I) ELSE 0
  <1>0. Len(s) \in Nat
    OBVIOUS
  <1>1. t \in Seq(U)
    BY TrimStartFacts
  <1>2. Trim(s) = SubSeq(t, 1, sel)
    BY DEF Trim, SelectLastInSeq
  <1> HIDE DEF t
  <1>3. Len(t) \in Nat /\ I \in SUBSET (0..Len(t))
    BY <1>1
  <1> HIDE DEF I
  <1>4. I # {} => Max(I) \in I /\ \A y \in I : Max(I) >= y
    BY <1>3, GreatestOne
  <1>8. \A x \in I : x \in 0..Len(t)
    BY <1>3
  <1>5. Trim(s) \in Seq(U)
    <2>1. sel \in 0..Len(t)
      <3>1. 0 \in 0..Len(t)
        BY <1>3
      <3> QED
        BY <1>4, <1>8, <3>1
    <2> HIDE DEF sel
    <2>2. SubSeq(t, 1, sel) \in Seq(U)
      BY <1>1, <2>1
    <2> QED
      BY <1>2, <2>2
  <1>6. ASSUME NEW k \in 0..Len(s) - 1, s[k + 1] # "sp", \A i \in 1..k : s[i] = "sp", s[Len(s)] # "sp"
        PROVE  Trim(s) = Drop(s, k)
    <2>1. t = Drop(s, k)
      BY <1>6, TrimStartFacts DEF t
    <2>2. Len(t) = Len(s) - k /\ \A i \in 1..Len(s) - k : t[i] = s[k + i]
      <3>1. k \in 0..Len(s)
        BY <1>0
      <3> QED
        BY <2>1, <3>1, DropFacts
    <2>3. Len(t) \in 1..Len(t) /\ t[Len(t)] = s[Len(s)]
      <3>1. Len(t) \in 1..Len(s) - k /\ k + Len(t) = Len(s)
        BY <1>0, <2>2
      <3> QED
        BY <2>2, <3>1
    <2>4. Len(t) \in I
      BY <1>6, <2>3 DEF I
    <2>5. sel = Len(t)
      <3> DEFINE m == Max(I)
      <3> HIDE DEF m
      <3>1. m \in 0..Len(t) /\ m >= Len(t)
        BY <1>3, <1>4, <2>4 DEF m
      <3>2. m = Len(t)
        BY <1>3, <3>1
      <3> QED
        BY <2>4, <3>2 DEF m
    <2> HIDE DEF sel
    <2>6. SubSeq(t, 1, Len(t)) = t
      BY <1>1, SubSeqFull
    <2> QED
      BY <1>2, <2>1, <2>5, <2>6
  <1>7. Bounded(s) => Trim(s) = s
    <2> SUFFICES ASSUME Bounded(s)
                 PROVE  Trim(s) = s
      OBVIOUS
    <2>1. 0 \in 0..Len(s) - 1 /\ s[0 + 1] # "sp" /\ (\A i \in 1..0 : s[i] = "sp") /\ s[Len(s)] # "sp"
      BY <1>0, EmptySeq DEF Bounded
    <2>2. Trim(s) = Drop(s, 0)
      BY <1>6, <2>1
    <2> QED
      BY <2>2, DropDrop
  <1> QED
    BY <1>5, <1>6, <1>7

\* Where a mark comes first.
LEMMA SplitAt ==
  ASSUME NEW U, NEW s \in Seq(U), NEW k \in 1..Len(s), NEW mark, s[k] = mark, \A i \in 1..k - 1 : s[i] # mark
  PROVE  SplitOnce(s, mark) = [before |-> SubSeq(s, 1, k - 1), after |-> Drop(s, k)]
  <1> DEFINE I == {i \in 1..Len(s) : s[i] = mark}
             sel == IF I # {} THEN Min(I) ELSE 0
  <1>1. SplitOnce(s, mark) = IF sel = 0 THEN None ELSE [before |-> SubSeq(s, 1, sel - 1), after |-> Drop(s, sel)]
    <2>1. SelectInSeq(s, LAMBDA w : w = mark) = sel
      BY DEF SelectInSeq
    <2> HIDE DEF sel
    <2> QED
      BY <2>1 DEF SplitOnce
  <1>2. Len(s) \in Nat /\ I \in SUBSET (1..Len(s)) /\ k \in I
    OBVIOUS
  <1> HIDE DEF I
  <1>3. \A i \in I : k <= i
    <2> SUFFICES ASSUME NEW i \in I, i < k
                 PROVE  FALSE
      BY <1>2
    <2>1. i \in 1..k - 1
      BY <1>2
    <2> QED
      BY <2>1 DEF I
  <1>4. Min(I) = k
    BY <1>2, <1>3, FirstPlace
  <1>5. sel = k /\ k # 0
    BY <1>2, <1>4
  <1> HIDE DEF sel
  <1> QED
    BY <1>1, <1>5

\* The first words of a sequence.
LEMMA FirstWords ==
  ASSUME NEW U, NEW s \in Seq(U)
  PROVE  /\ SubSeq(s, 1, 0) = <<>>
         /\ Len(s) >= 1 => SubSeq(s, 1, 1) = <<s[1]>>
         /\ Len(s) >= 3 => SubSeq(s, 1, 3) = <<s[1], s[2], s[3]>>
  <1>1. SubSeq(s, 1, 0) = <<>>
    BY SubSeqEmpty
  <1>0. \A n \in 1..Len(s) : /\ SubSeq(s, 1, n) \in Seq(U) /\ Len(SubSeq(s, 1, n)) = n
                             /\ \A i \in 1..n : SubSeq(s, 1, n)[i] = s[i]
    OBVIOUS
  <1>2. Len(s) >= 1 => SubSeq(s, 1, 1) = <<s[1]>>
    <2> SUFFICES ASSUME Len(s) >= 1
                 PROVE  SubSeq(s, 1, 1) = <<s[1]>>
      OBVIOUS
    <2> DEFINE q == SubSeq(s, 1, 1)
               t == <<s[1]>>
    <2>1. 1 \in 1..Len(s) /\ 1 \in 1..1
      OBVIOUS
    <2>2. q \in Seq(U) /\ Len(q) = 1 /\ q[1] = s[1]
      BY <1>0, <2>1
    <2>3. t \in Seq(U) /\ Len(t) = 1 /\ t[1] = s[1]
      BY <2>1
    <2> HIDE DEF q, t
    <2>4. Len(q) = Len(t) /\ \A i \in 1..Len(q) : q[i] = t[i]
      BY <2>2, <2>3
    <2> QED
      BY <2>2, <2>3, <2>4, SeqEqual DEF q, t
  <1>3. Len(s) >= 3 => SubSeq(s, 1, 3) = <<s[1], s[2], s[3]>>
    <2> SUFFICES ASSUME Len(s) >= 3
                 PROVE  SubSeq(s, 1, 3) = <<s[1], s[2], s[3]>>
      OBVIOUS
    <2> DEFINE q == SubSeq(s, 1, 3)
               t == <<s[1], s[2], s[3]>>
    <2>1. 3 \in 1..Len(s) /\ 1 \in 1..3 /\ 2 \in 1..3 /\ 3 \in 1..3 /\ 1 \in 1..Len(s) /\ 2 \in 1..Len(s)
      OBVIOUS
    <2>2. q \in Seq(U) /\ Len(q) = 3 /\ q[1] = s[1] /\ q[2] = s[2] /\ q[3] = s[3]
      BY <1>0, <2>1
    <2>3. t \in Seq(U) /\ Len(t) = 3 /\ t[1] = s[1] /\ t[2] = s[2] /\ t[3] = s[3]
      BY <2>1
    <2> HIDE DEF q, t
    <2>4. \A i \in 1..3 : i = 1 \/ i = 2 \/ i = 3
      OBVIOUS
    <2>5. Len(q) = Len(t) /\ \A i \in 1..Len(q) : q[i] = t[i]
      BY <2>2, <2>3, <2>4
    <2> QED
      BY <2>2, <2>3, <2>5, SeqEqual DEF q, t
  <1> QED
    BY <1>1, <1>2, <1>3

\* A line of one word.
LEMMA OneWord ==
  /\ \A x : x # "sp" => Trim(<<x>>) = <<x>>
  /\ \A x \in Numbers : Number(<<x>>) = x
  <1>1. ASSUME NEW x, x # "sp"
        PROVE  Trim(<<x>>) = <<x>>
    <2> DEFINE s == <<x>>
    <2>1. s \in Seq({x}) /\ Bounded(s)
      BY <1>1 DEF Bounded
    <2> HIDE DEF s
    <2>2. Trim(s) = s
      BY <2>1, TrimFacts
    <2> QED
      BY <2>2 DEF s
  <1>2. ASSUME NEW x \in Numbers
        PROVE  Number(<<x>>) = x
    <2>1. Trim(<<x>>) = <<x>>
      BY <1>1 DEF Numbers
    <2>2. Number(<<x>>) = IF Len(<<x>>) = 1 /\ <<x>>[1] \in Numbers THEN <<x>>[1] ELSE None
      BY <2>1, Zenon DEF Number
    <2> QED
      BY <2>2
  <1> QED
    BY <1>1, <1>2

\* A line that begins with h and ends with the message m.
Headed(line, h, m, U) ==
  /\ line \in Seq(U) /\ Len(line) = Len(h) + Len(m) /\ Len(h) \in Nat /\ Len(m) \in Nat \ {0}
  /\ \A i \in 1..Len(h) : line[i] = h[i]
  /\ line[Len(h) + 1] # "sp" /\ line[Len(line)] # "sp"
  /\ Drop(line, Len(h)) = m
  /\ m \in Seq(U) /\ Bounded(m)

\* Such a line, from its head and its message.
LEMMA HeadedLine ==
  ASSUME NEW U, NEW h \in Seq(U), NEW m \in Seq(U), Bounded(m)
  PROVE  Headed(h \o m, h, m, U)
  <1> DEFINE line == h \o m
             n == Len(h)
  <1>1. Len(h) \in Nat /\ Len(m) \in Nat \ {0}
    BY EmptySeq DEF Bounded
  <1>2. line \in Seq(U) /\ Len(line) = Len(h) + Len(m)
        /\ \A i \in 1..Len(h) + Len(m) : line[i] = IF i <= Len(h) THEN h[i] ELSE m[i - Len(h)]
    BY ConcatProperties
  <1> HIDE DEF line
  <1>3. \A i \in 1..Len(h) : line[i] = h[i]
    BY <1>1, <1>2
  <1>4. \A i \in 1..Len(m) : line[n + i] = m[i]
    <2> SUFFICES ASSUME NEW i \in 1..Len(m)
                 PROVE  line[n + i] = m[i]
      OBVIOUS
    <2>1. n + i \in 1..Len(h) + Len(m) /\ ~(n + i <= Len(h)) /\ (n + i) - Len(h) = i
      BY <1>1
    <2> QED
      BY <1>2, <2>1
  <1>5. line[n + 1] # "sp" /\ line[Len(line)] # "sp"
    <2>1. 1 \in 1..Len(m) /\ Len(m) \in 1..Len(m) /\ Len(line) = n + Len(m)
      BY <1>1, <1>2
    <2> QED
      BY <1>4, <2>1 DEF Bounded
  <1>6. Drop(line, n) = m
    <2> DEFINE d == Drop(line, n)
    <2>1. n \in 0..Len(line) /\ Len(line) - n = Len(m)
      BY <1>1, <1>2
    <2>2. d \in Seq(U) /\ Len(d) = Len(line) - n /\ \A i \in 1..Len(line) - n : d[i] = line[n + i]
      BY <1>2, <2>1, DropFacts
    <2> HIDE DEF d, n
    <2>3. Len(d) = Len(m) /\ \A i \in 1..Len(d) : d[i] = m[i]
      BY <1>4, <2>1, <2>2
    <2>4. d = m
      BY <2>2, <2>3, SeqEqual
    <2> QED
      BY <2>4 DEF d
  <1> QED
    BY <1>1, <1>2, <1>3, <1>5, <1>6 DEF Headed, line

\* The message is read back, with the space before it or without, and so is the line.
LEMMA HeadedFacts ==
  ASSUME NEW U, NEW line, NEW h, NEW m, Headed(line, h, m, U), h # <<>>, h \in Seq(U)
  PROVE  /\ Trim(m) = m
         /\ h[Len(h)] = "sp" => /\ Trim(Drop(line, Len(h) - 1)) = m
                                /\ TrimStart(Drop(line, Len(h) - 1)) = m
         /\ h[1] # "sp" => Trim(line) = line
         /\ Len(h) >= 2 /\ h[1] = "sp" /\ h[2] # "sp" => Trim(line) = Drop(line, 1)
  <1>1. /\ line \in Seq(U) /\ Len(line) = Len(h) + Len(m) /\ Len(h) \in Nat /\ Len(m) \in Nat \ {0}
        /\ \A i \in 1..Len(h) : line[i] = h[i]
        /\ line[Len(h) + 1] # "sp" /\ line[Len(line)] # "sp"
        /\ Drop(line, Len(h)) = m
        /\ m \in Seq(U) /\ Bounded(m)
    BY Zenon DEF Headed
  <1>2. Len(h) >= 1
    BY EmptySeq
  <1>3. Trim(m) = m
    BY <1>1, TrimFacts
  <1>4. ASSUME h[Len(h)] = "sp"
        PROVE  Trim(Drop(line, Len(h) - 1)) = m /\ TrimStart(Drop(line, Len(h) - 1)) = m
    <2> DEFINE n == Len(h) - 1
               d == Drop(line, n)
    <2>1. n \in 0..Len(line) /\ 1 \in 0..Len(line) - n /\ Len(line) - n = Len(m) + 1 /\ n + 1 = Len(h) /\ Len(h) \in 1..Len(h)
      BY <1>1, <1>2
    <2>2. d \in Seq(U) /\ Len(d) = Len(line) - n /\ \A i \in 1..Len(line) - n : d[i] = line[n + i]
      BY <1>1, <2>1, DropFacts
    <2>3. Drop(d, 1) = Drop(line, Len(h))
      <3> HIDE DEF n
      <3>1. Drop(Drop(line, n), 1) = Drop(line, n + 1)
        BY <1>1, <2>1, DropDrop
      <3> QED
        BY <2>1, <3>1, Zenon
    <2>4. 1 \in 1..Len(line) - n /\ 2 \in 1..Len(line) - n /\ Len(d) \in 1..Len(line) - n /\ n + 2 = Len(h) + 1 /\ n + Len(d) = Len(line)
      BY <1>1, <2>1, <2>2
    <2>5. d[1] = "sp" /\ d[2] # "sp" /\ d[Len(d)] # "sp"
      BY <1>1, <1>4, <2>1, <2>2, <2>4
    <2> HIDE DEF d
    <2>6. 1 \in 0..Len(d) - 1 /\ d[1 + 1] # "sp" /\ \A i \in 1..1 : d[i] = "sp"
      BY <1>1, <2>1, <2>2, <2>5
    <2>7. Trim(d) = Drop(d, 1) /\ TrimStart(d) = Drop(d, 1)
      BY <2>2, <2>5, <2>6, TrimFacts, TrimStartFacts
    <2> QED
      BY <1>1, <2>3, <2>7 DEF d
  <1>5. h[1] # "sp" => Trim(line) = line
    <2>1. 1 \in 1..Len(h) /\ line # <<>>
      BY <1>1, <1>2
    <2>2. h[1] # "sp" => Bounded(line)
      BY <1>1, <2>1 DEF Bounded
    <2> QED
      BY <1>1, <2>2, TrimFacts
  <1>6. Len(h) >= 2 /\ h[1] = "sp" /\ h[2] # "sp" => Trim(line) = Drop(line, 1)
    <2> SUFFICES ASSUME Len(h) >= 2, h[1] = "sp", h[2] # "sp"
                 PROVE  Trim(line) = Drop(line, 1)
      OBVIOUS
    <2>1. 1 \in 0..Len(line) - 1 /\ line[1 + 1] # "sp" /\ \A i \in 1..1 : line[i] = "sp"
      BY <1>1
    <2> QED
      BY <1>1, <2>1, TrimFacts
  <1> QED
    BY <1>3, <1>4, <1>5, <1>6

-----------------------------------------------------------------------------
(* Reading a printed line back *)

\* The words that the formats are made of, and no value apart from what they are taken to.
Comma == ","
Blank == ""
Marks == {"sp", ":", "(", ")", Comma, "[", "]", "[ERROR]", "[WARNING]", "error", "warning", "note", "TS1", "1", "2", "in",
          "File", ".rs", ".java", ".ts", ".py", ".go", ".c", ".h"}
Spans(U)    == [is_primary : BOOLEAN, line : U, column : U]
CargoMessages(U) == [level : U, code : U \cup {Blank}, message : Seq(U), spans : Seq(Spans(U))]
CargoRecords(U) == [reason : U \cup {"compiler-message"}, message : CargoMessages(U)]
NoneApart(U) == None \notin U \cup Seq(U) \cup [file : U, line : U] \cup [number : U, rest : Seq(U)]
                            \cup [before : Seq(U), after : Seq(U)] \cup Spans(U) \cup CargoMessages(U) \cup CargoRecords(U)

\* One sequence begins with a word.
LEMMA PrefixWord ==
  ASSUME NEW U, NEW x \in U, NEW s \in Seq(U)
  PROVE  IsPrefix(<<x>>, s) <=> Len(s) >= 1 /\ s[1] = x
  <1> DEFINE one == <<x>>
  <1>1. one \in Seq(U) /\ Len(one) = 1 /\ one[1] = x
    OBVIOUS
  <1> HIDE DEF one
  <1>2. IsPrefix(one, s) <=> Len(one) <= Len(s) /\ \A k \in 1..Len(one) : one[k] = s[k]
    BY <1>1, PrefixByPlace
  <1>3. IsPrefix(one, s) <=> Len(s) >= 1 /\ s[1] = x
    BY <1>1, <1>2
  <1> QED
    BY <1>3 DEF one

\* One sequence begins with two words.
LEMMA PrefixWords ==
  ASSUME NEW U, NEW x \in U, NEW y \in U, NEW s \in Seq(U)
  PROVE  IsPrefix(<<x, y>>, s) <=> Len(s) >= 2 /\ s[1] = x /\ s[2] = y
  <1> DEFINE two == <<x, y>>
  <1>0. two \in Seq(U)
    OBVIOUS
  <1>1. Len(two) = 2 /\ two[1] = x /\ two[2] = y
    OBVIOUS
  <1> HIDE DEF two
  <1>2. IsPrefix(two, s) <=> Len(two) <= Len(s) /\ \A k \in 1..Len(two) : two[k] = s[k]
    BY <1>0, PrefixByPlace
  <1>3. \A k : k \in 1..2 <=> k = 1 \/ k = 2
    OBVIOUS
  <1>4. IsPrefix(two, s) <=> Len(s) >= 2 /\ s[1] = x /\ s[2] = y
    BY <1>1, <1>2, <1>3
  <1> QED
    BY <1>4 DEF two

\* take_number of what is left of a line.
LEMMA NumberTaken ==
  ASSUME NEW U, NEW s \in Seq(U), NEW n \in Nat, n < Len(s)
  PROVE  /\ s[n + 1] \in Numbers => take_number(Drop(s, n)) = [number |-> s[n + 1], rest |-> Drop(s, n + 1)]
         /\ s[n + 1] \notin Numbers => take_number(Drop(s, n)) = None
  <1> DEFINE d == Drop(s, n)
  <1>1. n \in 0..Len(s) /\ 1 \in 1..Len(s) - n /\ 1 \in 0..Len(s) - n
    OBVIOUS
  <1>2. d \in Seq(U) /\ Len(d) = Len(s) - n /\ d[1] = s[n + 1]
    BY <1>1, DropFacts
  <1>3. Drop(d, 1) = Drop(s, n + 1)
    BY <1>1, DropDrop
  <1> HIDE DEF d
  <1>4. d # <<>>
    BY <1>1, <1>2, EmptySeq
  <1>5. Tail(d) = Drop(d, 1)
    BY <1>2, <1>4, DropDrop
  <1>6. take_number(d) = IF s[n + 1] \in Numbers THEN [number |-> s[n + 1], rest |-> Drop(s, n + 1)] ELSE None
    BY <1>2, <1>3, <1>4, <1>5, Zenon DEF take_number
  <1> QED
    BY <1>6 DEF d

\* A line that begins with a file name and a line number.
Positioned(line, exts) ==
  /\ line[1] \in exts /\ line[1] # "sp" /\ line[2] = ":" /\ line[3] \in Numbers /\ line[4] = ":"

\* The position is read back, with a column and without.
LEMMA PositionRead ==
  ASSUME NEW U, Marks \subseteq U, NoneApart(U), NEW exts, NEW require_level,
         NEW line \in Seq(U), Len(line) >= 6, Positioned(line, exts)
  PROVE  /\ line[5] = "sp" /\ line[6] # "sp" =>
              parse_one(line, exts, require_level) = Levelled(Drop(line, 5), require_level, line[1], line[3], None)
         /\ Len(line) >= 8 /\ line[5] \in Numbers /\ line[6] = ":" /\ line[7] = "sp" /\ line[8] # "sp" =>
              parse_one(line, exts, require_level) = Levelled(Drop(line, 7), require_level, line[1], line[3], line[5])
  <1> DEFINE E == FileEnds(line, exts)
             at == take_number(Drop(line, Min(E) + 1))
             column == take_number(Drop(line, 4))
             rest == IF column = None THEN Drop(line, 4)
                     ELSE IF IsPrefix(<<":">>, column.rest) THEN Tail(column.rest) ELSE column.rest
  <1>0. Len(line) \in Nat /\ \A i \in 1..Len(line) : line[i] \in U
    OBVIOUS
  <1>1. E # {} /\ Min(E) = 1
    <2>1. E \in SUBSET (1..Len(line))
      BY <1>0 DEF FileEnds
    <2>2. SubSeq(line, 1, 1) = <<line[1]>>
      BY FirstWords
    <2>3. ~Contains(SubSeq(line, 1, 1), "sp")
      <3>1. ~Contains(<<line[1]>>, "sp")
        BY DEF Contains, Positioned
      <3> QED
        BY <2>2, <3>1, Zenon
    <2>4. 1 \in 1..Len(line) - 1 /\ 1 + 1 = 2
      BY <1>0
    <2>5. 1 \in E
      BY <2>3, <2>4 DEF FileEnds, Positioned
    <2> HIDE DEF E
    <2>6. \A i \in E : 1 <= i
      BY <2>1
    <2> QED
      BY <1>0, <2>1, <2>5, <2>6, FirstPlace
  <1>2. at = [number |-> line[3], rest |-> Drop(line, 3)]
    <2>1. Min(E) + 1 = 2 /\ 2 \in Nat /\ 2 < Len(line) /\ 2 + 1 = 3
      BY <1>0, <1>1
    <2>2. take_number(Drop(line, 2)) = [number |-> line[3], rest |-> Drop(line, 3)]
      BY <2>1, NumberTaken DEF Positioned
    <2> HIDE DEF E
    <2> QED
      BY <2>1, <2>2
  <1>3. /\ at # None /\ at.number = line[3] /\ at.rest = Drop(line, 3)
    <2>0. 3 \in 0..Len(line) /\ 3 \in 1..Len(line)
      BY <1>0
    <2>1. Drop(line, 3) \in Seq(U) /\ line[3] \in U
      BY <1>0, <2>0, DropFacts
    <2>2. [number |-> line[3], rest |-> Drop(line, 3)] \in [number : U, rest : Seq(U)]
      BY <2>1
    <2> HIDE DEF at
    <2> QED
      BY <1>2, <2>2 DEF NoneApart
  <1>4. Drop(line, 3) \in Seq(U) /\ IsPrefix(<<":">>, Drop(line, 3)) /\ Tail(Drop(line, 3)) = Drop(line, 4)
    <2> DEFINE d == Drop(line, 3)
    <2>1. 3 \in 0..Len(line) /\ 1 \in 1..Len(line) - 3 /\ 1 \in 0..Len(line) - 3 /\ 3 + 1 = 4
      BY <1>0
    <2>2. d \in Seq(U) /\ Len(d) = Len(line) - 3 /\ d[1] = line[4]
      BY <2>1, DropFacts
    <2>3. Drop(d, 1) = Drop(line, 4)
      BY <2>1, DropDrop
    <2> HIDE DEF d
    <2>4. d # <<>> /\ Len(d) >= 1
      BY <1>0, <2>2, EmptySeq
    <2>5. IsPrefix(<<":">>, d)
      <3>1. ":" \in U
        BY DEF Marks
      <3> QED
        BY <2>2, <2>4, <3>1, PrefixWord DEF Positioned
    <2>6. Tail(d) = Drop(d, 1)
      BY <2>2, <2>4, DropDrop
    <2> QED
      BY <2>2, <2>3, <2>5, <2>6 DEF d
  <1>5. StripPrefix(at.rest, <<":">>) # None
    <2>1. StripPrefix(at.rest, <<":">>) = Drop(at.rest, Len(<<":">>))
      BY <1>3, <1>4, Zenon DEF StripPrefix
    <2>2. Len(<<":">>) = 1 /\ 1 \in 0..Len(Drop(line, 3))
      <3>1. ":" \in U
        BY DEF Marks
      <3>2. Len(Drop(line, 3)) >= 1
        BY <1>4, <3>1, PrefixWord
      <3> QED
        BY <1>4, <3>2
    <2>3. Drop(Drop(line, 3), 1) \in Seq(U)
      BY <1>4, <2>2, DropFacts
    <2> HIDE DEF at
    <2> QED
      BY <1>3, <2>1, <2>2, <2>3 DEF NoneApart
  <1>6. parse_one(line, exts, require_level) =
          Levelled(TrimStart(rest), require_level, line[1], line[3], IF column = None THEN None ELSE column.number)
    <2>1. parse_one(line, exts, require_level) =
            LET col == take_number(Tail(at.rest))
                r == IF col = None THEN Tail(at.rest)
                     ELSE IF IsPrefix(<<":">>, col.rest) THEN Tail(col.rest) ELSE col.rest IN
            Levelled(TrimStart(r), require_level, line[Min(E)], at.number, IF col = None THEN None ELSE col.number)
      BY <1>1, <1>3, <1>5, Zenon DEF parse_one
    <2> HIDE DEF at, E
    <2>2. Tail(at.rest) = Drop(line, 4) /\ line[Min(E)] = line[1] /\ at.number = line[3]
      BY <1>1, <1>3, <1>4
    <2> QED
      BY <2>1, <2>2, Zenon
  <1> HIDE DEF E, at
  <1>7. ASSUME line[5] = "sp", line[6] # "sp"
        PROVE  parse_one(line, exts, require_level) = Levelled(Drop(line, 5), require_level, line[1], line[3], None)
    <2>1. 4 \in Nat /\ 4 < Len(line) /\ 4 + 1 = 5
      BY <1>0
    <2>2. column = None
      BY <1>7, <2>1, NumberTaken DEF Numbers
    <2>3. TrimStart(Drop(line, 4)) = Drop(line, 5)
      <3> DEFINE d == Drop(line, 4)
      <3>1. 4 \in 0..Len(line) /\ 1 \in 1..Len(line) - 4 /\ 2 \in 1..Len(line) - 4 /\ 1 \in 0..Len(line) - 4 /\ 4 + 1 = 5 /\ 4 + 2 = 6
        BY <1>0
      <3>2. d \in Seq(U) /\ Len(d) = Len(line) - 4 /\ d[1] = line[5] /\ d[2] = line[6]
        BY <3>1, DropFacts
      <3>3. Drop(d, 1) = Drop(line, 5)
        BY <3>1, DropDrop
      <3> HIDE DEF d
      <3>4. 1 \in 0..Len(d) - 1 /\ d[1 + 1] # "sp" /\ \A i \in 1..1 : d[i] = "sp"
        BY <1>0, <1>7, <3>2
      <3>5. TrimStart(d) = Drop(d, 1)
        BY <3>2, <3>4, TrimStartFacts
      <3> QED
        BY <3>3, <3>5 DEF d
    <2> HIDE DEF column
    <2> QED
      BY <1>6, <2>2, <2>3
  <1>8. ASSUME Len(line) >= 8, line[5] \in Numbers, line[6] = ":", line[7] = "sp", line[8] # "sp"
        PROVE  parse_one(line, exts, require_level) = Levelled(Drop(line, 7), require_level, line[1], line[3], line[5])
    <2>1. 4 \in Nat /\ 4 < Len(line) /\ 4 + 1 = 5
      BY <1>0
    <2>2. column = [number |-> line[5], rest |-> Drop(line, 5)]
      BY <1>8, <2>1, NumberTaken
    <2>3. column # None /\ column.number = line[5] /\ column.rest = Drop(line, 5)
      <3>0. 5 \in 0..Len(line) /\ 5 \in 1..Len(line)
        BY <1>0
      <3>1. Drop(line, 5) \in Seq(U) /\ line[5] \in U
        BY <1>0, <3>0, DropFacts
      <3>2. [number |-> line[5], rest |-> Drop(line, 5)] \in [number : U, rest : Seq(U)]
        BY <3>1
      <3> HIDE DEF column
      <3> QED
        BY <2>2, <3>2 DEF NoneApart
    <2>4. IsPrefix(<<":">>, Drop(line, 5)) /\ Tail(Drop(line, 5)) = Drop(line, 6)
      <3> DEFINE d == Drop(line, 5)
      <3>1. 5 \in 0..Len(line) /\ 1 \in 1..Len(line) - 5 /\ 1 \in 0..Len(line) - 5 /\ 5 + 1 = 6
        BY <1>0, <1>8
      <3>2. d \in Seq(U) /\ Len(d) = Len(line) - 5 /\ d[1] = line[6]
        BY <3>1, DropFacts
      <3>3. Drop(d, 1) = Drop(line, 6)
        BY <3>1, DropDrop
      <3> HIDE DEF d
      <3>4. d # <<>> /\ Len(d) >= 1
        BY <1>0, <1>8, <3>2, EmptySeq
      <3>5. IsPrefix(<<":">>, d)
        <4>1. ":" \in U
          BY DEF Marks
        <4> QED
          BY <1>8, <3>2, <3>4, <4>1, PrefixWord
      <3>6. Tail(d) = Drop(d, 1)
        BY <3>2, <3>4, DropDrop
      <3> QED
        BY <3>3, <3>5, <3>6 DEF d
    <2>5. TrimStart(Drop(line, 6)) = Drop(line, 7)
      <3> DEFINE d == Drop(line, 6)
      <3>1. 6 \in 0..Len(line) /\ 1 \in 1..Len(line) - 6 /\ 2 \in 1..Len(line) - 6 /\ 1 \in 0..Len(line) - 6 /\ 6 + 1 = 7 /\ 6 + 2 = 8
        BY <1>0, <1>8
      <3>2. d \in Seq(U) /\ Len(d) = Len(line) - 6 /\ d[1] = line[7] /\ d[2] = line[8]
        BY <3>1, DropFacts
      <3>3. Drop(d, 1) = Drop(line, 7)
        BY <3>1, DropDrop
      <3> HIDE DEF d
      <3>4. 1 \in 0..Len(d) - 1 /\ d[1 + 1] # "sp" /\ \A i \in 1..1 : d[i] = "sp"
        BY <1>0, <1>8, <3>2
      <3>5. TrimStart(d) = Drop(d, 1)
        BY <3>2, <3>4, TrimStartFacts
      <3> QED
        BY <3>3, <3>5 DEF d
    <2> HIDE DEF column
    <2>6. rest = Drop(line, 6)
      BY <2>3, <2>4
    <2> QED
      BY <1>6, <2>3, <2>5, <2>6
  <1> QED
    BY <1>7, <1>8

\* The level and the message are read back.
LEMMA LevelRead ==
  ASSUME NEW U, Marks \subseteq U, NoneApart(U), NEW require_level, NEW f, NEW l, NEW c,
         NEW r \in Seq(U), NEW m, Len(r) >= 3, r[1] \in {"error", "warning", "note"}, r[2] = ":",
         Trim(Drop(r, 2)) = m, m # <<>>
  PROVE  Levelled(r, require_level, f, l, c) = Diagnostic(r[1], None, f, l, c, m)
  <1> DEFINE split == SplitOnce(r, ":")
             word == <<r[1]>>
  <1>1. Len(r) \in Nat /\ 2 \in 1..Len(r) /\ (\A i \in 1..2 - 1 : r[i] # ":") /\ 2 - 1 = 1 /\ 2 \in 0..Len(r)
    OBVIOUS
  <1>2. split = [before |-> SubSeq(r, 1, 1), after |-> Drop(r, 2)]
    BY <1>1, SplitAt
  <1>3. SubSeq(r, 1, 1) = word /\ word \in Seq(U) /\ Drop(r, 2) \in Seq(U)
    BY <1>1, FirstWords, DropFacts
  <1>4. Trim(word) = word
    BY OneWord
  <1>5. word \in DOMAIN Levels /\ Levels[word] = r[1]
    <2>1. word \in {<<"error">>, <<"fatal", "sp", "error">>, <<"warning">>, <<"note">>}
      OBVIOUS
    <2>2. word # <<"fatal", "sp", "error">> /\ word[1] = r[1]
      <3>1. Len(word) = 1 /\ Len(<<"fatal", "sp", "error">>) = 3
        OBVIOUS
      <3> QED
        BY <3>1
    <2> HIDE DEF word
    <2> QED
      BY <2>1, <2>2 DEF Levels
  <1> HIDE DEF word
  <1>6. split # None /\ split.before = word /\ split.after = Drop(r, 2)
    <2>1. [before |-> word, after |-> Drop(r, 2)] \in [before : Seq(U), after : Seq(U)]
      BY <1>3
    <2> HIDE DEF split
    <2> QED
      BY <1>2, <1>3, <2>1 DEF NoneApart
  <1> HIDE DEF split
  <1>7. Levelled(r, require_level, f, l, c) = Diagnostic(Levels[Trim(split.before)], None, f, l, c, Trim(split.after))
    <2>1. Trim(split.before) \in DOMAIN Levels /\ Trim(split.after) # <<>> /\ split # None
      BY <1>4, <1>5, <1>6
    <2> QED
      BY <2>1, Zenon DEF Levelled, split
  <1> QED
    BY <1>4, <1>5, <1>6, <1>7

\* What a message must not begin with for a parser that takes a level from it.
NoLevel(m) == SplitOnce(m, ":") # None => Trim(SplitOnce(m, ":").before) \notin DOMAIN Levels

\* A message without a level.
LEMMA NoLevelRead ==
  ASSUME NEW f, NEW l, NEW c, NEW m, Trim(m) = m, m # <<>>, NoLevel(m)
  PROVE  Levelled(m, FALSE, f, l, c) = Diagnostic("error", None, f, l, c, m)
  <1>1. ~(SplitOnce(m, ":") # None /\ (SplitOnce(m, ":") # None => Trim(SplitOnce(m, ":").before) \in DOMAIN Levels))
    BY Zenon DEF NoLevel
  <1> QED
    BY <1>1, Zenon DEF Levelled

\* The heads of the printed lines, word by word.
LEMMA HeadWords ==
  ASSUME NEW U, NEW a \in Seq(U), NEW b \in Seq(U)
  PROVE  /\ a \o b \in Seq(U) /\ Len(a \o b) = Len(a) + Len(b)
         /\ \A i \in 1..Len(a) : (a \o b)[i] = a[i]
         /\ \A i \in 1..Len(b) : (a \o b)[Len(a) + i] = b[i]
  <1> DEFINE ab == a \o b
             n == Len(a)
  <1>1. ab \in Seq(U) /\ Len(ab) = Len(a) + Len(b) /\ Len(a) \in Nat /\ Len(b) \in Nat
        /\ \A i \in 1..Len(a) + Len(b) : ab[i] = IF i <= Len(a) THEN a[i] ELSE b[i - Len(a)]
    BY ConcatProperties
  <1> HIDE DEF ab
  <1>2. \A i \in 1..Len(a) : ab[i] = a[i]
    BY <1>1
  <1>3. \A i \in 1..Len(b) : ab[n + i] = b[i]
    <2> SUFFICES ASSUME NEW i \in 1..Len(b)
                 PROVE  ab[n + i] = b[i]
      OBVIOUS
    <2>1. n + i \in 1..Len(a) + Len(b) /\ ~(n + i <= Len(a)) /\ (n + i) - Len(a) = i
      BY <1>1
    <2> QED
      BY <1>1, <2>1
  <1> QED
    BY <1>1, <1>2, <1>3 DEF ab

\* The words before the message.
ColumnWords(column) == IF column = None THEN <<>> ELSE <<column, ":">>
ColonHead(file, l, column, level) == <<file, ":", l, ":">> \o ColumnWords(column) \o <<"sp", level, ":", "sp">>

\* The column, if one is printed, is two words.
LEMMA ColumnFacts ==
  ASSUME NEW U, Marks \subseteq U, NEW column \in Numbers \cup {None}
  PROVE  /\ ColumnWords(column) \in Seq(U)
         /\ column = None => Len(ColumnWords(column)) = 0 /\ ColumnWords(column) = <<>>
         /\ column # None => /\ Len(ColumnWords(column)) = 2
                            /\ ColumnWords(column)[1] = column /\ ColumnWords(column)[2] = ":"
  <1>1. CASE column = None
    <2>1. ColumnWords(column) = <<>>
      BY <1>1 DEF ColumnWords
    <2> QED
      BY <1>1, <2>1
  <1>2. CASE column # None
    <2>1. ColumnWords(column) = <<column, ":">>
      BY <1>2 DEF ColumnWords
    <2>2. column \in U /\ ":" \in U
      BY <1>2 DEF Marks, Numbers
    <2>3. <<column, ":">> \in Seq(U)
      BY <2>2
    <2>4. Len(<<column, ":">>) = 2 /\ <<column, ":">>[1] = column /\ <<column, ":">>[2] = ":"
      OBVIOUS
    <2> QED
      BY <1>2, <2>1, <2>3, <2>4
  <1> QED
    BY <1>1, <1>2

\* The words of that head.
ColonHeaded(h, file, l, column, level, U) ==
  /\ h \in Seq(U) /\ h[1] = file /\ h[2] = ":" /\ h[3] = l /\ h[4] = ":"
  /\ column # None => /\ Len(h) = 10 /\ h[5] = column /\ h[6] = ":"
                     /\ h[7] = "sp" /\ h[8] = level /\ h[9] = ":" /\ h[10] = "sp"
  /\ column = None => Len(h) = 8 /\ h[5] = "sp" /\ h[6] = level /\ h[7] = ":" /\ h[8] = "sp"

\* The head of a line of javac, mypy or clang, word by word.
LEMMA ColonHeadWords ==
  ASSUME NEW U, Marks \subseteq U, NEW file \in U, NEW l \in Numbers, NEW column \in Numbers \cup {None},
         NEW level \in {"error", "warning", "note"}
  PROVE  ColonHeaded(ColonHead(file, l, column, level), file, l, column, level, U)
  <1> DEFINE a == <<file, ":", l, ":">>
             col == ColumnWords(column)
             b == <<"sp", level, ":", "sp">>
             ac == a \o col
             h == ac \o b
  <1>1. l \in U /\ ":" \in U /\ "sp" \in U /\ level \in U
    BY DEF Marks, Numbers
  <1>2. a \in Seq(U)
    BY <1>1
  <1>3. Len(a) = 4 /\ a[1] = file /\ a[2] = ":" /\ a[3] = l /\ a[4] = ":"
    OBVIOUS
  <1>4. b \in Seq(U)
    BY <1>1
  <1>5. Len(b) = 4 /\ b[1] = "sp" /\ b[2] = level /\ b[3] = ":" /\ b[4] = "sp"
    OBVIOUS
  <1>6. col \in Seq(U)
    BY ColumnFacts
  <1>0. /\ column = None => Len(col) = 0
        /\ column # None => Len(col) = 2 /\ col[1] = column /\ col[2] = ":"
    BY ColumnFacts
  <1>7. h = ColonHead(file, l, column, level)
    BY DEF ColonHead
  <1> HIDE DEF a, b, col
  <1>8. /\ ac \in Seq(U) /\ Len(ac) = Len(a) + Len(col)
        /\ \A i \in 1..Len(a) : ac[i] = a[i]
        /\ \A i \in 1..Len(col) : ac[Len(a) + i] = col[i]
    BY <1>2, <1>6, HeadWords
  <1> HIDE DEF ac
  <1>14. ac \in Seq(U)
    BY <1>8
  <1>9. /\ h \in Seq(U) /\ Len(h) = Len(ac) + Len(b)
        /\ \A i \in 1..Len(ac) : h[i] = ac[i]
        /\ \A i \in 1..Len(b) : h[Len(ac) + i] = b[i]
    BY <1>4, <1>14, HeadWords
  <1> HIDE DEF h
  <1>10. ac[1] = file /\ ac[2] = ":" /\ ac[3] = l /\ ac[4] = ":"
    BY <1>3, <1>8
  <1>11. \A i \in 1..4 : h[Len(ac) + i] = b[i]
    BY <1>5, <1>9
  <1>12. CASE column = None
    <2>0. Len(col) = 0
      BY <1>0, <1>12
    <2>1. Len(ac) = 4 /\ Len(h) = 8
      BY <1>3, <1>5, <1>8, <1>9, <2>0
    <2>2. h[4 + 1] = b[1] /\ h[4 + 2] = b[2] /\ h[4 + 3] = b[3] /\ h[4 + 4] = b[4]
      BY <1>11, <2>1
    <2>3. h[1] = ac[1] /\ h[2] = ac[2] /\ h[3] = ac[3] /\ h[4] = ac[4]
      BY <1>9, <2>1
    <2> QED
      BY <1>5, <1>7, <1>9, <1>10, <1>12, <2>1, <2>2, <2>3 DEF ColonHeaded
  <1>13. CASE column # None
    <2>0. Len(col) = 2 /\ col[1] = column /\ col[2] = ":"
      BY <1>0, <1>13
    <2>1. Len(ac) = 6 /\ Len(h) = 10
      BY <1>3, <1>5, <1>8, <1>9, <2>0
    <2>2. h[6 + 1] = b[1] /\ h[6 + 2] = b[2] /\ h[6 + 3] = b[3] /\ h[6 + 4] = b[4]
      BY <1>11, <2>1
    <2>3. h[1] = ac[1] /\ h[2] = ac[2] /\ h[3] = ac[3] /\ h[4] = ac[4] /\ h[5] = ac[5] /\ h[6] = ac[6]
      BY <1>9, <2>1
    <2>4. ac[4 + 1] = column /\ ac[4 + 2] = ":"
      BY <1>3, <1>8, <2>0
    <2> QED
      BY <1>5, <1>7, <1>9, <1>10, <1>13, <2>1, <2>2, <2>3, <2>4 DEF ColonHeaded
  <1> QED
    BY <1>12, <1>13

\* A line of the colon formats, and what parse_one makes of it.
ColonFits(file, exts, l, column, level, U, h, line, m) ==
  /\ file \in U /\ file \in exts /\ file # "sp" /\ l \in Numbers /\ column \in Numbers \cup {None}
  /\ level \in {"error", "warning", "note"} /\ ColonHeaded(h, file, l, column, level, U) /\ Headed(line, h, m, U)
ColonIs(line, exts, require_level, level, file, l, column, m, U) ==
  /\ parse_one(Trim(line), exts, require_level) = Diagnostic(level, None, file, l, column, m)
  /\ Trim(line) \in Seq(U) /\ Trim(line)[1] = file

\* javac, mypy and clang: the line is read as what was printed.
LEMMA ColonRead ==
  ASSUME NEW U, Marks \subseteq U, NoneApart(U), NEW exts, NEW require_level, NEW file, NEW l, NEW column, NEW level, NEW m,
         NEW h, NEW line, ColonFits(file, exts, l, column, level, U, h, line, m)
  PROVE  ColonIs(line, exts, require_level, level, file, l, column, m, U)
  <1>1. /\ file \in U /\ file \in exts /\ file # "sp" /\ l \in Numbers /\ column \in Numbers \cup {None}
        /\ level \in {"error", "warning", "note"} /\ ColonHeaded(h, file, l, column, level, U) /\ Headed(line, h, m, U)
    BY Zenon DEF ColonFits
  <1> USE <1>1
  <1>8. /\ h \in Seq(U) /\ h[1] = file /\ h[2] = ":" /\ h[3] = l /\ h[4] = ":"
        /\ column # None => /\ Len(h) = 10 /\ h[5] = column /\ h[6] = ":"
                           /\ h[7] = "sp" /\ h[8] = level /\ h[9] = ":" /\ h[10] = "sp"
        /\ column = None => Len(h) = 8 /\ h[5] = "sp" /\ h[6] = level /\ h[7] = ":" /\ h[8] = "sp"
    BY Zenon DEF ColonHeaded
  <1>10. h # <<>>
    <2>1. Len(h) # 0
      BY <1>8
    <2> QED
      BY <2>1
  <1>11. /\ h[Len(h)] = "sp" => Trim(Drop(line, Len(h) - 1)) = m
         /\ h[1] # "sp" => Trim(line) = line
    BY <1>8, <1>10, HeadedFacts
  <1>12. Trim(line) = line
    BY <1>8, <1>11
  <1>13. /\ line \in Seq(U) /\ Len(line) = Len(h) + Len(m) /\ Len(m) \in Nat \ {0} /\ m # <<>>
         /\ \A i \in 1..Len(h) : line[i] = h[i]
    BY Zenon DEF Headed, Bounded
  <1>14. \A k \in 0..Len(line) : \A r : r = Drop(line, k) /\ k + 3 <= Len(h) /\ line[k + 1] = level /\ line[k + 2] = ":"
                                        /\ Len(h) = k + 3 /\ h[Len(h)] = "sp" =>
            \A c : Levelled(r, require_level, file, l, c) = Diagnostic(level, None, file, l, c, m)
    <2> SUFFICES ASSUME NEW k \in 0..Len(line), line[k + 1] = level, line[k + 2] = ":", Len(h) = k + 3, h[Len(h)] = "sp", NEW c
                 PROVE  Levelled(Drop(line, k), require_level, file, l, c) = Diagnostic(level, None, file, l, c, m)
      OBVIOUS
    <2> DEFINE r == Drop(line, k)
    <2>1. 1 \in 1..Len(line) - k /\ 2 \in 1..Len(line) - k /\ 2 \in 0..Len(line) - k /\ Len(line) - k >= 3 /\ k + 2 = Len(h) - 1
      BY <1>13
    <2>7. r \in Seq(U) /\ Len(r) = Len(line) - k /\ \A i \in 1..Len(line) - k : r[i] = line[k + i]
      <3>1. line \in Seq(U)
        BY <1>13
      <3> QED
        BY <3>1, DropFacts
    <2>2. r \in Seq(U) /\ Len(r) = Len(line) - k /\ r[1] = level /\ r[2] = ":"
      BY <2>1, <2>7
    <2>3. Drop(r, 2) = Drop(line, k + 2)
      BY <1>13, <2>1, DropDrop
    <2> HIDE DEF r
    <2>4. Trim(Drop(r, 2)) = m
      BY <1>11, <2>1, <2>3
    <2>5. Len(r) >= 3 /\ r[1] \in {"error", "warning", "note"}
      BY <2>1, <2>2
    <2>6. Levelled(r, require_level, file, l, c) = Diagnostic(r[1], None, file, l, c, m)
      BY <1>13, <2>2, <2>4, <2>5, LevelRead
    <2> QED
      BY <2>2, <2>6 DEF r
  <1>15. CASE column = None
    <2>1. Len(h) = 8
      BY <1>8, <1>15
    <2>2. line[1] = file /\ line[2] = ":" /\ line[3] = l /\ line[4] = ":" /\ line[5] = "sp" /\ line[6] = level /\ line[7] = ":"
      BY <1>8, <1>13, <1>15, <2>1
    <2>3. Len(line) >= 6 /\ Positioned(line, exts) /\ 5 \in 0..Len(line)
      BY <1>13, <2>1, <2>2 DEF Positioned
    <2>4. parse_one(line, exts, require_level) = Levelled(Drop(line, 5), require_level, file, l, None)
      BY <1>13, <2>2, <2>3, PositionRead
    <2>5. Levelled(Drop(line, 5), require_level, file, l, None) = Diagnostic(level, None, file, l, None, m)
      BY <1>8, <1>14, <1>15, <2>1, <2>2, <2>3
    <2> QED
      BY <1>12, <1>13, <1>15, <2>2, <2>4, <2>5 DEF ColonIs
  <1>16. CASE column # None
    <2>1. Len(h) = 10 /\ column \in Numbers
      BY <1>8, <1>16
    <2>2. line[1] = file /\ line[2] = ":" /\ line[3] = l /\ line[4] = ":" /\ line[5] = column /\ line[6] = ":"
          /\ line[7] = "sp" /\ line[8] = level /\ line[9] = ":"
      BY <1>8, <1>13, <1>16, <2>1
    <2>3. Len(line) >= 8 /\ Positioned(line, exts) /\ 7 \in 0..Len(line)
      BY <1>13, <2>1, <2>2 DEF Positioned
    <2>4. parse_one(line, exts, require_level) = Levelled(Drop(line, 7), require_level, file, l, column)
      BY <1>13, <2>1, <2>2, <2>3, PositionRead
    <2>5. Levelled(Drop(line, 7), require_level, file, l, column) = Diagnostic(level, None, file, l, column, m)
      BY <1>8, <1>14, <1>16, <2>1, <2>2, <2>3
    <2> QED
      BY <1>12, <1>13, <2>2, <2>4, <2>5 DEF ColonIs
  <1> QED
    BY <1>15, <1>16

\* go: the words before the message, the line begins with a space and no level is printed.
GoHead(file, l, column) == <<"sp", file, ":", l, ":">> \o ColumnWords(column) \o <<"sp">>
GoHeaded(h, file, l, column, U) ==
  /\ h \in Seq(U) /\ h[1] = "sp" /\ h[2] = file /\ h[3] = ":" /\ h[4] = l /\ h[5] = ":"
  /\ column # None => Len(h) = 8 /\ h[6] = column /\ h[7] = ":" /\ h[8] = "sp"
  /\ column = None => Len(h) = 6 /\ h[6] = "sp"

\* The head of a line of go, word by word.
LEMMA GoHeadWords ==
  ASSUME NEW U, Marks \subseteq U, NEW file \in U, NEW l \in Numbers, NEW column \in Numbers \cup {None}
  PROVE  GoHeaded(GoHead(file, l, column), file, l, column, U)
  <1> DEFINE a == <<"sp", file, ":", l, ":">>
             col == ColumnWords(column)
             b == <<"sp">>
             ac == a \o col
             h == ac \o b
  <1>1. l \in U /\ ":" \in U /\ "sp" \in U
    BY DEF Marks, Numbers
  <1>2. a \in Seq(U)
    BY <1>1
  <1>3. Len(a) = 5 /\ a[1] = "sp" /\ a[2] = file /\ a[3] = ":" /\ a[4] = l /\ a[5] = ":"
    OBVIOUS
  <1>4. b \in Seq(U)
    BY <1>1
  <1>5. Len(b) = 1 /\ b[1] = "sp"
    OBVIOUS
  <1>6. col \in Seq(U)
    BY ColumnFacts
  <1>7. /\ column = None => Len(col) = 0
        /\ column # None => Len(col) = 2 /\ col[1] = column /\ col[2] = ":"
    BY ColumnFacts
  <1>8. h = GoHead(file, l, column)
    BY DEF GoHead
  <1> HIDE DEF a, b, col
  <1>9. /\ ac \in Seq(U) /\ Len(ac) = Len(a) + Len(col)
        /\ \A i \in 1..Len(a) : ac[i] = a[i]
        /\ \A i \in 1..Len(col) : ac[Len(a) + i] = col[i]
    BY <1>2, <1>6, HeadWords
  <1> HIDE DEF ac
  <1>10. ac \in Seq(U)
    BY <1>9
  <1>11. /\ h \in Seq(U) /\ Len(h) = Len(ac) + Len(b)
         /\ \A i \in 1..Len(ac) : h[i] = ac[i]
         /\ \A i \in 1..Len(b) : h[Len(ac) + i] = b[i]
    BY <1>4, <1>10, HeadWords
  <1> HIDE DEF h
  <1>12. ac[1] = "sp" /\ ac[2] = file /\ ac[3] = ":" /\ ac[4] = l /\ ac[5] = ":"
    BY <1>3, <1>9
  <1>13. h[Len(ac) + 1] = "sp"
    BY <1>5, <1>11
  <1>14. CASE column = None
    <2>1. Len(col) = 0
      BY <1>7, <1>14
    <2>2. Len(ac) = 5 /\ Len(h) = 6
      BY <1>3, <1>5, <1>9, <1>11, <2>1
    <2>3. h[1] = ac[1] /\ h[2] = ac[2] /\ h[3] = ac[3] /\ h[4] = ac[4] /\ h[5] = ac[5] /\ h[6] = "sp"
      BY <1>11, <1>13, <2>2
    <2> QED
      BY <1>8, <1>11, <1>12, <1>14, <2>2, <2>3 DEF GoHeaded
  <1>15. CASE column # None
    <2>1. Len(col) = 2 /\ col[1] = column /\ col[2] = ":"
      BY <1>7, <1>15
    <2>2. Len(ac) = 7 /\ Len(h) = 8
      BY <1>3, <1>5, <1>9, <1>11, <2>1
    <2>3. h[1] = ac[1] /\ h[2] = ac[2] /\ h[3] = ac[3] /\ h[4] = ac[4] /\ h[5] = ac[5] /\ h[6] = ac[6] /\ h[7] = ac[7] /\ h[8] = "sp"
      BY <1>11, <1>13, <2>2
    <2>4. ac[5 + 1] = column /\ ac[5 + 2] = ":"
      BY <1>3, <1>9, <2>1
    <2>5. h[1] = "sp" /\ h[2] = file /\ h[3] = ":" /\ h[4] = l /\ h[5] = ":"
      BY <1>12, <2>3
    <2>6. h[6] = column /\ h[7] = ":"
      BY <2>1, <2>3, <2>4
    <2> QED
      BY <1>8, <1>11, <1>15, <2>2, <2>3, <2>5, <2>6 DEF GoHeaded
  <1> QED
    BY <1>14, <1>15

\* A line of the Go tools, and what parse_one makes of it.
GoFits(file, exts, l, column, U, h, line, m) ==
  /\ file \in U /\ file \in exts /\ file # "sp" /\ l \in Numbers /\ column \in Numbers \cup {None}
  /\ NoLevel(m) /\ GoHeaded(h, file, l, column, U) /\ Headed(line, h, m, U)
GoIs(line, exts, file, l, column, m) ==
  parse_one(Trim(line), exts, FALSE) = Diagnostic("error", None, file, l, column, m)

\* go: the line is read as what was printed, with the level error.
LEMMA GoRead ==
  ASSUME NEW U, Marks \subseteq U, NoneApart(U), NEW exts, NEW file, NEW l, NEW column, NEW m, NEW h, NEW line,
         GoFits(file, exts, l, column, U, h, line, m)
  PROVE  GoIs(line, exts, file, l, column, m)
  <1>16. /\ file \in U /\ file \in exts /\ file # "sp" /\ l \in Numbers /\ column \in Numbers \cup {None}
         /\ NoLevel(m) /\ GoHeaded(h, file, l, column, U) /\ Headed(line, h, m, U)
    BY Zenon DEF GoFits
  <1> USE <1>16
  <1> DEFINE t == Drop(line, 1)
             req == FALSE
  <1>1. /\ h \in Seq(U) /\ h[1] = "sp" /\ h[2] = file /\ h[3] = ":" /\ h[4] = l /\ h[5] = ":"
        /\ column # None => Len(h) = 8 /\ h[6] = column /\ h[7] = ":" /\ h[8] = "sp"
        /\ column = None => Len(h) = 6 /\ h[6] = "sp"
    BY Zenon DEF GoHeaded
  <1>2. Len(h) >= 6 /\ h \in Seq(U)
    BY <1>1
  <1>3. h # <<>>
    BY <1>2
  <1>4. Trim(line) = t /\ Trim(m) = m
    BY <1>1, <1>2, <1>3, HeadedFacts
  <1>5. /\ line \in Seq(U) /\ Len(line) = Len(h) + Len(m) /\ Len(m) \in Nat \ {0} /\ m # <<>>
        /\ \A i \in 1..Len(h) : line[i] = h[i]
        /\ line[Len(h) + 1] # "sp" /\ Drop(line, Len(h)) = m
    BY Zenon DEF Headed, Bounded
  <1>6. line \in Seq(U) /\ 1 \in 0..Len(line)
    BY <1>2, <1>5
  <1>7. t \in Seq(U) /\ Len(t) = Len(line) - 1 /\ \A i \in 1..Len(line) - 1 : t[i] = line[1 + i]
    BY <1>6, DropFacts
  <1>8. \A k \in 0..Len(line) - 1 : Drop(t, k) = Drop(line, 1 + k)
    BY <1>6, DropDrop
  <1> HIDE DEF t
  <1>9. t[1] = file /\ t[2] = ":" /\ t[3] = l /\ t[4] = ":"
    <2>1. t[1] = line[1 + 1] /\ t[2] = line[1 + 2] /\ t[3] = line[1 + 3] /\ t[4] = line[1 + 4]
      BY <1>2, <1>5, <1>7
    <2>2. line[2] = h[2] /\ line[3] = h[3] /\ line[4] = h[4] /\ line[5] = h[5]
      BY <1>2, <1>5
    <2> QED
      BY <1>1, <2>1, <2>2
  <1>10. Positioned(t, exts)
    BY <1>9 DEF Positioned
  <1>11. t \in Seq(U)
    BY <1>7
  <1>12. \A c : Levelled(m, req, file, l, c) = Diagnostic("error", None, file, l, c, m)
    BY <1>4, <1>5, NoLevelRead, Zenon DEF req
  <1>15. SUFFICES parse_one(t, exts, req) = Diagnostic("error", None, file, l, column, m)
    BY <1>4, Zenon DEF req, GoIs
  <1> HIDE DEF req
  <1>13. CASE column = None
    <2>1. Len(h) = 6 /\ Len(t) >= 6
      BY <1>1, <1>5, <1>7, <1>13
    <2>2. t[5] = line[1 + 5] /\ t[6] = line[1 + 6] /\ line[6] = h[6]
      BY <1>5, <1>7, <2>1
    <2>3. t[5] = "sp" /\ t[6] # "sp"
      BY <1>1, <1>5, <1>13, <2>1, <2>2
    <2>4. parse_one(t, exts, req) = Levelled(Drop(t, 5), req, t[1], t[3], None)
      BY <1>10, <1>11, <2>1, <2>3, PositionRead
    <2>5. Drop(t, 5) = m
      <3>1. 5 \in 0..Len(line) - 1 /\ 1 + 5 = Len(h)
        BY <1>5, <2>1
      <3> QED
        BY <1>5, <1>8, <3>1
    <2> QED
      BY <1>9, <1>12, <1>13, <2>4, <2>5
  <1>14. CASE column # None
    <2>1. Len(h) = 8 /\ Len(t) >= 8
      BY <1>1, <1>5, <1>7, <1>14
    <2>2. t[5] = line[1 + 5] /\ t[6] = line[1 + 6] /\ t[7] = line[1 + 7] /\ t[8] = line[1 + 8]
      BY <1>5, <1>7, <2>1
    <2>3. line[6] = h[6] /\ line[7] = h[7] /\ line[8] = h[8]
      BY <1>5, <2>1
    <2>4. t[5] = column /\ t[5] \in Numbers /\ t[6] = ":" /\ t[7] = "sp" /\ t[8] # "sp"
      BY <1>1, <1>5, <1>14, <2>1, <2>2, <2>3
    <2>5. parse_one(t, exts, req) = Levelled(Drop(t, 7), req, t[1], t[3], t[5])
      BY <1>10, <1>11, <2>1, <2>4, PositionRead
    <2>6. Drop(t, 7) = m
      <3>1. 7 \in 0..Len(line) - 1 /\ 1 + 7 = Len(h)
        BY <1>5, <2>1
      <3> QED
        BY <1>5, <1>8, <3>1
    <2> QED
      BY <1>9, <1>12, <2>4, <2>5, <2>6
  <1> QED
    BY <1>13, <1>14

\* The coordinates that Maven and tsc print.
LEMMA CoordsRead ==
  ASSUME NEW U, Marks \subseteq U, NoneApart(U), NEW l \in Numbers, NEW c \in Numbers
  PROVE  LET coords == SplitOnce(<<l, Comma, c>>, Comma) IN
         coords # None /\ Number(coords.before) = l /\ Number(coords.after) = c /\ l # None /\ c # None
  <1> DEFINE q == <<l, Comma, c>>
             coords == SplitOnce(q, Comma)
  <1>1. l \in U /\ c \in U /\ Comma \in U /\ l # Comma /\ Number(<<l>>) = l /\ Number(<<c>>) = c
    <2>1. l \in U /\ c \in U /\ Comma \in U
      BY DEF Marks, Numbers
    <2>2. l = "1" \/ l = "2"
      BY DEF Numbers
    <2>3. l # Comma
      BY <2>2, Zenon DEF Comma
    <2>4. Number(<<l>>) = l /\ Number(<<c>>) = c
      BY OneWord, Zenon
    <2> QED
      BY <2>1, <2>3, <2>4
  <1>2. q \in Seq(U)
    BY <1>1
  <1>3. Len(q) = 3 /\ q[1] = l /\ q[2] = Comma /\ q[3] = c
    OBVIOUS
  <1> HIDE DEF q
  <1>4. coords = [before |-> SubSeq(q, 1, 1), after |-> Drop(q, 2)]
    <2>1. 2 \in 1..Len(q) /\ (\A i \in 1..2 - 1 : q[i] # Comma) /\ 2 - 1 = 1
      BY <1>1, <1>3
    <2> QED
      BY <1>2, <1>3, <2>1, SplitAt
  <1>5. SubSeq(q, 1, 1) = <<l>>
    BY <1>2, <1>3, FirstWords
  <1>6. Drop(q, 2) = <<c>>
    <2> DEFINE d == Drop(q, 2)
               w == <<c>>
    <2>1. 2 \in 0..Len(q)
      BY <1>3
    <2>2. d \in Seq(U) /\ Len(d) = Len(q) - 2 /\ \A i \in 1..Len(q) - 2 : d[i] = q[2 + i]
      BY <1>2, <2>1, DropFacts
    <2>3. w \in Seq(U)
      BY <1>1
    <2>4. Len(w) = 1 /\ w[1] = c
      OBVIOUS
    <2> HIDE DEF d, w
    <2>5. Len(d) = 1 /\ d[1] = c
      BY <1>3, <2>2
    <2>6. Len(d) = Len(w) /\ \A i \in 1..Len(d) : d[i] = w[i]
      BY <2>4, <2>5
    <2>7. d \in Seq(U)
      BY <2>2
    <2> QED
      BY <2>3, <2>6, <2>7, SeqEqual DEF d, w
  <1>7. <<l>> \in Seq(U) /\ <<c>> \in Seq(U)
    BY <1>1
  <1>8. coords = [before |-> <<l>>, after |-> <<c>>]
    BY <1>4, <1>5, <1>6, Zenon
  <1>9. coords.before = <<l>> /\ coords.after = <<c>> /\ coords # None
    <2> DEFINE x == <<l>>
               y == <<c>>
    <2>1. x \in Seq(U) /\ y \in Seq(U) /\ coords = [before |-> x, after |-> y]
      BY <1>7, <1>8
    <2> HIDE DEF x, y, coords
    <2>2. coords.before = x /\ coords.after = y /\ coords \in [before : Seq(U), after : Seq(U)]
      BY <2>1
    <2>3. coords # None
      BY <2>2 DEF NoneApart
    <2> QED
      BY <2>2, <2>3 DEF x, y
  <1>10. l # None /\ c # None
    BY <1>1 DEF NoneApart
  <1> HIDE DEF coords
  <1>11. Number(coords.before) = l /\ Number(coords.after) = c
    BY <1>1, <1>9
  <1> QED
    BY <1>9, <1>10, <1>11 DEF coords, q

\* Maven: the words before the message.
MavenTag(level) == IF level = "error" THEN "[ERROR]" ELSE "[WARNING]"
MavenHead(level, l, c) == <<MavenTag(level), "sp", ".java", ":", "[", l, Comma, c, "]", "sp">>
MavenHeaded(h, level, l, c, U) ==
  /\ h \in Seq(U) /\ Len(h) = 10
  /\ h[1] = MavenTag(level) /\ h[2] = "sp" /\ h[3] = ".java" /\ h[4] = ":" /\ h[5] = "["
  /\ h[6] = l /\ h[7] = Comma /\ h[8] = c /\ h[9] = "]" /\ h[10] = "sp"
MavenLine(line) ==
  IF IsPrefix(<<"[ERROR]", "sp">>, line) THEN MavenSpan("error", Drop(line, 2))
  ELSE IF IsPrefix(<<"[WARNING]", "sp">>, line) THEN MavenSpan("warning", Drop(line, 2)) ELSE None

\* The head of a line of Maven, word by word.
LEMMA MavenHeadWords ==
  ASSUME NEW U, Marks \subseteq U, NEW level \in {"error", "warning"}, NEW l \in Numbers, NEW c \in Numbers
  PROVE  MavenHeaded(MavenHead(level, l, c), level, l, c, U)
  <1> DEFINE h == MavenHead(level, l, c)
  <1>1. /\ MavenTag(level) \in U /\ "sp" \in U /\ ".java" \in U /\ ":" \in U /\ "[" \in U
        /\ l \in U /\ Comma \in U /\ c \in U /\ "]" \in U
    BY DEF Marks, Numbers, MavenTag
  <1>2. h \in Seq(U)
    BY <1>1 DEF MavenHead
  <1>3. Len(h) = 10
    BY DEF MavenHead
  <1>4. /\ h[1] = MavenTag(level) /\ h[2] = "sp" /\ h[3] = ".java" /\ h[4] = ":" /\ h[5] = "["
    BY DEF MavenHead
  <1>5. h[6] = l /\ h[7] = Comma /\ h[8] = c /\ h[9] = "]" /\ h[10] = "sp"
    BY DEF MavenHead
  <1> HIDE DEF h
  <1>6. MavenHeaded(h, level, l, c, U)
    BY <1>2, <1>3, <1>4, <1>5 DEF MavenHeaded
  <1> QED
    BY <1>6 DEF h

MavenRest(rest, l, c, m, U) ==
  /\ rest \in Seq(U) /\ Len(rest) >= 8 /\ rest[1] = ".java" /\ rest[2] = ":" /\ rest[3] = "["
  /\ rest[4] = l /\ rest[5] = Comma /\ rest[6] = c /\ rest[7] = "]" /\ Trim(Drop(rest, 7)) = m

\* What follows the tag: the file name is found at once and the coordinates after it.
LEMMA MavenSpanRead ==
  ASSUME NEW U, Marks \subseteq U, NoneApart(U), NEW level, NEW l \in Numbers, NEW c \in Numbers, NEW m, m # <<>>,
         NEW rest, MavenRest(rest, l, c, m, U)
  PROVE  MavenSpan(level, rest) = Diagnostic(level, None, ".java", l, c, m)
  <1> DEFINE windows == [i \in DOMAIN rest |-> SubSeq(rest, i, IF i + 2 > Len(rest) THEN Len(rest) ELSE i + 2)]
             file == <<".java", ":", "[">>
             I == {i \in 1..Len(windows) : windows[i] = file}
             at == SelectInSeq(windows, LAMBDA w : w = file)
             d == Drop(rest, 3)
             q == <<l, Comma, c>>
             tail == SplitOnce(d, "]")
  <1>00. /\ rest \in Seq(U) /\ Len(rest) >= 8 /\ rest[1] = ".java" /\ rest[2] = ":" /\ rest[3] = "["
         /\ rest[4] = l /\ rest[5] = Comma /\ rest[6] = c /\ rest[7] = "]" /\ Trim(Drop(rest, 7)) = m
    BY Zenon DEF MavenRest
  <1> USE <1>00
  <1>0. Len(rest) \in Nat /\ DOMAIN rest = 1..Len(rest)
    OBVIOUS
  <1>1. Len(windows) = Len(rest)
    BY <1>0
  <1>2. windows[1] = file
    <2>1. 1 \in DOMAIN rest /\ ~(1 + 2 > Len(rest)) /\ 1 + 2 = 3
      BY <1>0
    <2>2. windows[1] = SubSeq(rest, 1, 3)
      BY <2>1
    <2>3. SubSeq(rest, 1, 3) = <<rest[1], rest[2], rest[3]>>
      BY FirstWords
    <2> QED
      BY <2>2, <2>3
  <1>3. at = IF I # {} THEN Min(I) ELSE 0
    BY DEF SelectInSeq
  <1> HIDE DEF windows
  <1>4. at = 1
    <2>1. 1 \in I /\ I \in SUBSET (1..Len(rest)) /\ \A i \in I : 1 <= i
      BY <1>0, <1>1, <1>2
    <2> HIDE DEF I
    <2>2. Min(I) = 1
      BY <1>0, <2>1, FirstPlace
    <2> HIDE DEF at
    <2> QED
      BY <1>3, <2>1, <2>2
  <1>5. ~Contains(SubSeq(rest, 1, 1), "sp")
    <2>1. SubSeq(rest, 1, 1) = <<rest[1]>>
      BY <1>0, FirstWords
    <2>2. ~Contains(<<rest[1]>>, "sp")
      BY DEF Contains
    <2> QED
      BY <2>1, <2>2, Zenon
  <1>6. d \in Seq(U) /\ Len(d) = Len(rest) - 3 /\ d[1] = l /\ d[2] = Comma /\ d[3] = c /\ d[4] = "]" /\ Drop(d, 4) = Drop(rest, 7)
    <2>1. 3 \in 0..Len(rest) /\ 4 \in 0..Len(rest) - 3 /\ 3 + 4 = 7
      BY <1>0
    <2>2. d \in Seq(U) /\ Len(d) = Len(rest) - 3 /\ \A i \in 1..Len(rest) - 3 : d[i] = rest[3 + i]
      BY <2>1, DropFacts
    <2>3. Drop(d, 4) = Drop(rest, 7)
      BY <2>1, DropDrop
    <2> HIDE DEF d
    <2>4. d[1] = rest[3 + 1] /\ d[2] = rest[3 + 2] /\ d[3] = rest[3 + 3] /\ d[4] = rest[3 + 4]
      BY <1>0, <2>2
    <2> QED
      BY <2>2, <2>3, <2>4
  <1> HIDE DEF d
  <1>7. tail = [before |-> SubSeq(d, 1, 3), after |-> Drop(d, 4)]
    <2>1. l # "]" /\ c # "]" /\ Comma # "]"
      <3>1. l # "]" /\ c # "]"
        BY DEF Numbers
      <3>2. Comma # "]"
        BY Zenon DEF Comma
      <3> QED
        BY <3>1, <3>2
    <2>2. 4 \in 1..Len(d) /\ 4 - 1 = 3
      BY <1>0, <1>6
    <2>3. \A i \in 1..4 - 1 : d[i] # "]"
      <3>1. \A i \in 1..4 - 1 : i = 1 \/ i = 2 \/ i = 3
        OBVIOUS
      <3> QED
        BY <1>6, <2>1, <3>1
    <2>4. d \in Seq(U) /\ d[4] = "]"
      BY <1>6
    <2> QED
      BY <2>2, <2>3, <2>4, SplitAt
  <1>8. SubSeq(d, 1, 3) = q
    <2>1. Len(d) >= 3 /\ d \in Seq(U)
      BY <1>0, <1>6
    <2>2. SubSeq(d, 1, 3) = <<d[1], d[2], d[3]>>
      BY <2>1, FirstWords
    <2> QED
      BY <1>6, <2>2
  <1>9. q \in Seq(U)
    <2>1. l \in U /\ c \in U /\ Comma \in U
      BY DEF Marks, Numbers
    <2> QED
      BY <2>1
  <1>10. LET coords == SplitOnce(q, Comma) IN
         coords # None /\ Number(coords.before) = l /\ Number(coords.after) = c /\ l # None /\ c # None
    BY CoordsRead
  <1> HIDE DEF q
  <1>11. tail # None /\ tail.before = q /\ Trim(tail.after) = m
    <2>1. 4 \in 0..Len(d) /\ d \in Seq(U)
      BY <1>0, <1>6
    <2>2. Drop(d, 4) \in Seq(U)
      BY <2>1, DropFacts
    <2>3. [before |-> q, after |-> Drop(d, 4)] \in [before : Seq(U), after : Seq(U)]
      BY <1>9, <2>2
    <2> HIDE DEF tail
    <2>4. tail # None
      BY <1>7, <1>8, <2>3 DEF NoneApart
    <2> QED
      BY <1>6, <1>7, <1>8, <2>4
  <1> DEFINE coords == SplitOnce(q, Comma)
  <1>12. at + 2 = 3
    BY <1>4
  <1>13. MavenSpan(level, rest) =
           IF at = 0 \/ Contains(SubSeq(rest, 1, at), "sp") \/ SplitOnce(Drop(rest, at + 2), "]") = None THEN None
           ELSE LET co == SplitOnce(SplitOnce(Drop(rest, at + 2), "]").before, Comma)
                    line == Number(IF co = None THEN SplitOnce(Drop(rest, at + 2), "]").before ELSE co.before)
                    column == IF co = None THEN None ELSE Number(co.after) IN
                IF line = None \/ Trim(SplitOnce(Drop(rest, at + 2), "]").after) = <<>> THEN None
                ELSE Diagnostic(level, None, ".java", line, column, Trim(SplitOnce(Drop(rest, at + 2), "]").after))
    BY Zenon DEF MavenSpan, windows, Comma
  <1> HIDE DEF at
  <1>14. SplitOnce(Drop(rest, at + 2), "]") = tail
    BY <1>12 DEF d
  <1> HIDE DEF tail
  <1>15. MavenSpan(level, rest) =
           LET co == SplitOnce(tail.before, Comma)
               line == Number(IF co = None THEN tail.before ELSE co.before)
               column == IF co = None THEN None ELSE Number(co.after) IN
           IF line = None \/ Trim(tail.after) = <<>> THEN None
           ELSE Diagnostic(level, None, ".java", line, column, Trim(tail.after))
    <2>1. ~(at = 0 \/ Contains(SubSeq(rest, 1, at), "sp") \/ SplitOnce(Drop(rest, at + 2), "]") = None)
      BY <1>4, <1>5, <1>11, <1>14
    <2> QED
      BY <1>13, <1>14, <2>1, Zenon
  <1>16. SplitOnce(tail.before, Comma) = coords
    BY <1>11, Zenon
  <1> HIDE DEF coords
  <1>17. coords # None /\ Number(coords.before) = l /\ Number(coords.after) = c /\ l # None
    BY <1>10, Zenon DEF coords
  <1> QED
    BY <1>11, <1>15, <1>16, <1>17, Zenon

\* Maven: the line is read as what was printed.
LEMMA MavenRead ==
  ASSUME NEW U, Marks \subseteq U, NoneApart(U), NEW level \in {"error", "warning"}, NEW l \in Numbers, NEW c \in Numbers,
         NEW m, NEW h, MavenHeaded(h, level, l, c, U), NEW line, Headed(line, h, m, U)
  PROVE  MavenLine(Trim(line)) = Diagnostic(level, None, ".java", l, c, m)
  <1> DEFINE rest == Drop(line, 2)
  <1>1. /\ h \in Seq(U) /\ Len(h) = 10
        /\ h[1] = MavenTag(level) /\ h[2] = "sp" /\ h[3] = ".java" /\ h[4] = ":" /\ h[5] = "["
        /\ h[6] = l /\ h[7] = Comma /\ h[8] = c /\ h[9] = "]" /\ h[10] = "sp"
    BY Zenon DEF MavenHeaded
  <1>2. /\ line \in Seq(U) /\ Len(line) = Len(h) + Len(m) /\ Len(m) \in Nat \ {0} /\ m # <<>>
        /\ \A i \in 1..Len(h) : line[i] = h[i]
    BY Zenon DEF Headed, Bounded
  <1>3. h # <<>> /\ h[1] # "sp" /\ h[Len(h)] = "sp" /\ h \in Seq(U)
    <2>1. h # <<>>
      <3>1. Len(h) # 0
        BY <1>1
      <3> QED
        BY <3>1
    <2> QED
      BY <1>1, <2>1 DEF MavenTag
  <1>4. Trim(line) = line /\ Trim(Drop(line, Len(h) - 1)) = m
    BY <1>3, HeadedFacts
  <1>5. Trim(Drop(line, 9)) = m
    <2>1. Len(h) - 1 = 9
      BY <1>1
    <2> QED
      BY <1>4, <2>1
  <1>6. line \in Seq(U) /\ 2 \in 0..Len(line) /\ Len(line) >= 11 /\ Len(line) \in Nat
    BY <1>1, <1>2
  <1>7. rest \in Seq(U) /\ Len(rest) = Len(line) - 2 /\ \A i \in 1..Len(line) - 2 : rest[i] = line[2 + i]
    BY <1>6, DropFacts
  <1>8. Drop(rest, 7) = Drop(line, 9)
    <2>1. 7 \in 0..Len(line) - 2 /\ 2 + 7 = 9
      BY <1>6
    <2> QED
      BY <1>6, <2>1, DropDrop
  <1> HIDE DEF rest
  <1>9. rest[1] = line[2 + 1] /\ rest[2] = line[2 + 2] /\ rest[3] = line[2 + 3] /\ rest[4] = line[2 + 4]
        /\ rest[5] = line[2 + 5] /\ rest[6] = line[2 + 6] /\ rest[7] = line[2 + 7]
    BY <1>6, <1>7
  <1>10. line[1] = h[1] /\ line[2] = h[2] /\ line[3] = h[3] /\ line[4] = h[4] /\ line[5] = h[5] /\ line[6] = h[6]
         /\ line[7] = h[7] /\ line[8] = h[8] /\ line[9] = h[9]
    BY <1>1, <1>2
  <1>11. rest \in Seq(U) /\ Len(rest) >= 8
    BY <1>6, <1>7
  <1>12. rest[1] = ".java" /\ rest[2] = ":" /\ rest[3] = "[" /\ rest[4] = l /\ rest[5] = Comma /\ rest[6] = c /\ rest[7] = "]"
    <2>1. rest[1] = h[3] /\ rest[2] = h[4] /\ rest[3] = h[5] /\ rest[4] = h[6] /\ rest[5] = h[7] /\ rest[6] = h[8] /\ rest[7] = h[9]
      BY <1>9, <1>10
    <2> QED
      BY <1>1, <2>1, Zenon
  <1>13. MavenSpan(level, rest) = Diagnostic(level, None, ".java", l, c, m)
    <2>1. m # <<>> /\ Trim(Drop(rest, 7)) = m
      BY <1>2, <1>5, <1>8
    <2>2. MavenRest(rest, l, c, m, U)
      BY <1>11, <1>12, <2>1, Zenon DEF MavenRest
    <2> QED
      BY <2>1, <2>2, MavenSpanRead
  <1>14. "[ERROR]" \in U /\ "[WARNING]" \in U /\ "sp" \in U
    BY DEF Marks
  <1>15. Len(line) >= 2 /\ line[1] = MavenTag(level) /\ line[2] = "sp"
    BY <1>1, <1>6, <1>10
  <1>16. CASE level = "error"
    <2>1. IsPrefix(<<"[ERROR]", "sp">>, line)
      BY <1>6, <1>14, <1>15, <1>16, PrefixWords DEF MavenTag
    <2> QED
      BY <1>4, <1>13, <1>16, <2>1, Zenon DEF MavenLine, rest
  <1>17. CASE level = "warning"
    <2>1. ~IsPrefix(<<"[ERROR]", "sp">>, line) /\ IsPrefix(<<"[WARNING]", "sp">>, line)
      BY <1>6, <1>14, <1>15, <1>17, PrefixWords DEF MavenTag
    <2> QED
      BY <1>4, <1>13, <1>17, <2>1, Zenon DEF MavenLine, rest
  <1> QED
    BY <1>16, <1>17

\* What a message must not begin with for the parser that takes a code from it.
NoCode(m) == SplitOnce(m, ":") # None => ~IsPrefix(<<"TS1">>, SplitOnce(m, ":").before)

\* tsc: the words before the code and the message.
TscHead(level, l, c) == <<".ts", "(", l, Comma, c, ")", ":", "sp", level, "sp">>
CodeHead(code) == IF code = None THEN <<>> ELSE <<code, ":", "sp">>
TscStart(h, level, l, c, U) ==
  /\ h \in Seq(U) /\ Len(h) >= 10
  /\ h[1] = ".ts" /\ h[2] = "(" /\ h[3] = l /\ h[4] = Comma /\ h[5] = c /\ h[6] = ")"
  /\ h[7] = ":" /\ h[8] = "sp" /\ h[9] = level /\ h[10] = "sp"
TscHeaded(h, level, code, l, c, U) ==
  /\ TscStart(h, level, l, c, U)
  /\ code = None => Len(h) = 10
  /\ code # None => Len(h) = 13 /\ h[11] = code /\ h[12] = ":" /\ h[13] = "sp"

\* What the parser makes of the rest of the line after the level.
TscRest(level, file, line, column, rest) ==
  LET split   == SplitOnce(rest, ":")
      coded   == IF split = None THEN FALSE ELSE IsPrefix(<<"TS1">>, split.before)
      message == Trim(IF coded THEN split.after ELSE rest) IN
  IF message = <<>> THEN None
  ELSE Diagnostic(level, IF coded THEN split.before[1] ELSE None, file, line, column, message)

\* The head of a line of tsc, with a code or without, word by word.
LEMMA TscHeadWords ==
  ASSUME NEW U, Marks \subseteq U, NEW level \in {"error", "warning"}, NEW code \in {"TS1", None}, NEW l \in Numbers, NEW c \in Numbers
  PROVE  TscHeaded(TscHead(level, l, c) \o CodeHead(code), level, code, l, c, U)
  <1> DEFINE a == TscHead(level, l, c)
             b == CodeHead(code)
             h == a \o b
  <1>1. /\ ".ts" \in U /\ "(" \in U /\ ")" \in U /\ ":" \in U /\ "sp" \in U /\ level \in U /\ "TS1" \in U
        /\ l \in U /\ Comma \in U /\ c \in U
    BY DEF Marks, Numbers
  <1>2. a \in Seq(U)
    BY <1>1 DEF TscHead
  <1>3. Len(a) = 10
    BY DEF TscHead
  <1>4. a[1] = ".ts" /\ a[2] = "(" /\ a[3] = l /\ a[4] = Comma /\ a[5] = c
    BY DEF TscHead
  <1>5. a[6] = ")" /\ a[7] = ":" /\ a[8] = "sp" /\ a[9] = level /\ a[10] = "sp"
    BY DEF TscHead
  <1>6. b \in Seq(U)
    <2>1. CASE code = None
      <3>1. b = <<>>
        BY <2>1 DEF CodeHead
      <3> QED
        BY <3>1
    <2>2. CASE code # None
      <3>1. b = <<code, ":", "sp">> /\ code = "TS1"
        BY <2>2 DEF CodeHead
      <3>2. <<code, ":", "sp">> \in Seq(U)
        BY <1>1, <3>1
      <3> QED
        BY <3>1, <3>2
    <2> QED
      BY <2>1, <2>2
  <1>7. code = None => Len(b) = 0
    BY DEF CodeHead
  <1>8. code # None => Len(b) = 3 /\ b[1] = code /\ b[2] = ":" /\ b[3] = "sp"
    BY DEF CodeHead
  <1> HIDE DEF a, b
  <1>9. /\ h \in Seq(U) /\ Len(h) = Len(a) + Len(b)
        /\ \A i \in 1..Len(a) : h[i] = a[i]
        /\ \A i \in 1..Len(b) : h[Len(a) + i] = b[i]
    BY <1>2, <1>6, HeadWords
  <1>10. Len(b) \in Nat
    BY <1>6
  <1>11. h = TscHead(level, l, c) \o CodeHead(code)
    BY DEF a, b
  <1> HIDE DEF h
  <1>12. h[1] = a[1] /\ h[2] = a[2] /\ h[3] = a[3] /\ h[4] = a[4] /\ h[5] = a[5]
    BY <1>3, <1>9
  <1>13. h[6] = a[6] /\ h[7] = a[7] /\ h[8] = a[8] /\ h[9] = a[9] /\ h[10] = a[10]
    BY <1>3, <1>9
  <1>14. h \in Seq(U) /\ Len(h) >= 10
    BY <1>3, <1>9, <1>10
  <1>15. TscStart(h, level, l, c, U)
    BY <1>4, <1>5, <1>12, <1>13, <1>14 DEF TscStart
  <1>16. code = None => Len(h) = 10
    BY <1>3, <1>7, <1>9
  <1>17. ASSUME code # None
         PROVE  Len(h) = 13 /\ h[11] = code /\ h[12] = ":" /\ h[13] = "sp"
    <2>0. Len(b) = 3 /\ b[1] = code /\ b[2] = ":" /\ b[3] = "sp"
      BY <1>8, <1>17
    <2>1. h[10 + 1] = b[1] /\ h[10 + 2] = b[2] /\ h[10 + 3] = b[3]
      BY <1>3, <1>9, <2>0
    <2>2. Len(h) = 13
      BY <1>3, <1>9, <2>0
    <2> QED
      BY <2>0, <2>1, <2>2
  <1>18. TscHeaded(h, level, code, l, c, U)
    BY <1>15, <1>16, <1>17 DEF TscHeaded
  <1> QED
    BY <1>11, <1>18, Zenon

\* The position and the level are read, and the rest is left.
LEMMA TscStartRead ==
  ASSUME NEW U, Marks \subseteq U, NoneApart(U), NEW level \in {"error", "warning"}, NEW l \in Numbers, NEW c \in Numbers,
         NEW line, TscStart(line, level, l, c, U)
  PROVE  ParseTsc(line) = TscRest(level, ".ts", l, c, Drop(line, 10))
  <1> DEFINE open == SplitOnce(line, "(")
             close == SplitOnce(open.after, ")")
             coords == SplitOnce(close.before, Comma)
             word == SplitOnce(TrimStart(Drop(close.after, 1)), "sp")
             q == <<l, Comma, c>>
             d == Drop(line, 2)
             e == Drop(line, 8)
  <1>1. /\ line \in Seq(U) /\ Len(line) >= 10
        /\ line[1] = ".ts" /\ line[2] = "(" /\ line[3] = l /\ line[4] = Comma /\ line[5] = c /\ line[6] = ")"
        /\ line[7] = ":" /\ line[8] = "sp" /\ line[9] = level /\ line[10] = "sp"
    BY Zenon DEF TscStart
  <1> USE <1>1
  <1>0. Len(line) \in Nat
    OBVIOUS
  <1>2. \A k \in 0..Len(line) : /\ Drop(line, k) \in Seq(U) /\ Len(Drop(line, k)) = Len(line) - k
                                /\ \A i \in 1..Len(line) - k : Drop(line, k)[i] = line[k + i]
    BY DropFacts
  <1>3. open = [before |-> <<".ts">>, after |-> Drop(line, 2)]
    <2>1. 2 \in 1..Len(line) /\ (\A i \in 1..2 - 1 : line[i] # "(") /\ 2 - 1 = 1
      BY <1>0
    <2>2. open = [before |-> SubSeq(line, 1, 1), after |-> Drop(line, 2)]
      BY <2>1, SplitAt
    <2>3. SubSeq(line, 1, 1) = <<line[1]>>
      BY <1>0, FirstWords
    <2> QED
      BY <2>2, <2>3
  <1>4. open # None /\ open.before = <<".ts">> /\ open.after = d
    <2> DEFINE x == <<".ts">>
    <2>1. 2 \in 0..Len(line) /\ ".ts" \in U
      BY <1>0 DEF Marks
    <2>2. d \in Seq(U)
      BY <1>2, <2>1
    <2>3. x \in Seq(U)
      BY <2>1
    <2>4. open = [before |-> x, after |-> d]
      BY <1>3
    <2> HIDE DEF x, d, open
    <2>5. open \in [before : Seq(U), after : Seq(U)] /\ open.before = x /\ open.after = d
      BY <2>2, <2>3, <2>4
    <2>6. open # None
      BY <2>5 DEF NoneApart
    <2> QED
      BY <2>5, <2>6 DEF x
  <1>5. open.before # <<>> /\ ~Contains(open.before, "sp") /\ Last(open.before) = ".ts"
    <2>1. <<".ts">> # <<>> /\ ~Contains(<<".ts">>, "sp") /\ Last(<<".ts">>) = ".ts"
      BY DEF Contains, Last
    <2> QED
      BY <1>4, <2>1, Zenon
  <1>6. d \in Seq(U) /\ Len(d) = Len(line) - 2 /\ d[1] = l /\ d[2] = Comma /\ d[3] = c /\ d[4] = ")" /\ Drop(d, 4) = Drop(line, 6)
    <2>1. 2 \in 0..Len(line) /\ 4 \in 0..Len(line) - 2 /\ 2 + 4 = 6
      BY <1>0
    <2>2. d \in Seq(U) /\ Len(d) = Len(line) - 2 /\ \A i \in 1..Len(line) - 2 : d[i] = line[2 + i]
      BY <2>1, DropFacts
    <2>3. Drop(d, 4) = Drop(line, 6)
      BY <2>1, DropDrop
    <2> HIDE DEF d
    <2>4. d[1] = line[2 + 1] /\ d[2] = line[2 + 2] /\ d[3] = line[2 + 3] /\ d[4] = line[2 + 4]
      BY <1>0, <2>2
    <2> QED
      BY <2>2, <2>3, <2>4
  <1> HIDE DEF d
  <1>7. SplitOnce(d, ")") = [before |-> SubSeq(d, 1, 3), after |-> Drop(d, 4)]
    <2>1. l # ")" /\ c # ")" /\ Comma # ")"
      <3>1. l # ")" /\ c # ")"
        BY DEF Numbers
      <3>2. Comma # ")"
        BY Zenon DEF Comma
      <3> QED
        BY <3>1, <3>2
    <2>2. 4 \in 1..Len(d) /\ 4 - 1 = 3
      BY <1>0, <1>6
    <2>3. \A i \in 1..4 - 1 : d[i] # ")"
      <3>1. \A i \in 1..4 - 1 : i = 1 \/ i = 2 \/ i = 3
        OBVIOUS
      <3> QED
        BY <1>6, <2>1, <3>1
    <2>4. d \in Seq(U) /\ d[4] = ")"
      BY <1>6
    <2> QED
      BY <2>2, <2>3, <2>4, SplitAt
  <1>8. SubSeq(d, 1, 3) = q
    <2>1. Len(d) >= 3 /\ d \in Seq(U)
      BY <1>0, <1>6
    <2>2. SubSeq(d, 1, 3) = <<d[1], d[2], d[3]>>
      BY <2>1, FirstWords
    <2> QED
      BY <1>6, <2>2
  <1>9. q \in Seq(U)
    <2>1. l \in U /\ c \in U /\ Comma \in U
      BY DEF Marks, Numbers
    <2> QED
      BY <2>1
  <1>10. LET co == SplitOnce(q, Comma) IN
         co # None /\ Number(co.before) = l /\ Number(co.after) = c /\ l # None /\ c # None
    BY CoordsRead
  <1> HIDE DEF q
  <1>11. close # None /\ close.before = q /\ close.after = Drop(line, 6)
    <2> DEFINE x == Drop(line, 6)
               sp == SplitOnce(d, ")")
    <2>1. 6 \in 0..Len(line)
      BY <1>0
    <2>2. x \in Seq(U)
      BY <1>2, <2>1
    <2>3. sp = [before |-> q, after |-> x]
      BY <1>6, <1>7, <1>8
    <2>4. close = sp
      BY <1>4, Zenon
    <2> HIDE DEF x, sp, close
    <2>5. sp \in [before : Seq(U), after : Seq(U)] /\ sp.before = q /\ sp.after = x
      BY <1>9, <2>2, <2>3
    <2>6. sp # None
      BY <2>5 DEF NoneApart
    <2> QED
      BY <2>4, <2>5, <2>6 DEF x
  <1> HIDE DEF open, close
  <1>12. coords # None /\ Number(coords.before) = l /\ Number(coords.after) = c /\ l # None /\ c # None
    <2>1. coords = SplitOnce(q, Comma)
      BY <1>11, Zenon
    <2> QED
      BY <1>10, <2>1, Zenon
  <1>13. IsPrefix(<<":">>, close.after) /\ Drop(close.after, 1) = Drop(line, 7)
    <2> DEFINE x == Drop(line, 6)
    <2>1. 6 \in 0..Len(line) /\ 1 \in 1..Len(line) - 6 /\ 1 \in 0..Len(line) - 6 /\ 6 + 1 = 7
      BY <1>0
    <2>2. x \in Seq(U) /\ Len(x) = Len(line) - 6 /\ x[1] = line[6 + 1]
      BY <1>2, <2>1
    <2>3. Drop(x, 1) = Drop(line, 7)
      BY <2>1, DropDrop
    <2> HIDE DEF x
    <2>4. Len(x) >= 1 /\ x[1] = ":" /\ x \in Seq(U)
      BY <1>0, <2>2
    <2>5. ":" \in U
      BY DEF Marks
    <2>6. IsPrefix(<<":">>, x)
      BY <2>4, <2>5, PrefixWord
    <2>7. close.after = x
      BY <1>11 DEF x
    <2> QED
      BY <2>3, <2>6, <2>7, Zenon
  <1>14. TrimStart(Drop(line, 7)) = e
    <2> DEFINE x == Drop(line, 7)
    <2>1. 7 \in 0..Len(line) /\ 1 \in 1..Len(line) - 7 /\ 2 \in 1..Len(line) - 7 /\ 1 \in 0..Len(line) - 7 /\ 7 + 1 = 8
      BY <1>0
    <2>2. x \in Seq(U) /\ Len(x) = Len(line) - 7 /\ x[1] = line[7 + 1] /\ x[2] = line[7 + 2]
      BY <1>2, <2>1
    <2>3. Drop(x, 1) = e
      BY <2>1, DropDrop
    <2> HIDE DEF x, e
    <2>4. 1 \in 0..Len(x) - 1 /\ x[1 + 1] # "sp" /\ \A i \in 1..1 : x[i] = "sp"
      BY <1>0, <2>2
    <2>5. x \in Seq(U)
      BY <2>2
    <2>6. TrimStart(x) = Drop(x, 1)
      BY <2>4, <2>5, TrimStartFacts
    <2> QED
      BY <2>3, <2>6 DEF x
  <1>15. e \in Seq(U) /\ Len(e) = Len(line) - 8 /\ e[1] = level /\ e[2] = "sp" /\ Drop(e, 2) = Drop(line, 10)
    <2>1. 8 \in 0..Len(line) /\ 1 \in 1..Len(line) - 8 /\ 2 \in 1..Len(line) - 8 /\ 2 \in 0..Len(line) - 8 /\ 8 + 2 = 10
      BY <1>0
    <2>2. e \in Seq(U) /\ Len(e) = Len(line) - 8 /\ e[1] = line[8 + 1] /\ e[2] = line[8 + 2]
      BY <1>2, <2>1
    <2>3. Drop(e, 2) = Drop(line, 10)
      BY <2>1, DropDrop
    <2> HIDE DEF e
    <2> QED
      BY <2>2, <2>3
  <1> HIDE DEF e
  <1>16. SplitOnce(e, "sp") = [before |-> <<level>>, after |-> Drop(line, 10)]
    <2>1. 2 \in 1..Len(e) /\ (\A i \in 1..2 - 1 : e[i] # "sp") /\ 2 - 1 = 1
      BY <1>0, <1>15
    <2>2. e \in Seq(U) /\ e[2] = "sp" /\ Len(e) >= 1
      BY <1>0, <1>15
    <2>3. SplitOnce(e, "sp") = [before |-> SubSeq(e, 1, 1), after |-> Drop(e, 2)]
      BY <2>1, <2>2, SplitAt
    <2>4. SubSeq(e, 1, 1) = <<e[1]>>
      BY <2>2, FirstWords
    <2> QED
      BY <1>15, <2>3, <2>4, Zenon
  <1>17. word # None /\ word.before = <<level>> /\ word.after = Drop(line, 10)
    <2> DEFINE x == <<level>>
               y == Drop(line, 10)
    <2>1. 10 \in 0..Len(line) /\ level \in U
      BY <1>0 DEF Marks
    <2>2. y \in Seq(U)
      BY <1>2, <2>1
    <2>3. x \in Seq(U)
      BY <2>1
    <2>4. word = SplitOnce(e, "sp")
      BY <1>13, <1>14, Zenon
    <2>5. word = [before |-> x, after |-> y]
      BY <1>16, <2>4, Zenon
    <2> HIDE DEF x, y, word
    <2>6. word \in [before : Seq(U), after : Seq(U)] /\ word.before = x /\ word.after = y
      BY <2>2, <2>3, <2>5
    <2>7. word # None
      BY <2>6 DEF NoneApart
    <2> QED
      BY <2>6, <2>7 DEF x, y
  <1>18. word.before \in {<<"error">>, <<"warning">>} /\ word.before[1] = level
    <2>1. <<level>> \in {<<"error">>, <<"warning">>} /\ <<level>>[1] = level
      OBVIOUS
    <2> QED
      BY <1>17, <2>1, Zenon
  <1> HIDE DEF coords, word
  <1>19. ParseTsc(line) = TscRest(word.before[1], Last(open.before), Number(coords.before), Number(coords.after), word.after)
    <2>1. Number(coords.before) # None /\ Number(coords.after) # None /\ word.before \in {<<"error">>, <<"warning">>}
      BY <1>12, <1>18, Zenon
    <2> QED
      BY <1>4, <1>5, <1>11, <1>12, <1>13, <1>17, <2>1, Zenon DEF ParseTsc, TscRest, open, close, coords, word, Comma
  <1> QED
    BY <1>5, <1>12, <1>17, <1>18, <1>19, Zenon

\* tsc: the line is read as what was printed.
LEMMA TscRead ==
  ASSUME NEW U, Marks \subseteq U, NoneApart(U), NEW level \in {"error", "warning"}, NEW code \in {"TS1", None},
         NEW l \in Numbers, NEW c \in Numbers, NEW m, code = None => NoCode(m),
         NEW h, TscHeaded(h, level, code, l, c, U), NEW line, Headed(line, h, m, U)
  PROVE  ParseTsc(Trim(line)) = Diagnostic(level, code, ".ts", l, c, m)
  <1> DEFINE r == Drop(line, 10)
             split == SplitOnce(r, ":")
  <1>1. /\ TscStart(h, level, l, c, U)
        /\ code = None => Len(h) = 10
        /\ code # None => Len(h) = 13 /\ h[11] = code /\ h[12] = ":" /\ h[13] = "sp"
    BY Zenon DEF TscHeaded
  <1>2. /\ h \in Seq(U) /\ Len(h) >= 10
        /\ h[1] = ".ts" /\ h[2] = "(" /\ h[3] = l /\ h[4] = Comma /\ h[5] = c /\ h[6] = ")"
        /\ h[7] = ":" /\ h[8] = "sp" /\ h[9] = level /\ h[10] = "sp"
    BY <1>1, Zenon DEF TscStart
  <1>3. /\ line \in Seq(U) /\ Len(line) = Len(h) + Len(m) /\ Len(m) \in Nat \ {0} /\ m # <<>>
        /\ \A i \in 1..Len(h) : line[i] = h[i]
    BY Zenon DEF Headed, Bounded
  <1>4. h # <<>> /\ h[1] # "sp" /\ h[Len(h)] = "sp"
    <2>1. Len(h) # 0
      BY <1>2
    <2>2. h[Len(h)] = "sp"
      BY <1>1, <1>2
    <2> QED
      BY <1>2, <2>1, <2>2
  <1>5. Trim(line) = line /\ Trim(Drop(line, Len(h) - 1)) = m /\ Trim(m) = m
    BY <1>2, <1>4, HeadedFacts
  <1>6. Drop(line, Len(h)) = m
    BY Zenon DEF Headed
  <1>7. TscStart(line, level, l, c, U)
    <2>0. Len(h) \in Nat /\ Len(h) >= 10
      BY <1>2
    <2>1. \A i \in 1..10 : line[i] = h[i]
      BY <1>3, <2>0
    <2>2. line[1] = h[1] /\ line[2] = h[2] /\ line[3] = h[3] /\ line[4] = h[4] /\ line[5] = h[5]
      BY <2>1
    <2>3. line[6] = h[6] /\ line[7] = h[7] /\ line[8] = h[8] /\ line[9] = h[9] /\ line[10] = h[10]
      BY <2>1
    <2>4. line \in Seq(U) /\ Len(line) >= 10
      BY <1>3, <2>0
    <2> QED
      BY <1>2, <2>2, <2>3, <2>4, Zenon DEF TscStart
  <1>8. ParseTsc(line) = TscRest(level, ".ts", l, c, r)
    BY <1>7, TscStartRead
  <1>9. CASE code = None
    <2>1. r = m
      BY <1>1, <1>6, <1>9
    <2>2. ~(IF split = None THEN FALSE ELSE IsPrefix(<<"TS1">>, split.before))
      BY <1>9, <2>1, Zenon DEF NoCode
    <2>3. TscRest(level, ".ts", l, c, r) = Diagnostic(level, None, ".ts", l, c, m)
      BY <1>3, <1>5, <2>1, <2>2, Zenon DEF TscRest, split
    <2> QED
      BY <1>5, <1>8, <1>9, <2>3, Zenon
  <1>10. CASE code # None
    <2>1. Len(h) = 13 /\ h[11] = code /\ h[12] = ":" /\ h[13] = "sp" /\ code = "TS1"
      BY <1>1, <1>10
    <2>2. 10 \in 0..Len(line) /\ Len(line) \in Nat /\ Len(line) >= 13 /\ line[11] = code /\ line[12] = ":"
      BY <1>3, <2>1
    <2>3. r \in Seq(U) /\ Len(r) = Len(line) - 10 /\ \A i \in 1..Len(line) - 10 : r[i] = line[10 + i]
      <3>1. line \in Seq(U)
        BY <1>3
      <3> QED
        BY <2>2, <3>1, DropFacts
    <2>4. Drop(r, 2) = Drop(line, 12)
      <3>1. 2 \in 0..Len(line) - 10 /\ 10 + 2 = 12
        BY <2>2
      <3> QED
        BY <1>3, <2>2, <3>1, DropDrop
    <2> HIDE DEF r
    <2>5. r[1] = line[11] /\ r[2] = line[12]
      <3>1. 1 \in 1..Len(line) - 10 /\ 2 \in 1..Len(line) - 10 /\ 10 + 1 = 11 /\ 10 + 2 = 12
        BY <2>2
      <3>2. r[1] = line[10 + 1] /\ r[2] = line[10 + 2]
        BY <2>3, <3>1, Zenon
      <3> QED
        BY <3>1, <3>2
    <2>6. r \in Seq(U) /\ Len(r) >= 3 /\ r[1] = "TS1" /\ r[2] = ":"
      BY <2>1, <2>2, <2>3, <2>5
    <2>7. split = [before |-> <<"TS1">>, after |-> Drop(r, 2)]
      <3>1. 2 \in 1..Len(r) /\ (\A i \in 1..2 - 1 : r[i] # ":") /\ 2 - 1 = 1
        BY <2>6
      <3>2. split = [before |-> SubSeq(r, 1, 1), after |-> Drop(r, 2)]
        BY <2>6, <3>1, SplitAt
      <3>3. SubSeq(r, 1, 1) = <<r[1]>>
        BY <2>6, FirstWords
      <3> QED
        BY <2>6, <3>2, <3>3, Zenon
    <2>8. split # None /\ split.before = <<"TS1">> /\ split.after = Drop(r, 2)
      <3> DEFINE x == <<"TS1">>
                 y == Drop(r, 2)
      <3>1. "TS1" \in U /\ 2 \in 0..Len(r)
        BY <2>6 DEF Marks
      <3>2. x \in Seq(U)
        BY <3>1
      <3>3. y \in Seq(U)
        BY <2>6, <3>1, DropFacts
      <3>4. split = [before |-> x, after |-> y]
        BY <2>7
      <3> HIDE DEF x, y, split
      <3>5. split \in [before : Seq(U), after : Seq(U)] /\ split.before = x /\ split.after = y
        BY <3>2, <3>3, <3>4
      <3>6. split # None
        BY <3>5 DEF NoneApart
      <3> QED
        BY <3>5, <3>6 DEF x, y
    <2>9. IsPrefix(<<"TS1">>, split.before) /\ split.before[1] = "TS1"
      <3> DEFINE x == <<"TS1">>
      <3>1. x \in Seq({"TS1"})
        OBVIOUS
      <3>2. Len(x) >= 1 /\ x[1] = "TS1"
        OBVIOUS
      <3> HIDE DEF x
      <3>3. IsPrefix(<<"TS1">>, x)
        BY <3>1, <3>2, PrefixWord
      <3> QED
        BY <2>8, <3>2, <3>3, Zenon DEF x
    <2>10. Trim(split.after) = m
      <3>1. Len(h) - 1 = 12
        BY <2>1
      <3> QED
        BY <1>5, <2>4, <2>8, <3>1
    <2> HIDE DEF split
    <2>11. TscRest(level, ".ts", l, c, r) = Diagnostic(level, "TS1", ".ts", l, c, m)
      BY <1>3, <2>8, <2>9, <2>10, Zenon DEF TscRest, split
    <2> QED
      BY <1>5, <1>8, <2>1, <2>11, Zenon
  <1> QED
    BY <1>9, <1>10

\* cargo: what it prints of a diagnostic, and what the parser makes of a line.
CargoSpans(l, c) == <<[is_primary |-> FALSE, line |-> "1", column |-> "1"], [is_primary |-> TRUE, line |-> l, column |-> c]>>
PrintedCode(code) == IF code = None THEN Blank ELSE code
CargoMessage(level, code, l, c, m) == [level |-> level, code |-> PrintedCode(code), message |-> m, spans |-> CargoSpans(l, c)]
CargoRecord(level, code, l, c, m) == [reason |-> "compiler-message", message |-> CargoMessage(level, code, l, c, m)]
CargoLine(json) ==
  IF json = None THEN None
  ELSE IF json.reason # "compiler-message" \/ json.message = None THEN None
  ELSE diagnostic_from_cargo_message(json.message)

\* The primary span is the second one.
LEMMA PrimaryRead ==
  ASSUME NEW l, NEW c
  PROVE  First(CargoSpans(l, c), LAMBDA s : s.is_primary) = CargoSpans(l, c)[2]
  <1> DEFINE spans == CargoSpans(l, c)
             I == {i \in 1..Len(spans) : spans[i].is_primary}
             sel == IF I # {} THEN Min(I) ELSE 0
  <1>1. Len(spans) = 2 /\ ~spans[1].is_primary /\ spans[2].is_primary
    BY DEF CargoSpans
  <1> HIDE DEF spans
  <1>2. I \in SUBSET (1..2) /\ 2 \in I /\ \A i \in I : 2 <= i
    <2>1. \A i : i \in 1..2 <=> i = 1 \/ i = 2
      OBVIOUS
    <2> QED
      BY <1>1, <2>1
  <1>3. SelectInSeq(spans, LAMBDA s : s.is_primary) = sel
    BY DEF SelectInSeq
  <1> HIDE DEF I
  <1>4. Min(I) = 2
    BY <1>2, FirstPlace
  <1>5. sel = 2
    BY <1>2, <1>4
  <1> HIDE DEF sel
  <1>6. First(spans, LAMBDA s : s.is_primary) = IF sel = 0 THEN None ELSE spans[sel]
    BY <1>3, Zenon DEF First
  <1> QED
    BY <1>5, <1>6 DEF spans

\* cargo: the record is read as what was printed.
LEMMA CargoRead ==
  ASSUME NEW U, Marks \subseteq U, NoneApart(U), NEW level \in U, NEW code \in U \cup {None}, code # Blank,
         NEW l \in U, NEW c \in U, NEW m \in Seq(U)
  PROVE  CargoLine(CargoRecord(level, code, l, c, m)) = Diagnostic(level, code, ".rs", l, c, m)
  <1> DEFINE spans == CargoSpans(l, c)
             message == CargoMessage(level, code, l, c, m)
             record == CargoRecord(level, code, l, c, m)
  <1>0. "1" \in U /\ None \notin U
    BY DEF Marks, NoneApart
  <1>1. spans[2] = [is_primary |-> TRUE, line |-> l, column |-> c] /\ spans \in Seq(Spans(U))
    <2>1. [is_primary |-> TRUE, line |-> l, column |-> c] \in Spans(U)
      BY DEF Spans
    <2>2. [is_primary |-> FALSE, line |-> "1", column |-> "1"] \in Spans(U)
      BY <1>0 DEF Spans
    <2>3. \A a, b : a \in Spans(U) /\ b \in Spans(U) => <<a, b>> \in Seq(Spans(U)) /\ <<a, b>>[2] = b
      OBVIOUS
    <2> QED
      BY <2>1, <2>2, <2>3, Zenon DEF CargoSpans
  <1>2. spans[2] # None /\ spans[2].line = l /\ spans[2].column = c
    <2>1. spans[2] \in Spans(U)
      BY <1>1 DEF Spans
    <2>2. spans[2] # None
      BY <2>1 DEF NoneApart
    <2> QED
      BY <1>1, <2>2
  <1>3. PrintedCode(code) \in U \cup {Blank}
    BY DEF PrintedCode
  <1>4. (IF PrintedCode(code) = Blank THEN None ELSE PrintedCode(code)) = code
    BY DEF PrintedCode
  <1>5. First(spans, LAMBDA s : s.is_primary) = spans[2]
    BY PrimaryRead
  <1> HIDE DEF spans
  <1>6. message = [level |-> level, code |-> PrintedCode(code), message |-> m, spans |-> spans]
    BY Zenon DEF CargoMessage, spans
  <1>7. message \in CargoMessages(U)
    <2> DEFINE pc == PrintedCode(code)
    <2>1. pc \in U \cup {Blank} /\ message = [level |-> level, code |-> pc, message |-> m, spans |-> spans]
      BY <1>3, <1>6
    <2> HIDE DEF pc, message
    <2> QED
      BY <1>1, <2>1 DEF CargoMessages
  <1>8. message.level = level /\ message.code = PrintedCode(code) /\ message.message = m /\ message.spans = spans
    BY <1>6
  <1> HIDE DEF message
  <1>9. message # None
    BY <1>7 DEF NoneApart
  <1>10. record = [reason |-> "compiler-message", message |-> message]
    BY Zenon DEF CargoRecord, message
  <1>11. record # None /\ record.reason = "compiler-message" /\ record.message = message
    <2> HIDE DEF record
    <2>1. record \in CargoRecords(U)
      BY <1>7, <1>10 DEF CargoRecords
    <2>2. record # None
      BY <2>1 DEF NoneApart
    <2> QED
      BY <1>10, <2>2
  <1> HIDE DEF record
  <1>12. CargoLine(record) = diagnostic_from_cargo_message(message)
    BY <1>9, <1>11, Zenon DEF CargoLine
  <1>13. First(message.spans, LAMBDA s : s.is_primary) = spans[2]
    BY <1>5, <1>8, Zenon
  <1>14. diagnostic_from_cargo_message(message) =
           Diagnostic(message.level, IF message.code = Blank THEN None ELSE message.code, ".rs", spans[2].line, spans[2].column, message.message)
    BY <1>2, <1>13, Zenon DEF diagnostic_from_cargo_message, Blank
  <1>15. (IF message.code = Blank THEN None ELSE message.code) = code
    BY <1>4, <1>8, Zenon
  <1>16. diagnostic_from_cargo_message(message) = Diagnostic(level, code, ".rs", l, c, m)
    BY <1>2, <1>8, <1>14, <1>15, Zenon
  <1> QED
    BY <1>12, <1>16 DEF record

\* The elements that are not None.
Somes(v) == FlattenSeq([i \in DOMAIN v |-> IF v[i] # None THEN <<v[i]>> ELSE <<>>])

\* What the parsers find in the lines, one by one.
LEMMA Parsers ==
  ASSUME NEW lines
  PROVE  /\ parse_diagnostics("rust", lines) = Somes([i \in DOMAIN lines |-> CargoLine(lines[i].json)])
         /\ parse_diagnostics("java-maven", lines) = Somes([i \in DOMAIN lines |-> MavenLine(Trim(lines[i].text))])
         /\ parse_diagnostics("java-gradle", lines) = Somes([i \in DOMAIN lines |-> parse_one(Trim(lines[i].text), {".java"}, TRUE)])
         /\ parse_diagnostics("node", lines) = Somes([i \in DOMAIN lines |-> ParseTsc(Trim(lines[i].text))])
         /\ parse_diagnostics("go", lines) = Somes([i \in DOMAIN lines |-> parse_one(Trim(lines[i].text), {".go"}, FALSE)])
         /\ parse_diagnostics("cpp", lines) = Somes([i \in DOMAIN lines |-> parse_one(Trim(lines[i].text), {".c", ".h"}, TRUE)])
         /\ parse_diagnostics("python", lines) = parse_python_diagnostics(lines)
  <1>1. parse_diagnostics("rust", lines) = Somes([i \in DOMAIN lines |-> CargoLine(lines[i].json)])
    BY Zenon DEF parse_diagnostics, parse_cargo_json_messages, Mapped, Kept, Somes, CargoLine
  <1>2. parse_diagnostics("java-maven", lines) = Somes([i \in DOMAIN lines |-> MavenLine(Trim(lines[i].text))])
    BY Zenon DEF parse_diagnostics, parse_maven_diagnostics, Mapped, Kept, Somes, MavenLine
  <1>3. parse_diagnostics("java-gradle", lines) = Somes([i \in DOMAIN lines |-> parse_one(Trim(lines[i].text), {".java"}, TRUE)])
    BY Zenon DEF parse_diagnostics, parse_colon_diagnostics, Mapped, Kept, Somes
  <1>4. parse_diagnostics("node", lines) = Somes([i \in DOMAIN lines |-> ParseTsc(Trim(lines[i].text))])
    BY Zenon DEF parse_diagnostics, parse_tsc_diagnostics, Mapped, Kept, Somes
  <1>5. parse_diagnostics("go", lines) = Somes([i \in DOMAIN lines |-> parse_one(Trim(lines[i].text), {".go"}, FALSE)])
    BY Zenon DEF parse_diagnostics, parse_colon_diagnostics, Mapped, Kept, Somes
  <1>6. parse_diagnostics("cpp", lines) = Somes([i \in DOMAIN lines |-> parse_one(Trim(lines[i].text), {".c", ".h"}, TRUE)])
    BY Zenon DEF parse_diagnostics, parse_colon_diagnostics, Mapped, Kept, Somes
  <1>7. parse_diagnostics("python", lines) = parse_python_diagnostics(lines)
    BY Zenon DEF parse_diagnostics
  <1> QED
    BY <1>1, <1>2, <1>3, <1>4, <1>5, <1>6, <1>7

\* What the Python parser finds: the lines of the colon format that are no frames of
\* pytest, and the tracebacks.
LEMMA PythonParser ==
  ASSUME NEW lines
  PROVE  parse_python_diagnostics(lines) =
           (LET v == Somes([i \in DOMAIN lines |-> parse_one(Trim(lines[i].text), {".py"}, FALSE)]) IN
            FlattenSeq([i \in DOMAIN v |-> IF ~IsPrefix(<<"in", "sp">>, v[i].message) THEN <<v[i]>> ELSE <<>>]))
             \o Traceback(lines)
  BY Zenon DEF parse_python_diagnostics, parse_colon_diagnostics, Mapped, Kept, Somes

\* The arguments before those of the program.
OwnArguments(cmd) ==
  LET sep == SelectInSeq(cmd, LAMBDA w : w = "--") IN IF sep = 0 THEN cmd ELSE SubSeq(cmd, 1, sep - 1)

\* What is printed, by the heads of the lines.
LEMMA PrintedAs ==
  ASSUME NEW p, NEW cmd, NEW d
  PROVE  /\ p.id = "rust" /\ Contains(OwnArguments(cmd), "--message-format") =>
              Printed(p, cmd, d) = [json |-> CargoRecord(d.level, d.code, d.line, d.column, d.message), text |-> d.message]
         /\ p.id = "java-maven" /\ d.file = ".java" =>
              Printed(p, cmd, d) = Text(MavenHead(d.level, d.line, d.column) \o d.message)
         /\ p.id = "node" /\ d.file = ".ts" =>
              Printed(p, cmd, d) = Text((TscHead(d.level, d.line, d.column) \o CodeHead(d.code)) \o d.message)
         /\ p.id = "go" => Printed(p, cmd, d) = Text(GoHead(d.file, d.line, d.column) \o d.message)
         /\ p.id \in {"java-gradle", "python", "cpp"} =>
              Printed(p, cmd, d) = Text(ColonHead(d.file, d.line, d.column, d.level) \o d.message)
  <1>1. p.id = "rust" /\ Contains(OwnArguments(cmd), "--message-format") =>
          Printed(p, cmd, d) = [json |-> CargoRecord(d.level, d.code, d.line, d.column, d.message), text |-> d.message]
    BY Zenon DEF Printed, OwnArguments, CargoRecord, CargoMessage, CargoSpans, PrintedCode, Blank
  <1>2. p.id = "java-maven" /\ d.file = ".java" =>
          Printed(p, cmd, d) = Text(MavenHead(d.level, d.line, d.column) \o d.message)
    BY Zenon DEF Printed, Comma, MavenHead, MavenTag
  <1>3. p.id = "node" /\ d.file = ".ts" =>
          Printed(p, cmd, d) = Text((TscHead(d.level, d.line, d.column) \o CodeHead(d.code)) \o d.message)
    BY Zenon DEF Printed, Comma, TscHead, CodeHead
  <1>4. p.id = "go" => Printed(p, cmd, d) = Text(GoHead(d.file, d.line, d.column) \o d.message)
    BY Zenon DEF Printed, GoHead, ColumnWords
  <1>5. p.id \in {"java-gradle", "python", "cpp"} =>
          Printed(p, cmd, d) = Text(ColonHead(d.file, d.line, d.column, d.level) \o d.message)
    BY Zenon DEF Printed, ColonHead, ColumnWords
  <1> QED
    BY <1>1, <1>2, <1>3, <1>4, <1>5

-----------------------------------------------------------------------------
(* filter_map and retain, by one more element *)

\* One more piece is put behind the others: by induction on their number.
LEMMA FlattenAppend ==
  ASSUME NEW S, NEW seqs \in Seq(Seq(S)), NEW x \in Seq(S)
  PROVE  FlattenSeq(Append(seqs, x)) = FlattenSeq(seqs) \o x
  <1> DEFINE n == Len(seqs)
             more == Append(seqs, x)
  <1>1. /\ n \in Nat /\ more \in Seq(Seq(S)) /\ Len(more) = n + 1
        /\ \A i \in 1..n : more[i] = seqs[i]
    OBVIOUS
  <1>2. more[n + 1] = x
    OBVIOUS
  <1> HIDE DEF more
  <1>3. PICK g : Flattening(more, g, n + 1) /\ FlattenSeq(more) = g[n + 1]
    <2>1. Len(more) # 0
      BY <1>1
    <2> QED
      BY <1>1, <2>1, FlattenIsLast
  <1>4. \A i \in 1..n + 1 : g[i] = IF i = 1 THEN more[i] ELSE g[i - 1] \o more[i]
    BY <1>3 DEF Flattening
  <1>5. CASE n = 0
    <2>1. seqs = <<>>
      BY <1>5, EmptySeq
    <2>2. FlattenSeq(seqs) = <<>>
      BY <2>1 DEF FlattenSeq
    <2>3. g[1] = x
      BY <1>2, <1>4, <1>5
    <2>4. <<>> \o x = x
      OBVIOUS
    <2> QED
      BY <1>3, <1>5, <2>2, <2>3, <2>4 DEF more
  <1>6. CASE n # 0
    <2>1. PICK f : Flattening(seqs, f, n) /\ FlattenSeq(seqs) = f[n]
      BY <1>6, FlattenIsLast
    <2>2. \A i \in 1..n : f[i] = IF i = 1 THEN seqs[i] ELSE f[i - 1] \o seqs[i]
      BY <2>1 DEF Flattening
    <2> DEFINE T == {k \in Nat : k \in 1..n => f[k] = g[k]}
    <2>3. 0 \in T
      OBVIOUS
    <2>4. ASSUME NEW k \in T
          PROVE  k + 1 \in T
      <3>1. SUFFICES ASSUME k + 1 \in 1..n
                     PROVE  f[k + 1] = g[k + 1]
        OBVIOUS
      <3>2. k \in Nat /\ (k + 1) - 1 = k /\ k + 1 \in 1..n + 1 /\ more[k + 1] = seqs[k + 1]
        BY <1>1, <3>1
      <3>3. CASE k = 0
        BY <1>4, <2>2, <3>1, <3>2, <3>3
      <3>4. CASE k # 0
        <4>1. k \in 1..n /\ k + 1 # 1
          BY <1>1, <3>1, <3>2, <3>4
        <4>2. f[k] = g[k]
          BY <4>1
        <4>3. f[k + 1] = f[k] \o seqs[k + 1]
          BY <2>2, <3>1, <3>2, <4>1
        <4>4. g[k + 1] = g[k] \o more[k + 1]
          BY <1>4, <3>2, <4>1
        <4> QED
          BY <3>2, <4>2, <4>3, <4>4
      <3> QED
        BY <3>3, <3>4
    <2>5. T = Nat
      <3> HIDE DEF T
      <3>1. T \in SUBSET Nat
        BY DEF T
      <3> QED
        BY <2>3, <2>4, <3>1, SetInduction
    <2>6. n \in 1..n /\ n + 1 \in 1..n + 1 /\ n + 1 # 1 /\ (n + 1) - 1 = n
      BY <1>1, <1>6
    <2>7. f[n] = g[n]
      <3>1. \A k \in T : k \in 1..n => f[k] = g[k]
        OBVIOUS
      <3> HIDE DEF T
      <3> QED
        BY <1>1, <2>5, <2>6, <3>1
    <2>8. g[n + 1] = g[n] \o more[n + 1]
      BY <1>4, <2>6
    <2> QED
      BY <1>2, <1>3, <2>1, <2>7, <2>8, Zenon DEF more
  <1> QED
    BY <1>5, <1>6

\* One more element: it is kept or not.
LEMMA PassingAppend ==
  ASSUME NEW S, NEW s \in Seq(S), NEW x \in S, NEW P
  PROVE  Passing(Append(s, x), P) = Passing(s, P) \o (IF x \in P THEN <<x>> ELSE <<>>)
  <1> DEFINE t == Append(s, x)
             n == Len(s)
             a == [i \in DOMAIN s |-> IF s[i] \in P THEN <<s[i]>> ELSE <<>>]
             b == [i \in DOMAIN t |-> IF t[i] \in P THEN <<t[i]>> ELSE <<>>]
             y == IF x \in P THEN <<x>> ELSE <<>>
  <1>1. /\ n \in Nat /\ t \in Seq(S) /\ Len(t) = n + 1 /\ DOMAIN t = 1..n + 1 /\ DOMAIN s = 1..n
        /\ \A i \in 1..n : t[i] = s[i] /\ s[i] \in S
    OBVIOUS
  <1>2. t[n + 1] = x
    OBVIOUS
  <1> HIDE DEF t, n
  <1>3. y \in Seq(S)
    OBVIOUS
  <1>4. a \in Seq(Seq(S)) /\ Len(a) = n /\ \A i \in 1..n : a[i] = IF s[i] \in P THEN <<s[i]>> ELSE <<>>
    BY <1>1
  <1>5. b \in Seq(Seq(S)) /\ Len(b) = n + 1 /\ \A i \in 1..n + 1 : b[i] = IF t[i] \in P THEN <<t[i]>> ELSE <<>>
    <2>1. \A i \in 1..n + 1 : t[i] \in S
      BY <1>1
    <2> QED
      BY <1>1, <2>1
  <1> HIDE DEF a, b, y
  <1>6. b = Append(a, y)
    <2> DEFINE c == Append(a, y)
    <2>1. c \in Seq(Seq(S)) /\ Len(c) = n + 1 /\ \A i \in 1..n : c[i] = a[i]
      BY <1>1, <1>3, <1>4
    <2>2. c[n + 1] = y
      BY <1>1, <1>3, <1>4
    <2> HIDE DEF c
    <2>3. ASSUME NEW i \in 1..n + 1
          PROVE  b[i] = c[i]
      <3>1. CASE i = n + 1
        BY <1>2, <1>5, <2>2, <3>1 DEF y
      <3>2. CASE i # n + 1
        <4>1. i \in 1..n
          BY <1>1, <3>2
        <4> QED
          BY <1>1, <1>4, <1>5, <2>1, <4>1
      <3> QED
        BY <3>1, <3>2
    <2>4. Len(b) = Len(c) /\ \A i \in 1..Len(b) : b[i] = c[i]
      BY <1>5, <2>1, <2>3
    <2> QED
      BY <1>5, <2>1, <2>4, SeqEqual DEF c
  <1>7. FlattenSeq(Append(a, y)) = FlattenSeq(a) \o y
    BY <1>3, <1>4, FlattenAppend
  <1> QED
    BY <1>6, <1>7, Zenon DEF Passing, a, b, y, t

\* Two filters are one.
LEMMA PassingTwice ==
  ASSUME NEW S, NEW s \in Seq(S), NEW P, NEW Q
  PROVE  Passing(Passing(s, P), Q) = Passing(s, P \cap Q)
  <1> DEFINE Same(r) == Passing(Passing(r, P), Q) = Passing(r, P \cap Q)
             T == {n \in Nat : \A r \in Seq(S) : Len(r) = n => Same(r)}
  <1>0. \A R : Passing(<<>>, R) = <<>>
    BY DEF Passing, FlattenSeq
  <1>1. 0 \in T
    <2>1. \A r \in Seq(S) : Len(r) = 0 => r = <<>>
      OBVIOUS
    <2>2. Same(<<>>)
      BY <1>0, Zenon
    <2> HIDE DEF Same
    <2> QED
      BY <2>1, <2>2
  <1>2. ASSUME NEW n \in T
        PROVE  n + 1 \in T
    <2> HIDE DEF Same
    <2> SUFFICES ASSUME NEW r \in Seq(S), Len(r) = n + 1
                 PROVE  Same(r)
      OBVIOUS
    <2> DEFINE a == SubSeq(r, 1, n)
               x == r[n + 1]
               k == Passing(a, P)
               one(R) == IF x \in R THEN <<x>> ELSE <<>>
    <2>1. n \in Nat /\ a \in Seq(S) /\ Len(a) = n /\ x \in S
      OBVIOUS
    <2>2. r = Append(a, x)
      OBVIOUS
    <2>3. Passing(k, Q) = Passing(a, P \cap Q)
      <3>1. Same(a)
        BY <2>1
      <3> QED
        BY <3>1, Zenon DEF Same
    <2> HIDE DEF a, x, T
    <2>4. k \in Seq(S)
      BY <2>1, KeptFacts
    <2>5. Passing(r, P) = k \o one(P)
      BY <2>1, <2>2, PassingAppend
    <2>6. Passing(r, P \cap Q) = Passing(a, P \cap Q) \o one(P \cap Q)
      BY <2>1, <2>2, PassingAppend
    <2>9. Passing(k, Q) \in Seq(S)
      BY <2>4, KeptFacts
    <2> HIDE DEF k
    <2>7. CASE x \in P
      <3>1. Passing(r, P) = Append(k, x)
        BY <2>1, <2>4, <2>5, <2>7
      <3>2. Passing(Append(k, x), Q) = Passing(k, Q) \o one(Q)
        BY <2>1, <2>4, PassingAppend
      <3>3. one(Q) = one(P \cap Q)
        BY <2>7
      <3> QED
        BY <2>3, <2>6, <3>1, <3>2, <3>3, Zenon DEF Same
    <2>8. CASE x \notin P
      <3>1. one(P) = <<>> /\ one(P \cap Q) = <<>>
        BY <2>8
      <3>2. k \o <<>> = k /\ Passing(k, Q) \o <<>> = Passing(k, Q)
        BY <2>4, <2>9
      <3> QED
        BY <2>3, <2>5, <2>6, <3>1, <3>2, Zenon DEF Same
    <2> QED
      BY <2>7, <2>8
  <1>3. T = Nat
    <2> HIDE DEF T, Same
    <2>1. T \in SUBSET Nat
      BY DEF T
    <2> QED
      BY <1>1, <1>2, <2>1, SetInduction
  <1> HIDE DEF Same
  <1>4. \A n \in T : \A r \in Seq(S) : Len(r) = n => Same(r)
    OBVIOUS
  <1> HIDE DEF T
  <1>5. Len(s) \in Nat
    OBVIOUS
  <1>6. Same(s)
    BY <1>3, <1>4, <1>5
  <1> QED
    BY <1>6, Zenon DEF Same

-----------------------------------------------------------------------------
(* The lines of a tool's output, one by one *)

\* What the parser of a plugin makes of one line.
MypyDiagnostic(line) ==
  LET d == parse_one(line, {".py"}, FALSE) IN
  IF d = None THEN None ELSE IF IsPrefix(<<"in", "sp">>, d.message) THEN None ELSE d
Reader(id, l) ==
  CASE id = "rust"        -> CargoLine(l.json)
    [] id = "java-maven"  -> MavenLine(Trim(l.text))
    [] id = "java-gradle" -> parse_one(Trim(l.text), {".java"}, TRUE)
    [] id = "node"        -> ParseTsc(Trim(l.text))
    [] id = "python"      -> MypyDiagnostic(Trim(l.text))
    [] id = "go"          -> parse_one(Trim(l.text), {".go"}, FALSE)
    [] id = "cpp"         -> parse_one(Trim(l.text), {".c", ".h"}, TRUE)

\* What tools print: a rustc diagnostic may have any level, code and message.
LineMessages(U) == {m \in Seq(U) : Bounded(m)}
Reported(levels, codes, files, columns, messages) ==
  [level : levels, code : codes, file : files, line : Numbers, column : columns, message : messages]
PrintedByCargo(U) == [level : U, code : (U \cup {None}) \ {Blank}, file : {".rs"}, line : U, column : U, message : Seq(U)]
PrintedBy(id, U) ==
  CASE id = "rust"        -> PrintedByCargo(U)
    [] id = "java-maven"  -> Reported({"error", "warning"}, {None}, {".java"}, Numbers, LineMessages(U))
    [] id = "java-gradle" -> Reported({"error", "warning", "note"}, {None}, {".java"}, Numbers \cup {None}, LineMessages(U))
    [] id = "node"        -> {d \in Reported({"error", "warning"}, {"TS1", None}, {".ts"}, Numbers, LineMessages(U)) :
                                d.code = None => NoCode(d.message)}
    [] id = "python"      -> {d \in Reported({"error", "warning", "note"}, {None}, {".py"}, Numbers \cup {None}, LineMessages(U)) :
                                ~IsPrefix(<<"in", "sp">>, d.message)}
    [] id = "go"          -> {d \in Reported({"error"}, {None}, {".go"}, Numbers \cup {None}, LineMessages(U)) : NoLevel(d.message)}
    [] id = "cpp"         -> Reported({"error", "warning", "note"}, {None}, {".c", ".h"}, Numbers \cup {None}, LineMessages(U))

\* A diagnostic of the other tools by its fields.
LEMMA ReportedFields ==
  ASSUME NEW levels, NEW codes, NEW files, NEW columns, NEW messages, NEW d \in Reported(levels, codes, files, columns, messages)
  PROVE  \E level \in levels, code \in codes, file \in files, l \in Numbers, c \in columns, m \in messages :
           d = Diagnostic(level, code, file, l, c, m)
  <1>1. /\ d.level \in levels /\ d.code \in codes /\ d.file \in files /\ d.line \in Numbers /\ d.column \in columns
        /\ d.message \in messages
    BY DEF Reported
  <1>2. d = Diagnostic(d.level, d.code, d.file, d.line, d.column, d.message)
    BY DEF Reported, Diagnostic
  <1> QED
    BY <1>1, <1>2, Zenon

\* A diagnostic of cargo by its fields.
LEMMA CargoFields ==
  ASSUME NEW U, NEW d \in PrintedByCargo(U)
  PROVE  \E level \in U, code \in U \cup {None}, l \in U, c \in U, m \in Seq(U) :
           code # Blank /\ d = Diagnostic(level, code, ".rs", l, c, m)
  <1>1. /\ d.level \in U /\ d.code \in U \cup {None} /\ d.code # Blank /\ d.line \in U /\ d.column \in U
        /\ d.message \in Seq(U)
    BY DEF PrintedByCargo
  <1>2. d = Diagnostic(d.level, d.code, ".rs", d.line, d.column, d.message)
    BY DEF PrintedByCargo, Diagnostic
  <1> QED
    BY <1>1, <1>2, Zenon

\* Each tool's line is read as what was printed: a line of cargo.
LEMMA RustPrinted ==
  ASSUME NEW U, Marks \subseteq U, NoneApart(U), NEW p, p.id = "rust", NEW cmd, Contains(OwnArguments(cmd), "--message-format"),
         NEW d \in PrintedBy("rust", U)
  PROVE  Reader("rust", Printed(p, cmd, d)) = d
  <1>1. d \in PrintedByCargo(U)
    BY Zenon DEF PrintedBy
  <1>2. PICK level \in U, code \in U \cup {None}, l \in U, c \in U, m \in Seq(U) :
          code # Blank /\ d = Diagnostic(level, code, ".rs", l, c, m)
    BY <1>1, CargoFields
  <1>3. d.level = level /\ d.code = code /\ d.line = l /\ d.column = c /\ d.message = m
    BY <1>2 DEF Diagnostic
  <1> DEFINE record == CargoRecord(level, code, l, c, m)
  <1>4. CargoLine(record) = Diagnostic(level, code, ".rs", l, c, m)
    BY <1>2, CargoRead
  <1>5. Printed(p, cmd, d) = [json |-> record, text |-> m]
    BY <1>3, PrintedAs, Zenon
  <1> HIDE DEF record
  <1>6. Printed(p, cmd, d).json = record
    BY <1>5
  <1>7. Reader("rust", Printed(p, cmd, d)) = CargoLine(record)
    BY <1>6, Zenon DEF Reader
  <1> QED
    BY <1>2, <1>4, <1>7, Zenon

\* A line of Maven.
LEMMA MavenPrinted ==
  ASSUME NEW U, Marks \subseteq U, NoneApart(U), NEW p, p.id = "java-maven", NEW cmd, NEW d \in PrintedBy("java-maven", U)
  PROVE  Reader("java-maven", Printed(p, cmd, d)) = d
  <1>1. d \in Reported({"error", "warning"}, {None}, {".java"}, Numbers, LineMessages(U))
    BY Zenon DEF PrintedBy
  <1>2. PICK level \in {"error", "warning"}, code \in {None}, file \in {".java"}, l \in Numbers, c \in Numbers, m \in LineMessages(U) :
          d = Diagnostic(level, code, file, l, c, m)
    BY <1>1, ReportedFields
  <1>3. d.level = level /\ d.code = code /\ d.file = file /\ d.line = l /\ d.column = c /\ d.message = m
    BY <1>2 DEF Diagnostic
  <1>4. code = None /\ file = ".java" /\ m \in Seq(U) /\ Bounded(m)
    BY DEF LineMessages
  <1> DEFINE h == MavenHead(level, l, c)
             line == h \o m
  <1>5. MavenHeaded(h, level, l, c, U)
    BY MavenHeadWords
  <1>6. h \in Seq(U)
    BY <1>5, Zenon DEF MavenHeaded
  <1>7. Printed(p, cmd, d) = Text(line)
    BY <1>3, <1>4, PrintedAs, Zenon
  <1> HIDE DEF h
  <1>8. Headed(line, h, m, U)
    BY <1>4, <1>6, HeadedLine
  <1> HIDE DEF line
  <1>9. MavenLine(Trim(line)) = Diagnostic(level, None, ".java", l, c, m)
    BY <1>5, <1>8, MavenRead
  <1>10. Text(line).text = line
    BY DEF Text
  <1>11. Reader("java-maven", Printed(p, cmd, d)) = MavenLine(Trim(line))
    BY <1>7, <1>10, Zenon DEF Reader
  <1> QED
    BY <1>2, <1>4, <1>9, <1>11, Zenon

\* A line of tsc.
LEMMA NodePrinted ==
  ASSUME NEW U, Marks \subseteq U, NoneApart(U), NEW p, p.id = "node", NEW cmd, NEW d \in PrintedBy("node", U)
  PROVE  Reader("node", Printed(p, cmd, d)) = d
  <1>1. d \in Reported({"error", "warning"}, {"TS1", None}, {".ts"}, Numbers, LineMessages(U)) /\ (d.code = None => NoCode(d.message))
    BY Zenon DEF PrintedBy
  <1>2. PICK level \in {"error", "warning"}, code \in {"TS1", None}, file \in {".ts"}, l \in Numbers, c \in Numbers, m \in LineMessages(U) :
          d = Diagnostic(level, code, file, l, c, m)
    BY <1>1, ReportedFields
  <1>3. d.level = level /\ d.code = code /\ d.file = file /\ d.line = l /\ d.column = c /\ d.message = m
    BY <1>2 DEF Diagnostic
  <1>4. file = ".ts" /\ m \in Seq(U) /\ Bounded(m)
    BY DEF LineMessages
  <1>12. code = None => NoCode(m)
    BY <1>1, <1>3, Zenon
  <1> DEFINE h == TscHead(level, l, c) \o CodeHead(code)
             line == h \o m
  <1>5. TscHeaded(h, level, code, l, c, U)
    BY TscHeadWords
  <1>6. h \in Seq(U)
    BY <1>5, Zenon DEF TscHeaded, TscStart
  <1>7. Printed(p, cmd, d) = Text(line)
    BY <1>3, <1>4, PrintedAs, Zenon
  <1> HIDE DEF h
  <1>8. Headed(line, h, m, U)
    BY <1>4, <1>6, HeadedLine
  <1> HIDE DEF line
  <1>9. ParseTsc(Trim(line)) = Diagnostic(level, code, ".ts", l, c, m)
    BY <1>5, <1>8, <1>12, TscRead
  <1>10. Text(line).text = line
    BY DEF Text
  <1>11. Reader("node", Printed(p, cmd, d)) = ParseTsc(Trim(line))
    BY <1>7, <1>10, Zenon DEF Reader
  <1> QED
    BY <1>2, <1>4, <1>9, <1>11, Zenon

\* A line of go.
LEMMA GoPrinted ==
  ASSUME NEW U, Marks \subseteq U, NoneApart(U), NEW p, p.id = "go", NEW cmd, NEW d \in PrintedBy("go", U)
  PROVE  Reader("go", Printed(p, cmd, d)) = d
  <1> DEFINE exts == {".go"}
  <1>1. d \in Reported({"error"}, {None}, {".go"}, Numbers \cup {None}, LineMessages(U)) /\ NoLevel(d.message)
    BY Zenon DEF PrintedBy
  <1>2. PICK level \in {"error"}, code \in {None}, file \in {".go"}, l \in Numbers, c \in Numbers \cup {None}, m \in LineMessages(U) :
          d = Diagnostic(level, code, file, l, c, m)
    BY <1>1, ReportedFields
  <1>3. d.level = level /\ d.code = code /\ d.file = file /\ d.line = l /\ d.column = c /\ d.message = m
    BY <1>2 DEF Diagnostic
  <1>4. level = "error" /\ code = None /\ m \in Seq(U) /\ Bounded(m) /\ file \in U /\ file \in exts /\ file # "sp"
    BY DEF LineMessages, Marks
  <1>12. NoLevel(m)
    BY <1>1, <1>3, Zenon
  <1> DEFINE h == GoHead(file, l, c)
             line == h \o m
  <1>5. GoHeaded(h, file, l, c, U)
    BY <1>4, GoHeadWords
  <1>6. h \in Seq(U)
    BY <1>5, Zenon DEF GoHeaded
  <1>7. Printed(p, cmd, d) = Text(line)
    BY <1>3, <1>4, PrintedAs, Zenon
  <1> HIDE DEF h, exts
  <1>8. Headed(line, h, m, U)
    BY <1>4, <1>6, HeadedLine
  <1> HIDE DEF line
  <1>9. parse_one(Trim(line), exts, FALSE) = Diagnostic("error", None, file, l, c, m)
    <2>1. GoFits(file, exts, l, c, U, h, line, m)
      BY <1>4, <1>5, <1>8, <1>12, Zenon DEF GoFits
    <2>2. GoIs(line, exts, file, l, c, m)
      BY <2>1, GoRead
    <2> QED
      BY <2>2, Zenon DEF GoIs
  <1>10. Text(line).text = line
    BY DEF Text
  <1>11. Reader("go", Printed(p, cmd, d)) = parse_one(Trim(line), exts, FALSE)
    BY <1>7, <1>10, Zenon DEF Reader, exts
  <1> QED
    BY <1>2, <1>4, <1>9, <1>11, Zenon

\* What the colon formats print, and how it is read.
ColonDiagnostics(files, U) ==
  Reported({"error", "warning", "note"}, {None}, files, Numbers \cup {None}, LineMessages(U))
ColonParsed(p, cmd, d, files, require_level, U) ==
  /\ parse_one(Trim(Printed(p, cmd, d).text), files, require_level) = d
  /\ Trim(Printed(p, cmd, d).text) \in Seq(U) /\ Trim(Printed(p, cmd, d).text)[1] \in files

\* A line of javac, mypy or clang.
LEMMA ColonPrinted ==
  ASSUME NEW U, Marks \subseteq U, NoneApart(U), NEW p, p.id \in {"java-gradle", "python", "cpp"}, NEW cmd,
         NEW files, files \subseteq U \ {"sp"}, NEW require_level, NEW d \in ColonDiagnostics(files, U)
  PROVE  ColonParsed(p, cmd, d, files, require_level, U)
  <1>2. PICK level \in {"error", "warning", "note"}, code \in {None}, file \in files, l \in Numbers, c \in Numbers \cup {None},
             m \in LineMessages(U) : d = Diagnostic(level, code, file, l, c, m)
    BY ReportedFields DEF ColonDiagnostics
  <1>3. d.level = level /\ d.code = code /\ d.file = file /\ d.line = l /\ d.column = c /\ d.message = m
    BY <1>2 DEF Diagnostic
  <1>4. code = None /\ m \in Seq(U) /\ Bounded(m) /\ file \in U /\ file # "sp"
    BY DEF LineMessages
  <1> DEFINE h == ColonHead(file, l, c, level)
             line == h \o m
  <1>5. ColonHeaded(h, file, l, c, level, U)
    BY <1>4, ColonHeadWords
  <1>6. h \in Seq(U)
    BY <1>5, Zenon DEF ColonHeaded
  <1>7. Printed(p, cmd, d) = Text(line)
    BY <1>3, PrintedAs, Zenon
  <1> HIDE DEF h
  <1>8. Headed(line, h, m, U)
    BY <1>4, <1>6, HeadedLine
  <1> HIDE DEF line
  <1>9. /\ parse_one(Trim(line), files, require_level) = Diagnostic(level, None, file, l, c, m)
        /\ Trim(line) \in Seq(U) /\ Trim(line)[1] = file
    <2>1. ColonFits(file, files, l, c, level, U, h, line, m)
      BY <1>4, <1>5, <1>8, Zenon DEF ColonFits
    <2>2. ColonIs(line, files, require_level, level, file, l, c, m, U)
      BY <2>1, ColonRead
    <2> QED
      BY <2>2, Zenon DEF ColonIs
  <1>10. Text(line).text = line
    BY DEF Text
  <1>11. Printed(p, cmd, d).text = line
    BY <1>7, <1>10, Zenon
  <1> QED
    BY <1>2, <1>4, <1>9, <1>11, Zenon DEF ColonParsed

\* What filter_map leaves of a list, and when it leaves nothing.
LEMMA SomesFacts ==
  ASSUME NEW n \in Nat, NEW v, v = [i \in 1..n |-> v[i]], NEW S, \A i \in 1..n : v[i] \in S
  PROVE  /\ v \in Seq(S) /\ Somes(v) = Passing(v, S \ {None}) /\ Somes(v) \in Seq(S)
         /\ Somes(v) = <<>> => \A i \in 1..n : v[i] = None
         /\ (\A i \in 1..n : v[i] = None) => Somes(v) = <<>>
  <1>1. v \in Seq(S) /\ DOMAIN v = 1..n /\ Len(v) = n
    <2> DEFINE w == [i \in 1..n |-> v[i]]
    <2>1. w \in Seq(S) /\ DOMAIN w = 1..n /\ Len(w) = n
      OBVIOUS
    <2> HIDE DEF w
    <2>2. w = v
      BY DEF w
    <2> QED
      BY <2>1, <2>2
  <1> DEFINE kept == Passing(v, S \ {None})
  <1>2. Somes(v) = kept
    BY <1>1 DEF Somes, Passing
  <1>3. kept \in Seq(S) /\ \A x : x \in ToSet(kept) <=> x \in ToSet(v) /\ x \in S \ {None}
    BY <1>1, KeptFacts
  <1> HIDE DEF kept
  <1>4. \A x : x \in ToSet(kept) <=> \E i \in 1..Len(kept) : x = kept[i]
    BY <1>3, RangeByPlace
  <1>5. \A x : x \in ToSet(v) <=> \E i \in 1..Len(v) : x = v[i]
    BY <1>1, RangeByPlace
  <1>6. kept = <<>> => \A i \in 1..n : v[i] = None
    <2> SUFFICES ASSUME kept = <<>>, NEW i \in 1..n, v[i] # None
                 PROVE  FALSE
      OBVIOUS
    <2>1. v[i] \in ToSet(kept)
      BY <1>1, <1>3, <1>5
    <2>2. Len(kept) = 0
      OBVIOUS
    <2> QED
      BY <1>4, <2>1, <2>2
  <1>7. (\A i \in 1..n : v[i] = None) => kept = <<>>
    <2> SUFFICES ASSUME \A i \in 1..n : v[i] = None, kept # <<>>
                 PROVE  FALSE
      OBVIOUS
    <2>1. 1 \in 1..Len(kept)
      BY <1>3, EmptySeq
    <2>2. kept[1] \in ToSet(kept)
      BY <1>4, <2>1
    <2>3. kept[1] \in ToSet(v) /\ kept[1] # None
      BY <1>3, <2>2
    <2> QED
      BY <1>1, <1>5, <2>3
  <1> QED
    BY <1>1, <1>2, <1>3, <1>6, <1>7 DEF kept

\* All parsers but that of Python: each line by itself.
LEMMA PlainReader ==
  ASSUME NEW lines, NEW id \in {"rust", "java-maven", "java-gradle", "node", "go", "cpp"}
  PROVE  parse_diagnostics(id, lines) = Somes([i \in DOMAIN lines |-> Reader(id, lines[i])])
  <1>1. \A l : Reader("rust", l) = CargoLine(l.json)
    BY Zenon DEF Reader
  <1>2. \A l : Reader("java-maven", l) = MavenLine(Trim(l.text))
    BY Zenon DEF Reader
  <1>3. \A l : Reader("java-gradle", l) = parse_one(Trim(l.text), {".java"}, TRUE)
    BY Zenon DEF Reader
  <1>4. \A l : Reader("node", l) = ParseTsc(Trim(l.text))
    BY Zenon DEF Reader
  <1>5. \A l : Reader("go", l) = parse_one(Trim(l.text), {".go"}, FALSE)
    BY Zenon DEF Reader
  <1>6. \A l : Reader("cpp", l) = parse_one(Trim(l.text), {".c", ".h"}, TRUE)
    BY Zenon DEF Reader
  <1> DEFINE Read(x) == [i \in DOMAIN lines |-> Reader(x, lines[i])]
  <1>7. Read("rust") = [i \in DOMAIN lines |-> CargoLine(lines[i].json)]
    BY <1>1, Zenon
  <1>8. Read("java-maven") = [i \in DOMAIN lines |-> MavenLine(Trim(lines[i].text))]
    BY <1>2, Zenon
  <1>9. Read("java-gradle") = [i \in DOMAIN lines |-> parse_one(Trim(lines[i].text), {".java"}, TRUE)]
    BY <1>3, Zenon
  <1>10. Read("node") = [i \in DOMAIN lines |-> ParseTsc(Trim(lines[i].text))]
    BY <1>4, Zenon
  <1>11. Read("go") = [i \in DOMAIN lines |-> parse_one(Trim(lines[i].text), {".go"}, FALSE)]
    BY <1>5, Zenon
  <1>12. Read("cpp") = [i \in DOMAIN lines |-> parse_one(Trim(lines[i].text), {".c", ".h"}, TRUE)]
    BY <1>6, Zenon
  <1> HIDE DEF Read
  <1>13. \/ id = "rust" \/ id = "java-maven" \/ id = "java-gradle" \/ id = "node" \/ id = "go" \/ id = "cpp"
    OBVIOUS
  <1>14. parse_diagnostics(id, lines) = Somes(Read(id))
    <2>1. CASE id = "rust"
      BY <1>7, <2>1, Parsers, Zenon
    <2>2. CASE id = "java-maven"
      BY <1>8, <2>2, Parsers, Zenon
    <2>3. CASE id = "java-gradle"
      BY <1>9, <2>3, Parsers, Zenon
    <2>4. CASE id = "node"
      BY <1>10, <2>4, Parsers, Zenon
    <2>5. CASE id = "go"
      BY <1>11, <2>5, Parsers, Zenon
    <2>6. CASE id = "cpp"
      BY <1>12, <2>6, Parsers, Zenon
    <2> QED
      BY <1>13, <2>1, <2>2, <2>3, <2>4, <2>5, <2>6
  <1> QED
    BY <1>14 DEF Read

\* Python: the lines of pytest and mypy one by one, then the tracebacks.
LEMMA PythonReader ==
  ASSUME NEW n \in Nat, NEW lines, DOMAIN lines = 1..n
  PROVE  parse_diagnostics("python", lines) = Somes([i \in DOMAIN lines |-> Reader("python", lines[i])]) \o Traceback(lines)
  <1> DEFINE req == FALSE
             One(i) == parse_one(Trim(lines[i].text), {".py"}, req)
             Note(d) == IsPrefix(<<"in", "sp">>, d.message)
             vals == [i \in DOMAIN lines |-> One(i)]
             S == {One(i) : i \in 1..n}
             P == S \ {None}
             Q == {d \in S : ~Note(d)}
             v == Somes(vals)
             reads == [i \in DOMAIN lines |-> Reader("python", lines[i])]
             kept == FlattenSeq([i \in DOMAIN v |-> IF ~Note(v[i]) THEN <<v[i]>> ELSE <<>>])
  <1>1. parse_diagnostics("python", lines) = kept \o Traceback(lines)
    BY Parsers, PythonParser, Zenon
  <1>2. \A i : Reader("python", lines[i]) = IF One(i) = None THEN None ELSE IF Note(One(i)) THEN None ELSE One(i)
    BY Zenon DEF Reader, MypyDiagnostic
  <1> HIDE DEF One, Note
  <1>3. vals = [i \in 1..n |-> vals[i]] /\ \A i \in 1..n : vals[i] = One(i) /\ vals[i] \in S
    OBVIOUS
  <1>4. reads = [i \in 1..n |-> reads[i]] /\ DOMAIN reads = 1..n /\ \A i \in 1..n : reads[i] = Reader("python", lines[i])
    OBVIOUS
  <1>14. DOMAIN vals = 1..n
    OBVIOUS
  <1> HIDE DEF vals, reads
  <1>5. vals \in Seq(S) /\ v = Passing(vals, P) /\ v \in Seq(S)
    <2> HIDE DEF S
    <2> QED
      BY <1>3, SomesFacts
  <1>6. kept = Passing(v, Q)
    <2> HIDE DEF v, S
    <2>1. \A i \in DOMAIN v : v[i] \in S
      BY <1>5
    <2>2. \A i \in DOMAIN v : v[i] \in Q <=> ~Note(v[i])
      BY <2>1
    <2> HIDE DEF Q
    <2> QED
      BY <2>2 DEF Passing
  <1>7. Passing(Passing(vals, P), Q) = Passing(vals, P \cap Q)
    <2> HIDE DEF S, P, Q
    <2> QED
      BY <1>5, PassingTwice
  <1>8. Somes(reads) = Passing(vals, P \cap Q)
    <2> DEFINE R == P \cap Q
    <2>1. ASSUME NEW i \in 1..n
          PROVE  (IF reads[i] # None THEN <<reads[i]>> ELSE <<>>) = (IF vals[i] \in R THEN <<vals[i]>> ELSE <<>>)
      <3>1. vals[i] \in R <=> One(i) # None /\ ~Note(One(i))
        BY <1>3
      <3>2. reads[i] = IF One(i) = None THEN None ELSE IF Note(One(i)) THEN None ELSE One(i)
        BY <1>2, <1>4
      <3> HIDE DEF R
      <3> QED
        BY <1>3, <3>1, <3>2
    <2> HIDE DEF R
    <2>2. Somes(reads) = Passing(vals, R)
      BY <1>4, <1>14, <2>1 DEF Somes, Passing
    <2> QED
      BY <2>2 DEF R
  <1>9. kept = Somes(reads)
    BY <1>5, <1>6, <1>7, <1>8, Zenon
  <1> QED
    BY <1>1, <1>9, Zenon DEF reads

PluginIds == {"rust", "java-maven", "java-gradle", "node", "python", "go", "cpp"}

\* Texts in which the parsers of a plugin find nothing when there are no other lines, and
\* those of them that are no frames of a traceback.
Unreported(id, U) == {t \in Seq(U) : parse_diagnostics(id, <<Text(t)>>) = <<>>}
NoiseBy(id, U) == {t \in Unreported(id, U) : id = "python" => ~IsPrefix(<<"File">>, Trim(t))}

\* What the traceback parser reports is a sequence, and empty if no line begins with File.
LEMMA NoFrames ==
  ASSUME NEW U, Marks \subseteq U, NoneApart(U), NEW n \in Nat, NEW lines, DOMAIN lines = 1..n,
         \A i \in 1..n : Trim(lines[i].text) \in Seq(U)
  PROVE  /\ \E S : Traceback(lines) \in Seq(S)
         /\ (\A i \in 1..n : ~IsPrefix(<<"File">>, Trim(lines[i].text))) => Traceback(lines) = <<>>
  <1> DEFINE at == [i \in 1..n |-> Trim(lines[i].text)]
  <1>1. "File" \in U /\ None \notin [file : U, line : U]
    BY DEF Marks, NoneApart
  <1>2. \A i \in 1..n : at[i] = Trim(lines[i].text) /\ at[i] \in Seq(U)
    OBVIOUS
  <1> HIDE DEF at
  <1>3. /\ Traceback(lines) \in Seq({ReportedFor(at, n, i) : i \in PairedIn(at, n)})
        /\ Len(Traceback(lines)) = Cardinality(PairedIn(at, n))
    <2>1. TextsOf(lines, at, n, U)
      BY <1>2, Zenon DEF TextsOf
    <2>2. TracebackOf(lines, at, n)
      BY <1>1, <2>1, TracebackFacts
    <2> QED
      BY <2>2, Zenon DEF TracebackOf
  <1>4. ASSUME \A i \in 1..n : ~IsPrefix(<<"File">>, Trim(lines[i].text))
        PROVE  Traceback(lines) = <<>>
    <2>1. FramesIn(at, n) = {}
      <3> SUFFICES ASSUME NEW i \in 1..n, FrameOf(at[i]) # None, at[i][1] = "File"
                   PROVE  FALSE
        BY DEF FramesIn
      <3> DEFINE a == at[i]
      <3>1. a \in Seq(U)
        BY <1>2
      <3>2. ~IsPrefix(<<"File">>, a)
        BY <1>2, <1>4, Zenon
      <3>3. FrameOf(a) # None /\ a[1] = "File"
        OBVIOUS
      <3> HIDE DEF a
      <3> QED
        BY <1>1, <3>1, <3>2, <3>3, FrameFacts
    <2>2. \A i : OwnOf(at, n, i) = {}
      BY <2>1 DEF OwnOf
    <2>3. PairedIn(at, n) = {}
      BY <2>2 DEF PairedIn
    <2>4. Len(Traceback(lines)) = 0
      BY <1>3, <2>3, FS_EmptySet
    <2> QED
      BY <1>3, <2>4, EmptySeq
  <1> QED
    BY <1>3, <1>4

\* A text in which the parsers find nothing is read as nothing.
LEMMA NoiseRead ==
  ASSUME NEW U, Marks \subseteq U, NoneApart(U), NEW id \in PluginIds, NEW t \in Unreported(id, U)
  PROVE  Reader(id, Text(t)) = None
  <1> DEFINE x == Text(t)
             one == <<x>>
             reads == [i \in DOMAIN one |-> Reader(id, one[i])]
             S == {reads[i] : i \in 1..1}
  <1>1. t \in Seq(U) /\ parse_diagnostics(id, one) = <<>>
    BY DEF Unreported
  <1>2. DOMAIN one = 1..1 /\ one[1] = x /\ x.text = t
    BY DEF Text
  <1> HIDE DEF x, one
  <1>3. DOMAIN reads = 1..1 /\ reads = [i \in 1..1 |-> reads[i]] /\ reads[1] = Reader(id, x) /\ 1 \in 1..1
    BY <1>2
  <1> HIDE DEF reads
  <1>4. \A i \in 1..1 : reads[i] \in S
    OBVIOUS
  <1> HIDE DEF S
  <1>5. Somes(reads) \in Seq(S) /\ (Somes(reads) = <<>> => reads[1] = None)
    BY <1>3, <1>4, SomesFacts
  <1>6. Somes(reads) = <<>>
    <2>1. CASE id # "python"
      <3>1. id \in {"rust", "java-maven", "java-gradle", "node", "go", "cpp"}
        BY <2>1 DEF PluginIds
      <3> QED
        BY <1>1, <3>1, PlainReader, Zenon DEF reads
    <2>2. CASE id = "python"
      <3>1. parse_diagnostics("python", one) = Somes(reads) \o Traceback(one)
        <4>1. parse_diagnostics("python", one) = Somes([i \in DOMAIN one |-> Reader("python", one[i])]) \o Traceback(one)
          BY <1>2, PythonReader
        <4> QED
          BY <2>2, <4>1, Zenon DEF reads
      <3>2. \A i \in 1..1 : Trim(one[i].text) \in Seq(U)
        <4>1. Trim(t) \in Seq(U)
          BY <1>1, TrimFacts
        <4>2. \A i \in 1..1 : i = 1
          OBVIOUS
        <4> QED
          BY <1>2, <4>1, <4>2
      <3>3. PICK V : Traceback(one) \in Seq(V)
        BY <1>2, <3>2, NoFrames
      <3>4. Somes(reads) \o Traceback(one) = <<>>
        BY <1>1, <2>2, <3>1
      <3> DEFINE a == Somes(reads)
                 b == Traceback(one)
                 W == S \cup V
      <3>5. a \in Seq(W) /\ b \in Seq(W) /\ a \o b = <<>>
        BY <1>5, <3>3, <3>4
      <3> HIDE DEF a, b, W
      <3>6. Len(a \o b) = Len(a) + Len(b) /\ Len(a \o b) = 0 /\ Len(a) \in Nat /\ Len(b) \in Nat
        BY <3>5
      <3>7. Len(a) = 0
        BY <3>6
      <3>8. a = <<>>
        BY <3>5, <3>7, EmptySeq
      <3> QED
        BY <3>8 DEF a
    <2> QED
      BY <2>1, <2>2
  <1> QED
    BY <1>3, <1>5, <1>6 DEF x

\* The machine format is asked for where cargo needs it.
Structured(p, cmd) == p.id = "rust" => Contains(OwnArguments(cmd), "--message-format")

\* What is printed is read, and a line of mypy does not begin with File.
LEMMA PrintedRead ==
  ASSUME NEW U, Marks \subseteq U, NoneApart(U), NEW p, p.id \in PluginIds, NEW cmd, Structured(p, cmd), NEW d \in PrintedBy(p.id, U)
  PROVE  /\ Reader(p.id, Printed(p, cmd, d)) = d
         /\ p.id = "python" => /\ Trim(Printed(p, cmd, d).text) \in Seq(U)
                               /\ ~IsPrefix(<<"File">>, Trim(Printed(p, cmd, d).text))
  <1> DEFINE x == Printed(p, cmd, d)
             t == Trim(x.text)
  <1>1. CASE p.id = "rust"
    <2>1. d \in PrintedBy("rust", U) /\ Contains(OwnArguments(cmd), "--message-format")
      BY <1>1, Zenon DEF Structured
    <2>2. Reader("rust", x) = d
      BY <1>1, <2>1, RustPrinted
    <2> QED
      BY <1>1, <2>2
  <1>2. CASE p.id = "java-maven"
    <2>1. d \in PrintedBy("java-maven", U)
      BY <1>2, Zenon
    <2>2. Reader("java-maven", x) = d
      BY <1>2, <2>1, MavenPrinted
    <2> QED
      BY <1>2, <2>2
  <1>3. CASE p.id = "node"
    <2>1. d \in PrintedBy("node", U)
      BY <1>3, Zenon
    <2>2. Reader("node", x) = d
      BY <1>3, <2>1, NodePrinted
    <2> QED
      BY <1>3, <2>2
  <1>4. CASE p.id = "go"
    <2>1. d \in PrintedBy("go", U)
      BY <1>4, Zenon
    <2>2. Reader("go", x) = d
      BY <1>4, <2>1, GoPrinted
    <2> QED
      BY <1>4, <2>2
  <1>5. CASE p.id = "java-gradle"
    <2> DEFINE files == {".java"}
               req == TRUE
    <2>1. d \in ColonDiagnostics(files, U)
      BY <1>5, Zenon DEF PrintedBy, ColonDiagnostics
    <2>2. files \subseteq U \ {"sp"}
      BY DEF Marks
    <2>3. Reader("java-gradle", x) = parse_one(t, files, req)
      BY Zenon DEF Reader
    <2> HIDE DEF files, req, x
    <2>4. ColonParsed(p, cmd, d, files, req, U)
      BY <1>5, <2>1, <2>2, ColonPrinted
    <2> QED
      BY <1>5, <2>3, <2>4, Zenon DEF x, ColonParsed
  <1>6. CASE p.id = "cpp"
    <2> DEFINE files == {".c", ".h"}
               req == TRUE
    <2>1. d \in ColonDiagnostics(files, U)
      BY <1>6, Zenon DEF PrintedBy, ColonDiagnostics
    <2>2. files \subseteq U \ {"sp"}
      BY DEF Marks
    <2>3. Reader("cpp", x) = parse_one(t, files, req)
      BY Zenon DEF Reader
    <2> HIDE DEF files, req, x
    <2>4. ColonParsed(p, cmd, d, files, req, U)
      BY <1>6, <2>1, <2>2, ColonPrinted
    <2> QED
      BY <1>6, <2>3, <2>4, Zenon DEF x, ColonParsed
  <1>7. CASE p.id = "python"
    <2> DEFINE files == {".py"}
               req == FALSE
               Note(e) == IsPrefix(<<"in", "sp">>, e.message)
    <2>1. /\ d \in ColonDiagnostics(files, U)
          /\ ~Note(d)
      BY <1>7, Zenon DEF PrintedBy, ColonDiagnostics
    <2>2. files \subseteq U \ {"sp"}
      BY DEF Marks
    <2>3. LET e == parse_one(t, files, req) IN
          Reader("python", x) = IF e = None THEN None ELSE IF Note(e) THEN None ELSE e
      BY Zenon DEF Reader, MypyDiagnostic
    <2>4. \A y : y \in files => y # "File"
      OBVIOUS
    <2> HIDE DEF files, req, x, Note
    <2>5. ColonParsed(p, cmd, d, files, req, U)
      BY <1>7, <2>1, <2>2, ColonPrinted
    <2>6. Reader("python", x) = d
      BY <2>1, <2>3, <2>5, Zenon DEF x, ColonParsed
    <2>7. t \in Seq(U) /\ t[1] # "File"
      BY <2>4, <2>5, Zenon DEF x, ColonParsed
    <2>8. ~IsPrefix(<<"File">>, t)
      <3> HIDE DEF t
      <3>1. "File" \in U
        BY DEF Marks
      <3> QED
        BY <2>7, <3>1, PrefixWord
    <2> QED
      BY <1>7, <2>6, <2>7, <2>8, Zenon DEF x
  <1> QED
    BY <1>1, <1>2, <1>3, <1>4, <1>5, <1>6, <1>7, Zenon DEF PluginIds

\* What a stream is made of: lines of no diagnostic, and printed diagnostics.
ItemsBy(id, U) == {[noise |-> TRUE, text |-> t] : t \in NoiseBy(id, U)} \cup {[noise |-> FALSE, d |-> d] : d \in PrintedBy(id, U)}
LineOf(p, cmd, item) == IF item.noise THEN Text(item.text) ELSE Printed(p, cmd, item.d)
FoundIn(item) == IF item.noise THEN None ELSE item.d

\* A line is read as what it is.
LEMMA ItemRead ==
  ASSUME NEW U, Marks \subseteq U, NoneApart(U), NEW p, p.id \in PluginIds, NEW cmd, Structured(p, cmd), NEW item \in ItemsBy(p.id, U)
  PROVE  /\ Reader(p.id, LineOf(p, cmd, item)) = FoundIn(item)
         /\ p.id = "python" => /\ Trim(LineOf(p, cmd, item).text) \in Seq(U)
                               /\ ~IsPrefix(<<"File">>, Trim(LineOf(p, cmd, item).text))
  <1>1. CASE \E t \in NoiseBy(p.id, U) : item = [noise |-> TRUE, text |-> t]
    <2>1. PICK t \in NoiseBy(p.id, U) : item = [noise |-> TRUE, text |-> t]
      BY <1>1
    <2>2. item.noise /\ item.text = t
      BY <2>1
    <2>3. LineOf(p, cmd, item) = Text(t) /\ FoundIn(item) = None
      BY <2>2, Zenon DEF LineOf, FoundIn
    <2>4. t \in Unreported(p.id, U) /\ (p.id = "python" => ~IsPrefix(<<"File">>, Trim(t)))
      BY Zenon DEF NoiseBy
    <2>5. Reader(p.id, Text(t)) = None
      BY <2>4, NoiseRead
    <2>6. Text(t).text = t
      BY DEF Text
    <2>7. Trim(t) \in Seq(U)
      <3>1. t \in Seq(U)
        BY <2>4, Zenon DEF Unreported
      <3> QED
        BY <3>1, TrimFacts
    <2> QED
      BY <2>3, <2>4, <2>5, <2>6, <2>7, Zenon
  <1>2. CASE \E d \in PrintedBy(p.id, U) : item = [noise |-> FALSE, d |-> d]
    <2>1. PICK d \in PrintedBy(p.id, U) : item = [noise |-> FALSE, d |-> d]
      BY <1>2
    <2>2. ~item.noise /\ item.d = d
      BY <2>1
    <2>3. LineOf(p, cmd, item) = Printed(p, cmd, d) /\ FoundIn(item) = d
      BY <2>2, Zenon DEF LineOf, FoundIn
    <2>4. /\ Reader(p.id, Printed(p, cmd, d)) = d
          /\ p.id = "python" => /\ Trim(Printed(p, cmd, d).text) \in Seq(U)
                                /\ ~IsPrefix(<<"File">>, Trim(Printed(p, cmd, d).text))
      BY PrintedRead
    <2> QED
      BY <2>3, <2>4, Zenon
  <1> QED
    BY <1>1, <1>2, Zenon DEF ItemsBy

\* A stream is read line by line.
LEMMA StreamRead ==
  ASSUME NEW U, Marks \subseteq U, NoneApart(U), NEW p, p.id \in PluginIds, NEW cmd, Structured(p, cmd),
         NEW items \in Seq(ItemsBy(p.id, U))
  PROVE  parse_diagnostics(p.id, [i \in DOMAIN items |-> LineOf(p, cmd, items[i])])
           = Somes([i \in DOMAIN items |-> FoundIn(items[i])])
  <1> DEFINE n == Len(items)
             lines == [i \in DOMAIN items |-> LineOf(p, cmd, items[i])]
             reads == [i \in DOMAIN lines |-> Reader(p.id, lines[i])]
             found == [i \in DOMAIN items |-> FoundIn(items[i])]
  <1>1. n \in Nat /\ DOMAIN items = 1..n /\ \A i \in 1..n : items[i] \in ItemsBy(p.id, U)
    OBVIOUS
  <1> HIDE DEF n
  <1>2. DOMAIN lines = 1..n /\ \A i \in 1..n : lines[i] = LineOf(p, cmd, items[i])
    BY <1>1
  <1> HIDE DEF lines
  <1>3. ASSUME NEW i \in 1..n
        PROVE  /\ Reader(p.id, lines[i]) = FoundIn(items[i])
               /\ p.id = "python" => Trim(lines[i].text) \in Seq(U) /\ ~IsPrefix(<<"File">>, Trim(lines[i].text))
    <2> DEFINE item == items[i]
    <2>1. item \in ItemsBy(p.id, U) /\ lines[i] = LineOf(p, cmd, item)
      BY <1>1, <1>2
    <2> HIDE DEF item
    <2>2. /\ Reader(p.id, LineOf(p, cmd, item)) = FoundIn(item)
          /\ p.id = "python" => /\ Trim(LineOf(p, cmd, item).text) \in Seq(U)
                                /\ ~IsPrefix(<<"File">>, Trim(LineOf(p, cmd, item).text))
      BY <2>1, ItemRead
    <2> QED
      BY <2>1, <2>2, Zenon DEF item
  <1>4. reads = found
    BY <1>1, <1>2, <1>3, Zenon
  <1>5. CASE p.id # "python"
    <2>1. p.id \in {"rust", "java-maven", "java-gradle", "node", "go", "cpp"}
      BY <1>5 DEF PluginIds
    <2> DEFINE id == p.id
    <2>2. parse_diagnostics(id, lines) = Somes([i \in DOMAIN lines |-> Reader(id, lines[i])])
      <3> HIDE DEF id
      <3>1. id \in {"rust", "java-maven", "java-gradle", "node", "go", "cpp"}
        BY <2>1 DEF id
      <3> QED
        BY <3>1, PlainReader
    <2> QED
      BY <1>4, <2>2, Zenon DEF lines
  <1>6. CASE p.id = "python"
    <2>1. parse_diagnostics("python", lines) = Somes([i \in DOMAIN lines |-> Reader("python", lines[i])]) \o Traceback(lines)
      BY <1>1, <1>2, PythonReader
    <2>2. Traceback(lines) = <<>>
      <3>1. \A i \in 1..n : Trim(lines[i].text) \in Seq(U)
        BY <1>3, <1>6, Zenon
      <3>2. \A i \in 1..n : ~IsPrefix(<<"File">>, Trim(lines[i].text))
        BY <1>3, <1>6, Zenon
      <3> QED
        BY <1>1, <1>2, <3>1, <3>2, NoFrames
    <2>3. Somes(reads) \o <<>> = Somes(reads)
      <3> DEFINE S == {reads[i] : i \in 1..n}
      <3>1. reads = [i \in 1..n |-> reads[i]] /\ \A i \in 1..n : reads[i] \in S
        BY <1>2
      <3> HIDE DEF reads, S
      <3>2. Somes(reads) \in Seq(S)
        BY <1>1, <3>1, SomesFacts
      <3> QED
        BY <3>2
    <2>4. Somes([i \in DOMAIN lines |-> Reader("python", lines[i])]) = Somes(reads)
      BY <1>6, Zenon
    <2> HIDE DEF reads, found
    <2>5. parse_diagnostics("python", lines) = Somes(reads)
      BY <2>1, <2>2, <2>3, <2>4, Zenon
    <2> QED
      BY <1>4, <1>6, <2>5, Zenon DEF lines, found
  <1> QED
    BY <1>5, <1>6

\* The flag for the machine format comes before the arguments of the program, whatever
\* these are.
LEMMA FlagFirst ==
  ASSUME NEW W, NEW a \in Seq(W), NEW b \in Seq(W), NEW f, Len(a) >= 1, a[Len(a)] = f, \A i \in 1..Len(a) : a[i] # "--"
  PROVE  Contains(OwnArguments(a \o b), f)
  <1> DEFINE cmd == a \o b
             n == Len(a)
             I == {i \in 1..Len(cmd) : cmd[i] = "--"}
             sep == IF I # {} THEN Min(I) ELSE 0
             own == IF sep = 0 THEN cmd ELSE SubSeq(cmd, 1, sep - 1)
  <1>1. /\ cmd \in Seq(W) /\ Len(cmd) = Len(a) + Len(b)
        /\ \A i \in 1..Len(a) : cmd[i] = a[i]
    BY HeadWords
  <1>2. OwnArguments(cmd) = own
    BY Zenon DEF OwnArguments, SelectInSeq
  <1> HIDE DEF cmd
  <1>3. n \in Nat /\ n >= 1 /\ n \in 1..n /\ Len(cmd) \in Nat /\ n <= Len(cmd) /\ cmd[n] = f
    <2>1. Len(a) \in Nat /\ Len(b) \in Nat
      OBVIOUS
    <2> QED
      BY <1>1, <2>1
  <1>4. sep = 0 \/ (sep \in 1..Len(cmd) /\ sep > n)
    <2>1. CASE I = {}
      BY <2>1
    <2>2. CASE I # {}
      <3>1. I \in SUBSET Nat
        OBVIOUS
      <3>2. Min(I) \in I
        <4> HIDE DEF I
        <4> QED
          BY <2>2, <3>1, LeastOne
      <3>3. sep \in I
        BY <2>2, <3>2
      <3>4. sep \in 1..Len(cmd) /\ cmd[sep] = "--"
        BY <3>3
      <3> HIDE DEF sep, I
      <3>5. ~(sep \in 1..n)
        BY <1>1, <3>4
      <3> QED
        BY <1>3, <3>4, <3>5
    <2> QED
      BY <2>1, <2>2
  <1> HIDE DEF sep
  <1>5. n \in 1..Len(own) /\ own[n] = f
    <2>1. CASE sep = 0
      BY <1>3, <2>1
    <2>2. CASE sep # 0
      <3>1. sep \in 1..Len(cmd) /\ n \in 1..sep - 1 /\ sep - 1 \in 0..Len(cmd)
        BY <1>3, <1>4, <2>2
      <3>2. \A i \in 1..sep - 1 : cmd[i] \in W
        BY <1>1, <3>1
      <3>3. Len(SubSeq(cmd, 1, sep - 1)) = sep - 1 /\ SubSeq(cmd, 1, sep - 1)[n] = cmd[n]
        BY <1>1, <1>3, <3>1
      <3> QED
        BY <1>3, <2>2, <3>1, <3>3
    <2> QED
      BY <2>1, <2>2
  <1> HIDE DEF own, n
  <1>6. Contains(own, f)
    BY <1>5 DEF Contains
  <1> QED
    BY <1>2, <1>6 DEF cmd

\* cargo run and cargo test are asked for the machine format before any argument of the
\* caller.
LEMMA CargoIsAsked ==
  ASSUME NEW U, NEW tool \in {"run", "test"}, NEW filter \in U \cup {None}, NEW extra \in Seq(U)
  PROVE  Contains(OwnArguments(CommandLine(Rust, tool, filter, extra)), "--message-format")
  <1> DEFINE W == U \cup {"cargo", "run", "test", "--message-format"}
             given == IF tool = "test" THEN filter ELSE None
             one == IF given = None THEN <<>> ELSE <<given>>
             command == Rust[tool]
             structured == Rust.structured
             a == command \o structured
  <1>1. CommandLine(Rust, tool, filter, extra) = (a \o one) \o extra
    BY Zenon DEF CommandLine, Arguments
  <1>2. command = <<"cargo", tool>> /\ structured = <<"--message-format">>
    BY DEF Rust
  <1>3. command \in Seq(W) /\ structured \in Seq(W) /\ Len(command) = 2 /\ Len(structured) = 1
        /\ command[1] # "--" /\ command[2] # "--" /\ structured[1] = "--message-format"
    BY <1>2
  <1>4. a \in Seq(W) /\ Len(a) = 3 /\ a[3] = "--message-format" /\ \A i \in 1..3 : a[i] # "--"
    <2> HIDE DEF command, structured, W
    <2>4. command \in Seq(W) /\ structured \in Seq(W)
      BY <1>3
    <2>1. /\ a \in Seq(W) /\ Len(a) = Len(command) + Len(structured)
          /\ \A i \in 1..Len(command) : a[i] = command[i]
          /\ \A i \in 1..Len(structured) : a[Len(command) + i] = structured[i]
      BY <2>4, HeadWords
    <2> HIDE DEF a
    <2>2. a[1] = command[1] /\ a[2] = command[2] /\ a[2 + 1] = structured[1]
      BY <1>3, <2>1
    <2>3. \A i \in 1..3 : i = 1 \/ i = 2 \/ i = 3
      OBVIOUS
    <2> QED
      BY <1>3, <2>1, <2>2, <2>3
  <1>5. one \in Seq(W) /\ extra \in Seq(W)
    <2>1. given # None => given \in W
      OBVIOUS
    <2>2. extra \in Seq(W)
      OBVIOUS
    <2> HIDE DEF given, W
    <2> QED
      BY <2>1, <2>2
  <1> HIDE DEF one, a, W
  <1>6. (a \o one) \o extra = a \o (one \o extra)
    BY <1>4, <1>5
  <1> DEFINE b == one \o extra
  <1>7. b \in Seq(W)
    BY <1>5
  <1> HIDE DEF b
  <1>8. Contains(OwnArguments(a \o b), "--message-format")
    <2>1. Len(a) >= 1 /\ a[Len(a)] = "--message-format" /\ \A i \in 1..Len(a) : a[i] # "--"
      BY <1>4
    <2> QED
      BY <1>4, <1>7, <2>1, FlagFirst
  <1> QED
    BY <1>1, <1>6, <1>8, Zenon DEF b

\* Every plugin has a parser, and only cargo is to be asked for the machine format.
LEMMA PluginReads ==
  ASSUME NEW p \in Plugins, NEW U, NEW tool \in {"run", "test"}, NEW filter \in U \cup {None}, NEW extra \in Seq(U)
  PROVE  p.id \in PluginIds /\ Structured(p, CommandLine(p, tool, filter, extra))
  <1>1. /\ Rust.id = "rust" /\ JavaMaven.id = "java-maven" /\ JavaGradle.id = "java-gradle" /\ Node.id = "node"
        /\ Python.id = "python" /\ Go.id = "go" /\ Cpp.id = "cpp"
    BY DEF Rust, JavaMaven, JavaGradle, Node, Python, Go, Cpp
  <1>2. p.id \in PluginIds
    BY <1>1 DEF Plugins, PluginIds
  <1>3. p.id = "rust" => p = Rust
    BY <1>1 DEF Plugins
  <1>4. Contains(OwnArguments(CommandLine(Rust, tool, filter, extra)), "--message-format")
    BY CargoIsAsked
  <1> QED
    BY <1>2, <1>3, <1>4, Zenon DEF Structured

-----------------------------------------------------------------------------
(* Every run of a tool *)

\* The runs of a build tool: any root that a plugin claims, any filter, any arguments, and
\* on each stream any lines of no diagnostic and any printed diagnostics.  The outputs with
\* tracebacks have any lines in which the parsers find nothing when they stand alone.
BuildsOf(U) ==
  UNION {[of : {"build"}, files : {f \in SUBSET U : plugin_for(f) = p}, tool : {"run", "test"}, filter : U \cup {None},
          extra : Seq(U), stdout : Seq(ItemsBy(p.id, U)), stderr : Seq(ItemsBy(p.id, U))] : p \in Plugins}
TracebacksOf(U) == [of : {"traceback"}, lines : Seq({Text(t) : t \in Unreported("python", U)})]

\* Whatever a tool prints is reported as printed: the command line asks for what the
\* parser reads, and both streams are read line by line (DiagnosticsAreRead).
LEMMA DiagnosticsAlwaysRead ==
  ASSUME NEW U, Marks \subseteq U, NoneApart(U), None \notin Plugins, input \in BuildsOf(U)
  PROVE  DiagnosticsAreRead
  <1>1. PICK p \in Plugins :
          /\ plugin_for(input.files) = p /\ input.tool \in {"run", "test"} /\ input.filter \in U \cup {None}
          /\ input.extra \in Seq(U) /\ input.stdout \in Seq(ItemsBy(p.id, U)) /\ input.stderr \in Seq(ItemsBy(p.id, U))
    BY DEF BuildsOf
  <1> DEFINE cmd == CommandLine(p, input.tool, input.filter, input.extra)
             Lines(items) == [i \in DOMAIN items |-> LineOf(p, cmd, items[i])]
             FoundOf(items) == Somes([i \in DOMAIN items |-> FoundIn(items[i])])
             out == [stdout |-> Lines(input.stdout), stderr |-> Lines(input.stderr)]
  <1>2. p.id \in PluginIds /\ Structured(p, cmd)
    BY <1>1, PluginReads
  <1>3. ASSUME NEW items \in Seq(ItemsBy(p.id, U))
        PROVE  parse_diagnostics(p.id, Lines(items)) = FoundOf(items)
    <2> HIDE DEF cmd
    <2> QED
      BY <1>2, StreamRead
  <1>4. out.stdout = Lines(input.stdout) /\ out.stderr = Lines(input.stderr)
    BY Zenon
  <1>5. RunTool(p, out).diagnostics = parse_diagnostics(p.id, out.stdout) \o parse_diagnostics(p.id, out.stderr)
    <2>1. p # None
      BY <1>1
    <2> HIDE DEF out
    <2> DEFINE found == parse_diagnostics(p.id, out.stdout) \o parse_diagnostics(p.id, out.stderr)
    <2>2. RunTool(p, out) = [error |-> None, diagnostics |-> found]
      BY <2>1, Zenon DEF RunTool
    <2> HIDE DEF found
    <2>3. RunTool(p, out).diagnostics = found
      BY <2>2
    <2> QED
      BY <2>3 DEF found
  <1>6. RunTool(p, out).diagnostics = FoundOf(input.stdout) \o FoundOf(input.stderr)
    <2>1. parse_diagnostics(p.id, Lines(input.stdout)) = FoundOf(input.stdout)
      BY <1>1, <1>3
    <2>2. parse_diagnostics(p.id, Lines(input.stderr)) = FoundOf(input.stderr)
      BY <1>1, <1>3
    <2> HIDE DEF Lines, FoundOf, out
    <2> QED
      BY <1>4, <1>5, <2>1, <2>2, Zenon
  <1>7. plugin_for(input.files) = p
    BY <1>1
  <1> HIDE DEF out, Lines, FoundOf, cmd
  <1> QED
    BY <1>6, <1>7, Zenon DEF DiagnosticsAreRead, out, Lines, FoundOf, cmd, LineOf, FoundIn, Somes, Mapped, Kept

\* An exception goes with the last frame of its own traceback (TracebackPairs).
LEMMA TracebacksAlwaysPaired ==
  ASSUME NEW U, Marks \subseteq U, NoneApart(U), input \in TracebacksOf(U)
  PROVE  TracebackPairs
  <1> DEFINE lines == input.lines
             n == Len(lines)
             at == [i \in 1..n |-> Trim(lines[i].text)]
             reads == [i \in DOMAIN lines |-> Reader("python", lines[i])]
  <1>1. lines \in Seq({Text(t) : t \in Unreported("python", U)})
    BY DEF TracebacksOf
  <1> HIDE DEF lines
  <1>2. n \in Nat /\ DOMAIN lines = 1..n /\ \A i \in 1..n : \E t \in Unreported("python", U) : lines[i] = Text(t)
    BY <1>1
  <1> HIDE DEF n
  <1>3. ASSUME NEW i \in 1..n
        PROVE  Reader("python", lines[i]) = None /\ Trim(lines[i].text) \in Seq(U)
    <2>1. PICK t \in Unreported("python", U) : lines[i] = Text(t)
      BY <1>2
    <2>2. Reader("python", Text(t)) = None
      <3>1. "python" \in PluginIds
        BY DEF PluginIds
      <3> QED
        BY <3>1, NoiseRead
    <2>3. Text(t).text = t
      BY DEF Text
    <2>4. t \in Seq(U)
      BY Zenon DEF Unreported
    <2>5. Trim(t) \in Seq(U)
      BY <2>4, TrimFacts
    <2> QED
      BY <2>1, <2>2, <2>3, <2>5, Zenon
  <1>4. DOMAIN at = 1..n /\ TextsOf(lines, at, n, U)
    <2>1. \A i \in 1..n : at[i] = Trim(lines[i].text) /\ at[i] \in Seq(U)
      BY <1>3
    <2> QED
      BY <2>1, Zenon DEF TextsOf
  <1>5. \A i \in 1..n : at[i] = Trim(lines[i].text)
    OBVIOUS
  <1> HIDE DEF at
  <1>6. TracebackOf(lines, at, n)
    <2>1. "File" \in U /\ None \notin [file : U, line : U]
      BY DEF Marks, NoneApart
    <2> QED
      BY <1>2, <1>4, <2>1, TracebackFacts
  <1>7. Somes(reads) = <<>>
    <2> DEFINE S == {None}
    <2>1. reads = [i \in 1..n |-> reads[i]] /\ \A i \in 1..n : reads[i] = None /\ reads[i] \in S
      BY <1>2, <1>3
    <2> HIDE DEF reads, S
    <2> QED
      BY <1>2, <2>1, SomesFacts
  <1> DEFINE found == Traceback(lines)
             all == {ReportedFor(at, n, i) : i \in PairedIn(at, n)}
  <1>8. found \in Seq(all) /\ ToSet(found) = all /\ Len(found) = Cardinality(PairedIn(at, n))
    BY <1>6, Zenon DEF TracebackOf
  <1>9. parse_python_diagnostics(lines) = found
    <2>1. parse_diagnostics("python", lines) = Somes(reads) \o found
      BY <1>2, PythonReader
    <2>2. <<>> \o found = found
      BY <1>8
    <2>3. parse_diagnostics("python", lines) = parse_python_diagnostics(lines)
      BY Parsers
    <2> HIDE DEF reads, found
    <2> QED
      BY <1>7, <2>1, <2>2, <2>3, Zenon
  <1>10. Range(found) = ToSet(found)
    BY Zenon DEF Range, ToSet
  <1>11. FramesIn(at, n) = {i \in DOMAIN lines : FrameOf(Trim(lines[i].text)) # None /\ Trim(lines[i].text)[1] = "File"}
    BY <1>2, <1>5 DEF FramesIn
  <1>12. ExceptionsIn(at, n) =
           {i \in DOMAIN lines : ~IsPrefix(<<"File">>, Trim(lines[i].text)) /\ is_exception_line(Trim(lines[i].text))}
    BY <1>2, <1>5, Zenon DEF ExceptionsIn
  <1> HIDE DEF found
  <1> DEFINE Report(i) ==
               Diagnostic("error", None, Trim(lines[Max(OwnOf(at, n, i))].text)[2], Trim(lines[Max(OwnOf(at, n, i))].text)[4],
                          None, Trim(lines[i].text))
  <1>13. ASSUME NEW i \in PairedIn(at, n)
         PROVE  ReportedFor(at, n, i) = Report(i)
    <2> DEFINE own == OwnOf(at, n, i)
               m == Max(own)
    <2>1. own # {} /\ own \in SUBSET (1..n) /\ i \in 1..n
      BY DEF PairedIn, OwnOf, FramesIn, ExceptionsIn
    <2>2. m \in own
      <3> HIDE DEF own
      <3>1. own \in SUBSET (0..n)
        BY <1>2, <2>1
      <3> QED
        BY <1>2, <2>1, <3>1, GreatestOne
    <2>3. m \in 1..n
      BY <2>1, <2>2
    <2> HIDE DEF m
    <2>4. at[m] = Trim(lines[m].text) /\ at[i] = Trim(lines[i].text)
      BY <1>5, <2>1, <2>3
    <2> QED
      BY <2>4, Zenon DEF ReportedFor, m
  <1>14. all = {Report(i) : i \in PairedIn(at, n)}
    <2> HIDE DEF Report
    <2> QED
      BY <1>13
  <1>15. Range(found) = {Report(i) : i \in PairedIn(at, n)} /\ Len(found) = Cardinality(PairedIn(at, n))
    BY <1>8, <1>10, <1>14, Zenon
  <1> QED
    BY <1>9, <1>11, <1>12, <1>15, Zenon DEF TracebackPairs, PairedIn, OwnOf, lines

\* Run and test tools of every plugin, and tracebacks: for any files that a plugin claims,
\* any filter and arguments, and any number of lines on both streams, what the tools print
\* is reported, once, in order and as printed, and the rest is not; and an exception is
\* reported at the last frame of its own traceback (OutputIsRead).  A diagnostic of the
\* text formats has a message that begins and ends with a word; one of go has no level in
\* it, one of tsc without a code has none in it, and one of mypy does not begin with "in ",
\* which is how pytest prints a frame.
THEOREM OutputAlwaysRead ==
  ASSUME NEW U, Marks \subseteq U, NoneApart(U), None \notin Plugins, input \in BuildsOf(U) \cup TracebacksOf(U)
  PROVE  OutputIsRead
  <1>1. CASE input \in BuildsOf(U)
    <2>1. ~Is("traceback")
      BY <1>1 DEF BuildsOf, Is
    <2>2. DiagnosticsAreRead
      BY <1>1, DiagnosticsAlwaysRead
    <2> QED
      BY <2>1, <2>2, Zenon DEF OutputIsRead, TracebackPairs
  <1>2. CASE input \in TracebacksOf(U)
    <2>1. ~Is("build")
      BY <1>2 DEF TracebacksOf, Is
    <2>2. TracebackPairs
      BY <1>2, TracebacksAlwaysPaired
    <2> QED
      BY <2>1, <2>2, Zenon DEF OutputIsRead, DiagnosticsAreRead
  <1> QED
    BY <1>1, <1>2
=============================================================================
