--------------------------- MODULE FunctionProofs ---------------------------
(***************************************************************************)
(* The functions of the server that keep no state, for every input: what   *)
(* the tools say about a SCIP index (crates/aide-scip), what project_setup *)
(* installs (crates/aide-install), and how the language plugins class the  *)
(* files of a repository (crates/aide-lang), and what the edit tools do to *)
(* a text (crates/aide-lsp).                                               *)
(***************************************************************************)
EXTENDS ScipQueries, Languages, TextEdits, SequenceProofs, FiniteSetTheorems, SequenceTheorems

-----------------------------------------------------------------------------
(***************************************************************************)
(* SCIP queries.  Names, kinds and paths are words of any set U; None is   *)
(* no word, symbol, occurrence or document.                                *)
(***************************************************************************)

\* Well-formed symbols, occurrences and documents, what is found in them, and indexes;
\* the documents of an index have different paths.
Symbols(U) == [id : U, name : U \cup {None}, kind : U]
Occs(U) == [sym : U, line : Nat, def : BOOLEAN]
Docs(U) == [path : U, symbols : Seq(Symbols(U)), occs : Seq(Occs(U))]
Found(U) == [symbol : U, name : U, kind : U, path : U, line : Nat \cup {None}]
Apart(U) == None \notin U \cup Symbols(U) \cup Occs(U) \cup Docs(U)
Indexes(U) == {index \in Seq(Docs(U)) : \A i, j \in 1..Len(index) : index[i].path = index[j].path => i = j}

\* The first element of P, or None.
FirstIn(s, P) == LET I == {i \in 1..Len(s) : s[i] \in P} IN IF I = {} THEN None ELSE s[Min(I)]

\* The first element of P, if there is one, is an element and in P.
LEMMA FirstFacts ==
  ASSUME NEW S, NEW s \in Seq(S), None \notin S, NEW P
  PROVE  /\ FirstIn(s, P) # None => FirstIn(s, P) \in S \cap P /\ FirstIn(s, P) \in ToSet(s)
         /\ FirstIn(s, P) = None => \A x \in ToSet(s) : x \notin P
  <1> DEFINE I == {i \in 1..Len(s) : s[i] \in P}
             m == Min(I)
  <1>1. /\ DOMAIN s = 1..Len(s) /\ Len(s) \in Nat /\ \A i \in 1..Len(s) : s[i] \in S
        /\ \A x : x \in ToSet(s) <=> \E i \in 1..Len(s) : x = s[i]
    BY RangeByPlace
  <1>2. CASE I = {}
    <2>1. FirstIn(s, P) = None
      BY <1>2 DEF FirstIn
    <2> QED
      BY <1>1, <1>2, <2>1
  <1>3. CASE I # {}
    <2>1. FirstIn(s, P) = s[m]
      BY <1>3 DEF FirstIn
    <2>2. m \in I
      <3>1. I \in SUBSET Nat
        OBVIOUS
      <3> HIDE DEF I
      <3> QED
        BY <1>3, <3>1, LeastOne
    <2> HIDE DEF m
    <2>3. m \in 1..Len(s) /\ s[m] \in P
      BY <2>2
    <2>4. s[m] \in S /\ s[m] \in ToSet(s)
      BY <1>1, <2>3
    <2> QED
      BY <2>1, <2>3, <2>4
  <1> QED
    BY <1>2, <1>3

\* The symbol a document describes under an id.
LEMMA SymbolInfoFacts ==
  ASSUME NEW U, Apart(U), NEW doc \in Docs(U), NEW id
  PROVE  /\ SymbolInfo(doc, id) # None => /\ SymbolInfo(doc, id) \in Symbols(U)
                                          /\ SymbolInfo(doc, id) \in ToSet(doc.symbols)
                                          /\ SymbolInfo(doc, id).id = id
         /\ SymbolInfo(doc, id) = None => \A s \in ToSet(doc.symbols) : s.id # id
  <1> DEFINE P == {s \in Symbols(U) : s.id = id}
  <1>1. doc.symbols \in Seq(Symbols(U)) /\ None \notin Symbols(U)
    BY DEF Docs, Apart
  <1>2. SymbolInfo(doc, id) = FirstIn(doc.symbols, P)
    <2>1. \A i \in 1..Len(doc.symbols) : doc.symbols[i] \in Symbols(U)
      BY <1>1, RangeByPlace
    <2>2. {i \in 1..Len(doc.symbols) : doc.symbols[i].id = id} = {i \in 1..Len(doc.symbols) : doc.symbols[i] \in P}
      BY <2>1
    <2> DEFINE I == {i \in 1..Len(doc.symbols) : doc.symbols[i] \in P}
    <2>3. SelectInSeq(doc.symbols, LAMBDA s : s.id = id) = IF I # {} THEN Min(I) ELSE 0
      BY <2>2, Zenon DEF SelectInSeq
    <2>4. I # {} => Min(I) # 0
      <3>1. I \in SUBSET Nat /\ 0 \notin I
        BY <1>1
      <3> HIDE DEF I
      <3> QED
        BY <3>1, LeastOne
    <2>5. SymbolInfo(doc, id) = LET i == SelectInSeq(doc.symbols, LAMBDA s : s.id = id) IN IF i = 0 THEN None ELSE doc.symbols[i]
      BY Zenon DEF SymbolInfo, First
    <2>6. FirstIn(doc.symbols, P) = IF I = {} THEN None ELSE doc.symbols[Min(I)]
      BY DEF FirstIn
    <2> HIDE DEF I
    <2> QED
      BY <2>3, <2>4, <2>5, <2>6
  <1> HIDE DEF P
  <1>3. /\ FirstIn(doc.symbols, P) # None
             => FirstIn(doc.symbols, P) \in Symbols(U) \cap P /\ FirstIn(doc.symbols, P) \in ToSet(doc.symbols)
        /\ FirstIn(doc.symbols, P) = None => \A x \in ToSet(doc.symbols) : x \notin P
    BY <1>1, FirstFacts
  <1>4. \A x \in ToSet(doc.symbols) : x \in Symbols(U)
    BY <1>1, RangeByPlace
  <1> QED
    BY <1>2, <1>3, <1>4 DEF P

\* The last definition that starts at or before a line, of those on one line the
\* one listed last.
LEMMA EnclosingFacts ==
  ASSUME NEW U, Apart(U), NEW doc \in Docs(U), NEW line \in Nat
  PROVE  /\ EnclosingId(doc, line) # None => /\ EnclosingId(doc, line) \in U
              /\ \E d \in ToSet(doc.occs) : d.def /\ d.sym = EnclosingId(doc, line) /\ d.line <= line
                                            /\ NoneBetween(doc, d.line, line)
         /\ EnclosingId(doc, line) = None => \A o \in ToSet(doc.occs) : ~(o.def /\ o.line <= line)
  <1> DEFINE n == Len(doc.occs)
             before == {i \in 1..n : doc.occs[i].def /\ doc.occs[i].line <= line}
             last == {i \in before : \A j \in before : doc.occs[j].line <= doc.occs[i].line}
             m == Max(last)
  <1>1. doc.occs \in Seq(Occs(U)) /\ None \notin U
    BY DEF Docs, Apart
  <1>2. /\ DOMAIN doc.occs = 1..n /\ n \in Nat /\ \A i \in 1..n : doc.occs[i] \in Occs(U)
        /\ \A x : x \in ToSet(doc.occs) <=> \E i \in 1..n : x = doc.occs[i]
    BY <1>1, RangeByPlace
  <1>3. EnclosingId(doc, line) = IF before = {} THEN None ELSE doc.occs[m].sym
    BY <1>2, Zenon DEF EnclosingId
  <1>4. CASE before = {}
    <2>1. \A o \in ToSet(doc.occs) : ~(o.def /\ o.line <= line)
      BY <1>2, <1>4
    <2> QED
      BY <1>3, <1>4, <2>1
  <1>5. CASE before # {}
    <2> DEFINE lines == {doc.occs[i].line : i \in before}
               top == Max(lines)
    <2>1. lines \in SUBSET (0..line) /\ lines # {}
      <3>1. \A i \in before : doc.occs[i].line \in Nat
        BY <1>2 DEF Occs
      <3>2. \A i \in before : doc.occs[i].line \in 0..line
        BY <3>1
      <3> HIDE DEF before
      <3> QED
        BY <1>5, <3>2
    <2>2. top \in lines /\ \A y \in lines : top >= y
      <3> HIDE DEF lines
      <3> QED
        BY <2>1, GreatestOne
    <2>3. PICK k \in before : doc.occs[k].line = top
      BY <2>2
    <2> HIDE DEF top
    <2>4. \A j \in before : doc.occs[j].line \in lines /\ doc.occs[j].line \in Nat
      BY <1>2 DEF Occs
    <2>5. k \in last
      BY <2>2, <2>3, <2>4
    <2>6. last \in SUBSET (0..n) /\ last # {}
      BY <1>2, <2>5
    <2>7. m \in last
      <3> HIDE DEF last
      <3> QED
        BY <1>2, <2>6, GreatestOne
    <2> HIDE DEF m
    <2>8. m \in 1..n /\ doc.occs[m].def /\ doc.occs[m].line <= line /\ \A j \in before : doc.occs[j].line <= doc.occs[m].line
      BY <2>7
    <2>9. doc.occs[m] \in ToSet(doc.occs) /\ doc.occs[m] \in Occs(U)
      BY <1>2, <2>8
    <2>10. NoneBetween(doc, doc.occs[m].line, line)
      <3> SUFFICES ASSUME NEW o \in ToSet(doc.occs), o.def, doc.occs[m].line < o.line, o.line <= line
                   PROVE  FALSE
        BY DEF NoneBetween
      <3>1. PICK i \in 1..n : o = doc.occs[i]
        BY <1>2
      <3>2. i \in before
        BY <3>1
      <3>3. o.line <= doc.occs[m].line /\ o.line \in Nat /\ doc.occs[m].line \in Nat
        BY <2>4, <2>8, <2>9, <3>1, <3>2 DEF Occs
      <3> HIDE DEF before, last
      <3> QED
        BY <3>3
    <2>11. EnclosingId(doc, line) = doc.occs[m].sym
      BY <1>3, <1>5 DEF m
    <2>12. doc.occs[m].sym \in U
      BY <2>9 DEF Occs
    <2> HIDE DEF before, last
    <2> QED
      BY <1>1, <2>8, <2>9, <2>10, <2>11, <2>12
  <1> QED
    BY <1>4, <1>5

\* The definition that alone stands last at or before a line is the one that
\* encloses it.
LEMMA EnclosingIsLast ==
  ASSUME NEW U, Apart(U), NEW doc \in Docs(U), NEW line \in Nat, NEW d \in ToSet(doc.occs), d.def, d.line <= line,
         NoneBetween(doc, d.line, line), \A o \in ToSet(doc.occs) : o.def /\ o.line = d.line => o.sym = d.sym
  PROVE  EnclosingId(doc, line) = d.sym
  <1>1. doc.occs \in Seq(Occs(U))
    BY DEF Docs
  <1>2. \A x \in ToSet(doc.occs) : x.line \in Nat
    <2>1. \A x \in ToSet(doc.occs) : x \in Occs(U)
      BY <1>1, RangeByPlace
    <2> QED
      BY <2>1 DEF Occs
  <1>3. PICK e \in ToSet(doc.occs) : e.def /\ e.sym = EnclosingId(doc, line) /\ e.line <= line /\ NoneBetween(doc, e.line, line)
    BY EnclosingFacts
  <1>4. ~(e.line < d.line) /\ ~(d.line < e.line)
    BY <1>3 DEF NoneBetween
  <1>5. e.line = d.line
    BY <1>2, <1>4
  <1> QED
    BY <1>3, <1>5


\* A sequence whose elements are in T is a sequence over T.
LEMMA ElementsIn ==
  ASSUME NEW S, NEW T, NEW s \in Seq(S), \A x \in ToSet(s) : x \in T
  PROVE  s \in Seq(T)
  <1>1. \A i \in 1..Len(s) : s[i] \in ToSet(s)
    BY RangeByPlace
  <1> QED
    BY <1>1

\* What enclosing_defs_of_callers finds in one document.
CallersIn(doc, id) ==
  LET calls == Kept(doc.occs, LAMBDA o : o.sym = id /\ ~o.def)
      ids   == Distinct(Mapped(calls, LAMBDA o : EnclosingId(doc, o.line)))
      infos == Mapped(ids, LAMBDA e : SymbolInfo(doc, e)) IN
  [j \in DOMAIN infos |-> Located(doc, infos[j])]

\* The line of a definition is a number, if there is one.
LEMMA LineFacts ==
  ASSUME NEW U, Apart(U), NEW doc \in Docs(U), NEW id
  PROVE  DefinitionLine(doc, id) \in Nat \cup {None}
  <1> DEFINE P == {o \in Occs(U) : o.sym = id /\ o.def}
             I == {i \in 1..Len(doc.occs) : doc.occs[i].sym = id /\ doc.occs[i].def}
             occ == First(doc.occs, LAMBDA o : o.sym = id /\ o.def)
  <1>1. doc.occs \in Seq(Occs(U)) /\ \A i \in 1..Len(doc.occs) : doc.occs[i] \in Occs(U)
    BY RangeByPlace DEF Docs
  <1>2. SelectInSeq(doc.occs, LAMBDA o : o.sym = id /\ o.def) = IF I # {} THEN Min(I) ELSE 0
    BY Zenon DEF SelectInSeq
  <1>3. occ = LET i == SelectInSeq(doc.occs, LAMBDA o : o.sym = id /\ o.def) IN IF i = 0 THEN None ELSE doc.occs[i]
    BY Zenon DEF First
  <1>4. I # {} => Min(I) \in 1..Len(doc.occs)
    <2>1. I \in SUBSET Nat /\ I \subseteq 1..Len(doc.occs)
      OBVIOUS
    <2> HIDE DEF I
    <2> QED
      BY <2>1, LeastOne
  <1> HIDE DEF I
  <1>5. occ = None \/ occ \in Occs(U)
    BY <1>1, <1>2, <1>3, <1>4
  <1>6. DefinitionLine(doc, id) = IF occ = None THEN None ELSE occ.line
    BY Zenon DEF DefinitionLine
  <1> HIDE DEF occ
  <1> QED
    BY <1>5, <1>6 DEF Occs

\* What is said of a symbol of a document: its id, the path, and words of U.
LEMMA LocatedFacts ==
  ASSUME NEW U, Apart(U), NEW doc \in Docs(U), NEW s \in Symbols(U)
  PROVE  Located(doc, s) \in Found(U) /\ Located(doc, s).symbol = s.id /\ Located(doc, s).path = doc.path
  <1>1. DefinitionLine(doc, s.id) \in Nat \cup {None}
    BY LineFacts
  <1>2. DisplayName(s) \in U /\ s.id \in U /\ s.kind \in U /\ doc.path \in U
    BY DEF DisplayName, Symbols, Docs
  <1> QED
    BY <1>1, <1>2 DEF Located, Found

\* Each definition that encloses a call in the document, and that is described, is
\* found once, and nothing else is found.
LEMMA CallersInFacts ==
  ASSUME NEW U, Apart(U), NEW doc \in Docs(U), NEW id
  PROVE  LET found == CallersIn(doc, id) IN
         /\ found \in Seq(Found(U))
         /\ \A f \in ToSet(found) : f.path = doc.path /\ \E o \in ToSet(doc.occs) :
              o.sym = id /\ ~o.def /\ EnclosingId(doc, o.line) = f.symbol /\ f.symbol # None
         /\ \A o \in ToSet(doc.occs) : o.sym = id /\ ~o.def =>
              LET e == EnclosingId(doc, o.line) IN
              e # None /\ SymbolInfo(doc, e) # None => Located(doc, SymbolInfo(doc, e)) \in ToSet(found)
         /\ \A a, b \in 1..Len(found) : found[a].symbol = found[b].symbol => a = b
         /\ \A f \in ToSet(found) : \E s \in ToSet(doc.symbols) : f = Located(doc, s)
  <1> DEFINE P == {o \in Occs(U) : o.sym = id /\ ~o.def}
             enc == [o \in Occs(U) |-> EnclosingId(doc, o.line)]
             own == [e \in U |-> e]
             info == [e \in U |-> SymbolInfo(doc, e)]
             calls == Passing(doc.occs, P)
             encs == Images(calls, enc, U)
             ids == FirstsBy(encs, own)
             infos == Images(ids, info, Symbols(U))
             found == [j \in DOMAIN infos |-> Located(doc, infos[j])]
  <1>1. /\ doc.occs \in Seq(Occs(U)) /\ doc.path \in U /\ None \notin U /\ None \notin Symbols(U)
        /\ \A i \in 1..Len(doc.occs) : doc.occs[i] \in Occs(U)
        /\ DOMAIN doc.occs = 1..Len(doc.occs)
    BY RangeByPlace DEF Docs, Apart
  <1>2. \A o \in Occs(U) : enc[o] = EnclosingId(doc, o.line) /\ enc[o] \in U \cup {None}
    <2> SUFFICES ASSUME NEW o \in Occs(U)
                 PROVE  EnclosingId(doc, o.line) \in U \cup {None}
      OBVIOUS
    <2>1. o.line \in Nat
      BY DEF Occs
    <2> QED
      BY <2>1, EnclosingFacts
  <1>3. \A e \in U : info[e] = SymbolInfo(doc, e) /\ info[e] \in Symbols(U) \cup {None}
    BY SymbolInfoFacts
  <1>4. \A e \in U : own[e] = e
    OBVIOUS
  <1> HIDE DEF enc, own, info
  <1>5. /\ calls \in Seq(Occs(U))
        /\ \A x : x \in ToSet(calls) <=> x \in ToSet(doc.occs) /\ x \in P
    <2> HIDE DEF P
    <2> QED
      BY <1>1, KeptFacts
  <1> HIDE DEF calls
  <1>6. /\ encs \in Seq(U \cup {None})
        /\ \A y : y \in ToSet(encs) <=> y \in U /\ \E x \in ToSet(calls) : y = enc[x]
    <2> DEFINE V == U \cup {None}
    <2>1. \A o \in Occs(U) : enc[o] \in V
      BY <1>2
    <2>2. calls \in Seq(Occs(U))
      BY <1>5
    <2>3. encs = Images(calls, enc, U)
      OBVIOUS
    <2> HIDE DEF V, encs
    <2>4. AreImages(encs, calls, enc, U, V)
      BY <2>1, <2>2, <2>3, MappedFacts
    <2> QED
      BY <2>4, Zenon DEF V, AreImages
  <1> HIDE DEF encs
  <1>7. encs \in Seq(U)
    BY <1>6, ElementsIn
  <1>8. /\ ids \in Seq(U)
        /\ \A x \in ToSet(ids) : x \in ToSet(encs)
        /\ \A x \in ToSet(encs) : \E y \in ToSet(ids) : own[y] = own[x]
        /\ \A a, b \in 1..Len(ids) : own[ids[a]] = own[ids[b]] => a = b
    BY <1>7, FirstsFacts
  <1> HIDE DEF ids
  <1>9. /\ infos \in Seq(Symbols(U) \cup {None})
        /\ \A y : y \in ToSet(infos) <=> y \in Symbols(U) /\ \E x \in ToSet(ids) : y = info[x]
        /\ (\A i, j \in 1..Len(ids) : info[ids[i]] = info[ids[j]] /\ info[ids[i]] \in Symbols(U) => i = j)
              => \A a, b \in 1..Len(infos) : infos[a] = infos[b] => a = b
    <2> DEFINE R == Symbols(U)
               V == R \cup {None}
    <2>1. \A e \in U : info[e] \in V
      BY <1>3
    <2>0. infos = Images(ids, info, R)
      OBVIOUS
    <2>3. ids \in Seq(U)
      BY <1>8
    <2> HIDE DEF R, V, infos
    <2>2. AreImages(infos, ids, info, R, V)
      BY <2>0, <2>1, <2>3, MappedFacts
    <2> QED
      BY <2>2, Zenon DEF R, V, AreImages
  <1> HIDE DEF infos
  <1>10. \A a \in 1..Len(infos) : /\ infos[a] \in Symbols(U) /\ infos[a].id \in ToSet(ids) /\ infos[a] = info[infos[a].id]
                                 /\ infos[a] \in ToSet(doc.symbols)
    <2> SUFFICES ASSUME NEW a \in 1..Len(infos)
                 PROVE  /\ infos[a] \in Symbols(U) /\ infos[a].id \in ToSet(ids) /\ infos[a] = info[infos[a].id]
                        /\ infos[a] \in ToSet(doc.symbols)
      OBVIOUS
    <2>1. infos[a] \in ToSet(infos)
      BY <1>9, RangeByPlace
    <2>2. infos[a] \in Symbols(U)
      BY <1>9, <2>1
    <2>3. PICK e \in ToSet(ids) : infos[a] = info[e]
      BY <1>9, <2>1
    <2>4. e \in U
      BY <1>8, RangeByPlace
    <2>5. SymbolInfo(doc, e).id = e /\ info[e] = SymbolInfo(doc, e) /\ SymbolInfo(doc, e) \in ToSet(doc.symbols)
      BY <1>1, <1>3, <2>2, <2>3, <2>4, SymbolInfoFacts
    <2> QED
      BY <2>2, <2>3, <2>5
  <1>11. \A i, j \in 1..Len(ids) : info[ids[i]] = info[ids[j]] /\ info[ids[i]] \in Symbols(U) => i = j
    <2> SUFFICES ASSUME NEW i \in 1..Len(ids), NEW j \in 1..Len(ids), info[ids[i]] = info[ids[j]], info[ids[i]] \in Symbols(U)
                 PROVE  i = j
      OBVIOUS
    <2>1. ids[i] \in U /\ ids[j] \in U
      BY <1>8, RangeByPlace
    <2>2. info[ids[i]].id = ids[i] /\ info[ids[j]].id = ids[j]
      BY <1>1, <1>3, <2>1, SymbolInfoFacts
    <2> QED
      BY <1>4, <1>8, <2>1, <2>2
  <1>12. \A a, b \in 1..Len(infos) : infos[a] = infos[b] => a = b
    BY <1>9, <1>11
  <1>13. infos \in Seq(Symbols(U)) /\ DOMAIN infos = 1..Len(infos) /\ Len(infos) \in Nat
    BY <1>9, <1>10
  <1>14. /\ found \in Seq(Found(U)) /\ Len(found) = Len(infos)
         /\ \A a \in 1..Len(infos) : found[a] = Located(doc, infos[a])
                 /\ found[a].symbol = infos[a].id /\ found[a].path = doc.path
    <2>1. \A a \in 1..Len(infos) : Located(doc, infos[a]) \in Found(U)
             /\ Located(doc, infos[a]).symbol = infos[a].id /\ Located(doc, infos[a]).path = doc.path
      BY <1>10, LocatedFacts
    <2> QED
      BY <1>13, <2>1
  <1> HIDE DEF found
  <1>15. \A f : f \in ToSet(found) <=> \E a \in 1..Len(infos) : f = found[a]
    BY <1>14, RangeByPlace
  <1>16. \A e \in ToSet(ids) : e \in U /\ \E o \in ToSet(doc.occs) : o.sym = id /\ ~o.def /\ EnclosingId(doc, o.line) = e
    <2> SUFFICES ASSUME NEW e \in ToSet(ids)
                 PROVE  e \in U /\ \E o \in ToSet(doc.occs) : o.sym = id /\ ~o.def /\ EnclosingId(doc, o.line) = e
      OBVIOUS
    <2>1. PICK o \in ToSet(calls) : e = enc[o] /\ e \in U
      BY <1>6, <1>8
    <2>2. o \in ToSet(doc.occs) /\ o \in P
      BY <1>5
    <2> QED
      BY <1>2, <2>1, <2>2
  <1>17. \A f \in ToSet(found) : f.path = doc.path /\ \E o \in ToSet(doc.occs) :
              o.sym = id /\ ~o.def /\ EnclosingId(doc, o.line) = f.symbol /\ f.symbol # None
    <2> SUFFICES ASSUME NEW f \in ToSet(found)
                 PROVE  f.path = doc.path /\ \E o \in ToSet(doc.occs) :
                          o.sym = id /\ ~o.def /\ EnclosingId(doc, o.line) = f.symbol /\ f.symbol # None
      OBVIOUS
    <2>1. PICK a \in 1..Len(infos) : f = found[a]
      BY <1>15
    <2>2. f.symbol \in ToSet(ids) /\ f.path = doc.path
      BY <1>10, <1>14, <2>1
    <2> QED
      BY <1>1, <1>16, <2>2
  <1>18. ASSUME NEW o \in ToSet(doc.occs), o.sym = id, ~o.def,
                EnclosingId(doc, o.line) # None, SymbolInfo(doc, EnclosingId(doc, o.line)) # None
         PROVE  Located(doc, SymbolInfo(doc, EnclosingId(doc, o.line))) \in ToSet(found)
    <2>1. o \in Occs(U) /\ o \in P
      BY <1>1, <1>18, RangeByPlace
    <2>2. o \in ToSet(calls)
      BY <1>5, <2>1
    <2>3. enc[o] \in ToSet(encs) /\ enc[o] = EnclosingId(doc, o.line) /\ enc[o] \in U
      BY <1>2, <1>6, <1>18, <2>1, <2>2
    <2>4. enc[o] \in ToSet(ids)
      <3>1. PICK y \in ToSet(ids) : own[y] = own[enc[o]]
        BY <1>8, <2>3
      <3>2. y \in U
        BY <1>8, RangeByPlace
      <3> QED
        BY <1>4, <2>3, <3>1, <3>2
    <2>5. info[enc[o]] \in ToSet(infos) /\ info[enc[o]] = SymbolInfo(doc, EnclosingId(doc, o.line))
      BY <1>3, <1>9, <1>18, <2>3, <2>4
    <2>6. PICK a \in 1..Len(infos) : info[enc[o]] = infos[a]
      BY <1>9, <2>5, RangeByPlace
    <2> QED
      BY <1>14, <1>15, <2>5, <2>6
  <1>19. \A a, b \in 1..Len(found) : found[a].symbol = found[b].symbol => a = b
    BY <1>10, <1>12, <1>14
  <1>20. \A f \in ToSet(found) : \E s \in ToSet(doc.symbols) : f = Located(doc, s)
    BY <1>10, <1>14, <1>15
  <1>21. CallersIn(doc, id) = found
    <2>1. Kept(doc.occs, LAMBDA o : o.sym = id /\ ~o.def) = calls
      BY <1>1 DEF Kept, Passing, calls
    <2>2. Mapped(calls, LAMBDA o : EnclosingId(doc, o.line)) = encs
      <3> DEFINE m == [i \in DOMAIN calls |-> EnclosingId(doc, calls[i].line)]
                 n == [i \in DOMAIN calls |-> enc[calls[i]]]
      <3>1. \A i \in DOMAIN calls : calls[i] \in Occs(U)
        BY <1>5
      <3>2. m = n
        BY <1>2, <3>1
      <3>3. \A i \in DOMAIN calls : n[i] # None <=> n[i] \in U
        BY <1>1, <1>2, <3>1
      <3>4. DOMAIN n = DOMAIN calls
        OBVIOUS
      <3>5. Mapped(calls, LAMBDA o : EnclosingId(doc, o.line)) = Kept(m, LAMBDA e : e # None)
        BY Zenon DEF Mapped
      <3> HIDE DEF m, n
      <3>6. Kept(n, LAMBDA e : e # None) = Passing(n, U)
        BY <3>3, <3>4 DEF Kept, Passing
      <3> QED
        BY <3>2, <3>5, <3>6 DEF encs, Images, n
    <2>3. Distinct(encs) = ids
      <3>1. \A i \in DOMAIN encs : encs[i] \in U /\ own[encs[i]] = encs[i] /\ \A j \in 1..i - 1 : j \in DOMAIN encs /\ own[encs[j]] = encs[j]
        BY <1>4, <1>7
      <3> QED
        BY <3>1 DEF Distinct, Firsts, ids, FirstsBy
    <2>4. Mapped(ids, LAMBDA e : SymbolInfo(doc, e)) = infos
      <3> DEFINE m == [i \in DOMAIN ids |-> SymbolInfo(doc, ids[i])]
                 n == [i \in DOMAIN ids |-> info[ids[i]]]
      <3>1. \A i \in DOMAIN ids : ids[i] \in U
        BY <1>8
      <3>2. m = n
        BY <1>3, <3>1
      <3>3. \A i \in DOMAIN ids : n[i] # None <=> n[i] \in Symbols(U)
        BY <1>1, <1>3, <3>1
      <3>4. DOMAIN n = DOMAIN ids
        OBVIOUS
      <3>5. Mapped(ids, LAMBDA e : SymbolInfo(doc, e)) = Kept(m, LAMBDA e : e # None)
        BY Zenon DEF Mapped
      <3> HIDE DEF m, n
      <3>6. Kept(n, LAMBDA e : e # None) = Passing(n, Symbols(U))
        BY <3>3, <3>4 DEF Kept, Passing
      <3> QED
        BY <3>2, <3>5, <3>6 DEF infos, Images, n
    <2> QED
      BY <2>1, <2>2, <2>3, <2>4, Zenon DEF CallersIn, found
  <1> QED
    BY <1>14, <1>17, <1>18, <1>19, <1>20, <1>21

\* The fields of an occurrence.
LEMMA DefinitionFields ==
  ASSUME NEW U, NEW o \in Occs(U)
  PROVE  o.sym \in U /\ o.line \in Nat /\ o.def \in BOOLEAN
  BY DEF Occs

\* What enclosing_defs_of_callers finds, document by document.
LEMMA CallersFacts ==
  ASSUME NEW U, Apart(U), NEW index \in Indexes(U), NEW id
  PROVE  LET found == enclosing_defs_of_callers(index, id) IN
         /\ found \in Seq(Found(U))
         /\ \A f : f \in ToSet(found) <=> \E doc \in ToSet(index) : f \in ToSet(CallersIn(doc, id))
         /\ \A a, b \in 1..Len(found) : found[a] = found[b] => a = b
  <1> DEFINE pieces == [i \in DOMAIN index |-> CallersIn(index[i], id)]
             found == FlattenSeq(pieces)
             own == [f \in Found(U) |-> f]
  <1>1. /\ index \in Seq(Docs(U)) /\ DOMAIN index = 1..Len(index) /\ Len(index) \in Nat
        /\ \A i \in 1..Len(index) : index[i] \in Docs(U)
        /\ \A x : x \in ToSet(index) <=> \E i \in 1..Len(index) : x = index[i]
    BY RangeByPlace DEF Indexes
  <1>2. \A i, j \in 1..Len(index) : index[i].path = index[j].path => i = j
    BY DEF Indexes
  <1>3. \A i \in 1..Len(index) : CallersIn(index[i], id) \in Seq(Found(U))
    BY <1>1, CallersInFacts
  <1>4. pieces \in Seq(Seq(Found(U))) /\ Len(pieces) = Len(index) /\ \A i \in 1..Len(index) : pieces[i] = CallersIn(index[i], id)
    BY <1>1, <1>3
  <1>5. enclosing_defs_of_callers(index, id) = found
    BY Zenon DEF enclosing_defs_of_callers, CallersIn
  <1>6. \A f \in Found(U) : own[f] = f
    OBVIOUS
  <1> HIDE DEF pieces, own
  <1>7. found \in Seq(Found(U)) /\ \A x : x \in ToSet(found) <=> \E i \in 1..Len(pieces) : x \in ToSet(pieces[i])
    BY <1>4, FlattenRange
  <1>8. ASSUME NEW i \in 1..Len(pieces), NEW a \in 1..Len(pieces[i])
        PROVE  pieces[i][a] \in Found(U) /\ pieces[i][a].path = index[i].path /\ i \in 1..Len(index)
    <2>1. i \in 1..Len(index) /\ index[i] \in Docs(U) /\ pieces[i] = CallersIn(index[i], id) /\ pieces[i] \in Seq(Found(U))
      BY <1>1, <1>3, <1>4
    <2>2. pieces[i][a] \in ToSet(pieces[i]) /\ pieces[i][a] \in Found(U)
      BY <2>1, RangeByPlace
    <2>3. pieces[i][a].path = index[i].path
      BY <2>1, <2>2, CallersInFacts
    <2> QED
      BY <2>1, <2>2, <2>3
  <1>9. \A i \in 1..Len(pieces) : \A a, b \in 1..Len(pieces[i]) : own[pieces[i][a]] = own[pieces[i][b]] => a = b
    <2> SUFFICES ASSUME NEW i \in 1..Len(pieces), NEW a \in 1..Len(pieces[i]), NEW b \in 1..Len(pieces[i]),
                        own[pieces[i][a]] = own[pieces[i][b]]
                 PROVE  a = b
      OBVIOUS
    <2>1. pieces[i][a] = pieces[i][b]
      BY <1>6, <1>8
    <2>2. i \in 1..Len(index) /\ index[i] \in Docs(U) /\ pieces[i] = CallersIn(index[i], id)
      BY <1>1, <1>4
    <2>3. \A k, l \in 1..Len(CallersIn(index[i], id)) : CallersIn(index[i], id)[k].symbol = CallersIn(index[i], id)[l].symbol => k = l
      BY <2>2, CallersInFacts
    <2> QED
      BY <2>1, <2>2, <2>3
  <1>10. \A i, j \in 1..Len(pieces) : \A a \in 1..Len(pieces[i]) : \A b \in 1..Len(pieces[j]) :
           own[pieces[i][a]] = own[pieces[j][b]] => i = j
    <2> SUFFICES ASSUME NEW i \in 1..Len(pieces), NEW j \in 1..Len(pieces), NEW a \in 1..Len(pieces[i]), NEW b \in 1..Len(pieces[j]),
                        own[pieces[i][a]] = own[pieces[j][b]]
                 PROVE  i = j
      OBVIOUS
    <2>1. pieces[i][a] = pieces[j][b]
      BY <1>6, <1>8
    <2>2. index[i].path = index[j].path /\ i \in 1..Len(index) /\ j \in 1..Len(index)
      BY <1>8, <2>1
    <2> QED
      BY <1>2, <2>2
  <1>11. \A k, l \in 1..Len(found) : own[found[k]] = own[found[l]] => k = l
    BY <1>4, <1>9, <1>10, FlattenOnce
  <1>12. \A k \in 1..Len(found) : found[k] \in Found(U)
    BY <1>7, RangeByPlace
  <1>13. \A a, b \in 1..Len(found) : found[a] = found[b] => a = b
    <2> HIDE DEF found
    <2> QED
      BY <1>11, Zenon
  <1>14. \A f : f \in ToSet(found) <=> \E doc \in ToSet(index) : f \in ToSet(CallersIn(doc, id))
    <2> HIDE DEF found
    <2>1. 1..Len(pieces) = 1..Len(index)
      BY <1>4
    <2>2. \A f : f \in ToSet(found) <=> \E i \in 1..Len(index) : f \in ToSet(CallersIn(index[i], id))
      BY <1>4, <1>7, <2>1, Zenon
    <2> QED
      BY <1>1, <2>2, Zenon
  <1> QED
    BY <1>5, <1>7, <1>13, <1>14

\* The fields of the occurrences of a document of an index.
LEMMA OccurrenceFields ==
  ASSUME NEW U, NEW index \in Indexes(U), NEW doc \in ToSet(index)
  PROVE  doc \in Docs(U) /\ \A x \in ToSet(doc.occs) : x \in Occs(U) /\ x.line \in Nat /\ x.sym \in U
  <1>1. doc \in Docs(U)
    BY RangeByPlace DEF Indexes
  <1>2. doc.occs \in Seq(Occs(U))
    BY <1>1 DEF Docs
  <1>3. \A x \in ToSet(doc.occs) : x \in Occs(U)
    BY <1>2, RangeByPlace
  <1> QED
    BY <1>1, <1>3, DefinitionFields

\* A described definition alone on its line that calls the symbol is among the callers.
LEMMA CallerIsFound ==
  ASSUME NEW U, Apart(U), NEW index \in Indexes(U), NEW id, NEW doc \in ToSet(index),
         NEW d \in ToSet(doc.occs), d.def, AloneOnLine(doc, d), CallIn(doc, d, id),
         NEW s \in ToSet(doc.symbols), s.id = d.sym
  PROVE  /\ SymbolInfo(doc, d.sym) \in Symbols(U)
         /\ Located(doc, SymbolInfo(doc, d.sym)) \in ToSet(enclosing_defs_of_callers(index, id))
         /\ Located(doc, SymbolInfo(doc, d.sym)).symbol = d.sym
         /\ Located(doc, SymbolInfo(doc, d.sym)).path = doc.path
  <1>1. PICK o \in ToSet(doc.occs) : o.sym = id /\ ~o.def /\ d.line <= o.line /\ NoneBetween(doc, d.line, o.line)
    BY DEF CallIn
  <1>2. doc \in Docs(U) /\ o.line \in Nat /\ d.sym \in U
    BY OccurrenceFields
  <1>3. EnclosingId(doc, o.line) = d.sym
    BY <1>1, <1>2, EnclosingIsLast DEF AloneOnLine
  <1>4. d.sym # None
    BY <1>2 DEF Apart
  <1>5. SymbolInfo(doc, d.sym) # None /\ SymbolInfo(doc, d.sym) \in Symbols(U) /\ SymbolInfo(doc, d.sym).id = d.sym
    BY <1>2, SymbolInfoFacts
  <1>6. Located(doc, SymbolInfo(doc, d.sym)) \in ToSet(CallersIn(doc, id))
    BY <1>1, <1>2, <1>3, <1>4, <1>5, CallersInFacts
  <1>7. Located(doc, SymbolInfo(doc, d.sym)).symbol = d.sym /\ Located(doc, SymbolInfo(doc, d.sym)).path = doc.path
    BY <1>2, <1>5, LocatedFacts
  <1> QED
    BY <1>5, <1>6, <1>7, CallersFacts

\* A caller found is a described definition that calls the symbol.
LEMMA FoundIsCaller ==
  ASSUME NEW U, Apart(U), NEW index \in Indexes(U), NEW id, NEW f \in ToSet(enclosing_defs_of_callers(index, id))
  PROVE  \E doc \in ToSet(index) : \E d \in ToSet(doc.occs) :
           /\ doc.path = f.path /\ d.def /\ d.sym = f.symbol /\ CallIn(doc, d, id)
           /\ \E s \in ToSet(doc.symbols) : f = Located(doc, s)
  <1>1. PICK doc \in ToSet(index) : f \in ToSet(CallersIn(doc, id))
    BY CallersFacts
  <1>2. doc \in Docs(U)
    BY OccurrenceFields
  <1>3. f.path = doc.path
    BY <1>1, <1>2, CallersInFacts
  <1>4. PICK o \in ToSet(doc.occs) : o.sym = id /\ ~o.def /\ EnclosingId(doc, o.line) = f.symbol /\ f.symbol # None
    BY <1>1, <1>2, CallersInFacts
  <1>5. o.line \in Nat
    BY OccurrenceFields
  <1>6. PICK d \in ToSet(doc.occs) : d.def /\ d.sym = EnclosingId(doc, o.line) /\ d.line <= o.line /\ NoneBetween(doc, d.line, o.line)
    BY <1>2, <1>4, <1>5, EnclosingFacts
  <1>7. CallIn(doc, d, id)
    BY <1>4, <1>6 DEF CallIn
  <1>8. \E s \in ToSet(doc.symbols) : f = Located(doc, s)
    BY <1>1, <1>2, CallersInFacts
  <1> QED
    BY <1>3, <1>4, <1>6, <1>7, <1>8

\* "Which functions call this symbol" is exact, for every index.
LEMMA CallersAlwaysExact ==
  ASSUME NEW U, Apart(U), Is("scip") => input.index \in Indexes(U)
  PROVE  CallersExact
  <1> SUFFICES ASSUME Is("scip"), NEW id \in input.ids
               PROVE  LET found == enclosing_defs_of_callers(input.index, id) IN
    /\ IsInjective(found)
    /\ \A doc \in ToSet(input.index) :
         \A d \in {o \in ToSet(doc.occs) : o.def} : \A s \in ToSet(doc.symbols) :
           s.id = d.sym /\ AloneOnLine(doc, d) /\ CallIn(doc, d, id) =>
             \E f \in ToSet(found) : f.symbol = d.sym /\ f.path = doc.path
    /\ \A f \in ToSet(found) : \E doc \in ToSet(input.index) : \E d \in ToSet(doc.occs) :
         doc.path = f.path /\ d.def /\ d.sym = f.symbol /\ CallIn(doc, d, id)
    BY Zenon DEF CallersExact
  <1> DEFINE index == input.index
             found == enclosing_defs_of_callers(index, id)
  <1>1. index \in Indexes(U)
    OBVIOUS
  <1> HIDE DEF index
  <1>2. IsInjective(found)
    <2>1. found \in Seq(Found(U)) /\ \A a, b \in 1..Len(found) : found[a] = found[b] => a = b
      BY <1>1, CallersFacts
    <2> HIDE DEF found
    <2> QED
      BY <2>1 DEF IsInjective
  <1>3. ASSUME NEW doc \in ToSet(index), NEW d \in ToSet(doc.occs), d.def, NEW s \in ToSet(doc.symbols), s.id = d.sym,
               AloneOnLine(doc, d), CallIn(doc, d, id)
        PROVE  \E f \in ToSet(found) : f.symbol = d.sym /\ f.path = doc.path
    BY <1>1, <1>3, CallerIsFound
  <1>4. ASSUME NEW f \in ToSet(found)
        PROVE  \E doc \in ToSet(index) : \E d \in ToSet(doc.occs) :
                 doc.path = f.path /\ d.def /\ d.sym = f.symbol /\ CallIn(doc, d, id)
    BY <1>1, FoundIsCaller
  <1> HIDE DEF found
  <1> QED
    BY <1>2, <1>3, <1>4 DEF found, index

\* A document is found by its path, as no other has the same.
LEMMA DocumentFacts ==
  ASSUME NEW U, Apart(U), NEW index \in Indexes(U), NEW doc \in ToSet(index)
  PROVE  DocumentAt(index, doc.path) = doc /\ doc \in Docs(U) /\ doc # None
  <1> DEFINE I == {i \in 1..Len(index) : index[i].path = doc.path}
  <1>1. /\ index \in Seq(Docs(U)) /\ \A i \in 1..Len(index) : index[i] \in Docs(U)
        /\ \A i, j \in 1..Len(index) : index[i].path = index[j].path => i = j
    BY RangeByPlace DEF Indexes
  <1>2. PICK k \in 1..Len(index) : doc = index[k]
    BY <1>1, RangeByPlace
  <1>3. SelectInSeq(index, LAMBDA d : d.path = doc.path) = IF I # {} THEN Min(I) ELSE 0
    BY Zenon DEF SelectInSeq
  <1>4. DocumentAt(index, doc.path)
          = LET i == SelectInSeq(index, LAMBDA d : d.path = doc.path) IN IF i = 0 THEN None ELSE index[i]
    BY Zenon DEF First, DocumentAt
  <1>5. k \in I /\ I \subseteq 1..Len(index) /\ I \in SUBSET Nat
    BY <1>2
  <1>6. Min(I) \in I
    <2> HIDE DEF I
    <2> QED
      BY <1>5, LeastOne
  <1> DEFINE m == Min(I)
  <1>7. m \in 1..Len(index) /\ index[m].path = index[k].path
    BY <1>2, <1>6
  <1> HIDE DEF m
  <1>8. m = k /\ m # 0
    BY <1>1, <1>7
  <1>9. DocumentAt(index, doc.path) = index[m]
    <2> HIDE DEF I
    <2> QED
      BY <1>3, <1>4, <1>5, <1>8 DEF m
  <1> QED
    BY <1>1, <1>2, <1>8, <1>9 DEF Apart

\* The definitions in a path are those its document describes.
LEMMA DefsFacts ==
  ASSUME NEW U, Apart(U), NEW index \in Indexes(U), NEW path
  PROVE  /\ defs_in_path(index, path) \in Seq(Found(U))
         /\ \A x \in ToSet(defs_in_path(index, path)) :
              \E doc \in ToSet(index) : doc.path = path /\ \E s \in ToSet(doc.symbols) : x = Located(doc, s)
  <1> DEFINE doc == DocumentAt(index, path)
  <1>1. doc = None \/ (doc \in ToSet(index) /\ doc \in Docs(U) /\ doc.path = path)
    <2> DEFINE I == {i \in 1..Len(index) : index[i].path = path}
    <2>1. index \in Seq(Docs(U)) /\ \A i \in 1..Len(index) : index[i] \in Docs(U) /\ index[i] \in ToSet(index)
      BY RangeByPlace DEF Indexes
    <2>2. SelectInSeq(index, LAMBDA d : d.path = path) = IF I # {} THEN Min(I) ELSE 0
      BY Zenon DEF SelectInSeq
    <2>3. doc = LET i == SelectInSeq(index, LAMBDA d : d.path = path) IN IF i = 0 THEN None ELSE index[i]
      BY Zenon DEF First, DocumentAt
    <2>4. I # {} => Min(I) \in 1..Len(index) /\ index[Min(I)].path = path
      <3>1. I \in SUBSET Nat /\ I \subseteq 1..Len(index) /\ \A i \in I : index[i].path = path
        OBVIOUS
      <3> HIDE DEF I
      <3> QED
        BY <3>1, LeastOne
    <2> HIDE DEF I, doc
    <2> QED
      BY <2>1, <2>2, <2>3, <2>4
  <1> HIDE DEF doc
  <1>2. CASE doc = None
    <2>1. defs_in_path(index, path) = <<>>
      BY <1>2 DEF defs_in_path, doc
    <2> QED
      BY <2>1 DEF ToSet
  <1>3. CASE doc \in ToSet(index) /\ doc \in Docs(U) /\ doc.path = path /\ doc # None
    <2> DEFINE defs == [j \in DOMAIN doc.symbols |-> Located(doc, doc.symbols[j])]
    <2>1. /\ doc.symbols \in Seq(Symbols(U)) /\ DOMAIN doc.symbols = 1..Len(doc.symbols) /\ Len(doc.symbols) \in Nat
          /\ \A j \in 1..Len(doc.symbols) : doc.symbols[j] \in Symbols(U) /\ doc.symbols[j] \in ToSet(doc.symbols)
      <3>1. doc.symbols \in Seq(Symbols(U))
        BY <1>3 DEF Docs
      <3> QED
        BY <3>1, RangeByPlace
    <2>2. defs_in_path(index, path) = defs
      BY <1>3, Zenon DEF defs_in_path, doc
    <2>3. \A j \in 1..Len(doc.symbols) : Located(doc, doc.symbols[j]) \in Found(U)
      BY <1>3, <2>1, LocatedFacts
    <2>4. defs \in Seq(Found(U)) /\ Len(defs) = Len(doc.symbols) /\ \A j \in 1..Len(defs) : defs[j] = Located(doc, doc.symbols[j])
      BY <2>1, <2>3
    <2> HIDE DEF defs
    <2>5. ASSUME NEW x \in ToSet(defs)
          PROVE  \E s \in ToSet(doc.symbols) : x = Located(doc, s)
      <3>1. PICK j \in 1..Len(defs) : x = defs[j]
        BY <2>4, RangeByPlace
      <3> QED
        BY <2>1, <2>4, <3>1
    <2> QED
      BY <1>3, <2>2, <2>4, <2>5
  <1> QED
    BY <1>1, <1>2, <1>3

\* What a document describes is among the definitions in its path.
LEMMA DescribedFacts ==
  ASSUME NEW U, Apart(U), NEW index \in Indexes(U), NEW doc \in ToSet(index), NEW s \in ToSet(doc.symbols)
  PROVE  /\ s \in Symbols(U) /\ Located(doc, s) \in Found(U)
         /\ Located(doc, s).symbol = s.id /\ Located(doc, s).path = doc.path /\ Located(doc, s).name = DisplayName(s)
         /\ Located(doc, s) \in ToSet(defs_in_path(index, doc.path))
  <1>1. DocumentAt(index, doc.path) = doc /\ doc \in Docs(U) /\ doc # None
    BY DocumentFacts
  <1> DEFINE defs == [j \in DOMAIN doc.symbols |-> Located(doc, doc.symbols[j])]
  <1>2. doc.symbols \in Seq(Symbols(U))
    BY <1>1 DEF Docs
  <1>3. PICK k \in 1..Len(doc.symbols) : s = doc.symbols[k]
    BY <1>2, RangeByPlace
  <1>4. s \in Symbols(U)
    BY <1>2, <1>3
  <1>5. Located(doc, s) \in Found(U) /\ Located(doc, s).symbol = s.id /\ Located(doc, s).path = doc.path
    BY <1>1, <1>4, LocatedFacts
  <1>6. Located(doc, s).name = DisplayName(s)
    BY DEF Located
  <1>7. defs_in_path(index, doc.path) = defs
    BY <1>1, Zenon DEF defs_in_path
  <1>8. k \in DOMAIN defs /\ defs[k] = Located(doc, s)
    BY <1>2, <1>3
  <1>9. Located(doc, s) \in ToSet(defs)
    <2> HIDE DEF defs
    <2> QED
      BY <1>8 DEF ToSet
  <1> HIDE DEF defs
  <1> QED
    BY <1>4, <1>5, <1>6, <1>7, <1>9

\* Files as git status lists them.
Files(U) == [path : U, ignored : BOOLEAN, staged : BOOLEAN, working : BOOLEAN]

\* The elements of two sequences one after the other are those of both.
LEMMA AppendRange ==
  ASSUME NEW S, NEW u \in Seq(S), NEW v \in Seq(S)
  PROVE  u \o v \in Seq(S) /\ \A x : x \in ToSet(u \o v) <=> x \in ToSet(u) \/ x \in ToSet(v)
  <1> DEFINE w == u \o v
  <1>1. /\ w \in Seq(S) /\ Len(u) \in Nat
        /\ \A k \in 1..Len(u) : k \in 1..Len(w) /\ w[k] = u[k]
        /\ \A j \in 1..Len(v) : Len(u) + j \in 1..Len(w) /\ w[Len(u) + j] = v[j]
        /\ \A k \in 1..Len(w) : k \in 1..Len(u) \/ \E j \in 1..Len(v) : k = Len(u) + j
    BY AppendPlaces
  <1> HIDE DEF w
  <1>2. /\ \A x : x \in ToSet(w) <=> \E i \in 1..Len(w) : x = w[i]
        /\ \A x : x \in ToSet(u) <=> \E i \in 1..Len(u) : x = u[i]
        /\ \A x : x \in ToSet(v) <=> \E i \in 1..Len(v) : x = v[i]
    BY <1>1, RangeByPlace
  <1>3. ASSUME NEW x \in ToSet(w)
        PROVE  x \in ToSet(u) \/ x \in ToSet(v)
    <2>1. PICK k \in 1..Len(w) : x = w[k]
      BY <1>2
    <2>2. CASE k \in 1..Len(u)
      BY <1>1, <1>2, <2>1, <2>2
    <2>3. ASSUME NEW j \in 1..Len(v), k = Len(u) + j
          PROVE  x \in ToSet(v)
      BY <1>1, <1>2, <2>1, <2>3
    <2> QED
      BY <1>1, <2>2, <2>3
  <1>4. \A x \in ToSet(u) : x \in ToSet(w)
    BY <1>1, <1>2
  <1>5. \A x \in ToSet(v) : x \in ToSet(w)
    BY <1>1, <1>2
  <1> QED
    BY <1>1, <1>3, <1>4, <1>5 DEF w

\* The tests are those of the definitions in the changed files and of their callers.
ChangedPaths(files) == {f.path : f \in {g \in ToSet(files) : ~g.ignored /\ (g.staged \/ g.working)}}
TestsFit(index, files) ==
  LET changed == ChangedPaths(files)
      tests   == tests_for_changed_files(index, files)
      defined == UNION {ToSet(defs_in_path(index, p)) : p \in changed}
      calling == UNION {ToSet(enclosing_defs_of_callers(index, d.symbol)) : d \in defined} IN
  /\ \A i, j \in DOMAIN tests : tests[i].symbol = tests[j].symbol => i = j
  /\ \A t \in ToSet(tests) : is_test_symbol(t) /\ t \in defined \cup calling
  /\ \A u \in defined \cup calling : is_test_symbol(u) => \E t \in ToSet(tests) : t.symbol = u.symbol

\* tests_for_changed_files finds one test of each symbol, from what is defined in the
\* changed files and from what calls it, and no others.
LEMMA TestsFacts ==
  ASSUME NEW U, Apart(U), NEW index \in Indexes(U), NEW files \in Seq(Files(U))
  PROVE  TestsFit(index, files)
  <1> DEFINE F == Found(U)
             P == {g \in Files(U) : IsChanged(g)}
             changed == {f.path : f \in {g \in ToSet(files) : ~g.ignored /\ (g.staged \/ g.working)}}
             defined == UNION {ToSet(defs_in_path(index, p)) : p \in changed}
             calling == UNION {ToSet(enclosing_defs_of_callers(index, d.symbol)) : d \in defined}
             kept == Passing(files, P)
             dp == [i \in DOMAIN kept |-> defs_in_path(index, kept[i].path)]
             defs == FlattenSeq(dp)
             cp == [i \in DOMAIN defs |-> enclosing_defs_of_callers(index, defs[i].symbol)]
             callees == FlattenSeq(cp)
             both == defs \o callees
             isTest == {u \in F : is_test_symbol(u)}
             passed == Passing(both, isTest)
             symbol == [u \in F |-> u.symbol]
             tests == FirstsBy(passed, symbol)
  <1>1. /\ kept \in Seq(Files(U)) /\ DOMAIN kept = 1..Len(kept)
        /\ \A g : g \in ToSet(kept) <=> g \in ToSet(files) /\ g \in P
    <2> HIDE DEF P
    <2> QED
      BY KeptFacts, RangeByPlace
  <1>2. Kept(files, IsChanged) = kept
    <2>1. \A i \in DOMAIN files : files[i] \in Files(U)
      OBVIOUS
    <2> QED
      BY <2>1 DEF Kept, Passing
  <1>3. \A p : p \in changed <=> \E g \in ToSet(kept) : p = g.path
    <2>1. \A g \in ToSet(files) : g \in Files(U)
      BY RangeByPlace
    <2>2. \A g \in ToSet(files) : g \in P <=> ~g.ignored /\ (g.staged \/ g.working)
      BY <2>1 DEF IsChanged
    <2> HIDE DEF P, kept
    <2> QED
      BY <1>1, <2>2
  <1> HIDE DEF F, P, changed, kept
  <1>4. \A p : defs_in_path(index, p) \in Seq(F)
    BY DefsFacts DEF F
  <1>5. dp \in Seq(Seq(F)) /\ Len(dp) = Len(kept) /\ \A i \in 1..Len(kept) : dp[i] = defs_in_path(index, kept[i].path)
    BY <1>1, <1>4
  <1> HIDE DEF dp
  <1>6. defs \in Seq(F) /\ \A x : x \in ToSet(defs) <=> \E i \in 1..Len(dp) : x \in ToSet(dp[i])
    BY <1>5, FlattenRange
  <1> HIDE DEF defs
  <1>7. \A x : x \in ToSet(defs) <=> x \in defined
    <2>1. \A g : g \in ToSet(kept) <=> \E i \in 1..Len(kept) : g = kept[i]
      BY <1>1, RangeByPlace
    <2>2. 1..Len(dp) = 1..Len(kept)
      BY <1>5
    <2>3. \A x : x \in ToSet(defs) <=> \E i \in 1..Len(kept) : x \in ToSet(defs_in_path(index, kept[i].path))
      BY <1>5, <1>6, <2>2, Zenon
    <2>4. \A x : x \in defined <=> \E p \in changed : x \in ToSet(defs_in_path(index, p))
      OBVIOUS
    <2> HIDE DEF defined
    <2>6. ASSUME NEW x, NEW p \in changed, x \in ToSet(defs_in_path(index, p))
          PROVE  \E i \in 1..Len(kept) : x \in ToSet(defs_in_path(index, kept[i].path))
      <3>1. PICK g \in ToSet(kept) : p = g.path
        BY <1>3
      <3>2. PICK i \in 1..Len(kept) : g = kept[i]
        BY <2>1
      <3> QED
        BY <2>6, <3>1, <3>2
    <2>7. ASSUME NEW x, NEW i \in 1..Len(kept), x \in ToSet(defs_in_path(index, kept[i].path))
          PROVE  \E p \in changed : x \in ToSet(defs_in_path(index, p))
      <3>1. kept[i] \in ToSet(kept)
        BY <2>1
      <3>2. kept[i].path \in changed
        BY <1>3, <3>1
      <3> QED
        BY <2>7, <3>2
    <2>5. \A x : x \in defined <=> \E i \in 1..Len(kept) : x \in ToSet(defs_in_path(index, kept[i].path))
      BY <2>4, <2>6, <2>7
    <2> QED
      BY <2>3, <2>5, Zenon
  <1> HIDE DEF defined
  <1>8. \A id : enclosing_defs_of_callers(index, id) \in Seq(F)
    BY CallersFacts DEF F
  <1>9. DOMAIN defs = 1..Len(defs) /\ \A x : x \in ToSet(defs) <=> \E i \in 1..Len(defs) : x = defs[i]
    BY <1>6, RangeByPlace
  <1>10. cp \in Seq(Seq(F)) /\ Len(cp) = Len(defs) /\ \A i \in 1..Len(defs) : cp[i] = enclosing_defs_of_callers(index, defs[i].symbol)
    BY <1>6, <1>8, <1>9
  <1> HIDE DEF cp
  <1>11. callees \in Seq(F) /\ \A x : x \in ToSet(callees) <=> \E i \in 1..Len(cp) : x \in ToSet(cp[i])
    BY <1>10, FlattenRange
  <1> HIDE DEF callees
  <1>12. \A x : x \in ToSet(callees) <=> x \in calling
    <2>1. 1..Len(cp) = 1..Len(defs)
      BY <1>10
    <2>2. \A x : x \in ToSet(callees) <=> \E i \in 1..Len(defs) : x \in ToSet(enclosing_defs_of_callers(index, defs[i].symbol))
      BY <1>10, <1>11, <2>1, Zenon
    <2>3. \A x : x \in calling <=> \E d \in defined : x \in ToSet(enclosing_defs_of_callers(index, d.symbol))
      OBVIOUS
    <2> QED
      BY <1>7, <1>9, <2>2, <2>3, Zenon
  <1> HIDE DEF calling
  <1>13. both \in Seq(F) /\ \A x : x \in ToSet(both) <=> x \in ToSet(defs) \/ x \in ToSet(callees)
    BY <1>6, <1>11, AppendRange
  <1> HIDE DEF both
  <1>14. passed \in Seq(F) /\ \A x : x \in ToSet(passed) <=> x \in ToSet(both) /\ x \in isTest
    <2> HIDE DEF isTest
    <2> QED
      BY <1>13, KeptFacts
  <1>15. Kept(both, is_test_symbol) = passed
    <2>1. \A i \in DOMAIN both : both[i] \in F
      BY <1>13
    <2> QED
      BY <2>1 DEF Kept, Passing
  <1> HIDE DEF passed
  <1>16. /\ tests \in Seq(F)
         /\ \A x \in ToSet(tests) : x \in ToSet(passed)
         /\ \A x \in ToSet(passed) : \E y \in ToSet(tests) : symbol[y] = symbol[x]
         /\ \A a, b \in 1..Len(tests) : symbol[tests[a]] = symbol[tests[b]] => a = b
    <2> HIDE DEF symbol
    <2> QED
      BY <1>14, FirstsFacts
  <1>17. Firsts(passed, LAMBDA t : t.symbol) = tests
    <2>1. \A i \in DOMAIN passed : symbol[passed[i]] = passed[i].symbol /\ \A j \in 1..i - 1 : symbol[passed[j]] = passed[j].symbol
      BY <1>14
    <2> QED
      BY <2>1 DEF Firsts, FirstsBy
  <1>18. tests_for_changed_files(index, files) = tests
    BY <1>2, <1>15, <1>17, Zenon DEF tests_for_changed_files, both, callees, cp, defs, dp
  <1> HIDE DEF tests
  <1>19. \A x \in ToSet(passed) : x \in F /\ symbol[x] = x.symbol
    BY <1>14, RangeByPlace
  <1>20. \A i, j \in DOMAIN tests : tests[i].symbol = tests[j].symbol => i = j
    <2>1. DOMAIN tests = 1..Len(tests) /\ \A i \in 1..Len(tests) : tests[i] \in F
      BY <1>16, RangeByPlace
    <2> QED
      BY <1>16, <2>1
  <1>21. \A x : x \in ToSet(passed) <=> x \in defined \cup calling /\ is_test_symbol(x)
    <2>1. \A x \in ToSet(both) : x \in F
      BY <1>13, RangeByPlace
    <2> QED
      BY <1>7, <1>12, <1>13, <1>14, <2>1
  <1> HIDE DEF isTest, symbol
  <1>22. \A t \in ToSet(tests) : is_test_symbol(t) /\ t \in defined \cup calling
    BY <1>16, <1>21
  <1>23. \A u \in defined \cup calling : is_test_symbol(u) => \E t \in ToSet(tests) : t.symbol = u.symbol
    <2> SUFFICES ASSUME NEW u \in defined \cup calling, is_test_symbol(u)
                 PROVE  \E t \in ToSet(tests) : t.symbol = u.symbol
      OBVIOUS
    <2>1. u \in ToSet(passed)
      BY <1>21
    <2>2. PICK t \in ToSet(tests) : symbol[t] = symbol[u]
      BY <1>16, <2>1
    <2> QED
      BY <1>16, <1>19, <2>1, <2>2
  <1> QED
    BY <1>18, <1>20, <1>22, <1>23, Zenon DEF defined, calling, changed, ChangedPaths, TestsFit

\* A test the document describes is one of the tests found by the changed files.
LEMMA TestIsFound ==
  ASSUME NEW U, Apart(U), NEW index \in Indexes(U), NEW files \in Seq(Files(U)),
         NEW x, is_test_symbol(x), NEW p \in ChangedPaths(files),
         \/ x \in ToSet(defs_in_path(index, p))
         \/ \E d \in ToSet(defs_in_path(index, p)) : x \in ToSet(enclosing_defs_of_callers(index, d.symbol))
  PROVE  \E t \in ToSet(tests_for_changed_files(index, files)) : t.symbol = x.symbol
  <1> DEFINE tests   == tests_for_changed_files(index, files)
             defined == UNION {ToSet(defs_in_path(index, q)) : q \in ChangedPaths(files)}
             calling == UNION {ToSet(enclosing_defs_of_callers(index, d.symbol)) : d \in defined}
  <1>1. TestsFit(index, files)
    BY TestsFacts
  <1>2. \A u \in defined \cup calling : is_test_symbol(u) => \E t \in ToSet(tests) : t.symbol = u.symbol
    BY <1>1, Zenon DEF TestsFit
  <1>3. x \in defined \cup calling
    OBVIOUS
  <1> HIDE DEF tests, defined, calling
  <1> QED
    BY <1>2, <1>3 DEF tests

\* The tests found are tests, defined in a changed file or calling what is defined there.
LEMMA FoundIsTest ==
  ASSUME NEW U, Apart(U), NEW index \in Indexes(U), NEW files \in Seq(Files(U)),
         NEW t \in ToSet(tests_for_changed_files(index, files))
  PROVE  /\ is_test_symbol(t)
         /\ \E p \in ChangedPaths(files) :
              \/ t \in ToSet(defs_in_path(index, p))
              \/ \E d \in ToSet(defs_in_path(index, p)) : t \in ToSet(enclosing_defs_of_callers(index, d.symbol))
  <1> DEFINE tests   == tests_for_changed_files(index, files)
             defined == UNION {ToSet(defs_in_path(index, q)) : q \in ChangedPaths(files)}
             calling == UNION {ToSet(enclosing_defs_of_callers(index, d.symbol)) : d \in defined}
  <1>1. TestsFit(index, files)
    BY TestsFacts
  <1>2. \A u \in ToSet(tests) : is_test_symbol(u) /\ u \in defined \cup calling
    BY <1>1, Zenon DEF TestsFit
  <1>3. is_test_symbol(t) /\ t \in defined \cup calling
    BY <1>2, Zenon
  <1> HIDE DEF tests
  <1> QED
    BY <1>3


\* TestsExact without its LETs: a described symbol that is a test, a document whose file
\* is changed, and a definition that calls what such a document describes.
IsTest(doc, s) == doc.path \in TestPaths \/ DisplayName(s) \in TestNames
Changed(index, files) ==
  {doc \in ToSet(index) : \E f \in ToSet(files) : f.path = doc.path /\ ~f.ignored /\ (f.staged \/ f.working)}
ChangedIds(index, files) == {s.id : s \in UNION {ToSet(doc.symbols) : doc \in Changed(index, files)}}
CallsChange(index, files, doc, d) == \E id \in ChangedIds(index, files) : CallIn(doc, d, id)

\* The ids are those the changed documents describe.
LEMMA ChangedIdsFacts ==
  ASSUME NEW index, NEW files
  PROVE  \A id : id \in ChangedIds(index, files)
                  <=> \E doc \in Changed(index, files) : \E s \in ToSet(doc.symbols) : id = s.id
  BY DEF ChangedIds

\* A changed document has its path among those of the changed files.
LEMMA ChangedFacts ==
  ASSUME NEW index, NEW files
  PROVE  \A doc \in ToSet(index) :
           doc \in Changed(index, files)
             <=> doc.path \in ChangedPaths(files)
  BY DEF Changed, ChangedPaths

\* A test in a changed file, or one that calls a symbol described there, is found.
LEMMA NoTestIsMissed ==
  ASSUME NEW U, Apart(U), NEW index \in Indexes(U), NEW files \in Seq(Files(U)),
         NEW doc \in ToSet(index), NEW s \in ToSet(doc.symbols), IsTest(doc, s),
         \/ doc \in Changed(index, files)
         \/ s = SymbolInfo(doc, s.id) /\ \E d \in ToSet(doc.occs) :
              d.def /\ d.sym = s.id /\ AloneOnLine(doc, d) /\ CallsChange(index, files, doc, d)
  PROVE  \E t \in ToSet(tests_for_changed_files(index, files)) : t.symbol = s.id
  <1> DEFINE x == Located(doc, s)
  <1>1. \A e \in ToSet(index) : e \in Changed(index, files) <=> e.path \in ChangedPaths(files)
    BY ChangedFacts
  <1>2. x.symbol = s.id /\ x.path = doc.path /\ x.name = DisplayName(s) /\ x \in ToSet(defs_in_path(index, doc.path))
    BY DescribedFacts
  <1> HIDE DEF x
  <1>3. is_test_symbol(x)
    BY <1>2 DEF is_test_symbol, IsTest
  <1>4. CASE doc \in Changed(index, files)
    <2>1. doc.path \in ChangedPaths(files)
      BY <1>1, <1>4
    <2> QED
      BY <1>2, <1>3, <2>1, TestIsFound
  <1>5. CASE s = SymbolInfo(doc, s.id) /\ \E d \in ToSet(doc.occs) :
              d.def /\ d.sym = s.id /\ AloneOnLine(doc, d) /\ CallsChange(index, files, doc, d)
    <2>1. PICK d \in ToSet(doc.occs) : d.def /\ d.sym = s.id /\ AloneOnLine(doc, d) /\ CallsChange(index, files, doc, d)
      BY <1>5
    <2>2. PICK id \in ChangedIds(index, files) : CallIn(doc, d, id)
      BY <2>1 DEF CallsChange
    <2>3. PICK e \in Changed(index, files) : \E r \in ToSet(e.symbols) : id = r.id
      BY <2>2, ChangedIdsFacts
    <2>4. PICK r \in ToSet(e.symbols) : id = r.id
      BY <2>3
    <2>5. e \in ToSet(index)
      BY DEF Changed
    <2>6. e.path \in ChangedPaths(files)
      BY <1>1, <2>5
    <2>7. Located(e, r) \in ToSet(defs_in_path(index, e.path)) /\ Located(e, r).symbol = id
      BY <2>4, <2>5, DescribedFacts
    <2>8. x \in ToSet(enclosing_defs_of_callers(index, id))
      BY <1>5, <2>1, <2>2, CallerIsFound DEF x
    <2>9. \E c \in ToSet(defs_in_path(index, e.path)) : x \in ToSet(enclosing_defs_of_callers(index, c.symbol))
      BY <2>7, <2>8
    <2> QED
      BY <1>2, <1>3, <2>6, <2>9, TestIsFound
  <1> QED
    BY <1>4, <1>5

\* A test is found only for a change of its file or of what it calls.
LEMMA NoTestIsExtra ==
  ASSUME NEW U, Apart(U), NEW index \in Indexes(U), NEW files \in Seq(Files(U)),
         NEW t \in ToSet(tests_for_changed_files(index, files))
  PROVE  \E doc \in ToSet(index) : \E s \in ToSet(doc.symbols) :
           /\ doc.path = t.path /\ s.id = t.symbol /\ IsTest(doc, s)
           /\ \/ doc \in Changed(index, files)
              \/ \E d \in ToSet(doc.occs) : d.def /\ d.sym = s.id /\ CallsChange(index, files, doc, d)
  <1>1. \A e \in ToSet(index) : e \in Changed(index, files) <=> e.path \in ChangedPaths(files)
    BY ChangedFacts
  <1>2. /\ is_test_symbol(t)
        /\ \E p \in ChangedPaths(files) : \/ t \in ToSet(defs_in_path(index, p))
                            \/ \E d \in ToSet(defs_in_path(index, p)) : t \in ToSet(enclosing_defs_of_callers(index, d.symbol))
    BY FoundIsTest
  <1>3. PICK p \in ChangedPaths(files) : \/ t \in ToSet(defs_in_path(index, p))
                         \/ \E d \in ToSet(defs_in_path(index, p)) : t \in ToSet(enclosing_defs_of_callers(index, d.symbol))
    BY <1>2
  <1>4. ASSUME NEW doc \in ToSet(index), NEW s \in ToSet(doc.symbols), t = Located(doc, s)
        PROVE  doc.path = t.path /\ s.id = t.symbol /\ IsTest(doc, s)
    BY <1>2, <1>4, DescribedFacts DEF is_test_symbol, IsTest
  <1>5. CASE t \in ToSet(defs_in_path(index, p))
    <2>1. PICK doc \in ToSet(index) : doc.path = p /\ \E s \in ToSet(doc.symbols) : t = Located(doc, s)
      BY <1>5, DefsFacts
    <2> QED
      BY <1>1, <1>4, <2>1
  <1>6. ASSUME NEW c \in ToSet(defs_in_path(index, p)), t \in ToSet(enclosing_defs_of_callers(index, c.symbol))
        PROVE  \E doc \in ToSet(index) : \E s \in ToSet(doc.symbols) :
                 /\ doc.path = t.path /\ s.id = t.symbol /\ IsTest(doc, s)
                 /\ \E d \in ToSet(doc.occs) : d.def /\ d.sym = s.id /\ CallsChange(index, files, doc, d)
    <2>1. PICK e \in ToSet(index) : e.path = p /\ \E r \in ToSet(e.symbols) : c = Located(e, r)
      BY DefsFacts
    <2>2. PICK r \in ToSet(e.symbols) : c = Located(e, r)
      BY <2>1
    <2>3. e \in Changed(index, files)
      BY <1>1, <2>1
    <2>4. c.symbol = r.id
      BY <2>2, DescribedFacts
    <2>5. c.symbol \in ChangedIds(index, files)
      BY <2>3, <2>4, ChangedIdsFacts
    <2>6. PICK doc \in ToSet(index) : \E d \in ToSet(doc.occs) :
            /\ doc.path = t.path /\ d.def /\ d.sym = t.symbol /\ CallIn(doc, d, c.symbol)
            /\ \E s \in ToSet(doc.symbols) : t = Located(doc, s)
      BY <1>6, FoundIsCaller
    <2>7. PICK s \in ToSet(doc.symbols) : t = Located(doc, s)
      BY <2>6
    <2>8. doc.path = t.path /\ s.id = t.symbol /\ IsTest(doc, s)
      BY <1>4, <2>7
    <2>9. \E d \in ToSet(doc.occs) : d.def /\ d.sym = s.id /\ CallsChange(index, files, doc, d)
      BY <2>5, <2>6, <2>8 DEF CallsChange
    <2> QED
      BY <2>8, <2>9
  <1> QED
    BY <1>3, <1>5, <1>6

\* The tests to run after a change are exact, for every index and list of files.
LEMMA TestsAlwaysExact ==
  ASSUME NEW U, Apart(U), Is("tests") => input.index \in Indexes(U) /\ input.files \in Seq(Files(U))
  PROVE  TestsExact
  <1> SUFFICES ASSUME Is("tests")
               PROVE  TestsExact
    BY DEF TestsExact
  <1> DEFINE index == input.index
             files == input.files
             found == tests_for_changed_files(index, files)
  <1>1. index \in Indexes(U) /\ files \in Seq(Files(U))
    OBVIOUS
  <1> HIDE DEF index, files
  <1>2. \A i, j \in DOMAIN found : found[i].symbol = found[j].symbol => i = j
    <2>1. TestsFit(index, files)
      BY <1>1, TestsFacts
    <2> QED
      BY <2>1, Zenon DEF TestsFit
  <1>3. \A doc \in ToSet(index) : \A s \in {r \in ToSet(doc.symbols) : IsTest(doc, r)} :
          \/ doc \in Changed(index, files)
          \/ s = SymbolInfo(doc, s.id) /\ \E d \in ToSet(doc.occs) :
               d.def /\ d.sym = s.id /\ AloneOnLine(doc, d) /\ CallsChange(index, files, doc, d)
          => \E t \in ToSet(found) : t.symbol = s.id
    BY <1>1, NoTestIsMissed
  <1>4. \A t \in ToSet(found) : \E doc \in ToSet(index) : \E s \in ToSet(doc.symbols) :
          /\ doc.path = t.path /\ s.id = t.symbol /\ IsTest(doc, s)
          /\ \/ doc \in Changed(index, files)
             \/ \E d \in ToSet(doc.occs) : d.def /\ d.sym = s.id /\ CallsChange(index, files, doc, d)
    BY <1>1, NoTestIsExtra
  <1> QED
    BY <1>2, <1>3, <1>4, Zenon DEF TestsExact, IsTest, Changed, ChangedIds, CallsChange, index, files, found

\* A message is annotated with the definition that starts at its line, for every index.
LEMMA AnnotationsAlwaysFit ==
  ASSUME NEW U, Apart(U), Is("scip") => input.index \in Indexes(U)
  PROVE  AnnotationFits
  <1> SUFFICES ASSUME Is("scip"), NEW doc \in ToSet(input.index), NEW d \in ToSet(doc.occs), d.def,
                      \A o \in ToSet(doc.occs) : o.def /\ o.line = d.line => o.sym = d.sym,
                      SymbolInfo(doc, d.sym) # None,
                      NEW kind \in {"grep", "build", "published", "location"}
               PROVE  Annotation(input.index, kind, doc.path, IF kind \in {"grep", "build"} THEN d.line + 1 ELSE d.line)
                        = DisplayName(SymbolInfo(doc, d.sym))
    BY DEF AnnotationFits
  <1>1. DocumentAt(input.index, doc.path) = doc /\ doc \in Docs(U) /\ doc # None
    BY DocumentFacts
  <1>2. d.line \in Nat /\ d.sym \in U
    <2>1. doc.occs \in Seq(Occs(U))
      BY <1>1 DEF Docs
    <2>2. d \in Occs(U)
      BY <2>1, RangeByPlace
    <2> QED
      BY <2>2, DefinitionFields
  <1>3. IndexLine(kind, IF kind \in {"grep", "build"} THEN d.line + 1 ELSE d.line) = d.line
    BY <1>2 DEF IndexLine
  <1>4. EnclosingId(doc, d.line) = d.sym
    <2>1. NoneBetween(doc, d.line, d.line)
      <3>1. doc.occs \in Seq(Occs(U))
        BY <1>1 DEF Docs
      <3>2. \A o \in ToSet(doc.occs) : o \in Occs(U)
        BY <3>1, RangeByPlace
      <3>3. \A o \in ToSet(doc.occs) : o.line \in Nat
        BY <3>2, DefinitionFields
      <3> QED
        BY <1>2, <3>3 DEF NoneBetween
    <2> QED
      BY <1>1, <1>2, <2>1, EnclosingIsLast
  <1>5. d.sym # None
    BY <1>2 DEF Apart
  <1> QED
    BY <1>1, <1>3, <1>4, <1>5 DEF Annotation, enclosing_definition

\* The definitions of the document are the starts of the live symbols, whose ranges
\* do not overlap.
Matches(doc, live) ==
  /\ \A d \in live : d.from <= d.to
  /\ \A d, e \in live : d = e \/ d.to < e.from \/ e.to < d.from
  /\ \A o \in ToSet(doc.occs) : o.def => \E d \in live : o.sym = d.id /\ o.line = d.from
  /\ \A d \in live : \E o \in ToSet(doc.occs) : o.def /\ o.sym = d.id /\ o.line = d.from

\* A symbol of the present text and its lines.
Ranges(U) == [id : U, from : Nat, to : Nat]

\* What safe_delete_symbol deletes without force has no call, for every index that
\* matches the text.
LEMMA DeletedAlwaysUncalled ==
  ASSUME NEW U, Apart(U),
         Is("delete") => /\ input.index \in Indexes(U) /\ input.index # <<>>
                         /\ input.live \in SUBSET Ranges(U) /\ Matches(input.index[1], input.live)
  PROVE  DeletedIsUncalled
  <1> DEFINE doc == input.index[1]
  <1> SUFFICES ASSUME Is("delete"), NEW d \in input.live, NEW line \in d.from..d.to,
                      Preflight(input.index, doc.path, line, FALSE) = "delete"
               PROVE  callers(input.index, d.id) = <<>>
    BY DEF DeletedIsUncalled
  <1>1. doc \in ToSet(input.index)
    <2>1. input.index \in Seq(Docs(U)) /\ input.index # <<>>
      BY DEF Indexes
    <2>2. 1 \in 1..Len(input.index)
      BY <2>1
    <2> QED
      BY <2>1, <2>2, RangeByPlace
  <1>2. DocumentAt(input.index, doc.path) = doc /\ doc \in Docs(U) /\ doc # None
    BY <1>1, DocumentFacts
  <1> HIDE DEF doc
  <1>3. Matches(doc, input.live) /\ \A e \in input.live : e.from \in Nat /\ e.to \in Nat /\ e.id \in U
    BY DEF Ranges, doc
  <1>4. PICK o \in ToSet(doc.occs) : o.def /\ o.sym = d.id /\ o.line = d.from
    BY <1>3 DEF Matches
  <1>5. line \in Nat /\ o.line <= line /\ line <= d.to
    BY <1>3, <1>4
  <1>6. \A e \in input.live : e.from <= line /\ d.from <= e.from => e = d
    <2> SUFFICES ASSUME NEW e \in input.live, e.from <= line, d.from <= e.from
                 PROVE  e = d
      OBVIOUS
    <2>1. d = e \/ d.to < e.from \/ e.to < d.from
      BY <1>3, Zenon DEF Matches
    <2>2. e.from <= e.to
      BY <1>3, Zenon DEF Matches
    <2>3. e.from \in Nat /\ e.to \in Nat /\ d.from \in Nat /\ d.to \in Nat
      BY <1>3, Zenon
    <2>4. ~(d.to < e.from) /\ ~(e.to < d.from)
      BY <1>5, <2>2, <2>3
    <2> QED
      BY <2>1, <2>4
  <1>7. NoneBetween(doc, o.line, line)
    <2> SUFFICES ASSUME NEW p \in ToSet(doc.occs), p.def, o.line < p.line, p.line <= line
                 PROVE  FALSE
      BY DEF NoneBetween
    <2>1. PICK e \in input.live : p.sym = e.id /\ p.line = e.from
      BY <1>3 DEF Matches
    <2>2. d.from < e.from /\ e.from <= line
      BY <1>4, <2>1
    <2>3. d.from \in Nat /\ e.from \in Nat
      BY <1>3
    <2> QED
      BY <1>6, <2>2, <2>3
  <1>8. \A p \in ToSet(doc.occs) : p.def /\ p.line = o.line => p.sym = o.sym
    <2> SUFFICES ASSUME NEW p \in ToSet(doc.occs), p.def, p.line = o.line
                 PROVE  p.sym = o.sym
      OBVIOUS
    <2>1. PICK e \in input.live : p.sym = e.id /\ p.line = e.from
      BY <1>3 DEF Matches
    <2>2. e.from = d.from /\ d.from <= line
      BY <1>4, <1>5, <2>1
    <2>3. e = d
      BY <1>3, <1>6, <2>2
    <2> QED
      BY <1>4, <2>1, <2>3
  <1>9. EnclosingId(doc, line) = d.id
    BY <1>2, <1>4, <1>5, <1>7, <1>8, EnclosingIsLast
  <1>10. d.id # None
    BY <1>3 DEF Apart
  <1> QED
    BY <1>2, <1>9, <1>10 DEF Preflight

\* The inputs of the four properties.
QueryInputs(U) == [of : {"scip"}, index : Indexes(U), ids : SUBSET U]
ChangesOf(U) == [of : {"tests"}, index : Indexes(U), files : Seq(Files(U))]
DeletionsOf(U) ==
  {i \in [of : {"delete"}, index : Indexes(U) \ {<<>>}, live : SUBSET Ranges(U)] : Matches(i.index[1], i.live)}

\* Callers, tests to run, uncalled symbols and annotations are exact for indexes of any number of documents, symbols and occurrences, for any list
\* of changed files and any set of live symbols (AnswersAreExact).  The documents of an
\* index have different paths; the index of a deletion matches the text.
THEOREM AnswersAlwaysExact ==
  ASSUME NEW U, Apart(U), input \in QueryInputs(U) \cup ChangesOf(U) \cup DeletionsOf(U)
  PROVE  AnswersAreExact
  <1>1. Is("scip") => input.index \in Indexes(U)
    BY DEF Is, QueryInputs, ChangesOf, DeletionsOf
  <1>2. Is("tests") => input.index \in Indexes(U) /\ input.files \in Seq(Files(U))
    BY DEF Is, QueryInputs, ChangesOf, DeletionsOf
  <1>3. Is("delete") => /\ input.index \in Indexes(U) /\ input.index # <<>>
                        /\ input.live \in SUBSET Ranges(U) /\ Matches(input.index[1], input.live)
    BY DEF Is, QueryInputs, ChangesOf, DeletionsOf
  <1> QED
    BY <1>1, <1>2, <1>3, CallersAlwaysExact, TestsAlwaysExact, DeletedAlwaysUncalled, AnnotationsAlwaysFit
       DEF AnswersAreExact

-----------------------------------------------------------------------------
(* project_setup, tool by tool *)

\* What it does with one tool.
SetupStep(done, tool, world) ==
  LET i == install_tool(done.bin, tool, world) IN
  [bin |-> i.bin, reports |-> Append(done.reports, [tool |-> tool, status |-> i.status])]

\* f is the fold over the first tools of the sequence, for every set of their places.
IsFold(f, base, tools, world, n) ==
  f = [s \in SUBSET (1..n) |-> IF s = {} THEN base ELSE SetupStep(f[s \ {Max(s)}], tools[Max(s)], world)]

\* The greatest of a set of places, and what is left without it.
LEMMA GreatestPlace ==
  ASSUME NEW n \in Nat
  PROVE  /\ \A s \in SUBSET (1..n) : s # {} => Max(s) \in s /\ s \ {Max(s)} \in SUBSET (1..n)
         /\ \A s \in SUBSET (1..n + 1) : n + 1 \in s => Max(s) = n + 1 /\ s \ {n + 1} \in SUBSET (1..n)
         /\ \A s \in SUBSET (1..n + 1) : n + 1 \notin s => s \in SUBSET (1..n)
  <1>1. ASSUME NEW m \in Nat, NEW s \in SUBSET (1..m), s # {}
        PROVE  Max(s) \in s /\ \A y \in s : Max(s) >= y
    <2>1. s \in SUBSET (0..m)
      OBVIOUS
    <2> QED
      BY <1>1, <2>1, GreatestOne
  <1>2. ASSUME NEW s \in SUBSET (1..n + 1), n + 1 \in s
        PROVE  Max(s) = n + 1 /\ s \ {n + 1} \in SUBSET (1..n)
    <2> DEFINE m == Max(s)
    <2>0. n + 1 \in Nat /\ s # {}
      BY <1>2
    <2>1. m \in s /\ m >= n + 1
      BY <1>1, <1>2, <2>0
    <2> HIDE DEF m
    <2>2. m \in 1..n + 1
      BY <2>1
    <2>3. m = n + 1
      BY <2>1, <2>2
    <2> QED
      BY <2>3 DEF m
  <1>3. \A s \in SUBSET (1..n + 1) : n + 1 \notin s => s \in SUBSET (1..n)
    OBVIOUS
  <1> QED
    BY <1>1, <1>2, <1>3

\* The fold of project_setup over any number of tools has a value: by induction on the
\* number.
LEMMA FoldExists ==
  ASSUME NEW base, NEW tools, NEW world, NEW n \in Nat
  PROVE  \E f : IsFold(f, base, tools, world, n)
  <1> DEFINE T == {m \in Nat : \E f : IsFold(f, base, tools, world, m)}
  <1>1. 0 \in T
    <2> DEFINE f == [s \in SUBSET (1..0) |-> base]
    <2>1. \A s \in SUBSET (1..0) : s = {}
      OBVIOUS
    <2>2. f = [s \in SUBSET (1..0) |-> IF s = {} THEN base ELSE SetupStep(f[s \ {Max(s)}], tools[Max(s)], world)]
      BY <2>1
    <2>3. IsFold(f, base, tools, world, 0)
      <3> HIDE DEF f
      <3> QED
        BY <2>2, Zenon DEF IsFold
    <2> QED
      BY <2>3
  <1>2. ASSUME NEW m \in T
        PROVE  m + 1 \in T
    <2>1. PICK f : IsFold(f, base, tools, world, m)
      OBVIOUS
    <2>2. m \in Nat /\ m + 1 \in Nat
      OBVIOUS
    <2> DEFINE g == [s \in SUBSET (1..m + 1) |->
                       IF m + 1 \in s THEN SetupStep(f[s \ {m + 1}], tools[m + 1], world) ELSE f[s]]
    <2>3. ASSUME NEW s \in SUBSET (1..m + 1)
          PROVE  g[s] = IF s = {} THEN base ELSE SetupStep(g[s \ {Max(s)}], tools[Max(s)], world)
      <3>1. CASE m + 1 \in s
        <4>1. Max(s) = m + 1 /\ s \ {m + 1} \in SUBSET (1..m)
          BY <2>2, <3>1, GreatestPlace
        <4>2. g[s \ {m + 1}] = f[s \ {m + 1}]
          BY <4>1
        <4>3. g[s] = SetupStep(f[s \ {m + 1}], tools[m + 1], world)
          BY <3>1
        <4> HIDE DEF g
        <4> QED
          BY <3>1, <4>1, <4>2, <4>3
      <3>2. CASE m + 1 \notin s
        <4>1. s \in SUBSET (1..m)
          BY <2>2, <3>2, GreatestPlace
        <4>2. g[s] = f[s]
          BY <3>2
        <4>3. f[s] = IF s = {} THEN base ELSE SetupStep(f[s \ {Max(s)}], tools[Max(s)], world)
          BY <2>1, <4>1 DEF IsFold
        <4>4. s # {} => g[s \ {Max(s)}] = f[s \ {Max(s)}]
          <5> SUFFICES ASSUME s # {}
                       PROVE  g[s \ {Max(s)}] = f[s \ {Max(s)}]
            OBVIOUS
          <5>1. s \ {Max(s)} \in SUBSET (1..m)
            BY <2>2, <4>1, GreatestPlace
          <5> QED
            BY <2>2, <5>1
        <4> HIDE DEF g
        <4> QED
          BY <4>2, <4>3, <4>4
      <3> QED
        BY <3>1, <3>2
    <2>4. g = [s \in SUBSET (1..m + 1) |-> IF s = {} THEN base ELSE SetupStep(g[s \ {Max(s)}], tools[Max(s)], world)]
      <3> DEFINE h == [s \in SUBSET (1..m + 1) |-> IF s = {} THEN base ELSE SetupStep(g[s \ {Max(s)}], tools[Max(s)], world)]
                 D == SUBSET (1..m + 1)
      <3>1. DOMAIN g = D /\ g = [s \in D |-> g[s]]
        OBVIOUS
      <3>2. \A s \in D : h[s] = IF s = {} THEN base ELSE SetupStep(g[s \ {Max(s)}], tools[Max(s)], world)
        OBVIOUS
      <3>3. DOMAIN h = D /\ h = [s \in D |-> h[s]]
        OBVIOUS
      <3> HIDE DEF g, h, D
      <3>4. \A s \in D : g[s] = h[s]
        BY <2>3, <3>2 DEF D
      <3>5. g = h
        BY <3>1, <3>3, <3>4
      <3> QED
        BY <3>5 DEF h
    <2>5. IsFold(g, base, tools, world, m + 1)
      <3> HIDE DEF g
      <3> QED
        BY <2>4, Zenon DEF IsFold
    <2> QED
      BY <2>2, <2>5
  <1>3. T = Nat
    <2> HIDE DEF T
    <2>1. T \in SUBSET Nat
      BY DEF T
    <2> QED
      BY <1>1, <1>2, <2>1, SetInduction
  <1> QED
    BY <1>3

\* The tools of the plugins that claim the root, in their order, and the start.
InstallOrder(files) == FlattenSeq([i \in DOMAIN detect(files) |-> detect(files)[i].tools])
SetupStart(bin) == [bin |-> bin, reports |-> <<>>]

\* project_setup is that fold.
LEMMA SetupIsFold ==
  ASSUME NEW bin, NEW files, NEW world, NEW n \in Nat, DOMAIN InstallOrder(files) = 1..n
  PROVE  \E f : /\ IsFold(f, SetupStart(bin), InstallOrder(files), world, n)
                /\ project_setup(bin, files, world) = f[1..n]
  <1> DEFINE tools == InstallOrder(files)
             base == SetupStart(bin)
             f == CHOOSE g : IsFold(g, base, tools, world, n)
  <1>1. IsFold(f, base, tools, world, n)
    BY FoldExists, Zenon
  <1>2. project_setup(bin, files, world) =
          LET iter[s \in SUBSET DOMAIN tools] ==
                IF s = {} THEN base ELSE SetupStep(iter[s \ {Max(s)}], tools[Max(s)], world)
          IN iter[DOMAIN tools]
    BY DEF project_setup, FoldLeft, MapThenFoldSet, SetupStep, InstallOrder, SetupStart
  <1>3. project_setup(bin, files, world) = f[1..n]
    BY <1>2 DEF IsFold
  <1> QED
    BY <1>1, <1>3

\* The states that project_setup passes through.
IsTrace(g, bin, tools, world, n) ==
  /\ g[0] = SetupStart(bin)
  /\ \A k \in 0..n - 1 : g[k + 1] = SetupStep(g[k], tools[k + 1], world)

\* project_setup passes through such states and ends in the last one.
LEMMA SetupTrace ==
  ASSUME NEW bin, NEW files, NEW world, NEW n \in Nat, DOMAIN InstallOrder(files) = 1..n
  PROVE  \E g : /\ IsTrace(g, bin, InstallOrder(files), world, n)
                /\ project_setup(bin, files, world) = g[n]
  <1> DEFINE tools == InstallOrder(files)
             base == SetupStart(bin)
  <1>1. PICK f : /\ IsFold(f, base, tools, world, n)
                 /\ project_setup(bin, files, world) = f[1..n]
    BY SetupIsFold
  <1> DEFINE g == [k \in 0..n |-> f[1..k]]
  <1> HIDE DEF tools, base
  <1>2. \A s \in SUBSET (1..n) : f[s] = IF s = {} THEN base ELSE SetupStep(f[s \ {Max(s)}], tools[Max(s)], world)
    BY <1>1 DEF IsFold
  <1>3. g[0] = base
    <2>1. 1..0 = {} /\ {} \in SUBSET (1..n)
      OBVIOUS
    <2> QED
      BY <1>2, <2>1
  <1>4. ASSUME NEW k \in 0..n - 1
        PROVE  g[k + 1] = SetupStep(g[k], tools[k + 1], world)
    <2>1. k \in Nat /\ k + 1 \in 0..n /\ k \in 0..n /\ 1..k + 1 \in SUBSET (1..n) /\ k + 1 \in 1..k + 1
      OBVIOUS
    <2>2. Max(1..k + 1) = k + 1
      <3>1. 1..k + 1 \in SUBSET (1..k + 1)
        OBVIOUS
      <3> QED
        BY <2>1, <3>1, GreatestPlace
    <2>3. (1..k + 1) \ {k + 1} = 1..k
      BY <2>1
    <2>4. 1..k + 1 # {}
      BY <2>1
    <2>5. f[1..k + 1] = SetupStep(f[1..k], tools[k + 1], world)
      BY <1>2, <2>1, <2>2, <2>3, <2>4
    <2> QED
      BY <2>1, <2>5
  <1>5. g[n] = f[1..n]
    OBVIOUS
  <1> HIDE DEF g
  <1> QED
    BY <1>1, <1>3, <1>4, <1>5, Zenon DEF IsTrace, tools, base

-----------------------------------------------------------------------------
(* The tools *)

\* All of them.
KnownTools == {rust_analyzer, codelldb, jdtls, lombok, typescript, ts_language_server, scip_typescript,
               pyright, scip_python, clangd, scip_clang, scip_go}

\* What each plugin installs.
LEMMA PluginTools ==
  /\ Range(Rust.tools) = {rust_analyzer, codelldb} /\ Range(JavaMaven.tools) = {jdtls, lombok}
  /\ Range(JavaGradle.tools) = {jdtls, lombok} /\ Range(Node.tools) = {typescript, ts_language_server, scip_typescript}
  /\ Range(Python.tools) = {pyright, scip_python} /\ Range(Go.tools) = {scip_go}
  /\ Range(Cpp.tools) = {clangd, scip_clang, codelldb}
  <1>1. /\ \A a : Range(<<a>>) = {a}
        /\ \A a, b : Range(<<a, b>>) = {a, b}
        /\ \A a, b, c : Range(<<a, b, c>>) = {a, b, c}
    BY DEF Range
  <1>2. /\ Rust.tools = <<rust_analyzer, codelldb>> /\ JavaMaven.tools = <<jdtls, lombok>>
        /\ JavaGradle.tools = <<jdtls, lombok>> /\ Node.tools = <<typescript, ts_language_server, scip_typescript>>
        /\ Python.tools = <<pyright, scip_python>> /\ Go.tools = <<scip_go>> /\ Cpp.tools = <<clangd, scip_clang, codelldb>>
    BY DEF Rust, JavaMaven, JavaGradle, Node, Python, Go, Cpp
  <1> QED
    BY <1>1, <1>2

\* The tools of all plugins.
LEMMA ToolsKnown == Tools = KnownTools
  <1>1. DOMAIN builtin = 1..7 /\ 1..7 = {1, 2, 3, 4, 5, 6, 7}
    BY DEF builtin
  <1>2. /\ builtin[1] = Rust /\ builtin[2] = JavaMaven /\ builtin[3] = JavaGradle /\ builtin[4] = Node
        /\ builtin[5] = Python /\ builtin[6] = Go /\ builtin[7] = Cpp
    BY DEF builtin
  <1>3. Tools = Range(Rust.tools) \cup Range(JavaMaven.tools) \cup Range(JavaGradle.tools) \cup Range(Node.tools)
                  \cup Range(Python.tools) \cup Range(Go.tools) \cup Range(Cpp.tools)
    BY <1>1, <1>2 DEF Tools
  <1> QED
    BY <1>3, PluginTools DEF KnownTools

\* The programs that the tools are.
LEMMA ToolExecutables ==
  /\ rust_analyzer.executable = "rust-analyzer" /\ codelldb.executable = "codelldb" /\ jdtls.executable = "jdtls"
  /\ lombok.executable = "lombok.jar" /\ typescript.executable = "tsserver.js"
  /\ ts_language_server.executable = "typescript-language-server" /\ scip_typescript.executable = "scip-typescript"
  /\ pyright.executable = "pyright-langserver" /\ scip_python.executable = "scip-python" /\ clangd.executable = "clangd"
  /\ scip_clang.executable = "scip-clang" /\ scip_go.executable = "scip-go"
  BY DEF Tool, rust_analyzer, codelldb, jdtls, lombok, typescript, ts_language_server, scip_typescript, pyright, scip_python,
         clangd, scip_clang, scip_go

\* The names that the manifest knows the tools by.
LEMMA ToolNames ==
  /\ rust_analyzer.name = "rust-analyzer" /\ codelldb.name = "codelldb" /\ jdtls.name = "jdtls"
  /\ lombok.name = "lombok" /\ typescript.name = "typescript"
  /\ ts_language_server.name = "typescript-language-server" /\ scip_typescript.name = "scip-typescript"
  /\ pyright.name = "pyright" /\ scip_python.name = "scip-python" /\ clangd.name = "clangd"
  /\ scip_clang.name = "scip-clang" /\ scip_go.name = "scip-go"
  BY DEF Tool, rust_analyzer, codelldb, jdtls, lombok, typescript, ts_language_server, scip_typescript, pyright, scip_python,
         clangd, scip_clang, scip_go

\* Only one wrapper reaches another file of the directory.
LEMMA ToolsBeside ==
  /\ ts_language_server.beside = {"tsserver.js"}
  /\ \A t \in KnownTools \ {ts_language_server} : t.beside = {}
  BY DEF Tool, rust_analyzer, codelldb, jdtls, lombok, typescript, ts_language_server, scip_typescript, pyright, scip_python,
         clangd, scip_clang, scip_go, KnownTools, render_ts_language_server_wrapper

\* No two tools have a name or a program in common.
LEMMA ToolsApart ==
  \A t, u \in Tools : (t.name = u.name => t = u) /\ (t.executable = u.executable => t = u)
  BY ToolsKnown, ToolExecutables, ToolNames DEF KnownTools

-----------------------------------------------------------------------------
(* One tool *)

\* A tool is there, and it cannot be installed.
Present(bin, t) == t.name \in DOMAIN bin.manifest /\ bin.manifest[t.name] = t.version /\ t.executable \in bin.files
Unable(t, world) == ~resolve_asset(t, world.triple) \/ t.name \in world.unreachable \/ ~finalise_archive(t, world.lacking)

\* One tool is installed unless it is there or cannot be; whether the other tools are
\* there does not change.
LEMMA InstallFacts ==
  ASSUME NEW bin, NEW t \in Tools, NEW world
  PROVE  LET i == install_tool(bin, t, world) IN
         /\ Present(bin, t) => i = [bin |-> bin, status |-> "already-installed"]
         /\ ~Present(bin, t) /\ Unable(t, world) => i = [bin |-> bin, status |-> "error"]
         /\ ~Present(bin, t) /\ ~Unable(t, world) =>
              /\ i.status = "installed" /\ Present(i.bin, t)
              /\ \A u \in Tools \ {t} : Present(i.bin, u) <=> Present(bin, u)
  <1> DEFINE new == [files |-> bin.files \cup {t.executable}, 
                    manifest |-> [n \in DOMAIN bin.manifest \cup {t.name} |->
                                    IF n = t.name THEN t.version ELSE bin.manifest[n]]]
  <1>1. Present(bin, t) => install_tool(bin, t, world) = [bin |-> bin, status |-> "already-installed"]
    BY DEF install_tool, Present
  <1>2. ~Present(bin, t) /\ Unable(t, world) => install_tool(bin, t, world) = [bin |-> bin, status |-> "error"]
    BY DEF install_tool, Present, Unable
  <1>3. ~Present(bin, t) /\ ~Unable(t, world) => install_tool(bin, t, world) = [bin |-> new, status |-> "installed"]
    BY DEF install_tool, Present, Unable
  <1>4. /\ DOMAIN new.manifest = {t.name} \cup DOMAIN bin.manifest
        /\ new.manifest[t.name] = t.version
        /\ \A x \in DOMAIN bin.manifest : x # t.name => new.manifest[x] = bin.manifest[x]
        /\ new.files = bin.files \cup {t.executable}
    OBVIOUS
  <1> HIDE DEF new
  <1>5. Present(new, t)
    BY <1>4 DEF Present
  <1>6. ASSUME NEW u \in Tools \ {t}
        PROVE  Present(new, u) <=> Present(bin, u)
    <2>1. u.name # t.name /\ u.executable # t.executable
      BY <1>6, ToolsApart
    <2> QED
      BY <1>4, <2>1 DEF Present
  <1> QED
    BY <1>1, <1>2, <1>3, <1>5, <1>6

\* What is there after k tools, and what was reported.
Reached(g, bin, tools, world, k) ==
  /\ \A t \in Tools : Present(g[k].bin, t) <=> Present(bin, t) \/ (~Unable(t, world) /\ \E j \in 1..k : tools[j] = t)
  /\ Len(g[k].reports) = k /\ g[k].reports \in Seq([tool : Tools, status : {"already-installed", "error", "installed"}])
  /\ \A j \in 1..k : /\ g[k].reports[j].tool = tools[j]
                     /\ g[k].reports[j].status = "error" <=> ~Present(bin, tools[j]) /\ Unable(tools[j], world)

\* By induction on the number of tools: a tool is there if it was before, or if it was
\* on the list and nothing hindered it.
LEMMA ReachedAlways ==
  ASSUME NEW bin, NEW tools, NEW world, NEW n \in Nat, \A j \in 1..n : tools[j] \in Tools,
         NEW g, IsTrace(g, bin, tools, world, n), NEW k \in 0..n
  PROVE  Reached(g, bin, tools, world, k)
  <1> DEFINE T == {m \in Nat : m <= n => Reached(g, bin, tools, world, m)}
  <1>1. 0 \in T
    <2>1. g[0].bin = bin /\ g[0].reports = <<>>
      BY DEF IsTrace, SetupStart
    <2>2. \A S : <<>> \in Seq(S)
      OBVIOUS
    <2>3. Len(<<>>) = 0 /\ 1..0 = {}
      OBVIOUS
    <2>4. Reached(g, bin, tools, world, 0)
      BY <2>1, <2>2, <2>3 DEF Reached
    <2> QED
      BY <2>4
  <1>2. ASSUME NEW m \in T
        PROVE  m + 1 \in T
    <2> SUFFICES ASSUME m + 1 <= n
                 PROVE  Reached(g, bin, tools, world, m + 1)
      OBVIOUS
    <2>1. m \in Nat /\ m \in 0..n - 1 /\ m + 1 \in 1..n /\ Reached(g, bin, tools, world, m)
      OBVIOUS
    <2> DEFINE b == g[m].bin
               t == tools[m + 1]
               i == install_tool(b, t, world)
    <2>2. t \in Tools
      BY <2>1
    <2>3. g[m + 1] = SetupStep(g[m], t, world)
      BY <2>1 DEF IsTrace
    <2>4. g[m + 1].bin = i.bin /\ g[m + 1].reports = Append(g[m].reports, [tool |-> t, status |-> i.status])
      BY <2>3 DEF SetupStep
    <2>5. /\ Present(b, t) => i = [bin |-> b, status |-> "already-installed"]
          /\ ~Present(b, t) /\ Unable(t, world) => i = [bin |-> b, status |-> "error"]
          /\ ~Present(b, t) /\ ~Unable(t, world) =>
              /\ i.status = "installed" /\ Present(i.bin, t)
              /\ \A u \in Tools \ {t} : Present(i.bin, u) <=> Present(b, u)
      BY <2>2, InstallFacts
    <2> HIDE DEF b, t, i, T
    <2>6. \A u \in Tools : Present(b, u) <=> Present(bin, u) \/ (~Unable(u, world) /\ \E j \in 1..m : tools[j] = u)
      BY <2>1 DEF Reached, b
    <2>7. \A u : (\E j \in 1..m + 1 : tools[j] = u) <=> u = t \/ \E j \in 1..m : tools[j] = u
      BY <2>1 DEF t
    <2>8. \A u \in Tools : Present(i.bin, u) <=> Present(b, u) \/ (u = t /\ ~Unable(t, world))
      BY <2>2, <2>5
    <2>9. \A u \in Tools : Present(i.bin, u) <=> Present(bin, u) \/ (~Unable(u, world) /\ \E j \in 1..m + 1 : tools[j] = u)
      BY <2>6, <2>7, <2>8
    <2>10. i.status = "error" <=> ~Present(bin, t) /\ Unable(t, world)
      BY <2>2, <2>5, <2>6
    <2>11. i.status \in {"already-installed", "error", "installed"}
      BY <2>5
    <2> DEFINE R == [tool : Tools, status : {"already-installed", "error", "installed"}]
               r == [tool |-> t, status |-> i.status]
               old == g[m].reports
               now == g[m + 1].reports
    <2>12. r \in R /\ r.tool = t /\ r.status = i.status
      BY <2>2, <2>11
    <2>13. old \in Seq(R) /\ Len(old) = m
           /\ \A j \in 1..m : old[j].tool = tools[j] /\ (old[j].status = "error" <=> ~Present(bin, tools[j]) /\ Unable(tools[j], world))
      BY <2>1 DEF Reached
    <2>14. now = Append(old, r)
      BY <2>4
    <2> HIDE DEF R, r, old, now
    <2>15. now \in Seq(R) /\ Len(now) = m + 1 /\ now[m + 1] = r /\ \A j \in 1..m : now[j] = old[j]
      BY <2>1, <2>12, <2>13, <2>14
    <2>16. \A j \in 1..m + 1 : now[j].tool = tools[j] /\ (now[j].status = "error" <=> ~Present(bin, tools[j]) /\ Unable(tools[j], world))
      <3> SUFFICES ASSUME NEW j \in 1..m + 1
                   PROVE  now[j].tool = tools[j] /\ (now[j].status = "error" <=> ~Present(bin, tools[j]) /\ Unable(tools[j], world))
        OBVIOUS
      <3>1. CASE j = m + 1
        BY <2>10, <2>12, <2>15, <3>1 DEF t
      <3>2. CASE j \in 1..m
        BY <2>13, <2>15, <3>2
      <3> QED
        BY <2>1, <3>1, <3>2
    <2> QED
      BY <2>4, <2>9, <2>15, <2>16 DEF Reached, now, R
  <1>3. T = Nat
    <2>1. T \in SUBSET Nat
      OBVIOUS
    <2> HIDE DEF T
    <2> QED
      BY <1>1, <1>2, <2>1, SetInduction
  <1> QED
    BY <1>3

\* What a second run comes to after k tools: nothing changes.
Repeated(g, bin, tools, k) ==
  /\ g[k].bin = bin
  /\ Len(g[k].reports) = k /\ g[k].reports \in Seq([tool : Tools, status : {"already-installed", "error"}])
  /\ \A j \in 1..k : g[k].reports[j].status = IF Present(bin, tools[j]) THEN "already-installed" ELSE "error"

\* By induction on the number of tools: where each tool is there or cannot be
\* installed, project_setup changes nothing.
LEMMA SecondRun ==
  ASSUME NEW bin, NEW tools, NEW world, NEW n \in Nat, \A j \in 1..n : tools[j] \in Tools,
         NEW g, IsTrace(g, bin, tools, world, n),
         \A j \in 1..n : Present(bin, tools[j]) \/ Unable(tools[j], world), NEW k \in 0..n
  PROVE  Repeated(g, bin, tools, k)
  <1> DEFINE R == [tool : Tools, status : {"already-installed", "error"}]
             Fine(m) == /\ g[m].bin = bin /\ Len(g[m].reports) = m /\ g[m].reports \in Seq(R)
                        /\ \A j \in 1..m : g[m].reports[j].status = IF Present(bin, tools[j]) THEN "already-installed" ELSE "error"
             T == {m \in Nat : m <= n => Fine(m)}
  <1>1. 0 \in T
    <2>1. g[0].bin = bin /\ g[0].reports = <<>>
      BY DEF IsTrace, SetupStart
    <2>2. \A S : <<>> \in Seq(S)
      OBVIOUS
    <2>3. Len(<<>>) = 0 /\ 1..0 = {}
      OBVIOUS
    <2>4. Fine(0)
      BY <2>1, <2>2, <2>3
    <2> HIDE DEF Fine
    <2> QED
      BY <2>4
  <1>2. ASSUME NEW m \in T
        PROVE  m + 1 \in T
    <2> SUFFICES ASSUME m + 1 <= n
                 PROVE  Fine(m + 1)
      OBVIOUS
    <2>1. m \in Nat /\ m \in 0..n - 1 /\ m + 1 \in 1..n /\ Fine(m)
      OBVIOUS
    <2> DEFINE t == tools[m + 1]
               status == IF Present(bin, t) THEN "already-installed" ELSE "error"
               r == [tool |-> t, status |-> status]
               old == g[m].reports
               now == g[m + 1].reports
    <2>2. t \in Tools /\ (Present(bin, t) \/ Unable(t, world))
      BY <2>1
    <2>3. g[m + 1] = SetupStep(g[m], t, world)
      BY <2>1 DEF IsTrace
    <2>4. install_tool(bin, t, world) = [bin |-> bin, status |-> status]
      <3> HIDE DEF t
      <3> QED
        BY <2>2, InstallFacts
    <2>5. g[m].bin = bin
      BY <2>1
    <2>6. g[m + 1].bin = bin /\ now = Append(old, r)
      <3> HIDE DEF t, status
      <3> QED
        BY <2>3, <2>4, <2>5 DEF SetupStep
    <2>7. r \in R /\ r.status = status
      BY <2>2
    <2>8. old \in Seq(R) /\ Len(old) = m /\ \A j \in 1..m : old[j].status = IF Present(bin, tools[j]) THEN "already-installed" ELSE "error"
      BY <2>1
    <2> HIDE DEF r, R, old, now
    <2>9. now \in Seq(R) /\ Len(now) = m + 1 /\ now[m + 1] = r /\ \A j \in 1..m : now[j] = old[j]
      BY <2>1, <2>6, <2>7, <2>8
    <2>10. \A j \in 1..m + 1 : now[j].status = IF Present(bin, tools[j]) THEN "already-installed" ELSE "error"
      <3> SUFFICES ASSUME NEW j \in 1..m + 1
                   PROVE  now[j].status = IF Present(bin, tools[j]) THEN "already-installed" ELSE "error"
        OBVIOUS
      <3>1. CASE j = m + 1
        BY <2>7, <2>9, <3>1
      <3>2. CASE j \in 1..m
        BY <2>8, <2>9, <3>2
      <3> QED
        BY <2>1, <3>1, <3>2
    <2> QED
      BY <2>6, <2>9, <2>10 DEF now
  <1>3. T = Nat
    <2>1. T \in SUBSET Nat
      OBVIOUS
    <2> HIDE DEF T
    <2> QED
      BY <1>1, <1>2, <2>1, SetInduction
  <1>4. Fine(k)
    <2>1. k \in Nat /\ k <= n
      OBVIOUS
    <2> HIDE DEF Fine
    <2> QED
      BY <1>3, <2>1
  <1> QED
    BY <1>4 DEF Repeated

-----------------------------------------------------------------------------
(* What project_setup ends with *)

\* All of them.
Plugins == {Rust, JavaMaven, JavaGradle, Node, Python, Go, Cpp}

\* The tools of a plugin are a sequence of tools.
LEMMA PluginFacts ==
  ASSUME NEW p \in Plugins
  PROVE  p.tools \in Seq(Tools) /\ ToSet(p.tools) = Range(p.tools)
  <1>1. /\ rust_analyzer \in Tools /\ codelldb \in Tools /\ jdtls \in Tools /\ lombok \in Tools /\ typescript \in Tools
        /\ ts_language_server \in Tools /\ scip_typescript \in Tools /\ pyright \in Tools /\ scip_python \in Tools
        /\ clangd \in Tools /\ scip_clang \in Tools /\ scip_go \in Tools
    BY ToolsKnown DEF KnownTools
  <1>2. /\ Rust.tools = <<rust_analyzer, codelldb>> /\ JavaMaven.tools = <<jdtls, lombok>>
        /\ JavaGradle.tools = <<jdtls, lombok>> /\ Node.tools = <<typescript, ts_language_server, scip_typescript>>
        /\ Python.tools = <<pyright, scip_python>> /\ Go.tools = <<scip_go>> /\ Cpp.tools = <<clangd, scip_clang, codelldb>>
    BY DEF Rust, JavaMaven, JavaGradle, Node, Python, Go, Cpp
  <1>3. /\ Rust.tools \in Seq(Tools) /\ JavaMaven.tools \in Seq(Tools) /\ JavaGradle.tools \in Seq(Tools)
        /\ Node.tools \in Seq(Tools) /\ Python.tools \in Seq(Tools) /\ Go.tools \in Seq(Tools) /\ Cpp.tools \in Seq(Tools)
    <2>1. \A S : /\ \A a \in S : <<a>> \in Seq(S)
                 /\ \A a, b \in S : <<a, b>> \in Seq(S)
                 /\ \A a, b, c \in S : <<a, b, c>> \in Seq(S)
      OBVIOUS
    <2> QED
      BY <1>1, <1>2, <2>1
  <1>4. ToSet(p.tools) = Range(p.tools)
    BY Zenon DEF ToSet, Range
  <1> QED
    BY <1>3, <1>4 DEF Plugins

\* The plugins that claim a root, and the tools they install, one after the other.
LEMMA DetectedFacts ==
  ASSUME NEW files
  PROVE  /\ detect(files) \in Seq(Plugins)
         /\ InstallOrder(files) \in Seq(Tools)
         /\ \A t : t \in ToSet(InstallOrder(files)) <=> \E i \in 1..Len(detect(files)) : t \in ToSet(detect(files)[i].tools)
  <1> DEFINE P == {p \in Plugins : p.markers \cap files # {}}
             claimed == detect(files)
             pieces == [i \in DOMAIN claimed |-> claimed[i].tools]
  <1>1. builtin \in Seq(Plugins)
    BY DEF builtin, Plugins
  <1>2. \A i \in DOMAIN builtin : builtin[i] \in Plugins
    BY <1>1
  <1>3. detect(files) = Passing(builtin, P)
    BY <1>2 DEF detect, Kept, Passing
  <1>4. claimed \in Seq(Plugins)
    <2> HIDE DEF P
    <2> QED
      BY <1>1, <1>3, KeptFacts
  <1> HIDE DEF claimed
  <1>5. DOMAIN claimed = 1..Len(claimed) /\ Len(claimed) \in Nat /\ \A i \in 1..Len(claimed) : claimed[i] \in Plugins
    BY <1>4
  <1>6. \A i \in 1..Len(claimed) : claimed[i].tools \in Seq(Tools)
    BY <1>5, PluginFacts
  <1>7. pieces \in Seq(Seq(Tools)) /\ Len(pieces) = Len(claimed) /\ \A i \in 1..Len(claimed) : pieces[i] = claimed[i].tools
    BY <1>5, <1>6
  <1>8. InstallOrder(files) = FlattenSeq(pieces)
    BY Zenon DEF InstallOrder, claimed
  <1> HIDE DEF pieces
  <1>9. /\ FlattenSeq(pieces) \in Seq(Tools)
        /\ \A t : t \in ToSet(FlattenSeq(pieces)) <=> \E i \in 1..Len(pieces) : t \in ToSet(pieces[i])
    BY <1>7, FlattenRange
  <1>10. \A t : t \in ToSet(FlattenSeq(pieces)) <=> \E i \in 1..Len(claimed) : t \in ToSet(claimed[i].tools)
    <2>1. 1..Len(pieces) = 1..Len(claimed)
      BY <1>7
    <2> QED
      BY <1>7, <1>9, <2>1, Zenon
  <1> QED
    BY <1>4, <1>8, <1>9, <1>10 DEF claimed

\* After project_setup a tool on the list is reported as an error exactly if it is not
\* there.
LEMMA SetupEnds ==
  ASSUME NEW bin, NEW files, NEW world
  PROVE  LET tools == InstallOrder(files)
             done  == project_setup(bin, files, world) IN
         /\ DOMAIN done.reports = 1..Len(tools)
         /\ \A j \in 1..Len(tools) :
              /\ tools[j] \in Tools /\ done.reports[j].tool = tools[j]
              /\ done.reports[j].status = "error" <=> ~Present(done.bin, tools[j])
              /\ ~Present(done.bin, tools[j]) => Unable(tools[j], world)
  <1> DEFINE tools == InstallOrder(files)
             done == project_setup(bin, files, world)
             n == Len(tools)
  <1>1. tools \in Seq(Tools)
    BY DetectedFacts
  <1>2. DOMAIN tools = 1..n /\ n \in Nat /\ \A j \in 1..n : tools[j] \in Tools
    BY <1>1, RangeByPlace
  <1>3. PICK g : IsTrace(g, bin, tools, world, n) /\ done = g[n]
    BY <1>2, SetupTrace
  <1> HIDE DEF tools, done, n
  <1>4. Reached(g, bin, tools, world, n)
    <2>1. n \in 0..n
      BY <1>2
    <2> QED
      BY <1>2, <1>3, <2>1, ReachedAlways
  <1>5. DOMAIN done.reports = 1..n
    BY <1>2, <1>3, <1>4 DEF Reached
  <1>6. ASSUME NEW j \in 1..n
        PROVE  /\ done.reports[j].tool = tools[j]
               /\ done.reports[j].status = "error" <=> ~Present(done.bin, tools[j])
               /\ ~Present(done.bin, tools[j]) => Unable(tools[j], world)
    <2>1. Present(done.bin, tools[j]) <=> Present(bin, tools[j]) \/ (~Unable(tools[j], world) /\ \E i \in 1..n : tools[i] = tools[j])
      BY <1>2, <1>3, <1>4 DEF Reached
    <2>2. Present(done.bin, tools[j]) <=> Present(bin, tools[j]) \/ ~Unable(tools[j], world)
      BY <2>1
    <2>3. /\ done.reports[j].tool = tools[j]
          /\ done.reports[j].status = "error" <=> ~Present(bin, tools[j]) /\ Unable(tools[j], world)
      BY <1>3, <1>4 DEF Reached
    <2> QED
      BY <2>2, <2>3
  <1> QED
    BY <1>2, <1>5, <1>6 DEF tools, done, n

\* A second project_setup changes nothing and has the errors of the first, from every
\* directory of tools, for every root and whatever fails.
LEMMA SetupAlwaysIdempotent == SetupIdempotent
  <1> SUFFICES LET again == project_setup(SetUp.bin, input.files, input.world) IN
               /\ again.bin = SetUp.bin
               /\ \A i \in DOMAIN again.reports :
                    again.reports[i].status = IF SetUp.reports[i].status = "error" THEN "error" ELSE "already-installed"
    BY Zenon DEF SetupIdempotent
  <1> DEFINE tools == InstallOrder(input.files)
             n == Len(tools)
             again == project_setup(SetUp.bin, input.files, input.world)
  <1>1. DOMAIN SetUp.reports = 1..n
        /\ \A j \in 1..n : /\ tools[j] \in Tools
                           /\ SetUp.reports[j].status = "error" <=> ~Present(SetUp.bin, tools[j])
                           /\ ~Present(SetUp.bin, tools[j]) => Unable(tools[j], input.world)
    BY SetupEnds DEF SetUp
  <1>2. DOMAIN tools = 1..n /\ n \in Nat
    BY DetectedFacts, RangeByPlace
  <1>3. PICK g : IsTrace(g, SetUp.bin, tools, input.world, n) /\ again = g[n]
    BY <1>2, SetupTrace
  <1> HIDE DEF tools, n, again
  <1>4. /\ g[n].bin = SetUp.bin
        /\ Len(g[n].reports) = n /\ g[n].reports \in Seq([tool : Tools, status : {"already-installed", "error"}])
        /\ \A j \in 1..n : g[n].reports[j].status = IF Present(SetUp.bin, tools[j]) THEN "already-installed" ELSE "error"
    <2>1. n \in 0..n
      BY <1>2
    <2>2. \A j \in 1..n : tools[j] \in Tools
      BY <1>1
    <2>3. \A j \in 1..n : Present(SetUp.bin, tools[j]) \/ Unable(tools[j], input.world)
      BY <1>1
    <2> DEFINE b == SetUp.bin
               w == input.world
    <2>4. IsTrace(g, b, tools, w, n)
      BY <1>3
    <2>5. \A j \in 1..n : Present(b, tools[j]) \/ Unable(tools[j], w)
      BY <2>3
    <2> HIDE DEF b, w
    <2>6. Repeated(g, b, tools, n)
      BY <1>2, <2>1, <2>2, <2>4, <2>5, SecondRun
    <2> QED
      BY <2>6 DEF b, Repeated
  <1>5. DOMAIN again.reports = 1..n
    BY <1>2, <1>3, <1>4
  <1>6. \A i \in 1..n : again.reports[i].status = IF SetUp.reports[i].status = "error" THEN "error" ELSE "already-installed"
    BY <1>1, <1>3, <1>4
  <1> QED
    BY <1>3, <1>4, <1>5, <1>6 DEF again

\* What a program needs: itself, and one of them a file beside it.
LEMMA NeedsFacts ==
  ASSUME NEW e
  PROVE  /\ e # "typescript-language-server" => Needs(e) = {e}
         /\ e = "typescript-language-server" => Needs(e) = {e, "tsserver.js"}
  <1>1. \A t \in Tools : t.executable = e /\ e # "typescript-language-server" => t.beside = {}
    BY ToolsKnown, ToolsBeside, ToolExecutables
  <1>2. \A t \in Tools : t.executable = "typescript-language-server" => t = ts_language_server
    BY ToolsKnown, ToolsApart, ToolExecutables DEF KnownTools
  <1>3. ts_language_server \in Tools /\ ts_language_server.executable = "typescript-language-server"
        /\ ts_language_server.beside = {"tsserver.js"}
    BY ToolsKnown, ToolsBeside, ToolExecutables DEF KnownTools
  <1> QED
    BY <1>1, <1>2, <1>3 DEF Needs

\* What the tools of the server start for a plugin, the plugin installs.
LEMMA NeededTools ==
  ASSUME NEW p \in Plugins
  PROVE  /\ \A e \in {p.lsp, p.scip} \ ByHand : \A x \in Needs(e) : \E t \in Range(p.tools) : t.executable = x
         /\ p.dap # None => Needs(p.dap) = {p.dap} /\ \E t \in Range(p.tools) : t.executable = p.dap
  <1>1. /\ Rust.lsp = "rust-analyzer" /\ Rust.scip = "rust-analyzer" /\ Rust.dap = "codelldb"
        /\ JavaMaven.lsp = "jdtls" /\ JavaMaven.scip = "scip-java" /\ JavaMaven.dap = None
        /\ JavaGradle.lsp = "jdtls" /\ JavaGradle.scip = "scip-java" /\ JavaGradle.dap = None
        /\ Node.lsp = "typescript-language-server" /\ Node.scip = "scip-typescript" /\ Node.dap = None
        /\ Python.lsp = "pyright-langserver" /\ Python.scip = "scip-python" /\ Python.dap = None
        /\ Go.lsp = "gopls" /\ Go.scip = "scip-go" /\ Go.dap = None
        /\ Cpp.lsp = "clangd" /\ Cpp.scip = "scip-clang" /\ Cpp.dap = "codelldb"
    BY DEF Rust, JavaMaven, JavaGradle, Node, Python, Go, Cpp
  <1>2. Needs("codelldb") = {"codelldb"}
    BY NeedsFacts
  <1>3. p.dap # None => p.dap = "codelldb" /\ \E t \in Range(p.tools) : t.executable = "codelldb"
    BY <1>1, PluginTools, ToolExecutables DEF Plugins
  <1>4. ASSUME NEW e \in {p.lsp, p.scip} \ ByHand, NEW x \in Needs(e)
        PROVE  \E t \in Range(p.tools) : t.executable = x
    <2>1. x = e \/ (e = "typescript-language-server" /\ x = "tsserver.js")
      BY NeedsFacts
    <2> QED
      BY <1>1, <2>1, PluginTools, ToolExecutables DEF Plugins, ByHand
  <1> QED
    BY <1>2, <1>3, <1>4

\* What the tools of the server start for a root is there after project_setup, or was
\* reported as an error.
LEMMA SetupAlwaysHonest == SetupIsHonest
  <1> SUFFICES ASSUME detect(input.files) # <<>>
               PROVE  LET p == plugin_for(input.files) IN
                      /\ \A e \in {p.lsp, p.scip} \ ByHand : Started(SetUp.bin, e) \/ Needs(e) \cap Failed # {}
                      /\ p.dap # None => AdapterStarted(SetUp.bin, p.dap, input.path) \/ p.dap \in Failed
    BY Zenon DEF SetupIsHonest
  <1> DEFINE tools == InstallOrder(input.files)
             n == Len(tools)
             p == plugin_for(input.files)
             claimed == detect(input.files)
  <1>1. DOMAIN SetUp.reports = 1..n
        /\ \A j \in 1..n : /\ tools[j] \in Tools /\ SetUp.reports[j].tool = tools[j]
                           /\ SetUp.reports[j].status = "error" <=> ~Present(SetUp.bin, tools[j])
    BY SetupEnds DEF SetUp
  <1>2. tools \in Seq(Tools) /\ claimed \in Seq(Plugins)
        /\ \A t : t \in ToSet(tools) <=> \E i \in 1..Len(claimed) : t \in ToSet(claimed[i].tools)
    BY DetectedFacts
  <1>3. p = claimed[1] /\ 1 \in 1..Len(claimed) /\ p \in Plugins
    <2>1. p = Head(claimed)
      BY DEF plugin_for
    <2> HIDE DEF claimed, p
    <2> QED
      BY <1>2, <2>1 DEF claimed
  <1> HIDE DEF tools, n, p, claimed
  <1>4. ASSUME NEW t \in Range(p.tools)
        PROVE  t.executable \in SetUp.bin.files \/ t.executable \in Failed
    <2>1. t \in ToSet(tools)
      <3>1. t \in ToSet(p.tools)
        BY <1>3, PluginFacts
      <3> QED
        BY <1>2, <1>3, <3>1
    <2>2. PICK j \in 1..n : t = tools[j]
      BY <1>2, <2>1, RangeByPlace DEF n
    <2>3. CASE SetUp.reports[j].status = "error"
      <3>1. SetUp.reports[j] \in Range(SetUp.reports)
        BY <1>1 DEF Range
      <3>2. SetUp.reports[j].tool = t
        BY <1>1, <2>2
      <3> QED
        BY <2>3, <3>1, <3>2 DEF Failed
    <2>4. CASE SetUp.reports[j].status # "error"
      BY <1>1, <2>2, <2>4 DEF Present
    <2> QED
      BY <2>3, <2>4
  <1>5. ASSUME NEW e \in {p.lsp, p.scip} \ ByHand
        PROVE  Started(SetUp.bin, e) \/ Needs(e) \cap Failed # {}
    <2>1. \A x \in Needs(e) : \E t \in Range(p.tools) : t.executable = x
      BY <1>3, NeededTools
    <2>2. \A x \in Needs(e) : x \in SetUp.bin.files \/ x \in Failed
      BY <1>4, <2>1
    <2> QED
      BY <2>2 DEF Started
  <1>6. ASSUME p.dap # None
        PROVE  AdapterStarted(SetUp.bin, p.dap, input.path) \/ p.dap \in Failed
    <2>1. Needs(p.dap) = {p.dap} /\ \E t \in Range(p.tools) : t.executable = p.dap
      BY <1>3, <1>6, NeededTools
    <2>2. p.dap \in SetUp.bin.files \/ p.dap \in Failed
      BY <1>4, <2>1
    <2> QED
      BY <2>1, <2>2 DEF AdapterStarted, Started
  <1> QED
    BY <1>5, <1>6 DEF p

\* project_setup tells what is missing, and once is enough: for every root, directory of
\* tools, manifest, target, and for every download that fails and entry that an archive
\* lacks (SetupHolds).
THEOREM SetupAlwaysHolds == SetupHolds
  BY SetupAlwaysHonest, SetupAlwaysIdempotent DEF SetupHolds

-----------------------------------------------------------------------------
(***************************************************************************)
(* The classes of classify_path do not depend on how deep a package lies.  *)
(* A plugin asks three things of a path: whether it lies under some        *)
(* directories, whether it lies right in one at the top, and what its file *)
(* name looks like.                                                        *)
(***************************************************************************)

\* The pieces that names are made of may be any set P; these are the directories
\* that the plugins look for, and the two that are put before a path.
Words == {"tests", "test", "__tests__", "examples", "benches", "bin", "scripts", "cmd", "src"}
Deeper == {"packages", "a"}

Paths(P) == [dirs : Seq(P), stem : Seq(P), ext : P]

\* What Lower does to one piece.
LowerOne(piece) == IF piece \in DOMAIN Lowered THEN Lowered[piece] ELSE piece

\* Lower works piece by piece, and leaves these as they are.
LEMMA LowerPieces ==
  ASSUME NEW P, NEW d \in Seq(P)
  PROVE  /\ Lower(d) \in Seq({LowerOne(x) : x \in P}) /\ Len(Lower(d)) = Len(d)
         /\ \A i \in 1..Len(d) : Lower(d)[i] = LowerOne(d[i])
  BY DEF Lower, LowerOne

\* The added directories stay as they are, and only src is src in lower case.
LEMMA LoweredPieces ==
  /\ LowerOne("packages") = "packages" /\ LowerOne("a") = "a"
  /\ \A x : LowerOne(x) = "src" => x = "src"
  BY DEF LowerOne, Lowered

\* One sequence begins with another: position by position.
LEMMA PrefixByPlace ==
  ASSUME NEW S, NEW s \in Seq(S), NEW t \in Seq(S)
  PROVE  IsPrefix(s, t) <=> Len(s) <= Len(t) /\ \A k \in 1..Len(s) : s[k] = t[k]
  <1>1. ASSUME Len(s) <= Len(t)
        PROVE  SubSeq(s, 1, Len(s)) = SubSeq(t, 1, Len(s)) <=> \A k \in 1..Len(s) : s[k] = t[k]
    <2>1. SubSeq(s, 1, Len(s)) \in Seq(S) /\ SubSeq(t, 1, Len(s)) \in Seq(S)
      BY <1>1
    <2>2. Len(SubSeq(s, 1, Len(s))) = Len(s) /\ Len(SubSeq(t, 1, Len(s))) = Len(s)
      BY <1>1
    <2>3. \A k \in 1..Len(s) : SubSeq(s, 1, Len(s))[k] = s[k] /\ SubSeq(t, 1, Len(s))[k] = t[k]
      BY <1>1
    <2> QED
      BY <2>1, <2>2, <2>3
  <1> QED
    BY <1>1 DEF IsPrefix

\* The directories begin at place i + 1 of the path.
Begins(d, dirs, i) == Len(dirs) <= Len(d) - i /\ \A k \in 1..Len(dirs) : LowerOne(d[i + k]) = dirs[k]

\* A path lies under the directories exactly if they begin at some place of it.
LEMMA UnderByPlace ==
  ASSUME NEW P, NEW path, path.dirs \in Seq(P), NEW dirs \in Seq(Words)
  PROVE  Under(path, dirs) <=> \E i \in 0..Len(path.dirs) : Begins(path.dirs, dirs, i)
  <1> DEFINE d == path.dirs
             S == {LowerOne(x) : x \in P} \cup Words
             low == Lower(d)
  <1>1. low \in Seq(S) /\ Len(low) = Len(d) /\ Len(d) \in Nat
        /\ \A i \in 1..Len(d) : low[i] = LowerOne(d[i])
    <2>1. d \in Seq(P)
      OBVIOUS
    <2>2. low \in Seq({LowerOne(x) : x \in P}) /\ Len(low) = Len(d)
          /\ \A i \in 1..Len(d) : low[i] = LowerOne(d[i])
      BY <2>1, LowerPieces
    <2> QED
      BY <2>1, <2>2
  <1>2. dirs \in Seq(S) /\ Len(dirs) \in Nat
    OBVIOUS
  <1>3. Under(path, dirs) <=> \E i \in 0..Len(d) : IsPrefix(dirs, SubSeq(low, i + 1, Len(d)))
    BY DEF Under
  <1> HIDE DEF S, low, d
  <1>4. ASSUME NEW i \in 0..Len(d)
        PROVE  IsPrefix(dirs, SubSeq(low, i + 1, Len(d))) <=> Begins(d, dirs, i)
    <2> DEFINE rest == SubSeq(low, i + 1, Len(d))
    <2>1. rest \in Seq(S) /\ Len(rest) = Len(d) - i /\ \A k \in 1..Len(rest) : rest[k] = low[i + k]
      <3>1. Len(low) \in Nat /\ i + 1 \in 1..Len(d) + 1
        BY <1>1
      <3> QED
        BY <1>1, <3>1
    <2> HIDE DEF rest
    <2>2. IsPrefix(dirs, rest) <=> Len(dirs) <= Len(rest) /\ \A k \in 1..Len(dirs) : dirs[k] = rest[k]
      BY <1>2, <2>1, PrefixByPlace
    <2>3. ASSUME Len(dirs) <= Len(rest), NEW k \in 1..Len(dirs)
          PROVE  rest[k] = LowerOne(d[i + k])
      <3>1. k \in 1..Len(rest) /\ i + k \in 1..Len(d)
        BY <1>1, <1>2, <2>1, <2>3
      <3> QED
        BY <1>1, <2>1, <3>1
    <2>4. IsPrefix(dirs, rest) <=> Begins(d, dirs, i)
      BY <2>1, <2>2, <2>3 DEF Begins
    <2> QED
      BY <2>4 DEF rest
  <1> QED
    BY <1>3, <1>4 DEF d

\* A path that lies deeper.
Nested(path) == [path EXCEPT !.dirs = <<"packages", "a">> \o @]

\* The deeper path: two more directories, then those of the path, and its file name.
LEMMA NestedPieces ==
  ASSUME NEW P, NEW path \in Paths(P)
  PROVE  /\ Nested(path).dirs \in Seq(P \cup Deeper) /\ Len(Nested(path).dirs) = Len(path.dirs) + 2
         /\ Nested(path).dirs[1] = "packages" /\ Nested(path).dirs[2] = "a"
         /\ \A i \in 1..Len(path.dirs) : Nested(path).dirs[i + 2] = path.dirs[i]
         /\ Nested(path).stem = path.stem /\ Nested(path).ext = path.ext
  <1>1. path.dirs \in Seq(P \cup Deeper) /\ <<"packages", "a">> \in Seq(P \cup Deeper)
    BY DEF Paths, Deeper
  <1>2. Nested(path).dirs = <<"packages", "a">> \o path.dirs
        /\ Nested(path).stem = path.stem /\ Nested(path).ext = path.ext
    BY DEF Nested, Paths
  <1>3. Len(<<"packages", "a">>) = 2
    OBVIOUS
  <1> QED
    BY <1>1, <1>2, <1>3

\* A path lies under directories that a plugin looks for exactly if the deeper one
\* does: none of them begins with one of the two that were added.
LEMMA UnderNested ==
  ASSUME NEW P, NEW path \in Paths(P), NEW dirs \in Seq(Words), dirs # <<>>
  PROVE  Under(Nested(path), dirs) <=> Under(path, dirs)
  <1> DEFINE d == path.dirs
             n == Nested(path).dirs
  <1>1. /\ d \in Seq(P) /\ n \in Seq(P \cup Deeper) /\ Len(n) = Len(d) + 2 /\ Len(d) \in Nat
        /\ n[1] = "packages" /\ n[2] = "a"
        /\ \A i \in 1..Len(d) : n[i + 2] = d[i]
    <2>1. d \in Seq(P)
      BY DEF Paths
    <2> QED
      BY <2>1, NestedPieces
  <1>2. Len(dirs) \in Nat \ {0} /\ dirs[1] \in Words
    OBVIOUS
  <1>3. Under(path, dirs) <=> \E i \in 0..Len(d) : Begins(d, dirs, i)
    BY <1>1, UnderByPlace
  <1>4. Under(Nested(path), dirs) <=> \E i \in 0..Len(n) : Begins(n, dirs, i)
    BY <1>1, UnderByPlace
  <1> HIDE DEF d, n
  <1>5. ASSUME NEW i \in 0..Len(d)
        PROVE  Begins(n, dirs, i + 2) <=> Begins(d, dirs, i)
    <2>1. Len(dirs) <= Len(n) - (i + 2) <=> Len(dirs) <= Len(d) - i
      BY <1>1, <1>2
    <2>2. ASSUME Len(dirs) <= Len(d) - i, NEW k \in 1..Len(dirs)
          PROVE  n[(i + 2) + k] = d[i + k]
      <3>1. i + k \in 1..Len(d) /\ (i + k) + 2 = (i + 2) + k
        BY <1>1, <1>2, <2>2
      <3>2. n[(i + k) + 2] = d[i + k]
        BY <1>1, <3>1
      <3> QED
        BY <3>1, <3>2
    <2> QED
      BY <2>1, <2>2 DEF Begins
  <1>6. ASSUME NEW i \in {0, 1}
        PROVE  ~Begins(n, dirs, i)
    <2>1. 1 \in 1..Len(dirs) /\ LowerOne(n[i + 1]) \in {"packages", "a"}
      BY <1>1, <1>2, LoweredPieces
    <2> QED
      BY <1>2, <2>1 DEF Begins, Words
  <1>7. ASSUME NEW i \in 0..Len(n)
        PROVE  i \in {0, 1} \/ i - 2 \in 0..Len(d)
    BY <1>1
  <1>8. \A i \in 0..Len(d) : i + 2 \in 0..Len(n)
    BY <1>1
  <1>9. \A i \in 0..Len(n) : i - 2 \in 0..Len(d) => (i - 2) + 2 = i
    BY <1>1
  <1>10. (\E i \in 0..Len(n) : Begins(n, dirs, i)) => \E i \in 0..Len(d) : Begins(d, dirs, i)
    <2> SUFFICES ASSUME NEW i \in 0..Len(n), Begins(n, dirs, i)
                 PROVE  \E j \in 0..Len(d) : Begins(d, dirs, j)
      OBVIOUS
    <2>1. i - 2 \in 0..Len(d) /\ (i - 2) + 2 = i
      BY <1>6, <1>7, <1>9
    <2> QED
      BY <1>5, <2>1
  <1> QED
    BY <1>3, <1>4, <1>5, <1>8, <1>10

\* No deeper path lies right in src at the top, and of the others only src/ does.
LEMMA TopNested ==
  ASSUME NEW P, NEW path \in Paths(P)
  PROVE  /\ ~IsTop(Nested(path), <<"src">>)
         /\ IsTop(path, <<"src">>) => path.dirs = <<"src">>
  <1>1. path.dirs \in Seq(P) /\ Nested(path).dirs \in Seq(P \cup Deeper) /\ Len(Nested(path).dirs) = Len(path.dirs) + 2
        /\ Len(path.dirs) \in Nat
    <2>1. path.dirs \in Seq(P) /\ Len(path.dirs) \in Nat
      BY DEF Paths
    <2>2. Nested(path).dirs \in Seq(P \cup Deeper) /\ Len(Nested(path).dirs) = Len(path.dirs) + 2
      BY NestedPieces
    <2> QED
      BY <2>1, <2>2
  <1>2. ~IsTop(Nested(path), <<"src">>)
    <2>1. Len(Lower(Nested(path).dirs)) = Len(path.dirs) + 2
      BY <1>1, LowerPieces
    <2>2. Len(<<"src">>) = 1
      OBVIOUS
    <2> SUFFICES ASSUME Lower(Nested(path).dirs) = <<"src">>
                 PROVE  FALSE
      BY DEF IsTop
    <2>3. Len(path.dirs) + 2 = 1
      BY <2>1, <2>2, Zenon
    <2> QED
      BY <1>1, <2>3
  <1>3. ASSUME IsTop(path, <<"src">>)
        PROVE  path.dirs = <<"src">>
    <2>1. Len(path.dirs) = 1 /\ LowerOne(path.dirs[1]) = "src"
      <3>1. Lower(path.dirs) = <<"src">>
        BY <1>3 DEF IsTop
      <3>2. Len(Lower(path.dirs)) = Len(path.dirs)
            /\ \A i \in 1..Len(path.dirs) : Lower(path.dirs)[i] = LowerOne(path.dirs[i])
        BY <1>1, LowerPieces
      <3>3. Len(<<"src">>) = 1 /\ <<"src">>[1] = "src"
        OBVIOUS
      <3> QED
        BY <1>1, <3>1, <3>2, <3>3
    <2>2. path.dirs[1] = "src"
      BY <2>1, LoweredPieces
    <2> QED
      BY <1>1, <2>1, <2>2
  <1> QED
    BY <1>2, <1>3

\* What a plugin asks of the directories is the same of a path and of the deeper
\* one, and the file name is the same.
LEMMA SameAnswers ==
  ASSUME NEW P, NEW path \in Paths(P)
  PROVE  /\ \A w \in Words : Under(Nested(path), <<w>>) <=> Under(path, <<w>>)
         /\ Under(Nested(path), <<"src", "bin">>) <=> Under(path, <<"src", "bin">>)
         /\ Nested(path).stem = path.stem /\ Nested(path).ext = path.ext
  <1>1. ASSUME NEW w \in Words
        PROVE  Under(Nested(path), <<w>>) <=> Under(path, <<w>>)
    <2>1. <<w>> \in Seq(Words) /\ <<w>> # <<>>
      OBVIOUS
    <2> QED
      BY <2>1, UnderNested
  <1>2. <<"src", "bin">> \in Seq(Words) /\ <<"src", "bin">> # <<>>
    BY DEF Words
  <1> QED
    BY <1>1, <1>2, UnderNested, NestedPieces

\* A Rust file: but for the main file at the top of the repository.
LEMMA RustKeepsClass ==
  ASSUME NEW P, NEW path \in Paths(P),
         path # [dirs |-> <<"src">>, stem |-> <<"main">>, ext |-> "rs"]
  PROVE  classify_rust_path(path) = classify_rust_path(Nested(path))
  <1>1. is_rust_test(path, <<>>) <=> is_rust_test(Nested(path), <<>>)
    BY SameAnswers DEF is_rust_test, Words
  <1>2. ~(IsTop(path, <<"src">>) /\ path.stem = <<"main">> /\ path.ext = "rs")
    BY TopNested DEF Paths
  <1>3. ~(IsTop(Nested(path), <<"src">>))
    BY TopNested
  <1> QED
    BY <1>1, <1>2, <1>3, SameAnswers DEF classify_rust_path, Words

\* Files of the other plugins: the answers above are all that they look at.
LEMMA JavaKeepsClass ==
  ASSUME NEW P, NEW path \in Paths(P)
  PROVE  classify_java_path(path) = classify_java_path(Nested(path))
  <1>1. is_java_test(path, <<>>) <=> is_java_test(Nested(path), <<>>)
    BY SameAnswers DEF is_java_test, java_filename_looks_like_test, Words
  <1> QED
    BY <1>1, SameAnswers DEF classify_java_path, Words

\* As above, for Node.
LEMMA NodeKeepsClass ==
  ASSUME NEW P, NEW path \in Paths(P)
  PROVE  classify_node_path(path) = classify_node_path(Nested(path))
  <1>1. is_node_test(path, <<>>) <=> is_node_test(Nested(path), <<>>)
    BY SameAnswers DEF is_node_test, Words
  <1> QED
    BY <1>1, SameAnswers DEF classify_node_path, Words

\* As above, for Python.
LEMMA PythonKeepsClass ==
  ASSUME NEW P, NEW path \in Paths(P)
  PROVE  classify_python_path(path) = classify_python_path(Nested(path))
  <1>1. is_python_test(path, <<>>) <=> is_python_test(Nested(path), <<>>)
    BY SameAnswers DEF is_python_test, Words
  <1> QED
    BY <1>1, SameAnswers DEF classify_python_path, Words

\* As above, for Go.
LEMMA GoKeepsClass ==
  ASSUME NEW P, NEW path \in Paths(P)
  PROVE  classify_go_path(path) = classify_go_path(Nested(path))
  <1>1. is_go_test(path, <<>>) <=> is_go_test(Nested(path), <<>>)
    BY SameAnswers DEF is_go_test, Words
  <1> QED
    BY <1>1, SameAnswers DEF classify_go_path, Words

\* As above, for C and C++.
LEMMA CppKeepsClass ==
  ASSUME NEW P, NEW path \in Paths(P)
  PROVE  classify_cpp_path(path) = classify_cpp_path(Nested(path))
  <1>1. is_cpp_test(path, <<>>) <=> is_cpp_test(Nested(path), <<>>)
    BY SameAnswers DEF is_cpp_test, Words
  <1> QED
    BY <1>1, SameAnswers DEF classify_cpp_path, Words

-----------------------------------------------------------------------------
(* The theorem *)

\* For every file name and every directories, however deep, and whichever plugin
\* is asked: two more directories before the path do not change the class of the
\* file, but for the main file of a Rust package at the top of the repository.
THEOREM NestingAlwaysKeepsClass ==
  ASSUME NEW P,
         input \in [of : {"path"}, plugin : {builtin[i].id : i \in DOMAIN builtin}, path : Paths(P)]
  PROVE  NestingKeepsClass
  <1> DEFINE path == input.path
             id == input.plugin
  <1>1. path \in Paths(P)
    OBVIOUS
  <1>2. id \in {"rust", "java-maven", "java-gradle", "node", "python", "go", "cpp"}
    BY DEF builtin, Rust, JavaMaven, JavaGradle, Node, Python, Go, Cpp
  <1>3. [input.path EXCEPT !.dirs = <<"packages", "a">> \o @] = Nested(path)
    BY DEF Nested
  <1> SUFFICES ASSUME ~(id = "rust" /\ path = [dirs |-> <<"src">>, stem |-> <<"main">>, ext |-> "rs"])
               PROVE  classify_path(id, path) = classify_path(id, Nested(path))
    BY <1>3 DEF NestingKeepsClass
  <1> HIDE DEF path, id
  <1>4. CASE id = "rust"
    BY <1>1, <1>4, RustKeepsClass DEF classify_path
  <1>5. CASE id \in {"java-maven", "java-gradle"}
    BY <1>1, <1>5, JavaKeepsClass DEF classify_path
  <1>6. CASE id = "node"
    BY <1>1, <1>6, NodeKeepsClass DEF classify_path
  <1>7. CASE id = "python"
    BY <1>1, <1>7, PythonKeepsClass DEF classify_path
  <1>8. CASE id = "go"
    BY <1>1, <1>8, GoKeepsClass DEF classify_path
  <1>9. CASE id = "cpp"
    BY <1>1, <1>9, CppKeepsClass DEF classify_path
  <1> QED
    BY <1>2, <1>4, <1>5, <1>6, <1>7, <1>8, <1>9

-----------------------------------------------------------------------------
(***************************************************************************)
(* The report of an edit.                                                  *)
(***************************************************************************)

\* Diagnostics, of any severities and messages.
Snapshots(U) == [line : Nat, severity : U, message : U]

\* What a sequence holds is finite.
LEMMA RangeFinite ==
  ASSUME NEW S, NEW s \in Seq(S)
  PROVE  IsFiniteSet(ToSet(s))
  <1>1. DOMAIN s = 1..Len(s) /\ Len(s) \in Nat
    BY RangeByPlace
  <1>2. s \in Surjection(1..Len(s), ToSet(s))
    BY <1>1 DEF ToSet, Surjection
  <1>3. IsFiniteSet(1..Len(s))
    BY <1>1, FS_Interval
  <1> QED
    BY <1>2, <1>3, FS_Surjection

\* What a report says, in terms of sets: `old` and `now` are the keys before and after.
Keys(diags) == {diag_key(d) : d \in ToSet(diags)}
Tells(report, before, after) ==
  /\ \A d : d \in ToSet(report.new_errors) <=>
              d \in ToSet(after) /\ diag_key(d) \notin Keys(before) /\ d.severity = "Error"
  /\ \A d : d \in ToSet(report.resolved) <=> d \in ToSet(before) /\ diag_key(d) \notin Keys(after)
  /\ report.unchanged = Cardinality(Keys(before) \cap Keys(after))

LEMMA ReportFacts ==
  ASSUME NEW U, NEW before \in Seq(Snapshots(U)), NEW after \in Seq(Snapshots(U))
  PROVE  Tells(safe_edit_report(before, after), before, after)
  <1> DEFINE D      == Snapshots(U)
             old    == Keys(before)
             now    == Keys(after)
             Fresh  == {d \in D : diag_key(d) \notin old}
             Gone   == {d \in D : diag_key(d) \notin now}
             Errors == {d \in D : d.severity = "Error"}
             new    == Passing(after, Fresh)
             errors == Passing(new, Errors)
             gone   == Passing(before, Gone)
             report == safe_edit_report(before, after)
  <1>1. /\ \A i \in DOMAIN before : before[i] \in D
        /\ \A i \in DOMAIN after : after[i] \in D
    OBVIOUS
  <1>2. Kept(after, LAMBDA d : diag_key(d) \notin old) = new
    BY <1>1 DEF Kept, Passing
  <1>3. Kept(before, LAMBDA d : diag_key(d) \notin now) = gone
    BY <1>1 DEF Kept, Passing
  <1>4. /\ new \in Seq(D) /\ \A d : d \in ToSet(new) <=> d \in ToSet(after) /\ d \in Fresh
        /\ gone \in Seq(D) /\ \A d : d \in ToSet(gone) <=> d \in ToSet(before) /\ d \in Gone
    <2> HIDE DEF D, Fresh, Gone
    <2>1. before \in Seq(D) /\ after \in Seq(D)
      BY DEF D
    <2> QED
      BY <2>1, KeptFacts
  <1>5. Kept(new, LAMBDA d : d.severity = "Error") = errors
    <2>1. \A i \in DOMAIN new : new[i] \in D
      BY <1>4
    <2> HIDE DEF new
    <2> QED
      BY <2>1 DEF Kept, Passing
  <1>6. \A d : d \in ToSet(errors) <=> d \in ToSet(new) /\ d \in Errors
    <2> HIDE DEF D, new, Errors
    <2> QED
      BY <1>4, KeptFacts
  <1>7. report.new_errors = errors /\ report.resolved = gone /\ report.unchanged = Cardinality(old \cap now)
    <2>1. report.new_errors = Kept(Kept(after, LAMBDA d : diag_key(d) \notin old), LAMBDA d : d.severity = "Error")
      BY DEF safe_edit_report, Keys
    <2>2. report.resolved = Kept(before, LAMBDA d : diag_key(d) \notin now)
      BY DEF safe_edit_report, Keys
    <2>3. report.unchanged = Cardinality(old \cap now)
      BY DEF safe_edit_report, Keys
    <2> QED
      BY <1>2, <1>3, <1>5, <2>1, <2>2, <2>3
  <1>8. \A d \in ToSet(before) \cup ToSet(after) : d \in D
    BY <1>1, RangeByPlace
  <1> HIDE DEF D, old, now, new, errors, gone, report
  <1>9. \A d : d \in ToSet(report.new_errors) <=>
               d \in ToSet(after) /\ diag_key(d) \notin old /\ d.severity = "Error"
    BY <1>4, <1>6, <1>7, <1>8
  <1>10. \A d : d \in ToSet(report.resolved) <=> d \in ToSet(before) /\ diag_key(d) \notin now
    BY <1>4, <1>7, <1>8
  <1> QED
    BY <1>7, <1>9, <1>10 DEF old, now, report, Tells

\* The report of an edit hides no error and adds up, for any diagnostics before and
\* after it.
LEMMA ReportsAlwaysHonest ==
  ASSUME NEW U, input \in [of : {"report"}, before : Seq(Snapshots(U)), after : Seq(Snapshots(U))]
  PROVE  ReportHidesNothing
  <1> DEFINE D      == Snapshots(U)
             before == input.before
             after  == input.after
             old    == Keys(before)
             now    == Keys(after)
             same   == {d \in ToSet(before) : diag_key(d) \in now}
             report == safe_edit_report(before, after)
  <1>1. before \in Seq(D) /\ after \in Seq(D)
    OBVIOUS
  <1> HIDE DEF before, after
  <1>2. /\ \A d : d \in ToSet(report.new_errors) <=>
                  d \in ToSet(after) /\ diag_key(d) \notin old /\ d.severity = "Error"
        /\ \A d : d \in ToSet(report.resolved) <=> d \in ToSet(before) /\ diag_key(d) \notin now
        /\ report.unchanged = Cardinality(old \cap now)
    <2>1. Tells(report, before, after)
      BY <1>1, ReportFacts
    <2> QED
      BY <2>1 DEF Tells
  <1>3. /\ \A d \in ToSet(before) \cup ToSet(after) : d \in D
        /\ IsFiniteSet(ToSet(before))
    BY <1>1, RangeByPlace, RangeFinite
  <1> HIDE DEF report
  <1>4. \A d, e \in D : diag_key(d) = diag_key(e) => d = e
    <2> SUFFICES ASSUME NEW d \in D, NEW e \in D, diag_key(d) = diag_key(e)
                 PROVE  d = e
      OBVIOUS
    <2>1. d.line = e.line /\ d.severity = e.severity /\ d.message = e.message
      BY DEF diag_key
    <2> QED
      BY <2>1 DEF Snapshots
  <1>5. ToSet(report.resolved) = ToSet(before) \ same
    BY <1>2
  <1>6. /\ IsFiniteSet(same) /\ same \cap ToSet(before) = same
        /\ Cardinality(ToSet(before) \ same) = Cardinality(ToSet(before)) - Cardinality(same)
    <2>1. same \in SUBSET ToSet(before) /\ ToSet(before) \cap same = same /\ same \cap ToSet(before) = same
      OBVIOUS
    <2> HIDE DEF same
    <2>2. IsFiniteSet(same)
      BY <1>3, <2>1, FS_Subset
    <2>3. Cardinality(ToSet(before) \ same) = Cardinality(ToSet(before)) - Cardinality(ToSet(before) \cap same)
      BY <1>3, FS_Difference
    <2> QED
      BY <2>1, <2>2, <2>3
  <1>7. Cardinality(same) = Cardinality(old \cap now)
    <2> DEFINE key == [d \in same |-> diag_key(d)]
    <2>1. key \in [same -> old \cap now]
      BY DEF Keys
    <2>2. \A x \in old \cap now : \E d \in same : key[d] = x
      BY DEF Keys
    <2>3. \A d, e \in same : key[d] = key[e] => d = e
      BY <1>3, <1>4
    <2>4. key \in Bijection(same, old \cap now)
      <3> HIDE DEF key, same, old, now
      <3> QED
        BY <2>1, <2>2, <2>3 DEF Bijection, Injection, Surjection, IsInjective
    <2> HIDE DEF key, same, old, now
    <2> QED
      BY <1>6, <2>4, FS_Bijection DEF ExistsBijection
  <1>8. Cardinality(same) \in Nat /\ Cardinality(ToSet(before)) \in Nat
    BY <1>3, <1>6, FS_CardinalityType
  <1>9. report.unchanged + Cardinality(ToSet(report.resolved)) = Cardinality(ToSet(before))
    <2> HIDE DEF same, old, now
    <2> QED
      BY <1>2, <1>5, <1>6, <1>7, <1>8
  <1>10. \A d \in ToSet(after) : d.severity = "Error" => d \in ToSet(report.new_errors) \cup ToSet(before)
    BY <1>2, <1>3, <1>4 DEF Keys
  <1>11. ToSet(report.new_errors) \cap ToSet(before) = {}
    BY <1>2 DEF Keys
  <1> QED
    BY <1>9, <1>10, <1>11 DEF ReportHidesNothing, before, after, report

-----------------------------------------------------------------------------
(***************************************************************************)
(* Outlines.                                                               *)
(***************************************************************************)

Places == Nat \X Nat

\* Positions are ordered.
LEMMA PlacesOrdered ==
  /\ \A p \in Places : ~Before(p, p)
  /\ \A p, q, r \in Places : ~Before(q, p) /\ ~Before(r, q) => ~Before(r, p)
  /\ \A p, q \in Places : Before(p, q) \/ p = q \/ Before(q, p)
  /\ \A p, q \in Places : Before(p, q) => ~Before(q, p)
  /\ \A p, q, r \in Places : Before(p, q) /\ Before(q, r) => Before(p, r)
  BY DEF Places, Before

\* Outlines of any symbols; a parent stands before its children.
OutlineSymbols == [parent : Nat, range : Places \X Places, selection : Places \X Places]
OutlinesOf == {syms \in Seq(OutlineSymbols) : \A i \in 1..Len(syms) : syms[i].parent < i}

\* The first child around the position stands after its parent.
LEMMA FirstAround ==
  ASSUME NEW syms \in OutlinesOf, NEW p, NEW s \in 0..Len(syms), Around(syms, p, s) # {}
  PROVE  /\ Min(Around(syms, p, s)) \in Around(syms, p, s)
         /\ Min(Around(syms, p, s)) \in s + 1..Len(syms)
  <1>1. /\ DOMAIN syms = 1..Len(syms) /\ Len(syms) \in Nat
        /\ \A i \in 1..Len(syms) : syms[i].parent < i
    BY DEF OutlinesOf
  <1>2. Around(syms, p, s) \in SUBSET Nat
    BY <1>1 DEF Around
  <1>3. Min(Around(syms, p, s)) \in Around(syms, p, s)
    BY <1>2, LeastOne
  <1> QED
    BY <1>1, <1>3 DEF Around

\* find_enclosing_symbol descends: d tells where from each symbol.
Descends(d, syms, p, m) ==
  /\ DOMAIN d = 0..Len(syms)
  /\ \A s \in m..Len(syms) : d[s] = IF Around(syms, p, s) = {} THEN s ELSE d[Min(Around(syms, p, s))]

\* There is such a function: by induction from the last symbol to the first.
LEMMA DescentExists ==
  ASSUME NEW syms \in OutlinesOf, NEW p
  PROVE  \E d : Descends(d, syms, p, 0)
  <1> DEFINE n == Len(syms)
             T == {k \in Nat : k > n \/ \E d : Descends(d, syms, p, n - k)}
             a(s) == Around(syms, p, s)
  <1>1. n \in Nat
    BY DEF OutlinesOf
  <1> HIDE DEF n
  <1>2. \A s \in 0..n : a(s) # {} => Min(a(s)) \in s + 1..n
    BY FirstAround DEF n
  <1> HIDE DEF a
  <1>3. 0 \in T
    <2> DEFINE d == [s \in 0..n |-> s]
    <2>1. ASSUME NEW s \in n - 0..n
          PROVE  a(s) = {} /\ d[s] = s
      <3>1. s = n /\ s \in 0..n
        BY <1>1
      <3> QED
        BY <1>1, <1>2, <3>1
    <2>2. Descends(d, syms, p, n - 0)
      BY <2>1 DEF Descends, n, a
    <2> QED
      BY <2>2
  <1>4. ASSUME NEW k \in T
        PROVE  k + 1 \in T
    <2> SUFFICES ASSUME k + 1 <= n
                 PROVE  \E d : Descends(d, syms, p, n - (k + 1))
      BY <1>1
    <2>1. PICK d : Descends(d, syms, p, n - k)
      BY <1>1
    <2> DEFINE s0 == n - (k + 1)
               e == [d EXCEPT ![s0] = IF a(s0) = {} THEN s0 ELSE d[Min(a(s0))]]
    <2>2. s0 \in 0..n /\ s0 + 1 = n - k /\ s0 \in Nat
      BY <1>1
    <2>3. DOMAIN d = 0..n /\ \A s \in s0 + 1..n : d[s] = IF a(s) = {} THEN s ELSE d[Min(a(s))]
      BY <2>1, <2>2 DEF Descends, n, a
    <2> HIDE DEF s0
    <2>4. DOMAIN e = 0..n /\ e[s0] = (IF a(s0) = {} THEN s0 ELSE d[Min(a(s0))])
          /\ \A s \in 0..n : s # s0 => e[s] = d[s]
      BY <2>2, <2>3
    <2> HIDE DEF e
    <2>5. ASSUME NEW s \in s0..n
          PROVE  e[s] = IF a(s) = {} THEN s ELSE e[Min(a(s))]
      <3>1. s \in 0..n /\ s \in Nat
        BY <1>1, <2>2
      <3>2. a(s) # {} => e[Min(a(s))] = d[Min(a(s))]
        BY <1>1, <1>2, <2>2, <2>4, <3>1
      <3>3. CASE s = s0
        BY <2>4, <3>2, <3>3
      <3>4. CASE s # s0
        <4>1. s \in s0 + 1..n
          BY <1>1, <2>2, <3>4
        <4> QED
          BY <2>3, <2>4, <3>1, <3>2, <3>4, <4>1
      <3> QED
        BY <3>3, <3>4
    <2>6. Descends(e, syms, p, s0)
      BY <2>4, <2>5 DEF Descends, n, a
    <2> QED
      BY <2>6 DEF s0
  <1>5. T = Nat
    <2> HIDE DEF T
    <2>1. T \in SUBSET Nat
      BY DEF T
    <2> QED
      BY <1>3, <1>4, <2>1, SetInduction
  <1>6. n \in T
    BY <1>1, <1>5
  <1>7. ~(n > n) /\ n - n = 0
    BY <1>1
  <1> QED
    BY <1>6, <1>7

\* What find_enclosing_symbol returns is where one such function ends from the top.
LEMMA FoundByDescent ==
  ASSUME NEW syms \in OutlinesOf, NEW p
  PROVE  \E d : Descends(d, syms, p, 0) /\ find_enclosing_symbol(syms, p) = d[0]
  <1> DEFINE step(d) == [s \in 0..Len(syms) |-> IF Around(syms, p, s) = {} THEN s ELSE d[Min(Around(syms, p, s))]]
             f == CHOOSE d : d = step(d)
  <1>1. PICK d : Descends(d, syms, p, 0)
    BY DescentExists
  <1>2. ASSUME NEW e, Descends(e, syms, p, 0), e = [s \in 0..Len(syms) |-> e[s]]
        PROVE  e = step(e)
    BY <1>2 DEF Descends
  <1> DEFINE e == [s \in 0..Len(syms) |-> d[s]]
  <1>3. \A s \in 0..Len(syms) : Around(syms, p, s) # {} => Min(Around(syms, p, s)) \in 0..Len(syms)
    <2>1. Len(syms) \in Nat
      BY DEF OutlinesOf
    <2> QED
      BY <2>1, FirstAround
  <1>4. Descends(e, syms, p, 0)
    BY <1>1, <1>3 DEF Descends
  <1>5. e = [s \in 0..Len(syms) |-> e[s]]
    OBVIOUS
  <1> HIDE DEF e
  <1>6. e = step(e)
    BY <1>2, <1>4, <1>5
  <1> HIDE DEF step
  <1>7. f = step(f)
    BY <1>6
  <1>8. Descends(f, syms, p, 0)
    <2> HIDE DEF f
    <2>1. f = [s \in 0..Len(syms) |-> IF Around(syms, p, s) = {} THEN s ELSE f[Min(Around(syms, p, s))]]
      BY <1>7 DEF step
    <2> QED
      BY <2>1 DEF Descends
  <1>9. find_enclosing_symbol(syms, p) = f[0]
    BY DEF find_enclosing_symbol, step
  <1> QED
    BY <1>8, <1>9

\* What a range lies within, and what it is apart from.
LEMMA RangesNest ==
  ASSUME NEW a \in Places \X Places, NEW b \in Places \X Places, NEW c \in Places \X Places
  PROVE  /\ Within(a, b) /\ Separate(b, c) => Separate(a, c)
         /\ Separate(a, b) /\ Within(c, b) => Separate(a, c)
         /\ Within(a, b) /\ Within(b, c) => Within(a, c)
         /\ Within(a, a)
         /\ \A p \in Places : position_in_range(p, a) /\ Within(a, b) => position_in_range(p, b)
  <1>1. a[1] \in Places /\ a[2] \in Places /\ b[1] \in Places /\ b[2] \in Places /\ c[1] \in Places /\ c[2] \in Places
    OBVIOUS
  <1> QED
    BY <1>1, PlacesOrdered DEF Within, Separate, position_in_range

\* What an outline that nests is made of, and which children are around a position.
LEMMA OutlineFacts ==
  ASSUME NEW syms \in OutlinesOf, Nests(syms), NEW p \in Places
  PROVE  /\ Len(syms) \in Nat
         /\ \A i \in 1..Len(syms) :
              /\ syms[i].range \in Places \X Places /\ syms[i].parent \in 0..i - 1
              /\ syms[i].parent # 0 => Within(syms[i].range, syms[syms[i].parent].range)
              /\ \A j \in 1..Len(syms) : j # i /\ syms[j].parent = syms[i].parent => Separate(syms[i].range, syms[j].range)
         /\ \A i, s : i \in Around(syms, p, s) <=>
              i \in 1..Len(syms) /\ syms[i].parent = s /\ position_in_range(p, syms[i].range)
  <1>1. /\ DOMAIN syms = 1..Len(syms) /\ Len(syms) \in Nat
        /\ \A i \in 1..Len(syms) : syms[i] \in OutlineSymbols /\ syms[i].parent < i
    BY DEF OutlinesOf
  <1>2. \A i \in 1..Len(syms) : /\ syms[i].range \in Places \X Places /\ syms[i].selection \in Places \X Places
                                /\ syms[i].parent \in 0..i - 1
    BY <1>1 DEF OutlineSymbols
  <1>3. \A i \in 1..Len(syms) :
          /\ Within(syms[i].selection, syms[i].range)
          /\ syms[i].parent # 0 => Within(syms[i].range, syms[syms[i].parent].range)
          /\ \A j \in 1..Len(syms) : j # i /\ syms[j].parent = syms[i].parent => Separate(syms[i].range, syms[j].range)
    BY <1>1 DEF Nests
  <1>4. \A i \in 1..Len(syms) : position_in_range(p, syms[i].selection) => position_in_range(p, syms[i].range)
    BY <1>2, <1>3, RangesNest
  <1>5. \A i, s : i \in Around(syms, p, s) <=>
              i \in 1..Len(syms) /\ syms[i].parent = s /\ position_in_range(p, syms[i].range)
    BY <1>1, <1>4 DEF Around
  <1> QED
    BY <1>1, <1>2, <1>3, <1>5

\* Where the descent from a symbol ends: at a symbol around the position that has no
\* child around it, within the one it starts from.
EndsAt(e, syms, p, s) ==
  /\ e \in s..Len(syms) /\ Around(syms, p, e) = {}
  /\ e # s => position_in_range(p, syms[e].range)
  /\ s # 0 => Within(syms[e].range, syms[s].range)

LEMMA DescentEnds ==
  ASSUME NEW syms \in OutlinesOf, Nests(syms), NEW p \in Places, NEW d, Descends(d, syms, p, 0)
  PROVE  \A s \in 0..Len(syms) : EndsAt(d[s], syms, p, s)
  <1> DEFINE n == Len(syms)
             T == {k \in Nat : \A s \in 0..n : s >= n - k => EndsAt(d[s], syms, p, s)}
  <1>1. /\ n \in Nat
        /\ \A i \in 1..n : syms[i].range \in Places \X Places
        /\ \A i \in 1..n : syms[i].parent # 0 => Within(syms[i].range, syms[syms[i].parent].range)
        /\ \A i, s : i \in Around(syms, p, s) <=>
              i \in 1..n /\ syms[i].parent = s /\ position_in_range(p, syms[i].range)
    BY OutlineFacts
  <1>2. ASSUME NEW s \in 0..n, \A t \in s + 1..n : EndsAt(d[t], syms, p, t)
        PROVE  EndsAt(d[s], syms, p, s)
    <2>1. d[s] = IF Around(syms, p, s) = {} THEN s ELSE d[Min(Around(syms, p, s))]
      BY DEF Descends
    <2>2. CASE Around(syms, p, s) = {}
      <3>1. s # 0 => Within(syms[s].range, syms[s].range)
        BY <1>1, RangesNest
      <3> QED
        BY <1>1, <2>1, <2>2, <3>1 DEF EndsAt
    <2>3. CASE Around(syms, p, s) # {}
      <3> DEFINE c == Min(Around(syms, p, s))
                 e == d[c]
      <3>1. c \in Around(syms, p, s) /\ c \in s + 1..n
        BY <2>3, FirstAround
      <3> HIDE DEF c
      <3>2. EndsAt(e, syms, p, c) /\ d[s] = e
        BY <1>2, <2>1, <2>3, <3>1 DEF c
      <3> HIDE DEF e
      <3>3. /\ s \in Nat /\ c \in 1..n /\ c \in Nat /\ syms[c].parent = s /\ position_in_range(p, syms[c].range)
        BY <1>1, <3>1
      <3>4. e \in c..n /\ Around(syms, p, e) = {} /\ (e # c => position_in_range(p, syms[e].range))
            /\ Within(syms[e].range, syms[c].range)
        BY <3>2, <3>3 DEF EndsAt
      <3>5. e \in s..n /\ e \in 1..n
        BY <1>1, <3>1, <3>3, <3>4
      <3>6. s # 0 => Within(syms[e].range, syms[s].range)
        BY <1>1, <3>3, <3>4, <3>5, RangesNest
      <3> QED
        BY <3>2, <3>3, <3>4, <3>5, <3>6 DEF EndsAt
    <2> QED
      BY <2>2, <2>3
  <1> HIDE DEF n
  <1>3. 0 \in T
    <2>1. \A s \in 0..n : s >= n - 0 => s + 1..n = {}
      BY <1>1
    <2> QED
      BY <1>2, <2>1
  <1>4. ASSUME NEW k \in T
        PROVE  k + 1 \in T
    <2>1. ASSUME NEW s \in 0..n, s >= n - (k + 1)
          PROVE  \A t \in s + 1..n : t \in 0..n /\ t >= n - k
      BY <1>1, <2>1
    <2> QED
      BY <1>2, <2>1
  <1>5. T = Nat
    <2> HIDE DEF T
    <2>1. T \in SUBSET Nat
      BY DEF T
    <2> QED
      BY <1>3, <1>4, <2>1, SetInduction
  <1>6. n \in T /\ \A s \in 0..n : s >= n - n
    BY <1>1, <1>5
  <1> QED
    BY <1>6 DEF n

\* A symbol around the position is one that the descent passes, or apart from where it
\* ends.
LEMMA OthersApart ==
  ASSUME NEW syms \in OutlinesOf, Nests(syms), NEW p \in Places, NEW d, Descends(d, syms, p, 0)
  PROVE  \A i \in 1..Len(syms) : position_in_range(p, syms[i].range) =>
           d[i] = d[0] \/ (d[0] # 0 /\ Separate(syms[d[0]].range, syms[i].range))
  <1> DEFINE n == Len(syms)
             f == d[0]
             r(i) == syms[i].range
             ok(i) == position_in_range(p, r(i)) => d[i] = f \/ (f # 0 /\ Separate(r(f), r(i)))
             T == {k \in Nat : \A i \in 1..n : i <= k => ok(i)}
  <1>1. /\ n \in Nat
        /\ \A i \in 1..n : r(i) \in Places \X Places /\ syms[i].parent \in 0..i - 1
        /\ \A i \in 1..n : syms[i].parent # 0 => Within(r(i), r(syms[i].parent))
        /\ \A i, j \in 1..n : j # i /\ syms[j].parent = syms[i].parent => Separate(r(i), r(j))
        /\ \A i, s : i \in Around(syms, p, s) <=> i \in 1..n /\ syms[i].parent = s /\ position_in_range(p, r(i))
    BY OutlineFacts
  <1>2. \A s \in 0..n : EndsAt(d[s], syms, p, s)
    BY DescentEnds
  <1>3. ASSUME NEW i \in 1..n, \A j \in 1..i - 1 : ok(j), position_in_range(p, r(i))
        PROVE  d[i] = f \/ (f # 0 /\ Separate(r(f), r(i)))
    <2> DEFINE q == syms[i].parent
    <2>1. q \in 0..i - 1 /\ q \in 0..n /\ i \in Nat
      BY <1>1
    <2>2. q # 0 => q \in 1..i - 1 /\ q \in 1..n /\ position_in_range(p, r(q)) /\ Within(r(i), r(q))
      BY <1>1, <1>3, <2>1, RangesNest
    <2> HIDE DEF q
    <2>3. d[q] = f \/ (q # 0 /\ f # 0 /\ Separate(r(f), r(q)))
      BY <1>3, <2>2
    <2>4. f \in 0..n /\ (f # 0 => f \in 1..n)
      BY <1>1, <1>2 DEF EndsAt
    <2>5. CASE d[q] = f
      <3> DEFINE c == Min(Around(syms, p, q))
      <3>1. i \in Around(syms, p, q)
        BY <1>1, <1>3 DEF q
      <3>2. c \in Around(syms, p, q)
        BY <2>1, <3>1, FirstAround
      <3>3. d[c] = f
        BY <2>1, <2>5, <3>1 DEF Descends
      <3> HIDE DEF c
      <3>4. c \in 1..n /\ syms[c].parent = syms[i].parent /\ c \in 0..n /\ c # 0
        BY <1>1, <3>2 DEF q
      <3>5. EndsAt(f, syms, p, c)
        BY <1>2, <3>3, <3>4
      <3>6. f # 0 /\ Within(r(f), r(c))
        BY <3>4, <3>5 DEF EndsAt
      <3>7. i # c => Separate(r(c), r(i))
        BY <1>1, <3>4
      <3> QED
        BY <1>1, <2>4, <3>3, <3>4, <3>6, <3>7, RangesNest
    <2>6. CASE q # 0 /\ f # 0 /\ Separate(r(f), r(q))
      BY <1>1, <2>2, <2>4, <2>6, RangesNest
    <2> QED
      BY <2>3, <2>5, <2>6
  <1> HIDE DEF n, f, r
  <1>4. 0 \in T
    BY <1>1
  <1>5. ASSUME NEW k \in T
        PROVE  k + 1 \in T
    <2>1. ASSUME NEW i \in 1..n, i <= k + 1
          PROVE  ok(i)
      <3>1. \A j \in 1..i - 1 : j \in 1..n /\ j <= k
        BY <1>1, <2>1
      <3>2. \A j \in 1..i - 1 : ok(j)
        BY <3>1
      <3> QED
        BY <1>3, <3>2
    <2> QED
      BY <2>1
  <1>6. T = Nat
    <2> HIDE DEF T
    <2>1. T \in SUBSET Nat
      BY DEF T
    <2> QED
      BY <1>4, <1>5, <2>1, SetInduction
  <1>7. n \in T
    BY <1>1, <1>6
  <1>8. \A i \in 1..n : i <= n /\ ok(i)
    BY <1>1, <1>7
  <1> QED
    BY <1>8 DEF n, f, r

\* In every outline that nests, at every position, the innermost symbol is found.
LEMMA InnermostAlwaysFound ==
  ASSUME input \in [of : {"outline"}, outline : OutlinesOf, position : Places]
  PROVE  InnermostIsFound
  <1> DEFINE syms == input.outline
             p == input.position
             n == Len(syms)
             f == find_enclosing_symbol(syms, p)
             around == {i \in DOMAIN syms : position_in_range(p, syms[i].range)}
  <1>0. syms \in OutlinesOf /\ p \in Places
    OBVIOUS
  <1> HIDE DEF syms, p
  <1> SUFFICES ASSUME Nests(syms)
               PROVE  /\ f = 0 <=> around = {}
                      /\ f # 0 => /\ f \in around
                                  /\ \A i \in around : \/ Within(syms[f].range, syms[i].range)
                                                       \/ Separate(syms[f].range, syms[i].range)
    BY DEF InnermostIsFound, syms, p
  <1>1. PICK d : Descends(d, syms, p, 0) /\ f = d[0]
    BY <1>0, FoundByDescent
  <1> HIDE DEF f
  <1>2. /\ n \in Nat /\ DOMAIN syms = 1..n
        /\ \A i \in 1..n : syms[i].range \in Places \X Places /\ syms[i].parent \in 0..i - 1
        /\ \A i \in 1..n : syms[i].parent # 0 => Within(syms[i].range, syms[syms[i].parent].range)
        /\ \A i, s : i \in Around(syms, p, s) <=>
              i \in 1..n /\ syms[i].parent = s /\ position_in_range(p, syms[i].range)
    <2>1. DOMAIN syms = 1..n
      BY <1>0 DEF OutlinesOf
    <2> QED
      BY <1>0, <2>1, OutlineFacts
  <1>3. /\ \A s \in 0..n : EndsAt(d[s], syms, p, s)
        /\ \A i \in 1..n : position_in_range(p, syms[i].range) =>
             d[i] = f \/ (f # 0 /\ Separate(syms[f].range, syms[i].range))
    BY <1>0, <1>1, DescentEnds, OthersApart
  <1>4. f \in 0..n /\ Around(syms, p, f) = {} /\ (f # 0 => f \in around)
    <2>1. EndsAt(f, syms, p, 0)
      BY <1>1, <1>2, <1>3
    <2> QED
      BY <1>2, <2>1 DEF EndsAt
  <1>5. f = 0 => around = {}
    <2> SUFFICES ASSUME f = 0, around # {}
                 PROVE  FALSE
      OBVIOUS
    <2> DEFINE i == Min(around)
    <2>1. i \in around /\ \A j \in around : i <= j
      <3>1. around \in SUBSET Nat
        BY <1>2
      <3> HIDE DEF around
      <3> QED
        BY <3>1, LeastOne
    <2> HIDE DEF i
    <2> DEFINE q == syms[i].parent
    <2>2. i \in 1..n /\ i \in Nat /\ q \in 0..i - 1 /\ position_in_range(p, syms[i].range)
      BY <1>2, <2>1
    <2>3. q # 0
      BY <1>2, <1>4, <2>2
    <2>4. q \in 1..n
      BY <1>2, <2>2, <2>3
    <2>5. position_in_range(p, syms[q].range)
      BY <1>0, <1>2, <2>2, <2>3, <2>4, RangesNest
    <2> HIDE DEF q
    <2> QED
      BY <1>2, <2>1, <2>2, <2>4, <2>5
  <1>6. ASSUME NEW i \in around, f # 0
        PROVE  Within(syms[f].range, syms[i].range) \/ Separate(syms[f].range, syms[i].range)
    <2>1. i \in 1..n /\ i \in 0..n /\ i # 0 /\ position_in_range(p, syms[i].range)
      BY <1>2
    <2>2. CASE d[i] = f
      BY <1>3, <2>1, <2>2 DEF EndsAt
    <2> QED
      BY <1>3, <2>1, <2>2
  <1> QED
    BY <1>4, <1>5, <1>6

-----------------------------------------------------------------------------
(***************************************************************************)
(* Positions in a text.                                                    *)
(***************************************************************************)

\* How many lines start before a place.
LinesBefore(text, s) == Cardinality({t \in LineStarts(text) : t < s})

\* Later lines have more lines before them.
LEMMA LinesCounted ==
  ASSUME NEW U, NEW text \in Seq(U)
  PROVE  /\ LineStarts(text) \in SUBSET (0..Len(text))
         /\ \A s, u \in LineStarts(text) : s < u => LinesBefore(text, s) < LinesBefore(text, u)
  <1>1. DOMAIN text = 1..Len(text) /\ Len(text) \in Nat
    OBVIOUS
  <1>2. LineStarts(text) \in SUBSET (0..Len(text))
    BY <1>1 DEF LineStarts
  <1>3. ASSUME NEW s \in LineStarts(text), NEW u \in LineStarts(text), s < u
        PROVE  LinesBefore(text, s) < LinesBefore(text, u)
    <2> DEFINE A == {t \in LineStarts(text) : t < s}
               B == {t \in LineStarts(text) : t < u}
    <2>1. A \in SUBSET B /\ s \in B /\ s \notin A
      BY <1>1, <1>2, <1>3
    <2>2. B \in SUBSET (0..Len(text))
      BY <1>2
    <2> HIDE DEF A, B
    <2>3. IsFiniteSet(B)
      <3>1. IsFiniteSet(0..Len(text))
        BY <1>1, FS_Interval
      <3> QED
        BY <2>2, <3>1, FS_Subset
    <2>4. IsFiniteSet(A) /\ Cardinality(A) <= Cardinality(B) /\ Cardinality(A) # Cardinality(B)
      BY <2>1, <2>3, FS_Subset
    <2>5. Cardinality(A) \in Nat /\ Cardinality(B) \in Nat
      BY <2>3, <2>4, FS_CardinalityType
    <2> QED
      BY <2>4, <2>5 DEF A, B, LinesBefore
  <1> QED
    BY <1>2, <1>3

\* A line that there is starts where as many lines start before it as its number says.
LEMMA LineStartFacts ==
  ASSUME NEW U, NEW text \in Seq(U), NEW n \in Nat, LineStart(text, n) # None
  PROVE  /\ LineStart(text, n) \in LineStarts(text) /\ LineStart(text, n) \in 0..Len(text)
         /\ LinesBefore(text, LineStart(text, n)) = n
  <1> DEFINE starts == {s \in LineStarts(text) : LinesBefore(text, s) = n}
  <1>1. LineStart(text, n) = IF starts = {} THEN None ELSE Min(starts)
    BY DEF LineStart, LinesBefore
  <1>2. LineStarts(text) \in SUBSET (0..Len(text)) /\ Len(text) \in Nat
    BY LinesCounted
  <1>3. starts \in SUBSET Nat /\ starts # {}
    BY <1>1, <1>2
  <1>4. LineStart(text, n) \in starts
    <2> HIDE DEF starts
    <2> QED
      BY <1>1, <1>3, LeastOne
  <1> QED
    BY <1>2, <1>4

\* Further on there are more units.
LEMMA UnitsGrow ==
  ASSUME NEW U, NEW text \in Seq(U), NEW s \in Nat, NEW k \in Nat, NEW l \in Nat, s <= k, k < l
  PROVE  Units(text, s, k) \in Nat /\ Units(text, s, l) \in Nat /\ Units(text, s, k) < Units(text, s, l)
  <1> DEFINE A == {i \in s + 1..k : text[i] = "wide"}
             B == {i \in s + 1..l : text[i] = "wide"}
  <1>1. A \in SUBSET B /\ B \in SUBSET (s + 1..l)
    OBVIOUS
  <1> HIDE DEF A, B
  <1>2. IsFiniteSet(B)
    <2>1. IsFiniteSet(s + 1..l)
      BY FS_Interval
    <2> QED
      BY <1>1, <2>1, FS_Subset
  <1>3. IsFiniteSet(A) /\ Cardinality(A) <= Cardinality(B)
    BY <1>1, <1>2, FS_Subset
  <1>4. Cardinality(A) \in Nat /\ Cardinality(B) \in Nat
    BY <1>2, <1>3, FS_CardinalityType
  <1>5. Units(text, s, k) = k - s + Cardinality(A) /\ Units(text, s, l) = l - s + Cardinality(B)
    BY DEF Units, A, B
  <1> QED
    BY <1>3, <1>4, <1>5

\* What it means to stand somewhere.
LEMMA StandsFacts ==
  ASSUME NEW U, NEW text \in Seq(U), NEW p \in Places, NEW k \in 0..Len(text), Stands(text, p, k)
  PROVE  LET start == LineStart(text, p[1]) IN
         /\ start # None /\ start \in LineStarts(text) /\ start \in 0..k
         /\ LinesBefore(text, start) = p[1] /\ Units(text, start, k) = p[2]
         /\ \A s \in LineStarts(text) : s <= k => s <= start
  <1> DEFINE start == LineStart(text, p[1])
  <1>1. p[1] \in Nat /\ Len(text) \in Nat /\ DOMAIN text = 1..Len(text)
    BY DEF Places
  <1>2. start # None /\ start <= k /\ "nl" \notin {text[i] : i \in start + 1..k} /\ Units(text, start, k) = p[2]
    BY DEF Stands
  <1>3. start \in LineStarts(text) /\ start \in 0..Len(text) /\ LinesBefore(text, start) = p[1]
    BY <1>1, <1>2, LineStartFacts
  <1> HIDE DEF start
  <1>4. ASSUME NEW s \in LineStarts(text), s <= k
        PROVE  s <= start
    <2>1. s = 0 \/ (s \in 1..Len(text) /\ text[s] = "nl")
      BY <1>1 DEF LineStarts
    <2>2. s \notin start + 1..k
      BY <1>1, <1>2, <1>3, <2>1
    <2> QED
      BY <1>1, <1>3, <1>4, <2>1, <2>2
  <1> QED
    BY <1>1, <1>2, <1>3, <1>4 DEF start

\* Positions stand in their order, and each in one place.
LEMMA StandInOrder ==
  ASSUME NEW U, NEW text \in Seq(U), NEW p \in Places, NEW k \in 0..Len(text), Stands(text, p, k),
         NEW q \in Places, NEW l \in 0..Len(text), Stands(text, q, l)
  PROVE  (k < l => Before(p, q)) /\ (k = l => p = q)
  <1> DEFINE s == LineStart(text, p[1])
             u == LineStart(text, q[1])
  <1>1. /\ s \in LineStarts(text) /\ s \in 0..k /\ LinesBefore(text, s) = p[1] /\ Units(text, s, k) = p[2]
        /\ \A v \in LineStarts(text) : v <= k => v <= s
    BY StandsFacts
  <1>2. /\ u \in LineStarts(text) /\ u \in 0..l /\ LinesBefore(text, u) = q[1] /\ Units(text, u, l) = q[2]
        /\ \A v \in LineStarts(text) : v <= l => v <= u
    BY StandsFacts
  <1>3. /\ k \in Nat /\ l \in Nat /\ s \in Nat /\ u \in Nat /\ p[1] \in Nat /\ p[2] \in Nat /\ q[1] \in Nat /\ q[2] \in Nat
        /\ p = <<p[1], p[2]>> /\ q = <<q[1], q[2]>>
    BY <1>1, <1>2 DEF Places
  <1> HIDE DEF s, u
  <1>4. k <= l => s <= u
    BY <1>1, <1>2, <1>3
  <1>5. k = l => s = u
    BY <1>1, <1>2, <1>3
  <1>6. CASE k < l
    <2>1. CASE s = u
      <3>1. p[2] < q[2]
        BY <1>1, <1>2, <1>3, <1>6, <2>1, UnitsGrow
      <3> QED
        BY <1>1, <1>2, <1>3, <1>6, <2>1, <3>1 DEF Before
    <2>2. CASE s < u
      <3>1. p[1] < q[1]
        BY <1>1, <1>2, <2>2, LinesCounted
      <3> QED
        BY <1>6, <3>1 DEF Before
    <2> QED
      BY <1>3, <1>4, <1>6, <2>1, <2>2
  <1>7. CASE k = l
    BY <1>1, <1>2, <1>3, <1>5, <1>7
  <1> QED
    BY <1>6, <1>7

\* The offset of a position is the place where it stands.
LEMMA StandsAtOffset ==
  ASSUME NEW U, NEW text \in Seq(U), NEW p \in Places, NEW k \in 0..Len(text), Stands(text, p, k)
  PROVE  byte_offset(text, p) = k /\ At(text, p) = k
  <1> DEFINE s == LineStart(text, p[1])
             K == {i \in s..Len(text) : i = Len(text) \/ Units(text, s, i) >= p[2]}
  <1>1. /\ s # None /\ s \in 0..k /\ Units(text, s, k) = p[2]
        /\ Len(text) \in Nat /\ k \in Nat /\ s \in Nat
    BY StandsFacts
  <1>2. byte_offset(text, p) = Min(K)
    BY <1>1 DEF byte_offset
  <1>3. k \in K /\ K \in SUBSET Nat
    <2>1. p[2] \in Nat
      BY DEF Places
    <2> QED
      BY <1>1, <2>1
  <1> HIDE DEF s
  <1>4. ASSUME NEW i \in K, i < k
        PROVE  FALSE
    <2>1. Units(text, s, i) >= p[2] /\ i \in Nat /\ s <= i
      BY <1>1, <1>3, <1>4
    <2>2. Units(text, s, i) \in Nat /\ Units(text, s, k) \in Nat /\ Units(text, s, i) < Units(text, s, k)
      BY <1>1, <1>4, <2>1, UnitsGrow
    <2> QED
      BY <1>1, <2>1, <2>2
  <1> HIDE DEF K
  <1>5. Min(K) = k
    <2>1. Min(K) \in K /\ Min(K) <= k
      BY <1>3, LeastOne
    <2>2. Min(K) \in Nat /\ ~(Min(K) < k)
      BY <1>3, <1>4, <2>1
    <2> QED
      BY <1>1, <2>1, <2>2
  <1>6. At(text, p) = k
    <2>1. \A l \in 0..Len(text) : Stands(text, p, l) => l = k
      <3>1. ASSUME NEW l \in 0..Len(text), Stands(text, p, l), l # k
            PROVE  FALSE
        <4>1. Before(p, p)
          BY <1>1, <3>1, StandInOrder
        <4> QED
          BY <4>1, PlacesOrdered
      <3> QED
        BY <3>1
    <2> QED
      BY <2>1 DEF At
  <1> QED
    BY <1>2, <1>5, <1>6

-----------------------------------------------------------------------------
(***************************************************************************)
(* Splices.                                                                *)
(***************************************************************************)

\* A splice place by place: before what it replaces, there, and after it.
IsSplice(out, text, f, t, new) ==
  /\ Len(out) = f + Len(new) + (Len(text) - t)
  /\ \A i \in 1..f : out[i] = text[i]
  /\ \A i \in 1..Len(new) : out[f + i] = new[i]
  /\ \A i \in 1..Len(text) - t : out[f + Len(new) + i] = text[t + i]

LEMMA SplicedPlaces ==
  ASSUME NEW U, NEW text \in Seq(U), NEW new \in Seq(U), NEW t \in 0..Len(text), NEW f \in 0..t
  PROVE  Spliced(text, f, t, new) \in Seq(U) /\ IsSplice(Spliced(text, f, t, new), text, f, t, new)
  <1> DEFINE a == SubSeq(text, 1, f)
             c == SubSeq(text, t + 1, Len(text))
             b == a \o new
             out == b \o c
  <1>1. Len(text) \in Nat /\ f \in Nat /\ t \in Nat /\ f <= t /\ t <= Len(text) /\ Len(new) \in Nat
    BY LenProperties
  <1>2. a \in Seq(U) /\ Len(a) = f /\ \A i \in 1..f : a[i] = text[i]
    <2>1. \A i \in 1..f : text[i] \in U
      BY <1>1, ElementOfSeq
    <2>2. SubSeq(text, 1, f) \in Seq(U) /\ Len(SubSeq(text, 1, f)) = (IF 1 <= f THEN f - 1 + 1 ELSE 0)
          /\ \A i \in 1..f - 1 + 1 : SubSeq(text, 1, f)[i] = text[1 + i - 1]
      BY <1>1, <2>1, SubSeqProperties
    <2> QED
      BY <1>1, <2>2
  <1>3. c \in Seq(U) /\ Len(c) = Len(text) - t /\ \A i \in 1..Len(text) - t : c[i] = text[t + i]
    <2>1. \A i \in t + 1..Len(text) : text[i] \in U
      BY <1>1, ElementOfSeq
    <2>2. c \in Seq(U) /\ Len(c) = (IF t + 1 <= Len(text) THEN Len(text) - (t + 1) + 1 ELSE 0)
          /\ \A i \in 1..Len(text) - (t + 1) + 1 : c[i] = text[(t + 1) + i - 1]
      BY <1>1, <2>1, SubSeqProperties
    <2> QED
      BY <1>1, <2>2
  <1> HIDE DEF a, c
  <1>4. /\ b \in Seq(U) /\ Len(b) = f + Len(new)
        /\ \A i \in 1..f + Len(new) : b[i] = IF i <= f THEN a[i] ELSE new[i - f]
    BY <1>2, ConcatProperties
  <1>6. Spliced(text, f, t, new) = out
    BY DEF Spliced, a, c
  <1> HIDE DEF b
  <1>5. /\ out \in Seq(U) /\ Len(out) = (f + Len(new)) + (Len(text) - t)
        /\ \A i \in 1..(f + Len(new)) + (Len(text) - t) :
             out[i] = IF i <= f + Len(new) THEN b[i] ELSE c[i - (f + Len(new))]
    <2>1. /\ out \in Seq(U) /\ Len(out) = Len(b) + Len(c)
          /\ \A i \in 1..Len(b) + Len(c) : out[i] = IF i <= Len(b) THEN b[i] ELSE c[i - Len(b)]
      BY <1>3, <1>4, ConcatProperties
    <2> HIDE DEF out
    <2>2. Len(b) = f + Len(new) /\ Len(c) = Len(text) - t
      BY <1>3, <1>4
    <2> QED
      BY <2>1, <2>2, Zenon
  <1> HIDE DEF out
  <1>7. \A i \in 1..f : out[i] = text[i]
    <2> TAKE i \in 1..f
    <2>1. i \in 1..f + Len(new) /\ i \in 1..(f + Len(new)) + (Len(text) - t) /\ i <= f + Len(new) /\ i <= f
      BY <1>1
    <2> QED
      BY <1>2, <1>4, <1>5, <2>1
  <1>8. \A i \in 1..Len(new) : out[f + i] = new[i]
    <2> TAKE i \in 1..Len(new)
    <2>1. f + i \in 1..f + Len(new) /\ ~(f + i <= f) /\ (f + i) - f = i /\ f + i <= f + Len(new)
          /\ f + i \in 1..(f + Len(new)) + (Len(text) - t)
      BY <1>1
    <2> QED
      BY <1>4, <1>5, <2>1
  <1>9. \A i \in 1..Len(text) - t : out[f + Len(new) + i] = text[t + i]
    <2> TAKE i \in 1..Len(text) - t
    <2> DEFINE j == f + Len(new) + i
    <2>1. j \in 1..(f + Len(new)) + (Len(text) - t) /\ ~(j <= f + Len(new)) /\ j - (f + Len(new)) = i
      BY <1>1
    <2> HIDE DEF j
    <2>2. out[j] = c[i]
      BY <1>5, <2>1
    <2> QED
      BY <1>3, <2>2 DEF j
  <1> QED
    BY <1>1, <1>5, <1>6, <1>7, <1>8, <1>9 DEF IsSplice

\* What ends alike is a suffix.
LEMMA SuffixByPlace ==
  ASSUME NEW U, NEW s \in Seq(U), NEW t \in Seq(U), Len(s) <= Len(t),
         \A i \in 1..Len(s) : s[Len(s) - i + 1] = t[Len(t) - i + 1]
  PROVE  IsSuffix(s, t)
  <1> DEFINE a == Reverse(s)
             b == Reverse(t)
             n == Len(s)
  <1>1. n \in Nat /\ Len(t) \in Nat /\ n <= Len(t)
    BY LenProperties
  <1>2. Len(a) = n /\ Len(b) = Len(t)
    BY <1>1 DEF Reverse
  <1>3. \A i \in 1..n : a[i] = b[i] /\ a[i] \in U /\ b[i] \in U
    <2> TAKE i \in 1..n
    <2>1. a[i] = s[n - i + 1] /\ n - i + 1 \in 1..n
      BY <1>1 DEF Reverse
    <2>2. b[i] = t[Len(t) - i + 1]
      BY <1>1 DEF Reverse
    <2>3. s[n - i + 1] \in U
      BY <2>1, ElementOfSeq
    <2> QED
      BY <2>1, <2>2, <2>3
  <1> HIDE DEF a, b
  <1>4. SubSeq(a, 1, n) = SubSeq(b, 1, n)
    <2>1. /\ SubSeq(a, 1, n) \in Seq(U) /\ Len(SubSeq(a, 1, n)) = (IF 1 <= n THEN n - 1 + 1 ELSE 0)
          /\ \A i \in 1..n - 1 + 1 : SubSeq(a, 1, n)[i] = a[1 + i - 1]
      BY <1>1, <1>3, SubSeqProperties
    <2>2. /\ SubSeq(b, 1, n) \in Seq(U) /\ Len(SubSeq(b, 1, n)) = (IF 1 <= n THEN n - 1 + 1 ELSE 0)
          /\ \A i \in 1..n - 1 + 1 : SubSeq(b, 1, n)[i] = b[1 + i - 1]
      BY <1>1, <1>3, SubSeqProperties
    <2>3. \A i \in 1..Len(SubSeq(a, 1, n)) : SubSeq(a, 1, n)[i] = SubSeq(b, 1, n)[i]
      <3> TAKE i \in 1..Len(SubSeq(a, 1, n))
      <3>1. i \in 1..n /\ i \in 1..n - 1 + 1 /\ 1 + i - 1 = i
        BY <1>1, <2>1
      <3> QED
        BY <1>3, <2>1, <2>2, <3>1
    <2> QED
      BY <2>1, <2>2, <2>3, SeqEqual
  <1> QED
    BY <1>1, <1>2, <1>4 DEF IsSuffix, IsPrefix, a, b

\* The offset of a position lies on its line, at the latest before the line end.
LEMMA OffsetOnLine ==
  ASSUME NEW U, NEW text \in Seq(U), NEW p \in Places, position_to_byte_offset(text, p) # None
  PROVE  LET start == LineStart(text, p[1])
             k == position_to_byte_offset(text, p)
         IN /\ start # None /\ start \in 0..Len(text) /\ k \in start..Len(text)
            /\ \A s \in LineStarts(text) : start < s => k < s
  <1> DEFINE start == LineStart(text, p[1])
             k == position_to_byte_offset(text, p)
             K == {i \in start..Len(text) : i = Len(text) \/ Units(text, start, i) >= p[2] \/ text[i + 1] = "nl"}
  <1>1. start # None /\ k = Min(K)
    BY DEF position_to_byte_offset
  <1>2. Len(text) \in Nat /\ DOMAIN text = 1..Len(text) /\ p[1] \in Nat
    BY LenProperties DEF Places
  <1>3. start \in 0..Len(text)
    BY <1>1, <1>2, LineStartFacts
  <1> HIDE DEF start
  <1>4. K \in SUBSET Nat /\ Len(text) \in K
    BY <1>2, <1>3
  <1>5. Min(K) \in K /\ \A i \in K : Min(K) <= i
    <2> HIDE DEF K
    <2> QED
      BY <1>4, LeastOne
  <1> HIDE DEF k
  <1>6. ASSUME NEW s \in LineStarts(text), start < s
        PROVE  k < s
    <2>1. s \in 1..Len(text) /\ text[s] = "nl"
      BY <1>2, <1>3, <1>6 DEF LineStarts
    <2>2. s - 1 \in start..Len(text) /\ (s - 1) + 1 = s
      BY <1>2, <1>3, <1>6, <2>1
    <2>3. s - 1 \in K
      BY <2>1, <2>2
    <2>4. Min(K) <= s - 1 /\ Min(K) \in Nat
      BY <1>4, <1>5, <2>3
    <2> QED
      BY <1>1, <2>1, <2>4
  <1> QED
    BY <1>1, <1>3, <1>5, <1>6 DEF start, k

\* The edits of any texts.
TextEditsOf(U) == [from : Places, to : Places, new : Seq(U)]

\* No splice changes a line before or after its range, wherever its positions are.
LEMMA SplicesAlwaysKeepLines ==
  ASSUME NEW U, input \in [of : {"edits"}, text : Seq(U), edits : Seq(TextEditsOf(U))]
  PROVE  SpliceKeepsOtherLines
  <1> DEFINE text == input.text
  <1>0. text \in Seq(U) /\ input.edits \in Seq(TextEditsOf(U))
    OBVIOUS
  <1>1. \A e \in ToSet(input.edits) : e \in TextEditsOf(U)
    BY <1>0, RangeByPlace
  <1> HIDE DEF text
  <1>2. ASSUME NEW e \in TextEditsOf(U)
        PROVE  LET out   == splice_range(text, <<e.from, e.to>>, e.new)
                   start == LineStart(text, e.from[1])
                   next  == LineStart(text, e.to[1] + 1)
                   rest  == IF next = None THEN <<>> ELSE SubSeq(text, next, Len(text))
               IN  out # None => SubSeq(out, 1, start) = SubSeq(text, 1, start) /\ IsSuffix(rest, out)
    <2> DEFINE out   == splice_range(text, <<e.from, e.to>>, e.new)
               start == LineStart(text, e.from[1])
               next  == LineStart(text, e.to[1] + 1)
               rest  == IF next = None THEN <<>> ELSE SubSeq(text, next, Len(text))
               f     == position_to_byte_offset(text, e.from)
               t     == position_to_byte_offset(text, e.to)
               l     == Len(text)
    <2> SUFFICES ASSUME out # None
                 PROVE  SubSeq(out, 1, start) = SubSeq(text, 1, start) /\ IsSuffix(rest, out)
      OBVIOUS
    <2>1. e.from \in Places /\ e.to \in Places /\ e.new \in Seq(U)
      BY DEF TextEditsOf
    <2>2. <<e.from, e.to>>[1] = e.from /\ <<e.from, e.to>>[2] = e.to
      OBVIOUS
    <2>3. f # None /\ t # None /\ ~(t < f) /\ out = Spliced(text, f, t, e.new)
      BY <2>2 DEF splice_range
    <2>4. start \in 0..l /\ f \in start..l
      BY <1>0, <2>1, <2>3, OffsetOnLine
    <2>5. /\ LineStart(text, e.to[1]) # None /\ LineStart(text, e.to[1]) \in 0..l /\ t \in LineStart(text, e.to[1])..l
          /\ \A s \in LineStarts(text) : LineStart(text, e.to[1]) < s => t < s
      BY <1>0, <2>1, <2>3, OffsetOnLine
    <2>6. l \in Nat /\ e.to[1] \in Nat /\ e.to[1] + 1 \in Nat /\ Len(e.new) \in Nat
      BY <1>0, <2>1, LenProperties DEF Places
    <2>7. next # None => next \in 0..l /\ t < next
      <3> SUFFICES ASSUME next # None
                   PROVE  next \in 0..l /\ t < next
        OBVIOUS
      <3> DEFINE last == LineStart(text, e.to[1])
      <3>1. last \in LineStarts(text) /\ LinesBefore(text, last) = e.to[1]
        BY <1>0, <2>5, <2>6, LineStartFacts
      <3>2. next \in LineStarts(text) /\ next \in 0..l /\ LinesBefore(text, next) = e.to[1] + 1
        BY <1>0, <2>6, LineStartFacts
      <3>3. next < last => LinesBefore(text, next) < LinesBefore(text, last)
        BY <1>0, <3>1, <3>2, LinesCounted
      <3>4. last < next
        BY <2>5, <2>6, <3>1, <3>2, <3>3
      <3> QED
        BY <2>5, <3>2, <3>4
    <2> HIDE DEF out, start, next, f, t
    <2>8. t \in 0..l /\ f \in 0..t /\ start \in 0..f
      BY <2>3, <2>4, <2>5, <2>6
    <2>9. /\ out \in Seq(U) /\ Len(out) = f + Len(e.new) + (l - t)
          /\ \A i \in 1..f : out[i] = text[i]
          /\ \A i \in 1..l - t : out[f + Len(e.new) + i] = text[t + i]
      <3>1. Spliced(text, f, t, e.new) \in Seq(U) /\ IsSplice(Spliced(text, f, t, e.new), text, f, t, e.new)
        BY <1>0, <2>1, <2>8, SplicedPlaces
      <3> QED
        BY <2>3, <3>1 DEF IsSplice
    <2>10. SubSeq(out, 1, start) = SubSeq(text, 1, start)
      <3>1. \A i \in 1..start : out[i] = text[i] /\ out[i] \in U /\ text[i] \in U
        BY <1>0, <2>6, <2>8, <2>9, ElementOfSeq
      <3>2. /\ SubSeq(out, 1, start) \in Seq(U) /\ Len(SubSeq(out, 1, start)) = (IF 1 <= start THEN start - 1 + 1 ELSE 0)
            /\ \A i \in 1..start - 1 + 1 : SubSeq(out, 1, start)[i] = out[1 + i - 1]
        BY <2>8, <3>1, SubSeqProperties
      <3>3. /\ SubSeq(text, 1, start) \in Seq(U) /\ Len(SubSeq(text, 1, start)) = (IF 1 <= start THEN start - 1 + 1 ELSE 0)
            /\ \A i \in 1..start - 1 + 1 : SubSeq(text, 1, start)[i] = text[1 + i - 1]
        BY <2>8, <3>1, SubSeqProperties
      <3>4. \A i \in 1..Len(SubSeq(out, 1, start)) : SubSeq(out, 1, start)[i] = SubSeq(text, 1, start)[i]
        <4> TAKE i \in 1..Len(SubSeq(out, 1, start))
        <4>1. i \in 1..start /\ i \in 1..start - 1 + 1 /\ 1 + i - 1 = i
          BY <2>8, <3>2
        <4> QED
          BY <3>1, <3>2, <3>3, <4>1
      <3> QED
        BY <3>2, <3>3, <3>4, SeqEqual
    <2>11. CASE next = None
      <3>1. rest = <<>> /\ rest \in Seq(U) /\ Len(rest) = 0
        BY <2>11
      <3> HIDE DEF rest
      <3>2. Len(out) \in Nat /\ Len(rest) <= Len(out) /\ 1..Len(rest) = {}
        BY <2>9, <3>1, LenProperties
      <3>3. IsSuffix(rest, out)
        BY <2>9, <3>1, <3>2, SuffixByPlace
      <3> QED
        BY <2>10, <3>3
    <2>12. CASE next # None
      <3>1. rest = SubSeq(text, next, l) /\ next \in 1..l /\ t < next
        <4>1. rest = SubSeq(text, next, l)
          BY <2>12, Zenon
        <4>2. next \in 0..l /\ t < next
          BY <2>7, <2>12
        <4> HIDE DEF rest, l
        <4> QED
          BY <2>6, <2>8, <4>1, <4>2
      <3>2. \A i \in next..l : text[i] \in U
        BY <1>0, <2>6, <3>1, ElementOfSeq
      <3>3. /\ rest \in Seq(U) /\ Len(rest) = (IF next <= l THEN l - next + 1 ELSE 0)
            /\ \A i \in 1..l - next + 1 : rest[i] = text[next + i - 1]
        BY <2>6, <3>1, <3>2, SubSeqProperties
      <3> HIDE DEF rest, l
      <3>4. Len(rest) = l - next + 1 /\ Len(rest) <= Len(out)
        BY <2>6, <2>8, <2>9, <3>1, <3>3
      <3>5. \A i \in 1..Len(rest) : rest[Len(rest) - i + 1] = out[Len(out) - i + 1]
        <4> TAKE i \in 1..Len(rest)
        <4> DEFINE j == Len(rest) - i + 1
                   h == l - t - i + 1
        <4>1. j \in 1..l - next + 1 /\ next + j - 1 = l - i + 1 /\ h \in 1..l - t /\ t + h = l - i + 1
              /\ Len(out) - i + 1 = f + Len(e.new) + h
          <5> DEFINE m == Len(e.new)
                     a == Len(rest)
                     b == Len(out)
          <5>1. /\ m \in Nat /\ l \in Nat /\ f \in Nat /\ t \in Nat /\ next \in Nat /\ t < next /\ next <= l
                /\ a = l - next + 1 /\ b = f + m + (l - t) /\ i \in Nat /\ 1 <= i /\ i <= a
            BY <2>6, <2>8, <2>9, <3>1, <3>4
          <5> HIDE DEF m, a, b
          <5>2. /\ a - i + 1 \in 1..l - next + 1 /\ next + (a - i + 1) - 1 = l - i + 1
                /\ l - t - i + 1 \in 1..l - t /\ t + (l - t - i + 1) = l - i + 1
                /\ b - i + 1 = f + m + (l - t - i + 1)
            BY <5>1
          <5> QED
            BY <5>2 DEF a, b, m
        <4> HIDE DEF j, h
        <4>2. rest[j] = text[l - i + 1]
          BY <3>3, <4>1
        <4>3. out[f + Len(e.new) + h] = text[l - i + 1]
          BY <2>9, <4>1
        <4> QED
          BY <4>1, <4>2, <4>3 DEF j
      <3>6. IsSuffix(rest, out)
        BY <2>9, <3>3, <3>4, <3>5, SuffixByPlace
      <3> QED
        BY <2>10, <3>6
    <2> QED
      BY <2>11, <2>12
  <1> QED
    BY <1>1, <1>2 DEF SpliceKeepsOtherLines, text

-----------------------------------------------------------------------------
(***************************************************************************)
(* Lists of edits.                                                         *)
(***************************************************************************)

\* A total order sorts: o lists 1..m so that R holds from each to all later ones.
Sorts(o, R, m) ==
  /\ o \in [1..m -> 1..m]
  /\ \A x \in 1..m : \E i \in 1..m : o[i] = x
  /\ \A i, j \in 1..m : i < j => <<o[i], o[j]>> \in R

\* By induction: the next one goes behind the last that it must come after.
LEMMA OrderExists ==
  ASSUME NEW n \in Nat, NEW R,
         \A i, j \in 1..n : i # j => <<i, j>> \in R \/ <<j, i>> \in R,
         \A i, j, k \in 1..n : <<i, j>> \in R /\ <<j, k>> \in R => <<i, k>> \in R
  PROVE  \E o : Sorts(o, R, n)
  <1> DEFINE T == {m \in Nat : m > n \/ \E o : Sorts(o, R, m)}
  <1>1. 0 \in T
    <2>1. Sorts([i \in 1..0 |-> i], R, 0)
      BY DEF Sorts
    <2> QED
      BY <2>1
  <1>2. ASSUME NEW m \in T
        PROVE  m + 1 \in T
    <2> SUFFICES ASSUME m + 1 <= n
                 PROVE  \E o : Sorts(o, R, m + 1)
      OBVIOUS
    <2>1. PICK o : Sorts(o, R, m)
      OBVIOUS
    <2>2. m \in Nat /\ m + 1 \in Nat /\ m + 1 \in 1..n /\ \A x \in 1..m : x \in 1..n /\ x # m + 1
      OBVIOUS
    <2>3. /\ \A i \in 1..m : o[i] \in 1..m
          /\ \A x \in 1..m : \E i \in 1..m : o[i] = x
          /\ \A i, j \in 1..m : i < j => <<o[i], o[j]>> \in R
      BY <2>1 DEF Sorts
    <2> DEFINE H == {i \in 0..m : i = 0 \/ <<o[i], m + 1>> \in R}
               h == Max(H)
               q == [i \in 1..m + 1 |-> IF i <= h THEN o[i] ELSE IF i = h + 1 THEN m + 1 ELSE o[i - 1]]
    <2>4. h \in H /\ \A i \in H : h >= i
      <3>1. H \in SUBSET (0..m) /\ 0 \in H
        BY <2>2
      <3> HIDE DEF H
      <3> QED
        BY <2>2, <3>1, GreatestOne
    <2> HIDE DEF h
    <2>5. h \in 0..m /\ h \in Nat
      BY <2>2, <2>4
    <2>6. \A i \in 1..h : <<o[i], m + 1>> \in R
      <3> TAKE i \in 1..h
      <3>1. i \in 1..m /\ h \in 1..m /\ <<o[h], m + 1>> \in R
        BY <2>2, <2>4, <2>5
      <3>2. CASE i = h
        BY <3>1, <3>2
      <3>3. CASE i < h
        <4>1. <<o[i], o[h]>> \in R /\ o[i] \in 1..n /\ o[h] \in 1..n
          BY <2>2, <2>3, <3>1, <3>3
        <4> QED
          BY <2>2, <3>1, <4>1
      <3> QED
        BY <2>5, <3>2, <3>3
    <2>7. \A i \in h + 1..m : <<m + 1, o[i]>> \in R
      <3> TAKE i \in h + 1..m
      <3>1. i \in 1..m /\ i \in 0..m /\ i # 0 /\ ~(h >= i)
        BY <2>2, <2>5
      <3>2. <<o[i], m + 1>> \notin R
        BY <2>4, <3>1
      <3> QED
        BY <2>2, <2>3, <3>1, <3>2
    <2> HIDE DEF H
    <2>8. /\ \A i \in 1..h : i \in 1..m + 1 /\ i \in 1..m /\ q[i] = o[i]
          /\ h + 1 \in 1..m + 1 /\ q[h + 1] = m + 1
          /\ \A i \in h + 2..m + 1 : i \in 1..m + 1 /\ i - 1 \in h + 1..m /\ i - 1 \in 1..m /\ q[i] = o[i - 1]
          /\ \A i \in 1..m + 1 : i \in 1..h \/ i = h + 1 \/ i \in h + 2..m + 1
      BY <2>2, <2>5
    <2>9. \A i \in 1..m + 1 : q[i] \in 1..m + 1
      <3> HIDE DEF q
      <3>1. \A x \in 1..m : x \in 1..m + 1
        BY <2>2
      <3> QED
        BY <2>2, <2>3, <2>8, <3>1
    <2>10. q \in [1..m + 1 -> 1..m + 1]
      <3>1. DOMAIN q = 1..m + 1 /\ q = [i \in 1..m + 1 |-> q[i]]
        OBVIOUS
      <3> HIDE DEF q
      <3> QED
        BY <2>9, <3>1
    <2> HIDE DEF q
    <2>11. \A x \in 1..m + 1 : \E i \in 1..m + 1 : q[i] = x
      <3> TAKE x \in 1..m + 1
      <3>1. CASE x = m + 1
        BY <2>8, <3>1
      <3>2. CASE x # m + 1
        <4>1. x \in 1..m
          BY <2>2, <3>2
        <4>2. PICK i \in 1..m : o[i] = x
          BY <2>3, <4>1
        <4>3. CASE i \in 1..h
          BY <2>8, <4>2, <4>3
        <4>4. CASE i \notin 1..h
          <5>1. i + 1 \in h + 2..m + 1 /\ (i + 1) - 1 = i
            BY <2>2, <2>5, <4>4
          <5> QED
            BY <2>8, <4>2, <5>1
        <4> QED
          BY <4>3, <4>4
      <3> QED
        BY <3>1, <3>2
    <2>12. \A i, j \in 1..m + 1 : i < j => <<q[i], q[j]>> \in R
      <3> SUFFICES ASSUME NEW i \in 1..m + 1, NEW j \in 1..m + 1, i < j
                   PROVE  <<q[i], q[j]>> \in R
        OBVIOUS
      <3>1. CASE j \in 1..h
        <4>1. i \in 1..h
          BY <2>5, <3>1
        <4> QED
          BY <2>3, <2>8, <3>1, <4>1
      <3>2. CASE j = h + 1
        <4>1. i \in 1..h
          BY <2>5, <3>2
        <4> QED
          BY <2>6, <2>8, <3>2, <4>1
      <3>3. CASE j \in h + 2..m + 1
        <4>1. CASE i \in 1..h
          <5>1. i < j - 1
            BY <2>5, <3>3, <4>1
          <5> QED
            BY <2>3, <2>8, <3>3, <4>1, <5>1
        <4>2. CASE i = h + 1
          BY <2>7, <2>8, <3>3, <4>2
        <4>3. CASE i \in h + 2..m + 1
          <5>1. i - 1 < j - 1
            BY <2>5
          <5>2. q[i] = o[i - 1] /\ q[j] = o[j - 1] /\ i - 1 \in 1..m /\ j - 1 \in 1..m
            BY <2>8, <3>3, <4>3
          <5> QED
            BY <2>3, <5>1, <5>2
        <4> QED
          BY <2>8, <4>1, <4>2, <4>3
      <3> QED
        BY <2>8, <3>1, <3>2, <3>3
    <2> QED
      BY <2>10, <2>11, <2>12 DEF Sorts
  <1>3. T = Nat
    <2> HIDE DEF T
    <2>1. T \in SUBSET Nat
      BY DEF T
    <2> QED
      BY <1>1, <1>2, <2>1, SetInduction
  <1>4. n \in T /\ ~(n > n)
    BY <1>3
  <1> QED
    BY <1>4

\* apply_text_edits takes the edits in such an order.
LEMMA OrderSorts ==
  ASSUME NEW U, NEW edits \in Seq(TextEditsOf(U))
  PROVE  /\ Order(edits) \in [1..Len(edits) -> 1..Len(edits)]
         /\ \A x \in 1..Len(edits) : \E i \in 1..Len(edits) : Order(edits)[i] = x
         /\ \A i, j \in 1..Len(edits) : i < j => Descending(edits, Order(edits)[i], Order(edits)[j])
  <1> DEFINE n == Len(edits)
             R == {ij \in (1..n) \X (1..n) : Descending(edits, ij[1], ij[2])}
  <1>1. n \in Nat /\ DOMAIN edits = 1..n /\ \A i \in 1..n : edits[i].from \in Places
    <2>1. n \in Nat /\ DOMAIN edits = 1..n /\ \A i \in 1..n : edits[i] \in TextEditsOf(U)
      BY LenProperties, ElementOfSeq
    <2> QED
      BY <2>1 DEF TextEditsOf
  <1>2. \A i, j \in 1..n : <<i, j>> \in R <=> Descending(edits, i, j)
    OBVIOUS
  <1> HIDE DEF R, n
  <1>3. \A i, j \in 1..n : i # j => <<i, j>> \in R \/ <<j, i>> \in R
    <2> SUFFICES ASSUME NEW i \in 1..n, NEW j \in 1..n, i # j
                 PROVE  Descending(edits, i, j) \/ Descending(edits, j, i)
      BY <1>2
    <2>1. i < j \/ j < i
      BY <1>1
    <2> QED
      BY <1>1, <2>1, PlacesOrdered DEF Descending
  <1>4. \A i, j, k \in 1..n : <<i, j>> \in R /\ <<j, k>> \in R => <<i, k>> \in R
    <2> SUFFICES ASSUME NEW i \in 1..n, NEW j \in 1..n, NEW k \in 1..n,
                        Descending(edits, i, j), Descending(edits, j, k)
                 PROVE  Descending(edits, i, k)
      BY <1>2
    <2>1. i < j /\ j < k => i < k
      BY <1>1
    <2> QED
      BY <1>1, <2>1, PlacesOrdered DEF Descending
  <1>5. PICK o : Sorts(o, R, n)
    BY <1>1, <1>3, <1>4, OrderExists
  <1> DEFINE fits(q) == Range(q) = DOMAIN edits /\ \A i, j \in DOMAIN edits : i < j => Descending(edits, q[i], q[j])
  <1>6. o \in [DOMAIN edits -> DOMAIN edits] /\ fits(o)
    <2>1. o \in [1..n -> 1..n] /\ \A i \in 1..n : o[i] \in 1..n
      BY <1>5 DEF Sorts
    <2>2. Range(o) = 1..n
      BY <1>5, <2>1 DEF Sorts, Range
    <2>3. \A i, j \in 1..n : i < j => Descending(edits, o[i], o[j])
      BY <1>2, <1>5, <2>1 DEF Sorts
    <2> QED
      BY <1>1, <2>1, <2>2, <2>3
  <1>7. Order(edits) \in [DOMAIN edits -> DOMAIN edits] /\ fits(Order(edits))
    BY <1>6 DEF Order
  <1>8. \A x \in 1..n : \E i \in 1..n : Order(edits)[i] = x
    BY <1>1, <1>7 DEF Range
  <1> QED
    BY <1>1, <1>7, <1>8 DEF n

\* f is the fold over the first edits of the list, for every set of their places.
IsEditFold(f, text, list, n) ==
  f = [s \in SUBSET (1..n) |-> IF s = {} THEN text ELSE Applied(text, f[s \ {Max(s)}], list[Max(s)])]

\* The fold of apply_text_edits over any number of edits has a value: by induction on the
\* number.
LEMMA EditFoldExists ==
  ASSUME NEW text, NEW list, NEW n \in Nat
  PROVE  \E f : IsEditFold(f, text, list, n)
  <1> DEFINE T == {m \in Nat : \E f : IsEditFold(f, text, list, m)}
  <1>1. 0 \in T
    <2> DEFINE f == [s \in SUBSET (1..0) |-> text]
    <2>1. \A s \in SUBSET (1..0) : s = {}
      OBVIOUS
    <2>2. f = [s \in SUBSET (1..0) |-> IF s = {} THEN text ELSE Applied(text, f[s \ {Max(s)}], list[Max(s)])]
      BY <2>1
    <2>3. IsEditFold(f, text, list, 0)
      <3> HIDE DEF f
      <3> QED
        BY <2>2, Zenon DEF IsEditFold
    <2> QED
      BY <2>3
  <1>2. ASSUME NEW m \in T
        PROVE  m + 1 \in T
    <2>1. PICK f : IsEditFold(f, text, list, m)
      OBVIOUS
    <2>2. m \in Nat /\ m + 1 \in Nat
      OBVIOUS
    <2> DEFINE g == [s \in SUBSET (1..m + 1) |->
                       IF m + 1 \in s THEN Applied(text, f[s \ {m + 1}], list[m + 1]) ELSE f[s]]
    <2>3. ASSUME NEW s \in SUBSET (1..m + 1)
          PROVE  g[s] = IF s = {} THEN text ELSE Applied(text, g[s \ {Max(s)}], list[Max(s)])
      <3>1. CASE m + 1 \in s
        <4>1. Max(s) = m + 1 /\ s \ {m + 1} \in SUBSET (1..m)
          BY <2>2, <3>1, GreatestPlace
        <4>2. g[s \ {m + 1}] = f[s \ {m + 1}]
          BY <4>1
        <4>3. g[s] = Applied(text, f[s \ {m + 1}], list[m + 1])
          BY <3>1
        <4> HIDE DEF g
        <4> QED
          BY <3>1, <4>1, <4>2, <4>3
      <3>2. CASE m + 1 \notin s
        <4>1. s \in SUBSET (1..m)
          BY <2>2, <3>2, GreatestPlace
        <4>2. g[s] = f[s]
          BY <3>2
        <4>3. f[s] = IF s = {} THEN text ELSE Applied(text, f[s \ {Max(s)}], list[Max(s)])
          BY <2>1, <4>1 DEF IsEditFold
        <4>4. s # {} => g[s \ {Max(s)}] = f[s \ {Max(s)}]
          <5> SUFFICES ASSUME s # {}
                       PROVE  g[s \ {Max(s)}] = f[s \ {Max(s)}]
            OBVIOUS
          <5>1. s \ {Max(s)} \in SUBSET (1..m)
            BY <2>2, <4>1, GreatestPlace
          <5> QED
            BY <2>2, <5>1
        <4> HIDE DEF g
        <4> QED
          BY <4>2, <4>3, <4>4
      <3> QED
        BY <3>1, <3>2
    <2>4. g = [s \in SUBSET (1..m + 1) |-> IF s = {} THEN text ELSE Applied(text, g[s \ {Max(s)}], list[Max(s)])]
      <3> DEFINE h == [s \in SUBSET (1..m + 1) |-> IF s = {} THEN text ELSE Applied(text, g[s \ {Max(s)}], list[Max(s)])]
                 D == SUBSET (1..m + 1)
      <3>1. DOMAIN g = D /\ g = [s \in D |-> g[s]]
        OBVIOUS
      <3>2. \A s \in D : h[s] = IF s = {} THEN text ELSE Applied(text, g[s \ {Max(s)}], list[Max(s)])
        OBVIOUS
      <3>3. DOMAIN h = D /\ h = [s \in D |-> h[s]]
        OBVIOUS
      <3> HIDE DEF g, h, D
      <3>4. \A s \in D : g[s] = h[s]
        BY <2>3, <3>2 DEF D
      <3>5. g = h
        BY <3>1, <3>3, <3>4
      <3> QED
        BY <3>5 DEF h
    <2>5. IsEditFold(g, text, list, m + 1)
      <3> HIDE DEF g
      <3> QED
        BY <2>4, Zenon DEF IsEditFold
    <2> QED
      BY <2>2, <2>5
  <1>3. T = Nat
    <2> HIDE DEF T
    <2>1. T \in SUBSET Nat
      BY DEF T
    <2> QED
      BY <1>1, <1>2, <2>1, SetInduction
  <1> QED
    BY <1>3

\* g holds the texts from before the first edit to after the last.
IsEditTrace(g, text, edits, n) ==
  /\ g[0] = text
  /\ \A k \in 0..n - 1 : g[k + 1] = Applied(text, g[k], [i \in DOMAIN edits |-> edits[Order(edits)[i]]][k + 1])
  /\ apply_text_edits(text, edits) = g[n]


\* apply_text_edits passes through such states and ends in the last one.
LEMMA EditTrace ==
  ASSUME NEW text, NEW edits, NEW n \in Nat, DOMAIN edits = 1..n
  PROVE  \E g : IsEditTrace(g, text, edits, n)
  <1> DEFINE list == [i \in DOMAIN edits |-> edits[Order(edits)[i]]]
             f == CHOOSE g : IsEditFold(g, text, list, n)
  <1>1. IsEditFold(f, text, list, n)
    BY EditFoldExists, Zenon
  <1>2. apply_text_edits(text, edits) =
          LET iter[s \in SUBSET DOMAIN list] ==
                IF s = {} THEN text ELSE Applied(text, iter[s \ {Max(s)}], list[Max(s)])
          IN iter[DOMAIN list]
    BY DEF apply_text_edits, FoldLeft, MapThenFoldSet
  <1>3. DOMAIN list = 1..n
    OBVIOUS
  <1> HIDE DEF list
  <1>4. apply_text_edits(text, edits) = f[1..n]
    BY <1>2, <1>3 DEF IsEditFold
  <1> HIDE DEF f
  <1> DEFINE g == [k \in 0..n |-> f[1..k]]
  <1>5. \A s \in SUBSET (1..n) : f[s] = IF s = {} THEN text ELSE Applied(text, f[s \ {Max(s)}], list[Max(s)])
    BY <1>1 DEF IsEditFold
  <1>6. g[0] = text
    <2>1. 1..0 = {} /\ {} \in SUBSET (1..n) /\ 0 \in 0..n
      OBVIOUS
    <2>2. g[0] = f[1..0]
      BY <2>1
    <2>3. f[{}] = text
      BY <1>5, <2>1
    <2> HIDE DEF g
    <2> QED
      BY <2>1, <2>2, <2>3
  <1>7. ASSUME NEW k \in 0..n - 1
        PROVE  g[k + 1] = Applied(text, g[k], list[k + 1])
    <2>1. k \in Nat /\ k + 1 \in 0..n /\ k \in 0..n /\ 1..k + 1 \in SUBSET (1..n) /\ k + 1 \in 1..k + 1
      OBVIOUS
    <2>2. Max(1..k + 1) = k + 1
      <3>1. 1..k + 1 \in SUBSET (1..k + 1)
        OBVIOUS
      <3> QED
        BY <2>1, <3>1, GreatestPlace
    <2>3. (1..k + 1) \ {k + 1} = 1..k
      BY <2>1
    <2>4. 1..k + 1 # {}
      BY <2>1
    <2>5. f[1..k + 1] = Applied(text, f[1..k], list[k + 1])
      BY <1>5, <2>1, <2>2, <2>3, <2>4
    <2> QED
      BY <2>1, <2>5
  <1>8. g[n] = f[1..n]
    OBVIOUS
  <1> HIDE DEF g
  <1> QED
    BY <1>4, <1>6, <1>7, <1>8, Zenon DEF list, IsEditTrace

-----------------------------------------------------------------------------
(* All at once *)

\* Edits as places: edit i replaces what lies after F[i] up to T[i], no two start in one
\* place, and one that is applied before another starts where that ends or behind it.
Placed(text, edits, F, T) ==
  /\ \A i \in 1..Len(edits) :
       /\ F[i] \in 0..Len(text) /\ T[i] \in F[i]..Len(text)
       /\ F[i] = At(text, edits[i].from) /\ F[i] = byte_offset(text, edits[i].from)
       /\ T[i] = At(text, edits[i].to) /\ T[i] = byte_offset(text, edits[i].to)
  /\ \A i, j \in 1..Len(edits) : i # j => F[i] # F[j]
  /\ \A i, j \in 1..Len(edits) : i # j /\ Descending(edits, i, j) => F[i] >= T[j]

LEMMA EditPlaces ==
  ASSUME NEW U, NEW text \in Seq(U), NEW edits \in Seq(TextEditsOf(U)), Fits(text, edits)
  PROVE  \E F, T : Placed(text, edits, F, T)
  <1> DEFINE n == Len(edits)
             l == Len(text)
             F == [i \in 1..n |-> At(text, edits[i].from)]
             T == [i \in 1..n |-> At(text, edits[i].to)]
             from(i) == edits[i].from
             to(i) == edits[i].to
  <1>1. n \in Nat /\ l \in Nat /\ DOMAIN edits = 1..n
    BY LenProperties
  <1>2. \A i \in 1..n : from(i) \in Places /\ to(i) \in Places
    <2>1. \A i \in 1..n : edits[i] \in TextEditsOf(U)
      BY ElementOfSeq
    <2> QED
      BY <2>1 DEF TextEditsOf
  <1>3. \A i \in 1..n : edits[i] \in ToSet(edits)
    BY <1>1 DEF ToSet
  <1>4. \A i \in 1..n : F[i] = At(text, from(i)) /\ T[i] = At(text, to(i))
    OBVIOUS
  <1>5. \A i \in 1..n : ~Before(to(i), from(i))
    BY <1>3 DEF Fits
  <1>6. \A i, j \in 1..n : i # j =>
          from(i) # from(j) /\ (~Before(from(i), to(j)) \/ ~Before(from(j), to(i)))
    <2> TAKE i, j \in 1..n
    <2> HAVE i # j
    <2>1. i < j \/ j < i
      BY <1>1
    <2> QED
      BY <1>1, <2>1 DEF Fits
  <1>7. \A i \in 1..n : /\ \E k \in 0..l : Stands(text, from(i), k)
                        /\ \E k \in 0..l : Stands(text, to(i), k)
    BY <1>3 DEF Fits
  <1> HIDE DEF F, T, from, to, n
  <1>8. \A i \in 1..n : /\ F[i] \in 0..l /\ Stands(text, from(i), F[i]) /\ F[i] = byte_offset(text, from(i))
                        /\ T[i] \in 0..l /\ Stands(text, to(i), T[i]) /\ T[i] = byte_offset(text, to(i))
    <2> TAKE i \in 1..n
    <2>1. PICK k \in 0..l : Stands(text, from(i), k)
      BY <1>7
    <2>2. byte_offset(text, from(i)) = k /\ At(text, from(i)) = k
      BY <1>2, <2>1, StandsAtOffset
    <2>3. PICK m \in 0..l : Stands(text, to(i), m)
      BY <1>7
    <2>4. byte_offset(text, to(i)) = m /\ At(text, to(i)) = m
      BY <1>2, <2>3, StandsAtOffset
    <2> HIDE DEF l
    <2> QED
      BY <1>4, <2>1, <2>2, <2>3, <2>4
  <1>9. \A i, j \in 1..n : /\ F[i] < F[j] => Before(from(i), from(j))
                           /\ F[i] = F[j] => from(i) = from(j)
                           /\ F[i] < T[j] => Before(from(i), to(j))
                           /\ T[i] < F[j] => Before(to(i), from(j))
    <2> TAKE i, j \in 1..n
    <2>1. (F[i] < F[j] => Before(from(i), from(j))) /\ (F[i] = F[j] => from(i) = from(j))
      BY <1>2, <1>8, StandInOrder
    <2>2. F[i] < T[j] => Before(from(i), to(j))
      BY <1>2, <1>8, StandInOrder
    <2>3. T[i] < F[j] => Before(to(i), from(j))
      BY <1>2, <1>8, StandInOrder
    <2> QED
      BY <2>1, <2>2, <2>3
  <1>10. \A i \in 1..n : F[i] \in Nat /\ T[i] \in Nat /\ F[i] <= T[i] /\ T[i] <= l
    <2> TAKE i \in 1..n
    <2>1. F[i] \in Nat /\ T[i] \in Nat /\ T[i] <= l
      BY <1>1, <1>8
    <2>2. ~(T[i] < F[i])
      BY <1>5, <1>9
    <2> QED
      BY <2>1, <2>2
  <1>11. \A i, j \in 1..n : i # j => F[i] # F[j]
    <2> TAKE i, j \in 1..n
    <2> HAVE i # j
    <2>1. from(i) # from(j)
      BY <1>6, Zenon
    <2>2. F[i] = F[j] => from(i) = from(j)
      BY <1>9
    <2> QED
      BY <2>1, <2>2
  <1>12. ASSUME NEW i \in 1..n, NEW j \in 1..n, i # j, Descending(edits, i, j)
         PROVE  F[i] >= T[j]
    <2>1. Before(from(j), from(i))
      <3>1. from(i) # from(j)
        BY <1>6, <1>12, Zenon
      <3>2. Before(edits[j].from, edits[i].from) \/ edits[i].from = edits[j].from
        BY <1>12 DEF Descending
      <3> QED
        BY <3>1, <3>2 DEF from
    <2>2. F[i] < T[j] => Before(from(i), to(j)) /\ ~Before(from(j), to(i))
      BY <1>6, <1>9, <1>12
    <2>3. ~Before(from(j), to(i)) => FALSE
      <3>1. ~Before(to(i), from(i))
        BY <1>5
      <3> QED
        BY <1>2, <2>1, <3>1, PlacesOrdered
    <2> QED
      BY <1>10, <2>2, <2>3
  <1>13. Placed(text, edits, F, T)
    <2>1. \A i \in 1..n : F[i] \in 0..l /\ T[i] \in F[i]..l
      BY <1>1, <1>10
    <2> QED
      BY <1>4, <1>8, <1>11, <1>12, <2>1 DEF Placed, n, from, to
  <1> QED
    BY <1>13

\* What the edits of S put behind place k, what stands there with it, and the text that
\* comes of it.
NewOf(edits, here) == IF here = {} THEN <<>> ELSE edits[CHOOSE i \in here : TRUE].new
Put(edits, F, S, k) == NewOf(edits, {i \in S : F[i] = k})
Piece(text, edits, F, T, S, k) ==
  (IF k > 0 /\ \A i \in S : k \notin F[i] + 1..T[i] THEN <<text[k]>> ELSE <<>>) \o Put(edits, F, S, k)
Whole(text, edits, F, T, S) ==
  FlattenSeq([i \in 1..Len(text) + 1 |-> Piece(text, edits, F, T, S, i - 1)])

\* The text grows piece by piece.
Grows(g, text, edits, F, T, S) ==
  /\ g[0] = Piece(text, edits, F, T, S, 0)
  /\ \A k \in 1..Len(text) : g[k] = g[k - 1] \o Piece(text, edits, F, T, S, k)

Joined(a, b) == a \o b

LEMMA Regrouped ==
  ASSUME NEW U, NEW a \in Seq(U), NEW b \in Seq(U), NEW c \in Seq(U)
  PROVE  Joined(a, Joined(b, c)) = Joined(Joined(a, b), c)
  <1>1. a \o (b \o c) = (a \o b) \o c
    BY ConcatAssociative
  <1> QED
    BY <1>1, Zenon DEF Joined

LEMMA PutText ==
  ASSUME NEW U, NEW edits \in Seq(TextEditsOf(U)), NEW F, NEW S \in SUBSET (1..Len(edits)), NEW k
  PROVE  /\ Put(edits, F, S, k) \in Seq(U)
         /\ (\A i \in S : F[i] # k) => Put(edits, F, S, k) = <<>>
         /\ \A i \in S : F[i] = k /\ (\A j \in S : F[j] = k => j = i) => Put(edits, F, S, k) = edits[i].new
  <1> DEFINE here == {i \in S : F[i] = k}
             i0 == CHOOSE i \in here : TRUE
  <1>1. \A i \in S : edits[i] \in TextEditsOf(U) /\ edits[i].new \in Seq(U)
    <2>1. \A i \in S : edits[i] \in TextEditsOf(U)
      BY ElementOfSeq
    <2> QED
      BY <2>1 DEF TextEditsOf
  <1>2. Put(edits, F, S, k) = IF here = {} THEN <<>> ELSE edits[i0].new
    BY DEF Put, NewOf
  <1>3. here # {} => i0 \in here
    OBVIOUS
  <1> HIDE DEF i0
  <1>4. <<>> \in Seq(U)
    BY EmptySeq
  <1>5. Put(edits, F, S, k) \in Seq(U)
    BY <1>1, <1>2, <1>3, <1>4
  <1>6. (\A i \in S : F[i] # k) => Put(edits, F, S, k) = <<>>
    BY <1>2
  <1>7. ASSUME NEW i \in S, F[i] = k, \A j \in S : F[j] = k => j = i
        PROVE  Put(edits, F, S, k) = edits[i].new
    <2>1. i \in here /\ i0 = i
      BY <1>3, <1>7
    <2> QED
      BY <1>2, <2>1
  <1> QED
    BY <1>5, <1>6, <1>7

LEMMA PieceText ==
  ASSUME NEW U, NEW text \in Seq(U), NEW edits \in Seq(TextEditsOf(U)), NEW F, NEW T,
         NEW S \in SUBSET (1..Len(edits)), NEW k \in 0..Len(text)
  PROVE  Piece(text, edits, F, T, S, k) \in Seq(U)
  <1> DEFINE a == IF k > 0 /\ \A i \in S : k \notin F[i] + 1..T[i] THEN <<text[k]>> ELSE <<>>
             b == Put(edits, F, S, k)
  <1>1. k > 0 => text[k] \in U
    <2>1. k > 0 => k \in 1..Len(text)
      BY LenProperties
    <2> QED
      BY <2>1, ElementOfSeq
  <1>2. a \in Seq(U)
    BY <1>1, EmptySeq
  <1>3. b \in Seq(U)
    BY PutText
  <1> HIDE DEF a, b
  <1>4. a \o b \in Seq(U)
    BY <1>2, <1>3, ConcatProperties
  <1> QED
    BY <1>4 DEF Piece, a, b

LEMMA WholeGrows ==
  ASSUME NEW U, NEW text \in Seq(U), NEW edits \in Seq(TextEditsOf(U)), NEW F, NEW T,
         NEW S \in SUBSET (1..Len(edits))
  PROVE  \E g : /\ Grows(g, text, edits, F, T, S) /\ \A k \in 0..Len(text) : g[k] \in Seq(U)
                /\ Whole(text, edits, F, T, S) = g[Len(text)]
  <1> DEFINE l == Len(text)
             P(k) == Piece(text, edits, F, T, S, k)
             seqs == [i \in 1..l + 1 |-> P(i - 1)]
  <1>1. l \in Nat
    BY LenProperties
  <1>2. \A k \in 0..l : P(k) \in Seq(U)
    BY PieceText
  <1> HIDE DEF l, P
  <1>3. seqs \in Seq(Seq(U)) /\ Len(seqs) = l + 1 /\ \A i \in 1..l + 1 : seqs[i] = P(i - 1)
    <2>1. \A i \in 1..l + 1 : i - 1 \in 0..l
      BY <1>1
    <2> QED
      BY <1>1, <1>2, <2>1
  <1> HIDE DEF seqs
  <1>4. PICK f : Flattening(seqs, f, l + 1) /\ FlattenSeq(seqs) = f[l + 1]
    <2>1. Len(seqs) # 0
      BY <1>1, <1>3
    <2> QED
      BY <1>3, <2>1, FlattenIsLast
  <1>5. \A i \in 1..l + 1 : f[i] = IF i = 1 THEN seqs[i] ELSE f[i - 1] \o seqs[i]
    BY <1>4 DEF Flattening
  <1> DEFINE g == [k \in 0..l |-> f[k + 1]]
  <1>6. \A k \in 0..l : g[k] = f[k + 1]
    OBVIOUS
  <1> HIDE DEF g
  <1>7. g[0] = P(0)
    <2>1. 0 \in 0..l /\ 0 + 1 = 1 /\ 1 \in 1..l + 1 /\ 1 - 1 = 0
      BY <1>1
    <2> QED
      BY <1>3, <1>5, <1>6, <2>1
  <1>8. ASSUME NEW k \in 1..l
        PROVE  g[k] = g[k - 1] \o P(k)
    <2>1. k \in 0..l /\ k - 1 \in 0..l /\ k + 1 \in 1..l + 1 /\ k + 1 # 1 /\ (k + 1) - 1 = k /\ (k - 1) + 1 = k
      BY <1>1
    <2>2. g[k] = f[k + 1] /\ g[k - 1] = f[k]
      BY <1>6, <2>1
    <2>3. f[k + 1] = f[k] \o seqs[k + 1] /\ seqs[k + 1] = P(k)
      BY <1>3, <1>5, <2>1
    <2> QED
      BY <2>2, <2>3
  <1>9. \A k \in 0..l : g[k] \in Seq(U)
    <2> DEFINE R == {k \in Nat : k > l \/ g[k] \in Seq(U)}
    <2>1. 0 \in R
      BY <1>1, <1>2, <1>7
    <2>2. ASSUME NEW k \in R
          PROVE  k + 1 \in R
      <3> SUFFICES ASSUME k + 1 <= l
                   PROVE  g[k + 1] \in Seq(U)
        BY <1>1
      <3>1. k + 1 \in 1..l /\ (k + 1) - 1 = k /\ k + 1 \in 0..l /\ ~(k > l)
        BY <1>1
      <3>2. g[k] \in Seq(U) /\ P(k + 1) \in Seq(U) /\ g[k + 1] = g[k] \o P(k + 1)
        BY <1>2, <1>8, <3>1
      <3> QED
        BY <3>2, ConcatProperties
    <2>3. R = Nat
      <3> HIDE DEF R
      <3>1. R \in SUBSET Nat
        BY DEF R
      <3> QED
        BY <2>1, <2>2, <3>1, SetInduction
    <2> QED
      BY <1>1, <2>3
  <1>10. Whole(text, edits, F, T, S) = g[l]
    <2>1. l \in 0..l
      BY <1>1
    <2> QED
      BY <1>4, <1>6, <2>1 DEF Whole, seqs, P, l
  <1> QED
    BY <1>7, <1>8, <1>9, <1>10 DEF Grows, P, l

\* The edits of S start at place t or behind it, and the text is as it was up to t.
Untouched(g, text, edits, F, S, t) == g[t] = SubSeq(text, 1, t) \o Put(edits, F, S, t)
StartFrom(F, S, t) == \A i \in S : F[i] \in Nat /\ F[i] >= t

\* Up to where the first edit starts, the text is as it was.
LEMMA StartUntouched ==
  ASSUME NEW U, NEW text \in Seq(U), NEW edits \in Seq(TextEditsOf(U)), NEW F, NEW T,
         NEW S \in SUBSET (1..Len(edits)), NEW g, NEW t \in 0..Len(text),
         Grows(g, text, edits, F, T, S), StartFrom(F, S, t)
  PROVE  Untouched(g, text, edits, F, S, t)
  <1> DEFINE l == Len(text)
             R == {k \in Nat : k > t \/ g[k] = SubSeq(text, 1, k) \o Put(edits, F, S, k)}
  <1>0. \A i \in S : F[i] \in Nat /\ F[i] >= t
    BY DEF StartFrom
  <1>1. l \in Nat /\ t \in Nat /\ t <= l
    BY LenProperties
  <1>2. \A k \in 0..t : SubSeq(text, 1, k) \in Seq(U)
    <2> TAKE k \in 0..t
    <2>1. \A i \in 1..k : text[i] \in U
      BY <1>1, ElementOfSeq
    <2> QED
      BY <1>1, <2>1, SubSeqProperties
  <1>3. \A k : Put(edits, F, S, k) \in Seq(U)
    BY PutText
  <1>4. 0 \in R
    <2>1. Piece(text, edits, F, T, S, 0) = <<>> \o Put(edits, F, S, 0)
      BY DEF Piece
    <2>2. SubSeq(text, 1, 0) = <<>>
      BY SubSeqEmpty
    <2> QED
      BY <2>1, <2>2 DEF Grows
  <1>5. ASSUME NEW k \in R
        PROVE  k + 1 \in R
    <2> SUFFICES ASSUME k + 1 <= t
                 PROVE  g[k + 1] = SubSeq(text, 1, k + 1) \o Put(edits, F, S, k + 1)
      BY <1>1
    <2> DEFINE a == SubSeq(text, 1, k)
               b == <<text[k + 1]>>
               c == Put(edits, F, S, k + 1)
    <2>1. k + 1 \in 1..l /\ (k + 1) - 1 = k /\ ~(k > t) /\ k \in 0..t /\ k + 1 \in 0..t /\ k \in Nat
      BY <1>1
    <2>2. Put(edits, F, S, k) = <<>>
      <3>1. \A i \in S : F[i] # k
        BY <1>0, <1>1, <2>1
      <3>2. {i \in S : F[i] = k} = {}
        BY <3>1
      <3> QED
        BY <3>2 DEF Put, NewOf
    <2>3. a \in Seq(U) /\ b \in Seq(U) /\ c \in Seq(U) /\ SubSeq(text, 1, k + 1) = a \o b
      <3>1. text[k + 1] \in U
        BY <2>1, ElementOfSeq
      <3>2. 1 \in 1..l /\ k + 1 \in 1..l
        BY <2>1
      <3>3. SubSeq(text, 1, k + 1) = SubSeq(text, 1, (k + 1) - 1) \o <<text[k + 1]>>
        BY <3>2, SubSeqRecursiveSecond
      <3> QED
        BY <1>2, <1>3, <2>1, <3>1, <3>3
    <2>4. g[k] = a
      <3>1. g[k] = a \o <<>>
        BY <2>1, <2>2
      <3> HIDE DEF a
      <3> QED
        BY <2>3, <3>1, ConcatEmptySeq
    <2>5. Piece(text, edits, F, T, S, k + 1) = b \o c
      <3>1. \A i \in S : k + 1 \notin F[i] + 1..T[i]
        BY <1>1, <1>0, <2>1
      <3>2. k + 1 > 0
        BY <2>1
      <3>3. (IF k + 1 > 0 /\ \A i \in S : k + 1 \notin F[i] + 1..T[i] THEN <<text[k + 1]>> ELSE <<>>) = b
        BY <3>1, <3>2
      <3> QED
        BY <3>3, Zenon DEF Piece
    <2>6. g[k + 1] = g[k] \o Piece(text, edits, F, T, S, k + 1)
      BY <2>1 DEF Grows
    <2> HIDE DEF a, b, c
    <2>7. g[k + 1] = (a \o b) \o c
      <3>1. a \o (b \o c) = (a \o b) \o c
        <4>1. a \in Seq(U) /\ b \in Seq(U) /\ c \in Seq(U)
          BY <2>3, Zenon
        <4>2. Joined(a, Joined(b, c)) = Joined(Joined(a, b), c)
          BY <4>1, Regrouped
        <4> QED
          BY <4>2, Zenon DEF Joined
      <3> QED
        BY <2>4, <2>5, <2>6, <3>1, Zenon
    <2> QED
      BY <2>3, <2>7, Zenon DEF c
  <1>6. R = Nat
    <2> HIDE DEF R
    <2>1. R \in SUBSET Nat
      BY DEF R
    <2> QED
      BY <1>4, <1>5, <2>1, SetInduction
  <1>7. t \in Nat /\ ~(t > t)
    BY <1>1
  <1>8. \A k : k \in R => k > t \/ g[k] = SubSeq(text, 1, k) \o Put(edits, F, S, k)
    OBVIOUS
  <1> HIDE DEF R
  <1> QED
    BY <1>6, <1>7, <1>8, Zenon DEF Untouched

\* Without edits the whole is the text.
LEMMA WholeOfNone ==
  ASSUME NEW U, NEW text \in Seq(U), NEW edits \in Seq(TextEditsOf(U)), NEW F, NEW T, NEW S, S = {}
  PROVE  Whole(text, edits, F, T, S) = text
  <1> DEFINE l == Len(text)
  <1>1. l \in Nat /\ l \in 0..l /\ S \in SUBSET (1..Len(edits))
    BY LenProperties
  <1>2. PICK g : Grows(g, text, edits, F, T, S) /\ Whole(text, edits, F, T, S) = g[l]
    BY <1>1, WholeGrows
  <1>3. g[l] = SubSeq(text, 1, l) \o Put(edits, F, S, l)
    <2>1. \A i \in S : F[i] \in Nat /\ F[i] >= l
      OBVIOUS
    <2>2. StartFrom(F, S, Len(text))
      BY <2>1 DEF StartFrom
    <2>3. Len(text) \in 0..Len(text)
      BY <1>1
    <2>4. Untouched(g, text, edits, F, S, Len(text))
      BY <1>1, <1>2, <2>2, <2>3, StartUntouched
    <2> QED
      BY <2>4, Zenon DEF Untouched
  <1>4. Put(edits, F, S, l) = <<>>
    BY DEF Put, NewOf
  <1>5. SubSeq(text, 1, l) = text
    BY SubSeqFull
  <1> QED
    BY <1>2, <1>3, <1>4, <1>5, ConcatEmptySeq

\* What stays of a text before place t, the same with `new` behind place f, and two
\* texts that go on alike from there.
Upto(text, t) == SubSeq(text, 1, t)
NewUpto(text, f, new) == SubSeq(text, 1, f) \o new
Alike(x, y, a, b, U) == \E r \in Seq(U) : x = a \o r /\ y = b \o r

LEMMA UptoFacts ==
  ASSUME NEW U, NEW text \in Seq(U), NEW t \in 0..Len(text)
  PROVE  /\ Upto(text, t) \in Seq(U) /\ Len(Upto(text, t)) = t
         /\ \A i \in 1..t : Upto(text, t)[i] = text[i]
  <1>1. t \in Nat /\ t <= Len(text) /\ Len(text) \in Nat
    BY LenProperties
  <1>2. \A i \in 1..t : text[i] \in U
    BY <1>1, ElementOfSeq
  <1>3. /\ SubSeq(text, 1, t) \in Seq(U)
        /\ Len(SubSeq(text, 1, t)) = (IF 1 <= t THEN t - 1 + 1 ELSE 0)
        /\ \A i \in 1..t - 1 + 1 : SubSeq(text, 1, t)[i] = text[1 + i - 1]
    BY <1>1, <1>2, SubSeqProperties
  <1> QED
    BY <1>1, <1>3 DEF Upto

LEMMA AlikeGrows ==
  ASSUME NEW U, NEW a \in Seq(U), NEW b \in Seq(U), NEW c \in Seq(U), NEW x, NEW y, NEW x1, NEW y1,
         Alike(x, y, a, b, U), x1 = Joined(x, c), y1 = Joined(y, c)
  PROVE  Alike(x1, y1, a, b, U)
  <1>1. PICK r \in Seq(U) : x = a \o r /\ y = b \o r
    BY Zenon DEF Alike
  <1>2. Joined(r, c) \in Seq(U)
    <2>1. r \o c \in Seq(U)
      BY ConcatProperties
    <2> QED
      BY <2>1, Zenon DEF Joined
  <1>3. Joined(a, Joined(r, c)) = Joined(Joined(a, r), c)
    BY Regrouped
  <1>4. Joined(b, Joined(r, c)) = Joined(Joined(b, r), c)
    BY Regrouped
  <1>5. x1 = a \o Joined(r, c) /\ y1 = b \o Joined(r, c)
    BY <1>1, <1>3, <1>4, Zenon DEF Joined
  <1> QED
    BY <1>2, <1>5, Zenon DEF Alike

\* Of two texts that go on alike, one is a splice of the other.
LEMMA AlikeIsSplice ==
  ASSUME NEW U, NEW text \in Seq(U), NEW new \in Seq(U), NEW t \in 0..Len(text), NEW f \in 0..t,
         NEW x, NEW y, Alike(x, y, Upto(text, t), NewUpto(text, f, new), U)
  PROVE  y = Spliced(x, f, t, new) /\ Len(x) \in Nat /\ Len(x) >= t
  <1> DEFINE a == Upto(text, t)
  <1>1. PICK r \in Seq(U) : x = a \o r /\ y = NewUpto(text, f, new) \o r
    BY Zenon DEF Alike
  <1>2. /\ Len(text) \in Nat /\ t \in Nat /\ f \in Nat /\ f <= t /\ t <= Len(text) /\ f \in 0..Len(text)
        /\ Len(r) \in Nat
    BY LenProperties
  <1>3. a \in Seq(U) /\ Len(a) = t /\ \A i \in 1..t : a[i] = text[i]
    BY UptoFacts
  <1> HIDE DEF a
  <1>4. /\ x \in Seq(U) /\ Len(x) = t + Len(r)
        /\ \A i \in 1..t + Len(r) : x[i] = IF i <= t THEN a[i] ELSE r[i - t]
    <2>1. /\ a \o r \in Seq(U) /\ Len(a \o r) = Len(a) + Len(r)
          /\ \A i \in 1..Len(a) + Len(r) : (a \o r)[i] = IF i <= Len(a) THEN a[i] ELSE r[i - Len(a)]
      BY <1>3, ConcatProperties
    <2> QED
      BY <1>1, <1>3, <2>1, Zenon
  <1>5. Upto(x, f) = Upto(text, f)
    <2>1. f \in 0..Len(x)
      BY <1>2, <1>4
    <2>2. /\ Upto(x, f) \in Seq(U) /\ Len(Upto(x, f)) = f
          /\ \A i \in 1..f : Upto(x, f)[i] = x[i]
      BY <1>4, <2>1, UptoFacts
    <2>3. /\ Upto(text, f) \in Seq(U) /\ Len(Upto(text, f)) = f
          /\ \A i \in 1..f : Upto(text, f)[i] = text[i]
      BY <1>2, UptoFacts
    <2>4. \A i \in 1..f : x[i] = text[i]
      <3> TAKE i \in 1..f
      <3>1. i \in 1..t + Len(r) /\ i <= t /\ i \in 1..t
        BY <1>2
      <3> QED
        BY <1>3, <1>4, <3>1
    <2>5. \A i \in 1..f : Upto(x, f)[i] = Upto(text, f)[i]
      BY <2>2, <2>3, <2>4
    <2> QED
      BY <2>2, <2>3, <2>5, SeqEqual
  <1>6. SubSeq(x, t + 1, Len(x)) = r
    <2> DEFINE c == SubSeq(x, t + 1, Len(x))
    <2>1. \A i \in t + 1..Len(x) : x[i] \in U
      BY <1>2, <1>4, ElementOfSeq
    <2>2. c \in Seq(U) /\ Len(c) = (IF t + 1 <= Len(x) THEN Len(x) - (t + 1) + 1 ELSE 0)
          /\ \A i \in 1..Len(x) - (t + 1) + 1 : c[i] = x[(t + 1) + i - 1]
      BY <1>2, <1>4, <2>1, SubSeqProperties
    <2> HIDE DEF c
    <2>3. Len(c) = Len(r)
      BY <1>2, <1>4, <2>2
    <2>4. \A i \in 1..Len(c) : c[i] = r[i]
      <3> TAKE i \in 1..Len(c)
      <3>1. /\ i \in 1..Len(x) - (t + 1) + 1 /\ (t + 1) + i - 1 = t + i /\ t + i \in 1..t + Len(r)
            /\ ~(t + i <= t) /\ (t + i) - t = i
        BY <1>2, <1>4, <2>3
      <3>2. c[i] = x[t + i]
        BY <2>2, <3>1
      <3>3. x[t + i] = r[i]
        BY <1>4, <3>1
      <3> QED
        BY <3>2, <3>3
    <2>5. c = r
      BY <2>2, <2>3, <2>4, SeqEqual
    <2> QED
      BY <2>5 DEF c
  <1>7. Spliced(x, f, t, new) = (SubSeq(x, 1, f) \o new) \o SubSeq(x, t + 1, Len(x))
    BY Zenon DEF Spliced
  <1>8. y = Spliced(x, f, t, new)
    BY <1>1, <1>5, <1>6, <1>7, Zenon DEF Upto, NewUpto
  <1> QED
    BY <1>2, <1>4, <1>8

\* The edits of S start behind an edit from f to t, and in other places.
StartBehind(F, S, f, t) == \A i \in S : F[i] \in Nat /\ F[i] # f /\ F[i] >= t

\* To make one more edit at once, in front of the others, is to make it after them.
LEMMA FirstEditLast ==
  ASSUME NEW U, NEW text \in Seq(U), NEW edits \in Seq(TextEditsOf(U)), NEW F, NEW T,
         NEW S \in SUBSET (1..Len(edits)), NEW V, NEW e \in 1..Len(edits), NEW t \in 0..Len(text), NEW f \in 0..t,
         NEW new, NEW out, e \notin S, V = S \cup {e}, F[e] = f, T[e] = t, edits[e].new = new,
         StartBehind(F, S, f, t), out = Whole(text, edits, F, T, S)
  PROVE  Whole(text, edits, F, T, V) = Spliced(out, f, t, new) /\ Len(out) \in Nat /\ Len(out) >= t
  <1> DEFINE l == Len(text)
             a == Upto(text, t)
             b == NewUpto(text, f, new)
             P(k) == Piece(text, edits, F, T, S, k)
             Q(k) == Piece(text, edits, F, T, V, k)
  <1>0. \A i \in S : F[i] \in Nat /\ F[i] # f /\ F[i] >= t
    BY DEF StartBehind
  <1>1. /\ l \in Nat /\ t \in Nat /\ f \in Nat /\ f <= t /\ t <= l /\ l \in 0..l /\ t \in 0..l /\ f \in 0..l
        /\ V \in SUBSET (1..Len(edits)) /\ e \in V /\ S \in SUBSET (1..Len(edits))
    BY LenProperties
  <1>2. new \in Seq(U)
    <2>1. edits[e] \in TextEditsOf(U)
      BY ElementOfSeq
    <2> QED
      BY <2>1 DEF TextEditsOf
  <1>3. PICK g : Grows(g, text, edits, F, T, S) /\ Whole(text, edits, F, T, S) = g[l]
    <2>1. \E G : /\ Grows(G, text, edits, F, T, S) /\ \A k \in 0..Len(text) : G[k] \in Seq(U)
                 /\ Whole(text, edits, F, T, S) = G[Len(text)]
      BY <1>1, WholeGrows
    <2> QED
      BY <2>1, Zenon
  <1>4. PICK h : Grows(h, text, edits, F, T, V) /\ Whole(text, edits, F, T, V) = h[l]
    <2>1. \E G : /\ Grows(G, text, edits, F, T, V) /\ \A k \in 0..Len(text) : G[k] \in Seq(U)
                 /\ Whole(text, edits, F, T, V) = G[Len(text)]
      BY <1>1, WholeGrows
    <2> QED
      BY <2>1, Zenon
  <1>5. StartFrom(F, S, t) /\ StartFrom(F, V, f)
    BY <1>0, <1>1 DEF StartFrom
  <1>6. Untouched(g, text, edits, F, S, t)
    BY <1>1, <1>3, <1>5, StartUntouched
  <1>7. Untouched(h, text, edits, F, V, f)
    BY <1>1, <1>4, <1>5, StartUntouched
  <1>8. Put(edits, F, V, f) = new
    <2>1. {i \in V : F[i] = f} = {e}
      BY <1>0
    <2>2. (CHOOSE i \in {e} : TRUE) = e
      OBVIOUS
    <2>3. NewOf(edits, {e}) = new
      BY <2>2 DEF NewOf
    <2> QED
      BY <2>1, <2>3, Zenon DEF Put
  <1>9. \A k : k # f => Put(edits, F, V, k) = Put(edits, F, S, k)
    <2> TAKE k
    <2> HAVE k # f
    <2>1. {i \in V : F[i] = k} = {i \in S : F[i] = k}
      OBVIOUS
    <2> QED
      BY <2>1, Zenon DEF Put
  <1>10. \A k \in 0..t : k = f \/ k # t => Put(edits, F, S, k) = <<>>
    <2> TAKE k \in 0..t
    <2> HAVE k = f \/ k # t
    <2>1. \A i \in S : F[i] # k
      BY <1>0, <1>1
    <2>2. {i \in S : F[i] = k} = {}
      BY <2>1
    <2> QED
      BY <2>2 DEF Put, NewOf
  <1>11. \A k : Put(edits, F, S, k) \in Seq(U)
    BY <1>1, PutText
  <1>12. \A k \in 0..l : P(k) \in Seq(U)
    BY <1>1, PieceText
  <1>13. \A k \in 1..l : g[k] = g[k - 1] \o P(k) /\ h[k] = h[k - 1] \o Q(k)
    BY <1>3, <1>4, Zenon DEF Grows
  <1>14. \A k \in f + 1..t : Q(k) = <<>> \o Put(edits, F, S, k)
    <2> TAKE k \in f + 1..t
    <2>1. k # f
      BY <1>1
    <2>2. ~(k > 0 /\ \A i \in V : k \notin F[i] + 1..T[i])
      BY <1>1
    <2>3. Put(edits, F, V, k) = Put(edits, F, S, k)
      BY <1>9, <2>1
    <2> QED
      BY <2>2, <2>3, Zenon DEF Piece
  <1>15. \A k \in t + 1..l : Q(k) = P(k)
    <2> TAKE k \in t + 1..l
    <2>1. k # f
      BY <1>1
    <2>2. (\A i \in V : k \notin F[i] + 1..T[i]) <=> (\A i \in S : k \notin F[i] + 1..T[i])
      BY <1>1
    <2>3. Put(edits, F, V, k) = Put(edits, F, S, k)
      BY <1>9, <2>1
    <2> QED
      BY <2>2, <2>3, Zenon DEF Piece
  <1>16. a \in Seq(U) /\ Upto(text, f) \in Seq(U) /\ b = Upto(text, f) \o new
    BY <1>1, UptoFacts DEF Upto, NewUpto
  <1>17. b \in Seq(U)
    BY <1>2, <1>16, ConcatProperties
  <1>18. h[f] = b
    BY <1>7, <1>8, <1>16, Zenon DEF Untouched, Upto
  <1>19. g[t] = a \o Put(edits, F, S, t)
    BY <1>6, Zenon DEF Untouched, Upto
  <1> HIDE DEF a, b, P, Q, l
  <1>20. \A k \in Nat : k < f \/ k >= t \/ h[k] = b
    <2> DEFINE R == {k \in Nat : k < f \/ k >= t \/ h[k] = b}
    <2>1. 0 \in R
      BY <1>1, <1>18
    <2>2. ASSUME NEW k \in R
          PROVE  k + 1 \in R
      <3> SUFFICES ASSUME k + 1 >= f, k + 1 < t
                   PROVE  h[k + 1] = b
        BY <1>1
      <3>1. CASE k + 1 = f
        BY <3>1, <1>18
      <3>2. CASE k + 1 # f
        <4>1. k >= f /\ k < t /\ k \in Nat /\ k + 1 \in f + 1..t /\ k + 1 \in 1..l /\ (k + 1) - 1 = k
              /\ k + 1 \in 0..t /\ k + 1 # t
          BY <1>1, <3>2
        <4>2. h[k] = b
          BY <1>1, <4>1
        <4>3. h[k + 1] = h[k] \o Q(k + 1)
          BY <1>13, <4>1
        <4>4. Q(k + 1) = <<>> \o <<>>
          BY <1>10, <1>14, <4>1
        <4>5. Q(k + 1) = <<>>
          BY <4>4
        <4>6. b \o <<>> = b
          BY <1>17, ConcatEmptySeq
        <4> QED
          BY <4>2, <4>3, <4>5, <4>6, Zenon
      <3> QED
        BY <3>1, <3>2
    <2> HIDE DEF R
    <2>3. R = Nat
      <3>1. R \in SUBSET Nat
        BY DEF R
      <3> QED
        BY <2>1, <2>2, <3>1, SetInduction
    <2> QED
      BY <2>3 DEF R
  <1>21. h[t] = b \o Put(edits, F, S, t)
    <2>1. CASE f = t
      <3>1. Put(edits, F, S, t) = <<>>
        BY <1>1, <1>10, <2>1
      <3>2. b \o <<>> = b
        BY <1>17, ConcatEmptySeq
      <3> QED
        BY <1>18, <2>1, <3>1, <3>2, Zenon
    <2>2. CASE f # t
      <3>1. t - 1 \in Nat /\ ~(t - 1 < f) /\ ~(t - 1 >= t) /\ t \in f + 1..t /\ t \in 1..l
        BY <1>1, <2>2
      <3>2. h[t - 1] = b
        BY <1>20, <3>1
      <3>3. h[t] = h[t - 1] \o Q(t) /\ Q(t) = <<>> \o Put(edits, F, S, t)
        BY <1>13, <1>14, <3>1
      <3>4. <<>> \o Put(edits, F, S, t) = Put(edits, F, S, t)
        BY <1>11, ConcatEmptySeq
      <3> QED
        BY <3>2, <3>3, <3>4, Zenon
    <2> QED
      BY <2>1, <2>2
  <1>22. Alike(g[t], h[t], a, b, U)
    BY <1>11, <1>19, <1>21, Zenon DEF Alike
  <1>23. Alike(g[l], h[l], a, b, U)
    <2> DEFINE R == {k \in Nat : k < t \/ k > l \/ Alike(g[k], h[k], a, b, U)}
    <2>1. 0 \in R
      BY <1>1, <1>22
    <2>2. ASSUME NEW k \in R
          PROVE  k + 1 \in R
      <3> SUFFICES ASSUME k + 1 >= t, k + 1 <= l
                   PROVE  Alike(g[k + 1], h[k + 1], a, b, U)
        BY <1>1
      <3>1. CASE k + 1 = t
        BY <3>1, <1>22
      <3>2. CASE k + 1 # t
        <4>1. k >= t /\ k \in Nat /\ k + 1 \in t + 1..l /\ k + 1 \in 1..l /\ (k + 1) - 1 = k
              /\ k + 1 \in 0..l /\ ~(k < t) /\ ~(k > l)
          BY <1>1, <3>2
        <4>2. Alike(g[k], h[k], a, b, U)
          BY <4>1
        <4>3. g[k + 1] = g[k] \o P(k + 1) /\ h[k + 1] = h[k] \o P(k + 1) /\ P(k + 1) \in Seq(U)
          BY <1>12, <1>13, <1>15, <4>1
        <4>4. g[k + 1] = Joined(g[k], P(k + 1)) /\ h[k + 1] = Joined(h[k], P(k + 1))
          BY <4>3, Zenon DEF Joined
        <4>5. a \in Seq(U) /\ b \in Seq(U) /\ P(k + 1) \in Seq(U)
          BY <1>16, <1>17, <4>3, Zenon
        <4> QED
          BY <4>2, <4>4, <4>5, AlikeGrows
      <3> QED
        BY <3>1, <3>2
    <2>3. R = Nat
      <3> HIDE DEF R
      <3>1. R \in SUBSET Nat
        BY DEF R
      <3> QED
        BY <2>1, <2>2, <3>1, SetInduction
    <2>4. l \in R /\ ~(l < t) /\ ~(l > l)
      BY <1>1, <2>3
    <2> QED
      BY <2>4
  <1>24. h[l] = Spliced(g[l], f, t, new) /\ Len(g[l]) \in Nat /\ Len(g[l]) >= t
    <2>1. Alike(g[l], h[l], Upto(text, t), NewUpto(text, f, new), U)
      BY <1>23 DEF a, b
    <2> QED
      BY <1>2, <2>1, AlikeIsSplice
  <1> QED
    BY <1>3, <1>4, <1>24

\* With all the edits the whole is the text with every edit made at once.
LEMMA WholeIsAllAtOnce ==
  ASSUME NEW U, NEW text \in Seq(U), NEW edits \in Seq(TextEditsOf(U)), NEW F, NEW T, Placed(text, edits, F, T)
  PROVE  Whole(text, edits, F, T, 1..Len(edits)) = AllAtOnce(text, edits)
  <1> DEFINE n == Len(edits)
             l == Len(text)
             S == 1..n
             here(k) == {e \in ToSet(edits) : At(text, e.from) = k}
             kept(k) == k > 0 /\ \A e \in ToSet(edits) : k \notin At(text, e.from) + 1..At(text, e.to)
             put(k) == IF here(k) = {} THEN <<>> ELSE (CHOOSE e \in here(k) : TRUE).new
             piece(k) == (IF kept(k) THEN <<text[k]>> ELSE <<>>) \o put(k)
  <1>1. DOMAIN edits = S
    BY LenProperties
  <1>2. \A e : e \in ToSet(edits) <=> \E i \in S : e = edits[i]
    BY <1>1 DEF ToSet
  <1>3. /\ \A i \in S : F[i] = At(text, edits[i].from) /\ T[i] = At(text, edits[i].to)
        /\ \A i, j \in S : i # j => F[i] # F[j]
    BY DEF Placed
  <1> HIDE DEF S
  <1>4. \A k : kept(k) <=> k > 0 /\ \A i \in S : k \notin F[i] + 1..T[i]
    <2> TAKE k
    <2>1. (\A e \in ToSet(edits) : k \notin At(text, e.from) + 1..At(text, e.to))
            <=> \A i \in S : k \notin At(text, edits[i].from) + 1..At(text, edits[i].to)
      BY <1>2
    <2>2. (\A i \in S : k \notin At(text, edits[i].from) + 1..At(text, edits[i].to))
            <=> \A i \in S : k \notin F[i] + 1..T[i]
      BY <1>3
    <2> QED
      BY <2>1, <2>2
  <1>5. \A k : put(k) = Put(edits, F, S, k)
    <2> TAKE k
    <2> DEFINE at == {i \in S : F[i] = k}
    <2>1. Put(edits, F, S, k) = NewOf(edits, at)
      BY DEF Put
    <2>2. CASE at = {}
      <3>1. here(k) = {}
        BY <1>2, <1>3, <2>2
      <3> QED
        BY <2>1, <2>2, <3>1, Zenon DEF NewOf
    <2>3. CASE at # {}
      <3>1. PICK i \in S : F[i] = k
        BY <2>3
      <3>2. at = {i}
        BY <1>3, <3>1
      <3>3. here(k) = {edits[i]}
        BY <1>2, <1>3, <3>1
      <3>4. (CHOOSE j \in {i} : TRUE) = i /\ (CHOOSE e \in {edits[i]} : TRUE) = edits[i]
        OBVIOUS
      <3>5. put(k) = edits[i].new
        BY <3>3, <3>4
      <3>6. NewOf(edits, {i}) = edits[i].new
        BY <3>4 DEF NewOf
      <3> QED
        BY <2>1, <3>2, <3>5, <3>6, Zenon
    <2> QED
      BY <2>2, <2>3
  <1> HIDE DEF kept, put
  <1>6. \A k : piece(k) = Piece(text, edits, F, T, S, k)
    <2> TAKE k
    <2> QED
      BY <1>4, <1>5, Zenon DEF Piece
  <1>7. AllAtOnce(text, edits) = FlattenSeq([i \in 1..l + 1 |-> piece(i - 1)])
    BY Zenon DEF AllAtOnce, kept, put
  <1> HIDE DEF piece
  <1>8. [i \in 1..l + 1 |-> piece(i - 1)] = [i \in 1..l + 1 |-> Piece(text, edits, F, T, S, i - 1)]
    BY <1>6
  <1> QED
    BY <1>7, <1>8, Zenon DEF Whole, S

\* Edits that fit have the effect they would have all at once.
LEMMA EditsAlwaysAtOnce ==
  ASSUME NEW U, NEW text \in Seq(U), NEW edits \in Seq(TextEditsOf(U)), Fits(text, edits), None \notin Nat
  PROVE  apply_text_edits(text, edits) = AllAtOnce(text, edits)
  <1> DEFINE n == Len(edits)
             o == Order(edits)
             D(m) == {o[i] : i \in 1..m}
             list == [i \in DOMAIN edits |-> edits[o[i]]]
  <1>1. n \in Nat /\ DOMAIN edits = 1..n
    BY LenProperties
  <1>2. /\ \A i \in 1..n : o[i] \in 1..n
        /\ \A x \in 1..n : \E i \in 1..n : o[i] = x
        /\ \A i, j \in 1..n : i < j => Descending(edits, o[i], o[j])
    BY OrderSorts
  <1>3. PICK F, T : Placed(text, edits, F, T)
    BY EditPlaces
  <1>4. PICK g : /\ g[0] = text
                 /\ \A k \in 0..n - 1 : g[k + 1] = Applied(text, g[k], list[k + 1])
                 /\ apply_text_edits(text, edits) = g[n]
    <2>1. \E h : IsEditTrace(h, text, edits, n)
      BY <1>1, EditTrace
    <2> QED
      BY <2>1, Zenon DEF IsEditTrace, list, o
  <1>5. \A i \in 1..n : edits[i].from \in Places
    <2>1. \A i \in 1..n : edits[i] \in TextEditsOf(U)
      BY ElementOfSeq
    <2> QED
      BY <2>1 DEF TextEditsOf
  <1>6. \A k \in 0..n - 1 : list[k + 1] = edits[o[k + 1]]
    BY <1>1
  <1> HIDE DEF o, n, list
  <1>7. \A i, j \in 1..n : i < j => o[i] # o[j]
    <2> SUFFICES ASSUME NEW i \in 1..n, NEW j \in 1..n, i < j, o[i] = o[j]
                 PROVE  FALSE
      OBVIOUS
    <2>1. o[i] \in 1..n /\ Descending(edits, o[i], o[i])
      BY <1>2
    <2>2. ~(o[i] < o[i])
      BY <1>1, <2>1
    <2> QED
      BY <1>5, <2>1, <2>2, PlacesOrdered DEF Descending
  <1> DEFINE R == {m \in Nat : m > n \/ g[m] = Whole(text, edits, F, T, D(m))}
  <1>8. 0 \in R
    <2>1. D(0) = {}
      OBVIOUS
    <2>2. Whole(text, edits, F, T, D(0)) = text
      BY <2>1, WholeOfNone
    <2> QED
      BY <1>4, <2>2
  <1>9. ASSUME NEW m \in R
        PROVE  m + 1 \in R
    <2> SUFFICES ASSUME m + 1 <= n
                 PROVE  g[m + 1] = Whole(text, edits, F, T, D(m + 1))
      BY <1>1
    <2> DEFINE e == o[m + 1]
               S == D(m)
               V == D(m + 1)
               f == F[e]
               t == T[e]
               out == Whole(text, edits, F, T, S)
    <2>1. m \in Nat /\ ~(m > n) /\ m \in 0..n - 1 /\ m + 1 \in 1..n /\ \A i \in 1..m : i \in 1..n /\ i < m + 1
      BY <1>1
    <2>2. g[m] = out
      BY <2>1
    <2>3. e \in 1..n /\ S \in SUBSET (1..n) /\ V = S \cup {e} /\ e \notin S
      <3>1. e \in 1..n
        BY <1>2, <2>1
      <3>2. \A i \in 1..m : o[i] \in 1..n /\ o[i] # o[m + 1]
        BY <1>2, <1>7, <2>1
      <3>3. \A i : i \in 1..m + 1 <=> i \in 1..m \/ i = m + 1
        BY <2>1
      <3> QED
        BY <3>1, <3>2, <3>3
    <2>4. /\ f \in 0..Len(text) /\ t \in f..Len(text) /\ f = byte_offset(text, edits[e].from)
          /\ t = byte_offset(text, edits[e].to)
      BY <1>3, <2>3 DEF Placed, n
    <2>5. StartBehind(F, S, f, t)
      <3> SUFFICES \A i \in S : F[i] \in Nat /\ F[i] # f /\ F[i] >= t
        BY DEF StartBehind
      <3> TAKE i \in S
      <3>1. PICK j \in 1..m : i = o[j]
        OBVIOUS
      <3>2. i \in 1..n /\ i # e /\ Descending(edits, i, e)
        BY <1>2, <2>1, <2>3, <3>1
      <3>3. F[i] \in 0..Len(text)
        BY <1>3, <3>2 DEF Placed, n
      <3>4. F[i] # F[e] /\ F[i] >= T[e]
        BY <1>3, <2>3, <3>2 DEF Placed, n
      <3> QED
        BY <3>3, <3>4
    <2>6. g[m + 1] = Applied(text, g[m], edits[e])
      BY <1>4, <1>6, <2>1
    <2>7. /\ f \in Nat /\ t \in Nat /\ f <= t /\ t \in 0..Len(text) /\ f \in 0..t
      BY <2>4, LenProperties
    <2> HIDE DEF e, S, V, f, t, D, R
    <2>8. Whole(text, edits, F, T, V) = Spliced(out, f, t, edits[e].new) /\ Len(out) \in Nat /\ Len(out) >= t
      <3>1. e \in 1..Len(edits) /\ S \in SUBSET (1..Len(edits))
        BY <2>3 DEF n
      <3>2. F[e] = f /\ T[e] = t /\ out = Whole(text, edits, F, T, S)
        BY DEF f, t
      <3> DEFINE new == edits[e].new
      <3>3. edits[e].new = new
        OBVIOUS
      <3> HIDE DEF out, new
      <3>4. Whole(text, edits, F, T, V) = Spliced(out, f, t, new) /\ Len(out) \in Nat /\ Len(out) >= t
        BY <2>3, <2>5, <2>7, <3>1, <3>2, <3>3, FirstEditLast
      <3> QED
        BY <3>4 DEF new
    <2>9. Applied(text, out, edits[e]) = Spliced(out, f, t, edits[e].new)
      <3>1. f # None /\ t # None /\ ~(f > t) /\ ~(t > Len(out))
        BY <2>7, <2>8
      <3> HIDE DEF out
      <3> QED
        BY <2>4, <3>1, Zenon DEF Applied
    <2> QED
      BY <2>2, <2>6, <2>8, <2>9, Zenon DEF V
  <1>10. R = Nat
    <2> HIDE DEF R
    <2>1. R \in SUBSET Nat
      BY DEF R
    <2> QED
      BY <1>8, <1>9, <2>1, SetInduction
  <1>11. g[n] = Whole(text, edits, F, T, D(n))
    <2>1. \A m \in R : m > n \/ g[m] = Whole(text, edits, F, T, D(m))
      OBVIOUS
    <2>2. n \in Nat /\ ~(n > n)
      BY <1>1
    <2> HIDE DEF R, D
    <2> QED
      BY <1>10, <2>1, <2>2
  <1>12. D(n) = 1..n
    BY <1>2
  <1> QED
    <2>1. Whole(text, edits, F, T, 1..Len(edits)) = AllAtOnce(text, edits)
      BY <1>3, WholeIsAllAtOnce
    <2> QED
      BY <1>4, <1>11, <1>12, <2>1, Zenon DEF n

-----------------------------------------------------------------------------
\* The texts with edits, the outlines with positions and the diagnostics before and after
\* that the tools are given, of any characters, severities and messages.
EditInputs(U)   == [of : {"edits"}, text : Seq(U), edits : Seq(TextEditsOf(U))]
OutlineInputs   == [of : {"outline"}, outline : OutlinesOf, position : Places]
ReportInputs(U) == [of : {"report"}, before : Seq(Snapshots(U)), after : Seq(Snapshots(U))]

\* For every text, list of edits, outline and pair of diagnostics, of any lengths:
\* apply_text_edits has the effect of all its edits at once, splice_range leaves the lines
\* around its range as they are, find_enclosing_symbol finds the innermost symbol, and the
\* report of an edit hides no error.
THEOREM EditsAlwaysExact ==
  ASSUME NEW U, None \notin Nat, input \in EditInputs(U) \cup OutlineInputs \cup ReportInputs(U)
  PROVE  EditsAreExact
  <1>1. CASE input \in EditInputs(U)
    <2>1. input.of = "edits" /\ input.text \in Seq(U) /\ input.edits \in Seq(TextEditsOf(U))
      BY <1>1 DEF EditInputs
    <2>2. ~Is("outline") /\ ~Is("report")
      BY <2>1 DEF Is
    <2>3. SpliceKeepsOtherLines
      BY <1>1, SplicesAlwaysKeepLines DEF EditInputs
    <2>4. EditsAllAtOnce
      BY <2>1, EditsAlwaysAtOnce DEF EditsAllAtOnce
    <2> QED
      BY <2>2, <2>3, <2>4, Zenon DEF EditsAreExact, InnermostIsFound, ReportHidesNothing
  <1>2. CASE input \in OutlineInputs
    <2>1. ~Is("edits") /\ ~Is("report")
      BY <1>2 DEF OutlineInputs, Is
    <2>2. InnermostIsFound
      BY <1>2, InnermostAlwaysFound DEF OutlineInputs
    <2> QED
      BY <2>1, <2>2, Zenon DEF EditsAreExact, EditsAllAtOnce, SpliceKeepsOtherLines, ReportHidesNothing
  <1>3. CASE input \in ReportInputs(U)
    <2>1. ~Is("edits") /\ ~Is("outline")
      BY <1>3 DEF ReportInputs, Is
    <2>2. ReportHidesNothing
      BY <1>3, ReportsAlwaysHonest DEF ReportInputs
    <2> QED
      BY <2>1, <2>2, Zenon DEF EditsAreExact, EditsAllAtOnce, SpliceKeepsOtherLines, InnermostIsFound
  <1> QED
    BY <1>1, <1>2, <1>3
=============================================================================
