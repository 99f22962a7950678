---------------------------- MODULE ScipQueries ----------------------------
(***************************************************************************)
(* Queries of a SCIP index (crates/aide-scip/src/lib.rs) and the tools     *)
(* that answer from them.  An index is a sequence of documents; a document *)
(* has a path, the symbols it describes and the occurrences of symbols in  *)
(* its lines.  A name of None is an empty display name.                    *)
(***************************************************************************)
EXTENDS Inputs

CONSTANTS TestPaths, TestNames   \* what the language plugin takes for tests

DocumentAt(index, path) == First(index, LAMBDA d : d.path = path)
DisplayName(s) == IF s.name = None THEN s.id ELSE s.name

-----------------------------------------------------------------------------
(* Enclosing definitions *)

\* Mutant: of two definitions on one line the first counts, and a definition does
\* not enclose its own line.
EnclosingBefore(doc, line) ==
  LET before == {i \in DOMAIN doc.occs : doc.occs[i].def /\ doc.occs[i].line < line} IN
  IF before = {} THEN None
  ELSE doc.occs[Max({i \in before : \A j \in before : doc.occs[j].line <= doc.occs[i].line})].sym

\* The definition that starts last at or before the line; of several on one line
\* the last one listed.
EnclosingId(doc, line) ==
  LET before == {i \in DOMAIN doc.occs : doc.occs[i].def /\ doc.occs[i].line <= line} IN
  IF before = {} THEN None
  ELSE doc.occs[Max({i \in before : \A j \in before : doc.occs[j].line <= doc.occs[i].line})].sym

SymbolInfo(doc, id) == First(doc.symbols, LAMBDA s : s.id = id)

DefinitionLine(doc, id) ==
  LET occ == First(doc.occs, LAMBDA o : o.sym = id /\ o.def) IN
  IF occ = None THEN None ELSE occ.line

\* A name for the line: the symbol's, or its id when nothing describes it.
enclosing_definition(index, path, line) ==
  LET doc == DocumentAt(index, path)
      id  == IF doc = None THEN None ELSE EnclosingId(doc, line) IN
  IF id = None THEN None
  ELSE IF SymbolInfo(doc, id) = None THEN id ELSE DisplayName(SymbolInfo(doc, id))

Located(doc, s) == [symbol |-> s.id, name |-> DisplayName(s), kind |-> s.kind, path |-> doc.path,
                    line |-> DefinitionLine(doc, s.id)]

-----------------------------------------------------------------------------
(* References and callers *)

references(index, id) ==
  FlattenSeq([i \in DOMAIN index |->
    LET occs == Kept(index[i].occs, LAMBDA o : o.sym = id) IN
    [j \in DOMAIN occs |-> [path |-> index[i].path, line |-> occs[j].line, def |-> occs[j].def]]])

callers(index, id) == Kept(references(index, id), LAMBDA r : ~r.def)

\* Each definition that encloses a call, once per document, if it is described.
enclosing_defs_of_callers(index, id) ==
  FlattenSeq([i \in DOMAIN index |->
    LET doc   == index[i]
        calls == Kept(doc.occs, LAMBDA o : o.sym = id /\ ~o.def)
        ids   == Distinct(Mapped(calls, LAMBDA o : EnclosingId(doc, o.line)))
        infos == Mapped(ids, LAMBDA e : SymbolInfo(doc, e)) IN
    [j \in DOMAIN infos |-> Located(doc, infos[j])]])

\* The symbols that the document describes.
defs_in_path(index, path) ==
  LET doc == DocumentAt(index, path) IN
  IF doc = None THEN <<>> ELSE [j \in DOMAIN doc.symbols |-> Located(doc, doc.symbols[j])]

-----------------------------------------------------------------------------
(* Tools *)

is_test_symbol(s) == s.path \in TestPaths \/ s.name \in TestNames

IsChanged(f) == ~f.ignored /\ (f.staged \/ f.working)

\* Tests in the changed files, then tests that call what is defined there; a
\* symbol id counts once.
tests_for_changed_files(index, files) ==
  LET changed == Kept(files, IsChanged)
      defs    == FlattenSeq([i \in DOMAIN changed |-> defs_in_path(index, changed[i].path)])
      callees == FlattenSeq([i \in DOMAIN defs |-> enclosing_defs_of_callers(index, defs[i].symbol)])
      tests   == Kept(defs \o callees, is_test_symbol) IN
  Firsts(tests, LAMBDA t : t.symbol)

\* safe_delete_symbol: what the check before the deletion says.  index is None
\* when the repository has no Ready one.
Preflight(index, path, line, force) ==
  IF force THEN "delete"
  ELSE IF index = None THEN "refused"
  ELSE LET doc == DocumentAt(index, path)
           id  == IF doc = None THEN None ELSE EnclosingId(doc, line) IN
       IF id = None THEN "error" ELSE IF callers(index, id) = <<>> THEN "delete" ELSE "refused"

\* The line of the index: grep, cargo and the other build tools count from one,
\* the language server from zero.
IndexLine(kind, line) ==
  IF kind \in {"grep", "build"} THEN IF line = 0 THEN 0 ELSE line - 1 ELSE line

Annotation(index, kind, path, line) == enclosing_definition(index, path, IndexLine(kind, line))

-----------------------------------------------------------------------------
(* Properties *)

\* No definition of the document starts after line `from` and up to line `to`.
NoneBetween(doc, from, to) == ~\E o \in ToSet(doc.occs) : o.def /\ from < o.line /\ o.line <= to

\* A call of the symbol stands in the lines from definition d to the next.
CallIn(doc, d, id) ==
  \E o \in ToSet(doc.occs) : o.sym = id /\ ~o.def /\ d.line <= o.line /\ NoneBetween(doc, d.line, o.line)

\* No other definition starts on the line of d.
AloneOnLine(doc, d) == \A o \in ToSet(doc.occs) : o.def /\ o.line = d.line => o = d

\* "Which functions call this symbol" leaves out no call and no caller twice: a
\* caller is listed exactly if it is described and a call stands in the lines from
\* its definition to the next.
CallersExact ==
  Is("scip") => \A id \in input.ids :
    LET found == enclosing_defs_of_callers(input.index, id) IN
    /\ IsInjective(found)
    /\ \A doc \in ToSet(input.index) :
         \A d \in {o \in ToSet(doc.occs) : o.def} : \A s \in ToSet(doc.symbols) :
           s.id = d.sym /\ AloneOnLine(doc, d) /\ CallIn(doc, d, id) =>
             \E f \in ToSet(found) : f.symbol = d.sym /\ f.path = doc.path
    /\ \A f \in ToSet(found) : \E doc \in ToSet(input.index) : \E d \in ToSet(doc.occs) :
         doc.path = f.path /\ d.def /\ d.sym = f.symbol /\ CallIn(doc, d, id)

\* After a change no test is left out and none is run for nothing, told from the
\* occurrences: a test that a document describes is listed exactly if the file of the
\* document differs from HEAD (in the index or in the work tree) or the lines from its
\* definition to the next call a symbol described in such a file; each test once.
TestsExact ==
  Is("tests") =>
    LET found   == tests_for_changed_files(input.index, input.files)
        docs    == ToSet(input.index)
        changed == {doc \in docs : \E f \in ToSet(input.files) :
                      f.path = doc.path /\ ~f.ignored /\ (f.staged \/ f.working)}
        ids     == {s.id : s \in UNION {ToSet(doc.symbols) : doc \in changed}}
        IsTest(doc, s)      == doc.path \in TestPaths \/ DisplayName(s) \in TestNames
        CallsChange(doc, d) == \E id \in ids : CallIn(doc, d, id) IN
    /\ \A i, j \in DOMAIN found : found[i].symbol = found[j].symbol => i = j
    /\ \A doc \in docs : \A s \in {r \in ToSet(doc.symbols) : IsTest(doc, r)} :
         \/ doc \in changed
         \/ s = SymbolInfo(doc, s.id) /\ \E d \in ToSet(doc.occs) :
              d.def /\ d.sym = s.id /\ AloneOnLine(doc, d) /\ CallsChange(doc, d)
         => \E t \in ToSet(found) : t.symbol = s.id
    /\ \A t \in ToSet(found) : \E doc \in docs : \E s \in ToSet(doc.symbols) :
         /\ doc.path = t.path /\ s.id = t.symbol /\ IsTest(doc, s)
         /\ \/ doc \in changed
            \/ \E d \in ToSet(doc.occs) : d.def /\ d.sym = s.id /\ CallsChange(doc, d)

\* A symbol that the language server finds at a line is judged by the check before
\* its deletion, provided the index is of the present text and no definition lies
\* within another: what is deleted without force has no call left.
DeletedIsUncalled ==
  Is("delete") =>
    LET doc == input.index[1] IN
    \A d \in input.live : \A line \in d.from..d.to :
      Preflight(input.index, doc.path, line, FALSE) = "delete" => callers(input.index, d.id) = <<>>

\* A message at the line on which a described definition starts is annotated with
\* the name of that definition, whichever tool it comes from and however it counts
\* lines.
AnnotationFits ==
  Is("scip") => \A doc \in ToSet(input.index) : \A d \in {o \in ToSet(doc.occs) : o.def} :
    /\ \A o \in ToSet(doc.occs) : o.def /\ o.line = d.line => o.sym = d.sym
    /\ SymbolInfo(doc, d.sym) # None
    => \A kind \in {"grep", "build", "published", "location"} :
         Annotation(input.index, kind, doc.path, IF kind \in {"grep", "build"} THEN d.line + 1 ELSE d.line)
           = DisplayName(SymbolInfo(doc, d.sym))

\* What the tools say about an index is exact: callers, tests to run, uncalled
\* symbols and annotations, each in the sense above.
AnswersAreExact == CallersExact /\ TestsExact /\ DeletedIsUncalled /\ AnnotationFits
=============================================================================
