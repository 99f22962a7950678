---------------------------- MODULE MCFunctions ----------------------------
(***************************************************************************)
(* Small inputs for the functions that keep no state, for TLC: every input *)
(* is an initial state, and nothing happens to it.                         *)
(***************************************************************************)
EXTENDS ScipQueries, TextEdits, BuildOutput

-----------------------------------------------------------------------------
(* Indexes of two documents, a source file and a test file *)

Symbol(id, name) == [id |-> id, name |-> name, kind |-> id]
Occurrences == [sym : {"f", "t"}, line : 0..2, def : BOOLEAN]
Described == {<<Symbol("f", None), Symbol("t", "test_t")>>, <<Symbol("t", None)>>, <<Symbol("f", None)>>, <<>>}
Sources == [path : {"src"}, symbols : Described, occs : BoundedSeq(Occurrences, 2)]
TestFile == [path |-> "tests", symbols |-> <<Symbol("u", "u"), Symbol("t", None)>>,
             occs |-> <<[sym |-> "u", line |-> 0, def |-> TRUE], [sym |-> "f", line |-> 1, def |-> FALSE],
                        [sym |-> "f", line |-> 2, def |-> FALSE], [sym |-> "t", line |-> 1, def |-> TRUE]>>]
Indexes == {<<s>> : s \in Sources} \cup {<<s, TestFile>> : s \in Sources}

FileStates == [ignored : BOOLEAN, staged : BOOLEAN, working : BOOLEAN]
Changes(p) == {[path |-> p, ignored |-> f.ignored, staged |-> f.staged, working |-> f.working] : f \in FileStates}

ScipInputs == [of : {"scip"}, index : Indexes, ids : {{"f", "t", "u"}}]
TestInputs == [of : {"tests"}, index : {<<s, TestFile>> : s \in {t \in Sources : Len(t.occs) < 2}},
               files : {<<a, b>> : a \in Changes("src"), b \in Changes("tests")}]

\* A file of two definitions, and an index that tells where they start and who
\* calls them.
DeleteInputs ==
  {[of |-> "delete", index |-> <<[path |-> "src", symbols |-> <<>>, occs |->
       <<[sym |-> "f", line |-> a, def |-> TRUE], [sym |-> "t", line |-> b, def |-> TRUE],
         [sym |-> c, line |-> l, def |-> FALSE]>>]>>,
    live |-> {[id |-> "f", from |-> a, to |-> ae], [id |-> "t", from |-> b, to |-> be]}] :
     <<a, ae, b, be, c, l>> \in {v \in (0..3) \X (0..3) \X (0..3) \X (0..3) \X {"f", "t"} \X (0..3) :
        v[1] <= v[2] /\ v[3] <= v[4] /\ (v[2] < v[3] \/ v[4] < v[1])}}

-----------------------------------------------------------------------------
(* Texts, outlines and diagnostics for the edit tools *)

Texts == {<<>>, <<"a", "b">>, <<"wide", "b", "nl", "c">>, <<"a", "nl", "wide", "nl">>, <<"nl", "a", "b">>}
Positions == {<<0, 0>>, <<0, 1>>, <<0, 2>>, <<0, 3>>, <<1, 0>>, <<1, 1>>, <<1, 2>>, <<2, 0>>}
Edits == [from : Positions, to : Positions, new : {<<>>, <<"x">>}]
FewEdits == [from : {<<0, 0>>, <<0, 2>>, <<1, 1>>}, to : {<<0, 2>>, <<1, 1>>, <<2, 0>>}, new : {<<"y", "nl">>}]
EditInputs == [of : {"edits"}, text : Texts,
               edits : {<<e>> : e \in Edits} \cup {<<e, f>> : e \in Edits, f \in FewEdits}
                       \cup {<<f, e>> : e \in Edits, f \in FewEdits}]

\* Outlines of up to five symbols: one after another, touching or one within another.
Outline(parent, from, to) == [parent |-> parent, range |-> <<from, to>>, selection |-> <<from, from>>]
Inside(n) == {<<>>, <<Outline(n, <<1, 1>>, <<1, 3>>)>>,
              <<Outline(n, <<1, 1>>, <<1, 3>>), Outline(n, <<2, 0>>, <<3, 0>>), Outline(n + 2, <<2, 2>>, <<2, 2>>)>>,
              <<Outline(n, <<2, 1>>, <<3, 1>>), Outline(n, <<1, 2>>, <<2, 1>>)>>}
Outlines == {<<Outline(0, <<1, 0>>, <<3, 1>>)>> \o l : l \in Inside(1)}
            \cup {<<Outline(0, <<0, 0>>, <<0, 2>>), Outline(0, <<1, 0>>, <<3, 1>>)>> \o l : l \in Inside(2)} \cup {<<>>}
OutlineInputs == [of : {"outline"}, outline : Outlines, position : (0..4) \X (0..4)]

Diagnostics == [line : 1..2, severity : {"Error", "Warning"}, message : {"m"}]
Reports == UNION {{s \in [1..n -> Diagnostics] : IsInjective(s)} : n \in 0..3}
ReportInputs == [of : {"report"}, before : Reports, after : Reports]

-----------------------------------------------------------------------------
(* Roots, paths and build output for the language plugins                  *)

Roots == {{"Cargo.toml"}, {"package.json"}, {"Cargo.toml", "package.json", ".clangd"}, {"pom.xml", "build.gradle"},
          {"setup.py", "go.mod"}, {"go.mod", "CMakeLists.txt"}, {"meson.build"}, {}}
Bins == {[files |-> {}, manifest |-> <<>>],
         [files |-> {"codelldb", "tsserver.js"}, manifest |-> "codelldb" :> "v0" @@ "typescript" :> "v1"],
         [files |-> {"jdtls"}, manifest |-> "jdtls" :> "v1" @@ "clangd" :> "v1" @@ "rust-analyzer" :> "v1"]}
Worlds == [triple : Every, unreachable : {{}, {"typescript", "lombok"}, {"clangd", "scip-go", "rust-analyzer"}},
           lacking : {{}, {"lib/cli.mjs", "config"}, {"lib/tsserver.js", "index.js", "extension/adapter/codelldb"}}]
SetupInputs == [of : {"setup"}, files : Roots, bin : Bins, world : Worlds, path : {{}, {"codelldb"}}]

PathDirs == {<<>>, <<"src">>, <<"src", "bin">>, <<"tests">>, <<"src", "Test", "java">>, <<"__tests__">>, <<"bin">>, <<"cmd", "a">>,
             <<"scripts">>, <<"examples", "src">>, <<"benches">>}
Stems == {<<"main">>, <<"__main__">>, <<"a">>, <<"test", "_", "a">>, <<"a", "_", "test", "s">>, <<"a", "Test">>,
          <<"a", "IT">>, <<"un", "it">>, <<"a", ".", "spec">>}
PathInputs == [of : {"path"}, plugin : {builtin[i].id : i \in DOMAIN builtin},
               path : [dirs : PathDirs, stem : Stems, ext : {"rs", "py", "ts", "go", "cpp", "java"}]]

\* Diagnostics as each tool has them: cargo, Maven and tsc with a column, javac and
\* mypy without one, go with neither level nor code.
Messages == {<<"m">>, <<"m", ":", "sp", "m", "sp", ".c", ":", "1", ":", "2", ":", "sp", "error", ":", "m">>, <<"1", "sp", "(", "m", "]", ")">>}
Level == {"error", "warning"}
KnownDiagnostics ==
  {"Cargo.toml"} :> [level : Level, code : {None, "E1"}, file : {".rs"}, line : {"2"}, column : {"1", "2"}, message : Messages]
  @@ {"pom.xml"} :> [level : Level, code : {None}, file : {".java"}, line : {"1"}, column : {"1", "2"}, message : Messages]
  @@ {"build.gradle"} :> [level : Level, code : {None}, file : {".java"}, line : {"1", "2"}, column : {None}, message : Messages]
  @@ {"package.json"} :> ([level : Level, code : {"TS1"}, file : {".ts"}, line : {"1"}, column : {"1", "2"}, message : Messages]
                          \cup [level : Level, code : {None}, file : {".ts"}, line : {"1"}, column : {"2"}, message : {<<"m">>}])
  @@ {"setup.py"} :> [level : Level, code : {None}, file : {".py"}, line : {"1", "2"}, column : {None}, message : Messages]
  @@ {"go.mod"} :> [level : {"error"}, code : {None}, file : {".go"}, line : {"1"}, column : {None, "2"}, message : Messages]
  @@ {"meson.build"} :> [level : Level \cup {"note"}, code : {None}, file : {".c", ".h"}, line : {"1"}, column : {None, "2"}, message : Messages]

Noise == {[noise |-> TRUE, text |-> t] : t \in
  {<<>>, <<"m", "sp", ".c", ":", "1", ":", "2", ":", "sp", "error", ":", "sp", "m">>, <<".go", ":", "sp", "m">>,
   <<".c", ":", "1", ":", "sp", "error", ":">>, <<"[ERROR]", "sp", "m", "sp", ".java", ":", "[", "1", ",", "2", "]", "sp", "m">>,
   <<".py", ":", "1", ":", "sp", "in", "sp", "m">>, <<".ts", "(", "m", ")", ":", "sp", "error", "sp", "m">>}}
Items(root) == Noise \cup {[noise |-> FALSE, d |-> d] : d \in KnownDiagnostics[root]}
BuildInputs ==
  UNION {[of : {"build"}, files : {root}, tool : {"run"}, filter : {None}, extra : {<<"--", "x">>},
          stdout : {<<a, b>> : a \in Items(root), b \in Items(root)}, stderr : {<<>>}]
         \cup [of : {"build"}, files : {root}, tool : {"test"}, filter : {None, "f"}, extra : {<<>>, <<"--", "x">>},
               stdout : {<<a>> : a \in Items(root)}, stderr : {<<>>} \cup {<<a>> : a \in Noise}]
         \cup [of : {"build"}, files : {root}, tool : {"test"}, filter : {None}, extra : {<<>>},
               stdout : {<<a>> : a \in Items(root)}, stderr : {<<a>> : a \in Items(root)}]
         : root \in DOMAIN KnownDiagnostics}

TracebackLines == {Text(t) : t \in
  {<<"sp", "File", ".py", "line", "1", "sp", "in", "sp", "m">>, <<"File", ".py", "line", "2">>, <<"sp", "m", "sp", "m">>,
   <<"sp">>, <<"File", ".py">>, <<"ValueError", ":", "sp", "m">>, <<"m", "sp", "ValueError">>, <<"Exception">>, <<"During", "sp", "Exception", ":">>}}
TracebackInputs == [of : {"traceback"}, lines : BoundedSeq(TracebackLines, 5)]

Init ==
  \/ input \in ScipInputs \/ input \in TestInputs \/ input \in DeleteInputs
  \/ input \in EditInputs \/ input \in OutlineInputs \/ input \in ReportInputs
  \/ input \in SetupInputs \/ input \in PathInputs \/ input \in BuildInputs \/ input \in TracebackInputs

Next == UNCHANGED input

Spec == Init /\ [][Next]_input
=============================================================================
