----------------------------- MODULE Languages -----------------------------
(***************************************************************************)
(* The language plugins (crates/aide-lang): what each claims, starts and   *)
(* installs, and how it tells tests from other code.                       *)
(*                                                                         *)
(* A path is its directories, the pieces of its file name before the last  *)
(* dot, and its extension; a name is the sequence of its pieces.  Pieces   *)
(* and words are opaque, but for their case.                               *)
(***************************************************************************)
EXTENDS Inputs

-----------------------------------------------------------------------------
(* The tools that project_setup installs.  `entries` is what the archive   *)
(* has to hold for the link or the wrapper to be made ({} for a single     *)
(* file), `beside` what the wrapper reaches in the directory it lies in.   *)

Every == {"mac-arm", "mac-x64", "linux-arm", "linux-x64"}
Tool(name, version, executable, triples, entries) ==
  [name |-> name, version |-> version, executable |-> executable, triples |-> triples,
   entries |-> entries, beside |-> {}]

\* What the hooks look for in an archive, and what a wrapper reaches.
install_jdtls_wrapper == {"plugins/launcher.jar", "config"}
install_typescript_symlink == {"lib/tsserver.js"}
install_ts_language_server_wrapper == {"lib/cli.mjs"}
render_ts_language_server_wrapper == {"tsserver.js"}
install_scip_typescript_wrapper == {"dist/src/main.js"}
install_pyright_wrapper == {"langserver.index.js"}
install_scip_python_wrapper == {"index.js"}
install_clangd_symlink == {"bin/clangd"}

rust_analyzer == Tool("rust-analyzer", "v1", "rust-analyzer", Every, {})
codelldb      == Tool("codelldb", "v1", "codelldb", Every, {"extension/adapter/codelldb"})
jdtls         == Tool("jdtls", "v1", "jdtls", Every, install_jdtls_wrapper)
lombok        == Tool("lombok", "v1", "lombok.jar", Every, {})
typescript    == Tool("typescript", "v1", "tsserver.js", Every, install_typescript_symlink)
ts_language_server ==
  [Tool("typescript-language-server", "v1", "typescript-language-server", Every, install_ts_language_server_wrapper)
     EXCEPT !.beside = render_ts_language_server_wrapper]
scip_typescript == Tool("scip-typescript", "v1", "scip-typescript", Every, install_scip_typescript_wrapper)
pyright     == Tool("pyright", "v1", "pyright-langserver", Every, install_pyright_wrapper)
scip_python == Tool("scip-python", "v1", "scip-python", Every, install_scip_python_wrapper)
clangd      == Tool("clangd", "v1", "clangd", Every, install_clangd_symlink)
scip_clang  == Tool("scip-clang", "v1", "scip-clang", {"mac-arm", "linux-x64"}, {})
scip_go     == Tool("scip-go", "v1", "scip-go", Every \ {"mac-x64"}, {"scip-go"})

-----------------------------------------------------------------------------
(* The plugins: the files that mark a project, the programs a tool of the  *)
(* server starts for it, and the tools it installs.                        *)

Rust ==
  [id |-> "rust", markers |-> {"Cargo.toml"},
   lsp |-> "rust-analyzer", scip |-> "rust-analyzer", dap |-> "codelldb",
   add |-> <<"cargo", "add">>, run |-> <<"cargo", "run">>, test |-> <<"cargo", "test">>,
   structured |-> <<"--message-format">>, tools |-> <<rust_analyzer, codelldb>>]

JavaMaven ==
  [id |-> "java-maven", markers |-> {"pom.xml"},
   lsp |-> "jdtls", scip |-> "scip-java", dap |-> None,
   add |-> <<"mvn", "dependency:get">>, run |-> <<"mvn", "exec:java">>, test |-> <<"mvn", "test">>,
   structured |-> <<>>, tools |-> <<jdtls, lombok>>]

JavaGradle ==
  [id |-> "java-gradle", markers |-> {"build.gradle", "build.gradle.kts"},
   lsp |-> "jdtls", scip |-> "scip-java", dap |-> None,
   add |-> <<"gradle", "dependencies">>, run |-> <<"gradle", "run">>, test |-> <<"gradle", "test">>,
   structured |-> <<>>, tools |-> <<jdtls, lombok>>]

Node ==
  [id |-> "node", markers |-> {"package.json"},
   lsp |-> "typescript-language-server", scip |-> "scip-typescript", dap |-> None,
   add |-> <<"npm", "install">>, run |-> <<"npm", "start">>, test |-> <<"npm", "test">>,
   structured |-> <<>>, tools |-> <<typescript, ts_language_server, scip_typescript>>]

Python ==
  [id |-> "python", markers |-> {"pyproject.toml", "setup.py", "requirements.txt"},
   lsp |-> "pyright-langserver", scip |-> "scip-python", dap |-> None,
   add |-> <<"python3", "-m", "pip", "install">>, run |-> <<"python3">>, test |-> <<"python3", "-m", "pytest">>,
   structured |-> <<>>, tools |-> <<pyright, scip_python>>]

Go ==
  [id |-> "go", markers |-> {"go.mod"}, lsp |-> "gopls", scip |-> "scip-go", dap |-> None,
   add |-> <<"go", "get">>, run |-> <<"go", "run", "./...">>, test |-> <<"go", "test", "./...">>,
   structured |-> <<>>, tools |-> <<scip_go>>]

\* Mutant: a pin of its own for the debug adapter that the Rust plugin installs.
CppOwnAdapter ==
  [id |-> "cpp", markers |-> {"CMakeLists.txt", "compile_commands.json", "meson.build", ".clangd"},
   lsp |-> "clangd", scip |-> "scip-clang", dap |-> "codelldb",
   add |-> <<"vcpkg", "install">>, run |-> <<"cmake", "--build", "build">>,
   test |-> <<"ctest", "--test-dir", "build">>,
   structured |-> <<>>, tools |-> <<clangd, scip_clang, [codelldb EXCEPT !.version = "v2"]>>]

Cpp ==
  [id |-> "cpp", markers |-> {"CMakeLists.txt", "compile_commands.json", "meson.build", ".clangd"},
   lsp |-> "clangd", scip |-> "scip-clang", dap |-> "codelldb",
   add |-> <<"vcpkg", "install">>, run |-> <<"cmake", "--build", "build">>,
   test |-> <<"ctest", "--test-dir", "build">>,
   structured |-> <<>>, tools |-> <<clangd, scip_clang, codelldb>>]

builtin == <<Rust, JavaMaven, JavaGradle, Node, Python, Go, Cpp>>

\* All plugins that claim a root with these files; the tools that need one plugin
\* take the first.
detect(files) == Kept(builtin, LAMBDA p : p.markers \cap files # {})
plugin_for(files) == IF detect(files) = <<>> THEN None ELSE Head(detect(files))

-----------------------------------------------------------------------------
(* project_setup, and what is started afterwards                           *)

resolve_asset(tool, triple) == triple \in tool.triples
finalise_archive(tool, lacking) == tool.entries \cap lacking = {}

\* `bin` is the directory of the tools with its manifest; `world`
\* tells the target, the downloads that fail and what the archives lack.  A hook
\* looks for its entries before it removes or writes anything.  An archive is
\* unpacked into a directory of its own, per name and version, emptied before; that an
\* unrecorded program of the same version is lost with it when the unpacking fails
\* is left out.
install_tool(bin, tool, world) ==
  IF tool.name \in DOMAIN bin.manifest /\ bin.manifest[tool.name] = tool.version /\ tool.executable \in bin.files
  THEN [bin |-> bin, status |-> "already-installed"]
  ELSE IF ~resolve_asset(tool, world.triple) \/ tool.name \in world.unreachable
          \/ ~finalise_archive(tool, world.lacking)
       THEN [bin |-> bin, status |-> "error"]
       ELSE [bin |-> [files |-> bin.files \cup {tool.executable},
                      manifest |-> [t \in DOMAIN bin.manifest \cup {tool.name} |->
                                      IF t = tool.name THEN tool.version ELSE bin.manifest[t]]],
             status |-> "installed"]

\* Every tool of every plugin that claims the root, one after the other; an error
\* is reported and the rest goes on.
project_setup(bin, files, world) ==
  FoldLeft(LAMBDA done, tool :
             LET i == install_tool(done.bin, tool, world) IN
             [bin |-> i.bin, reports |-> Append(done.reports, [tool |-> tool, status |-> i.status])],
           [bin |-> bin, reports |-> <<>>],
           FlattenSeq([i \in DOMAIN detect(files) |-> detect(files)[i].tools]))

\* The language server and the indexer are started from the directory of the tools
\* only, the debug adapter from the search path too.
Tools == UNION {Range(builtin[i].tools) : i \in DOMAIN builtin}
Needs(executable) == {executable} \cup UNION {t.beside : t \in {u \in Tools : u.executable = executable}}
Started(bin, executable) == Needs(executable) \subseteq bin.files
AdapterStarted(bin, executable, path) == Started(bin, executable) \/ executable \in path

-----------------------------------------------------------------------------
(* Tests and other code                                                    *)

Lowered == [piece \in {"Test", "TEST", "IT", "Case"} |->
              CASE piece \in {"Test", "TEST"} -> "test" [] piece = "IT" -> "it" [] piece = "Case" -> "case"]
Lower(pieces) == [i \in DOMAIN pieces |-> IF pieces[i] \in DOMAIN Lowered THEN Lowered[pieces[i]] ELSE pieces[i]]

Starts(pieces, prefix) == IsPrefix(prefix, pieces)
Ends(pieces, suffix) == IsSuffix(suffix, pieces)

TestEnds == {<<"_", "test">>, <<"_", "test", "s">>}

\* Mutant: only at the top of the repository.
UnderTop(path, dirs) == IsPrefix(dirs, Lower(path.dirs))
\* The path starts with the directories or has them further down.
Under(path, dirs) == \E i \in 0..Len(path.dirs) : IsPrefix(dirs, SubSeq(Lower(path.dirs), i + 1, Len(path.dirs)))
IsTop(path, dirs) == Lower(path.dirs) = dirs

is_rust_test(path, name) ==
  \/ Under(path, <<"tests">>)
  \/ path.ext = "rs" /\ \E end \in TestEnds : Ends(Lower(path.stem), end)
  \/ Starts(Lower(name), <<"test", "_">>)
  \/ \E end \in TestEnds : Ends(Lower(name), end)

classify_rust_path(path) ==
  IF is_rust_test(path, <<>>) THEN "test"
  ELSE IF \/ IsTop(path, <<"src">>) /\ path.stem = <<"main">> /\ path.ext = "rs"
          \/ Under(path, <<"src", "bin">>) THEN "bin"
  ELSE IF Under(path, <<"examples">>) THEN "example"
  ELSE IF Under(path, <<"benches">>) THEN "bench"
  ELSE "lib"

java_filename_looks_like_test(path) ==
  LET stem == path.stem  low == Lower(path.stem) IN
  \/ Starts(low, <<"test">>)
  \/ \E end \in {<<"test">>, <<"test", "s">>, <<"test", "case">>} : Ends(low, end)
  \/ Ends(stem, <<"IT">>) \/ Ends(stem, <<"IT", "Case">>)

is_java_test(path, name) ==
  \/ \E d \in {"test", "tests"} : Under(path, <<d>>)
  \/ java_filename_looks_like_test(path)
  \/ Starts(name, <<"test">>) /\ Len(name) > 1

classify_java_path(path) ==
  IF is_java_test(path, <<>>) THEN "test"
  ELSE IF Under(path, <<"examples">>) THEN "example"
  ELSE "lib"

EntryPoints == {"it", "test", "describe", "suite", "before", "after", "beforeeach", "beforeall", "aftereach", "afterall"}

is_node_test(path, name) ==
  \/ \E d \in {"test", "tests", "__tests__"} : Under(path, <<d>>)
  \/ path.ext \in {"ts", "tsx", "js", "jsx"} /\ \E w \in {"test", "spec"} : Ends(Lower(path.stem), <<".", w>>)
  \/ Starts(Lower(name), <<"test", "_">>) \/ Starts(Lower(name), <<"test", "sp">>) \/ Ends(Lower(name), <<"_", "test">>)
  \/ \E w \in EntryPoints : Lower(name) = <<w>>

classify_node_path(path) ==
  IF is_node_test(path, <<>>) THEN "test"
  ELSE IF Under(path, <<"bin">>) THEN "bin"
  ELSE IF Under(path, <<"examples">>) THEN "example"
  ELSE "lib"

is_python_test(path, name) ==
  \/ \E d \in {"test", "tests"} : Under(path, <<d>>)
  \/ path.ext = "py" /\ (Starts(Lower(path.stem), <<"test", "_">>) \/ Ends(Lower(path.stem), <<"_", "test">>))
  \/ Starts(name, <<"test", "_">>) \/ Ends(name, <<"_", "test">>)
  \/ Starts(name, <<"Test">>) /\ Len(name) > 1

classify_python_path(path) ==
  IF is_python_test(path, <<>>) THEN "test"
  ELSE IF \/ \E d \in {"bin", "scripts"} : Under(path, <<d>>)
          \/ path.stem = <<"__main__">> /\ path.ext = "py" THEN "bin"
  ELSE IF Under(path, <<"examples">>) THEN "example"
  ELSE "lib"

is_cpp_test(path, name) ==
  LET stem == Lower(path.stem) IN
  \/ \E d \in {"test", "tests"} : Under(path, <<d>>)
  \/ Starts(stem, <<"test", "_">>) \/ \E end \in TestEnds : Ends(stem, end)
  \/ Starts(name, <<"test", "_">>) \/ \E end \in TestEnds : Ends(name, end)
  \/ \E c \in {"_", "("} : Starts(name, <<"TEST", c>>)

classify_cpp_path(path) ==
  IF is_cpp_test(path, <<>>) THEN "test"
  ELSE IF Under(path, <<"bin">>) \/ (path.stem = <<"main">> /\ path.ext \in {"cpp", "cc", "cxx", "c"}) THEN "bin"
  ELSE IF Under(path, <<"examples">>) THEN "example"
  ELSE "lib"

is_go_test(path, name) ==
  \/ path.ext = "go" /\ Ends(Lower(path.stem), <<"_", "test">>)
  \/ \E w \in {"Test", "Benchmark", "Example", "Fuzz"} : Starts(name, <<w>>) /\ Len(name) > 1

classify_go_path(path) ==
  IF is_go_test(path, <<>>) THEN "test"
  ELSE IF Under(path, <<"cmd">>) \/ (path.stem = <<"main">> /\ path.ext = "go") THEN "bin"
  ELSE IF Under(path, <<"examples">>) THEN "example"
  ELSE "lib"

classify_path(id, path) ==
  CASE id = "rust"   -> classify_rust_path(path)
    [] id \in {"java-maven", "java-gradle"} -> classify_java_path(path)
    [] id = "node"   -> classify_node_path(path)
    [] id = "python" -> classify_python_path(path)
    [] id = "go"     -> classify_go_path(path)
    [] id = "cpp"    -> classify_cpp_path(path)

-----------------------------------------------------------------------------
(* Properties                                                              *)

\* Installed by hand, as the plugins say.
ByHand == {"gopls", "scip-java"}

SetUp == project_setup(input.bin, input.files, input.world)
Failed == {r.tool.executable : r \in {s \in Range(SetUp.reports) : s.status = "error"}}

\* After project_setup, whatever could not be downloaded or lacked an entry, the
\* programs that the tools of the server start for this root are there with what
\* they reach beside them, unless an error was reported for one of these files or
\* the program is one to install by hand.
SetupIsHonest ==
  Is("setup") /\ detect(input.files) # <<>> =>
    LET p == plugin_for(input.files) IN
    /\ \A e \in {p.lsp, p.scip} \ ByHand : Started(SetUp.bin, e) \/ Needs(e) \cap Failed # {}
    /\ p.dap # None => AdapterStarted(SetUp.bin, p.dap, input.path) \/ p.dap \in Failed

\* "Idempotent - already-installed versions are skipped": a second project_setup
\* changes nothing and has the errors of the first, in roots of several languages
\* too, whose plugins install some tools twice.
SetupIdempotent ==
  Is("setup") =>
    LET again == project_setup(SetUp.bin, input.files, input.world) IN
    /\ again.bin = SetUp.bin
    /\ \A i \in DOMAIN again.reports :
         again.reports[i].status = IF SetUp.reports[i].status = "error" THEN "error" ELSE "already-installed"

\* project_setup tells what is missing, and once is enough.
SetupHolds == SetupIsHonest /\ SetupIdempotent

\* A file keeps its class when the package it belongs to lies deeper in the
\* repository; but for the main file of a Rust package, which is told only at the
\* top of the repository.
NestingKeepsClass ==
  Is("path") /\ ~(input.plugin = "rust" /\ input.path = [dirs |-> <<"src">>, stem |-> <<"main">>, ext |-> "rs"]) =>
    classify_path(input.plugin, input.path)
      = classify_path(input.plugin, [input.path EXCEPT !.dirs = <<"packages", "a">> \o @])
=============================================================================
