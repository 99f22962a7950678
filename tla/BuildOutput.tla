---------------------------- MODULE BuildOutput ----------------------------
(***************************************************************************)
(* What run_project and run_tests make of the output of a build tool.      *)
(*                                                                         *)
(* A line is [json, text]: what it is to a JSON parser (None for most      *)
(* lines), and its text, a sequence of opaque words, numbers and marks.  A *)
(* file name is told by its extension.                                     *)
(***************************************************************************)
EXTENDS Languages

Numbers == {"1", "2"}
Text(words) == [json |-> None, text |-> words]
Diagnostic(level, code, file, line, column, message) ==
  [level |-> level, code |-> code, file |-> file, line |-> line, column |-> column, message |-> message]

Drop(s, n) == SubSeq(s, n + 1, Len(s))
TrimStart(s) ==
  LET i == SelectInSeq(s, LAMBDA w : w # "sp") IN IF i = 0 THEN <<>> ELSE Drop(s, i - 1)
Trim(s) == SubSeq(TrimStart(s), 1, SelectLastInSeq(TrimStart(s), LAMBDA w : w # "sp"))

\* split_once; None if the mark is not there.
SplitOnce(s, mark) ==
  LET i == SelectInSeq(s, LAMBDA w : w = mark) IN
  IF i = 0 THEN None ELSE [before |-> SubSeq(s, 1, i - 1), after |-> Drop(s, i)]
StripPrefix(s, prefix) == IF IsPrefix(prefix, s) THEN Drop(s, Len(prefix)) ELSE None
Number(s) == IF Len(Trim(s)) = 1 /\ Trim(s)[1] \in Numbers THEN Trim(s)[1] ELSE None

-----------------------------------------------------------------------------
(* file:line[:col][: level]: message (textdiag.rs)                         *)

take_number(s) == IF s # <<>> /\ s[1] \in Numbers THEN [number |-> s[1], rest |-> Tail(s)] ELSE None

\* Where the first file name ends that a colon follows and no space precedes.
FileEnds(line, exts) ==
  {i \in 1..Len(line) - 1 : line[i] \in exts /\ line[i + 1] = ":" /\ ~Contains(SubSeq(line, 1, i), "sp")}

Levels == [t \in {<<"error">>, <<"fatal", "sp", "error">>, <<"warning">>, <<"note">>} |->
             IF t = <<"fatal", "sp", "error">> THEN "error" ELSE t[1]]

\* The level, if there is one, and the message after the position.
Levelled(rest, require_level, file, line, column) ==
  LET split == SplitOnce(rest, ":")
      known == split # None /\ (split # None => Trim(split.before) \in DOMAIN Levels)
      message == IF known THEN Trim(split.after) ELSE Trim(rest) IN
  IF (~known /\ require_level) \/ message = <<>> THEN None
  ELSE Diagnostic(IF known THEN Levels[Trim(split.before)] ELSE "error", None, file, line, column, message)

parse_one(line, exts, require_level) ==
  IF FileEnds(line, exts) = {} THEN None
  ELSE LET end == Min(FileEnds(line, exts))
           at  == take_number(Drop(line, end + 1)) IN
       IF at = None THEN None
       ELSE IF StripPrefix(at.rest, <<":">>) = None THEN None
       ELSE LET column == take_number(Tail(at.rest))
                rest   == IF column = None THEN Tail(at.rest)
                          ELSE IF IsPrefix(<<":">>, column.rest) THEN Tail(column.rest) ELSE column.rest IN
            Levelled(TrimStart(rest), require_level, line[end], at.number,
                     IF column = None THEN None ELSE column.number)

parse_colon_diagnostics(lines, exts, require_level) ==
  Mapped(lines, LAMBDA l : parse_one(Trim(l.text), exts, require_level))

-----------------------------------------------------------------------------
(* The formats of single tools                                             *)

\* cargo: one JSON object per line; a position is that of the primary span.
diagnostic_from_cargo_message(m) ==
  LET primary == First(m.spans, LAMBDA s : s.is_primary) IN
  Diagnostic(m.level, IF m.code = "" THEN None ELSE m.code, IF primary = None THEN None ELSE ".rs",
             IF primary = None THEN None ELSE primary.line, IF primary = None THEN None ELSE primary.column, m.message)

parse_cargo_json_messages(lines) ==
  Mapped(lines, LAMBDA l :
    IF l.json = None THEN None
    ELSE IF l.json.reason # "compiler-message" \/ l.json.message = None THEN None
    ELSE diagnostic_from_cargo_message(l.json.message))

\* Maven: [ERROR] File.java:[line,column] message
MavenSpan(level, rest) ==
  LET at == SelectInSeq([i \in DOMAIN rest |-> SubSeq(rest, i, IF i + 2 > Len(rest) THEN Len(rest) ELSE i + 2)],
                        LAMBDA w : w = <<".java", ":", "[">>)
      tail == SplitOnce(Drop(rest, at + 2), "]") IN
  IF at = 0 \/ Contains(SubSeq(rest, 1, at), "sp") \/ tail = None THEN None
  ELSE LET coords == SplitOnce(tail.before, ",")
           line   == Number(IF coords = None THEN tail.before ELSE coords.before)
           column == IF coords = None THEN None ELSE Number(coords.after) IN
       IF line = None \/ Trim(tail.after) = <<>> THEN None
       ELSE Diagnostic(level, None, ".java", line, column, Trim(tail.after))

parse_maven_diagnostics(lines) ==
  Mapped(lines, LAMBDA l :
    LET line == Trim(l.text) IN
    IF IsPrefix(<<"[ERROR]", "sp">>, line) THEN MavenSpan("error", Drop(line, 2))
    ELSE IF IsPrefix(<<"[WARNING]", "sp">>, line) THEN MavenSpan("warning", Drop(line, 2))
    ELSE None)

\* tsc: file.ts(line,column): error TSn: message
ParseTsc(line) ==
  LET open == SplitOnce(line, "(") IN
  IF open = None THEN None
  ELSE IF open.before = <<>> \/ Contains(open.before, "sp") THEN None
  ELSE IF Last(open.before) # ".ts" THEN None
  ELSE LET close == SplitOnce(open.after, ")") IN
       IF close = None THEN None
       ELSE LET coords == SplitOnce(close.before, ",")
                word   == SplitOnce(TrimStart(Drop(close.after, 1)), "sp") IN
            IF coords = None \/ ~IsPrefix(<<":">>, close.after) \/ word = None THEN None
            ELSE IF Number(coords.before) = None \/ Number(coords.after) = None THEN None
            ELSE IF word.before \notin {<<"error">>, <<"warning">>} THEN None
            ELSE LET split   == SplitOnce(word.after, ":")
                     coded   == IF split = None THEN FALSE ELSE IsPrefix(<<"TS1">>, split.before)
                     message == Trim(IF coded THEN split.after ELSE word.after) IN
                 IF message = <<>> THEN None
                 ELSE Diagnostic(word.before[1], IF coded THEN split.before[1] ELSE None, Last(open.before),
                                 Number(coords.before), Number(coords.after), message)

parse_tsc_diagnostics(lines) == Mapped(lines, LAMBDA l : ParseTsc(Trim(l.text)))

\* Python: lines of pytest and mypy, and tracebacks.  A frame is
\* <<"File", file, "line", number>>.
FrameOf(line) ==
  IF Len(line) < 4 THEN None ELSE IF line[3] # "line" \/ line[4] \notin Numbers THEN None
  ELSE [file |-> line[2], line |-> line[4]]

is_exception_line(line) ==
  LET split == SplitOnce(line, ":")
      head  == Trim(IF split = None THEN line ELSE split.before) IN
  head # <<>> /\ ~Contains(head, "sp") /\ Last(head) \in {"ValueError", "Exception"}

\* The last frame goes with the exception that follows it, and with one only.
Traced(s, line) ==
  IF IsPrefix(<<"File">>, line) THEN [s EXCEPT !.frame = IF FrameOf(line) = None THEN @ ELSE FrameOf(line)]
  ELSE IF ~is_exception_line(line) \/ s.frame = None THEN s
  ELSE [frame |-> None, out |-> Append(s.out, Diagnostic("error", None, s.frame.file, s.frame.line, None, line))]

Traceback(lines) == FoldLeft(LAMBDA s, l : Traced(s, Trim(l.text)), [frame |-> None, out |-> <<>>], lines).out

parse_python_diagnostics(lines) ==
  Kept(parse_colon_diagnostics(lines, {".py"}, FALSE), LAMBDA d : ~IsPrefix(<<"in", "sp">>, d.message))
    \o Traceback(lines)

parse_diagnostics(id, lines) ==
  CASE id = "rust"        -> parse_cargo_json_messages(lines)
    [] id = "java-maven"  -> parse_maven_diagnostics(lines)
    [] id = "java-gradle" -> parse_colon_diagnostics(lines, {".java"}, TRUE)
    [] id = "node"        -> parse_tsc_diagnostics(lines)
    [] id = "python"      -> parse_python_diagnostics(lines)
    [] id = "go"          -> parse_colon_diagnostics(lines, {".go"}, FALSE)
    [] id = "cpp"         -> parse_colon_diagnostics(lines, {".c", ".h"}, TRUE)

-----------------------------------------------------------------------------
(* run_project, run_tests                                                  *)

\* Mutant: the flag for the machine format comes last.
ArgumentsFlagLast(command, structured, filter, extra) ==
  command \o (IF filter = None THEN <<>> ELSE <<filter>>) \o extra \o structured

Arguments(command, structured, filter, extra) ==
  command \o structured \o (IF filter = None THEN <<>> ELSE <<filter>>) \o extra

CommandLine(p, tool, filter, extra) ==
  Arguments(p[tool], p.structured, IF tool = "test" THEN filter ELSE None, extra)

\* The tool has run: both of its streams are parsed.
RunTool(p, output) ==
  IF p = None THEN [error |-> "no language plugin claims root"]
  ELSE [error |-> None,
        diagnostics |-> parse_diagnostics(p.id, output.stdout) \o parse_diagnostics(p.id, output.stderr)]

-----------------------------------------------------------------------------
(* Properties                                                              *)

\* How the tools print a diagnostic; cargo in the machine format only if it is
\* asked to before the arguments for the program begin.
Printed(p, line, d) ==
  LET sep == SelectInSeq(line, LAMBDA w : w = "--")
      own == IF sep = 0 THEN line ELSE SubSeq(line, 1, sep - 1)
      col == IF d.column = None THEN <<>> ELSE <<d.column, ":">> IN
  CASE p.id = "rust" ->
         [json |-> IF ~Contains(own, "--message-format") THEN None
                   ELSE [reason |-> "compiler-message",
                         message |-> [level |-> d.level, code |-> IF d.code = None THEN "" ELSE d.code, message |-> d.message,
                                      spans |-> <<[is_primary |-> FALSE, line |-> "1", column |-> "1"],
                                                  [is_primary |-> TRUE, line |-> d.line, column |-> d.column]>>]],
          text |-> d.message]
    [] p.id = "java-maven" ->
         Text(<<IF d.level = "error" THEN "[ERROR]" ELSE "[WARNING]", "sp", d.file, ":", "[", d.line, ",", d.column, "]", "sp">> \o d.message)
    [] p.id = "node" ->
         Text(<<d.file, "(", d.line, ",", d.column, ")", ":", "sp", d.level, "sp">>
                \o (IF d.code = None THEN <<>> ELSE <<d.code, ":", "sp">>) \o d.message)
    [] p.id = "go" -> Text(<<"sp", d.file, ":", d.line, ":">> \o col \o <<"sp">> \o d.message)
    [] p.id \in {"java-gradle", "python", "cpp"} ->
         Text(<<d.file, ":", d.line, ":">> \o col \o <<"sp", d.level, ":", "sp">> \o d.message)

\* Each diagnostic that the tool prints is reported once, as printed: position,
\* level, code and message, those of one stream in their order, whatever other
\* lines lie between and whatever arguments are added.
DiagnosticsAreRead ==
  Is("build") =>
    LET p    == plugin_for(input.files)
        line == CommandLine(p, input.tool, input.filter, input.extra)
        Lines(items) == [i \in DOMAIN items |-> IF items[i].noise THEN Text(items[i].text)
                                                ELSE Printed(p, line, items[i].d)]
        DiagnosticsOf(items) == Mapped(items, LAMBDA i : IF i.noise THEN None ELSE i.d) IN
    RunTool(p, [stdout |-> Lines(input.stdout), stderr |-> Lines(input.stderr)]).diagnostics
      = DiagnosticsOf(input.stdout) \o DiagnosticsOf(input.stderr)

\* An exception is reported at the innermost frame of its own traceback, the last
\* frame printed before it and after any other exception, and an exception without
\* frames not at all.
TracebackPairs ==
  Is("traceback") =>
    LET at(i) == Trim(input.lines[i].text)
        Frames == {i \in DOMAIN input.lines : FrameOf(at(i)) # None /\ at(i)[1] = "File"}
        Exceptions == {i \in DOMAIN input.lines : ~IsPrefix(<<"File">>, at(i)) /\ is_exception_line(at(i))}
        Own(i) == {f \in Frames : f < i /\ \A e \in Exceptions : e \notin f..i - 1}
        Paired == {i \in Exceptions : Own(i) # {}} IN
    Range(parse_python_diagnostics(input.lines))
      = {Diagnostic("error", None, at(Max(Own(i)))[2], at(Max(Own(i)))[4], None, at(i)) : i \in Paired}
    /\ Len(parse_python_diagnostics(input.lines)) = Cardinality(Paired)

\* The parsers find what was printed, exceptions with their frames included.
OutputIsRead == DiagnosticsAreRead /\ TracebackPairs
=============================================================================
