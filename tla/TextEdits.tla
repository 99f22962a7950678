----------------------------- MODULE TextEdits -----------------------------
(***************************************************************************)
(* Positions, ranges and edits of a text, as the edit tools compute them   *)
(* (crates/aide-lsp/src/ops.rs).  A text is a sequence of characters:      *)
(* "nl" ends a line, "wide" takes two UTF-16 units, any other one.  A byte *)
(* offset is told by the number of characters before it: the code adds     *)
(* whole characters only.  A position is <<line, column in units>>.        *)
(***************************************************************************)
EXTENDS Inputs

Units(text, from, to) ==
  to - from + Cardinality({i \in from + 1..to : text[i] = "wide"})

\* compute_line_offsets
LineStarts(text) == {0} \cup {i \in DOMAIN text : text[i] = "nl"}

LineStart(text, n) ==
  LET starts == {s \in LineStarts(text) : Cardinality({t \in LineStarts(text) : t < s}) = n} IN
  IF starts = {} THEN None ELSE Min(starts)

\* From the start of the line up to the column or the end of the line.
position_to_byte_offset(text, p) ==
  LET start == LineStart(text, p[1]) IN
  IF start = None THEN None
  ELSE Min({k \in start..Len(text) :
              k = Len(text) \/ Units(text, start, k) >= p[2] \/ text[k + 1] = "nl"})

\* From the start of the line up to the column or the end of the text: a line end
\* counts for one unit, and the walk goes on behind it.
byte_offset(text, p) ==
  LET start == LineStart(text, p[1]) IN
  IF start = None THEN None
  ELSE Min({k \in start..Len(text) : k = Len(text) \/ Units(text, start, k) >= p[2]})

Spliced(text, from, to, new) == SubSeq(text, 1, from) \o new \o SubSeq(text, to + 1, Len(text))

\* The four symbol edits are splices of the range, of its start, or of its end.
splice_range(text, range, new) ==
  LET from == position_to_byte_offset(text, range[1])
      to   == position_to_byte_offset(text, range[2]) IN
  IF from = None \/ to = None THEN None
  ELSE IF to < from THEN None ELSE Spliced(text, from, to, new)

Before(p, q) == p[1] < q[1] \/ (p[1] = q[1] /\ p[2] < q[2])

\* Mutant: the first edit of the text is applied first.
Ascending(edits, i, j) ==
  Before(edits[i].from, edits[j].from) \/ (edits[i].from = edits[j].from /\ i < j)

\* The order of application: from the last start to the first, edits of one start
\* in the order given.
Descending(edits, i, j) ==
  Before(edits[j].from, edits[i].from) \/ (edits[i].from = edits[j].from /\ i < j)

Order(edits) ==
  CHOOSE o \in [DOMAIN edits -> DOMAIN edits] :
    Range(o) = DOMAIN edits /\ \A i, j \in DOMAIN edits : i < j => Descending(edits, o[i], o[j])

\* The offsets are those of the original text.  An edit that does not fit is left
\* out.
Applied(text, out, edit) ==
  LET from == byte_offset(text, edit.from)
      to   == byte_offset(text, edit.to) IN
  IF from = None \/ to = None THEN out
  ELSE IF from > to \/ to > Len(out) THEN out ELSE Spliced(out, from, to, edit.new)

apply_text_edits(text, edits) ==
  FoldLeft(LAMBDA out, e : Applied(text, out, e), text, [i \in DOMAIN edits |-> edits[Order(edits)[i]]])

position_in_range(p, range) == ~Before(p, range[1]) /\ ~Before(range[2], p)

\* An outline is a tree of symbols.  It lists them with the place of their parent, 0
\* for none; parents stand before their children, and children in their order.
Around(syms, p, parent) ==
  {i \in DOMAIN syms : /\ syms[i].parent = parent
                       /\ position_in_range(p, syms[i].range) \/ position_in_range(p, syms[i].selection)}

\* The innermost symbol: the first that has the position in its range or its
\* selection, or what its children have.  0 is no symbol.
find_enclosing_symbol(syms, p) ==
  LET deepest[s \in 0..Len(syms)] ==
        IF Around(syms, p, s) = {} THEN s ELSE deepest[Min(Around(syms, p, s))]
  IN deepest[0]

\* What makes two diagnostics the same.
diag_key(d) == <<d.line, d.severity, d.message>>

\* The report of an edit: what is new, what is gone, and how much has stayed.
safe_edit_report(before, after) ==
  LET old == {diag_key(d) : d \in ToSet(before)}
      now == {diag_key(d) : d \in ToSet(after)}
      new == Kept(after, LAMBDA d : diag_key(d) \notin old) IN
  [new_errors   |-> Kept(new, LAMBDA d : d.severity = "Error"),
   new_warnings |-> Kept(new, LAMBDA d : d.severity = "Warning"),
   resolved     |-> Kept(before, LAMBDA d : diag_key(d) \notin now),
   unchanged    |-> Cardinality(old \cap now)]

-----------------------------------------------------------------------------
(* Properties *)

\* Where a position within its line stands, said without walking the text.
Stands(text, p, k) ==
  LET start == LineStart(text, p[1]) IN
  start # None /\ start <= k /\ "nl" \notin {text[i] : i \in start + 1..k} /\ Units(text, start, k) = p[2]

At(text, p) == CHOOSE k \in 0..Len(text) : Stands(text, p, k)

\* The text with every edit made at once: each character, unless an edit covers it,
\* and after it the new text of the edit that starts there.
AllAtOnce(text, edits) ==
  LET here(k)  == {e \in ToSet(edits) : At(text, e.from) = k}
      kept(k)  == k > 0 /\ \A e \in ToSet(edits) : k \notin At(text, e.from) + 1..At(text, e.to) IN
  FlattenSeq([i \in 1..Len(text) + 1 |->
    (IF kept(i - 1) THEN <<text[i - 1]>> ELSE <<>>)
      \o (IF here(i - 1) = {} THEN <<>> ELSE (CHOOSE e \in here(i - 1) : TRUE).new)])

Fits(text, edits) ==
  /\ \A e \in ToSet(edits) : /\ \E k \in 0..Len(text) : Stands(text, e.from, k)
                             /\ \E k \in 0..Len(text) : Stands(text, e.to, k)
                             /\ ~Before(e.to, e.from)
  /\ \A i, j \in DOMAIN edits : i < j =>
       /\ edits[i].from # edits[j].from
       /\ ~Before(edits[i].from, edits[j].to) \/ ~Before(edits[j].from, edits[i].to)

\* Edits that do not overlap and that name positions within their lines have the
\* effect they would have all at once, in whatever order they are listed and
\* whatever wide characters stand before them.
EditsAllAtOnce ==
  Is("edits") /\ Fits(input.text, input.edits) =>
    apply_text_edits(input.text, input.edits) = AllAtOnce(input.text, input.edits)

\* A symbol edit leaves every line before and after its range as it is, also when
\* the file has changed and a column lies beyond the end of its line.
SpliceKeepsOtherLines ==
  Is("edits") => \A e \in ToSet(input.edits) :
    LET out   == splice_range(input.text, <<e.from, e.to>>, e.new)
        start == LineStart(input.text, e.from[1])
        next  == LineStart(input.text, e.to[1] + 1)
        rest  == IF next = None THEN <<>> ELSE SubSeq(input.text, next, Len(input.text)) IN
    out # None => /\ SubSeq(out, 1, start) = SubSeq(input.text, 1, start)
                  /\ IsSuffix(rest, out)

Within(inner, outer) == ~Before(inner[1], outer[1]) /\ ~Before(outer[2], inner[2])
Separate(a, b) == ~Before(b[1], a[2]) \/ ~Before(a[1], b[2])

\* Symbols lie within their parents, their selections within their ranges, and the
\* children of one parent do not overlap.
Nests(syms) ==
  \A i \in DOMAIN syms :
    /\ ~Before(syms[i].range[2], syms[i].range[1])
    /\ Within(syms[i].selection, syms[i].range)
    /\ syms[i].parent # 0 => Within(syms[i].range, syms[syms[i].parent].range)
    /\ \A j \in DOMAIN syms : j # i /\ syms[j].parent = syms[i].parent => Separate(syms[i].range, syms[j].range)

\* In an outline whose symbols nest, the symbol that an edit or a deletion takes
\* is the innermost around the position, and there is one if any symbol is around
\* it.  Two symbols that touch at the position are both the innermost.
InnermostIsFound ==
  Is("outline") /\ Nests(input.outline) =>
    LET found  == find_enclosing_symbol(input.outline, input.position)
        around == {i \in DOMAIN input.outline : position_in_range(input.position, input.outline[i].range)}
        range(i) == input.outline[i].range IN
    /\ found = 0 <=> around = {}
    /\ found # 0 => /\ found \in around
                    /\ \A i \in around : Within(range(found), range(i)) \/ Separate(range(found), range(i))

\* The report of an edit hides no error: each one after it is in the list of new
\* ones or was there before, and what is new, gone and unchanged adds up.
ReportHidesNothing ==
  Is("report") =>
    LET report == safe_edit_report(input.before, input.after) IN
    /\ \A d \in ToSet(input.after) : d.severity = "Error" =>
         d \in ToSet(report.new_errors) \cup ToSet(input.before)
    /\ report.unchanged + Cardinality(ToSet(report.resolved)) = Cardinality(ToSet(input.before))
    /\ ToSet(report.new_errors) \cap ToSet(input.before) = {}

\* An edit changes what it names, as its server meant it, and nothing else, and its
\* report tells what it broke.
EditsAreExact ==
  EditsAllAtOnce /\ SpliceKeepsOtherLines /\ InnermostIsFound /\ ReportHidesNothing
=============================================================================
