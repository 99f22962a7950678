------------------------------ MODULE LspDocs ------------------------------
(***************************************************************************)
(* The documents one language server has open, and the tools that query    *)
(* and edit them (crates/aide-lsp/src/ops.rs).  A tool makes its document  *)
(* current, asks the server, and may write files and tell the server.      *)
(*                                                                         *)
(* A text is named by its place in the order of the writes to its file;    *)
(* Partial is a file that is being written, or whose write failed.  The    *)
(* server is external: it handles messages in the order they are sent,     *)
(* answers about the text it was last told, and about the file on disk     *)
(* when the document is closed.  Files are also written by others.         *)
(***************************************************************************)
EXTENDS Naturals, FiniteSets

CONSTANTS
  Calls,       \* tool calls on this server, each of which runs once
  Files,
  None,        \* no call, or no file
  MaxDocs,     \* MAX_OPEN_DOCS
  MaxOutside   \* bound on the writes by others

ASSUME DocsAssumption ==
  /\ None \notin Calls \cup Files
  /\ IsFiniteSet(Files)
  /\ MaxDocs \in Nat \ {0}
  /\ MaxOutside \in Nat

VARIABLES
  disk,      \* the text of each file
  written,   \* the last text written to each file
  docs,      \* client.opened: version, text and last use of each open document
  server,    \* what the server has been told: version and text
  lock,      \* the call that holds the lock of docs across an await
  call,      \* what each call is doing
  outside,   \* how many writes others have made
  start,     \* history: the text of a call's file when the call began
  floor,     \* history: the same, of the oldest call on that file in progress then
  alone      \* history: nothing else has run or written during the call

vars == <<disk, written, docs, server, lock, call, outside, start, floor, alone>>
files == <<disk, written, outside>>
history == <<start, floor, alone>>

Partial == 0
Closed == [version |-> 0, text |-> Partial]
NoDoc == [version |-> 0, text |-> Partial, used |-> 0]
Told(doc) == [version |-> doc.version, text |-> doc.text]
NoMessage == [file |-> None, closed |-> {}, doc |-> Closed]

\* query: hover, definition, references and the like; edit: safe_edit;
\* symbol: the four symbol edits; rename; action: apply_code_action.
Kinds == {"query", "edit", "symbol", "rename", "action"}

\* pc, kind and file of a call; `read` is the text it is making current, `told`
\* the text of its file that the server's answer is about, `base` the text its
\* edit is made to, `todo` the files its answer edits, `target` the file it is
\* writing, `msg` the notification it is sending.
Fresh == [pc |-> "new", kind |-> "query", file |-> None, read |-> 0, told |-> 0,
          base |-> 0, todo |-> {}, target |-> None, msg |-> NoMessage]

Open == {f \in Files : docs[f].version > 0}
Active(c) == call[c].pc \notin {"new", "done", "failed"}
At(c, pcs) == call[c].pc \in pcs /\ call[c].msg = NoMessage

Init ==
  /\ disk = [f \in Files |-> 1]
  /\ written = [f \in Files |-> 1]
  /\ docs = [f \in Files |-> NoDoc]
  /\ server = [f \in Files |-> Closed]
  /\ lock = None
  /\ call = [c \in Calls |-> Fresh]
  /\ outside = 0
  /\ start = [c \in Calls |-> 0]
  /\ floor = [c \in Calls |-> 0]
  /\ alone = [c \in Calls |-> FALSE]

\* A tool is called for a file.
Begin(c, kind, f) ==
  /\ At(c, {"new"})
  /\ call' = [call EXCEPT ![c].pc = "ensure", ![c].kind = kind, ![c].file = f]
  /\ start' = [start EXCEPT ![c] = disk[f]]
  /\ LET texts == {disk[f]} \cup {start[d] : d \in {d \in Calls : Active(d) /\ call[d].file = f}}
     IN  floor' = [floor EXCEPT ![c] = CHOOSE n \in texts : \A m \in texts : n <= m]
  /\ alone' = [d \in Calls |-> IF d = c THEN \A e \in Calls : ~Active(e)
                               ELSE alone[d] /\ ~Active(d)]
  /\ UNCHANGED <<files, docs, server, lock>>

\* Another process writes a file.
Outside(f) ==
  /\ outside < MaxOutside
  /\ outside' = outside + 1
  /\ written' = [written EXCEPT ![f] = @ + 1]
  /\ disk' = [disk EXCEPT ![f] = written'[f]]
  /\ alone' = [c \in Calls |-> alone[c] /\ ~Active(c)]
  /\ UNCHANGED <<docs, server, lock, call, start, floor>>

\* What a read of the file finds: a write in progress has truncated it.
OnDisk(f) == IF \E c \in Calls : call[c].target = f THEN Partial ELSE disk[f]

-----------------------------------------------------------------------------
(* ensure_document_current *)

EnsureRead(c) ==
  /\ At(c, {"ensure", "ensureAgain"})
  /\ call' = [call EXCEPT ![c].read = OnDisk(call[c].file),
                          ![c].pc = IF @ = "ensure" THEN "sync" ELSE "syncAgain"]
  /\ UNCHANGED <<files, docs, server, lock, history>>

AfterSync(c) == IF call[c].pc = "syncAgain" THEN "write"
                ELSE IF call[c].kind = "edit" THEN "read" ELSE "ask"

\* Instants order the uses of documents; only their order matters.
Rank(f) == Cardinality({g \in Open : docs[g].used < docs[f].used}) + 1
Touch(ds, f) == [g \in Files |-> IF ds[g].version = 0 THEN NoDoc
                                ELSE [ds[g] EXCEPT !.used = IF g = f THEN Cardinality(Files) + 1 ELSE Rank(g)]]

\* Mutant: the cap is looked at after the insertion.
ToCloseLate == {f \in Open : Rank(f) = 1 /\ Cardinality(Open) > MaxDocs}

\* The document to close before another is opened: the one used least recently.
ToClose == {f \in Open : Rank(f) = 1 /\ Cardinality(Open) >= MaxDocs}

\* Mutant: an open document is taken to be current.
KeepText(f, text) == [version |-> IF f \in Open THEN docs[f].version ELSE 1,
                      text |-> IF f \in Open THEN docs[f].text ELSE text, used |-> 0]

\* Version and text of the document once it has this text.
Refreshed(f, text) == [version |-> IF f \in Open /\ docs[f].text = text THEN docs[f].version
                                   ELSE docs[f].version + 1,
                       text |-> text, used |-> 0]

\* Mutant: the lock is released before the server is told.
SyncUnlocked(c) ==
  LET f == call[c].file
      new == Refreshed(f, call[c].read)
      closing == IF f \in Open THEN {} ELSE ToClose
  IN  /\ At(c, {"sync", "syncAgain"}) /\ lock = None
      /\ docs' = Touch([g \in Files |-> IF g = f THEN new
                                       ELSE IF g \in closing THEN NoDoc ELSE docs[g]], f)
      /\ call' = [call EXCEPT ![c].pc = AfterSync(c), ![c].msg =
                    IF new.version = docs[f].version THEN NoMessage
                    ELSE [file |-> f, closed |-> closing, doc |-> Told(new)]]
      /\ UNCHANGED <<files, server, lock, history>>

\* Nothing, didChange, or a didClose of another document and didOpen.
Sync(c) ==
  LET f == call[c].file
      new == Refreshed(f, call[c].read)
      closing == IF f \in Open THEN {} ELSE ToClose
  IN  /\ At(c, {"sync", "syncAgain"}) /\ lock = None
      /\ docs' = Touch([g \in Files |-> IF g = f THEN new
                                       ELSE IF g \in closing THEN NoDoc ELSE docs[g]], f)
      /\ call' = [call EXCEPT ![c].pc = AfterSync(c), ![c].msg =
                    IF new.version = docs[f].version THEN NoMessage
                    ELSE [file |-> f, closed |-> closing, doc |-> Told(new)]]
      /\ lock' = IF new.version = docs[f].version THEN None ELSE c
      /\ UNCHANGED <<files, server, history>>

\* The notification is written, and the lock released.
Send(c) ==
  LET msg == call[c].msg IN
  /\ msg # NoMessage
  /\ server' = [g \in Files |-> IF g = msg.file THEN msg.doc
                                ELSE IF g \in msg.closed THEN Closed ELSE server[g]]
  /\ call' = [call EXCEPT ![c].msg = NoMessage]
  /\ lock' = None
  /\ UNCHANGED <<files, docs, history>>

-----------------------------------------------------------------------------
(* The tools *)

\* The server answers about the text it has been told, or else about the file.
Answer(c) == IF server[call[c].file].version > 0 THEN server[call[c].file].text
             ELSE OnDisk(call[c].file)
Answered(c, kinds, pc, todo) ==
  /\ At(c, {"ask"}) /\ call[c].kind \in kinds
  /\ call' = [call EXCEPT ![c].pc = pc, ![c].told = Answer(c), ![c].todo = todo]
  /\ UNCHANGED <<files, docs, server, lock, history>>

\* hover, definition, declaration, implementations, references, document_symbols.
Query(c) == Answered(c, {"query"}, "done", {})

\* type_hierarchy: prepare, then one or two requests for each item.
QueryHierarchy(c) == Answered(c, {"query"}, "ask", {})

\* locate_symbol: the range of the symbol.
AskSymbol(c) == Answered(c, {"symbol"}, "read", {})

\* rename: the edits of some files, or of none.
AskRename(c) ==
  \E todo \in SUBSET Files : Answered(c, {"rename"}, IF todo = {} THEN "done" ELSE "apply", todo)

\* apply_code_action: no action matches, the action has its edit, or it has to
\* be resolved; a command, if it has one, comes last.
AskActions(c) ==
  \E todo \in SUBSET Files, pc \in {"apply", "resolve", "command", "done"} :
    (pc = "apply") = (todo # {}) /\ Answered(c, {"action"}, pc, todo)
Resolve(c) ==
  /\ At(c, {"resolve"})
  /\ \E todo \in SUBSET Files :
       call' = [call EXCEPT ![c].pc = IF todo = {} THEN "command" ELSE "apply",
                            ![c].told = Answer(c), ![c].todo = todo]
  /\ UNCHANGED <<files, docs, server, lock, history>>
RunCommand(c) ==
  /\ At(c, {"command"})
  /\ call' = [call EXCEPT ![c].pc = "done"]
  /\ UNCHANGED <<files, docs, server, lock, history>>

\* The text that safe_edit or a symbol edit changes is read outside the lock.
Read(c) ==
  /\ At(c, {"read"})
  /\ call' = [call EXCEPT ![c].pc = "ensureAgain", ![c].base = OnDisk(call[c].file)]
  /\ UNCHANGED <<files, docs, server, lock, history>>

\* Mutant: the write happens outside the lock.
WriteEditUnlocked(c) ==
  /\ At(c, {"write"}) /\ lock = None
  /\ call' = [call EXCEPT ![c].pc = "writing", ![c].target = call[c].file]
  /\ UNCHANGED <<files, docs, server, lock, history>>

\* apply_and_snapshot: the write begins; it truncates the file.
WriteEdit(c) ==
  /\ At(c, {"write"}) /\ lock = None
  /\ lock' = c
  /\ call' = [call EXCEPT ![c].pc = "writing", ![c].target = call[c].file]
  /\ UNCHANGED <<files, docs, server, history>>

\* apply_edits_to_file: the file is read and written under the lock.
WriteAnswer(c, f) ==
  /\ At(c, {"apply"}) /\ lock = None
  /\ f \in call[c].todo
  /\ lock' = c
  /\ call' = [call EXCEPT ![c].pc = "writing", ![c].target = f, ![c].todo = @ \ {f},
                          ![c].base = IF f = call[c].file THEN disk[f] ELSE @]
  /\ UNCHANGED <<files, docs, server, history>>

AfterWrite(c) == IF call[c].todo # {} THEN "apply"
                 ELSE IF call[c].kind = "action" THEN "command" ELSE "done"

\* The write ends; if the document is open, its version goes up.
Written(c) ==
  LET f == call[c].target
      new == [version |-> docs[f].version + 1, text |-> written[f] + 1, used |-> 0]
  IN  /\ At(c, {"writing"})
      /\ written' = [written EXCEPT ![f] = @ + 1]
      /\ disk' = [disk EXCEPT ![f] = written'[f]]
      /\ docs' = IF f \in Open THEN Touch([docs EXCEPT ![f] = new], f) ELSE docs
      /\ call' = [call EXCEPT ![c].pc = AfterWrite(c),
                              ![c].target = None,
                              ![c].msg = IF f \in Open
                                         THEN [file |-> f, closed |-> {}, doc |-> Told(new)]
                                         ELSE NoMessage]
      /\ lock' = IF f \in Open THEN c ELSE None
      /\ UNCHANGED <<server, outside, history>>

\* The write fails and leaves part of the text; later files stay as they are.
WriteFails(c) ==
  /\ At(c, {"writing"})
  /\ disk' = [disk EXCEPT ![call[c].target] = Partial]
  /\ call' = [call EXCEPT ![c].pc = "failed", ![c].target = None, ![c].todo = {}]
  /\ lock' = None
  /\ UNCHANGED <<written, docs, server, outside, history>>

\* The file cannot be read, the server reports an error, the text to replace is
\* not there once, the server knows no symbol at that place, or its range is not
\* in the text.
Fail(c) ==
  /\ At(c, {"ensure", "ask", "resolve", "read", "ensureAgain", "apply", "command"})
  /\ call[c].pc = "apply" => lock = None
  /\ call' = [call EXCEPT ![c].pc = "failed", ![c].todo = {}]
  /\ UNCHANGED <<files, docs, server, lock, history>>

\* Nothing is left to do.
Finished == (\A c \in Calls : At(c, {"done", "failed"})) /\ UNCHANGED vars

CallStep(c) ==
  \/ EnsureRead(c)
  \/ Sync(c)
  \/ Send(c)
  \/ Query(c) \/ QueryHierarchy(c)
  \/ AskSymbol(c)
  \/ AskRename(c)
  \/ AskActions(c) \/ Resolve(c) \/ RunCommand(c)
  \/ Read(c)
  \/ WriteEdit(c)
  \/ \E f \in Files : WriteAnswer(c, f)
  \/ Written(c)
  \/ WriteFails(c)
  \/ Fail(c)

Next ==
  \/ \E c \in Calls : CallStep(c) \/ \E kind \in Kinds, f \in Files : Begin(c, kind, f)
  \/ \E f \in Files : Outside(f)
  \/ Finished

Spec == Init /\ [][Next]_vars

-----------------------------------------------------------------------------
(* Properties *)

Docs == [version : Nat, text : Nat]

\* The state of the client, the server and the calls has the shape the code gives it.
TypeOK ==
  /\ disk \in [Files -> Nat] /\ written \in [Files -> Nat]
  /\ docs \in [Files -> [version : Nat, text : Nat, used : Nat]]
  /\ server \in [Files -> Docs]
  /\ lock \in Calls \cup {None}
  /\ call \in [Calls -> [pc : {"new", "ensure", "sync", "ask", "read", "ensureAgain",
                               "syncAgain", "resolve", "write", "apply", "command", "writing", "done", "failed"},
                         kind : Kinds, file : Files \cup {None}, read : Nat, told : Nat,
                         base : Nat, todo : SUBSET Files, target : Files \cup {None},
                         msg : [file : Files \cup {None}, closed : SUBSET Files, doc : Docs]]]
  /\ outside \in 0..MaxOutside
  /\ start \in [Calls -> Nat] /\ floor \in [Calls -> Nat] /\ alone \in [Calls -> BOOLEAN]
  /\ \A c \in Calls : call[c].target # None \/ call[c].msg # NoMessage => lock = c

\* However many calls open documents at once, the server never has more than
\* MAX_OPEN_DOCS of them open (the check and the insertion share the lock).
OpenBound == Cardinality({f \in Files : server[f].version > 0}) <= MaxDocs

\* Whenever the lock is free, what the server has been told is what `docs` says:
\* no notification is overtaken by one of another call, closing included.
ServerFollows ==
  lock = None => \A f \in Files : server[f] = Told(docs[f])

\* An answer is about a text that was in the file when the call began, or when
\* the oldest call on that file then in progress did, or later; or about part of
\* a text.  A document closed between didOpen and the request is no exception.
AnswerNotOlder == \A c \in Calls : call[c].told = Partial \/ call[c].told >= floor[c]

\* A call that runs alone answers about the text in its file, changes the text
\* that is there, and puts the server's ranges on the text they refer to.
AloneIsExact ==
  \A c \in Calls : alone[c] =>
    /\ At(c, {"ask", "read"}) => call[c].told \in {Partial, disk[call[c].file]}
    /\ At(c, {"writing"}) /\ call[c].target = call[c].file =>
         /\ call[c].base = disk[call[c].file]
         /\ call[c].kind # "edit" => call[c].told = call[c].base

\* Violated: a query answers about a text that was in the file when it began, or
\* later ("Open or refresh `path` in the server, then return its hover info").
QuerySeesPresent == \A c \in Calls : call[c].told = Partial \/ call[c].told >= start[c]
=============================================================================
