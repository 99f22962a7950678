------------------------------- MODULE Memory -------------------------------
(***************************************************************************)
(* The notes of a project (memory.rs): one file per note, whose            *)
(* frontmatter repeats the note's name.  Tool calls read and write the     *)
(* files without a lock, on several threads.                               *)
(*                                                                         *)
(* A directory entry refers to a file, and so does an open descriptor:     *)
(* rename moves the entry, and who has the file open writes to it all the  *)
(* same.  fs::write opens and truncates in one step and writes in the      *)
(* next.  Of a file only the name in its frontmatter is kept; a file is    *)
(* named by the call that created it.                                      *)
(***************************************************************************)
EXTENDS Common

CONSTANTS Notes, MemoryCalls

ASSUME MemoryAssumption == None \notin Notes \cup MemoryCalls

VARIABLES
  note,    \* the directory: the file of each note, or None
  inside,  \* the name inside each file; None in an empty one
  edit,    \* what each call is doing
  exposed  \* history: files that were renamed while a call had them open for
           \* writing, or by a rename that ended before it had opened them

memoryVars == <<note, inside, edit, exposed>>

Unstarted == [pc |-> "new", from |-> None, to |-> None, file |-> None]
EditIs(c, pc) == edit[c].pc = pc
\* A call goes on, or is over and holds nothing any more.
Becomes(c, pc) == edit' = [edit EXCEPT ![c].pc = pc]
Ends(c, pc) == edit' = [edit EXCEPT ![c] = [Unstarted EXCEPT !.pc = pc]]
InProgress(c) == edit[c].pc \notin {"new", "done", "failed"}

From(c) == note[edit[c].from]
To(c)   == note[edit[c].to]

\* A rename that has moved the file and not yet opened it.
Moved(c) == edit[c].pc \in {"reread", "open"} /\ edit[c].from # edit[c].to

MemoryInit ==
  /\ note = [n \in Notes |-> None]
  /\ inside = [f \in MemoryCalls |-> None]
  /\ edit = [c \in MemoryCalls |-> Unstarted]
  /\ exposed = {}

\* A call begins; `to` is the new name, or the note itself.
Call(c, pc, from, to) ==
  /\ EditIs(c, "new")
  /\ edit' = [edit EXCEPT ![c] = [pc |-> pc, from |-> from, to |-> to, file |-> None]]
  /\ UNCHANGED <<note, inside, exposed>>

StartCall(c) ==
  \/ \E n \in Notes, pc \in {"open", "read", "delete"} : Call(c, pc, n, n)
  \/ \E old, new \in Notes : Call(c, "source", old, new)

-----------------------------------------------------------------------------
(* fs::write: the whole of write, and the end of edit and of rename *)

\* The file is created or truncated.
OpenNote(c) ==
  LET file == IF To(c) = None THEN c ELSE To(c) IN
  /\ EditIs(c, "open")
  /\ note' = [note EXCEPT ![edit[c].to] = file]
  /\ inside' = [inside EXCEPT ![file] = None]
  /\ edit' = [edit EXCEPT ![c].pc = "write", ![c].file = file]
  /\ UNCHANGED exposed

\* Mutant: the note keeps the name it was read with.
WriteOldName(c) ==
  /\ EditIs(c, "write")
  /\ inside' = [inside EXCEPT ![edit[c].file] = edit[c].from]
  /\ Ends(c, "done")
  /\ UNCHANGED <<note, exposed>>

\* The text is rendered under the call's name and goes into the open file, wherever
\* that is by now.
WriteNote(c) ==
  /\ EditIs(c, "write")
  /\ inside' = [inside EXCEPT ![edit[c].file] = edit[c].to]
  /\ Ends(c, "done")
  /\ UNCHANGED <<note, exposed>>

-----------------------------------------------------------------------------
(* delete, and the beginning of edit *)

DeleteNote(c) ==
  /\ EditIs(c, "delete")
  /\ note' = [note EXCEPT ![edit[c].from] = None]
  /\ Ends(c, IF From(c) = None THEN "failed" ELSE "done")
  /\ UNCHANGED <<inside, exposed>>

ReadNote(c) ==
  /\ EditIs(c, "read")
  /\ IF From(c) = None THEN Ends(c, "failed") ELSE Becomes(c, "open")
  /\ UNCHANGED <<note, inside, exposed>>

-----------------------------------------------------------------------------
(* rename: the old file must exist, the new one must not *)

CheckSource(c) ==
  /\ EditIs(c, "source")
  /\ IF From(c) = None THEN Ends(c, "failed") ELSE Becomes(c, "target")
  /\ UNCHANGED <<note, inside, exposed>>

CheckTarget(c) ==
  /\ EditIs(c, "target")
  /\ IF To(c) = None THEN Becomes(c, "move") ELSE Ends(c, "failed")
  /\ UNCHANGED <<note, inside, exposed>>

\* The file system replaces whatever has the new name by now.
MoveNote(c) ==
  /\ EditIs(c, "move")
  /\ IF From(c) = None THEN Ends(c, "failed") /\ UNCHANGED <<note, exposed>>
     ELSE /\ note' = [n \in Notes |-> IF n = edit[c].to THEN From(c)
                                      ELSE IF n = edit[c].from THEN None ELSE note[n]]
          /\ exposed' = exposed \cup {f \in {From(c)} : \E d \in MemoryCalls : EditIs(d, "write") /\ edit[d].file = f}
          /\ Becomes(c, "reread")
  /\ UNCHANGED inside

RereadNote(c) ==
  /\ EditIs(c, "reread")
  /\ IF To(c) = None THEN Ends(c, "failed") ELSE Becomes(c, "open")
  /\ UNCHANGED <<note, inside, exposed>>

-----------------------------------------------------------------------------
\* An operation on a file fails, a pattern is no regular expression, or the process
\* ends (then all calls in progress stop here, one after another).
Interrupted(c) ==
  /\ InProgress(c)
  /\ Ends(c, "failed")
  /\ exposed' = IF Moved(c) THEN exposed \cup ({To(c)} \ {None}) ELSE exposed
  /\ UNCHANGED <<note, inside>>

MemoryStep(c) ==
  \/ OpenNote(c) \/ WriteNote(c)
  \/ DeleteNote(c) \/ ReadNote(c)
  \/ CheckSource(c) \/ CheckTarget(c) \/ MoveNote(c) \/ RereadNote(c)
  \/ Interrupted(c)

MemoryNext == \E c \in MemoryCalls : StartCall(c) \/ MemoryStep(c)

-----------------------------------------------------------------------------
(* Properties *)

MemoryTypeOK ==
  /\ note \in [Notes -> MemoryCalls \cup {None}]
  /\ inside \in [MemoryCalls -> Notes \cup {None}]
  /\ edit \in [MemoryCalls -> [pc : {"new", "open", "write", "delete", "read", "source", "target", "move",
                                     "reread", "done", "failed"},
                               from : Notes \cup {None}, to : Notes \cup {None},
                               file : MemoryCalls \cup {None}]]
  /\ exposed \in SUBSET MemoryCalls

\* With no call in progress every note has the name of its file in it, or is empty,
\* whatever renames, edits, writes and deletions have overlapped and failed ("callers
\* can't drift the filename and the `name:` field apart").  Two ways the code does
\* leave are excepted (exposed): the file of a call that has it open is renamed, and a
\* rename ends after it has moved the file.
NamesAgree ==
  (\A c \in MemoryCalls : ~InProgress(c)) =>
    \A n \in Notes : note[n] \notin exposed \cup {None} => inside[note[n]] \in {n, None}
=============================================================================
