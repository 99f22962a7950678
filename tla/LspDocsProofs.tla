--------------------------- MODULE LspDocsProofs ---------------------------
(***************************************************************************)
(* What LspDocs promises, for any calls, files and cap on open documents.  *)
(***************************************************************************)
EXTENDS LspDocs, FiniteSetTheorems, WellFoundedInduction, TLAPS

CallStates == [pc : {"new", "ensure", "sync", "ask", "read", "ensureAgain",
                     "syncAgain", "resolve", "write", "apply", "command", "writing", "done", "failed"},
               kind : Kinds, file : Files \cup {None}, read : Nat, told : Nat,
               base : Nat, todo : SUBSET Files, target : Files \cup {None},
               msg : [file : Files \cup {None}, closed : SUBSET Files, doc : Docs]]

\* What the program counter of a call says about its other fields.
Shape(r) ==
  /\ r.pc = "new" => r = Fresh
  /\ r.pc # "new" => r.file \in Files
  /\ r.pc = "writing" <=> r.target # None
  /\ r.todo # {} => r.pc \in {"apply", "writing"}
  /\ r.target \notin r.todo
  /\ r.msg = NoMessage \/ r.target = None
CallShape == \A c \in Calls : Shape(call[c])

-----------------------------------------------------------------------------
(* The server follows the open documents *)

\* The notification of c is all that the server has still to be told.
Pending(c) ==
  LET msg == call[c].msg IN
  /\ msg.file \in Files /\ msg.file \notin msg.closed
  /\ msg.doc = Told(docs[msg.file])
  /\ \A g \in msg.closed : Told(docs[g]) = Closed
  /\ \A g \in Files \ (msg.closed \cup {msg.file}) : server[g] = Told(docs[g])

ClosedIsEmpty(ds) == \A g \in Files : ds[g].version = 0 => ds[g] = NoDoc
Silent == \A c \in Calls : call[c].msg = NoMessage
FollowsNow == \A f \in Files : server[f] = Told(docs[f])

FollowInv ==
  /\ ClosedIsEmpty(docs)
  /\ \A c \in Calls : call[c].msg # NoMessage => Pending(c)
  /\ Silent => FollowsNow

\* The documents open in the server, and a bound on how many.
ServerOpen == {f \in Files : server[f].version > 0}
AtMost(S, n) == IsFiniteSet(S) /\ Cardinality(S) <= n
BoundInv == AtMost(Open, MaxDocs) /\ AtMost(ServerOpen, MaxDocs)

-----------------------------------------------------------------------------
(* Answers are not older than the calls in progress *)

\* A text that c may be answered about.
NotOlder(c, text) == text = Partial \/ text >= floor[c]
Syncing == {"sync", "syncAgain"}
Synced == {"ask", "read", "ensureAgain", "syncAgain", "resolve", "write", "apply", "command", "writing"}

\* A file has the text last written to it, or part of one.
DiskInv == \A f \in Files : disk[f] \in {Partial, written[f]}

\* Texts only get newer.
StartInv == \A c \in Calls : call[c].pc # "new" =>
  /\ floor[c] <= start[c] /\ start[c] <= written[call[c].file]

\* What is about to reach the server is not too old for any call on the file.
ReadInv == \A d \in Calls : call[d].pc \in Syncing =>
  /\ call[d].read = Partial \/ call[d].read >= start[d]
  /\ \A c \in Calls : call[c].pc # "new" /\ call[c].file = call[d].file => NotOlder(c, call[d].read)

\* Nor is what a call finds open once it has made its document current.
TextInv == \A c \in Calls : call[c].pc \in Synced =>
  LET f == call[c].file IN
  /\ f \in Open => NotOlder(c, docs[f].text)
  /\ call[c].msg = NoMessage /\ server[f].version > 0 => NotOlder(c, server[f].text)

ToldInv == \A c \in Calls : NotOlder(c, call[c].told)

AnswerInv == DiskInv /\ StartInv /\ ReadInv /\ TextInv /\ ToldInv

-----------------------------------------------------------------------------
(* A call that runs alone *)

\* A call in progress that nothing has interleaved with.
Alone(c) == alone[c] /\ Active(c)

NobodyElse == \A c, d \in Calls : Alone(c) /\ Active(d) => c = d

\* What such a call knows of its file, and what it does to it.
Knows(r) ==
  LET f == r.file IN
  /\ r.pc \in Syncing => r.read = disk[f]
  /\ r.pc \in Synced =>
       /\ f \in Open => docs[f].text = disk[f]
       /\ r.msg = NoMessage /\ server[f].version > 0 => server[f].text = disk[f]
  /\ r.pc \in {"ensure", "sync", "ask", "read"} => r.told \in {Partial, disk[f]}

Edits(r) ==
  LET f == r.file IN
  /\ r.pc \in {"read", "ensureAgain", "syncAgain", "write"} /\ r.kind # "edit" => r.told = disk[f]
  /\ r.pc \in {"ensureAgain", "syncAgain", "write"} => r.base = disk[f]
  /\ f \in r.todo => r.told = disk[f]
  /\ r.target = f => r.base = disk[f] /\ (r.kind # "edit" => r.told = disk[f])

AloneInv == NobodyElse /\ \A c \in Calls : Alone(c) => Knows(call[c]) /\ Edits(call[c])

-----------------------------------------------------------------------------
(* Types *)

\* The type invariant, strengthened; its part about the calls; its rest.
TypeInv == TypeOK /\ CallShape
CallsOK == call \in [Calls -> CallStates] /\ CallShape

\* What a call can have to send.
Messages == [file : Files \cup {None}, closed : SUBSET Files, doc : Docs]

\* No message is a message of the right shape.
LEMMA NoMessageType == NoMessage \in Messages
  BY DEF NoMessage, Closed, Docs, Partial, Messages

\* What a read of a file finds is a text.
LEMMA OnDiskType ==
  ASSUME TypeOK, NEW f \in Files
  PROVE  OnDisk(f) \in Nat
  BY DEF TypeOK, OnDisk, Partial

\* The server answers about a text.
LEMMA AnswerType ==
  ASSUME TypeInv, NEW c \in Calls, call[c].pc # "new"
  PROVE  Answer(c) \in Nat
  BY OnDiskType DEF TypeInv, CallShape, Shape, TypeOK, Answer, Docs

\* The type invariant, of the calls alone.
LEMMA CallsTyped ==
  ASSUME TypeInv
  PROVE  CallsOK
  BY DEF TypeInv, TypeOK, CallsOK, CallStates

\* It is enough to look at the record of the call that moves.
LEMMA CallsFrom ==
  ASSUME TypeInv, NEW c \in Calls, call' = [call EXCEPT ![c] = call'[c]],
         call'[c] \in CallStates, Shape(call'[c])
  PROVE  CallsOK'
  BY CallsTyped DEF CallsOK, CallShape

\* One call, whatever it does.
LEMMA CallTyped ==
  ASSUME TypeInv, NEW c \in Calls
  PROVE  call[c] \in CallStates /\ Shape(call[c])
  BY CallsTyped DEF CallsOK, CallShape

\* Each step of a call leaves the calls well-formed: the read before a document is made current.
LEMMA EnsureReadTyped ==
  ASSUME TypeInv, NEW c \in Calls, EnsureRead(c)
  PROVE  CallsOK'
<1>1. call[c].file \in Files
  BY CallTyped DEF EnsureRead, At, Shape
<1>2. OnDisk(call[c].file) \in Nat
  BY <1>1, OnDiskType DEF TypeInv
<1>a. /\ call' = [call EXCEPT ![c] = call'[c]]
      /\ call'[c] = [call[c] EXCEPT !.read = OnDisk(call[c].file), !.pc = IF @ = "ensure" THEN "sync" ELSE "syncAgain"]
  BY DEF TypeInv, TypeOK, EnsureRead
<1>b. call[c] \in CallStates /\ Shape(call[c])
  BY CallTyped
<1>p. call[c].pc \in {"ensure", "ensureAgain"}
  BY DEF EnsureRead, At
<1>c. call'[c] \in CallStates
  BY <1>1, <1>2, <1>a, <1>b, <1>p DEF CallStates
<1>d. Shape(call'[c])
  BY <1>1, <1>2, <1>a, <1>b, <1>p, DocsAssumption DEF CallStates, Shape
<1> QED
  BY <1>a, <1>c, <1>d, CallsFrom

\* The answers that leave ask.
LEMMA AnsweredTyped ==
  ASSUME TypeInv, NEW c \in Calls, NEW kinds, NEW pc \in {"done", "ask", "read", "apply", "resolve", "command"},
         NEW todo \in SUBSET Files, todo # {} => pc = "apply",
         Answered(c, kinds, pc, todo)
  PROVE  CallsOK'
<1>1. Answer(c) \in Nat
  BY AnswerType DEF Answered, At
<1>a. /\ call' = [call EXCEPT ![c] = call'[c]]
      /\ call'[c] = [call[c] EXCEPT !.pc = pc, !.told = Answer(c), !.todo = todo]
  BY DEF TypeInv, TypeOK, Answered
<1>b. call[c] \in CallStates /\ Shape(call[c])
  BY CallTyped
<1>p. call[c].pc = "ask"
  BY DEF Answered, At
<1>c. call'[c] \in CallStates
  BY <1>1, <1>a, <1>b, <1>p DEF CallStates
<1>d. Shape(call'[c])
  BY <1>1, <1>a, <1>b, <1>p, DocsAssumption DEF CallStates, Shape
<1> QED
  BY <1>a, <1>c, <1>d, CallsFrom

\* The notification that goes out.
LEMMA SendTyped ==
  ASSUME TypeInv, NEW c \in Calls, Send(c)
  PROVE  CallsOK'
<1>1. NoMessage \in [file : Files \cup {None}, closed : SUBSET Files, doc : Docs]
  BY NoMessageType DEF Messages
<1>2. call[c].pc # "new"
  BY CallTyped DEF Shape, Send, Fresh
<1>a. /\ call' = [call EXCEPT ![c] = call'[c]]
      /\ call'[c] = [call[c] EXCEPT !.msg = NoMessage]
  BY DEF TypeInv, TypeOK, Send
<1>b. call[c] \in CallStates /\ Shape(call[c])
  BY CallTyped
<1>c. call'[c] \in CallStates
  BY <1>1, <1>2, <1>a, <1>b DEF CallStates
<1>d. Shape(call'[c])
  BY <1>1, <1>2, <1>a, <1>b, DocsAssumption DEF CallStates, Shape
<1> QED
  BY <1>a, <1>c, <1>d, CallsFrom

\* The answer to codeAction/resolve.
LEMMA ResolveTyped ==
  ASSUME TypeInv, NEW c \in Calls, Resolve(c)
  PROVE  CallsOK'
<1>1. Answer(c) \in Nat
  BY AnswerType DEF Resolve, At
<1>2. PICK todo \in SUBSET Files :
         call' = [call EXCEPT ![c].pc = IF todo = {} THEN "command" ELSE "apply",
                              ![c].told = Answer(c), ![c].todo = todo]
  BY DEF Resolve
<1>a. /\ call' = [call EXCEPT ![c] = call'[c]]
      /\ call'[c] = [call[c] EXCEPT !.pc = IF todo = {} THEN "command" ELSE "apply", !.told = Answer(c), !.todo = todo]
  BY <1>2 DEF TypeInv, TypeOK, Resolve
<1>b. call[c] \in CallStates /\ Shape(call[c])
  BY CallTyped
<1>p. call[c].pc = "resolve"
  BY DEF Resolve, At
<1>c. call'[c] \in CallStates
  BY <1>1, <1>a, <1>b, <1>p DEF CallStates
<1>d. Shape(call'[c])
  BY <1>1, <1>a, <1>b, <1>p, DocsAssumption DEF CallStates, Shape
<1> QED
  BY <1>a, <1>c, <1>d, CallsFrom

\* The command of a code action.
LEMMA RunCommandTyped ==
  ASSUME TypeInv, NEW c \in Calls, RunCommand(c)
  PROVE  CallsOK'
<1>a. /\ call' = [call EXCEPT ![c] = call'[c]]
      /\ call'[c] = [call[c] EXCEPT !.pc = "done"]
  BY DEF TypeInv, TypeOK, RunCommand
<1>b. call[c] \in CallStates /\ Shape(call[c])
  BY CallTyped
<1>p. call[c].pc = "command"
  BY DEF RunCommand, At
<1>c. call'[c] \in CallStates
  BY <1>a, <1>b, <1>p DEF CallStates
<1>d. Shape(call'[c])
  BY <1>a, <1>b, <1>p, DocsAssumption DEF CallStates, Shape
<1> QED
  BY <1>a, <1>c, <1>d, CallsFrom

\* A call that gives up.
LEMMA FailTyped ==
  ASSUME TypeInv, NEW c \in Calls, Fail(c)
  PROVE  CallsOK'
<1>a. /\ call' = [call EXCEPT ![c] = call'[c]]
      /\ call'[c] = [call[c] EXCEPT !.pc = "failed", !.todo = {}]
  BY DEF TypeInv, TypeOK, Fail
<1>b. call[c] \in CallStates /\ Shape(call[c])
  BY CallTyped
<1>p. call[c].pc \in {"ensure", "ask", "resolve", "read", "ensureAgain", "apply", "command"}
  BY DEF Fail, At
<1>c. call'[c] \in CallStates
  BY <1>a, <1>b, <1>p DEF CallStates
<1>d. Shape(call'[c])
  BY <1>a, <1>b, <1>p, DocsAssumption DEF CallStates, Shape
<1> QED
  BY <1>a, <1>c, <1>d, CallsFrom

\* The read of the text to edit.
LEMMA ReadTyped ==
  ASSUME TypeInv, NEW c \in Calls, Read(c)
  PROVE  CallsOK'
<1>1. call[c].file \in Files
  BY CallTyped DEF Read, At, Shape
<1>2. OnDisk(call[c].file) \in Nat
  BY <1>1, OnDiskType DEF TypeInv
<1>a. /\ call' = [call EXCEPT ![c] = call'[c]]
      /\ call'[c] = [call[c] EXCEPT !.pc = "ensureAgain", !.base = OnDisk(call[c].file)]
  BY DEF TypeInv, TypeOK, Read
<1>b. call[c] \in CallStates /\ Shape(call[c])
  BY CallTyped
<1>p. call[c].pc = "read"
  BY DEF Read, At
<1>c. call'[c] \in CallStates
  BY <1>1, <1>2, <1>a, <1>b, <1>p DEF CallStates
<1>d. Shape(call'[c])
  BY <1>1, <1>2, <1>a, <1>b, <1>p, DocsAssumption DEF CallStates, Shape
<1> QED
  BY <1>a, <1>c, <1>d, CallsFrom

\* The write of an edited text begins.
LEMMA WriteEditTyped ==
  ASSUME TypeInv, NEW c \in Calls, WriteEdit(c)
  PROVE  CallsOK'
<1>1. call[c].file \in Files
  BY CallTyped DEF WriteEdit, At, Shape
<1>a. /\ call' = [call EXCEPT ![c] = call'[c]]
      /\ call'[c] = [call[c] EXCEPT !.pc = "writing", !.target = call[c].file]
  BY DEF TypeInv, TypeOK, WriteEdit
<1>b. call[c] \in CallStates /\ Shape(call[c])
  BY CallTyped
<1>p. call[c].pc = "write" /\ call[c].msg = NoMessage
  BY DEF WriteEdit, At
<1>c. call'[c] \in CallStates
  BY <1>1, <1>a, <1>b, <1>p DEF CallStates
<1>d. Shape(call'[c])
  BY <1>1, <1>a, <1>b, <1>p, DocsAssumption DEF CallStates, Shape
<1> QED
  BY <1>a, <1>c, <1>d, CallsFrom

\* The write of a file the answer edits begins.
LEMMA WriteAnswerTyped ==
  ASSUME TypeInv, NEW c \in Calls, NEW f \in Files, WriteAnswer(c, f)
  PROVE  CallsOK'
<1>1. disk[f] \in Nat
  BY DEF TypeInv, TypeOK
<1>a. /\ call' = [call EXCEPT ![c] = call'[c]]
      /\ call'[c] = [call[c] EXCEPT !.pc = "writing", !.target = f, !.todo = @ \ {f},
                          !.base = IF f = call[c].file THEN disk[f] ELSE @]
  BY DEF TypeInv, TypeOK, WriteAnswer
<1>b. call[c] \in CallStates /\ Shape(call[c])
  BY CallTyped
<1>p. call[c].pc = "apply" /\ f \in call[c].todo /\ call[c].msg = NoMessage
  BY DEF WriteAnswer, At
<1>c. call'[c] \in CallStates
  BY <1>1, <1>a, <1>b, <1>p DEF CallStates
<1>d. Shape(call'[c])
  BY <1>1, <1>a, <1>b, <1>p, DocsAssumption DEF CallStates, Shape
<1> QED
  BY <1>a, <1>c, <1>d, CallsFrom

\* A write that fails.
LEMMA WriteFailsTyped ==
  ASSUME TypeInv, NEW c \in Calls, WriteFails(c)
  PROVE  CallsOK'
<1>a. /\ call' = [call EXCEPT ![c] = call'[c]]
      /\ call'[c] = [call[c] EXCEPT !.pc = "failed", !.target = None, !.todo = {}]
  BY DEF TypeInv, TypeOK, WriteFails
<1>b. call[c] \in CallStates /\ Shape(call[c])
  BY CallTyped
<1>p. call[c].pc = "writing"
  BY DEF WriteFails, At
<1>c. call'[c] \in CallStates
  BY <1>a, <1>b, <1>p DEF CallStates
<1>d. Shape(call'[c])
  BY <1>a, <1>b, <1>p, DocsAssumption DEF CallStates, Shape
<1> QED
  BY <1>a, <1>c, <1>d, CallsFrom

\* A call that starts.
LEMMA BeginTyped ==
  ASSUME TypeInv, NEW c \in Calls, NEW kind \in Kinds, NEW f \in Files, Begin(c, kind, f)
  PROVE  CallsOK'
<1>a. /\ call' = [call EXCEPT ![c] = call'[c]]
      /\ call'[c] = [call[c] EXCEPT !.pc = "ensure", !.kind = kind, !.file = f]
  BY DEF TypeInv, TypeOK, Begin
<1>b. call[c] \in CallStates /\ Shape(call[c])
  BY CallTyped
<1>p. call[c].pc = "new"
  BY DEF Begin, At
<1>c. call'[c] \in CallStates
  BY <1>a, <1>b, <1>p DEF CallStates
<1>d. Shape(call'[c])
  BY <1>a, <1>b, <1>p, DocsAssumption DEF CallStates, Shape, Fresh
<1> QED
  BY <1>a, <1>c, <1>d, CallsFrom

\* A use of a document changes neither the version nor the text of any.
LEMMA TouchType ==
  ASSUME NEW ds \in [Files -> [version : Nat, text : Nat, used : Nat]], NEW f \in Files, TypeOK
  PROVE  /\ Touch(ds, f) \in [Files -> [version : Nat, text : Nat, used : Nat]]
         /\ \A g \in Files : ds[g].version # 0 => Told(Touch(ds, f)[g]) = Told(ds[g])
         /\ \A g \in Files : ds[g].version = 0 => Touch(ds, f)[g] = NoDoc
<1>1. Cardinality(Files) \in Nat
  BY DocsAssumption, FS_CardinalityType
<1>2. ASSUME NEW g \in Files PROVE Rank(g) \in Nat
  <2>1. IsFiniteSet({h \in Open : docs[h].used < docs[g].used})
    BY DocsAssumption, FS_Subset DEF Open
  <2> QED
    BY <2>1, FS_CardinalityType DEF Rank
<1>3. NoDoc \in [version : Nat, text : Nat, used : Nat]
  BY DEF NoDoc, Partial
<1>4. ASSUME NEW g \in Files
      PROVE  /\ Touch(ds, f)[g] \in [version : Nat, text : Nat, used : Nat]
             /\ ds[g].version # 0 => Told(Touch(ds, f)[g]) = Told(ds[g])
             /\ ds[g].version = 0 => Touch(ds, f)[g] = NoDoc
  <2>1. CASE ds[g].version = 0
    <3>1. Touch(ds, f)[g] = NoDoc
      BY <2>1 DEF Touch
    <3> QED
      BY <1>3, <2>1, <3>1
  <2>2. CASE ds[g].version # 0 /\ g = f
    <3>1. Touch(ds, f)[g] = [ds[g] EXCEPT !.used = Cardinality(Files) + 1]
      BY <2>2 DEF Touch
    <3> QED
      BY <1>1, <2>2, <3>1 DEF Told
  <2>3. CASE ds[g].version # 0 /\ g # f
    <3>1. Touch(ds, f)[g] = [ds[g] EXCEPT !.used = Rank(g)]
      BY <2>3 DEF Touch
    <3> QED
      BY <1>2, <2>3, <3>1 DEF Told
  <2> QED
    BY <2>1, <2>2, <2>3
<1>5. Touch(ds, f) = [g \in Files |-> Touch(ds, f)[g]]
  BY DEF Touch
<1> QED
  BY <1>4, <1>5

\* Making a document current.
LEMMA SyncTyped ==
  ASSUME TypeInv, NEW c \in Calls, Sync(c)
  PROVE  CallsOK' /\ docs' \in [Files -> [version : Nat, text : Nat, used : Nat]]
<1> DEFINE f == call[c].file
           new == Refreshed(f, call[c].read)
           closing == IF f \in Open THEN {} ELSE ToClose
           msg == IF new.version = docs[f].version THEN NoMessage
                    ELSE [file |-> f, closed |-> closing, doc |-> Told(new)]
           ds == [g \in Files |-> IF g = f THEN new ELSE IF g \in closing THEN NoDoc ELSE docs[g]]
<1>1. f \in Files
  BY DEF TypeInv, CallShape, Shape, Sync, At
<1>2. call[c].read \in Nat
  BY DEF TypeInv, TypeOK
<1>3. new \in [version : Nat, text : Nat, used : Nat]
  BY <1>1, <1>2 DEF TypeInv, TypeOK, Refreshed
<1>4. closing \in SUBSET Files
  BY DEF ToClose, Open
<1>5. msg \in Messages
  BY <1>1, <1>3, <1>4, NoMessageType DEF Messages, Docs, Told
<1>6. ds \in [Files -> [version : Nat, text : Nat, used : Nat]]
  BY <1>3 DEF TypeInv, TypeOK, NoDoc, Partial
<1>7. docs' = Touch(ds, f)
  BY DEF Sync
<1>8. docs' \in [Files -> [version : Nat, text : Nat, used : Nat]]
  <2> HIDE DEF ds, f
  <2> QED
    BY <1>1, <1>6, <1>7, TouchType DEF TypeInv
<1>9. AfterSync(c) \in {"write", "read", "ask"}
  BY DEF AfterSync
<1>10. call' = [call EXCEPT ![c].pc = AfterSync(c), ![c].msg = msg]
  BY DEF Sync
<1>11. CallsOK'
  <2>1. call[c].pc \in {"sync", "syncAgain"}
    BY DEF Sync, At
  <2> HIDE DEF msg
  <2> QED
    <3>a. /\ call' = [call EXCEPT ![c] = call'[c]]
          /\ call'[c] = [call[c] EXCEPT !.pc = AfterSync(c), !.msg = msg]
      BY <1>10 DEF TypeInv, TypeOK
    <3>b. call[c] \in CallStates /\ Shape(call[c])
      BY CallTyped
    <3>c. call'[c] \in CallStates
      BY <1>5, <1>9, <3>a, <3>b DEF CallStates, Messages
    <3>d. Shape(call'[c])
      BY <1>9, <2>1, <3>a, <3>b DEF CallStates, Shape
    <3> QED
      BY <3>a, <3>c, <3>d, CallsFrom
<1> QED
  BY <1>8, <1>11

\* A write that ends.
LEMMA WrittenTyped ==
  ASSUME TypeInv, NEW c \in Calls, Written(c)
  PROVE  CallsOK' /\ docs' \in [Files -> [version : Nat, text : Nat, used : Nat]]
<1> DEFINE f == call[c].target
           new == [version |-> docs[f].version + 1, text |-> written[f] + 1, used |-> 0]
           msg == IF f \in Open THEN [file |-> f, closed |-> {}, doc |-> Told(new)] ELSE NoMessage
           ds == [docs EXCEPT ![f] = new]
<1>1. f \in Files /\ call[c].pc = "writing"
  BY DEF TypeInv, CallShape, Shape, TypeOK, Written, At
<1>3. new \in [version : Nat, text : Nat, used : Nat]
  BY <1>1 DEF TypeInv, TypeOK
<1>5. msg \in Messages
  BY <1>1, <1>3, NoMessageType DEF Messages, Docs, Told
<1>6. ds \in [Files -> [version : Nat, text : Nat, used : Nat]]
  BY <1>3 DEF TypeInv, TypeOK
<1>7. docs' = IF f \in Open THEN Touch(ds, f) ELSE docs
  BY DEF Written
<1>8. docs' \in [Files -> [version : Nat, text : Nat, used : Nat]]
  <2> HIDE DEF ds, f
  <2> QED
    BY <1>1, <1>6, <1>7, TouchType DEF TypeInv, TypeOK
<1>9. AfterWrite(c) \in {"apply", "command", "done"} /\ (call[c].todo # {} => AfterWrite(c) = "apply")
  <2>1. CASE call[c].todo # {}
    BY <2>1 DEF AfterWrite
  <2>2. CASE call[c].todo = {} /\ call[c].kind = "action"
    BY <2>2 DEF AfterWrite
  <2>3. CASE call[c].todo = {} /\ call[c].kind # "action"
    BY <2>3 DEF AfterWrite
  <2> QED
    BY <2>1, <2>2, <2>3
<1>10. call' = [call EXCEPT ![c].pc = AfterWrite(c), ![c].target = None, ![c].msg = msg]
  BY DEF Written
<1>11. CallsOK'
  <2> HIDE DEF msg, f
  <2> QED
    <3>a. /\ call' = [call EXCEPT ![c] = call'[c]]
          /\ call'[c] = [call[c] EXCEPT !.pc = AfterWrite(c), !.target = None, !.msg = msg]
      BY <1>10 DEF TypeInv, TypeOK
    <3>b. call[c] \in CallStates /\ Shape(call[c])
      BY CallTyped
    <3>c. call'[c] \in CallStates
      BY <1>5, <1>9, <3>a, <3>b DEF CallStates, Messages
    <3>d. Shape(call'[c])
      BY <1>1, <1>9, <3>a, <3>b, DocsAssumption DEF CallStates, Shape
    <3> QED
      BY <3>a, <3>c, <3>d, CallsFrom
<1> QED
  BY <1>8, <1>11

\* The steps that leave files, documents and server alone.
Quiet(c) ==
  \/ EnsureRead(c) \/ Query(c) \/ QueryHierarchy(c) \/ AskSymbol(c) \/ AskRename(c) \/ AskActions(c)
  \/ Resolve(c) \/ RunCommand(c) \/ Read(c) \/ WriteEdit(c) \/ (\E f \in Files : WriteAnswer(c, f)) \/ Fail(c)

\* The five ways an answer is taken, as one.
LEMMA Asked ==
  ASSUME TypeInv, NEW c \in Calls,
         Query(c) \/ QueryHierarchy(c) \/ AskSymbol(c) \/ AskRename(c) \/ AskActions(c)
  PROVE  \E kinds \in SUBSET Kinds, pc \in {"done", "ask", "read", "apply", "resolve", "command"}, todo \in SUBSET Files :
           (todo # {} <=> pc = "apply") /\ Answered(c, kinds, pc, todo)
           /\ (pc = "read" => kinds = {"symbol"})
<1>1. CASE Query(c)
  BY <1>1 DEF Query, Kinds
<1>2. CASE QueryHierarchy(c)
  BY <1>2 DEF QueryHierarchy, Kinds
<1>3. CASE AskSymbol(c)
  BY <1>3 DEF AskSymbol, Kinds
<1>4. CASE AskRename(c)
  BY <1>4 DEF AskRename, Kinds
<1>5. CASE AskActions(c)
  <2>1. PICK todo \in SUBSET Files, pc \in {"apply", "resolve", "command", "done"} :
          (pc = "apply") = (todo # {}) /\ Answered(c, {"action"}, pc, todo)
    BY <1>5 DEF AskActions
  <2> QED
    BY <2>1 DEF Kinds
<1> QED
  BY <1>1, <1>2, <1>3, <1>4, <1>5

\* What every quiet step leaves alone: the texts, the documents, the server and the message.
LEMMA QuietStep ==
  ASSUME TypeInv, NEW c \in Calls, Quiet(c)
  PROVE  /\ UNCHANGED <<disk, written, docs, server, outside, start, floor, alone>>
         /\ call' = [call EXCEPT ![c] = call'[c]]
         /\ call'[c].file = call[c].file /\ call'[c].kind = call[c].kind
         /\ call[c].msg = NoMessage /\ call'[c].msg = NoMessage
         /\ call[c].pc \notin {"new", "writing", "done", "failed"} /\ call'[c].pc # "new"
         /\ \/ lock' = lock /\ call'[c].target = call[c].target
            \/ lock = None /\ lock' = c
<1> USE DEF At, files, history
<1>0. call \in [Calls -> CallStates]
  BY CallsTyped DEF CallsOK
<1>1. CASE EnsureRead(c)
  BY <1>0, <1>1 DEF EnsureRead, CallStates
<1>2. CASE Query(c) \/ QueryHierarchy(c) \/ AskSymbol(c) \/ AskRename(c) \/ AskActions(c)
  <2>1. PICK kinds \in SUBSET Kinds, pc \in {"done", "ask", "read", "apply", "resolve", "command"}, todo \in SUBSET Files :
           Answered(c, kinds, pc, todo)
    BY <1>2, Asked
  <2> QED
    BY <1>0, <2>1 DEF Answered, CallStates
<1>3. CASE Resolve(c)
  <2>1. PICK todo \in SUBSET Files :
          call' = [call EXCEPT ![c].pc = IF todo = {} THEN "command" ELSE "apply",
                               ![c].told = Answer(c), ![c].todo = todo]
    BY <1>3 DEF Resolve
  <2> QED
    <3>1. /\ UNCHANGED <<disk, written, docs, server, outside, start, floor, alone, lock>>
          /\ call[c].pc = "resolve" /\ call[c].msg = NoMessage
      BY <1>3 DEF Resolve
    <3> QED
      BY <1>0, <2>1, <3>1 DEF CallStates
<1>4. CASE RunCommand(c)
  BY <1>0, <1>4 DEF RunCommand, CallStates
<1>5. CASE Read(c)
  BY <1>0, <1>5 DEF Read, CallStates
<1>6. CASE WriteEdit(c)
  BY <1>0, <1>6 DEF WriteEdit, CallStates
<1>7. CASE \E f \in Files : WriteAnswer(c, f)
  BY <1>0, <1>7 DEF WriteAnswer, CallStates
<1>8. CASE Fail(c)
  BY <1>0, <1>8 DEF Fail, CallStates
<1> QED
  BY <1>1, <1>2, <1>3, <1>4, <1>5, <1>6, <1>7, <1>8 DEF Quiet

\* A quiet step leaves the calls well-formed.
LEMMA QuietCalls ==
  ASSUME TypeInv, NEW c \in Calls, Quiet(c)
  PROVE  CallsOK'
<1>1. CASE Query(c) \/ QueryHierarchy(c) \/ AskSymbol(c) \/ AskRename(c) \/ AskActions(c)
  <2>1. PICK kinds \in SUBSET Kinds, pc \in {"done", "ask", "read", "apply", "resolve", "command"}, todo \in SUBSET Files :
           (todo # {} <=> pc = "apply") /\ Answered(c, kinds, pc, todo)
    BY <1>1, Asked
  <2> QED
    BY <2>1, AnsweredTyped
<1> QED
  BY <1>1, EnsureReadTyped, ResolveTyped, RunCommandTyped, FailTyped, ReadTyped, WriteEditTyped, WriteAnswerTyped DEF Quiet

\* A record that goes with the lock.
Holds(r) == r.target # None \/ r.msg # NoMessage
LockInv == \A c \in Calls : Holds(call[c]) => lock = c

\* The steps of a call.
LEMMA StepCases ==
  ASSUME NEW c \in Calls, CallStep(c)
  PROVE  Quiet(c) \/ Sync(c) \/ Send(c) \/ Written(c) \/ WriteFails(c)
  BY DEF CallStep, Quiet

\* Making a document current, spelled out.
LEMMA SyncEffect ==
  ASSUME TypeInv, NEW c \in Calls, Sync(c)
  PROVE  LET f == call[c].file
             new == Refreshed(f, call[c].read)
             closing == IF f \in Open THEN {} ELSE ToClose
             same == new.version = docs[f].version
         IN  /\ f \in Files /\ call[c].pc \in Syncing /\ call[c].msg = NoMessage /\ lock = None
             /\ call' = [call EXCEPT ![c] = call'[c]]
             /\ call'[c] = [call[c] EXCEPT !.pc = AfterSync(c),
                              !.msg = IF same THEN NoMessage ELSE [file |-> f, closed |-> closing, doc |-> Told(new)]]
             /\ lock' = IF same THEN None ELSE c
             /\ docs' = Touch([g \in Files |-> IF g = f THEN new ELSE IF g \in closing THEN NoDoc ELSE docs[g]], f)
             /\ new \in [version : Nat, text : Nat, used : Nat]
             /\ closing \in SUBSET Files
             /\ UNCHANGED <<disk, written, server, outside, start, floor, alone>>
<1>1. call[c].file \in Files
  BY CallTyped DEF Shape, Sync, At
<1>2. Refreshed(call[c].file, call[c].read) \in [version : Nat, text : Nat, used : Nat]
  BY <1>1, CallTyped DEF TypeInv, TypeOK, Refreshed
<1> QED
  BY <1>1, <1>2 DEF Sync, At, Syncing, files, history, TypeInv, TypeOK, ToClose, Open

\* The end of a write, spelled out.
LEMMA WrittenEffect ==
  ASSUME TypeInv, NEW c \in Calls, Written(c)
  PROVE  LET f == call[c].target
             new == [version |-> docs[f].version + 1, text |-> written[f] + 1, used |-> 0]
         IN  /\ f \in Files /\ call[c].pc = "writing" /\ call[c].msg = NoMessage
             /\ call' = [call EXCEPT ![c] = call'[c]]
             /\ call'[c] = [call[c] EXCEPT !.pc = AfterWrite(c), !.target = None,
                              !.msg = IF f \in Open THEN [file |-> f, closed |-> {}, doc |-> Told(new)] ELSE NoMessage]
             /\ lock' = IF f \in Open THEN c ELSE None
             /\ docs' = IF f \in Open THEN Touch([docs EXCEPT ![f] = new], f) ELSE docs
             /\ new \in [version : Nat, text : Nat, used : Nat]
             /\ written' = [written EXCEPT ![f] = @ + 1]
             /\ disk' = [disk EXCEPT ![f] = written[f] + 1]
             /\ UNCHANGED <<server, outside, start, floor, alone>>
<1>1. call[c].target \in Files
  BY CallTyped DEF Shape, Written, At, CallStates
<1>2. /\ call \in [Calls -> CallStates]
      /\ written \in [Files -> Nat] /\ disk \in [Files -> Nat]
      /\ docs \in [Files -> [version : Nat, text : Nat, used : Nat]]
  BY CallsTyped DEF TypeInv, TypeOK, CallsOK
<1>3. call[c].pc = "writing" /\ call[c].msg = NoMessage
  BY DEF Written, At
<1>4. /\ call' = [call EXCEPT ![c] = call'[c]]
      /\ call'[c] = [call[c] EXCEPT !.pc = AfterWrite(c), !.target = None,
            !.msg = IF call[c].target \in Open
                    THEN [file |-> call[c].target, closed |-> {},
                          doc |-> Told([version |-> docs[call[c].target].version + 1,
                                        text |-> written[call[c].target] + 1, used |-> 0])]
                    ELSE NoMessage]
  BY <1>2 DEF Written
<1>5. /\ written' = [written EXCEPT ![call[c].target] = @ + 1]
      /\ disk' = [disk EXCEPT ![call[c].target] = written'[call[c].target]]
      /\ UNCHANGED <<server, outside, start, floor, alone>>
  BY DEF Written, history
<1>6. disk' = [disk EXCEPT ![call[c].target] = written[call[c].target] + 1]
  BY <1>1, <1>2, <1>5
<1>7. [version |-> docs[call[c].target].version + 1, text |-> written[call[c].target] + 1, used |-> 0]
        \in [version : Nat, text : Nat, used : Nat]
  BY <1>1, <1>2
<1> QED
  BY <1>1, <1>3, <1>4, <1>5, <1>6, <1>7 DEF Written

\* Telling the server, spelled out.
LEMMA SendEffect ==
  ASSUME TypeInv, NEW c \in Calls, Send(c)
  PROVE  /\ call[c].msg # NoMessage
         /\ call' = [call EXCEPT ![c] = call'[c]] /\ call'[c] = [call[c] EXCEPT !.msg = NoMessage]
         /\ lock' = None
         /\ UNCHANGED <<disk, written, docs, outside, start, floor, alone>>
  BY DEF Send, files, history, TypeInv, TypeOK

\* A failed write, spelled out.
LEMMA WriteFailsEffect ==
  ASSUME TypeInv, NEW c \in Calls, WriteFails(c)
  PROVE  /\ call[c].pc = "writing" /\ call[c].msg = NoMessage /\ call[c].target \in Files
         /\ call' = [call EXCEPT ![c] = call'[c]]
         /\ call'[c] = [call[c] EXCEPT !.pc = "failed", !.target = None, !.todo = {}]
         /\ lock' = None /\ disk' = [disk EXCEPT ![call[c].target] = Partial]
         /\ UNCHANGED <<written, docs, server, outside, start, floor, alone>>
  BY CallTyped DEF WriteFails, At, Shape, CallStates, history, TypeInv, TypeOK

\* Whoever writes a file or has a message to send holds the lock of the documents.
LEMMA LockStep ==
  ASSUME TypeInv, NEW c \in Calls, CallStep(c)
  PROVE  LockInv' /\ lock' \in Calls \cup {None}
<1>0. LockInv /\ lock \in Calls \cup {None}
  BY DEF TypeInv, TypeOK, LockInv, Holds
<1>1. call \in [Calls -> CallStates] /\ call[c] \in CallStates /\ Shape(call[c]) /\ None \notin Calls
  BY CallsTyped, CallTyped, DocsAssumption DEF CallsOK
<1>a. SUFFICES /\ call' = [call EXCEPT ![c] = call'[c]]
               /\ Holds(call'[c]) => lock' = c
               /\ lock = c \/ lock' = lock \/ lock = None
               /\ lock' \in {c, None, lock}
  BY <1>0, <1>1 DEF LockInv
<1>2. CASE Quiet(c)
  BY <1>0, <1>1, <1>2, QuietStep DEF LockInv, Holds
<1>3. CASE Sync(c)
  <2> DEFINE f == call[c].file
             new == Refreshed(f, call[c].read)
             closing == IF f \in Open THEN {} ELSE ToClose
             same == new.version = docs[f].version
             msg == IF same THEN NoMessage ELSE [file |-> f, closed |-> closing, doc |-> Told(new)]
  <2>0. /\ call'[c] = [call[c] EXCEPT !.pc = AfterSync(c), !.msg = msg]
        /\ call[c].pc \in Syncing
        /\ lock = None
        /\ lock' = IF same THEN None ELSE c
        /\ call' = [call EXCEPT ![c] = call'[c]]
    BY <1>3, SyncEffect
  <2> HIDE DEF msg, same
  <2>1. call'[c].target = call[c].target /\ call[c].target = None
    <3>1. /\ call'[c] = [call[c] EXCEPT !.pc = AfterSync(c), !.msg = call'[c].msg]
          /\ call[c].pc \in Syncing
      BY <2>0, <1>1 DEF CallStates
    <3> QED
      BY <1>1, <3>1 DEF Shape, Syncing, CallStates
  <2>2. lock = None /\ lock' \in {c, None} /\ (lock' = None => call'[c].msg = NoMessage)
    BY <1>1, <2>0 DEF CallStates, msg
  <2> QED
    BY <2>0, <2>1, <2>2 DEF Holds
<1>4. CASE Send(c)
  <2>0. call'[c] = [call[c] EXCEPT !.msg = NoMessage] /\ call[c].msg # NoMessage
    BY <1>4, SendEffect
  <2>1. call'[c].target = None /\ call'[c].msg = NoMessage
    BY <1>1, <2>0 DEF Shape, CallStates
  <2>2. Holds(call[c])
    BY <1>1, <1>4, SendEffect, DocsAssumption DEF Holds
  <2>3. lock = c
    BY <1>0, <2>2 DEF LockInv
  <2>4. lock' = None /\ call' = [call EXCEPT ![c] = call'[c]]
    BY <1>4, SendEffect
  <2> QED
    BY <2>1, <2>3, <2>4 DEF Holds
<1>5. CASE Written(c)
  <2> DEFINE f == call[c].target
             new == [version |-> docs[f].version + 1, text |-> written[f] + 1, used |-> 0]
             msg == IF f \in Open THEN [file |-> f, closed |-> {}, doc |-> Told(new)] ELSE NoMessage
  <2>0. /\ call'[c] = [call[c] EXCEPT !.pc = AfterWrite(c), !.target = None, !.msg = msg]
        /\ lock' = IF f \in Open THEN c ELSE None
    BY <1>5, WrittenEffect
  <2>a. lock' = None => msg = NoMessage
    BY <1>1, <2>0
  <2> HIDE DEF msg
  <2>1. call'[c].target = None /\ (lock' = None => call'[c].msg = NoMessage)
    BY <1>1, <2>0, <2>a DEF Shape, CallStates
  <2>2. Holds(call[c])
    BY <1>1, <1>5, WrittenEffect, DocsAssumption DEF Holds
  <2>3. lock = c
    BY <1>0, <2>2 DEF LockInv
  <2>4. lock' \in {c, None} /\ call' = [call EXCEPT ![c] = call'[c]]
    BY <1>5, WrittenEffect
  <2> QED
    BY <2>1, <2>3, <2>4 DEF Holds
<1>6. CASE WriteFails(c)
  <2>0. call'[c] = [call[c] EXCEPT !.pc = "failed", !.target = None, !.todo = {}] /\ call[c].msg = NoMessage
    BY <1>6, WriteFailsEffect
  <2>1. call'[c].target = None /\ call'[c].msg = NoMessage
    BY <1>1, <2>0 DEF Shape, CallStates
  <2>2. Holds(call[c])
    BY <1>1, <1>6, WriteFailsEffect, DocsAssumption DEF Holds
  <2>3. lock = c
    BY <1>0, <2>2 DEF LockInv
  <2>4. lock' = None /\ call' = [call EXCEPT ![c] = call'[c]]
    BY <1>6, WriteFailsEffect
  <2> QED
    BY <2>1, <2>3, <2>4 DEF Holds
<1> QED
  BY <1>2, <1>3, <1>4, <1>5, <1>6, StepCases

RestTyped ==
  /\ disk \in [Files -> Nat] /\ written \in [Files -> Nat]
  /\ docs \in [Files -> [version : Nat, text : Nat, used : Nat]]
  /\ server \in [Files -> Docs]
  /\ outside \in 0..MaxOutside
  /\ start \in [Calls -> Nat] /\ floor \in [Calls -> Nat] /\ alone \in [Calls -> BOOLEAN]

\* The type invariant in the parts the steps are looked at by.
LEMMA Split == TypeInv <=> CallsOK /\ LockInv /\ lock \in Calls \cup {None} /\ RestTyped
  BY DEF TypeInv, TypeOK, CallsOK, CallStates, LockInv, Holds, RestTyped

\* And back, for the next state.
LEMMA Join ==
  ASSUME CallsOK', LockInv', lock' \in Calls \cup {None}, RestTyped'
  PROVE  TypeInv'
  BY DEF TypeInv, TypeOK, CallsOK, CallStates, LockInv, Holds, RestTyped

\* The types of everything but the calls.
LEMMA RestStep ==
  ASSUME TypeInv, NEW c \in Calls, CallStep(c)
  PROVE  RestTyped'
<1>0. RestTyped /\ call[c] \in CallStates
  BY Split, CallTyped
<1>1. CASE Quiet(c)
  BY <1>0, <1>1, QuietStep DEF RestTyped
<1>2. CASE Sync(c)
  <2>1. docs' \in [Files -> [version : Nat, text : Nat, used : Nat]]
    BY <1>2, SyncTyped
  <2>2. UNCHANGED <<disk, written, server, outside, start, floor, alone>>
    BY <1>2, SyncEffect
  <2> QED
    BY <1>0, <2>1, <2>2 DEF RestTyped
<1>3. CASE Send(c)
  <2>1. server' \in [Files -> Docs]
    <3>1. call[c].msg.doc \in Docs /\ Closed \in Docs
      BY <1>0 DEF CallStates, Closed, Docs, Partial
    <3> QED
      BY <1>0, <1>3, <3>1 DEF Send, RestTyped
  <2>2. UNCHANGED <<disk, written, docs, outside, start, floor, alone>>
    BY <1>3, SendEffect
  <2> QED
    BY <1>0, <2>1, <2>2 DEF RestTyped
<1>4. CASE Written(c)
  <2>1. docs' \in [Files -> [version : Nat, text : Nat, used : Nat]]
    BY <1>4, WrittenTyped
  <2>2. /\ call[c].target \in Files
        /\ written' = [written EXCEPT ![call[c].target] = @ + 1]
        /\ disk' = [disk EXCEPT ![call[c].target] = written[call[c].target] + 1]
        /\ UNCHANGED <<server, outside, start, floor, alone>>
    BY <1>4, WrittenEffect
  <2> QED
    BY <1>0, <2>1, <2>2 DEF RestTyped
<1>5. CASE WriteFails(c)
  <2>1. /\ disk' = [disk EXCEPT ![call[c].target] = Partial]
        /\ UNCHANGED <<written, docs, server, outside, start, floor, alone>>
    BY <1>5, WriteFailsEffect
  <2> QED
    BY <1>0, <2>1 DEF RestTyped, Partial
<1> QED
  BY <1>1, <1>2, <1>3, <1>4, <1>5, StepCases

\* A nonempty set of numbers has a least one.
LEMMA LeastOne ==
  ASSUME NEW S \in SUBSET Nat, S # {}
  PROVE  \E n \in S : \A m \in S : n <= m
<1>1. PICK n \in S : \A m \in S : <<m, n>> \notin OpToRel(<, Nat)
  BY NatLessThanWellFounded, WFMin
<1>2. \A m \in S : ~(m < n)
  BY <1>1 DEF OpToRel
<1> QED
  BY <1>2

\* The text of a file, and those of the calls in progress when they began.
Texts(f) == {disk[f]} \cup {start[d] : d \in {d \in Calls : Active(d) /\ call[d].file = f}}

\* The record of a call that has just started.
Begun(r, kind, f) ==
  /\ r.pc = "ensure" /\ r.kind = kind /\ r.file = f
  /\ r.target = None /\ r.msg = NoMessage /\ r.todo = {} /\ r.told = 0 /\ r.read = 0

\* The start of a call, spelled out; the oldest text its answer may be about exists.
LEMMA BeginEffect ==
  ASSUME TypeInv, NEW c \in Calls, NEW kind \in Kinds, NEW f \in Files, Begin(c, kind, f)
  PROVE  /\ call[c] = Fresh
         /\ call' = [call EXCEPT ![c] = call'[c]]
         /\ Begun(call'[c], kind, f)
         /\ start' = [start EXCEPT ![c] = disk[f]]
         /\ floor' = [floor EXCEPT ![c] = floor'[c]]
         /\ floor'[c] \in Texts(f) /\ \A m \in Texts(f) : floor'[c] <= m
         /\ floor'[c] \in Nat
         /\ alone' = [d \in Calls |-> IF d = c THEN \A e \in Calls : ~Active(e) ELSE alone[d] /\ ~Active(d)]
         /\ UNCHANGED <<disk, written, outside, docs, server, lock>>
<1>0. RestTyped /\ CallsOK
  BY Split
<1>1. call[c] = Fresh
  BY CallTyped DEF Shape, Begin, At
<1>2. call' = [call EXCEPT ![c] = call'[c]] /\ Begun(call'[c], kind, f)
  <2>1. call \in [Calls -> CallStates]
    BY <1>0 DEF CallsOK
  <2>2. call' = [call EXCEPT ![c].pc = "ensure", ![c].kind = kind, ![c].file = f]
    BY DEF Begin
  <2>3. call' = [call EXCEPT ![c] = call'[c]] /\ call'[c] = [call[c] EXCEPT !.pc = "ensure", !.kind = kind, !.file = f]
    BY <2>1, <2>2
  <2>4. call[c].target = None /\ call[c].msg = NoMessage /\ call[c].todo = {} /\ call[c].told = 0 /\ call[c].read = 0
    BY <1>1 DEF Fresh
  <2>5. call[c] \in CallStates
    BY <2>1
  <2> QED
    BY <2>3, <2>4, <2>5 DEF Begun, CallStates
<1>3. Texts(f) \in SUBSET Nat /\ Texts(f) # {}
  BY <1>0 DEF Texts, RestTyped
<1>4. PICK n \in Texts(f) : \A m \in Texts(f) : n <= m
  BY <1>3, LeastOne
<1> DEFINE least == CHOOSE k \in Texts(f) : \A m \in Texts(f) : k <= m
<1>5. least \in Texts(f) /\ \A m \in Texts(f) : least <= m
  BY <1>4
<1>6. floor' = [floor EXCEPT ![c] = least]
  BY DEF Begin, Texts
<1> HIDE DEF least
<1> QED
  BY <1>0, <1>1, <1>2, <1>3, <1>5, <1>6 DEF Begin, RestTyped, files

\* The type invariant is inductive.
LEMMA TypeNext == TypeInv /\ [Next]_vars => TypeInv'
<1> SUFFICES ASSUME TypeInv, [Next]_vars PROVE TypeInv'
  OBVIOUS
<1>1. ASSUME NEW c \in Calls, CallStep(c)
      PROVE  TypeInv'
  <2>1. CallsOK'
    BY <1>1, StepCases, QuietCalls, SendTyped, WriteFailsTyped, SyncTyped, WrittenTyped
  <2> QED
    BY <1>1, <2>1, LockStep, RestStep, Join
<1>2. ASSUME NEW c \in Calls, NEW kind \in Kinds, NEW f \in Files, Begin(c, kind, f)
      PROVE  TypeInv'
  <2>0. RestTyped /\ LockInv /\ lock \in Calls \cup {None} /\ call \in [Calls -> CallStates]
    BY Split DEF CallsOK
  <2>1. CallsOK'
    BY <1>2, BeginTyped
  <2>2. /\ call' = [call EXCEPT ![c] = call'[c]] /\ call'[c].target = None /\ call'[c].msg = NoMessage
        /\ UNCHANGED <<disk, written, outside, docs, server, lock>>
    <3>1. /\ call' = [call EXCEPT ![c] = call'[c]]
          /\ Begun(call'[c], kind, f)
          /\ UNCHANGED <<disk, written, outside, docs, server, lock>>
      BY <1>2, BeginEffect
    <3> QED
      BY <3>1 DEF Begun
  <2>3. RestTyped'
    <3>1. /\ start' = [start EXCEPT ![c] = disk[f]]
          /\ floor' = [floor EXCEPT ![c] = floor'[c]] /\ floor'[c] \in Nat
          /\ alone' = [d \in Calls |-> IF d = c THEN \A e \in Calls : ~Active(e) ELSE alone[d] /\ ~Active(d)]
      BY <1>2, BeginEffect
    <3>2. alone' \in [Calls -> BOOLEAN]
      BY <2>0, <3>1 DEF RestTyped, Active
    <3> QED
      BY <2>0, <2>2, <3>1, <3>2 DEF RestTyped
  <2>4. LockInv' /\ lock' \in Calls \cup {None}
    BY <2>0, <2>2 DEF LockInv, Holds
  <2> QED
    BY <2>1, <2>3, <2>4, Join
<1>3. ASSUME NEW f \in Files, Outside(f)
      PROVE  TypeInv'
  <2>0. RestTyped /\ LockInv /\ lock \in Calls \cup {None} /\ CallsOK
    BY Split
  <2>1. UNCHANGED <<docs, server, lock, call, start, floor>>
    BY <1>3 DEF Outside
  <2>2. CallsOK' /\ LockInv' /\ lock' \in Calls \cup {None}
    BY <2>0, <2>1 DEF CallsOK, CallShape, LockInv, Holds
  <2>3. outside' \in 0..MaxOutside
    BY <1>3, <2>0, DocsAssumption DEF Outside, RestTyped
  <2>4. written' \in [Files -> Nat] /\ disk' \in [Files -> Nat]
    BY <1>3, <2>0 DEF Outside, RestTyped
  <2>5. alone' \in [Calls -> BOOLEAN]
    BY <1>3, <2>0 DEF Outside, RestTyped, Active
  <2> QED
    BY <2>0, <2>1, <2>2, <2>3, <2>4, <2>5, Join DEF RestTyped
<1>4. CASE UNCHANGED vars
  BY <1>4 DEF TypeInv, TypeOK, CallShape, vars
<1> QED
  BY <1>1, <1>2, <1>3, <1>4 DEF Next, Finished

-----------------------------------------------------------------------------
(* The server follows the open documents *)

Entries == [version : Nat, text : Nat, used : Nat]

\* A use of a document changes nothing the server is told.
LEMMA TouchTold ==
  ASSUME TypeOK, NEW ds \in [Files -> Entries], NEW f \in Files, ClosedIsEmpty(ds)
  PROVE  ClosedIsEmpty(Touch(ds, f)) /\ \A g \in Files : Told(Touch(ds, f)[g]) = Told(ds[g])
<1>1. \A g \in Files : Told(Touch(ds, f)[g]) = Told(ds[g])
  BY TouchType DEF ClosedIsEmpty, Entries
<1>2. ASSUME NEW g \in Files, Touch(ds, f)[g].version = 0
      PROVE  Touch(ds, f)[g] = NoDoc
  <2>1. Told(Touch(ds, f)[g]).version = Told(ds[g]).version
    BY <1>1
  <2>2. ds[g].version = 0
    BY <1>2, <2>1 DEF Told
  <2> QED
    BY <2>2, TouchType DEF Entries
<1> QED
  BY <1>1, <1>2 DEF ClosedIsEmpty

\* The text a call makes current gives its document a new version, or leaves it.
LEMMA RefreshedFacts ==
  ASSUME TypeOK, NEW f \in Files, NEW text \in Nat
  PROVE  LET new == Refreshed(f, text) IN
         /\ new \in Entries /\ new.version > 0 /\ new.text = text
         /\ new.version = docs[f].version => f \in Open /\ Told(new) = Told(docs[f])
         /\ new.version # docs[f].version => new.version = docs[f].version + 1
  BY DEF TypeOK, Refreshed, Open, Entries, Told

\* The documents after a call has made its own current.
LEMMA SyncDocs ==
  ASSUME TypeInv, ClosedIsEmpty(docs), NEW c \in Calls, Sync(c)
  PROVE  LET f == call[c].file
             new == Refreshed(f, call[c].read)
             closing == IF f \in Open THEN {} ELSE ToClose
         IN  /\ f \in Files /\ f \notin closing /\ closing \in SUBSET Files
             /\ new \in Entries /\ new.version > 0 /\ new.text = call[c].read
             /\ new.version = docs[f].version => f \in Open /\ Told(new) = Told(docs[f])
             /\ ClosedIsEmpty(docs')
             /\ Told(docs'[f]) = Told(new)
             /\ \A g \in closing : Told(docs'[g]) = Closed
             /\ \A g \in Files \ (closing \cup {f}) : Told(docs'[g]) = Told(docs[g])
<1> DEFINE f == call[c].file
           new == Refreshed(f, call[c].read)
           closing == IF f \in Open THEN {} ELSE ToClose
           ds == [g \in Files |-> IF g = f THEN new ELSE IF g \in closing THEN NoDoc ELSE docs[g]]
<1>1. f \in Files /\ new \in Entries /\ closing \in SUBSET Files /\ docs' = Touch(ds, f)
  BY SyncEffect DEF Entries
<1>2. f \notin closing
  BY DEF ToClose
<1>3. call[c].read \in Nat /\ TypeOK
  BY DEF TypeInv, TypeOK
<1>4. /\ new.version > 0 /\ new.text = call[c].read
      /\ new.version = docs[f].version => f \in Open /\ Told(new) = Told(docs[f])
  BY <1>1, <1>3, RefreshedFacts
<1>5. docs \in [Files -> Entries] /\ NoDoc \in Entries
  BY DEF TypeInv, TypeOK, Entries, NoDoc, Partial
<1> HIDE DEF f, new, closing
<1>6. ds \in [Files -> Entries] /\ ClosedIsEmpty(ds)
  BY <1>1, <1>4, <1>5 DEF ClosedIsEmpty
<1>7. /\ ds[f] = new
      /\ \A g \in closing : ds[g] = NoDoc
      /\ \A g \in Files \ (closing \cup {f}) : ds[g] = docs[g]
  BY <1>1, <1>2
<1> HIDE DEF ds
<1>8. ClosedIsEmpty(docs') /\ \A g \in Files : Told(docs'[g]) = Told(ds[g])
  BY <1>1, <1>3, <1>6, TouchTold
<1>9. Told(NoDoc) = Closed
  BY DEF Told, NoDoc, Closed
<1>10. /\ Told(docs'[f]) = Told(new)
       /\ \A g \in closing : Told(docs'[g]) = Closed
       /\ \A g \in Files \ (closing \cup {f}) : Told(docs'[g]) = Told(docs[g])
  BY <1>1, <1>7, <1>8, <1>9
<1> QED
  BY <1>1, <1>2, <1>4, <1>8, <1>10 DEF f, new, closing

\* The documents after a write.
LEMMA WrittenDocs ==
  ASSUME TypeInv, ClosedIsEmpty(docs), NEW c \in Calls, Written(c)
  PROVE  LET f == call[c].target IN
         /\ f \in Files /\ ClosedIsEmpty(docs')
         /\ f \notin Open => docs' = docs
         /\ f \in Open => Told(docs'[f]) = [version |-> docs[f].version + 1, text |-> written[f] + 1]
         /\ \A g \in Files \ {f} : Told(docs'[g]) = Told(docs[g])
<1> DEFINE f == call[c].target
           new == [version |-> docs[f].version + 1, text |-> written[f] + 1, used |-> 0]
           ds == [docs EXCEPT ![f] = new]
<1>1. f \in Files /\ docs' = (IF f \in Open THEN Touch(ds, f) ELSE docs) /\ new \in Entries
  BY WrittenEffect DEF Entries
<1>2. docs \in [Files -> Entries] /\ TypeOK
  BY DEF TypeInv, TypeOK, Entries
<1>3. CASE f \notin Open
  BY <1>1, <1>3
<1>4. CASE f \in Open
  <2>1. new.version > 0 /\ Told(new) = [version |-> docs[f].version + 1, text |-> written[f] + 1]
    BY <1>1, <1>2 DEF Told, Entries
  <2> HIDE DEF f, new
  <2>2. ds \in [Files -> Entries] /\ ClosedIsEmpty(ds) /\ ds[f] = new /\ \A g \in Files \ {f} : ds[g] = docs[g]
    BY <1>1, <1>2, <2>1 DEF ClosedIsEmpty
  <2> HIDE DEF ds
  <2>3. ClosedIsEmpty(docs') /\ \A g \in Files : Told(docs'[g]) = Told(ds[g])
    BY <1>1, <1>2, <1>4, <2>2, TouchTold
  <2> QED
    BY <1>1, <1>4, <2>1, <2>2, <2>3 DEF f
<1> QED
  BY <1>3, <1>4

\* With the lock free nothing is left to send.
LEMMA FreeIsSilent ==
  ASSUME TypeInv, lock = None
  PROVE  Silent
  BY Split, DocsAssumption DEF LockInv, Holds, Silent

\* With the lock held, nobody but the holder has something to send.
LEMMA HolderAlone ==
  ASSUME TypeInv, NEW c \in Calls, lock = c, NEW d \in Calls, d # c
  PROVE  call[d].msg = NoMessage
  BY Split DEF LockInv, Holds

\* A step that changes neither the documents, nor the server, nor a message.
LEMMA SameMessages ==
  ASSUME FollowInv, UNCHANGED <<docs, server>>, \A c \in Calls : call'[c].msg = call[c].msg
  PROVE  FollowInv'
  BY DEF FollowInv, ClosedIsEmpty, Silent, FollowsNow, Pending

\* A step of a call keeps the server one message behind the documents at most.
LEMMA FollowStep ==
  ASSUME TypeInv, FollowInv, NEW c \in Calls, CallStep(c)
  PROVE  FollowInv'
<1>0. call \in [Calls -> CallStates] /\ call[c] \in CallStates /\ ClosedIsEmpty(docs)
  BY CallsTyped DEF CallsOK, FollowInv
<1>1. CASE Quiet(c)
  BY <1>0, <1>1, QuietStep, SameMessages
<1>2. CASE Sync(c)
  <2> DEFINE f == call[c].file
             new == Refreshed(f, call[c].read)
             closing == IF f \in Open THEN {} ELSE ToClose
             msg == [file |-> f, closed |-> closing, doc |-> Told(new)]
  <2>0. Silent /\ FollowsNow
    BY <1>2, SyncEffect, FreeIsSilent DEF FollowInv
  <2>1. /\ f \in Files /\ f \notin closing /\ closing \in SUBSET Files
        /\ new.version = docs[f].version => f \in Open /\ Told(new) = Told(docs[f])
        /\ ClosedIsEmpty(docs')
        /\ Told(docs'[f]) = Told(new)
        /\ \A g \in closing : Told(docs'[g]) = Closed
        /\ \A g \in Files \ (closing \cup {f}) : Told(docs'[g]) = Told(docs[g])
    BY <1>0, <1>2, SyncDocs
  <2>2. /\ call' = [call EXCEPT ![c] = call'[c]]
        /\ call'[c] = [call[c] EXCEPT !.pc = AfterSync(c), !.msg = IF new.version = docs[f].version THEN NoMessage ELSE msg]
        /\ server' = server
    BY <1>2, SyncEffect
  <2>3. \A d \in Calls \ {c} : call'[d].msg = NoMessage
    BY <2>0, <2>2, <1>0 DEF Silent
  <2>4. CASE new.version = docs[f].version
    <3>1. closing = {}
      BY <2>1, <2>4
    <3> HIDE DEF f, new, closing
    <3>2. call'[c].msg = NoMessage
      BY <1>0, <2>2, <2>4 DEF CallStates
    <3>3. FollowsNow'
      BY <2>0, <2>1, <2>2, <2>4, <3>1 DEF FollowsNow
    <3> QED
      BY <2>1, <2>3, <3>2, <3>3 DEF FollowInv, Silent
  <2>5. CASE new.version # docs[f].version
    <3> HIDE DEF f, new, closing
    <3>1. call'[c].msg = msg
      BY <1>0, <2>2, <2>5 DEF CallStates
    <3>2. msg # NoMessage
      BY <2>1, DocsAssumption DEF NoMessage
    <3>3. Pending(c)'
      BY <2>0, <2>1, <2>2, <3>1 DEF FollowsNow, Pending
    <3> QED
      BY <2>1, <2>3, <3>1, <3>2, <3>3 DEF FollowInv, Silent
  <2> QED
    BY <2>4, <2>5
<1>3. CASE Send(c)
  <2>1. /\ call[c].msg # NoMessage
        /\ call' = [call EXCEPT ![c] = call'[c]] /\ call'[c] = [call[c] EXCEPT !.msg = NoMessage]
        /\ docs' = docs
    BY <1>3, SendEffect
  <2>2. Pending(c) /\ lock = c
    BY <2>1, Split DEF FollowInv, LockInv, Holds
  <2>3. Silent'
    BY <1>0, <2>1, <2>2, HolderAlone DEF Silent, CallStates
  <2>4. server' = [g \in Files |-> IF g = call[c].msg.file THEN call[c].msg.doc
                                   ELSE IF g \in call[c].msg.closed THEN Closed ELSE server[g]]
    BY <1>3 DEF Send
  <2>5. FollowsNow'
    BY <2>1, <2>2, <2>4 DEF FollowsNow, Pending
  <2> QED
    BY <1>0, <2>1, <2>3, <2>5 DEF FollowInv, Silent
<1>4. CASE Written(c)
  <2> DEFINE f == call[c].target
             new == [version |-> docs[f].version + 1, text |-> written[f] + 1, used |-> 0]
             msg == [file |-> f, closed |-> {}, doc |-> Told(new)]
  <2>1. /\ f \in Files /\ ClosedIsEmpty(docs')
        /\ f \notin Open => docs' = docs
        /\ f \in Open => Told(docs'[f]) = Told(new)
        /\ \A g \in Files \ {f} : Told(docs'[g]) = Told(docs[g])
    BY <1>0, <1>4, WrittenDocs DEF Told
  <2>2. /\ call' = [call EXCEPT ![c] = call'[c]]
        /\ call'[c] = [call[c] EXCEPT !.pc = AfterWrite(c), !.target = None, !.msg = IF f \in Open THEN msg ELSE NoMessage]
        /\ server' = server /\ call[c].msg = NoMessage
    BY <1>4, WrittenEffect
  <2>3. lock = c
    BY <2>1, Split, DocsAssumption DEF LockInv, Holds
  <2>4. Silent /\ FollowsNow /\ \A d \in Calls \ {c} : call'[d].msg = NoMessage
    BY <1>0, <2>2, <2>3, HolderAlone DEF Silent, FollowInv
  <2> HIDE DEF f, new
  <2>5. CASE f \in Open
    <3>1. call'[c].msg = msg
      BY <1>0, <2>2, <2>5 DEF CallStates
    <3>2. msg # NoMessage
      BY <2>1, DocsAssumption DEF NoMessage
    <3>3. Pending(c)'
      BY <2>1, <2>2, <2>4, <2>5, <3>1 DEF FollowsNow, Pending
    <3> QED
      BY <2>1, <2>4, <3>1, <3>2, <3>3 DEF FollowInv, Silent
  <2>6. CASE f \notin Open
    <3>1. call'[c].msg = NoMessage
      BY <1>0, <2>2, <2>6 DEF CallStates
    <3>2. \A d \in Calls : call'[d].msg = call[d].msg
      BY <2>2, <2>4, <3>1 DEF Silent
    <3> QED
      BY <2>1, <2>2, <2>6, <3>2, SameMessages
  <2> QED
    BY <2>5, <2>6
<1>5. CASE WriteFails(c)
  <2>1. /\ call' = [call EXCEPT ![c] = call'[c]]
        /\ call'[c] = [call[c] EXCEPT !.pc = "failed", !.target = None, !.todo = {}]
        /\ UNCHANGED <<docs, server>>
    BY <1>5, WriteFailsEffect
  <2>2. call'[c].msg = call[c].msg
    BY <1>0, <2>1 DEF CallStates
  <2> QED
    BY <1>0, <2>1, <2>2, SameMessages
<1> QED
  BY <1>1, <1>2, <1>3, <1>4, <1>5, StepCases

\* FollowInv is inductive.
LEMMA FollowNext == TypeInv /\ FollowInv /\ [Next]_vars => FollowInv'
<1> SUFFICES ASSUME TypeInv, FollowInv, [Next]_vars PROVE FollowInv'
  OBVIOUS
<1>0. call \in [Calls -> CallStates]
  BY CallsTyped DEF CallsOK
<1>1. ASSUME NEW c \in Calls, NEW kind \in Kinds, NEW f \in Files, Begin(c, kind, f)
      PROVE  FollowInv'
  <2>1. /\ call[c] = Fresh /\ call' = [call EXCEPT ![c] = call'[c]] /\ call'[c].msg = NoMessage
        /\ UNCHANGED <<docs, server>>
    BY <1>1, BeginEffect DEF Begun
  <2>2. call[c].msg = NoMessage
    BY <2>1 DEF Fresh
  <2> QED
    BY <1>0, <2>1, <2>2, SameMessages
<1>2. ASSUME NEW f \in Files, Outside(f)
      PROVE  FollowInv'
  BY <1>2, SameMessages DEF Outside
<1>3. CASE UNCHANGED vars
  BY <1>3, SameMessages DEF vars
<1> QED
  BY <1>1, <1>2, <1>3, FollowStep DEF Next, Finished

-----------------------------------------------------------------------------
(* The cap on open documents *)

\* A part of a bounded set is bounded.
LEMMA AtMostSubset ==
  ASSUME NEW S, NEW T \in SUBSET S, NEW n \in Nat, AtMost(S, n)
  PROVE  AtMost(T, n)
  BY FS_Subset, FS_CardinalityType DEF AtMost

\* At the cap there is a document to close.
LEMMA SomethingToClose ==
  ASSUME TypeOK, Open # {}, Cardinality(Open) >= MaxDocs
  PROVE  ToClose # {}
<1> DEFINE uses == {docs[f].used : f \in Open}
<1>a. \A f \in Open : docs[f].used \in Nat /\ docs[f].used \in uses
  BY DEF TypeOK, Open
<1>1. uses \in SUBSET Nat /\ uses # {}
  BY <1>a
<1>2. PICK n \in uses : \A m \in uses : n <= m
  BY <1>1, LeastOne
<1>3. PICK f \in Open : docs[f].used = n
  BY <1>2
<1> HIDE DEF uses
<1>4. {g \in Open : docs[g].used < docs[f].used} = {}
  <2>1. SUFFICES ASSUME NEW g \in Open, docs[g].used < docs[f].used PROVE FALSE
    OBVIOUS
  <2>2. docs[g].used \in uses /\ docs[g].used \in Nat /\ docs[f].used \in Nat
    BY <1>a
  <2> QED
    BY <1>2, <1>3, <2>1, <2>2
<1>5. Rank(f) = 1
  <2>1. Cardinality({g \in Open : docs[g].used < docs[f].used}) = 0
    BY <1>4, FS_EmptySet
  <2> QED
    BY <2>1 DEF Rank
<1> QED
  BY <1>3, <1>5 DEF ToClose

\* One document may be opened when there is room or another is closed.
LEMMA RoomForOne ==
  ASSUME NEW S, NEW gone \in SUBSET S, NEW f, NEW n \in Nat \ {0}, AtMost(S, n),
         Cardinality(S) >= n => gone # {}
  PROVE  AtMost((S \ gone) \cup {f}, n)
<1> DEFINE kept == S \ gone
<1>1. IsFiniteSet(S) /\ Cardinality(S) \in Nat /\ Cardinality(S) <= n
  BY FS_CardinalityType DEF AtMost
<1>2. IsFiniteSet(kept) /\ Cardinality(kept) \in Nat /\ Cardinality(kept) + 1 <= n
  <2>1. CASE gone = {}
    <3>1. S \ gone = S
      BY <2>1
    <3> QED
      BY <1>1, <2>1, <3>1
  <2>2. CASE gone # {}
    <3>1. PICK g \in gone : TRUE
      BY <2>2
    <3>2. IsFiniteSet(S \ {g}) /\ Cardinality(S \ {g}) = Cardinality(S) - 1
      BY <1>1, <3>1, FS_RemoveElement
    <3>3. S \ gone \in SUBSET (S \ {g})
      BY <3>1
    <3>4. IsFiniteSet(S \ gone) /\ Cardinality(S \ gone) <= Cardinality(S \ {g})
      BY <3>2, <3>3, FS_Subset
    <3>5. Cardinality(S \ gone) \in Nat
      BY <3>4, FS_CardinalityType
    <3> QED
      BY <1>1, <3>2, <3>4, <3>5
  <2> QED
    BY <2>1, <2>2
<1>3. /\ IsFiniteSet(kept \cup {f}) /\ Cardinality(kept \cup {f}) \in Nat
      /\ Cardinality(kept \cup {f}) <= Cardinality(kept) + 1
  <2> HIDE DEF kept
  <2>1. /\ IsFiniteSet(kept \cup {f})
        /\ Cardinality(kept \cup {f}) = IF f \in kept THEN Cardinality(kept) ELSE Cardinality(kept) + 1
    BY <1>2, FS_AddElement
  <2> QED
    BY <1>2, <2>1
<1> QED
  BY <1>2, <1>3 DEF AtMost

\* A document is opened only with room for it: the check and the insertion share the lock.
LEMMA BoundStep ==
  ASSUME TypeInv, FollowInv, FollowInv', BoundInv, NEW c \in Calls, CallStep(c)
  PROVE  BoundInv'
<1>0. AtMost(Open, MaxDocs) /\ AtMost(ServerOpen, MaxDocs) /\ MaxDocs \in Nat \ {0} /\ ClosedIsEmpty(docs)
  BY DocsAssumption DEF BoundInv, FollowInv
<1>1. CASE UNCHANGED <<docs, server>>
  BY <1>0, <1>1 DEF BoundInv, Open, ServerOpen
<1>2. CASE Sync(c)
  <2> DEFINE f == call[c].file
             new == Refreshed(f, call[c].read)
             closing == IF f \in Open THEN {} ELSE ToClose
  <2>1. /\ f \in Files /\ closing \in SUBSET Files
        /\ new.version = docs[f].version => f \in Open /\ Told(new) = Told(docs[f])
        /\ \A g \in closing : Told(docs'[g]) = Closed
        /\ \A g \in Files \ (closing \cup {f}) : Told(docs'[g]) = Told(docs[g])
    BY <1>0, <1>2, SyncDocs
  <2>2. server' = server
    BY <1>2, SyncEffect
  <2>3. closing \in SUBSET Open
    BY DEF ToClose
  <2>4. TypeOK
    BY DEF TypeInv
  <2>5. Open' \subseteq (Open \ closing) \cup {f}
    <3> HIDE DEF f, new, closing
    <3> SUFFICES ASSUME NEW g \in Open', g # f PROVE g \in Open \ closing
      OBVIOUS
    <3>1. g \in Files /\ docs'[g].version > 0
      BY DEF Open
    <3>2. Told(docs'[g]).version > 0
      BY <3>1 DEF Told
    <3>3. g \notin closing
      BY <2>1, <3>2 DEF Closed
    <3>4. docs[g].version > 0
      BY <2>1, <3>1, <3>2, <3>3 DEF Told
    <3> QED
      BY <3>1, <3>3, <3>4 DEF Open
  <2>6. AtMost(Open', MaxDocs)
    <3>1. CASE f \in Open
      <4>1. Open' \in SUBSET Open
        BY <2>5, <3>1
      <4> QED
        BY <1>0, <4>1, AtMostSubset
    <3>2. CASE f \notin Open
      <4>1. Cardinality(Open) >= MaxDocs => closing # {}
        <5>1. SUFFICES ASSUME Cardinality(Open) >= MaxDocs PROVE ToClose # {}
          BY <3>2
        <5>2. Open # {}
          BY <1>0, <5>1, FS_EmptySet
        <5> QED
          BY <2>4, <5>1, <5>2, SomethingToClose
      <4> HIDE DEF f, closing
      <4> QED
        <5>1. AtMost((Open \ closing) \cup {f}, MaxDocs)
          BY <1>0, <2>3, <4>1, RoomForOne
        <5>2. Open' \in SUBSET ((Open \ closing) \cup {f})
          BY <2>5
        <5> QED
          BY <1>0, <5>1, <5>2, AtMostSubset
    <3> QED
      BY <3>1, <3>2
  <2> QED
    BY <1>0, <2>2, <2>6 DEF BoundInv, ServerOpen, AtMost
<1>3. CASE Send(c)
  <2>1. /\ call[c].msg # NoMessage /\ docs' = docs
        /\ call' = [call EXCEPT ![c] = call'[c]] /\ call'[c] = [call[c] EXCEPT !.msg = NoMessage]
    BY <1>3, SendEffect
  <2>2. lock = c /\ call \in [Calls -> CallStates] /\ call[c] \in CallStates
    BY <2>1, Split, CallTyped DEF LockInv, Holds, CallsOK
  <2>3. Silent'
    BY <2>1, <2>2, HolderAlone DEF Silent, CallStates
  <2>4. \A f \in Files : server'[f] = Told(docs[f])
    BY <2>1, <2>3 DEF FollowInv, FollowsNow
  <2>5. ServerOpen' = Open /\ Open' = Open
    <3>1. Open' = Open
      BY <2>1 DEF Open
    <3>2. ASSUME NEW f \in Files PROVE server'[f].version = docs[f].version
      <4>1. server'[f] = Told(docs[f]) /\ Told(docs[f]).version = docs[f].version
        BY <2>4 DEF Told
      <4> QED
        BY <4>1
    <3>3. ServerOpen' = {f \in Files : server'[f].version > 0}
      BY DEF ServerOpen
    <3> QED
      BY <3>1, <3>2, <3>3 DEF Open
  <2> QED
    BY <1>0, <2>5 DEF BoundInv
<1>4. CASE Written(c)
  <2>1. /\ call[c].target \in Files
        /\ call[c].target \notin Open => docs' = docs
        /\ \A g \in Files \ {call[c].target} : Told(docs'[g]) = Told(docs[g])
    BY <1>0, <1>4, WrittenDocs
  <2>2. server' = server
    BY <1>4, WrittenEffect
  <2>3. Open' \subseteq Open
    BY <2>1 DEF Open, Told
  <2> QED
    BY <1>0, <2>2, <2>3, AtMostSubset DEF BoundInv, ServerOpen
<1> QED
  BY <1>1, <1>2, <1>3, <1>4, QuietStep, WriteFailsEffect, StepCases

\* BoundInv is inductive.
LEMMA BoundNext == TypeInv /\ FollowInv /\ FollowInv' /\ BoundInv /\ [Next]_vars => BoundInv'
<1> SUFFICES ASSUME TypeInv, FollowInv, FollowInv', BoundInv, [Next]_vars PROVE BoundInv'
  OBVIOUS
<1>1. CASE UNCHANGED <<docs, server>>
  BY <1>1 DEF BoundInv, Open, ServerOpen
<1> QED
  BY <1>1, BoundStep DEF Next, Finished, vars, Begin, Outside

-----------------------------------------------------------------------------
(* Answers are not older than the calls in progress *)

\* The texts a quiet step takes up, and where it can come from.
LEMMA QuietData ==
  ASSUME TypeInv, NEW c \in Calls, Quiet(c)
  PROVE  /\ call'[c].pc \in Syncing => call'[c].read = OnDisk(call[c].file)
         /\ \/ call'[c].told = call[c].told
            \/ call[c].pc \in {"ask", "resolve"} /\ call'[c].told = Answer(c)
         /\ call'[c].pc \in Synced => call[c].pc \in Synced
<1> USE DEF At, Syncing, Synced
<1>0. call \in [Calls -> CallStates]
  BY CallsTyped DEF CallsOK
<1>1. CASE EnsureRead(c)
  BY <1>0, <1>1 DEF EnsureRead, CallStates
<1>2. CASE Query(c) \/ QueryHierarchy(c) \/ AskSymbol(c) \/ AskRename(c) \/ AskActions(c)
  <2>1. PICK kinds \in SUBSET Kinds, pc \in {"done", "ask", "read", "apply", "resolve", "command"}, todo \in SUBSET Files :
           Answered(c, kinds, pc, todo)
    BY <1>2, Asked
  <2> QED
    BY <1>0, <2>1 DEF Answered, CallStates
<1>3. CASE Resolve(c)
  <2>1. PICK todo \in SUBSET Files :
          call' = [call EXCEPT ![c].pc = IF todo = {} THEN "command" ELSE "apply",
                               ![c].told = Answer(c), ![c].todo = todo]
    BY <1>3 DEF Resolve
  <2>2. call[c].pc = "resolve"
    BY <1>3 DEF Resolve
  <2> QED
    BY <1>0, <2>1, <2>2 DEF CallStates
<1>4. CASE RunCommand(c)
  BY <1>0, <1>4 DEF RunCommand, CallStates
<1>5. CASE Read(c)
  BY <1>0, <1>5 DEF Read, CallStates
<1>6. CASE WriteEdit(c)
  BY <1>0, <1>6 DEF WriteEdit, CallStates
<1>7. CASE \E f \in Files : WriteAnswer(c, f)
  BY <1>0, <1>7 DEF WriteAnswer, CallStates
<1>8. CASE Fail(c)
  BY <1>0, <1>8 DEF Fail, CallStates
<1> QED
  BY <1>1, <1>2, <1>3, <1>4, <1>5, <1>6, <1>7, <1>8 DEF Quiet

\* What a call reads from its file is not older than the call.
LEMMA DiskNotOlder ==
  ASSUME TypeInv, DiskInv, StartInv, NEW c \in Calls, call[c].pc # "new"
  PROVE  LET text == OnDisk(call[c].file) IN
         /\ text = Partial \/ text >= start[c]
         /\ \A d \in Calls : call[d].pc # "new" /\ call[d].file = call[c].file => NotOlder(d, text)
<1>1. call[c].file \in Files
  BY CallTyped DEF Shape
<1>2. OnDisk(call[c].file) \in {Partial, written[call[c].file]}
  BY <1>1 DEF OnDisk, DiskInv
<1>3. /\ written \in [Files -> Nat] /\ start \in [Calls -> Nat] /\ floor \in [Calls -> Nat]
  BY Split DEF RestTyped
<1>4. \A d \in Calls : call[d].pc # "new" /\ call[d].file = call[c].file =>
        floor[d] <= written[call[c].file] /\ start[d] <= written[call[c].file]
  BY <1>1, <1>3 DEF StartInv
<1> QED
  BY <1>1, <1>2, <1>3, <1>4 DEF NotOlder

\* An answer is about a text that is not older.
LEMMA AnswerNew ==
  ASSUME TypeInv, AnswerInv, NEW c \in Calls, call[c].pc \in {"ask", "resolve"}, call[c].msg = NoMessage
  PROVE  NotOlder(c, Answer(c))
<1>1. CASE server[call[c].file].version > 0
  BY <1>1 DEF AnswerInv, TextInv, Synced, Answer
<1>2. CASE ~(server[call[c].file].version > 0)
  BY <1>2, DiskNotOlder DEF AnswerInv, Answer
<1> QED
  BY <1>1, <1>2

\* Steps that read and ask.
LEMMA AnswerQuiet ==
  ASSUME TypeInv, AnswerInv, NEW c \in Calls, Quiet(c)
  PROVE  AnswerInv'
<1>1. /\ UNCHANGED <<disk, written, docs, server, outside, start, floor, alone>>
      /\ call' = [call EXCEPT ![c] = call'[c]]
      /\ call'[c].file = call[c].file
      /\ call[c].msg = NoMessage /\ call'[c].msg = NoMessage
      /\ call[c].pc # "new" /\ call'[c].pc # "new"
  BY QuietStep
<1>2. /\ call'[c].pc \in Syncing => call'[c].read = OnDisk(call[c].file)
      /\ \/ call'[c].told = call[c].told
         \/ call[c].pc \in {"ask", "resolve"} /\ call'[c].told = Answer(c)
      /\ call'[c].pc \in Synced => call[c].pc \in Synced
  BY QuietData
<1>3. call \in [Calls -> CallStates] /\ DiskInv /\ StartInv /\ ReadInv /\ TextInv /\ ToldInv
  BY CallsTyped DEF CallsOK, AnswerInv
<1>4. \A d \in Calls : d # c => call'[d] = call[d]
  BY <1>1, <1>3
<1>5. \A d \in Calls : call'[d].file = call[d].file /\ (call'[d].pc = "new" <=> call[d].pc = "new")
  BY <1>1, <1>4
<1>6. \A d \in Calls : \A text : NotOlder(d, text)' <=> NotOlder(d, text)
  BY <1>1 DEF NotOlder
<1>7. DiskInv' /\ StartInv'
  BY <1>1, <1>3, <1>5 DEF DiskInv, StartInv
<1>8. ReadInv'
  <2> SUFFICES ASSUME NEW d \in Calls, call'[d].pc \in Syncing
               PROVE  /\ call'[d].read = Partial \/ call'[d].read >= start[d]
                      /\ \A e \in Calls : call[e].pc # "new" /\ call[e].file = call[d].file => NotOlder(e, call'[d].read)
    BY <1>1, <1>5 DEF ReadInv, NotOlder
  <2>1. CASE d = c
    BY <1>1, <1>2, <1>3, <2>1, DiskNotOlder
  <2>2. CASE d # c
    BY <1>3, <1>4, <2>2 DEF ReadInv
  <2> QED
    BY <2>1, <2>2
<1>9. TextInv'
  <2> SUFFICES ASSUME NEW d \in Calls, call'[d].pc \in Synced
               PROVE  /\ call[d].file \in Open => NotOlder(d, docs[call[d].file].text)
                      /\ call'[d].msg = NoMessage /\ server[call[d].file].version > 0 =>
                           NotOlder(d, server[call[d].file].text)
    BY <1>1, <1>5 DEF TextInv, NotOlder, Open
  <2>1. call[d].pc \in Synced /\ call'[d].msg = call[d].msg
    BY <1>1, <1>2, <1>4
  <2> QED
    BY <1>3, <2>1 DEF TextInv
<1>10. ToldInv'
  <2> SUFFICES ASSUME NEW d \in Calls PROVE NotOlder(d, call'[d].told)
    BY <1>1 DEF ToldInv, NotOlder
  <2>1. CASE d = c
    BY <1>1, <1>2, <1>3, <2>1, AnswerNew DEF ToldInv
  <2>2. CASE d # c
    BY <1>3, <1>4, <2>2 DEF ToldInv
  <2> QED
    BY <2>1, <2>2
<1> QED
  BY <1>7, <1>8, <1>9, <1>10 DEF AnswerInv

\* The parts of AnswerInv after a step that starts no call and changes no answer.
LEMMA AnswerParts ==
  ASSUME TypeInv, AnswerInv, NEW c \in Calls, UNCHANGED <<start, floor>>, DiskInv',
         \A f \in Files : written'[f] \in Nat /\ written'[f] >= written[f],
         call' = [call EXCEPT ![c] = call'[c]], call[c].pc # "new", call'[c].pc # "new",
         call'[c].file = call[c].file, call'[c].told = call[c].told, call'[c].read = call[c].read,
         call'[c].pc \notin Syncing \/ call[c].pc \in Syncing,
         TextInv'
  PROVE  AnswerInv'
<1>1. /\ call \in [Calls -> CallStates] /\ StartInv /\ ReadInv /\ ToldInv
      /\ start \in [Calls -> Nat] /\ floor \in [Calls -> Nat] /\ written \in [Files -> Nat]
  BY CallsTyped, Split DEF CallsOK, AnswerInv, RestTyped
<1>2. \A d \in Calls : d # c => call'[d] = call[d]
  BY <1>1
<1>3. \A d \in Calls : /\ call'[d].file = call[d].file /\ (call'[d].pc = "new" <=> call[d].pc = "new")
                       /\ call'[d].told = call[d].told /\ call'[d].read = call[d].read
                       /\ call'[d].pc \in Syncing => call[d].pc \in Syncing
  BY <1>2
<1>4. StartInv'
  <2> SUFFICES ASSUME NEW d \in Calls, call[d].pc # "new"
               PROVE  floor[d] <= start[d] /\ start[d] <= written'[call[d].file]
    BY <1>3 DEF StartInv
  <2>1. call[d].file \in Files /\ floor[d] <= start[d] /\ start[d] <= written[call[d].file]
    BY <1>1, CallTyped DEF Shape, StartInv
  <2>2. written'[call[d].file] >= written[call[d].file] /\ written'[call[d].file] \in Nat
    BY <2>1
  <2> QED
    BY <1>1, <2>1, <2>2
<1>5. ReadInv'
  BY <1>1, <1>3 DEF ReadInv, NotOlder
<1>6. ToldInv'
  BY <1>1, <1>3 DEF ToldInv, NotOlder
<1> QED
  BY <1>4, <1>5, <1>6 DEF AnswerInv

\* A document made current has the text that was read, which is not too old for any call on the file.
LEMMA AnswerSync ==
  ASSUME TypeInv, FollowInv, AnswerInv, NEW c \in Calls, Sync(c)
  PROVE  AnswerInv'
<1> DEFINE f == call[c].file
           new == Refreshed(f, call[c].read)
           closing == IF f \in Open THEN {} ELSE ToClose
           same == new.version = docs[f].version
           msg == [file |-> f, closed |-> closing, doc |-> Told(new)]
<1>1. /\ f \in Files /\ f \notin closing /\ closing \in SUBSET Files
      /\ new.version > 0 /\ new.text = call[c].read
      /\ same => f \in Open /\ Told(new) = Told(docs[f])
      /\ Told(docs'[f]) = Told(new)
      /\ \A g \in closing : Told(docs'[g]) = Closed
      /\ \A g \in Files \ (closing \cup {f}) : Told(docs'[g]) = Told(docs[g])
  BY SyncDocs DEF FollowInv
<1>2. /\ call[c].pc \in Syncing /\ lock = None
      /\ call' = [call EXCEPT ![c] = call'[c]]
      /\ call'[c] = [call[c] EXCEPT !.pc = AfterSync(c), !.msg = IF same THEN NoMessage ELSE msg]
      /\ UNCHANGED <<disk, written, server, start, floor>>
  BY SyncEffect
<1>3. FollowsNow /\ call \in [Calls -> CallStates] /\ call[c] \in CallStates /\ written \in [Files -> Nat]
  BY <1>2, FreeIsSilent, CallsTyped, CallTyped, Split DEF FollowInv, CallsOK, RestTyped
<1>4. DiskInv /\ ReadInv /\ TextInv
  BY DEF AnswerInv
<1>5. /\ docs'[f].text = call[c].read
      /\ \A g \in closing : docs'[g].version = 0
      /\ \A g \in Files \ (closing \cup {f}) : docs'[g].text = docs[g].text /\ docs'[g].version = docs[g].version
  <2> HIDE DEF f, new, closing
  <2> QED
    BY <1>1 DEF Told, Closed
<1>6. same => docs[f].text = call[c].read
  <2> HIDE DEF f, new
  <2> QED
    BY <1>1 DEF Told
<1> HIDE DEF f, new, closing, same, msg
<1>7. /\ call'[c].file = call[c].file /\ call'[c].told = call[c].told /\ call'[c].read = call[c].read
      /\ call'[c].pc \in {"write", "read", "ask"}
      /\ call'[c].msg = NoMessage => same
  <2>1. AfterSync(c) \in {"write", "read", "ask"}
    BY DEF AfterSync
  <2>2. msg # NoMessage
    BY <1>1, DocsAssumption DEF msg, NoMessage
  <2> QED
    BY <1>2, <1>3, <2>1, <2>2 DEF CallStates
<1>8. \A d \in Calls : d # c => call'[d] = call[d]
  BY <1>2, <1>3
<1>9. TextInv'
  <2> SUFFICES ASSUME NEW d \in Calls, call'[d].pc \in Synced
               PROVE  /\ call[d].file \in Open' => NotOlder(d, docs'[call[d].file].text)
                      /\ call'[d].msg = NoMessage /\ server[call[d].file].version > 0 =>
                           NotOlder(d, server[call[d].file].text)
    <3>1. \A d \in Calls : call'[d].file = call[d].file
      BY <1>7, <1>8
    <3> QED
      BY <1>2, <3>1 DEF TextInv, NotOlder
  <2>1. call[d].pc # "new" /\ call[d].file \in Files
    BY <1>2, <1>8, CallTyped DEF Syncing, Synced, Shape
  <2>2. call[d].file = f => NotOlder(d, call[c].read)
    BY <1>2, <1>4, <2>1 DEF ReadInv, f
  <2>3. CASE d = c
    <3>1. call[d].file = f
      BY <2>3 DEF f
    <3>2. call'[d].msg = NoMessage => server[f].text = call[c].read
      BY <1>1, <1>3, <1>6, <1>7, <2>3 DEF FollowsNow, Told
    <3> QED
      BY <1>5, <2>2, <3>1, <3>2
  <2>4. CASE d # c
    <3>1. call'[d] = call[d]
      BY <1>8, <2>4
    <3>2. CASE call[d].file = f
      BY <1>4, <1>5, <2>2, <3>1, <3>2 DEF TextInv
    <3>3. CASE call[d].file \in closing
      BY <1>4, <1>5, <3>1, <3>3 DEF TextInv, Open
    <3>4. CASE call[d].file \notin closing \cup {f}
      BY <1>4, <1>5, <2>1, <3>1, <3>4 DEF TextInv, Open
    <3> QED
      BY <3>2, <3>3, <3>4
  <2> QED
    BY <2>3, <2>4
<1>10. DiskInv' /\ \A g \in Files : written'[g] \in Nat /\ written'[g] >= written[g]
  BY <1>2, <1>3, <1>4 DEF DiskInv
<1> QED
  BY <1>2, <1>7, <1>9, <1>10, AnswerParts DEF Syncing

\* The server is told the text of the document.
LEMMA AnswerSend ==
  ASSUME TypeInv, FollowInv', AnswerInv, NEW c \in Calls, Send(c)
  PROVE  AnswerInv'
<1>1. /\ call[c].msg # NoMessage
      /\ call' = [call EXCEPT ![c] = call'[c]] /\ call'[c] = [call[c] EXCEPT !.msg = NoMessage]
      /\ UNCHANGED <<disk, written, docs, start, floor>>
  BY SendEffect
<1>2. /\ call \in [Calls -> CallStates] /\ call[c] \in CallStates /\ lock = c
      /\ written \in [Files -> Nat] /\ call[c].pc # "new"
  BY <1>1, CallsTyped, CallTyped, Split DEF CallsOK, LockInv, Holds, RestTyped, Shape, Fresh
<1>3. /\ call'[c].file = call[c].file /\ call'[c].told = call[c].told /\ call'[c].read = call[c].read
      /\ call'[c].pc = call[c].pc /\ call'[c].msg = NoMessage
  BY <1>1, <1>2 DEF CallStates
<1>4. Silent'
  BY <1>1, <1>2, <1>3, HolderAlone DEF Silent
<1>5. ASSUME NEW f \in Files
      PROVE  server'[f].version = docs[f].version /\ server'[f].text = docs[f].text
  <2>1. server'[f] = Told(docs[f]) /\ Told(docs[f]).version = docs[f].version /\ Told(docs[f]).text = docs[f].text
    BY <1>1, <1>4 DEF FollowInv, FollowsNow, Told
  <2> QED
    BY <2>1
<1>6. TextInv'
  <2> SUFFICES ASSUME NEW d \in Calls, call'[d].pc \in Synced
               PROVE  /\ call'[d].file \in Open' => NotOlder(d, docs[call'[d].file].text)
                      /\ server'[call'[d].file].version > 0 => NotOlder(d, server'[call'[d].file].text)
    BY <1>1 DEF TextInv, NotOlder
  <2>1. call[d].pc \in Synced /\ call'[d].file = call[d].file
    BY <1>1, <1>2, <1>3
  <2>2. call[d].file \in Files
    BY <2>1, CallTyped DEF Shape, Synced
  <2>3. call[d].file \in Open => NotOlder(d, docs[call[d].file].text)
    BY <2>1 DEF AnswerInv, TextInv
  <2> QED
    BY <1>1, <1>5, <2>1, <2>2, <2>3 DEF Open
<1>7. DiskInv' /\ \A g \in Files : written'[g] \in Nat /\ written'[g] >= written[g]
  BY <1>1, <1>2 DEF AnswerInv, DiskInv
<1> QED
  BY <1>1, <1>2, <1>3, <1>6, <1>7, AnswerParts

\* A write is newer than the start of any call.
LEMMA AnswerWritten ==
  ASSUME TypeInv, FollowInv, AnswerInv, NEW c \in Calls, Written(c)
  PROVE  AnswerInv'
<1> DEFINE f == call[c].target
           new == [version |-> docs[f].version + 1, text |-> written[f] + 1, used |-> 0]
           msg == [file |-> f, closed |-> {}, doc |-> Told(new)]
<1>1. /\ f \in Files
      /\ f \notin Open => docs' = docs
      /\ f \in Open => Told(docs'[f]) = [version |-> docs[f].version + 1, text |-> written[f] + 1]
      /\ \A g \in Files \ {f} : Told(docs'[g]) = Told(docs[g])
  BY WrittenDocs DEF FollowInv
<1>2. /\ call[c].pc = "writing" /\ call[c].msg = NoMessage
      /\ call' = [call EXCEPT ![c] = call'[c]]
      /\ call'[c] = [call[c] EXCEPT !.pc = AfterWrite(c), !.target = None, !.msg = IF f \in Open THEN msg ELSE NoMessage]
      /\ written' = [written EXCEPT ![f] = @ + 1]
      /\ disk' = [disk EXCEPT ![f] = written[f] + 1]
      /\ UNCHANGED <<server, start, floor>>
  BY WrittenEffect
<1>3. /\ call \in [Calls -> CallStates] /\ call[c] \in CallStates
      /\ written \in [Files -> Nat] /\ disk \in [Files -> Nat]
      /\ start \in [Calls -> Nat] /\ floor \in [Calls -> Nat]
      /\ DiskInv /\ StartInv /\ TextInv
  BY CallsTyped, CallTyped, Split DEF CallsOK, RestTyped, AnswerInv
<1>4. /\ \A g \in Files \ {f} : docs'[g].text = docs[g].text /\ docs'[g].version = docs[g].version
      /\ f \in Open => docs'[f].text = written[f] + 1
  <2> HIDE DEF f
  <2> QED
    BY <1>1 DEF Told
<1> HIDE DEF f, new, msg
<1>5. /\ call'[c].file = call[c].file /\ call'[c].told = call[c].told /\ call'[c].read = call[c].read
      /\ call'[c].pc \in {"apply", "command", "done"}
      /\ call'[c].msg = NoMessage => f \notin Open
  <2>1. AfterWrite(c) \in {"apply", "command", "done"}
    BY DEF AfterWrite
  <2>2. msg # NoMessage
    BY <1>1, DocsAssumption DEF msg, NoMessage
  <2> QED
    BY <1>2, <1>3, <2>1, <2>2 DEF CallStates
<1>6. \A d \in Calls : d # c => call'[d] = call[d]
  BY <1>2, <1>3
<1>7. DiskInv' /\ \A g \in Files : written'[g] \in Nat /\ written'[g] >= written[g]
  BY <1>1, <1>2, <1>3 DEF DiskInv
<1>8. TextInv'
  <2> SUFFICES ASSUME NEW d \in Calls, call'[d].pc \in Synced
               PROVE  /\ call[d].file \in Open' => NotOlder(d, docs'[call[d].file].text)
                      /\ call'[d].msg = NoMessage /\ server[call[d].file].version > 0 =>
                           NotOlder(d, server[call[d].file].text)
    <3>1. \A d \in Calls : call'[d].file = call[d].file
      BY <1>5, <1>6
    <3> QED
      BY <1>2, <3>1 DEF TextInv, NotOlder
  <2>1. call[d].pc \in Synced /\ call[d].pc # "new" /\ (call'[d].msg = NoMessage => call[d].msg = NoMessage)
    BY <1>2, <1>6 DEF Synced
  <2>2. call[d].file \in Files
    BY <2>1, CallTyped DEF Shape
  <2>3. call'[d].msg = NoMessage /\ server[call[d].file].version > 0 => NotOlder(d, server[call[d].file].text)
    BY <1>3, <2>1 DEF TextInv
  <2>4. call[d].file \in Open => NotOlder(d, docs[call[d].file].text)
    BY <1>3, <2>1 DEF TextInv
  <2>5. CASE f \notin Open
    BY <1>1, <2>3, <2>4, <2>5 DEF Open
  <2>6. CASE f \in Open /\ call[d].file = f
    <3>1. floor[d] <= written[f] + 1
      BY <1>1, <1>3, <2>1, <2>6 DEF StartInv
    <3> QED
      BY <1>4, <2>3, <2>6, <3>1 DEF NotOlder
  <2>7. CASE call[d].file # f
    BY <1>4, <2>2, <2>3, <2>4, <2>7 DEF Open
  <2> QED
    BY <2>5, <2>6, <2>7
<1> QED
  BY <1>2, <1>5, <1>7, <1>8, AnswerParts DEF Syncing

\* A failed write leaves part of a text.
LEMMA AnswerWriteFails ==
  ASSUME TypeInv, AnswerInv, NEW c \in Calls, WriteFails(c)
  PROVE  AnswerInv'
<1>1. /\ call[c].pc = "writing"
      /\ call' = [call EXCEPT ![c] = call'[c]]
      /\ call'[c] = [call[c] EXCEPT !.pc = "failed", !.target = None, !.todo = {}]
      /\ disk' = [disk EXCEPT ![call[c].target] = Partial]
      /\ UNCHANGED <<written, docs, server, start, floor>>
  BY WriteFailsEffect
<1>2. /\ call \in [Calls -> CallStates] /\ call[c] \in CallStates
      /\ written \in [Files -> Nat] /\ disk \in [Files -> Nat] /\ DiskInv /\ TextInv
  BY CallsTyped, CallTyped, Split DEF CallsOK, RestTyped, AnswerInv
<1>3. call'[c].file = call[c].file /\ call'[c].told = call[c].told /\ call'[c].read = call[c].read /\ call'[c].pc = "failed"
  BY <1>1, <1>2 DEF CallStates
<1>4. DiskInv' /\ \A g \in Files : written'[g] \in Nat /\ written'[g] >= written[g]
  BY <1>1, <1>2 DEF DiskInv
<1>5. TextInv'
  <2>1. \A d \in Calls : d # c => call'[d] = call[d]
    BY <1>1, <1>2
  <2> QED
    BY <1>1, <1>2, <1>3, <2>1 DEF TextInv, NotOlder, Synced, Open
<1> QED
  BY <1>1, <1>3, <1>4, <1>5, AnswerParts DEF Syncing

\* A call that starts counts the calls on its file that are in progress: what they have read may reach the server after it.
LEMMA AnswerBegin ==
  ASSUME TypeInv, AnswerInv, NEW c \in Calls, NEW kind \in Kinds, NEW f \in Files, Begin(c, kind, f)
  PROVE  AnswerInv'
<1>1. /\ call[c] = Fresh
      /\ call' = [call EXCEPT ![c] = call'[c]]
      /\ Begun(call'[c], kind, f)
      /\ start' = [start EXCEPT ![c] = disk[f]]
      /\ floor' = [floor EXCEPT ![c] = floor'[c]]
      /\ \A m \in Texts(f) : floor'[c] <= m
      /\ floor'[c] \in Nat
      /\ UNCHANGED <<disk, written, docs, server>>
  BY BeginEffect
<1>2. /\ call \in [Calls -> CallStates] /\ floor \in [Calls -> Nat] /\ start \in [Calls -> Nat]
      /\ written \in [Files -> Nat] /\ disk \in [Files -> Nat]
      /\ DiskInv /\ StartInv /\ ReadInv /\ TextInv /\ ToldInv
  BY CallsTyped, Split DEF CallsOK, RestTyped, AnswerInv
<1>3. /\ call'[c].pc = "ensure" /\ call'[c].file = f /\ call'[c].told = 0
      /\ call[c].pc = "new" /\ start'[c] = disk[f]
  BY <1>1, <1>2 DEF Begun, Fresh
<1>4. \A d \in Calls : d # c => call'[d] = call[d] /\ start'[d] = start[d] /\ floor'[d] = floor[d]
  BY <1>1, <1>2
<1>5. DiskInv'
  BY <1>1, <1>2 DEF DiskInv
<1>6. StartInv'
  <2> SUFFICES ASSUME NEW d \in Calls, call'[d].pc # "new"
               PROVE  floor'[d] <= start'[d] /\ start'[d] <= written[call'[d].file]
    BY <1>1 DEF StartInv
  <2>1. CASE d = c
    <3>1. disk[f] \in Texts(f) /\ disk[f] \in {0, written[f]}
      BY <1>2 DEF Texts, DiskInv, Partial
    <3> QED
      BY <1>1, <1>2, <1>3, <2>1, <3>1
  <2>2. CASE d # c
    BY <1>2, <1>4, <2>2 DEF StartInv
  <2> QED
    BY <2>1, <2>2
<1>7. ReadInv'
  <2> SUFFICES ASSUME NEW d \in Calls, call'[d].pc \in Syncing
               PROVE  /\ call'[d].read = Partial \/ call'[d].read >= start'[d]
                      /\ \A e \in Calls : call'[e].pc # "new" /\ call'[e].file = call'[d].file =>
                           call'[d].read = Partial \/ call'[d].read >= floor'[e]
    BY DEF ReadInv, NotOlder
  <2>1. d # c
    BY <1>3 DEF Syncing
  <2>2. call'[d] = call[d] /\ start'[d] = start[d] /\ call[d].read \in Nat
    BY <1>2, <1>4, <2>1 DEF CallStates
  <2>3. call[d].read = Partial \/ call[d].read >= start[d]
    BY <1>2, <2>2 DEF ReadInv
  <2>4. ASSUME NEW e \in Calls, call'[e].pc # "new", call'[e].file = call[d].file
        PROVE  call[d].read = Partial \/ call[d].read >= floor'[e]
    <3>1. CASE e = c
      <4>1. start[d] \in Texts(f)
        BY <1>3, <2>2, <2>4, <3>1 DEF Texts, Active, Syncing
      <4> QED
        BY <1>1, <1>2, <2>2, <2>3, <3>1, <4>1
    <3>2. CASE e # c
      BY <1>2, <1>4, <2>2, <2>4, <3>2 DEF ReadInv, NotOlder
    <3> QED
      BY <3>1, <3>2
  <2> QED
    BY <2>2, <2>3, <2>4
<1>8. TextInv'
  <2> SUFFICES ASSUME NEW d \in Calls, d # c, call'[d].pc \in Synced
               PROVE  LET f1 == call'[d].file IN
                      /\ f1 \in Open => NotOlder(d, docs[f1].text)
                      /\ call'[d].msg = NoMessage /\ server[f1].version > 0 => NotOlder(d, server[f1].text)
    BY <1>1, <1>3, <1>4 DEF TextInv, NotOlder, Synced, Open
  <2> QED
    BY <1>2, <1>4 DEF TextInv
<1>9. ToldInv'
  BY <1>2, <1>3, <1>4 DEF ToldInv, NotOlder, Partial
<1> QED
  BY <1>5, <1>6, <1>7, <1>8, <1>9 DEF AnswerInv

\* A write by others is newer than the start of any call.
LEMMA AnswerOutside ==
  ASSUME TypeInv, AnswerInv, NEW f \in Files, Outside(f)
  PROVE  AnswerInv'
<1>1. /\ written' = [written EXCEPT ![f] = @ + 1] /\ disk' = [disk EXCEPT ![f] = written'[f]]
      /\ UNCHANGED <<docs, server, call, start, floor>>
  BY DEF Outside
<1>2. /\ written \in [Files -> Nat] /\ disk \in [Files -> Nat] /\ start \in [Calls -> Nat]
      /\ DiskInv /\ StartInv /\ ReadInv /\ TextInv /\ ToldInv
  BY Split DEF RestTyped, AnswerInv
<1>3. DiskInv' /\ \A g \in Files : written'[g] \in Nat /\ written'[g] >= written[g]
  BY <1>1, <1>2 DEF DiskInv
<1>4. StartInv'
  <2> SUFFICES ASSUME NEW d \in Calls, call[d].pc # "new"
               PROVE  floor[d] <= start[d] /\ start[d] <= written'[call[d].file]
    BY <1>1 DEF StartInv
  <2>1. call[d].file \in Files /\ floor[d] <= start[d] /\ start[d] <= written[call[d].file]
    BY <1>2, CallTyped DEF Shape, StartInv
  <2> QED
    BY <1>2, <1>3, <2>1
<1>5. ReadInv' /\ TextInv' /\ ToldInv'
  BY <1>1, <1>2 DEF ReadInv, TextInv, ToldInv, NotOlder, Open
<1> QED
  BY <1>3, <1>4, <1>5 DEF AnswerInv

\* AnswerInv is inductive.
LEMMA AnswerNext == TypeInv /\ FollowInv /\ FollowInv' /\ AnswerInv /\ [Next]_vars => AnswerInv'
<1> SUFFICES ASSUME TypeInv, FollowInv, FollowInv', AnswerInv, [Next]_vars PROVE AnswerInv'
  OBVIOUS
<1>1. CASE UNCHANGED vars
  BY <1>1 DEF vars, AnswerInv, DiskInv, StartInv, ReadInv, TextInv, ToldInv, NotOlder, Open
<1> QED
  BY <1>1, StepCases, AnswerQuiet, AnswerSync, AnswerSend, AnswerWritten, AnswerWriteFails,
     AnswerBegin, AnswerOutside DEF Next, Finished

-----------------------------------------------------------------------------
(* A call that runs alone *)

\* A call that runs alone finds whole texts.
LEMMA AloneReads ==
  ASSUME TypeInv, NobodyElse, NEW c \in Calls, Alone(c), call[c].target = None
  PROVE  OnDisk(call[c].file) = disk[call[c].file]
<1> SUFFICES ASSUME NEW d \in Calls, call[d].target = call[c].file PROVE FALSE
  BY DEF OnDisk
<1>1. call[c].file \in Files
  BY CallTyped DEF Alone, Active, Shape
<1>2. call[d].pc = "writing"
  BY <1>1, CallTyped, DocsAssumption DEF Shape
<1>3. d = c
  BY <1>2 DEF NobodyElse, Active
<1> QED
  BY <1>1, <1>3, DocsAssumption

\* A quiet step of a call that runs alone.
LEMMA AloneQuiet ==
  ASSUME TypeInv, NobodyElse, NEW c \in Calls, Alone(c), Knows(call[c]), Edits(call[c]),
         Quiet(c), Active(c)'
  PROVE  Knows(call'[c]) /\ Edits(call'[c])
<1>0. /\ call \in [Calls -> CallStates] /\ call[c] \in CallStates /\ Shape(call[c])
      /\ call[c].file \in Files /\ call[c].file # None /\ call[c].msg = NoMessage
  BY CallsTyped, CallTyped, QuietStep, DocsAssumption DEF CallsOK, Shape
<1>a. call[c].target = None => OnDisk(call[c].file) = disk[call[c].file]
  BY AloneReads
<1>b. Knows(call[c]) /\ Edits(call[c])
  OBVIOUS
<1>c. call[c].pc \in {"ask", "resolve"} => Answer(c) = disk[call[c].file]
  <2>1. CASE server[call[c].file].version > 0
    BY <1>0, <2>1 DEF Knows, Answer, Synced
  <2>2. CASE ~(server[call[c].file].version > 0)
    BY <1>0, <1>a, <2>2 DEF Answer, Shape
  <2> QED
    BY <2>1, <2>2
<1>1. CASE EnsureRead(c)
  <2>1. /\ call'[c] = [call[c] EXCEPT !.read = OnDisk(call[c].file), !.pc = IF @ = "ensure" THEN "sync" ELSE "syncAgain"]
        /\ call[c].pc \in {"ensure", "ensureAgain"}
    BY <1>0, <1>1 DEF EnsureRead, At
  <2>2. OnDisk(call[c].file) = disk[call[c].file]
    BY <1>0, <1>a, <2>1 DEF Shape
  <2> QED
    BY <1>0, <1>b, <2>1, <2>2 DEF CallStates, Knows, Edits, Syncing, Synced
<1>2. CASE Query(c) \/ QueryHierarchy(c) \/ AskSymbol(c) \/ AskRename(c) \/ AskActions(c)
  <2>1. PICK kinds \in SUBSET Kinds, pc \in {"done", "ask", "read", "apply", "resolve", "command"}, todo \in SUBSET Files :
           Answered(c, kinds, pc, todo)
    BY <1>2, Asked
  <2>2. /\ call'[c] = [call[c] EXCEPT !.pc = pc, !.told = Answer(c), !.todo = todo]
        /\ call[c].pc = "ask"
    BY <1>0, <2>1 DEF Answered, At
  <2> QED
    BY <1>0, <1>b, <1>c, <2>2 DEF CallStates, Shape, Knows, Edits, Syncing, Synced
<1>3. CASE Resolve(c)
  <2>1. PICK todo \in SUBSET Files :
          call' = [call EXCEPT ![c].pc = IF todo = {} THEN "command" ELSE "apply",
                               ![c].told = Answer(c), ![c].todo = todo]
    BY <1>3 DEF Resolve
  <2>2. call[c].pc = "resolve"
    BY <1>3 DEF Resolve, At
  <2>3. call'[c] = [call[c] EXCEPT !.pc = IF todo = {} THEN "command" ELSE "apply", !.told = Answer(c), !.todo = todo]
    BY <1>0, <2>1
  <2> QED
    BY <1>0, <1>b, <1>c, <2>2, <2>3 DEF CallStates, Shape, Knows, Edits, Syncing, Synced
<1>4. CASE RunCommand(c) \/ Fail(c)
  BY <1>0, <1>4 DEF RunCommand, Fail, Active, CallStates
<1>5. CASE Read(c)
  <2>1. /\ call'[c] = [call[c] EXCEPT !.pc = "ensureAgain", !.base = OnDisk(call[c].file)]
        /\ call[c].pc = "read"
    BY <1>0, <1>5 DEF Read, At
  <2>2. OnDisk(call[c].file) = disk[call[c].file]
    BY <1>0, <1>a, <2>1 DEF Shape
  <2> QED
    BY <1>0, <1>b, <2>1, <2>2 DEF CallStates, Shape, Knows, Edits, Syncing, Synced
<1>6. CASE WriteEdit(c)
  <2>1. call'[c] = [call[c] EXCEPT !.pc = "writing", !.target = call[c].file] /\ call[c].pc = "write"
    BY <1>0, <1>6 DEF WriteEdit, At
  <2> QED
    BY <1>0, <1>b, <2>1 DEF CallStates, Shape, Knows, Edits, Syncing, Synced
<1>7. ASSUME NEW f \in Files, WriteAnswer(c, f)
      PROVE  Knows(call'[c]) /\ Edits(call'[c])
  <2>1. /\ call'[c] = [call[c] EXCEPT !.pc = "writing", !.target = f, !.todo = @ \ {f},
                                      !.base = IF f = call[c].file THEN disk[f] ELSE @]
        /\ call[c].pc = "apply" /\ f \in call[c].todo
    BY <1>0, <1>7 DEF WriteAnswer, At
  <2> QED
    BY <1>0, <1>b, <2>1 DEF CallStates, Shape, Knows, Edits, Syncing, Synced
<1> QED
  BY <1>1, <1>2, <1>3, <1>4, <1>5, <1>6, <1>7 DEF Quiet

\* Making its document current.
LEMMA AloneSync ==
  ASSUME TypeInv, FollowInv, NEW c \in Calls, Knows(call[c]), Edits(call[c]), Sync(c)
  PROVE  Knows(call[c])' /\ Edits(call[c])'
<1> DEFINE f == call[c].file
           new == Refreshed(f, call[c].read)
           closing == IF f \in Open THEN {} ELSE ToClose
           same == new.version = docs[f].version
           msg == [file |-> f, closed |-> closing, doc |-> Told(new)]
<1>1. /\ f \in Files /\ new.version > 0 /\ new.text = call[c].read
      /\ same => Told(new) = Told(docs[f])
      /\ Told(docs'[f]) = Told(new)
  BY SyncDocs DEF FollowInv
<1>2. /\ call[c].pc \in Syncing /\ lock = None
      /\ call' = [call EXCEPT ![c] = call'[c]]
      /\ call'[c] = [call[c] EXCEPT !.pc = AfterSync(c), !.msg = IF same THEN NoMessage ELSE msg]
      /\ UNCHANGED <<disk, server>>
  BY SyncEffect
<1>3. FollowsNow /\ call[c] \in CallStates /\ Shape(call[c])
  BY <1>2, FreeIsSilent, CallTyped DEF FollowInv
<1>4. docs'[f].text = call[c].read /\ (same => server[f].text = call[c].read)
  <2>1. same => server[f] = Told(new)
    BY <1>1, <1>3 DEF FollowsNow
  <2> HIDE DEF f, new, same
  <2> QED
    BY <1>1, <2>1 DEF Told
<1>5. msg # NoMessage
  BY <1>1, DocsAssumption DEF NoMessage
<1>6. AfterSync(c) = IF call[c].pc = "syncAgain" THEN "write" ELSE IF call[c].kind = "edit" THEN "read" ELSE "ask"
  BY DEF AfterSync
<1>7. call[c].target = None /\ call[c].todo = {} /\ f # None
  BY <1>1, <1>2, <1>3, DocsAssumption DEF Shape, Syncing
<1>8. /\ call'[c].file = f /\ call'[c].pc = AfterSync(c) /\ call'[c].kind = call[c].kind
      /\ call'[c].told = call[c].told /\ call'[c].base = call[c].base
      /\ call'[c].todo = {} /\ call'[c].target = None
      /\ call'[c].msg = NoMessage => same
  <2> HIDE DEF msg, same
  <2> QED
    BY <1>2, <1>3, <1>5, <1>7 DEF CallStates
<1> HIDE DEF new, closing, same, msg
<1>9. Knows(call[c])'
  BY <1>2, <1>4, <1>6, <1>8 DEF Knows, Syncing, Synced
<1>10. Edits(call[c])'
  BY <1>2, <1>6, <1>7, <1>8 DEF Edits, Syncing
<1> QED
  BY <1>9, <1>10

\* Writing its own file or another.
LEMMA AloneWritten ==
  ASSUME TypeInv, FollowInv, NEW c \in Calls, Knows(call[c]), Edits(call[c]), Written(c)
  PROVE  Knows(call[c])' /\ Edits(call[c])'
<1> DEFINE g == call[c].file
           f == call[c].target
           new == [version |-> docs[f].version + 1, text |-> written[f] + 1, used |-> 0]
           msg == [file |-> f, closed |-> {}, doc |-> Told(new)]
<1>1. /\ f \in Files
      /\ f \notin Open => docs' = docs
      /\ f \in Open => Told(docs'[f]) = [version |-> docs[f].version + 1, text |-> written[f] + 1]
      /\ \A h \in Files \ {f} : Told(docs'[h]) = Told(docs[h])
  BY WrittenDocs DEF FollowInv
<1>2. /\ call[c].pc = "writing" /\ call[c].msg = NoMessage
      /\ call' = [call EXCEPT ![c] = call'[c]]
      /\ call'[c] = [call[c] EXCEPT !.pc = AfterWrite(c), !.target = None, !.msg = IF f \in Open THEN msg ELSE NoMessage]
      /\ disk' = [disk EXCEPT ![f] = written[f] + 1]
      /\ UNCHANGED server
  BY WrittenEffect
<1>3. call[c] \in CallStates /\ Shape(call[c]) /\ disk \in [Files -> Nat]
      /\ docs \in [Files -> [version : Nat, text : Nat, used : Nat]]
  BY CallTyped, Split DEF RestTyped
<1>4. lock = c
  BY <1>1, Split, DocsAssumption DEF LockInv, Holds
<1>5. FollowsNow
  BY <1>2, <1>4, HolderAlone DEF FollowInv, Silent
<1>6. g \in Files /\ g # None /\ f \notin call[c].todo
  BY <1>2, <1>3, DocsAssumption DEF Shape
<1>7. AfterWrite(c) \in {"apply", "command", "done"}
  BY DEF AfterWrite
<1>8. msg # NoMessage
  BY <1>1, DocsAssumption DEF NoMessage
<1>9. /\ \A h \in Files \ {f} : docs'[h].text = docs[h].text /\ docs'[h].version = docs[h].version
      /\ f \in Open => docs'[f].text = written[f] + 1
      /\ \A h \in Files : server[h].version = docs[h].version
  <2>1. \A h \in Files : server[h] = Told(docs[h]) /\ Told(docs[h]).version = docs[h].version
    BY <1>5 DEF Told, FollowsNow
  <2> HIDE DEF f
  <2>2. /\ \A h \in Files \ {f} : docs'[h].text = docs[h].text /\ docs'[h].version = docs[h].version
        /\ f \in Open => docs'[f].text = written[f] + 1
    BY <1>1 DEF Told
  <2> QED
    BY <2>1, <2>2
<1> HIDE DEF g, f, msg
<1>10. /\ call'[c].file = g /\ call'[c].pc \in {"apply", "command", "done"}
       /\ call'[c].told = call[c].told /\ call'[c].todo = call[c].todo /\ call'[c].target = None
       /\ call'[c].msg = NoMessage => f \notin Open
  BY <1>2, <1>3, <1>7, <1>8 DEF CallStates, g
<1>11. CASE g = f
  BY <1>1, <1>2, <1>3, <1>6, <1>9, <1>10, <1>11 DEF Knows, Edits, Syncing, Synced, Open
<1>12. CASE g # f
  <2>1. disk'[g] = disk[g] /\ docs'[g].text = docs[g].text /\ docs'[g].version = docs[g].version
    BY <1>2, <1>3, <1>6, <1>9, <1>12
  <2>2. /\ g \in Open => docs[g].text = disk[g]
        /\ server[g].version > 0 => server[g].text = disk[g]
        /\ g \in call[c].todo => call[c].told = disk[g]
    BY <1>2 DEF Knows, Edits, Synced, g
  <2> QED
    BY <1>2, <1>6, <1>10, <2>1, <2>2 DEF Knows, Edits, Syncing, Synced, Open
<1> QED
  BY <1>11, <1>12

\* A message of any call reaches the server.
LEMMA AloneSend ==
  ASSUME TypeInv, FollowInv', NEW c \in Calls, Send(c), NEW d \in Calls, Active(d), Knows(call[d]), Edits(call[d])
  PROVE  Knows(call[d])' /\ Edits(call[d])'
<1>1. /\ call[c].msg # NoMessage
      /\ call' = [call EXCEPT ![c] = call'[c]] /\ call'[c] = [call[c] EXCEPT !.msg = NoMessage]
      /\ UNCHANGED <<disk, docs>>
  BY SendEffect
<1>2. /\ call \in [Calls -> CallStates] /\ call[c] \in CallStates /\ lock = c
      /\ call[d].file \in Files
  BY <1>1, CallsTyped, CallTyped, Split DEF CallsOK, LockInv, Holds, Shape, Active
<1>3. call'[c].msg = NoMessage
  BY <1>1, <1>2 DEF CallStates
<1>4. Silent'
  BY <1>1, <1>2, <1>3, HolderAlone DEF Silent
<1>5. server'[call[d].file].version = docs[call[d].file].version /\ server'[call[d].file].text = docs[call[d].file].text
  <2>1. server'[call[d].file] = Told(docs[call[d].file])
    BY <1>1, <1>2, <1>4 DEF FollowInv, FollowsNow
  <2> QED
    BY <2>1 DEF Told
<1>6. /\ call'[d].file = call[d].file /\ call'[d].pc = call[d].pc /\ call'[d].kind = call[d].kind
      /\ call'[d].read = call[d].read /\ call'[d].told = call[d].told /\ call'[d].base = call[d].base
      /\ call'[d].todo = call[d].todo /\ call'[d].target = call[d].target
  BY <1>1, <1>2 DEF CallStates
<1>7. Knows(call[d])'
  BY <1>1, <1>2, <1>5, <1>6 DEF Knows, Open
<1>8. Edits(call[d])'
  BY <1>1, <1>6 DEF Edits
<1> QED
  BY <1>7, <1>8

\* While one call runs alone, the steps of others are the messages that calls before it left to send.
LEMMA AloneStep ==
  ASSUME TypeInv, FollowInv, FollowInv', AloneInv, NEW c \in Calls, CallStep(c)
  PROVE  AloneInv'
<1>0. call \in [Calls -> CallStates] /\ NobodyElse
  BY CallsTyped DEF CallsOK, AloneInv
<1>1. alone' = alone /\ call' = [call EXCEPT ![c] = call'[c]]
  BY StepCases, QuietStep, SyncEffect, SendEffect, WrittenEffect, WriteFailsEffect
<1>2. CASE Send(c)
  <2>1. call'[c].pc = call[c].pc
    <3>1. call[c] \in CallStates /\ call'[c] = [call[c] EXCEPT !.msg = NoMessage]
      BY <1>2, SendEffect, CallTyped
    <3> QED
      BY <3>1 DEF CallStates
  <2>2. \A d \in Calls : Active(d)' <=> Active(d)
    BY <1>0, <1>1, <2>1 DEF Active
  <2>3. \A d \in Calls : Alone(d)' <=> Alone(d)
    BY <1>1, <2>2 DEF Alone
  <2> QED
    BY <1>0, <1>2, <2>2, <2>3, AloneSend DEF AloneInv, NobodyElse, Alone
<1>3. CASE Quiet(c) \/ Sync(c) \/ Written(c) \/ WriteFails(c)
  <2>1. Active(c)
    BY <1>3, QuietStep, SyncEffect, WrittenEffect, WriteFailsEffect DEF Active, Syncing
  <2>2. \A d \in Calls : (Active(d)' => Active(d)) /\ (Alone(d)' => Alone(d))
    BY <1>0, <1>1, <2>1 DEF Active, Alone
  <2>3. NobodyElse'
    BY <1>0, <2>2 DEF NobodyElse
  <2>4. ASSUME NEW d \in Calls, Alone(d)'
        PROVE  Knows(call[d])' /\ Edits(call[d])'
    <3>1. d = c /\ Alone(c) /\ Knows(call[c]) /\ Edits(call[c])
      BY <1>0, <2>1, <2>2, <2>4 DEF NobodyElse, AloneInv
    <3>2. Active(c)'
      BY <2>4, <3>1 DEF Alone
    <3>3. CASE Quiet(c)
      <4>1. Knows(call'[c]) /\ Edits(call'[c])
        BY <1>0, <3>1, <3>2, <3>3, AloneQuiet
      <4>2. UNCHANGED <<disk, docs, server>>
        BY <3>3, QuietStep
      <4> QED
        BY <3>1, <4>1, <4>2 DEF Knows, Edits, Open
    <3>4. CASE Sync(c)
      BY <3>1, <3>4, AloneSync
    <3>5. CASE Written(c)
      BY <3>1, <3>5, AloneWritten
    <3>6. CASE WriteFails(c)
      <4>1. call'[c].pc = "failed"
        <5>1. call[c] \in CallStates /\ call'[c] = [call[c] EXCEPT !.pc = "failed", !.target = None, !.todo = {}]
          BY <3>6, WriteFailsEffect, CallTyped
        <5> QED
          BY <5>1 DEF CallStates
      <4> QED
        BY <3>2, <4>1 DEF Active
    <3> QED
      BY <1>3, <3>3, <3>4, <3>5, <3>6
  <2> QED
    BY <2>3, <2>4 DEF AloneInv
<1> QED
  BY <1>2, <1>3, StepCases

\* AloneInv is inductive.
LEMMA AloneNext == TypeInv /\ FollowInv /\ FollowInv' /\ AloneInv /\ [Next]_vars => AloneInv'
<1> SUFFICES ASSUME TypeInv, FollowInv, FollowInv', AloneInv, [Next]_vars PROVE AloneInv'
  OBVIOUS
<1>0. call \in [Calls -> CallStates]
  BY CallsTyped DEF CallsOK
<1>1. ASSUME NEW c \in Calls, NEW kind \in Kinds, NEW f \in Files, Begin(c, kind, f)
      PROVE  AloneInv'
  <2>1. /\ call' = [call EXCEPT ![c] = call'[c]] /\ Begun(call'[c], kind, f)
        /\ alone' = [d \in Calls |-> IF d = c THEN \A e \in Calls : ~Active(e) ELSE alone[d] /\ ~Active(d)]
    BY <1>1, BeginEffect
  <2>2. \A d \in Calls : d # c => call'[d] = call[d]
    BY <1>0, <2>1
  <2>3. \A d \in Calls : Alone(d)' => d = c /\ \A e \in Calls : ~Active(e)
    BY <2>1, <2>2 DEF Alone, Active
  <2>4. NobodyElse'
    BY <2>2, <2>3 DEF NobodyElse, Active
  <2>5. Knows(call[c])' /\ Edits(call[c])'
    BY <2>1, DocsAssumption DEF Knows, Edits, Begun, Syncing, Synced, Partial
  <2> QED
    BY <2>3, <2>4, <2>5 DEF AloneInv
<1>2. ASSUME NEW f \in Files, Outside(f)
      PROVE  AloneInv'
  <2>1. \A c \in Calls : ~Alone(c)'
    BY <1>2 DEF Outside, Alone, Active
  <2> QED
    BY <2>1 DEF AloneInv, NobodyElse
<1>3. CASE UNCHANGED vars
  BY <1>3 DEF vars, AloneInv, NobodyElse, Alone, Active, Knows, Edits, Open
<1> QED
  BY <1>1, <1>2, <1>3, AloneStep DEF Next, Finished

-----------------------------------------------------------------------------
(* The theorems *)

\* The inductive invariant.
DocsInv == TypeInv /\ FollowInv /\ BoundInv /\ AnswerInv /\ AloneInv

\* The invariant holds when nothing is open and no call has begun.
LEMMA DocsInit == Init => DocsInv
<1> SUFFICES ASSUME Init PROVE DocsInv
  OBVIOUS
<1>1. \A c \in Calls : /\ call[c] = Fresh /\ call[c].pc = "new" /\ call[c].file = None /\ call[c].told = 0
                       /\ call[c].todo = {} /\ call[c].target = None /\ call[c].msg = NoMessage
  BY DEF Init, Fresh
<1>2. \A f \in Files : /\ docs[f] = NoDoc /\ docs[f].version = 0
                       /\ server[f] = Closed /\ server[f].version = 0
                       /\ disk[f] = 1 /\ written[f] = 1
  BY DEF Init, NoDoc, Closed
<1>3. TypeInv
  <2>1. Fresh \in CallStates
    BY NoMessageType DEF Fresh, CallStates, Messages, Kinds
  <2>2. call \in [Calls -> CallStates]
    BY <2>1 DEF Init
  <2>3. NoDoc \in [version : Nat, text : Nat, used : Nat] /\ Closed \in Docs
    BY DEF NoDoc, Closed, Docs, Partial
  <2>4. CallShape
    BY <1>1 DEF CallShape, Shape
  <2> QED
    BY <1>1, <2>2, <2>3, <2>4, DocsAssumption DEF Init, TypeInv, TypeOK, CallStates
<1>4. FollowInv
  <2>1. Told(NoDoc) = Closed
    BY DEF Told, NoDoc, Closed
  <2> QED
    BY <1>1, <1>2, <2>1 DEF FollowInv, ClosedIsEmpty, Silent, FollowsNow
<1>5. BoundInv
  <2>1. Open = {} /\ ServerOpen = {}
    BY <1>2 DEF Open, ServerOpen
  <2> QED
    BY <2>1, FS_EmptySet, DocsAssumption DEF BoundInv, AtMost
<1>6. AnswerInv
  BY <1>1, <1>2 DEF AnswerInv, DiskInv, StartInv, ReadInv, TextInv, ToldInv, NotOlder, Syncing, Synced, Partial
<1>7. AloneInv
  BY <1>1 DEF AloneInv, NobodyElse, Alone, Active
<1> QED
  BY <1>3, <1>4, <1>5, <1>6, <1>7 DEF DocsInv

\* The invariant that carries the theorems.
LEMMA DocsAlways == Spec => []DocsInv
<1>1. DocsInv /\ [Next]_vars => DocsInv'
  BY TypeNext, FollowNext, BoundNext, AnswerNext, AloneNext DEF DocsInv
<1> QED
  BY DocsInit, <1>1, PTL DEF Spec

\* Every variable has the shape the code gives it, and whoever writes a file or
\* tells the server holds the lock of the documents (client.opened).
THEOREM TypeCorrect == Spec => []TypeOK
<1>1. DocsInv => TypeOK
  BY DEF DocsInv, TypeInv
<1> QED
  BY <1>1, DocsAlways, PTL

\* Whenever the lock of the documents is free, the server has been told exactly
\* what client.opened says: didOpen, didChange and didClose of concurrent calls
\* never overtake one another, whatever the calls and the cap.
THEOREM ServerFollowsAlways == Spec => []ServerFollows
<1>1. DocsInv => ServerFollows
  BY FreeIsSilent DEF DocsInv, FollowInv, FollowsNow, ServerFollows
<1> QED
  BY <1>1, DocsAlways, PTL

\* However many calls open documents at once, the server never has more than
\* MAX_OPEN_DOCS of them open.
THEOREM OpenBoundAlways == Spec => []OpenBound
<1>1. DocsInv => OpenBound
  BY DEF DocsInv, BoundInv, AtMost, ServerOpen, OpenBound
<1> QED
  BY <1>1, DocsAlways, PTL

\* However calls on a file interleave with one another and with writes by others,
\* no call is answered about a text older than the oldest call on the file that was
\* in progress when it began.
THEOREM AnswersNotOlder == Spec => []AnswerNotOlder
<1>1. DocsInv => AnswerNotOlder
  BY DEF DocsInv, AnswerInv, ToldInv, NotOlder, AnswerNotOlder
<1> QED
  BY <1>1, DocsAlways, PTL

\* A call that nothing else interleaves with is answered about the text in its
\* file, and edits that text: the ranges of the answer refer to what is changed.
THEOREM AloneIsExactAlways == Spec => []AloneIsExact
<1>1. DocsInv => AloneIsExact
  <2> SUFFICES ASSUME DocsInv, NEW c \in Calls, alone[c]
               PROVE  /\ At(c, {"ask", "read"}) => call[c].told \in {Partial, disk[call[c].file]}
                      /\ At(c, {"writing"}) /\ call[c].target = call[c].file =>
                           /\ call[c].base = disk[call[c].file]
                           /\ call[c].kind # "edit" => call[c].told = call[c].base
    BY DEF AloneIsExact
  <2> QED
    BY DEF DocsInv, AloneInv, Alone, Active, At, Knows, Edits
<1> QED
  BY <1>1, DocsAlways, PTL
=============================================================================
