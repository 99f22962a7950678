----------------------------- MODULE Installer -----------------------------
(***************************************************************************)
(* The tool installer (install_tool, Manifest): the manifest, the binary   *)
(* of each tool and the directories archives are extracted into, as calls  *)
(* change them and a crash leaves them.  A tool is either a single file or *)
(* an archive with a link to an entry of its directory.                    *)
(***************************************************************************)
EXTENDS Naturals, FiniteSets, Common

CONSTANTS
  Tools,
  Archived,    \* the tools that come as archives
  Installs,    \* calls of install_tool at one time; each is followed by more
  MaxVersion,  \* versions are 1..MaxVersion; a call asks for one of them
  MaxCalls     \* how many calls there are in all

ASSUME InstallerAssumption ==
  None \notin Tools /\ Archived \subseteq Tools /\ MaxVersion \in Nat \ {0} /\ MaxCalls \in Nat

VARIABLES
  manifest,    \* the file: version recorded for each tool, 0 if none
  binary,      \* version the install path holds or links to, 0 if there is none
  unpacked,    \* per tool and version: the directory is none, part or whole
  install,     \* per call: where it is, tool, version, the manifest it has loaded
  begun,       \* calls so far
  asked,       \* history: the newest version asked for, per tool
  disturbed,   \* history: tools on which two calls have been at work at once, of
               \* which an older version was asked for after a newer one, or whose
               \* record the save of another tool has put back
  together     \* history: calls that were at work while another was

installVars == <<manifest, binary, unpacked, install, begun, asked, disturbed, together>>
historyOfInstalls == <<asked, disturbed, together>>

Versions == 1..MaxVersion
NoRecords == [t \in Tools |-> 0]
Waiting == [pc |-> "new", tool |-> None, version |-> 0, loaded |-> NoRecords]
InstallAt(i, pc) == install[i].pc = pc
InstallTo(i, pc) == install' = [install EXCEPT ![i].pc = pc]
Working(i) == install[i].pc \notin {"new", "already", "installed"}

\* Does the install path exist?  Not as a link to a file that is not there, which
\* half an archive may lack.
Exists(t) ==
  IF binary[t] = 0 THEN {FALSE}
  ELSE IF t \notin Archived THEN {TRUE}
  ELSE CASE unpacked[t][binary[t]] = "none"  -> {FALSE}
         [] unpacked[t][binary[t]] = "part"  -> {FALSE, TRUE}
         [] unpacked[t][binary[t]] = "whole" -> {TRUE}

InstallerInit ==
  /\ manifest = NoRecords
  /\ binary = NoRecords
  /\ unpacked = [t \in Tools |-> [v \in Versions |-> "none"]]
  /\ install = [i \in Installs |-> Waiting]
  /\ begun = 0
  /\ asked = NoRecords
  /\ disturbed = {}
  /\ together = {}

\* The manifest is read; the tool may be there already.
LoadManifest(i, t, v) ==
  /\ ~Working(i) /\ begun < MaxCalls
  /\ begun' = begun + 1
  /\ \E there \in Exists(t) :
       install' = [install EXCEPT ![i] =
         [pc |-> IF manifest[t] = v /\ there THEN "already" ELSE "download",
          tool |-> t, version |-> v, loaded |-> manifest]]
  /\ asked' = [asked EXCEPT ![t] = IF v > @ THEN v ELSE @]
  /\ LET others == {j \in Installs : Working(j)} IN
       /\ disturbed' = disturbed \cup {u \in {t} : v < asked[t] \/ \E j \in others : install[j].tool = t}
       /\ together' = IF others = {} THEN together \ {i} ELSE together \cup others \cup {i}
  /\ UNCHANGED <<manifest, binary, unpacked>>

\* Mutant: the version is recorded as soon as it is downloaded.
DownloadAndRecord(i) ==
  LET t == install[i].tool IN
  /\ InstallAt(i, "download")
  /\ InstallTo(i, IF t \in Archived THEN "extract" ELSE "place")
  /\ unpacked' = IF t \in Archived THEN [unpacked EXCEPT ![t][install[i].version] = "none"] ELSE unpacked
  /\ manifest' = [install[i].loaded EXCEPT ![t] = install[i].version]
  /\ UNCHANGED <<binary, begun, historyOfInstalls>>

\* The asset is there and is fetched; the directory of an archive is emptied.
Download(i) ==
  LET t == install[i].tool IN
  /\ InstallAt(i, "download")
  /\ InstallTo(i, IF t \in Archived THEN "extract" ELSE "place")
  /\ unpacked' = IF t \in Archived THEN [unpacked EXCEPT ![t][install[i].version] = "none"] ELSE unpacked
  /\ UNCHANGED <<manifest, binary, begun, historyOfInstalls>>

\* Files of the archive appear; all of them are there in the end.
ExtractPart(i) ==
  /\ InstallAt(i, "extract")
  /\ unpacked' = [unpacked EXCEPT ![install[i].tool][install[i].version] = "part"]
  /\ InstallTo(i, "extracting")
  /\ UNCHANGED <<manifest, binary, begun, historyOfInstalls>>
ExtractRest(i) ==
  /\ InstallAt(i, "extracting")
  /\ unpacked' = [unpacked EXCEPT ![install[i].tool][install[i].version] = "whole"]
  /\ InstallTo(i, "unlink")
  /\ UNCHANGED <<manifest, binary, begun, historyOfInstalls>>

\* link_entry: the old link goes, the new one comes.
RemoveLink(i) ==
  /\ InstallAt(i, "unlink")
  /\ binary' = [binary EXCEPT ![install[i].tool] = 0]
  /\ InstallTo(i, "place")
  /\ UNCHANGED <<manifest, unpacked, begun, historyOfInstalls>>

\* The link, or the file renamed into place.
Place(i) ==
  /\ InstallAt(i, "place")
  /\ binary' = [binary EXCEPT ![install[i].tool] = install[i].version]
  /\ InstallTo(i, "record")
  /\ UNCHANGED <<manifest, unpacked, begun, historyOfInstalls>>

\* The manifest as it was loaded, with the new record.
WithRecord(i) == [install[i].loaded EXCEPT ![install[i].tool] = install[i].version]

SaveManifest(i) ==
  /\ InstallAt(i, "record")
  /\ manifest' = WithRecord(i)
  /\ InstallTo(i, "installed")
  /\ disturbed' = disturbed \cup {t \in Tools \ {install[i].tool} : manifest'[t] # manifest[t]}
  /\ UNCHANGED <<binary, unpacked, begun, asked, together>>

\* No asset for this target, a failing download, archive or file operation; or
\* the process ends.
InstallFails(i) ==
  /\ Working(i)
  /\ install' = [install EXCEPT ![i] = Waiting]
  /\ UNCHANGED <<manifest, binary, unpacked, begun, historyOfInstalls>>

InstallStep(i) ==
  \/ \E t \in Tools, v \in Versions : LoadManifest(i, t, v)
  \/ Download(i) \/ ExtractPart(i) \/ ExtractRest(i) \/ RemoveLink(i) \/ Place(i)
  \/ SaveManifest(i) \/ InstallFails(i)

InstallerNext == \E i \in Installs : InstallStep(i)

-----------------------------------------------------------------------------
(* Properties *)

InstallerTypeOK ==
  /\ manifest \in [Tools -> 0..MaxVersion] /\ binary \in [Tools -> 0..MaxVersion]
  /\ unpacked \in [Tools -> [Versions -> {"none", "part", "whole"}]]
  /\ install \in [Installs -> [pc : {"new", "download", "extract", "extracting", "unlink", "place",
                                     "record", "installed", "already"},
                               tool : Tools \cup {None}, version : 0..MaxVersion,
                               loaded : [Tools -> 0..MaxVersion]]]
  /\ begun \in 0..MaxCalls /\ asked \in [Tools -> 0..MaxVersion]
  /\ disturbed \subseteq Tools /\ together \subseteq Installs

Reports(i) == install[i] # install'[i] /\ install'[i].pc \in {"installed", "already"}

\* However calls fail, crash and are made again, a tool is reported as there, now
\* or already, only if its binary is of that version and complete, unless two calls
\* have been at work on it at once or an older version was asked for again; and the
\* call has kept the records of the other tools, unless another was at work.
ReportsAreTrue ==
  [][\A i \in Installs : LET t == install'[i].tool  v == install'[i].version IN
       Reports(i) =>
         /\ t \notin disturbed' => binary'[t] = v /\ (t \in Archived => unpacked'[t][v] = "whole")
         /\ i \notin together => \A u \in Tools \ {t} : manifest'[u] = manifest[u]]_installVars
=============================================================================
