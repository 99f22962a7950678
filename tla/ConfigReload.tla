---------------------------- MODULE ConfigReload ----------------------------
(***************************************************************************)
(* The live configuration and the task that reloads it when the            *)
(* modification time of ~/.aide/config.toml changes (Config::load,         *)
(* AideServer::new, spawn_config_reloader).  A content of the file is      *)
(* named by its modification time, 0 when there is no file; what it says   *)
(* is the number of indexes to keep, or Unreadable.                        *)
(***************************************************************************)
EXTENDS Naturals, Common

CONSTANTS MaxKeep, MaxEdits, MaxReadErrors

ASSUME ReloadAssumption == None \notin Nat /\ MaxKeep \in Nat \ {0} /\ MaxEdits \in Nat /\ MaxReadErrors \in Nat

Unreadable == None   \* the file does not parse
DefaultConfig == [mtime |-> 0, keep |-> 1]

VARIABLES
  configFile,   \* its modification time and what it says
  edits,        \* how often it has changed
  liveConfig,   \* AideServer.config
  keepReady,    \* the retention atomic of the indexer
  reloader,     \* where the task is: start, stat, load, swap
  lastMtime,    \* last_mtime
  newConfig,    \* what the task has loaded
  readErrors,   \* how many reads of an intact file have failed
  slipped       \* history: a change that the times cannot show (before the first stat,
                \* or a file deleted twice between two polls), or a failed read

configVars == <<configFile, edits, liveConfig, keepReady, reloader, lastMtime, newConfig, readErrors, slipped>>

\* Mutant: the number is taken as it is.
AsWritten(n) == n

\* At least one index is kept, whatever the file says.
AtLeastOne(n) == IF n = 0 THEN 1 ELSE n

\* The server has loaded the file; the task has not run yet.
ConfigInit ==
  /\ configFile \in [mtime : {1}, keep : 0..MaxKeep] \cup {DefaultConfig}
  /\ edits = 0
  /\ liveConfig = configFile
  /\ keepReady = AtLeastOne(configFile.keep)
  /\ reloader = "start"
  /\ lastMtime = 0
  /\ newConfig = DefaultConfig
  /\ readErrors = 0
  /\ slipped = FALSE

\* The user writes the file, breaks it, or deletes it.
EditConfig ==
  /\ edits < MaxEdits
  /\ edits' = edits + 1
  /\ configFile' \in [mtime : {edits + 2}, keep : 0..MaxKeep \cup {Unreadable}] \cup {DefaultConfig}
  /\ configFile' # configFile
  /\ slipped' = (slipped \/ reloader = "start" \/ configFile'.mtime = lastMtime)
  /\ UNCHANGED <<liveConfig, keepReady, reloader, lastMtime, newConfig, readErrors>>

\* The task's first look at the file.
FirstStat ==
  /\ reloader = "start"
  /\ lastMtime' = configFile.mtime
  /\ reloader' = "stat"
  /\ UNCHANGED <<configFile, edits, liveConfig, keepReady, newConfig, readErrors, slipped>>

\* Every five seconds: nothing to do, or the time has changed and is noted.
Poll ==
  /\ reloader = "stat" /\ configFile.mtime # lastMtime
  /\ lastMtime' = configFile.mtime
  /\ reloader' = "load"
  /\ UNCHANGED <<configFile, edits, liveConfig, keepReady, newConfig, readErrors, slipped>>

\* The file, as it is by now, is read; the indexer is told first.
LoadConfig ==
  /\ reloader = "load" /\ configFile.keep # Unreadable
  /\ newConfig' = configFile
  /\ keepReady' = AtLeastOne(configFile.keep)
  /\ reloader' = "swap"
  /\ UNCHANGED <<configFile, edits, liveConfig, lastMtime, readErrors, slipped>>

\* It does not parse: the previous values stay.
LoadRejected ==
  /\ reloader = "load" /\ configFile.keep = Unreadable
  /\ reloader' = "stat"
  /\ UNCHANGED <<configFile, edits, liveConfig, keepReady, lastMtime, newConfig, readErrors, slipped>>

\* Reading it fails, although it is intact.
LoadFails ==
  /\ reloader = "load" /\ readErrors < MaxReadErrors
  /\ readErrors' = readErrors + 1
  /\ slipped' = TRUE
  /\ reloader' = "stat"
  /\ UNCHANGED <<configFile, edits, liveConfig, keepReady, lastMtime, newConfig>>

\* Mutant: the time is noted after the load, not before.
SwapAndNote ==
  /\ reloader = "swap"
  /\ liveConfig' = newConfig
  /\ lastMtime' = configFile.mtime
  /\ reloader' = "stat"
  /\ UNCHANGED <<configFile, edits, keepReady, newConfig, readErrors, slipped>>

\* The write lock of the configuration.
SwapConfig ==
  /\ reloader = "swap"
  /\ liveConfig' = newConfig
  /\ reloader' = "stat"
  /\ UNCHANGED <<configFile, edits, keepReady, lastMtime, newConfig, readErrors, slipped>>

ReloaderStep == FirstStat \/ Poll \/ LoadConfig \/ LoadRejected \/ SwapConfig
ConfigNext == ReloaderStep \/ LoadFails \/ EditConfig

\* The task sleeps five seconds between polls and is never blocked.
ConfigFairness == WF_configVars(ReloaderStep)

-----------------------------------------------------------------------------
(* Properties *)

ConfigTypeOK ==
  LET configs == [mtime : 0..MaxEdits + 1, keep : 0..MaxKeep \cup {Unreadable}] IN
  /\ configFile \in configs /\ liveConfig \in configs /\ newConfig \in configs
  /\ edits \in 0..MaxEdits /\ readErrors \in 0..MaxReadErrors /\ slipped \in BOOLEAN
  /\ keepReady \in 1..AtLeastOne(MaxKeep)
  /\ reloader \in {"start", "stat", "load", "swap"} /\ lastMtime \in 0..MaxEdits + 1

\* A file that is left alone is live in the end, in the server and in the indexer,
\* although stat, load and swap are separate and the file may change in between;
\* but for the changes `slipped` is about and a file that does not parse.
ConfigBecomesLive ==
  <>[](\/ slipped \/ configFile.keep = Unreadable
       \/ liveConfig = configFile /\ keepReady = AtLeastOne(configFile.keep))
=============================================================================
