----------------------------- MODULE MCServices -----------------------------
(***************************************************************************)
(* Small instances of the services of the tool server that keep state of   *)
(* their own, for TLC.  They share no variable, so each behaviour is one   *)
(* of a single service, named by part; the others rest.                    *)
(***************************************************************************)
EXTENDS DapSessions, ScipCache, ConfigReload, Jobs, Installer, Memory, TLC

VARIABLE part

vars == <<part, sessionsVars, scipVars, configVars, jobsVars, installVars, memoryVars>>

Init ==
  /\ part \in {"sessions", "scip", "config", "jobs", "install", "memory"}
  /\ SessionsInit /\ ScipInit /\ ConfigInit /\ JobsInit /\ InstallerInit /\ MemoryInit
  /\ part # "config" => configFile = DefaultConfig

Next ==
  /\ UNCHANGED part
  /\ \/ part = "sessions" /\ SessionsNext
     \/ part # "sessions" /\ UNCHANGED sessionsVars
  /\ \/ part = "scip" /\ ScipNext
     \/ part # "scip" /\ UNCHANGED scipVars
  /\ \/ part = "config" /\ ConfigNext
     \/ part # "config" /\ UNCHANGED configVars
  /\ \/ part = "jobs" /\ JobsNext
     \/ part # "jobs" /\ UNCHANGED jobsVars
  /\ \/ part = "install" /\ InstallerNext
     \/ part # "install" /\ UNCHANGED installVars
  /\ \/ part = "memory" /\ MemoryNext
     \/ part # "memory" /\ UNCHANGED memoryVars

\* The reloader's first step is enabled at the start, where it is not its turn.
Fairness ==
  /\ SessionsFairness
  /\ WF_configVars(part = "config" /\ ReloaderStep)
  /\ JobsFairness

Spec == Init /\ [][Next]_vars /\ Fairness

\* Every variable of every service stays in its domain.
TypeOK ==
  /\ SessionsTypeOK /\ ScipTypeOK /\ ConfigTypeOK
  /\ JobsTypeOK /\ InstallerTypeOK /\ MemoryTypeOK
=============================================================================
