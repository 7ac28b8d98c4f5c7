--------------------------- MODULE SubStoreRuntime ---------------------------
(* The bundled Sub-Store (utils/sub_store_runtime.py, utils/dependencies.py,      *)
(* sub-store-start.sh): conversions of several API processes share a lock and       *)
(* start it on demand, an idle sweep stops it, and an update replaces its files      *)
(* and rolls back when the new version does not answer.                              *)
EXTENDS Naturals, FiniteSets

CONSTANTS
  Converters,       \* threads of any API process that convert a subscription
  Releases,         \* released versions, beyond the built-in version 1
  MaxCrashes        \* bound: ends of Sub-Store by itself, of the container, and failures of a rollback's file operations

VARIABLES
  service,          \* version that answers; 0 is stopped
  launched,         \* version supervisor started last, which may not answer; 0 is none
  files,            \* runtime directory: bundle and VERSION; 0 is missing
  spare,            \* copy of the runtime directory
  converter,        \* thread -> its step; the shared work lock is its "use" and "start"
  updater,          \* the update thread
  exclusive,        \* who has the work lock alone
  mode, recorded,   \* stored mode; state.json
  idle,             \* the idle time has passed since the last use
  crashes

runtimeVars == <<service, launched, files, spare, converter, updater, exclusive, mode, recorded, idle, crashes>>
process == <<service, launched>>
directories == <<files, spare>>

Missing == [bundle |-> 0, version |-> 0]
NoUpdate == [pc |-> "idle", target |-> 0, previous |-> 0, had |-> FALSE, why |-> "none"]

(* active_bundle and sub-store-start.sh: the newer of the two.                       *)
Active == IF files.bundle # 0 /\ files.version > 1 THEN files ELSE [bundle |-> 1, version |-> 1]

Sharing == {c \in Converters : converter[c] \in {"start", "use"}}

(* supervisorctl start: the process of the active bundle runs, and answers or not.    *)
Launch == launched' = Active.bundle /\ service' \in {0, Active.bundle}
Stop == launched' = 0 /\ service' = 0

(* use: the shared lock, then _ensure_running under the control lock.                 *)
Use(c) ==
  /\ converter[c] = "idle" /\ exclusive = "none"
  /\ converter' = [converter EXCEPT ![c] = "start"]
  /\ UNCHANGED <<process, directories, updater, exclusive, mode, recorded, idle, crashes>>

EnsureRunning ==
  \/ service # 0 /\ recorded' = "running" /\ UNCHANGED process
  \/ service = 0 /\ launched # 0 /\ recorded' = "failed" /\ UNCHANGED process
  \/ service = 0 /\ launched = 0 /\ Launch /\ recorded' = IF service' # 0 THEN "running" ELSE "failed"

Started(c) ==
  /\ converter[c] = "start"
  /\ EnsureRunning
  /\ converter' = [converter EXCEPT ![c] = IF recorded' = "running" THEN "use" ELSE "idle"]
  /\ UNCHANGED <<directories, updater, exclusive, mode, idle, crashes>>

(* Busy(c) is refused after 45 s while an update or a sweep has the lock.             *)
Used(c) ==
  /\ converter[c] = "use"
  /\ converter' = [converter EXCEPT ![c] = "idle"]
  /\ idle' = FALSE
  /\ UNCHANGED <<process, directories, updater, exclusive, mode, recorded, crashes>>

IdleTimePasses ==
  /\ ~idle /\ recorded # "sleeping" /\ idle' = TRUE
  /\ UNCHANGED <<process, directories, converter, updater, exclusive, mode, recorded, crashes>>

Tick_WithoutWorkLock ==
  /\ mode = "on_demand" /\ recorded # "sleeping" /\ idle
  /\ Stop /\ recorded' = "sleeping"
  /\ UNCHANGED <<directories, converter, updater, exclusive, mode, idle, crashes>>

(* tick: the work lock alone, or another time.                                        *)
Tick ==
  /\ exclusive = "none" /\ Sharing = {}
  /\ \/ mode = "always" /\ EnsureRunning
     \/ mode = "on_demand" /\ recorded # "sleeping" /\ idle
        /\ Stop /\ recorded' = IF recorded = "failed" THEN "failed" ELSE "sleeping"
  /\ UNCHANGED <<directories, converter, updater, exclusive, mode, idle, crashes>>

SetMode ==
  /\ exclusive = "none" /\ Sharing = {}
  /\ mode' \in {"on_demand", "always"} \ {mode}
  /\ \/ mode' = "always" /\ EnsureRunning /\ recorded' = "running"
     \/ mode' = "on_demand" /\ UNCHANGED <<process, recorded>>
  /\ idle' = FALSE
  /\ UNCHANGED <<directories, converter, updater, exclusive, crashes>>

(* ---------------------------------- update --------------------------------- *)
Step(pc) == updater' = [updater EXCEPT !.pc = pc]

(* start_sub_store_update: one at a time (_update_lock is of the process, and          *)
(* supervisor runs one program that updates), and only to a newer version.             *)
StartUpdate ==
  /\ updater.pc = "idle"
  /\ \E v \in Releases :
       /\ v > IF service # 0 THEN service ELSE Active.version
       /\ updater' = [NoUpdate EXCEPT !.pc = "wait", !.target = v]
  /\ UNCHANGED <<process, directories, converter, exclusive, mode, recorded, idle, crashes>>

(* maintenance: alone, after the conversions that run; it gives up after 90 s.         *)
Maintenance ==
  /\ updater.pc = "wait" /\ exclusive = "none"
  /\ \/ Sharing = {} /\ exclusive' = "updater" /\ recorded' = "updating"
        /\ updater' = [updater EXCEPT !.pc = "download", !.previous = Active.version, !.had = files.bundle # 0]
     \/ Sharing # {} /\ updater' = NoUpdate /\ UNCHANGED <<exclusive, recorded>>
  /\ UNCHANGED <<process, directories, converter, mode, idle, crashes>>

(* _download_bundle: a body that is too small, altered or no JavaScript is refused.    *)
Download ==
  /\ updater.pc = "download"
  /\ \/ Step("keep") \/ updater' = [updater EXCEPT !.pc = "ready", !.why = "download"]
  /\ UNCHANGED <<process, directories, converter, exclusive, mode, recorded, idle, crashes>>

Keep ==
  /\ updater.pc = "keep"
  /\ \/ spare' = (IF updater.had THEN files ELSE Missing) /\ Step("replace")
     \/ spare' = Missing /\ updater' = [updater EXCEPT !.pc = "ready", !.why = "download"]
  /\ UNCHANGED <<process, files, converter, exclusive, mode, recorded, idle, crashes>>

ReplaceBundle ==
  /\ updater.pc = "replace"
  /\ files' = [files EXCEPT !.bundle = updater.target]
  /\ Step("version")
  /\ UNCHANGED <<process, spare, converter, exclusive, mode, recorded, idle, crashes>>

(* Opening VERSION empties it before the new one is written.                           *)
WriteVersion ==
  /\ updater.pc = "version"
  /\ \/ files' = [files EXCEPT !.version = updater.target] /\ Step("restart")
     \/ files' \in {files, [files EXCEPT !.version = 0]} /\ Step("remove")
  /\ UNCHANGED <<process, spare, converter, exclusive, mode, recorded, idle, crashes>>

(* The version that answers decides, not the restart that succeeded.                   *)
Restart ==
  /\ updater.pc = "restart" /\ Launch
  /\ IF service' = updater.target
     THEN spare' = Missing /\ updater' = [updater EXCEPT !.pc = "ready", !.why = "success"]
     ELSE Step("remove") /\ UNCHANGED spare
  /\ UNCHANGED <<files, converter, exclusive, mode, recorded, idle, crashes>>

(* The rollback: the new files go, the kept ones come back, and are started. When a     *)
(* file cannot be removed or the copy not be moved, it ends where it is.                *)
Crash == crashes < MaxCrashes /\ crashes' = crashes + 1
NotRolledBack == Crash /\ updater' = [updater EXCEPT !.pc = "ready", !.why = "not rolled back"]

Remove ==
  /\ updater.pc = "remove"
  /\ \/ files' = Missing /\ Step("restore") /\ UNCHANGED crashes
     \/ files' \in {files, [files EXCEPT !.bundle = 0], [files EXCEPT !.version = 0], Missing} /\ NotRolledBack
  /\ UNCHANGED <<process, spare, converter, exclusive, mode, recorded, idle>>

Restore ==
  /\ updater.pc = "restore"
  /\ \/ files' = (IF updater.had THEN spare ELSE files) /\ spare' = (IF updater.had THEN Missing ELSE spare)
        /\ Step("relaunch") /\ UNCHANGED crashes
     \/ updater.had /\ NotRolledBack /\ UNCHANGED directories
  /\ UNCHANGED <<process, converter, exclusive, mode, recorded, idle>>

Relaunch ==
  /\ updater.pc = "relaunch" /\ Launch
  /\ updater' = [updater EXCEPT !.pc = "ready",
       !.why = IF service' = updater.previous THEN "rolled back" ELSE "not rolled back"]
  /\ UNCHANGED <<directories, converter, exclusive, mode, recorded, idle, crashes>>

(* The end of maintenance.                                                             *)
UpdateEnds ==
  /\ updater.pc = "ready"
  /\ exclusive' = "none" /\ updater' = NoUpdate /\ idle' = FALSE
  /\ recorded' = IF service # 0 THEN "running" ELSE "failed"
  /\ UNCHANGED <<process, directories, converter, mode, crashes>>

(* ---------------------------------- faults --------------------------------- *)
(* Supervisor starts it again (autorestart), from the files of that moment, or gives up. *)
ServiceEnds ==
  /\ launched # 0 /\ Crash /\ (Launch \/ Stop)
  /\ UNCHANGED <<directories, converter, updater, exclusive, mode, recorded, idle>>

(* A version that took longer than anybody waited for it.                              *)
AnswersLate ==
  /\ service = 0 /\ launched # 0 /\ service' = launched
  /\ UNCHANGED <<launched, directories, converter, updater, exclusive, mode, recorded, idle, crashes>>

(* The container starts again: the locks are gone, state.json is a file of /tmp and    *)
(* gone with it (the next sweep writes it), and nothing is started by itself.          *)
ContainerRestarts ==
  /\ Crash /\ Stop
  /\ converter' = [c \in Converters |-> "idle"] /\ updater' = NoUpdate /\ exclusive' = "none"
  /\ recorded' = "sleeping" /\ idle' = FALSE
  /\ UNCHANGED <<directories, mode>>

RuntimeInit ==
  /\ service = 0 /\ launched = 0 /\ spare = Missing
  /\ files \in {Missing, [bundle |-> 2, version |-> 2]}
  /\ converter = [c \in Converters |-> "idle"] /\ updater = NoUpdate /\ exclusive = "none"
  /\ mode \in {"on_demand", "always"} /\ recorded = "sleeping" /\ idle = FALSE /\ crashes = 0

Convert == \E c \in Converters : Use(c) \/ Started(c) \/ Used(c)
Updating ==
  \/ Maintenance \/ Download \/ Keep \/ ReplaceBundle \/ WriteVersion \/ Restart
  \/ Remove \/ Restore \/ Relaunch \/ UpdateEnds
RuntimeNext == Convert \/ IdleTimePasses \/ Tick \/ SetMode \/ StartUpdate \/ Updating \/ ServiceEnds \/ AnswersLate \/ ContainerRestarts
RuntimeSpec == RuntimeInit /\ [][RuntimeNext]_runtimeVars

(* The monitor sweeps every five seconds, time passes, and the threads go on; nobody    *)
(* asks for conversions, updates or modes forever.                                      *)
RuntimeFairness ==
  /\ WF_runtimeVars(Tick) /\ WF_runtimeVars(IdleTimePasses) /\ WF_runtimeVars(Updating)
  /\ \A c \in Converters : WF_runtimeVars(Started(c)) /\ WF_runtimeVars(Used(c))
FairRuntimeSpec == RuntimeSpec /\ RuntimeFairness

(* -------------------------------- properties ------------------------------- *)
(* Nothing the panel does stops or restarts Sub-Store under a conversion; only its own  *)
(* end may ("Stopping/updating takes the exclusive lock").                              *)
NeverStoppedInUse ==
  [][(\E c \in Converters : converter[c] = "use") /\ crashes' = crashes /\ service # 0 => service' = service]_runtimeVars

(* What answers when an update says it succeeded is the new version, also when it was    *)
(* started again meanwhile; one that was rolled back has the files and the version of    *)
(* before.                                                                              *)
UpdateIsWhole ==
  /\ updater.pc = "ready" /\ updater.why = "success" => launched \in {0, updater.target} /\ service \in {0, updater.target}
  /\ updater.pc = "ready" /\ updater.why = "rolled back" => Active.version = updater.previous

(* A file of a version nobody finished installing is used only while its update runs,    *)
(* after the container ended in the middle of it, or after a rollback that could not      *)
(* remove it.                                                                             *)
ActiveIsInstalled == crashes = 0 /\ updater.pc \in {"idle", "wait"} => Active.bundle = Active.version

(* On demand, once nobody converts or updates any more, Sub-Store goes to sleep.          *)
SleepsWhenIdle ==
  [](mode = "on_demand") /\ <>[](\A c \in Converters : converter[c] = "idle") /\ <>[](updater = NoUpdate)
    => <>[](launched = 0)
=============================================================================
