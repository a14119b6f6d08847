---------------------------- MODULE EthTelemetry ----------------------------
(***************************************************************************)
(* The settings xOpsDMEthLogEnabled and xOpsDMEthLogPeriod, and the        *)
(* threads that go by them: the logger reads them where they are kept; the *)
(* telemetry is told through a file in /tmp, which one thread watches with *)
(* inotify and copies into variables another thread waits by.  Nothing of  *)
(* this is locked but the wait itself.  Periods are counted in the ticks   *)
(* the logger sleeps, of 60 seconds.                                       *)
(***************************************************************************)
EXTENDS Integers

CONSTANTS
    Periods,        \* periods the settings may take
    MaxChanges,     \* bound on the changes of a setting
    MayFail         \* whether syscfg and the file may fail

ASSUME PeriodsAssumption == Periods \subseteq Nat /\ Periods # {}
ASSUME MaxChangesAssumption == MaxChanges \in Nat
ASSUME MayFailAssumption == MayFail \in BOOLEAN

VARIABLES
    settings,   \* LogStatus, and eth_log_enabled and eth_log_period in syscfg
    file,       \* eth_telemetry_xOpsLogSettings.txt
    sync,       \* what the dispatcher has left to do of CosaEthTelemetryxOpsLogSettingsSync
    modified,   \* an event the inotify descriptor has and nobody has read
    copy,       \* gEthLogEnable and gEthLogInterval
    watcher,    \* EthTelemetryxOpsLogSettingsEventThread
    telemetry,  \* EthTelemetryLoggingThread: where it is, the interval it waits
    logger,     \* Ethernet_Logger_Thread: where it is, its variables, ticks slept
    changes,    \* so far
    missed,     \* history: the file was written last when nobody would look
    raced       \* history: the period changed between two looks of the logger

settingsVars == <<settings, file, sync>>
telemetryVars == <<modified, copy, watcher, telemetry>>
logVars == <<settings, file, sync, modified, copy, watcher, telemetry, logger, changes,
             missed, raced>>

Settings == [enable : BOOLEAN, period : Periods]

\* The agent has just started: both readings of syscfg agreed, and the file
\* was written before the threads that read it were created.
LogInit ==
    /\ settings \in Settings
    /\ \/ file = [at |-> "full", is |-> settings] /\ missed = FALSE
       \/ MayFail /\ file = [at |-> "none", is |-> settings] /\ missed = TRUE
    /\ sync = "done"
    /\ modified = FALSE
    /\ copy = [enable |-> FALSE, period |-> 0]
    /\ watcher = "poll"
    /\ telemetry = [at |-> "round", interval |-> 0]
    /\ logger = [at |-> "top", left |-> 0, old |-> 0, slept |-> 0]
    /\ changes = 0 /\ raced = FALSE

-----------------------------------------------------------------------------
(* The dispatcher                                                          *)

\* A setting is stored in syscfg and then taken over; if it can not be stored
\* nothing happens, and the writer is told that it did.
Set(new) ==
    /\ sync = "done" /\ changes < MaxChanges
    /\ changes' = changes + 1
    /\ \/ /\ settings' = new /\ sync' = "open"
          /\ raced' = (raced \/ (logger.at = "check" /\ new.period # settings.period))
       \/ MayFail /\ UNCHANGED <<settings, sync, raced>>
    /\ UNCHANGED <<file, telemetryVars, logger, missed>>

EthLogging_SetParamBoolValue(v) == Set([settings EXCEPT !.enable = v])

EthLogging_SetParamUlongValue(p) == Set([settings EXCEPT !.period = p])

\* MUTANT of Notify: an event that comes while the thread is at work is lost.
Bug_NotifyTheWaiting == modified' = (modified \/ watcher = "wait")

\* The watch has an event for each modification; one that is like the last
\* and comes before that was read is dropped.
Notify == modified' = (modified \/ watcher \in {"wait", "reread", "signal"})

\* Opening the file for writing empties it.
OpenFile ==
    /\ sync = "open"
    /\ \/ sync' = "write" /\ file' = [file EXCEPT !.at = "empty"] /\ Notify /\ UNCHANGED missed
       \/ MayFail /\ sync' = "done" /\ missed' = TRUE /\ UNCHANGED <<file, modified>>
    /\ UNCHANGED <<settings, copy, watcher, telemetry, logger, changes, raced>>

\* What was printed into it is written when it is closed.
CloseFile ==
    /\ sync = "write" /\ sync' = "done"
    /\ file' = [at |-> "full", is |-> settings]
    /\ Notify
    /\ missed' = (watcher = "watch")
    /\ UNCHANGED <<settings, copy, watcher, telemetry, logger, changes, raced>>

CosaEthTelemetryxOpsLogSettingsSync == OpenFile \/ CloseFile

-----------------------------------------------------------------------------
(* The thread that watches the file                                        *)

At(w, next) == watcher = w /\ watcher' = next

\* Of an empty file nothing is read.
read_updated_log_interval == copy' = IF file.at = "full" THEN file.is ELSE copy

\* The thread polls until the file is there, reads it, and only then has it
\* watched.
FindFile ==
    /\ At("poll", "read") /\ file.at # "none"
    /\ UNCHANGED <<settingsVars, modified, copy, telemetry, logger, changes, missed, raced>>

ReadFirst ==
    /\ At("read", "watch") /\ read_updated_log_interval
    /\ UNCHANGED <<settingsVars, modified, telemetry, logger, changes, missed, raced>>

AddWatch ==
    /\ At("watch", "wait")
    /\ UNCHANGED <<settingsVars, modified, copy, telemetry, logger, changes, missed, raced>>

GetEvent ==
    /\ At("wait", "reread") /\ modified /\ modified' = FALSE
    /\ UNCHANGED <<settingsVars, copy, telemetry, logger, changes, missed, raced>>

ReadAgain ==
    /\ At("reread", "signal") /\ read_updated_log_interval
    /\ UNCHANGED <<settingsVars, modified, telemetry, logger, changes, missed, raced>>

\* The signal is lost unless the other thread is waiting.
Signal ==
    /\ At("signal", "wait")
    /\ telemetry' = [telemetry EXCEPT !.at = IF @ = "wait" THEN "round" ELSE @]
    /\ UNCHANGED <<settingsVars, modified, copy, logger, changes, missed, raced>>

EthTelemetryxOpsLogSettingsEventThread ==
    FindFile \/ ReadFirst \/ AddWatch \/ GetEvent \/ ReadAgain \/ Signal

-----------------------------------------------------------------------------
(* The thread that writes the telemetry                                    *)

Goes(t, next) == telemetry.at = t /\ telemetry' = next

\* The interval is read outside the lock.
ReadInterval ==
    /\ Goes("round", [at |-> "lock", interval |-> copy.period])
    /\ UNCHANGED <<settingsVars, modified, copy, watcher, logger, changes, missed, raced>>

StartWait ==
    /\ Goes("lock", [telemetry EXCEPT !.at = "wait"])
    /\ UNCHANGED <<settingsVars, modified, copy, watcher, logger, changes, missed, raced>>

\* The time is over: EthTelemetryPush if the copy says so.
TimeOut ==
    /\ Goes("wait", [telemetry EXCEPT !.at = IF copy.enable THEN "push" ELSE "round"])
    /\ UNCHANGED <<settingsVars, modified, copy, watcher, logger, changes, missed, raced>>

EthTelemetryPush ==
    /\ Goes("push", [telemetry EXCEPT !.at = "round"])
    /\ UNCHANGED <<settingsVars, modified, copy, watcher, logger, changes, missed, raced>>

EthTelemetryLoggingThread == ReadInterval \/ StartWait \/ TimeOut \/ EthTelemetryPush

-----------------------------------------------------------------------------
(* The logger                                                              *)

Elsewhere == UNCHANGED <<settingsVars, telemetryVars, changes, missed>>

\* Ethernet_Log, if enabled; then the period is counted down from the start.
Ethernet_Log ==
    /\ logger.at = "top"
    /\ logger' = [at |-> "check", left |-> settings.period, old |-> logger.old, slept |-> 0]
    /\ raced' = FALSE /\ Elsewhere

Sleep ==
    /\ logger.at = "check"
    /\ logger' = IF logger.left > 0
                 THEN [logger EXCEPT !.at = "adjust", !.old = settings.period, !.slept = @ + 1]
                 ELSE [logger EXCEPT !.at = "top"]
    /\ UNCHANGED raced /\ Elsewhere

\* MUTANT of Adjust: the change of the period is left out.
Bug_OnlyTheTick ==
    /\ logger.at = "adjust"
    /\ logger' = [logger EXCEPT !.at = "check", !.left = @ - 1]
    /\ UNCHANGED raced /\ Elsewhere

\* A tick is over; a change of the period since its beginning counts.
Adjust ==
    /\ logger.at = "adjust"
    /\ logger' = [logger EXCEPT !.at = "check",
                                !.left = @ - 1 + settings.period - logger.old]
    /\ UNCHANGED raced /\ Elsewhere

Ethernet_Logger_Thread == Ethernet_Log \/ Sleep \/ Adjust

-----------------------------------------------------------------------------
LogNext ==
    \/ \E v \in BOOLEAN : EthLogging_SetParamBoolValue(v)
    \/ \E p \in Periods : EthLogging_SetParamUlongValue(p)
    \/ CosaEthTelemetryxOpsLogSettingsSync
    \/ EthTelemetryxOpsLogSettingsEventThread
    \/ EthTelemetryLoggingThread
    \/ Ethernet_Logger_Thread

\* The dispatcher finishes its call, the threads run and time passes.
LogFairness ==
    /\ WF_logVars(CosaEthTelemetryxOpsLogSettingsSync)
    /\ WF_logVars(EthTelemetryxOpsLogSettingsEventThread)
    /\ WF_logVars(EthTelemetryLoggingThread)
    /\ WF_logVars(Ethernet_Logger_Thread)

LogSpec == LogInit /\ [][LogNext]_logVars /\ LogFairness

-----------------------------------------------------------------------------
(* Properties                                                              *)

\* The telemetry goes by the settings, and waits by their period.
Current == copy = settings /\ telemetry.interval = settings.period

\* A change of the settings gets through to the telemetry, though the file is
\* read half-written, events are merged and signals lost: by the next round
\* at the latest.  It does not when the file was written between the first
\* look at it and the watch; then only the next change mends it.
SettingsReachTelemetry == ~Current ~> Current \/ missed

\* No change of the settings is stranded: unless the file was missed, what the
\* copy does not have yet the dispatcher has still to write, or the file has
\* it and the thread that watches has an event to read, or is about to look.
SettingsOnTheWay ==
    \/ copy = settings \/ missed \/ sync # "done"
    \/ /\ file = [at |-> "full", is |-> settings]
       /\ modified \/ watcher \in {"poll", "read", "reread"}

\* The logger counts down the period that holds now, however often it changes
\* while it sleeps; only a change between its two looks at the period is lost.
LoggerCountsDown ==
    logger.at = "check" /\ ~raced => logger.left = settings.period - logger.slept
=============================================================================
