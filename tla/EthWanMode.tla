----------------------------- MODULE EthWanMode -----------------------------
(***************************************************************************)
(* The change of the WAN mode between DOCSIS and Ethernet, in the builds   *)
(* with AUTOWAN_ENABLE and without WAN manager unification.  A user writes *)
(* SelectedOperationalMode; with ENABLE_WANMODECHANGE_NOREBOOT a thread    *)
(* ThreadConfigEthWan reconfigures the device, otherwise the flags are     *)
(* stored and the device reboots.  In the mode "auto" the WAN manager      *)
(* tries the modes by ConfigureWan and PostCfgWanFinalize, which run on    *)
(* the data model's dispatcher.  The mode is kept in four places: the HAL, *)
(* the file /nvram/ETHWAN_ENABLE, syscfg and the layout of the bridges;    *)
(* the WAN manager records the mode it got up in curr_ and last_wan_mode.  *)
(* At start-up a thread tells the WAN manager the name of the WAN device.  *)
(***************************************************************************)
EXTENDS EthWanBridge, Naturals

CONSTANTS
    Threads,        \* threads ThreadConfigEthWan that may run at a time
    Patient,        \* TRUE: the mode is only written when the last change has settled
    MaxFaults,      \* bound on failing calls (HAL, syscfg, bus) and unasked restarts
    RetryMax        \* retryMax of ThreadBootInformMsg

ASSUME ThreadsAssumption == "bus" \notin Threads
ASSUME PatientAssumption == Patient \in BOOLEAN
ASSUME BoundsAssumption == MaxFaults \in Nat /\ RetryMax \in Nat

VARIABLES
    build,      \* the platform, and whether modes change without a reboot
    hal,        \* CcspHalExtSw_getEthWanEnable
    file,       \* /nvram/ETHWAN_ENABLE exists
    sys,        \* syscfg: eth_wan_enabled and the selected, current and last mode
    cfg,        \* EthWanCfg: wanOperState, PrevSelMode, ethWanIfMac, Enable
    net,        \* the network devices
    job,        \* what each thread and the dispatcher ("bus") is doing
    inform,     \* ThreadBootInformMsg
    update,     \* ThreadUpdateInformMsg
    wm,         \* the WAN manager: Enable, Wan.Name of the Ethernet WAN, a mode on trial
    rebooting,  \* the reboot was asked for
    faults,     \* so far
    damage      \* history: what a fault, a crash or an old start-up message left
                \* behind, until a later step mends it

mode == <<hal, file, sys, cfg, net>>
bounds == <<faults, damage>>
vars == <<build, mode, job, inform, update, wm, rebooting, bounds>>

Workers == Threads \cup {"bus"}
Modes == {"auto", "eth", "docsis", "unknown"}
ModeOf(eth) == IF eth THEN "eth" ELSE "docsis"

Steps == {"idle", "start", "take", "hal", "file", "flag", "late", "back",
          "fin", "names", "resume", "end"}
\* v is the mode being configured, eth what CosaDmlIfaceFinalize found.
Job == [at : Steps, v : BOOLEAN, rolled : BOOLEAN, eth : BOOLEAN]
Idle == [at |-> "idle", v |-> FALSE, rolled |-> FALSE, eth |-> FALSE]

At(w, s) == job[w].at = s
To(w, s) == job' = [job EXCEPT ![w].at = s]
Done(w) == job' = [job EXCEPT ![w] = Idle]
\* CosaDmlConfigureEthWan begins with the port only towards Ethernet.
First(v) == IF v THEN "take" ELSE "hal"

\* One of the bounded failures; harm is what it leaves behind.
Fault(harm) ==
    /\ faults < MaxFaults
    /\ faults' = faults + 1
    /\ damage' = damage \cup harm

Unharmed == UNCHANGED bounds

\* The WAN manager got the name of the WAN device; as it is now, or an old one.
Told(fresh) ==
    /\ damage' = IF fresh THEN damage \ {"name", "stale"} ELSE damage \cup {"stale"}
    /\ UNCHANGED faults

DeviceName(eth) == IF eth THEN WAN_IF_NAME_PRIMARY ELSE "port"
\* MUTANT of InitBootInformInfo
Bug_NameBySelection == DeviceName(sys.sel = "eth")
\* InitBootInformInfo goes by the file and syscfg, not by the HAL.
InitBootInformInfo == DeviceName(file /\ sys.eth)

NoInform == [at |-> "ready", msg |-> "", retry |-> FALSE, count |-> 0]
NoUpdate == [at |-> "off", msg |-> ""]

\* CosaEthernetInitialize and CosaDmlEthInit: EthWanCfg is read anew, and in
\* the Ethernet mode the bridge is built over what is there.
StartNet(n) == IF hal THEN EthWanBridgeInit(n, build.platform) ELSE n
StartCfg(n) == [oper |-> "none", prev |-> "auto", mac |-> IF hal THEN n.mac ELSE "",
                enable |-> hal]

Init ==
    /\ build \in [platform : {"bcm", "puma7"}, noreboot : BOOLEAN]
    /\ hal \in BOOLEAN /\ file = hal
    /\ \E sel \in {"auto", ModeOf(hal)}, known \in {ModeOf(hal), "unknown"} :
           /\ hal => known = "eth"
           /\ sys = [eth |-> hal, sel |-> sel, cur |-> known, last |-> known]
    /\ LET n == BootNet(build.platform, hal) IN net = StartNet(n) /\ cfg = StartCfg(n)
    /\ job = [w \in Workers |-> Idle]
    /\ inform = NoInform /\ update = NoUpdate
    /\ wm = [enable |-> TRUE, eth |-> "port", trial |-> FALSE]
    /\ rebooting = FALSE
    /\ faults = 0 /\ damage = {}

-----------------------------------------------------------------------------
Resting ==
    /\ \A w \in Workers : At(w, "idle")
    /\ update.at = "off" /\ ~wm.trial /\ ~rebooting

Recorded == sys.cur = ModeOf(hal) /\ sys.last = ModeOf(hal)

\* The last change is over, and the WAN manager has taken note of it.
Settled == Resting /\ Recorded

\* A patient user waits for that, unless the WAN manager can not note it.
MayWrite == Patient => Resting /\ (Recorded \/ ~wm.enable)

\* ConfigEthWan starts a thread; its creation may fail, and nobody looks.
ConfigEthWan(v) ==
    /\ \/ \E t \in Threads :
             /\ At(t, "idle")
             /\ job' = [job EXCEPT ![t] = [Idle EXCEPT !.at = "start", !.v = v]]
             /\ Unharmed
       \/ Fault({"mode"}) /\ UNCHANGED job
    /\ UNCHANGED <<hal, file, net, rebooting>>

\* The other build stores the mode and asks for a reboot.  A HAL that fails
\* goes unnoticed: the mode stays selected and is not served.
StoreAndReboot(v, stored) ==
    /\ \/ /\ hal' = v /\ file' = v
          /\ \/ /\ sys' = [stored EXCEPT !.eth = v]
                /\ \/ rebooting' = TRUE /\ Unharmed
                   \/ Fault({"mode", "mac"}) /\ UNCHANGED rebooting
             \/ Fault({"mode", "flags", "mac"}) /\ sys' = stored /\ UNCHANGED rebooting
       \/ Fault({"mode"}) /\ sys' = stored /\ UNCHANGED <<hal, file, rebooting>>
    /\ net' = IF ~v /\ hal THEN SwapNames(net) ELSE net
    /\ UNCHANGED job

CosaDmlEthWanSetEnable(v, stored) ==
    IF build.noreboot THEN ConfigEthWan(v) /\ sys' = stored
                      ELSE StoreAndReboot(v, stored)

\* The selected mode is written.  It is refused while a change is in
\* progress, by the state the thread sets, which it does when it starts.
EthernetWAN_SetParamStringValue(m) ==
    LET stored == [sys EXCEPT !.sel = m]
        kept == UNCHANGED <<hal, file, net, job, rebooting>>
    IN  /\ At("bus", "idle") /\ MayWrite
        /\ cfg.oper # "inprogress"
        /\ cfg' = [cfg EXCEPT !.oper = "none", !.prev = sys.sel]
        /\ \/ Fault({}) /\ UNCHANGED sys /\ kept
           \/ IF m \in {sys.cur, "auto"} THEN sys' = stored /\ Unharmed /\ kept
              ELSE CosaDmlEthWanSetEnable(m = "eth", stored)
        /\ UNCHANGED <<build, inform, update, wm>>

-----------------------------------------------------------------------------
(* ThreadConfigEthWan, and CosaDmlConfigureEthWan wherever it runs.        *)

\* The thread says it is busy and has the WAN manager tear down.
ThreadConfigEthWan(t) ==
    /\ At(t, "start")
    /\ To(t, First(job[t].v))
    /\ cfg' = [cfg EXCEPT !.oper = "inprogress"]
    /\ \/ wm' = [wm EXCEPT !.enable = FALSE] /\ Unharmed
       \/ Fault({}) /\ UNCHANGED wm
    /\ UNCHANGED <<build, hal, file, sys, net, inform, update, rebooting>>

\* MUTANT of TakePort
Bug_RememberAgain(w) ==
    /\ At(w, "take") /\ To(w, "hal")
    /\ net' = [DelIf(net, "lan", "port") EXCEPT !.mac = "wan"]
    /\ cfg' = [cfg EXCEPT !.mac = net.mac]
    /\ Unharmed
    /\ UNCHANGED <<build, hal, file, sys, inform, update, wm, rebooting>>

\* Towards Ethernet: the port leaves the LAN and takes the WAN address; its
\* own is remembered, once.
TakePort(w) ==
    /\ At(w, "take") /\ To(w, "hal")
    /\ net' = [DelIf(net, "lan", "port") EXCEPT !.mac = "wan"]
    /\ cfg' = [cfg EXCEPT !.mac = IF @ = "" THEN net.mac ELSE @]
    /\ Unharmed
    /\ UNCHANGED <<build, hal, file, sys, inform, update, wm, rebooting>>

\* CosaDmlConfigureEthWan returns a failure: the dispatcher passes it on, the
\* thread restores the selection and configures the other mode; when that
\* fails too, it goes on as if it had not.
Failed(w, harm) ==
    /\ Fault(IF w = "bus" THEN harm
             ELSE IF job[w].rolled THEN harm \cup {"flags", "mode"} ELSE {})
    /\ IF w = "bus" THEN Done(w)
       ELSE To(w, IF job[w].rolled THEN "fin" ELSE "back")

\* EthwanEnableWithoutReboot: the HAL first, then the file, then syscfg.
EthwanEnableWithoutReboot(w) ==
    /\ At(w, "hal")
    /\ net' = IF job[w].v THEN net ELSE SwapNames(net)
    /\ \/ hal' = job[w].v /\ To(w, "file") /\ Unharmed
       \/ Failed(w, {"mac"}) /\ UNCHANGED hal
    /\ UNCHANGED <<build, file, sys, cfg, inform, update, wm, rebooting>>

\* MUTANT of MarkFile
Bug_FileStays(w) ==
    /\ At(w, "file") /\ To(w, "flag")
    /\ file' = (file \/ job[w].v)
    /\ Unharmed
    /\ UNCHANGED <<build, hal, sys, cfg, net, inform, update, wm, rebooting>>

MarkFile(w) ==
    /\ At(w, "file") /\ To(w, "flag")
    /\ file' = job[w].v
    /\ Unharmed
    /\ UNCHANGED <<build, hal, sys, cfg, net, inform, update, wm, rebooting>>

CommitFlag(w) ==
    /\ At(w, "flag")
    /\ \/ sys' = [sys EXCEPT !.eth = job[w].v] /\ To(w, "late") /\ Unharmed
       \/ Failed(w, {"flags", "mac"}) /\ UNCHANGED sys
    /\ UNCHANGED <<build, hal, file, cfg, net, inform, update, wm, rebooting>>

\* Towards DOCSIS the port gets back the address that was remembered.
CosaDmlConfigureEthWan(w) ==
    /\ At(w, "late")
    /\ net' = IF job[w].v \/ cfg.mac = "" THEN net ELSE [net EXCEPT !.mac = cfg.mac]
    /\ cfg' = [cfg EXCEPT !.enable = hal]
    /\ IF w = "bus" THEN Done(w) ELSE To(w, "fin")
    /\ Unharmed
    /\ UNCHANGED <<build, hal, file, sys, inform, update, wm, rebooting>>

\* MUTANT of RollBack
Bug_SelectionStays(t) ==
    /\ At(t, "back")
    /\ job' = [job EXCEPT ![t] = [Idle EXCEPT !.at = First(~job[t].v), !.v = ~job[t].v,
                                           !.rolled = TRUE]]
    /\ Unharmed
    /\ UNCHANGED <<build, hal, file, sys, cfg, net, inform, update, wm, rebooting>>

RollBack(t) ==
    /\ At(t, "back")
    /\ job' = [job EXCEPT ![t] = [Idle EXCEPT !.at = First(~job[t].v), !.v = ~job[t].v,
                                           !.rolled = TRUE]]
    /\ \/ sys' = [sys EXCEPT !.sel = cfg.prev] /\ Unharmed
       \/ Fault({"mode"}) /\ UNCHANGED sys
    /\ UNCHANGED <<build, hal, file, cfg, net, inform, update, wm, rebooting>>

\* MUTANT of ConfigureBridge
Bug_BridgeStays == sys.last # "eth" /\ hal

\* The bridge is only rearranged when the mode the WAN manager recorded last
\* is another than the one the HAL has now.
ConfigureBridge == IF sys.last = "eth" THEN ~hal ELSE hal

\* CosaDmlIfaceFinalize; called by PostCfgWanFinalize (on the bus) it leaves
\* the names to ThreadUpdateInformMsg.
CosaDmlIfaceFinalize(w) ==
    /\ At(w, "fin")
    /\ net' = IF build.platform = "bcm"
              THEN WanBridgeConfigurationBcm(net, hal, ConfigureBridge)
              ELSE WanBridgeConfigurationIntelPuma7(net, hal, ConfigureBridge)
    /\ IF w = "bus" THEN Done(w) /\ update.at = "off" /\ update' = [NoUpdate EXCEPT !.at = "start"]
       ELSE job' = [job EXCEPT ![w] = [@ EXCEPT !.at = "names", !.eth = hal]] /\ UNCHANGED update
    /\ Unharmed
    /\ UNCHANGED <<build, hal, file, sys, cfg, inform, wm, rebooting>>

\* The names of the WAN devices are written to the WAN manager; the one of the
\* Ethernet WAN is kept here.
WriteWanNames(w) ==
    /\ At(w, "names") /\ To(w, "resume")
    /\ \/ wm' = [wm EXCEPT !.eth = DeviceName(job[w].eth)] /\ Told(TRUE)
       \/ Fault({"name"}) /\ UNCHANGED wm
    /\ UNCHANGED <<build, mode, inform, update, rebooting>>

\* MUTANT of ResumeWanManager
Bug_ResumeOnSuccess(t) ==
    /\ At(t, "resume") /\ To(t, "end")
    /\ \/ wm' = [wm EXCEPT !.enable = @ \/ ~job[t].rolled] /\ Unharmed
       \/ Fault({"disabled", "mode"}) /\ UNCHANGED wm
    /\ UNCHANGED <<build, mode, inform, update, rebooting>>

\* The WAN manager resumes; a write that fails is not repeated.
ResumeWanManager(t) ==
    /\ At(t, "resume") /\ To(t, "end")
    /\ \/ /\ wm' = [wm EXCEPT !.enable = TRUE]
          /\ damage' = damage \ {"disabled"}
          /\ UNCHANGED faults
       \/ Fault({"disabled", "mode"}) /\ UNCHANGED wm
    /\ UNCHANGED <<build, mode, inform, update, rebooting>>

\* MUTANT of EndConfigEthWan
Bug_NoEndAfterRollBack(t) ==
    /\ At(t, "end") /\ Done(t)
    /\ cfg' = [cfg EXCEPT !.oper = IF job[t].rolled THEN @ ELSE "completed"]
    /\ Unharmed
    /\ UNCHANGED <<build, hal, file, sys, net, inform, update, wm, rebooting>>

EndConfigEthWan(t) ==
    /\ At(t, "end") /\ Done(t)
    /\ cfg' = [cfg EXCEPT !.oper = "completed"]
    /\ damage' = damage \ ((IF job[t].rolled THEN {} ELSE {"flags"}) \cup
                           (IF job[t].rolled \/ "disabled" \in damage THEN {} ELSE {"mode"}))
    /\ UNCHANGED <<build, hal, file, sys, net, inform, update, wm, rebooting, faults>>

-----------------------------------------------------------------------------
(* The start-up message and its later update.                              *)

\* waitForWanMgrComponentReady, then the message, computed once for all rounds.
BootInformBegins ==
    /\ inform.at = "ready"
    /\ inform' = [inform EXCEPT !.at = "name", !.msg = InitBootInformInfo]
    /\ Unharmed
    /\ UNCHANGED <<build, mode, job, update, wm, rebooting>>

\* MUTANT of NextRound: the rounds are not counted.
Bug_CountStays(failed) ==
    inform' = IF (~failed /\ ~inform.retry) \/ inform.count > RetryMax
              THEN [NoInform EXCEPT !.at = "off"]
              ELSE [inform EXCEPT !.at = "name", !.retry = TRUE]

\* A parameter failed or a round is over: one failure makes every later round
\* be repeated, until the retries are used up.
NextRound(failed) ==
    inform' = IF (~failed /\ ~inform.retry) \/ inform.count > RetryMax
              THEN [NoInform EXCEPT !.at = "off"]
              ELSE [inform EXCEPT !.at = "name", !.retry = TRUE, !.count = @ + 1]

\* In a later round the message may be older than a change of the mode.
BootInformName ==
    /\ inform.at = "name"
    /\ \/ /\ wm' = [wm EXCEPT !.eth = inform.msg]
          /\ inform' = [inform EXCEPT !.at = "rest"]
          /\ Told(inform.msg = InitBootInformInfo)
       \/ Fault({"name"}) /\ NextRound(TRUE) /\ UNCHANGED wm
    /\ UNCHANGED <<build, mode, job, update, rebooting>>

BootInformRest ==
    /\ inform.at = "rest"
    /\ \/ NextRound(FALSE) /\ Unharmed
       \/ NextRound(TRUE) /\ Fault({})
    /\ UNCHANGED <<build, mode, job, update, wm, rebooting>>

ThreadUpdateInformMsg ==
    /\ \/ /\ update.at = "start"
          /\ update' = [at |-> "send", msg |-> InitBootInformInfo]
          /\ Unharmed /\ UNCHANGED wm
       \/ /\ update.at = "send" /\ update' = NoUpdate
          /\ \/ wm' = [wm EXCEPT !.eth = update.msg] /\ Told(TRUE)
             \/ Fault({"name"}) /\ UNCHANGED wm
    /\ UNCHANGED <<build, mode, job, inform, rebooting>>

-----------------------------------------------------------------------------
(* The WAN manager, as far as this code relies on it.                      *)

\* It records the mode it got up, after the change was finalized.
WanManagerRecords ==
    /\ wm.enable /\ Resting
    /\ sys' = [sys EXCEPT !.cur = ModeOf(hal), !.last = ModeOf(hal)]
    /\ Unharmed
    /\ UNCHANGED <<build, hal, file, cfg, net, job, inform, update, wm, rebooting>>

\* In the mode "auto" it tries one mode or both, and has the result finalized.
WanManagerTries ==
    /\ wm.enable /\ sys.sel = "auto" /\ At("bus", "idle")
    /\ wm.trial \/ (Resting /\ (Recorded \/ (sys.last = "unknown" /\ ~hal)))
    /\ \E v \in BOOLEAN :
          job' = [job EXCEPT !["bus"] = [Idle EXCEPT !.at = First(v), !.v = v]]
    /\ wm' = [wm EXCEPT !.trial = TRUE]
    /\ Unharmed
    /\ UNCHANGED <<build, mode, inform, update, rebooting>>

WanManagerFinalizes ==
    /\ wm.trial /\ At("bus", "idle")
    /\ job' = [job EXCEPT !["bus"] = [Idle EXCEPT !.at = "fin"]]
    /\ wm' = [wm EXCEPT !.trial = FALSE]
    /\ Unharmed
    /\ UNCHANGED <<build, mode, inform, update, rebooting>>

-----------------------------------------------------------------------------
(* Restarts.  What is half done stays half done.                           *)
Torn == (IF wm.trial \/ \E w \in Workers : ~At(w, "idle") THEN {"flags", "mode"} ELSE {})
        \cup (IF update.at # "off" THEN {"name"} ELSE {})

Restart(n) ==
    /\ net' = StartNet(n) /\ cfg' = StartCfg(n)
    /\ job' = [w \in Workers |-> Idle]
    /\ inform' = NoInform /\ update' = NoUpdate
    /\ UNCHANGED <<build, hal, file, sys>>

\* Only the agent: the devices and the WAN manager stay as they are.
AgentRestarts ==
    /\ faults < MaxFaults /\ faults' = faults + 1 /\ ~rebooting
    /\ Restart(net)
    /\ wm' = [wm EXCEPT !.trial = FALSE]
    /\ damage' = damage \cup Torn \cup (IF net.mac = "wan" THEN {"mac"} ELSE {})
                        \cup (IF ~wm.enable THEN {"disabled"} ELSE {})
    /\ UNCHANGED rebooting

DeviceReboots ==
    /\ \/ rebooting /\ UNCHANGED faults
       \/ faults < MaxFaults /\ faults' = faults + 1
    /\ Restart(BootNet(build.platform, hal))
    /\ wm' = [enable |-> TRUE, eth |-> "port", trial |-> FALSE]
    /\ rebooting' = FALSE
    /\ damage' = (damage \cup Torn) \ {"mac", "name", "stale", "disabled"}

-----------------------------------------------------------------------------
BusStep == \/ TakePort("bus") \/ EthwanEnableWithoutReboot("bus") \/ MarkFile("bus")
           \/ CommitFlag("bus") \/ CosaDmlConfigureEthWan("bus")
           \/ CosaDmlIfaceFinalize("bus")

ThreadStep(t) ==
    \/ ThreadConfigEthWan(t)
    \/ TakePort(t) \/ EthwanEnableWithoutReboot(t) \/ MarkFile(t) \/ CommitFlag(t)
    \/ CosaDmlConfigureEthWan(t) \/ RollBack(t)
    \/ CosaDmlIfaceFinalize(t) \/ WriteWanNames(t)
    \/ ResumeWanManager(t) \/ EndConfigEthWan(t)

BootInform == BootInformBegins \/ BootInformName \/ BootInformRest

Next ==
    \/ \E m \in {"auto", "eth", "docsis"} : EthernetWAN_SetParamStringValue(m)
    \/ BusStep
    \/ \E t \in Threads : ThreadStep(t)
    \/ BootInform
    \/ ThreadUpdateInformMsg
    \/ WanManagerRecords \/ WanManagerTries \/ WanManagerFinalizes
    \/ AgentRestarts \/ DeviceReboots

\* The threads and the dispatcher run, and the WAN manager gets up in the end.
Fairness ==
    /\ WF_vars(BusStep)
    /\ \A t \in Threads : WF_vars(ThreadStep(t))
    /\ WF_vars(BootInform) /\ WF_vars(ThreadUpdateInformMsg)

Spec == Init /\ [][Next]_vars /\ Fairness

-----------------------------------------------------------------------------
(* Properties                                                              *)

TypeOK ==
    /\ build \in [platform : {"bcm", "puma7"}, noreboot : BOOLEAN]
    /\ hal \in BOOLEAN /\ file \in BOOLEAN
    /\ sys \in [eth : BOOLEAN, sel : Modes, cur : Modes, last : Modes]
    /\ cfg \in [oper : {"none", "inprogress", "completed"}, prev : Modes,
                mac : {"", "own", "wan"}, enable : BOOLEAN]
    /\ net \in Nets
    /\ job \in [Workers -> Job]
    /\ inform \in [at : {"ready", "name", "rest", "off"}, msg : Names, retry : BOOLEAN,
                   count : 0 .. RetryMax + 1]
    /\ update \in [at : {"off", "start", "send"}, msg : Names]
    /\ wm \in [enable : BOOLEAN, eth : Names, trial : BOOLEAN]
    /\ rebooting \in BOOLEAN
    /\ faults \in 0 .. MaxFaults
    /\ damage \subseteq {"flags", "mode", "mac", "name", "stale", "disabled"}

\* The HAL, the file, syscfg and EthWanCfg agree on the mode once a change has
\* settled, also after one that failed half-way and was rolled back, and after
\* a crash as soon as a later change has succeeded.
FlagsAgree ==
    Settled /\ "flags" \notin damage =>
        file = hal /\ sys.eth = hal /\ (build.noreboot => cfg.enable = hal)

\* The mode the user selected is the one the device is in, also after a write
\* that found it to be the current mode already, and after a rollback.
SelectedIsServed ==
    Settled /\ "mode" \notin damage /\ sys.sel # "auto" => sys.sel = ModeOf(hal)

\* The bridges have the layout of the mode: the decision by last_wan_mode is
\* right on every path, start-up and rollback included.
BridgeFollowsMode ==
    Settled /\ "mode" \notin damage => Layout(net, build.platform, hal)

\* The name of the Ethernet WAN that the finalization, the update or a start-up
\* message wrote last is the device of the mode, on every path by which a change
\* ends: success, rollback, a trial of the WAN manager, a restart in between.
\* Not so when that last write failed, nor when it was a start-up message from
\* before the change: ThreadBootInformMsg computes the name once, sends it in
\* every round of its retries, and overwrites what the finalization wrote.
EthNameFollowsMode ==
    /\ Settled /\ inform.at \in {"rest", "off"}
    /\ damage \cap {"name", "stale", "flags", "mode"} = {}
    => wm.eth = DeviceName(hal)

\* Back in the DOCSIS mode the LAN port has its own address again, not the one
\* of the WAN device.
PortHasItsAddress ==
    Settled /\ ~hal /\ "mac" \notin damage => net.mac = "own"

\* Two changes never run at a time.
OneChangeAtATime ==
    \A s, t \in Threads : job[s].at \in Steps \ {"idle", "start"}
                       /\ job[t].at \in Steps \ {"idle", "start"} => s = t

\* A WAN manager that was told to tear down is never left disabled without a
\* thread that is going to enable it, however many changes overlap, unless the
\* write of Enable was lost or a restart ended the thread.
ResumeUnderWay ==
    ~wm.enable /\ "disabled" \notin damage =>
        \E t \in Threads : job[t].at \notin {"idle", "start", "end"}

\* The state that refuses every write of the mode has a thread behind it that is
\* going to end it, however many changes overlap.
EndUnderWay ==
    cfg.oper = "inprogress" => \E t \in Threads : job[t].at \notin {"idle", "start"}

\* A change that has begun is never abandoned half done.
ChangeUnderWay == ResumeUnderWay /\ EndUnderWay

\* A change that began comes to an end, successful or not.
ChangeCompletes == cfg.oper = "inprogress" ~> cfg.oper # "inprogress"

\* The WAN manager is enabled again after every change.
WanManagerResumes == ~wm.enable ~> wm.enable \/ "disabled" \in damage

\* The start-up message is not sent for ever, whatever fails; only a restart
\* begins it anew.
BootInformEnds == inform.at = "name" ~> inform.at \in {"off", "ready"}
=============================================================================
