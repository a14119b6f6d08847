------------------------- MODULE EthWanMode_proofs -------------------------
(***************************************************************************)
(* What EthWanMode promises for any number of threads, of faults and of    *)
(* retries: TypeOK, and of a patient user every safety invariant that      *)
(* speaks of rest. Each invariant below is used by the next:               *)
(*   Good          which of the four copies of the mode are written at     *)
(*                 each step of a change, and that nothing else writes     *)
(*                 them meanwhile; gives FlagsAgree                        *)
(*   Remembered, Home    the address of the port; PortHasItsAddress        *)
(*   Serving       from which mode to which a change leads, after a        *)
(*                 rollback too; SelectedIsServed                          *)
(*   Bridged       the layouts the devices can have, and that until the    *)
(*                 bridges are rearranged they are those of last_wan_mode; *)
(*                 BridgeFollowsMode                                       *)
(*   RightlyNamed  who may tell the WAN manager a name, and that the name  *)
(*                 is right by then; EthNameFollowsMode                    *)
(* And of any user: ChangeUnderWay, a change that has begun is not         *)
(* abandoned half done; and InTurn, from which two changes overlap only    *)
(* when a thread is created while another one is starting.                 *)
(***************************************************************************)
EXTENDS EthWanMode, TLAPS

-----------------------------------------------------------------------------
(* The devices                                                             *)

LEMMA CommandTypes ==
    ASSUME NEW n \in Nets, NEW x \in Names, NEW y \in Names, NEW br \in {"lan", "wan"}
    PROVE  /\ Rename(n, x, y) \in Nets
           /\ AddBr(n) \in Nets
           /\ DelBr(n) \in Nets
           /\ AddIf(n, br, x) \in Nets
           /\ DelIf(n, br, x) \in Nets
  <1> USE DEF Nets
  <1>1. Rename(n, x, y) \in Nets
    BY DEF Rename
  <1>2. AddBr(n) \in Nets
    BY DEF AddBr, Names, WAN_IF_NAME_PRIMARY
  <1>3. DelBr(n) \in Nets
    BY DEF DelBr, Names
  <1>4. AddIf(n, br, x) \in Nets
    BY DEF AddIf
  <1>5. DelIf(n, br, x) \in Nets
    BY DEF DelIf
  <1> QED
    BY <1>1, <1>2, <1>3, <1>4, <1>5

Platforms == {"bcm", "puma7"}

LEMMA NameTypes ==
    ASSUME NEW p \in Platforms
    PROVE  {WAN_IF_NAME_PRIMARY, "port", "dummy-rf", Parked(p), ETHWAN_DOCSIS_INF_NAME(p)}
               \subseteq Names
  BY DEF Platforms, Names, WAN_IF_NAME_PRIMARY, Parked, ETHWAN_DOCSIS_INF_NAME

LEMMA BuildTypes ==
    ASSUME NEW m \in Nets, NEW q \in Platforms
    PROVE  BuildBridge(m, q) \in Nets
  <1> DEFINE renamed == Rename(m, WAN_IF_NAME_PRIMARY, Parked(q))
  <1>1. AddBr(renamed) \in Nets
    BY CommandTypes, NameTypes
  <1>2. AddIf(AddBr(renamed), "wan", "port") \in Nets
    BY <1>1, CommandTypes, NameTypes
  <1> HIDE DEF renamed
  <1>3. AddIf(AddIf(AddBr(renamed), "wan", "port"), "wan", ETHWAN_DOCSIS_INF_NAME(q)) \in Nets
    BY <1>2, CommandTypes, NameTypes
  <1> QED
    BY <1>3 DEF BuildBridge, renamed

LEMMA BridgeTypes ==
    ASSUME NEW n \in Nets, NEW p \in Platforms, NEW c \in BOOLEAN, NEW e \in BOOLEAN
    PROVE  /\ WanBridgeConfigurationBcm(n, e, c) \in Nets
           /\ WanBridgeConfigurationIntelPuma7(n, e, c) \in Nets
           /\ EthWanBridgeInit(n, p) \in Nets
  <1>1. ASSUME NEW m \in Nets, NEW q \in Platforms
        PROVE  DropBridge(m, q) \in Nets
    <2>1. DelBr(DelIf(m, "wan", ETHWAN_DOCSIS_INF_NAME(q))) \in Nets
      BY CommandTypes, NameTypes
    <2> QED
      BY <2>1, CommandTypes, NameTypes DEF DropBridge
  <1>2. ASSUME NEW q \in Platforms
        PROVE  EnterEthernet(n, q, c) \in Nets /\ LeaveEthernet(n, q, c) \in Nets
    <2>1. DelIf(n, "lan", "port") \in Nets /\ DelIf(n, "wan", "port") \in Nets
      BY CommandTypes, NameTypes
    <2>2. /\ AddIf(DelIf(n, "lan", "port"), "wan", "port") \in Nets
          /\ AddIf(DelIf(n, "wan", "port"), "lan", "port") \in Nets
      BY <2>1, CommandTypes, NameTypes
    <2>3. EnterEthernet(n, q, c) \in Nets
      BY <2>1, <2>2, BuildTypes DEF EnterEthernet
    <2>4. LeaveEthernet(n, q, c) \in Nets
      BY <1>1, <2>2 DEF LeaveEthernet
    <2> QED
      BY <2>3, <2>4
  <1>3. WanBridgeConfigurationBcm(n, e, c) \in Nets
    BY <1>2 DEF WanBridgeConfigurationBcm, Platforms
  <1>4. WanBridgeConfigurationIntelPuma7(n, e, c) \in Nets
    BY <1>2 DEF WanBridgeConfigurationIntelPuma7, Platforms
  <1>5. EthWanBridgeInit(n, p) \in Nets
    <2> DEFINE out == IF p = "bcm" THEN DelIf(n, "lan", "port") ELSE n
    <2>1. out \in Nets
      BY CommandTypes, NameTypes
    <2>2. BuildBridge(out, p) \in Nets
      BY <2>1, BuildTypes
    <2> HIDE DEF out
    <2>3. [BuildBridge(out, p) EXCEPT !.mac = "wan"] \in Nets
      BY <2>2 DEF Nets
    <2> QED
      BY <2>3 DEF EthWanBridgeInit, out
  <1> QED
    BY <1>3, <1>4, <1>5

LEMMA SwapTypes ==
    ASSUME NEW n \in Nets
    PROVE  SwapNames(n) \in Nets
  <1>1. {WAN_IF_NAME_PRIMARY, "port", "dummy-rf"} \subseteq Names
    BY DEF Names, WAN_IF_NAME_PRIMARY
  <1>2. Rename(n, WAN_IF_NAME_PRIMARY, "port") \in Nets
    BY <1>1, CommandTypes
  <1> QED
    BY <1>1, <1>2, CommandTypes DEF SwapNames

LEMMA BootTypes ==
    ASSUME NEW p \in Platforms, NEW e \in BOOLEAN
    PROVE  BootNet(p, e) \in Nets
  <1> DEFINE name == [port |-> "port", docsis |-> WAN_IF_NAME_PRIMARY, bridge |-> "",
                      mta |-> IF p = "puma7" THEN "dpdmta1" ELSE ""]
  <1>1. name \in [port : Names, docsis : Names, bridge : Names, mta : Names]
    BY DEF Names, WAN_IF_NAME_PRIMARY
  <1>2. [port : Names, docsis : Names, bridge : Names, mta : Names]
            = [{"port", "docsis", "bridge", "mta"} -> Names]
    OBVIOUS
  <1>3. name \in [Dev -> Names]
    BY <1>1, <1>2 DEF Dev
  <1> QED
    BY <1>3 DEF BootNet, Nets

-----------------------------------------------------------------------------
(* Types                                                                   *)

Builds == [platform : Platforms, noreboot : BOOLEAN]
Syscfg == [eth : BOOLEAN, sel : Modes, cur : Modes, last : Modes]
EthWanCfg == [oper : {"none", "inprogress", "completed"}, prev : Modes,
              mac : {"", "own", "wan"}, enable : BOOLEAN]
Jobs == [Workers -> Job]
Informs == [at : {"ready", "name", "rest", "off"}, msg : Names, retry : BOOLEAN,
            count : 0 .. RetryMax + 1]
Updates == [at : {"off", "start", "send"}, msg : Names]
WanManagers == [enable : BOOLEAN, eth : Names, trial : BOOLEAN]
Damages == SUBSET {"flags", "mode", "mac", "name", "stale", "disabled"}

\* The parts of TypeOK.
ModeTypes == hal \in BOOLEAN /\ file \in BOOLEAN /\ sys \in Syscfg /\ cfg \in EthWanCfg
             /\ net \in Nets
InformTypes == inform \in Informs /\ update \in Updates /\ wm \in WanManagers
               /\ rebooting \in BOOLEAN
BoundTypes == faults \in 0 .. MaxFaults /\ damage \in Damages
Types == build \in Builds /\ ModeTypes /\ job \in Jobs /\ InformTypes /\ BoundTypes

LEMMA TypesAreTypeOK == Types <=> TypeOK
  BY DEF Types, TypeOK, ModeTypes, InformTypes, BoundTypes, Builds, Platforms, Syscfg,
         EthWanCfg, Jobs, Informs, Updates, WanManagers, Damages

LEMMA FaultTypes ==
    ASSUME BoundTypes, NEW harm \in Damages, Fault(harm)
    PROVE  BoundTypes'
  BY BoundsAssumption DEF BoundTypes, Damages, Fault

LEMMA UnharmedTypes ==
    ASSUME BoundTypes, Unharmed
    PROVE  BoundTypes'
  BY DEF BoundTypes, Unharmed, bounds

LEMMA ToldTypes ==
    ASSUME BoundTypes, NEW fresh \in BOOLEAN, Told(fresh)
    PROVE  BoundTypes'
  BY DEF Told, BoundTypes, Damages

LEMMA JobTypes ==
    ASSUME job \in Jobs, NEW w \in Workers, NEW j \in Job
    PROVE  [job EXCEPT ![w] = j] \in Jobs
  BY DEF Jobs

LEMMA IdleTypes ==
    /\ Idle \in Job
    /\ \A s \in Steps, v \in BOOLEAN, r \in BOOLEAN :
          /\ [Idle EXCEPT !.at = s, !.v = v] \in Job
          /\ [Idle EXCEPT !.at = s, !.v = v, !.rolled = r] \in Job
          /\ [Idle EXCEPT !.at = s] \in Job
    /\ [w \in Workers |-> Idle] \in Jobs
  <1>1. Idle \in Job
    BY DEF Idle, Job, Steps
  <1> QED
    BY <1>1 DEF Job, Jobs

LEMMA StepTypes ==
    ASSUME job \in Jobs, NEW w \in Workers, NEW s \in Steps, To(w, s) \/ Done(w)
    PROVE  job' \in Jobs
  <1>1. CASE To(w, s)
    <2>1. job[w] \in Job /\ [job[w] EXCEPT !.at = s] \in Job
      BY DEF Jobs, Job
    <2> QED
      BY <1>1, <2>1 DEF To, Jobs
  <1>2. CASE Done(w)
    BY <1>2, IdleTypes, JobTypes DEF Done
  <1> QED
    BY <1>1, <1>2

LEMMA FirstTypes == \A v \in BOOLEAN : First(v) \in Steps
  BY DEF First, Steps

LEMMA ModeOfTypes == \A e \in BOOLEAN : ModeOf(e) \in Modes
  BY DEF ModeOf, Modes

LEMMA DeviceTypes == \A e \in BOOLEAN : DeviceName(e) \in Names
  BY DEF DeviceName, Names, WAN_IF_NAME_PRIMARY

LEMMA InformInfoTypes ==
    ASSUME ModeTypes
    PROVE  InitBootInformInfo \in Names
  BY DeviceTypes DEF InitBootInformInfo, ModeTypes, Syscfg, DeviceName, Names, WAN_IF_NAME_PRIMARY

LEMMA StartTypes ==
    ASSUME hal \in BOOLEAN, build \in Builds, NEW n \in Nets
    PROVE  StartNet(n) \in Nets /\ StartCfg(n) \in EthWanCfg
  <1>1. StartNet(n) \in Nets
    BY BridgeTypes DEF StartNet, Builds
  <1>2. n.mac \in {"", "own", "wan"}
    BY DEF Nets
  <1> QED
    BY <1>1, <1>2 DEF StartCfg, EthWanCfg, Modes

LEMMA NoMessageTypes == NoInform \in Informs /\ NoUpdate \in Updates
  BY BoundsAssumption DEF NoInform, NoUpdate, Informs, Updates, Names

-----------------------------------------------------------------------------
LEMMA InitTypes == Init => Types
  <1> SUFFICES ASSUME Init
               PROVE  Types
    OBVIOUS
  <1>1. build \in Builds /\ hal \in BOOLEAN /\ file \in BOOLEAN
    BY DEF Init, Builds, Platforms
  <1>2. sys \in Syscfg
    <2>1. PICK sel \in {"auto", ModeOf(hal)}, known \in {ModeOf(hal), "unknown"} :
              sys = [eth |-> hal, sel |-> sel, cur |-> known, last |-> known]
      BY DEF Init
    <2>2. sel \in Modes /\ known \in Modes
      BY <1>1, ModeOfTypes DEF Modes
    <2> QED
      BY <1>1, <2>1, <2>2 DEF Syscfg
  <1>3. net \in Nets /\ cfg \in EthWanCfg
    <2>1. BootNet(build.platform, hal) \in Nets
      BY <1>1, BootTypes DEF Builds
    <2> QED
      BY <1>1, <2>1, StartTypes DEF Init
  <1>4. InformTypes /\ job \in Jobs
    BY NoMessageTypes, IdleTypes DEF Init, InformTypes, WanManagers, Names
  <1>5. BoundTypes
    BY BoundsAssumption DEF Init, BoundTypes, Damages
  <1> QED
    BY <1>1, <1>2, <1>3, <1>4, <1>5 DEF Types, ModeTypes

\* CosaDmlConfigureEthWan on any thread.
LEMMA ConfigureTypes ==
    ASSUME Types, NEW w \in Workers,
           \/ TakePort(w) \/ EthwanEnableWithoutReboot(w) \/ MarkFile(w) \/ CommitFlag(w)
           \/ CosaDmlConfigureEthWan(w)
    PROVE  Types'
  <1> USE DEF Types
  <1>1. job[w] \in Job /\ job[w].v \in BOOLEAN
    BY DEF Jobs, Job
  <1>2. {"hal", "file", "flag", "late", "fin", "back"} \subseteq Steps
    BY DEF Steps
  <1>3. ASSUME NEW harm \in {{"mac"}, {"flags", "mac"}}, Failed(w, harm)
        PROVE  job' \in Jobs /\ BoundTypes'
    <2>1. BoundTypes'
      BY <1>3, FaultTypes DEF Failed, Damages
    <2> QED
      BY <1>2, <1>3, <2>1, StepTypes DEF Failed
  <1>4. CASE TakePort(w)
    <2>1. DelIf(net, "lan", "port") \in Nets /\ net.mac \in {"own", "wan"}
      BY CommandTypes, NameTypes DEF ModeTypes, Nets, Names
    <2>2. net' \in Nets
      BY <1>4, <2>1 DEF TakePort, Nets
    <2>3. cfg' \in EthWanCfg
      BY <1>4, <2>1 DEF TakePort, ModeTypes, EthWanCfg
    <2> QED
      BY <1>2, <1>4, <2>2, <2>3, StepTypes, UnharmedTypes
      DEF TakePort, ModeTypes, InformTypes
  <1>5. CASE EthwanEnableWithoutReboot(w)
    <2>1. net' \in Nets
      BY <1>5, SwapTypes DEF EthwanEnableWithoutReboot, ModeTypes
    <2>2. hal' \in BOOLEAN /\ job' \in Jobs /\ BoundTypes'
      BY <1>1, <1>2, <1>3, <1>5, StepTypes, UnharmedTypes
      DEF EthwanEnableWithoutReboot, ModeTypes
    <2> QED
      BY <1>5, <2>1, <2>2 DEF EthwanEnableWithoutReboot, ModeTypes, InformTypes
  <1>6. CASE MarkFile(w)
    BY <1>1, <1>2, <1>6, StepTypes, UnharmedTypes DEF MarkFile, ModeTypes, InformTypes
  <1>7. CASE CommitFlag(w)
    <2>1. job' \in Jobs /\ BoundTypes'
      BY <1>2, <1>3, <1>7, StepTypes, UnharmedTypes DEF CommitFlag
    <2>2. sys' \in Syscfg
      BY <1>1, <1>7 DEF CommitFlag, ModeTypes, Syscfg
    <2> QED
      BY <1>7, <2>1, <2>2 DEF CommitFlag, ModeTypes, InformTypes
  <1>8. CASE CosaDmlConfigureEthWan(w)
    <2>1. net' \in Nets
      <3>1. CASE net' = net
        BY <3>1 DEF ModeTypes
      <3>2. CASE cfg.mac # "" /\ net' = [net EXCEPT !.mac = cfg.mac]
        <4>1. cfg.mac \in {"own", "wan"}
          BY <3>2 DEF ModeTypes, EthWanCfg
        <4> QED
          BY <3>2, <4>1 DEF ModeTypes, Nets
      <3> QED
        BY <1>8, <3>1, <3>2 DEF CosaDmlConfigureEthWan
    <2>2. cfg' \in EthWanCfg
      BY <1>8 DEF CosaDmlConfigureEthWan, ModeTypes, EthWanCfg
    <2> QED
      BY <1>2, <1>8, <2>1, <2>2, StepTypes, UnharmedTypes
      DEF CosaDmlConfigureEthWan, ModeTypes, InformTypes
  <1> QED
    BY <1>4, <1>5, <1>6, <1>7, <1>8

\* The thread that changes the mode, and the finalization on any thread.
LEMMA ThreadTypes ==
    ASSUME Types, NEW t \in Threads,
           \/ ThreadConfigEthWan(t) \/ RollBack(t) \/ WriteWanNames(t)
           \/ ResumeWanManager(t) \/ EndConfigEthWan(t)
    PROVE  Types'
  <1> USE DEF Types
  <1>1. job[t] \in Job /\ job[t].v \in BOOLEAN /\ job[t].eth \in BOOLEAN /\ t \in Workers
    BY DEF Jobs, Job, Workers
  <1>2. {"resume", "end"} \subseteq Steps
    BY DEF Steps
  <1>3. CASE ThreadConfigEthWan(t)
    <2>1. job' \in Jobs
      BY <1>1, <1>3, FirstTypes, StepTypes DEF ThreadConfigEthWan
    <2>2. BoundTypes' /\ wm' \in WanManagers
      BY <1>3, FaultTypes, UnharmedTypes
      DEF ThreadConfigEthWan, InformTypes, WanManagers, Damages
    <2>3. cfg' \in EthWanCfg
      BY <1>3 DEF ThreadConfigEthWan, ModeTypes, EthWanCfg
    <2> QED
      BY <1>3, <2>1, <2>2, <2>3 DEF ThreadConfigEthWan, ModeTypes, InformTypes
  <1>4. CASE RollBack(t)
    <2>1. job' \in Jobs
      <3>1. (~job[t].v) \in BOOLEAN /\ First(~job[t].v) \in Steps
        BY <1>1, FirstTypes
      <3> QED
        BY <1>1, <1>4, <3>1, IdleTypes, JobTypes DEF RollBack
    <2>2. BoundTypes' /\ sys' \in Syscfg
      BY <1>4, FaultTypes, UnharmedTypes DEF RollBack, ModeTypes, Syscfg, EthWanCfg, Damages
    <2> QED
      BY <1>4, <2>1, <2>2 DEF RollBack, ModeTypes, InformTypes
  <1>5. CASE WriteWanNames(t)
    <2>1. job' \in Jobs
      BY <1>1, <1>2, <1>5, StepTypes DEF WriteWanNames
    <2>2. BoundTypes' /\ wm' \in WanManagers
      BY <1>1, <1>5, DeviceTypes, FaultTypes, ToldTypes
      DEF WriteWanNames, InformTypes, WanManagers, Damages
    <2> QED
      BY <1>5, <2>1, <2>2 DEF WriteWanNames, mode, ModeTypes, InformTypes
  <1>6. CASE ResumeWanManager(t)
    <2>1. job' \in Jobs
      BY <1>1, <1>2, <1>6, StepTypes DEF ResumeWanManager
    <2>2. BoundTypes' /\ wm' \in WanManagers
      <3>1. CASE Fault({"disabled", "mode"}) /\ UNCHANGED wm
        BY <3>1, FaultTypes DEF InformTypes, Damages
      <3>2. CASE wm' = [wm EXCEPT !.enable = TRUE] /\ damage' = damage \ {"disabled"}
                 /\ UNCHANGED faults
        BY <3>2 DEF BoundTypes, InformTypes, WanManagers, Damages
      <3> QED
        BY <1>6, <3>1, <3>2 DEF ResumeWanManager
    <2> QED
      BY <1>6, <2>1, <2>2 DEF ResumeWanManager, mode, ModeTypes, InformTypes
  <1>7. CASE EndConfigEthWan(t)
    <2>1. job' \in Jobs
      BY <1>1, <1>2, <1>7, StepTypes DEF EndConfigEthWan
    <2>2. BoundTypes'
      BY <1>7 DEF EndConfigEthWan, BoundTypes, Damages
    <2>3. cfg' \in EthWanCfg
      BY <1>7 DEF EndConfigEthWan, ModeTypes, EthWanCfg
    <2> QED
      BY <1>7, <2>1, <2>2, <2>3 DEF EndConfigEthWan, ModeTypes, InformTypes
  <1> QED
    BY <1>3, <1>4, <1>5, <1>6, <1>7

LEMMA FinalizeTypes ==
    ASSUME Types, NEW w \in Workers, CosaDmlIfaceFinalize(w)
    PROVE  Types'
  <1> USE DEF Types
  <1>1. job[w] \in Job
    BY DEF Jobs
  <1>2. net' \in Nets
    <2>1. hal \in BOOLEAN /\ net \in Nets /\ ConfigureBridge \in BOOLEAN
      BY DEF ModeTypes, ConfigureBridge
    <2>2. "bcm" \in Platforms
      BY DEF Platforms
    <2>3. /\ WanBridgeConfigurationBcm(net, hal, ConfigureBridge) \in Nets
          /\ WanBridgeConfigurationIntelPuma7(net, hal, ConfigureBridge) \in Nets
      BY <2>1, <2>2, BridgeTypes
    <2> QED
      BY <2>3 DEF CosaDmlIfaceFinalize
  <1>3. job' \in Jobs /\ update' \in Updates
    <2>1. CASE w = "bus"
      <3>1. update' \in Updates
        BY <2>1, NoMessageTypes DEF CosaDmlIfaceFinalize, Updates
      <3> QED
        BY <2>1, <3>1, IdleTypes, JobTypes DEF CosaDmlIfaceFinalize, Done
    <2>2. CASE w # "bus"
      <3>1. [job[w] EXCEPT !.at = "names", !.eth = hal] \in Job
        BY <1>1 DEF ModeTypes, Job, Steps
      <3> QED
        BY <2>2, <3>1, JobTypes DEF CosaDmlIfaceFinalize, InformTypes, Jobs
    <2> QED
      BY <2>1, <2>2
  <1> QED
    BY <1>2, <1>3, UnharmedTypes DEF CosaDmlIfaceFinalize, ModeTypes, InformTypes

\* What a written mode does at once.
LEMMA EnableTypes ==
    ASSUME Types, NEW v \in BOOLEAN, NEW stored \in Syscfg, CosaDmlEthWanSetEnable(v, stored)
    PROVE  /\ hal' \in BOOLEAN /\ file' \in BOOLEAN /\ sys' \in Syscfg /\ net' \in Nets
           /\ job' \in Jobs /\ rebooting' \in BOOLEAN /\ BoundTypes'
  <1> USE DEF Types
  <1>1. CASE ConfigEthWan(v) /\ sys' = stored
    <2>1. job' \in Jobs /\ BoundTypes'
      <3>1. ASSUME NEW t \in Threads, Unharmed,
                   job' = [job EXCEPT ![t] = [Idle EXCEPT !.at = "start", !.v = v]]
            PROVE  job' \in Jobs /\ BoundTypes'
        <4>1. t \in Workers /\ "start" \in Steps
          BY DEF Workers, Steps
        <4>2. [Idle EXCEPT !.at = "start", !.v = v] \in Job
          BY <4>1, IdleTypes
        <4> QED
          BY <3>1, <4>1, <4>2, JobTypes, UnharmedTypes
      <3>2. CASE Fault({"mode"}) /\ UNCHANGED job
        BY <3>2, FaultTypes DEF Damages
      <3> QED
        BY <1>1, <3>1, <3>2 DEF ConfigEthWan
    <2> QED
      BY <1>1, <2>1 DEF ConfigEthWan, ModeTypes, InformTypes
  <1>2. CASE StoreAndReboot(v, stored)
    <2>1. net' \in Nets
      BY <1>2, SwapTypes DEF StoreAndReboot, ModeTypes
    <2>2. BoundTypes'
      BY <1>2, FaultTypes, UnharmedTypes DEF StoreAndReboot, Damages
    <2>3. sys' \in Syscfg
      BY <1>2 DEF StoreAndReboot, Syscfg
    <2> QED
      BY <1>2, <2>1, <2>2, <2>3 DEF StoreAndReboot, ModeTypes, InformTypes
  <1> QED
    BY <1>1, <1>2 DEF CosaDmlEthWanSetEnable

LEMMA WriteTypes ==
    ASSUME Types, NEW m \in {"auto", "eth", "docsis"}, EthernetWAN_SetParamStringValue(m)
    PROVE  Types'
  <1> USE DEF Types
  <1> DEFINE stored == [sys EXCEPT !.sel = m]
  <1>1. stored \in Syscfg /\ sys \in Syscfg /\ sys.sel \in Modes
    BY DEF ModeTypes, Syscfg, Modes
  <1>2. cfg' \in EthWanCfg
    BY <1>1 DEF EthernetWAN_SetParamStringValue, ModeTypes, EthWanCfg
  <1> HIDE DEF stored
  <1>3. CASE CosaDmlEthWanSetEnable(m = "eth", stored)
    BY <1>1, <1>2, <1>3, EnableTypes DEF EthernetWAN_SetParamStringValue, ModeTypes, InformTypes
  <1>4. CASE /\ (Fault({}) /\ UNCHANGED sys) \/ (sys' = stored /\ Unharmed)
             /\ UNCHANGED <<hal, file, net, job, rebooting>>
    <2>1. BoundTypes'
      BY <1>4, FaultTypes, UnharmedTypes DEF Damages
    <2> QED
      BY <1>1, <1>2, <1>4, <2>1 DEF EthernetWAN_SetParamStringValue, ModeTypes, InformTypes
  <1> QED
    BY <1>3, <1>4 DEF EthernetWAN_SetParamStringValue, stored

LEMMA RoundTypes ==
    ASSUME inform \in Informs, NEW failed \in BOOLEAN, NextRound(failed)
    PROVE  inform' \in Informs
  <1>1. CASE inform' = [NoInform EXCEPT !.at = "off"]
    BY <1>1, NoMessageTypes DEF Informs
  <1>2. CASE /\ inform.count <= RetryMax
             /\ inform' = [inform EXCEPT !.at = "name", !.retry = TRUE, !.count = @ + 1]
    <2>1. inform.count + 1 \in 0 .. RetryMax + 1
      BY <1>2, BoundsAssumption DEF Informs
    <2>2. inform' = [inform EXCEPT !.at = "name", !.retry = TRUE, !.count = inform.count + 1]
      BY <1>2 DEF Informs
    <2> QED
      BY <2>1, <2>2, Zenon DEF Informs
  <1>3. inform.count \in Nat /\ RetryMax \in Nat
    BY BoundsAssumption DEF Informs
  <1>4. inform.count <= RetryMax \/ inform.count > RetryMax
    BY <1>3
  <1> QED
    BY <1>1, <1>2, <1>4 DEF NextRound

LEMMA MessageTypes ==
    ASSUME Types, BootInform \/ ThreadUpdateInformMsg
    PROVE  Types'
  <1> USE DEF Types
  <1>1. InitBootInformInfo \in Names
    BY InformInfoTypes
  <1>2. CASE BootInformBegins
    <2>1. inform' \in Informs
      BY <1>1, <1>2 DEF BootInformBegins, InformTypes, Informs
    <2> QED
      BY <1>2, <2>1, UnharmedTypes DEF BootInformBegins, mode, ModeTypes, InformTypes
  <1>3. CASE BootInformName
    <2>1. CASE Fault({"name"}) /\ NextRound(TRUE) /\ UNCHANGED wm
      BY <1>3, <2>1, FaultTypes, RoundTypes
      DEF BootInformName, mode, ModeTypes, InformTypes, Damages
    <2>2. CASE /\ wm' = [wm EXCEPT !.eth = inform.msg]
               /\ inform' = [inform EXCEPT !.at = "rest"]
               /\ \E fresh \in BOOLEAN : Told(fresh)
      <3>1. inform.msg \in Names /\ inform' \in Informs
        BY <2>2 DEF InformTypes, Informs
      <3>2. wm' \in WanManagers
        BY <2>2, <3>1 DEF InformTypes, WanManagers
      <3>3. BoundTypes'
        BY <2>2, ToldTypes
      <3> QED
        BY <1>3, <3>1, <3>2, <3>3 DEF BootInformName, mode, ModeTypes, InformTypes
    <2> QED
      BY <1>3, <2>1, <2>2 DEF BootInformName
  <1>4. CASE BootInformRest
    <2>1. BoundTypes'
      BY <1>4, FaultTypes, UnharmedTypes DEF BootInformRest, Damages
    <2>2. inform' \in Informs
      BY <1>4, RoundTypes DEF BootInformRest, InformTypes
    <2> QED
      BY <1>4, <2>1, <2>2 DEF BootInformRest, mode, ModeTypes, InformTypes
  <1>5. CASE ThreadUpdateInformMsg
    <2>1. BoundTypes'
      <3>1. Unharmed \/ Told(TRUE) \/ Fault({"name"})
        BY <1>5 DEF ThreadUpdateInformMsg
      <3> QED
        BY <3>1, FaultTypes, UnharmedTypes, ToldTypes DEF Damages
    <2>2. update' \in Updates
      <3>1. update' = [at |-> "send", msg |-> InitBootInformInfo] \/ update' = NoUpdate
        BY <1>5 DEF ThreadUpdateInformMsg
      <3> QED
        BY <1>1, <3>1, NoMessageTypes DEF Updates
    <2>3. wm' \in WanManagers
      BY <1>5 DEF ThreadUpdateInformMsg, InformTypes, Updates, WanManagers
    <2> QED
      BY <1>5, <2>1, <2>2, <2>3 DEF ThreadUpdateInformMsg, mode, ModeTypes, InformTypes
  <1> QED
    BY <1>2, <1>3, <1>4, <1>5 DEF BootInform

LEMMA WanManagerTypes ==
    ASSUME Types, WanManagerRecords \/ WanManagerTries \/ WanManagerFinalizes
    PROVE  Types'
  <1> USE DEF Types
  <1>1. "bus" \in Workers /\ "fin" \in Steps
    BY DEF Workers, Steps
  <1>2. CASE WanManagerRecords
    <2>1. sys' \in Syscfg
      BY <1>2, ModeOfTypes DEF WanManagerRecords, ModeTypes, Syscfg
    <2> QED
      BY <1>2, <2>1, UnharmedTypes DEF WanManagerRecords, ModeTypes, InformTypes
  <1>3. CASE WanManagerTries
    <2>1. job' \in Jobs
      BY <1>1, <1>3, FirstTypes, IdleTypes, JobTypes, ZenonT(40) DEF WanManagerTries
    <2>2. wm' \in WanManagers
      BY <1>3 DEF WanManagerTries, InformTypes, WanManagers
    <2> QED
      BY <1>3, <2>1, <2>2, UnharmedTypes DEF WanManagerTries, mode, ModeTypes, InformTypes
  <1>4. CASE WanManagerFinalizes
    <2>1. job' \in Jobs
      BY <1>1, <1>4, IdleTypes, JobTypes DEF WanManagerFinalizes
    <2>2. wm' \in WanManagers
      BY <1>4 DEF WanManagerFinalizes, InformTypes, WanManagers
    <2> QED
      BY <1>4, <2>1, <2>2, UnharmedTypes DEF WanManagerFinalizes, mode, ModeTypes, InformTypes
  <1> QED
    BY <1>2, <1>3, <1>4

LEMMA RestartTypes ==
    ASSUME Types, AgentRestarts \/ DeviceReboots
    PROVE  Types'
  <1> USE DEF Types
  <1>1. ASSUME NEW n \in Nets, Restart(n)
        PROVE  /\ ModeTypes' /\ job' \in Jobs /\ inform' \in Informs /\ update' \in Updates
               /\ build' \in Builds
    BY <1>1, StartTypes, IdleTypes, NoMessageTypes DEF Restart, ModeTypes
  <1>2. Torn \subseteq {"flags", "mode", "name"}
    BY DEF Torn
  <1>3. CASE AgentRestarts
    <2>1. net \in Nets
      BY DEF ModeTypes
    <2>2. wm' \in WanManagers /\ rebooting' \in BOOLEAN
      BY <1>3 DEF AgentRestarts, InformTypes, WanManagers
    <2>3. BoundTypes'
      <3>1. faults' \in 0 .. MaxFaults
        BY <1>3, BoundsAssumption DEF AgentRestarts, BoundTypes
      <3>2. damage' \in Damages
        BY <1>2, <1>3 DEF AgentRestarts, BoundTypes, Damages
      <3> QED
        BY <3>1, <3>2 DEF BoundTypes
    <2> QED
      BY <1>1, <1>3, <2>1, <2>2, <2>3 DEF AgentRestarts, InformTypes
  <1>4. CASE DeviceReboots
    <2>1. BootNet(build.platform, hal) \in Nets
      BY BootTypes DEF ModeTypes, Builds
    <2>2. wm' \in WanManagers /\ rebooting' \in BOOLEAN
      BY <1>4 DEF DeviceReboots, WanManagers, Names
    <2>3. BoundTypes'
      <3>1. faults' \in 0 .. MaxFaults
        BY <1>4, BoundsAssumption DEF DeviceReboots, BoundTypes
      <3>2. damage' \in Damages
        BY <1>2, <1>4 DEF DeviceReboots, BoundTypes, Damages
      <3> QED
        BY <3>1, <3>2 DEF BoundTypes
    <2> QED
      BY <1>1, <1>4, <2>1, <2>2, <2>3 DEF DeviceReboots, InformTypes
  <1> QED
    BY <1>3, <1>4

LEMMA NextTypes == Types /\ [Next]_vars => Types'
  <1> SUFFICES ASSUME Types, [Next]_vars
               PROVE  Types'
    OBVIOUS
  <1>1. CASE \E m \in {"auto", "eth", "docsis"} : EthernetWAN_SetParamStringValue(m)
    BY <1>1, WriteTypes
  <1>2. CASE BusStep
    <2>1. "bus" \in Workers
      BY DEF Workers
    <2> QED
      BY <1>2, <2>1, ConfigureTypes, FinalizeTypes DEF BusStep
  <1>3. ASSUME NEW t \in Threads, ThreadStep(t)
        PROVE  Types'
    <2>1. t \in Workers
      BY DEF Workers
    <2> QED
      BY <1>3, <2>1, ConfigureTypes, ThreadTypes, FinalizeTypes DEF ThreadStep
  <1>4. CASE BootInform \/ ThreadUpdateInformMsg
    BY <1>4, MessageTypes
  <1>5. CASE WanManagerRecords \/ WanManagerTries \/ WanManagerFinalizes
    BY <1>5, WanManagerTypes
  <1>6. CASE AgentRestarts \/ DeviceReboots
    BY <1>6, RestartTypes
  <1>7. CASE UNCHANGED vars
    BY <1>7
    DEF vars, mode, bounds, Types, ModeTypes, InformTypes, BoundTypes
  <1> QED
    BY <1>1, <1>2, <1>3, <1>4, <1>5, <1>6, <1>7 DEF Next

\* The type invariant: whatever fails and whoever overlaps, the copies of the
\* mode, the devices of the bridges and the messages keep their types.
THEOREM ModeTypesHold == Spec => []TypeOK
  <1>1. Init => Types
    BY InitTypes
  <1>2. Types /\ [Next]_vars => Types'
    BY NextTypes
  <1>3. Types => TypeOK
    BY TypesAreTypeOK
  <1> QED
    BY <1>1, <1>2, <1>3, PTL DEF Spec

-----------------------------------------------------------------------------
(* The copies of the mode                                                  *)

Active(w) == job[w].at # "idle"

\* A thread that changes the mode is the only one that does anything.
Solo == \A t \in Threads : Active(t) =>
            ~wm.trial /\ \A w \in Workers \ {t} : ~Active(w)

\* The dispatcher does not roll back.
BusIsPlain == ~job["bus"].rolled

Synced == file = hal /\ sys.eth = hal /\ (build.noreboot => cfg.enable = hal)

\* The copies a job has written when it is at a step.
Written(j) ==
    /\ j.at = "file" => hal = j.v
    /\ j.at = "flag" => hal = j.v /\ file = hal
    /\ j.at = "late" => hal = j.v /\ file = hal /\ sys.eth = hal

Ends == {"fin", "names", "resume", "end"}

\* A change that succeeded mends what was wrong before.
Mended == \A t \in Threads : job[t].at \in Ends /\ ~job[t].rolled => Synced

\* The steps at which a job has written none of the copies, or all.
Untouched(j) ==
    \/ j.at \in {"idle", "start"} \cup Ends
    \/ j.at \in {"take", "hal"} /\ ~j.rolled

Whole == "flags" \notin damage /\ (\A w \in Workers : Untouched(job[w])) => Synced

Good == Solo /\ BusIsPlain /\ (\A w \in Workers : Written(job[w])) /\ Mended /\ Whole

LEMMA OthersRest ==
    ASSUME Solo, NEW w \in Workers, Active(w), NEW u \in Workers \ {w}
    PROVE  ~Active(u)
  BY DEF Solo, Workers

\* One step of a worker: only its own job has to be looked at.
LEMMA WorkerStep ==
    ASSUME Types, Good, NEW w \in Workers, Active(w), NEW j \in Job,
           job' = [job EXCEPT ![w] = j], wm'.trial = wm.trial,
           w = "bus" => ~j.rolled,
           Written(j)',
           w \in Threads /\ j.at \in Ends /\ ~j.rolled => Synced',
           "flags" \notin damage' /\ Untouched(j) => Synced'
    PROVE  Good'
  <1>1. \A u \in Workers : job'[u] = IF u = w THEN j ELSE job[u]
    BY DEF Types, Jobs
  <1>2. \A u \in Workers \ {w} : job'[u].at = "idle"
    BY <1>1, OthersRest DEF Good, Active
  <1>3. Threads \subseteq Workers /\ "bus" \in Workers
    BY DEF Workers
  <1>4. Solo'
    <2> SUFFICES ASSUME NEW t \in Threads, job'[t].at # "idle"
                 PROVE  ~wm'.trial /\ \A u \in Workers \ {t} : job'[u].at = "idle"
      BY DEF Solo, Active
    <2>1. t = w
      BY <1>2, <1>3
    <2> QED
      BY <1>2, <2>1 DEF Good, Solo
  <1>5. BusIsPlain'
    BY <1>1, <1>3 DEF Good, BusIsPlain
  <1>6. \A u \in Workers : Written(job[u])'
    BY <1>1, <1>2 DEF Written
  <1>7. Mended'
    <2> SUFFICES ASSUME NEW t \in Threads, job'[t].at \in Ends, ~job'[t].rolled
                 PROVE  Synced'
      BY DEF Mended
    <2>1. t = w
      BY <1>2, <1>3 DEF Ends
    <2> QED
      BY <1>1, <2>1
  <1>8. Whole'
    BY <1>1 DEF Whole, Untouched
  <1> QED
    BY <1>4, <1>5, <1>6, <1>7, <1>8 DEF Good

\* When it is at a step where nothing is half done, all is whole.
LEMMA WholeNow ==
    ASSUME Types, Good, NEW w \in Workers, Active(w), "flags" \notin damage, Untouched(job[w])
    PROVE  Synced
  <1>1. \A u \in Workers \ {w} : job[u].at = "idle"
    BY OthersRest DEF Good, Active
  <1>2. \A u \in Workers : Untouched(job[u])
    BY <1>1 DEF Untouched
  <1> QED
    BY <1>2 DEF Good, Whole

\* A step of a worker that writes none of the copies.
LEMMA QuietStep ==
    ASSUME Types, Good, NEW w \in Workers, Active(w), NEW j \in Job,
           job' = [job EXCEPT ![w] = j], wm'.trial = wm.trial,
           w = "bus" => ~j.rolled,
           UNCHANGED <<build, hal, file>>, sys'.eth = sys.eth, cfg'.enable = cfg.enable,
           j.at \notin {"file", "flag", "late"},
           w \in Threads /\ j.at \in Ends /\ ~j.rolled => job[w].at \in Ends /\ ~job[w].rolled,
           "flags" \notin damage' /\ Untouched(j) =>
               ("flags" \notin damage /\ Untouched(job[w])) \/ Synced
    PROVE  Good'
  <1>1. Synced => Synced'
    BY DEF Synced
  <1>2. Written(j)'
    BY DEF Written
  <1>3. w \in Threads /\ j.at \in Ends /\ ~j.rolled => Synced'
    BY <1>1 DEF Good, Mended
  <1>4. "flags" \notin damage' /\ Untouched(j) => Synced'
    BY <1>1, WholeNow
  <1> QED
    BY <1>2, <1>3, <1>4, WorkerStep

LEMMA Stepping ==
    ASSUME Types, NEW w \in Workers, NEW s \in Steps, To(w, s)
    PROVE  \E j \in Job : /\ job' = [job EXCEPT ![w] = j]
                          /\ j.at = s /\ j.v = job[w].v /\ j.rolled = job[w].rolled
  <1> DEFINE j == [job[w] EXCEPT !.at = s]
  <1>1. job[w] \in Job
    BY DEF Types, Jobs
  <1>2. j \in Job /\ j.at = s /\ j.v = job[w].v /\ j.rolled = job[w].rolled
    BY <1>1 DEF Job
  <1>3. job' = [job EXCEPT ![w] = j]
    BY DEF To, Types, Jobs
  <1> HIDE DEF j
  <1> QED
    BY <1>2, <1>3

LEMMA ConfigureIsGood ==
    ASSUME Types, Good, NEW w \in Workers,
           \/ TakePort(w) \/ EthwanEnableWithoutReboot(w) \/ MarkFile(w) \/ CommitFlag(w)
           \/ CosaDmlConfigureEthWan(w)
    PROVE  Good'
  <1>0. /\ Active(w)
        /\ job[w] \in Job
        /\ w = "bus" => ~job[w].rolled
        /\ Idle \in Job /\ Idle.at = "idle" /\ ~Idle.rolled
        /\ Written(job[w])
    BY IdleTypes
    DEF Types, Jobs, Good, BusIsPlain, Active, At, TakePort, EthwanEnableWithoutReboot,
        MarkFile, CommitFlag, CosaDmlConfigureEthWan, Idle
  <1>0a. {"hal", "file", "flag", "late", "fin", "back"} \subseteq Steps
    BY DEF Steps
  <1>1. wm' = wm /\ build' = build
    BY DEF TakePort, EthwanEnableWithoutReboot, MarkFile, CommitFlag, CosaDmlConfigureEthWan
  <1>2. CASE TakePort(w)
    <2>1. PICK j \in Job : job' = [job EXCEPT ![w] = j] /\ j.at = "hal" /\ j.rolled = job[w].rolled
      <3>1. To(w, "hal")
        BY <1>2 DEF TakePort
      <3> QED
        BY <1>0a, <3>1, Stepping
    <2>2. Untouched(j) => Untouched(job[w])
      BY <1>2, <2>1 DEF TakePort, At, Untouched, Ends
    <2>3. cfg'.enable = cfg.enable /\ UNCHANGED <<hal, file, sys, damage>>
      BY <1>2 DEF TakePort, Types, ModeTypes, EthWanCfg, Unharmed, bounds
    <2> QED
      BY <1>0, <1>1, <2>1, <2>2, <2>3, QuietStep DEF Ends
  <1>3. ASSUME NEW harm \in {{"mac"}, {"flags", "mac"}}, Failed(w, harm),
               UNCHANGED <<hal, file, sys, cfg>>,
               w = "bus" /\ "flags" \notin harm => Untouched(job[w])
        PROVE  Good'
    <2>1. CASE w = "bus"
      <3>1. job' = [job EXCEPT ![w] = Idle] /\ damage' = damage \cup harm
        BY <1>3, <2>1 DEF Failed, Fault, Done
      <3>2. w \notin Threads
        BY <2>1, ThreadsAssumption
      <3> QED
        BY <1>0, <1>1, <1>3, <2>1, <3>1, <3>2, QuietStep
    <2>2. CASE w # "bus" /\ job[w].rolled
      <3>1. PICK j \in Job : job' = [job EXCEPT ![w] = j] /\ j.at = "fin" /\ j.rolled
        BY <1>0a, <1>3, <2>2, Stepping DEF Failed
      <3>2. "flags" \in damage'
        BY <1>3, <2>2 DEF Failed, Fault
      <3> QED
        BY <1>0, <1>1, <1>3, <2>2, <3>1, <3>2, QuietStep
    <2>3. CASE w # "bus" /\ ~job[w].rolled
      <3>1. PICK j \in Job : job' = [job EXCEPT ![w] = j] /\ j.at = "back"
        BY <1>0a, <1>3, <2>3, Stepping DEF Failed
      <3>2. ~Untouched(j) /\ j.at \notin Ends
        BY <3>1 DEF Untouched, Ends
      <3> QED
        BY <1>0, <1>1, <1>3, <2>3, <3>1, <3>2, QuietStep
    <2> QED
      BY <2>1, <2>2, <2>3
  <1>4. CASE EthwanEnableWithoutReboot(w)
    <2>1. CASE Failed(w, {"mac"}) /\ UNCHANGED hal
      <3>1. w = "bus" => Untouched(job[w])
        BY <1>0, <1>4 DEF EthwanEnableWithoutReboot, At, Untouched
      <3> QED
        BY <1>3, <1>4, <2>1, <3>1 DEF EthwanEnableWithoutReboot
    <2>2. CASE hal' = job[w].v /\ To(w, "file") /\ Unharmed
      <3>1. PICK j \in Job : job' = [job EXCEPT ![w] = j] /\ j.at = "file"
            /\ j.v = job[w].v /\ j.rolled = job[w].rolled
        BY <1>0a, <2>2, Stepping
      <3>2. ~Untouched(j) /\ j.at \notin Ends
        BY <3>1 DEF Untouched, Ends
      <3>3. Written(j)'
        BY <2>2, <3>1 DEF Written
      <3> QED
        BY <1>0, <1>1, <3>1, <3>2, <3>3, WorkerStep
    <2> QED
      BY <1>4, <2>1, <2>2 DEF EthwanEnableWithoutReboot
  <1>5. CASE MarkFile(w)
    <2>1. PICK j \in Job : job' = [job EXCEPT ![w] = j] /\ j.at = "flag"
          /\ j.v = job[w].v /\ j.rolled = job[w].rolled
      BY <1>0a, <1>5, Stepping DEF MarkFile
    <2>2. ~Untouched(j) /\ j.at \notin Ends
      BY <2>1 DEF Untouched, Ends
    <2>3. Written(j)'
      BY <1>0, <1>5, <2>1 DEF Written, MarkFile, At
    <2> QED
      BY <1>0, <1>1, <2>1, <2>2, <2>3, WorkerStep
  <1>6. CASE CommitFlag(w)
    <2>1. CASE Failed(w, {"flags", "mac"}) /\ UNCHANGED sys
      BY <1>3, <1>6, <2>1 DEF CommitFlag
    <2>2. CASE sys' = [sys EXCEPT !.eth = job[w].v] /\ To(w, "late") /\ Unharmed
      <3>1. PICK j \in Job : job' = [job EXCEPT ![w] = j] /\ j.at = "late"
            /\ j.v = job[w].v /\ j.rolled = job[w].rolled
        BY <1>0a, <2>2, Stepping
      <3>2. ~Untouched(j) /\ j.at \notin Ends
        BY <3>1 DEF Untouched, Ends
      <3>3. sys'.eth = job[w].v
        BY <2>2 DEF Types, ModeTypes, Syscfg
      <3>4. Written(j)'
        BY <1>0, <1>6, <3>1, <3>3 DEF Written, CommitFlag, At
      <3> QED
        BY <1>0, <1>1, <3>1, <3>2, <3>4, WorkerStep
    <2> QED
      BY <1>6, <2>1, <2>2 DEF CommitFlag
  <1>7. CASE CosaDmlConfigureEthWan(w)
    <2>1. Synced'
      <3>1. cfg'.enable = hal
        BY <1>7 DEF CosaDmlConfigureEthWan, Types, ModeTypes, EthWanCfg
      <3> QED
        BY <1>0, <1>7, <3>1 DEF CosaDmlConfigureEthWan, At, Written, Synced
    <2>2. PICK j \in Job : /\ job' = [job EXCEPT ![w] = j] /\ j.at \in {"idle", "fin"}
                           /\ w = "bus" => ~j.rolled
      <3>1. CASE w = "bus"
        BY <1>0, <1>7, <3>1 DEF CosaDmlConfigureEthWan, Done
      <3>2. CASE w # "bus"
        BY <1>0a, <1>7, <3>2, Stepping DEF CosaDmlConfigureEthWan
      <3> QED
        BY <3>1, <3>2
    <2>3. Written(j)'
      BY <2>2 DEF Written
    <2> QED
      BY <1>0, <1>1, <2>1, <2>2, <2>3, WorkerStep
  <1> QED
    BY <1>2, <1>4, <1>5, <1>6, <1>7

LEMMA ThreadIsGood ==
    ASSUME Types, Good, NEW t \in Threads,
           \/ ThreadConfigEthWan(t) \/ RollBack(t) \/ WriteWanNames(t)
           \/ ResumeWanManager(t) \/ EndConfigEthWan(t)
    PROVE  Good'
  <1>0. /\ Active(t) /\ t \in Workers /\ t # "bus"
        /\ job[t] \in Job
        /\ Idle \in Job /\ Idle.at = "idle"
    BY IdleTypes, ThreadsAssumption
    DEF Types, Jobs, Workers, Active, At, ThreadConfigEthWan, RollBack, WriteWanNames,
        ResumeWanManager, EndConfigEthWan, Idle
  <1>0a. {"take", "hal", "resume", "end"} \subseteq Steps
    BY DEF Steps
  <1>1. UNCHANGED <<build, hal, file>>
    BY DEF ThreadConfigEthWan, RollBack, WriteWanNames, ResumeWanManager, EndConfigEthWan, mode
  <1>2. wm'.trial = wm.trial /\ sys'.eth = sys.eth /\ cfg'.enable = cfg.enable
    BY DEF ThreadConfigEthWan, RollBack, WriteWanNames, ResumeWanManager, EndConfigEthWan, mode,
           Types, ModeTypes, InformTypes, WanManagers, Syscfg, EthWanCfg
  <1>3. CASE ThreadConfigEthWan(t)
    <2>1. First(job[t].v) \in {"take", "hal"}
      BY DEF First
    <2>2. PICK j \in Job : job' = [job EXCEPT ![t] = j] /\ j.at \in {"take", "hal"}
      <3>1. To(t, First(job[t].v))
        BY <1>3 DEF ThreadConfigEthWan
      <3> QED
        BY <1>0, <1>0a, <2>1, <3>1, Stepping
    <2>3. Untouched(job[t]) /\ ("flags" \notin damage' => "flags" \notin damage)
      BY <1>3 DEF ThreadConfigEthWan, At, Untouched, Fault, Unharmed, bounds
    <2> QED
      BY <1>0, <1>1, <1>2, <2>2, <2>3, QuietStep DEF Ends
  <1>4. CASE RollBack(t)
    <2>1. First(~job[t].v) \in {"take", "hal"} /\ (~job[t].v) \in BOOLEAN
      BY <1>0 DEF First, Job
    <2>2. PICK j \in Job : job' = [job EXCEPT ![t] = j] /\ j.at \in {"take", "hal"} /\ j.rolled
      <3> DEFINE j == [Idle EXCEPT !.at = First(~job[t].v), !.v = ~job[t].v, !.rolled = TRUE]
      <3>1. j \in Job
        BY <1>0a, <2>1, IdleTypes
      <3>2. j.at \in {"take", "hal"} /\ j.rolled
        BY <2>1 DEF Idle
      <3> QED
        BY <1>4, <3>1, <3>2 DEF RollBack
    <2>3. ~Untouched(j)
      BY <2>2 DEF Untouched, Ends
    <2> QED
      BY <1>0, <1>1, <1>2, <2>2, <2>3, QuietStep
  <1>5. ASSUME NEW s \in {"resume", "end"}, To(t, s), job[t].at \in Ends,
               "flags" \notin damage' => "flags" \notin damage
        PROVE  Good'
    <2>1. PICK j \in Job : job' = [job EXCEPT ![t] = j] /\ j.at = s /\ j.rolled = job[t].rolled
      BY <1>0, <1>0a, <1>5, Stepping
    <2>2. Untouched(job[t])
      BY <1>5 DEF Untouched
    <2> QED
      BY <1>0, <1>1, <1>2, <1>5, <2>1, <2>2, QuietStep
  <1>6. CASE WriteWanNames(t)
    BY <1>5, <1>6 DEF WriteWanNames, At, Ends, Fault, Told, Unharmed, bounds
  <1>7. CASE ResumeWanManager(t)
    BY <1>5, <1>7 DEF ResumeWanManager, At, Ends, Fault, Unharmed, bounds
  <1>8. CASE EndConfigEthWan(t)
    <2>1. job' = [job EXCEPT ![t] = Idle]
      BY <1>8 DEF EndConfigEthWan, Done
    <2>2. Untouched(job[t]) /\ job[t].at \in Ends
      BY <1>8 DEF EndConfigEthWan, At, Untouched, Ends
    <2>3. ("flags" \notin damage' => "flags" \notin damage) \/ Synced
      <3>1. CASE ~job[t].rolled
        BY <2>2, <3>1 DEF Good, Mended
      <3>2. CASE job[t].rolled
        BY <1>8, <3>2 DEF EndConfigEthWan
      <3> QED
        BY <3>1, <3>2
    <2> QED
      BY <1>0, <1>1, <1>2, <2>1, <2>2, <2>3, QuietStep DEF Ends
  <1> QED
    BY <1>3, <1>4, <1>6, <1>7, <1>8

LEMMA FinalizeIsGood ==
    ASSUME Types, Good, NEW w \in Workers, CosaDmlIfaceFinalize(w)
    PROVE  Good'
  <1>1. /\ Active(w) /\ job[w] \in Job /\ job[w].at = "fin"
        /\ Idle \in Job /\ Idle.at = "idle" /\ ~Idle.rolled
    BY IdleTypes DEF Types, Jobs, Active, CosaDmlIfaceFinalize, At, Idle
  <1>2. Untouched(job[w]) /\ job[w].at \in Ends
    BY <1>1 DEF Untouched, Ends
  <1>3. UNCHANGED <<build, hal, file, sys, cfg, wm, damage>>
    BY DEF CosaDmlIfaceFinalize, Unharmed, bounds
  <1>4. CASE w = "bus"
    <2>1. job' = [job EXCEPT ![w] = Idle] /\ w \notin Threads
      BY <1>4, ThreadsAssumption DEF CosaDmlIfaceFinalize, Done
    <2> QED
      BY <1>1, <1>2, <1>3, <2>1, QuietStep
  <1>5. CASE w # "bus"
    <2>1. PICK j \in Job : job' = [job EXCEPT ![w] = j] /\ j.at = "names" /\ j.rolled = job[w].rolled
      <3> DEFINE j == [job[w] EXCEPT !.at = "names", !.eth = hal]
      <3>1. j \in Job /\ j.at = "names" /\ j.rolled = job[w].rolled
        BY <1>1 DEF Types, ModeTypes, Job, Steps
      <3>2. job' = [job EXCEPT ![w] = j]
        BY <1>5 DEF CosaDmlIfaceFinalize, Types, Jobs
      <3> QED
        BY <3>1, <3>2
    <2> QED
      BY <1>1, <1>2, <1>3, <1>5, <2>1, QuietStep
  <1> QED
    BY <1>4, <1>5

-----------------------------------------------------------------------------
(* Steps that begin a change, or are none                                  *)

AllRest == \A w \in Workers : ~Active(w)

LEMMA RestingRests == Resting => AllRest
  BY DEF Resting, AllRest, Active, At

\* From rest at most one job begins, at a step where it has done nothing.
LEMMA Beginning ==
    ASSUME Types, Good, AllRest, NEW w \in Workers, NEW j \in Job,
           job' = [job EXCEPT ![w] = j], Untouched(j), ~j.rolled,
           w \in Threads => j.at = "start" /\ ~wm.trial,
           j.at \notin {"file", "flag", "late"},
           w = "bus" \/ wm' = wm,
           UNCHANGED <<build, hal, file>>, sys'.eth = sys.eth, cfg'.enable = cfg.enable,
           "flags" \notin damage' => "flags" \notin damage
    PROVE  Good'
  <1>1. \A u \in Workers : job'[u] = IF u = w THEN j ELSE job[u]
    BY DEF Types, Jobs
  <1>2. Threads \subseteq Workers /\ "bus" \in Workers /\ "bus" \notin Threads
    BY ThreadsAssumption DEF Workers
  <1>3. \A u \in Workers : job[u].at = "idle"
    BY DEF AllRest, Active
  <1>4. Solo'
    <2> SUFFICES ASSUME NEW t \in Threads, job'[t].at # "idle"
                 PROVE  ~wm'.trial /\ \A u \in Workers \ {t} : job'[u].at = "idle"
      BY DEF Solo, Active
    <2>1. t = w
      BY <1>1, <1>2, <1>3
    <2> QED
      BY <1>1, <1>2, <1>3, <2>1
  <1>5. BusIsPlain'
    BY <1>1, <1>2 DEF Good, BusIsPlain
  <1>6. \A u \in Workers : Written(job[u])'
    BY <1>1, <1>3 DEF Written
  <1>7. Mended'
    <2> SUFFICES ASSUME NEW t \in Threads, job'[t].at \in Ends
                 PROVE  FALSE
      BY DEF Mended
    <2> QED
      BY <1>1, <1>2, <1>3 DEF Ends
  <1>8. Whole'
    <2>1. \A u \in Workers : Untouched(job[u])
      BY <1>3 DEF Untouched
    <2>2. "flags" \notin damage => Synced
      BY <2>1 DEF Good, Whole
    <2> QED
      BY <2>2 DEF Whole, Synced
  <1> QED
    BY <1>4, <1>5, <1>6, <1>7, <1>8 DEF Good

\* A step after which all rest.
LEMMA RestStep ==
    ASSUME Types, Good, \A w \in Workers : job'[w] = Idle,
           "flags" \notin damage' => Synced'
    PROVE  Good'
  <1>1. Idle.at = "idle" /\ ~Idle.rolled
    BY DEF Idle
  <1>2. Threads \subseteq Workers /\ "bus" \in Workers
    BY DEF Workers
  <1> QED
    BY <1>1, <1>2 DEF Good, Solo, Active, BusIsPlain, Written, Mended, Ends, Whole

\* A step that leaves the jobs and the copies alone.
LEMMA AsideStep ==
    ASSUME Types, Good, UNCHANGED <<build, hal, file, job>>, sys'.eth = sys.eth,
           cfg'.enable = cfg.enable, wm'.trial = wm.trial,
           "flags" \notin damage' => "flags" \notin damage
    PROVE  Good'
  <1>1. Synced' <=> Synced
    BY DEF Synced
  <1>2. Solo' /\ BusIsPlain'
    BY DEF Good, Solo, Active, BusIsPlain
  <1>3. \A w \in Workers : Written(job[w])'
    BY DEF Good, Written
  <1>4. Mended' /\ Whole'
    BY <1>1 DEF Good, Mended, Whole, Untouched
  <1> QED
    BY <1>2, <1>3, <1>4 DEF Good

LEMMA RestIsWhole == Good /\ AllRest /\ "flags" \notin damage => Synced
  BY DEF Good, AllRest, Active, Whole, Untouched

LEMMA WriteIsGood ==
    ASSUME Types, Good, Patient, NEW m \in {"auto", "eth", "docsis"},
           EthernetWAN_SetParamStringValue(m)
    PROVE  Good'
  <1> DEFINE stored == [sys EXCEPT !.sel = m]
  <1>1. Resting /\ AllRest /\ ~wm.trial
    BY RestingRests DEF EthernetWAN_SetParamStringValue, MayWrite, Resting
  <1>2. stored.eth = sys.eth /\ cfg'.enable = cfg.enable /\ wm' = wm /\ build' = build
    BY DEF EthernetWAN_SetParamStringValue, Types, ModeTypes, Syscfg, EthWanCfg
  <1> HIDE DEF stored
  <1>3. CASE /\ (Fault({}) /\ UNCHANGED sys) \/ (sys' = stored /\ Unharmed)
             /\ UNCHANGED <<hal, file, net, job, rebooting>>
    <2>1. sys'.eth = sys.eth /\ damage' = damage
      BY <1>2, <1>3 DEF Fault, Unharmed, bounds
    <2> QED
      BY <1>2, <1>3, <2>1, AsideStep
  <1>4. CASE ConfigEthWan(m = "eth") /\ sys' = stored
    <2>1. UNCHANGED <<hal, file>> /\ sys'.eth = sys.eth
      BY <1>2, <1>4 DEF ConfigEthWan
    <2>2. CASE Fault({"mode"}) /\ UNCHANGED job
      <3>1. "flags" \notin damage' => "flags" \notin damage
        BY <2>2 DEF Fault
      <3> QED
        BY <1>2, <2>1, <2>2, <3>1, AsideStep
    <2>3. ASSUME NEW t \in Threads, Unharmed,
                 job' = [job EXCEPT ![t] = [Idle EXCEPT !.at = "start", !.v = (m = "eth")]]
          PROVE  Good'
      <3> DEFINE j == [Idle EXCEPT !.at = "start", !.v = (m = "eth")]
      <3>1. j \in Job /\ t \in Workers
        BY IdleTypes DEF Workers, Steps
      <3>2. j.at = "start" /\ ~j.rolled
        BY DEF Idle
      <3>3. Untouched(j)
        BY <3>2 DEF Untouched
      <3>4. damage' = damage
        BY <2>3 DEF Unharmed, bounds
      <3>5. job' = [job EXCEPT ![t] = j]
        BY <2>3
      <3> HIDE DEF j
      <3> QED
        BY <1>1, <1>2, <2>1, <3>1, <3>2, <3>3, <3>4, <3>5, Beginning
    <2> QED
      BY <1>4, <2>2, <2>3 DEF ConfigEthWan
  <1>5. CASE ~build.noreboot /\ StoreAndReboot(m = "eth", stored)
    <2>1. "flags" \notin damage' => Synced'
      <3> SUFFICES ASSUME "flags" \notin damage'
                   PROVE  Synced'
        OBVIOUS
      <3>1. CASE /\ hal' = (m = "eth") /\ file' = (m = "eth")
                 /\ sys' = [stored EXCEPT !.eth = (m = "eth")]
        <4>1. sys'.eth = (m = "eth")
          BY <3>1, <1>1 DEF stored, Types, ModeTypes, Syscfg
        <4> QED
          BY <1>2, <1>5, <3>1, <4>1 DEF Synced
      <3>2. CASE Fault({"mode"}) /\ sys' = stored /\ UNCHANGED <<hal, file, rebooting>>
        <4>1. Synced
          BY <1>1, <3>2, RestIsWhole DEF Fault
        <4> QED
          BY <1>2, <3>2, <4>1 DEF Synced
      <3>3. CASE Fault({"mode", "flags", "mac"})
        BY <3>3 DEF Fault
      <3> QED
        BY <1>5, <3>1, <3>2, <3>3 DEF StoreAndReboot
    <2>2. UNCHANGED job
      BY <1>5 DEF StoreAndReboot
    <2> QED
      BY <1>1, <1>2, <2>1, <2>2
      DEF Good, AllRest, Active, Solo, BusIsPlain, Written, Mended, Ends, Whole, Workers
  <1> QED
    BY <1>3, <1>4, <1>5 DEF EthernetWAN_SetParamStringValue, CosaDmlEthWanSetEnable, stored

LEMMA AsideIsGood ==
    ASSUME Types, Good, BootInform \/ ThreadUpdateInformMsg \/ WanManagerRecords
    PROVE  Good'
  <1>1. UNCHANGED <<build, hal, file, cfg, job>>
    BY DEF BootInform, BootInformBegins, BootInformName, BootInformRest, ThreadUpdateInformMsg,
           WanManagerRecords, mode
  <1>2. sys'.eth = sys.eth /\ wm'.trial = wm.trial
    BY DEF BootInform, BootInformBegins, BootInformName, BootInformRest, ThreadUpdateInformMsg,
           WanManagerRecords, mode, Types, ModeTypes, InformTypes, Syscfg, WanManagers
  <1>3. "flags" \notin damage' => "flags" \notin damage
    BY DEF BootInform, BootInformBegins, BootInformName, BootInformRest, ThreadUpdateInformMsg,
           WanManagerRecords, Fault, Told, Unharmed, bounds
  <1> QED
    BY <1>1, <1>2, <1>3, AsideStep

\* The WAN manager tries a mode or has it finalized while no thread runs.
LEMMA WanManagerIsGood ==
    ASSUME Types, Good, WanManagerTries \/ WanManagerFinalizes
    PROVE  Good'
  <1>1. AllRest
    <2>1. \A t \in Threads : ~Active(t)
      BY RestingRests DEF Good, Solo, WanManagerTries, WanManagerFinalizes, AllRest, Workers
    <2>2. ~Active("bus")
      BY DEF WanManagerTries, WanManagerFinalizes, At, Active
    <2> QED
      BY <2>1, <2>2 DEF AllRest, Workers
  <1>2. "bus" \in Workers /\ "bus" \notin Threads
    BY ThreadsAssumption DEF Workers
  <1>3. UNCHANGED <<build, hal, file, sys, cfg, damage>>
    BY DEF WanManagerTries, WanManagerFinalizes, mode, Unharmed, bounds
  <1>4. PICK j \in Job : /\ job' = [job EXCEPT !["bus"] = j] /\ ~j.rolled
                         /\ j.at \in {"take", "hal", "fin"}
    <2>1. CASE WanManagerFinalizes
      <3>1. [Idle EXCEPT !.at = "fin"] \in Job
        BY IdleTypes DEF Steps
      <3> QED
        BY <2>1, <3>1 DEF WanManagerFinalizes, Idle
    <2>2. CASE WanManagerTries
      <3>1. PICK v \in BOOLEAN : job' = [job EXCEPT !["bus"] = [Idle EXCEPT !.at = First(v), !.v = v]]
        BY <2>2 DEF WanManagerTries
      <3>2. First(v) \in {"take", "hal"}
        BY DEF First
      <3>3. [Idle EXCEPT !.at = First(v), !.v = v] \in Job
        BY FirstTypes, IdleTypes
      <3> QED
        BY <3>1, <3>2, <3>3 DEF Idle
    <2> QED
      BY <2>1, <2>2
  <1>5. Untouched(j)
    BY <1>4 DEF Untouched, Ends
  <1> QED
    BY <1>1, <1>2, <1>3, <1>4, <1>5, Beginning

LEMMA RestartIsGood ==
    ASSUME Types, Good, AgentRestarts \/ DeviceReboots
    PROVE  Good'
  <1>1. /\ UNCHANGED <<build, hal, file, sys>>
        /\ job' = [w \in Workers |-> Idle]
        /\ cfg'.enable = hal
    <2>1. ASSUME NEW n, Restart(n)
          PROVE  /\ UNCHANGED <<build, hal, file, sys>>
                 /\ job' = [w \in Workers |-> Idle]
                 /\ cfg'.enable = hal
      BY <2>1 DEF Restart, StartCfg
    <2> QED
      BY <2>1 DEF AgentRestarts, DeviceReboots
  <1>2. "flags" \notin damage' => "flags" \notin damage /\ AllRest
    BY DEF AgentRestarts, DeviceReboots, Torn, At, AllRest, Active
  <1>3. "flags" \notin damage' => Synced'
    BY <1>1, <1>2, RestIsWhole DEF Synced
  <1> QED
    BY <1>1, <1>3, RestStep

LEMMA NextIsGood == Patient /\ Types /\ Good /\ [Next]_vars => Good'
  <1> SUFFICES ASSUME Patient, Types, Good, [Next]_vars
               PROVE  Good'
    OBVIOUS
  <1>1. CASE \E m \in {"auto", "eth", "docsis"} : EthernetWAN_SetParamStringValue(m)
    BY <1>1, WriteIsGood
  <1>2. CASE BusStep
    <2>1. "bus" \in Workers
      BY DEF Workers
    <2> QED
      BY <1>2, <2>1, ConfigureIsGood, FinalizeIsGood DEF BusStep
  <1>3. ASSUME NEW t \in Threads, ThreadStep(t)
        PROVE  Good'
    <2>1. t \in Workers
      BY DEF Workers
    <2> QED
      BY <1>3, <2>1, ConfigureIsGood, ThreadIsGood, FinalizeIsGood DEF ThreadStep
  <1>4. CASE BootInform \/ ThreadUpdateInformMsg \/ WanManagerRecords
    BY <1>4, AsideIsGood
  <1>5. CASE WanManagerTries \/ WanManagerFinalizes
    BY <1>5, WanManagerIsGood
  <1>6. CASE AgentRestarts \/ DeviceReboots
    BY <1>6, RestartIsGood
  <1>7. CASE UNCHANGED vars
    BY <1>7, AsideStep DEF vars, mode, bounds
  <1> QED
    BY <1>1, <1>2, <1>3, <1>4, <1>5, <1>6, <1>7 DEF Next

LEMMA InitIsGood == Init => Good
  <1> SUFFICES ASSUME Init
               PROVE  Good
    OBVIOUS
  <1>1. \A w \in Workers : job[w] = Idle
    BY DEF Init
  <1>2. Threads \subseteq Workers /\ "bus" \in Workers /\ Idle.at = "idle" /\ ~Idle.rolled
    BY DEF Workers, Idle
  <1>3. Synced
    <2>1. sys.eth = hal
      BY DEF Init
    <2>2. cfg.enable = hal
      BY DEF Init, StartCfg
    <2> QED
      BY <2>1, <2>2 DEF Init, Synced
  <1> QED
    BY <1>1, <1>2, <1>3 DEF Good, Solo, Active, BusIsPlain, Written, Mended, Ends, Whole

\* A patient user finds the four copies of the mode in agreement, however many
\* calls fail and whenever the agent or the device restarts: a change that
\* fails half-way is rolled back by all of them, and one that is cut off is
\* mended by the next that succeeds.
THEOREM CopiesAgree ==
    ASSUME Patient
    PROVE  Spec => []FlagsAgree
  <1>1. Init => Types /\ Good
    BY InitTypes, InitIsGood
  <1>2. Types /\ Good /\ [Next]_vars => (Types /\ Good)'
    BY NextTypes, NextIsGood
  <1>3. Types /\ Good => FlagsAgree
    BY RestingRests, RestIsWhole DEF FlagsAgree, Settled, Synced
  <1> QED
    BY <1>1, <1>2, <1>3, PTL DEF Spec

-----------------------------------------------------------------------------
(* The address of the port                                                 *)

\* No command touches the address.
LEMMA CommandMac ==
    ASSUME NEW n \in Nets, NEW x, NEW y, NEW br
    PROVE  /\ Rename(n, x, y).mac = n.mac /\ AddBr(n).mac = n.mac /\ DelBr(n).mac = n.mac
           /\ AddIf(n, br, x).mac = n.mac /\ DelIf(n, br, x).mac = n.mac
  <1> USE DEF Nets
  <1>1. Rename(n, x, y).mac = n.mac
    BY DEF Rename
  <1>2. AddBr(n).mac = n.mac /\ DelBr(n).mac = n.mac
    BY DEF AddBr, DelBr
  <1>3. AddIf(n, br, x).mac = n.mac /\ DelIf(n, br, x).mac = n.mac
    BY DEF AddIf, DelIf
  <1> QED
    BY <1>1, <1>2, <1>3

LEMMA SequenceMac ==
    ASSUME NEW n \in Nets, NEW p \in Platforms, NEW c \in BOOLEAN, NEW e \in BOOLEAN
    PROVE  /\ WanBridgeConfigurationBcm(n, e, c).mac = n.mac
           /\ WanBridgeConfigurationIntelPuma7(n, e, c).mac = n.mac
           /\ SwapNames(n).mac = n.mac
           /\ EthWanBridgeInit(n, p).mac = "wan"
  <1>0. "port" \in Names /\ "dummy-rf" \in Names /\ WAN_IF_NAME_PRIMARY \in Names
    BY DEF Names, WAN_IF_NAME_PRIMARY
  <1>1. ASSUME NEW m \in Nets, NEW q \in Platforms
        PROVE  BuildBridge(m, q).mac = m.mac /\ BuildBridge(m, q) \in Nets
    <2> DEFINE a == Rename(m, WAN_IF_NAME_PRIMARY, Parked(q))
               b == AddIf(AddBr(a), "wan", "port")
    <2>1. a \in Nets /\ a.mac = m.mac
      BY CommandTypes, CommandMac, NameTypes
    <2>2. AddBr(a) \in Nets /\ AddBr(a).mac = m.mac
      BY <2>1, <1>0, CommandTypes, CommandMac
    <2>3. b \in Nets /\ b.mac = m.mac
      BY <2>2, <1>0, CommandTypes, CommandMac
    <2> HIDE DEF b
    <2>4. /\ AddIf(b, "wan", ETHWAN_DOCSIS_INF_NAME(q)) \in Nets
          /\ AddIf(b, "wan", ETHWAN_DOCSIS_INF_NAME(q)).mac = m.mac
      BY <2>3, CommandTypes, CommandMac, NameTypes
    <2> QED
      BY <2>4 DEF BuildBridge, b
  <1>2. ASSUME NEW m \in Nets, NEW q \in Platforms
        PROVE  DropBridge(m, q).mac = m.mac
    <2>1. /\ DelIf(m, "wan", ETHWAN_DOCSIS_INF_NAME(q)) \in Nets
          /\ DelIf(m, "wan", ETHWAN_DOCSIS_INF_NAME(q)).mac = m.mac
      BY CommandTypes, CommandMac, NameTypes
    <2>2. /\ DelBr(DelIf(m, "wan", ETHWAN_DOCSIS_INF_NAME(q))) \in Nets
          /\ DelBr(DelIf(m, "wan", ETHWAN_DOCSIS_INF_NAME(q))).mac = m.mac
      BY <1>0, <2>1, CommandTypes, CommandMac
    <2> QED
      BY <2>2, CommandMac DEF DropBridge
  <1>3. ASSUME NEW q \in Platforms
        PROVE  EnterEthernet(n, q, c).mac = n.mac /\ LeaveEthernet(n, q, c).mac = n.mac
    <2>1. /\ DelIf(n, "lan", "port") \in Nets /\ DelIf(n, "wan", "port") \in Nets
          /\ DelIf(n, "lan", "port").mac = n.mac /\ DelIf(n, "wan", "port").mac = n.mac
      BY <1>0, CommandTypes, CommandMac
    <2>2. /\ AddIf(DelIf(n, "lan", "port"), "wan", "port").mac = n.mac
          /\ AddIf(DelIf(n, "wan", "port"), "lan", "port").mac = n.mac
          /\ AddIf(DelIf(n, "wan", "port"), "lan", "port") \in Nets
      BY <1>0, <2>1, CommandTypes, CommandMac
    <2> QED
      BY <1>1, <1>2, <2>1, <2>2 DEF EnterEthernet, LeaveEthernet
  <1>4. /\ WanBridgeConfigurationBcm(n, e, c).mac = n.mac
        /\ WanBridgeConfigurationIntelPuma7(n, e, c).mac = n.mac
    BY <1>3 DEF WanBridgeConfigurationBcm, WanBridgeConfigurationIntelPuma7, Platforms
  <1>5. SwapNames(n).mac = n.mac
    <2>1. Rename(n, WAN_IF_NAME_PRIMARY, "port") \in Nets
      BY <1>0, CommandTypes
    <2> QED
      BY <2>1, CommandMac DEF SwapNames
  <1>6. EthWanBridgeInit(n, p).mac = "wan"
    <2> DEFINE out == IF p = "bcm" THEN DelIf(n, "lan", "port") ELSE n
    <2>1. out \in Nets
      BY <1>0, CommandTypes
    <2>2. BuildBridge(out, p) \in Nets
      BY <1>1, <2>1
    <2> HIDE DEF out
    <2> QED
      BY <2>2 DEF EthWanBridgeInit, out, Nets
  <1> QED
    BY <1>4, <1>5, <1>6

\* The steps of a change from which it comes to the end of CosaDmlConfigureEthWan,
\* or fails for good.
Returning == {"take", "hal", "back", "file", "flag", "late"}

\* The port has the WAN address only while its own is remembered, and in the
\* DOCSIS mode only while a job is under way that puts it back or leaves that mode.
Remembered == "mac" \notin damage => cfg.mac # "wan" /\ (net.mac = "wan" => cfg.mac = "own")
Home == "mac" \notin damage /\ ~hal /\ ~rebooting =>
            net.mac = "own" \/ \E w \in Workers : job[w].at \in Returning

LEMMA JobAfter ==
    ASSUME Types, NEW w \in Workers, NEW s \in Steps, To(w, s) \/ Done(w)
    PROVE  /\ \A u \in Workers \ {w} : job'[u] = job[u]
           /\ To(w, s) => job'[w].at = s /\ job'[w].v = job[w].v /\ job'[w].rolled = job[w].rolled
                          /\ job'[w].eth = job[w].eth
           /\ Done(w) => job'[w] = Idle /\ job'[w].at = "idle"
  <1>1. job[w] \in Job /\ job \in [Workers -> Job]
    BY DEF Types, Jobs
  <1>2. ASSUME Done(w)
        PROVE  /\ \A u \in Workers \ {w} : job'[u] = job[u]
               /\ job'[w] = Idle /\ job'[w].at = "idle"
    BY <1>1, <1>2 DEF Done, Idle
  <1>3. ASSUME To(w, s)
        PROVE  /\ \A u \in Workers \ {w} : job'[u] = job[u]
               /\ job'[w].at = s /\ job'[w].v = job[w].v /\ job'[w].rolled = job[w].rolled
               /\ job'[w].eth = job[w].eth
    BY <1>1, <1>3 DEF To, Job
  <1> QED
    BY <1>2, <1>3

\* A job that moves on within Returning, or outside of it.
LEMMA HomeStays ==
    ASSUME Home, NEW w \in Workers, \A u \in Workers \ {w} : job'[u] = job[u],
           job[w].at \in Returning => job'[w].at \in Returning,
           UNCHANGED <<hal, rebooting>>, net'.mac = net.mac,
           "mac" \notin damage' => "mac" \notin damage
    PROVE  Home'
  <1>1. (\E u \in Workers : job[u].at \in Returning) => \E u \in Workers : job'[u].at \in Returning
    <2> SUFFICES ASSUME NEW u \in Workers, job[u].at \in Returning
                 PROVE  \E x \in Workers : job'[x].at \in Returning
      OBVIOUS
    <2>1. job'[u].at \in Returning \/ job'[w].at \in Returning
      OBVIOUS
    <2> QED
      BY <2>1
  <1> QED
    BY <1>1 DEF Home

LEMMA RememberedStays ==
    ASSUME Remembered, cfg'.mac = cfg.mac, net'.mac = net.mac,
           "mac" \notin damage' => "mac" \notin damage
    PROVE  Remembered'
  BY DEF Remembered

LEMMA ConfigureBringsHome ==
    ASSUME Types, Good, Remembered, Home, NEW w \in Workers,
           \/ TakePort(w) \/ EthwanEnableWithoutReboot(w) \/ MarkFile(w) \/ CommitFlag(w)
           \/ CosaDmlConfigureEthWan(w)
    PROVE  Remembered' /\ Home'
  <1>0. /\ {"hal", "file", "flag", "late", "fin", "back"} \subseteq Steps
        /\ {"hal", "file", "flag", "late", "back"} \subseteq Returning
        /\ "fin" \notin Returning /\ "idle" \notin Returning
    BY DEF Steps, Returning
  <1>1. net \in Nets /\ net.mac \in {"own", "wan"} /\ cfg \in EthWanCfg /\ Written(job[w])
    BY DEF Types, ModeTypes, Nets, Good
  <1>2. rebooting' = rebooting
    BY DEF TakePort, EthwanEnableWithoutReboot, MarkFile, CommitFlag, CosaDmlConfigureEthWan
  <1>3. ASSUME NEW s \in Returning, To(w, s), s \in Steps
        PROVE  Home'
    <2>1. job'[w].at \in Returning
      BY <1>3, JobAfter
    <2> QED
      BY <2>1 DEF Home
  <1>4. ASSUME NEW harm \in {{"mac"}, {"flags", "mac"}}, Failed(w, harm)
        PROVE  Home' /\ ("mac" \notin damage' => "mac" \notin damage)
    <2>1. "mac" \in damage' \/ To(w, "back")
      BY <1>4 DEF Failed, Fault
    <2> QED
      BY <1>0, <1>3, <1>4, <2>1 DEF Home, Failed, Fault
  <1>5. CASE TakePort(w)
    <2>1. DelIf(net, "lan", "port") \in Nets
      BY <1>1, CommandTypes DEF Names
    <2>2. net'.mac = "wan" /\ cfg'.mac = (IF cfg.mac = "" THEN net.mac ELSE cfg.mac)
          /\ damage' = damage
      BY <1>1, <1>5, <2>1 DEF TakePort, Nets, EthWanCfg, Unharmed, bounds
    <2>3. Remembered'
      BY <1>1, <2>2 DEF Remembered, EthWanCfg
    <2> QED
      BY <1>0, <1>3, <1>5, <2>3 DEF TakePort
  <1>6. CASE EthwanEnableWithoutReboot(w)
    <2>1. net'.mac = net.mac
      BY <1>1, <1>6, SequenceMac DEF EthwanEnableWithoutReboot, Platforms
    <2>2. Home' /\ ("mac" \notin damage' => "mac" \notin damage)
      BY <1>0, <1>3, <1>4, <1>6 DEF EthwanEnableWithoutReboot, Unharmed, bounds
    <2> QED
      BY <1>6, <2>1, <2>2, RememberedStays DEF EthwanEnableWithoutReboot
  <1>7. CASE MarkFile(w)
    BY <1>0, <1>3, <1>7, RememberedStays DEF MarkFile, Unharmed, bounds
  <1>8. CASE CommitFlag(w)
    <2>1. Home' /\ ("mac" \notin damage' => "mac" \notin damage)
      BY <1>0, <1>3, <1>4, <1>8 DEF CommitFlag, Unharmed, bounds
    <2> QED
      BY <1>8, <2>1, RememberedStays DEF CommitFlag
  <1>9. CASE CosaDmlConfigureEthWan(w)
    <2>1. /\ net'.mac = IF job[w].v \/ cfg.mac = "" THEN net.mac ELSE cfg.mac
          /\ cfg'.mac = cfg.mac /\ damage' = damage /\ hal' = hal
      BY <1>1, <1>9 DEF CosaDmlConfigureEthWan, Nets, EthWanCfg, Unharmed, bounds
    <2>2. Remembered'
      BY <1>1, <2>1 DEF Remembered, EthWanCfg
    <2>3. Home'
      <3>1. hal = job[w].v
        BY <1>1, <1>9 DEF CosaDmlConfigureEthWan, At, Written
      <3>2. "mac" \notin damage /\ ~job[w].v => net'.mac = "own"
        BY <1>1, <2>1 DEF Remembered, EthWanCfg
      <3> QED
        BY <2>1, <3>1, <3>2 DEF Home
    <2> QED
      BY <2>2, <2>3
  <1> QED
    BY <1>5, <1>6, <1>7, <1>8, <1>9

LEMMA ThreadBringsHome ==
    ASSUME Types, Good, Remembered, Home, NEW t \in Threads,
           \/ ThreadConfigEthWan(t) \/ RollBack(t) \/ WriteWanNames(t)
           \/ ResumeWanManager(t) \/ EndConfigEthWan(t)
    PROVE  Remembered' /\ Home'
  <1>1. UNCHANGED <<hal, net, rebooting>> /\ cfg'.mac = cfg.mac /\ t \in Workers
    BY DEF ThreadConfigEthWan, RollBack, WriteWanNames, ResumeWanManager, EndConfigEthWan, mode,
           Types, ModeTypes, EthWanCfg, Workers
  <1>2. "mac" \notin damage' => "mac" \notin damage
    BY DEF ThreadConfigEthWan, RollBack, WriteWanNames, ResumeWanManager, EndConfigEthWan,
           Fault, Told, Unharmed, bounds
  <1>3. \A v \in BOOLEAN : First(v) \in Returning /\ First(v) \in Steps
    BY DEF First, Returning, Steps
  <1>4. job[t] \in Job /\ job[t].v \in BOOLEAN /\ {"resume", "end"} \subseteq Steps
    BY <1>1 DEF Types, Jobs, Job, Steps
  <1>5. /\ \A u \in Workers \ {t} : job'[u] = job[u]
        /\ job[t].at \in Returning => job'[t].at \in Returning
    <2>1. CASE ThreadConfigEthWan(t)
      BY <1>1, <1>3, <1>4, <2>1, JobAfter DEF ThreadConfigEthWan
    <2>2. CASE RollBack(t)
      <3>1. job' = [job EXCEPT ![t] = [Idle EXCEPT !.at = First(~job[t].v), !.v = ~job[t].v,
                                                   !.rolled = TRUE]]
        BY <2>2 DEF RollBack
      <3>2. job'[t].at = First(~job[t].v) /\ (~job[t].v) \in BOOLEAN
        BY <1>1, <1>4, <3>1 DEF Idle, Types, Jobs
      <3> QED
        BY <1>3, <3>1, <3>2 DEF Types, Jobs
    <2>3. CASE WriteWanNames(t)
      BY <1>1, <1>4, <2>3, JobAfter DEF WriteWanNames, At, Returning
    <2>4. CASE ResumeWanManager(t)
      BY <1>1, <1>4, <2>4, JobAfter DEF ResumeWanManager, At, Returning
    <2>5. CASE EndConfigEthWan(t)
      BY <1>1, <1>4, <2>5, JobAfter DEF EndConfigEthWan, At, Returning
    <2> QED
      BY <2>1, <2>2, <2>3, <2>4, <2>5
  <1> QED
    BY <1>1, <1>2, <1>5, HomeStays, RememberedStays

\* Steps that put no job among those under way, nor end one.
LEMMA AsideBringsHome ==
    ASSUME Types, Remembered, Home,
           \/ \E m \in {"auto", "eth", "docsis"} : EthernetWAN_SetParamStringValue(m)
           \/ \E w \in Workers : CosaDmlIfaceFinalize(w)
           \/ BootInform \/ ThreadUpdateInformMsg
           \/ WanManagerRecords \/ WanManagerTries \/ WanManagerFinalizes \/ UNCHANGED vars
    PROVE  Remembered' /\ Home'
  <1>0. net \in Nets /\ build.platform \in Platforms /\ hal \in BOOLEAN
        /\ ConfigureBridge \in BOOLEAN /\ Threads \subseteq Workers /\ "bus" \in Workers
        /\ \A u \in Workers : job[u] \in Job
        /\ "bus" \notin Threads
    BY ThreadsAssumption DEF Types, ModeTypes, Builds, ConfigureBridge, Workers, Jobs
  <1>1. ASSUME NEW m \in {"auto", "eth", "docsis"}, EthernetWAN_SetParamStringValue(m)
        PROVE  Remembered' /\ Home'
    <2>1. cfg'.mac = cfg.mac
      BY <1>1 DEF EthernetWAN_SetParamStringValue, Types, ModeTypes, EthWanCfg
    <2>2. net'.mac = net.mac
      BY <1>0, <1>1, SequenceMac
      DEF EthernetWAN_SetParamStringValue, CosaDmlEthWanSetEnable, ConfigEthWan, StoreAndReboot,
          Platforms
    <2>3. "mac" \notin damage' => "mac" \notin damage
      BY <1>1 DEF EthernetWAN_SetParamStringValue, CosaDmlEthWanSetEnable, ConfigEthWan,
                  StoreAndReboot, Fault, Unharmed, bounds
    <2>5. CASE build.noreboot
      <3>1. CASE UNCHANGED job
        BY <1>1, <2>1, <2>2, <2>3, <2>5, <3>1, RememberedStays
        DEF EthernetWAN_SetParamStringValue, CosaDmlEthWanSetEnable, ConfigEthWan, Home
      <3>2. ASSUME NEW t \in Threads, At(t, "idle"),
                   job' = [job EXCEPT ![t] = [Idle EXCEPT !.at = "start", !.v = (m = "eth")]]
            PROVE  Remembered' /\ Home'
        <4>1. /\ \A u \in Workers \ {t} : job'[u] = job[u]
              /\ job[t].at \notin Returning
          BY <1>0, <3>2 DEF Types, Jobs, At, Returning
        <4>2. UNCHANGED <<hal, rebooting>>
          BY <1>1, <2>5
          DEF EthernetWAN_SetParamStringValue, CosaDmlEthWanSetEnable, ConfigEthWan
        <4> QED
          BY <1>0, <2>1, <2>2, <2>3, <4>1, <4>2, HomeStays, RememberedStays
      <3> QED
        BY <1>1, <2>5, <3>1, <3>2
        DEF EthernetWAN_SetParamStringValue, CosaDmlEthWanSetEnable, ConfigEthWan
    <2>6. CASE ~build.noreboot
      <3>1. \/ UNCHANGED <<hal, rebooting, job>>
            \/ rebooting' \/ "mac" \in damage'
        BY <1>1, <2>6
        DEF EthernetWAN_SetParamStringValue, CosaDmlEthWanSetEnable, StoreAndReboot, Fault
      <3> QED
        BY <2>1, <2>2, <2>3, <3>1, RememberedStays DEF Home
    <2> QED
      BY <2>5, <2>6, <1>0 DEF Types, Builds
  <1>2. ASSUME NEW w \in Workers, CosaDmlIfaceFinalize(w)
        PROVE  Remembered' /\ Home'
    <2>1. net'.mac = net.mac
      BY <1>0, <1>2, SequenceMac DEF CosaDmlIfaceFinalize
    <2>2. UNCHANGED <<hal, rebooting, cfg, damage>>
      BY <1>2 DEF CosaDmlIfaceFinalize, Unharmed, bounds
    <2>3. \A u \in Workers \ {w} : job'[u] = job[u]
      BY <1>2 DEF CosaDmlIfaceFinalize, Done, Types, Jobs
    <2>4. job[w].at \notin Returning
      BY <1>2 DEF CosaDmlIfaceFinalize, At, Returning
    <2> QED
      BY <2>1, <2>2, <2>3, <2>4, HomeStays, RememberedStays
  <1>3. CASE WanManagerTries \/ WanManagerFinalizes
    <2>1. UNCHANGED <<hal, net, cfg, rebooting, damage>>
      BY <1>3 DEF WanManagerTries, WanManagerFinalizes, mode, Unharmed, bounds
    <2>2. /\ \A u \in Workers \ {"bus"} : job'[u] = job[u]
          /\ job["bus"].at \notin Returning
      BY <1>3 DEF WanManagerTries, WanManagerFinalizes, Types, Jobs, At, Returning
    <2> QED
      BY <1>0, <2>1, <2>2, HomeStays, RememberedStays
  <1>4. CASE BootInform \/ ThreadUpdateInformMsg \/ WanManagerRecords \/ UNCHANGED vars
    <2>1. UNCHANGED <<hal, net, cfg, rebooting, job>>
      BY <1>4 DEF BootInform, BootInformBegins, BootInformName, BootInformRest,
                  ThreadUpdateInformMsg, WanManagerRecords, mode, vars
    <2>2. "mac" \notin damage' => "mac" \notin damage
      BY <1>4 DEF BootInform, BootInformBegins, BootInformName, BootInformRest,
                  ThreadUpdateInformMsg, WanManagerRecords, vars, Fault, Told, Unharmed, bounds
    <2> QED
      BY <2>1, <2>2, RememberedStays DEF Home
  <1> QED
    BY <1>1, <1>2, <1>3, <1>4

\* A start with the port's own address, or after the damage has been noted.
LEMMA StartBringsHome ==
    ASSUME hal \in BOOLEAN, build \in Builds, NEW n \in Nets, n.mac = "own"
    PROVE  /\ StartCfg(n).mac # "wan"
           /\ StartNet(n).mac = "wan" => StartCfg(n).mac = "own"
           /\ ~hal => StartNet(n).mac = "own"
  BY SequenceMac DEF StartCfg, StartNet, Builds

LEMMA RestartBringsHome ==
    ASSUME Types, AgentRestarts \/ DeviceReboots
    PROVE  Remembered' /\ Home'
  <1>0. net \in Nets /\ net.mac \in {"own", "wan"} /\ hal \in BOOLEAN /\ build \in Builds
    BY DEF Types, ModeTypes, Nets
  <1>1. CASE AgentRestarts
    <2>1. CASE net.mac = "wan"
      BY <1>1, <2>1 DEF AgentRestarts, Remembered, Home
    <2>2. CASE net.mac = "own"
      BY <1>0, <1>1, <2>2, StartBringsHome DEF AgentRestarts, Restart, Remembered, Home
    <2> QED
      BY <1>0, <2>1, <2>2
  <1>2. CASE DeviceReboots
    <2>1. BootNet(build.platform, hal) \in Nets /\ BootNet(build.platform, hal).mac = "own"
      BY <1>0, BootTypes DEF Builds, BootNet
    <2> QED
      BY <1>0, <1>2, <2>1, StartBringsHome DEF DeviceReboots, Restart, Remembered, Home
  <1> QED
    BY <1>1, <1>2

\* Back in the DOCSIS mode the LAN port has its own address again, also after
\* changes that failed and were rolled back.
THEOREM AddressComesBack ==
    ASSUME Patient
    PROVE  Spec => []PortHasItsAddress
  <1>1. Init => Types /\ Good /\ Remembered /\ Home
    <2> SUFFICES ASSUME Init
                 PROVE  Remembered /\ Home
      BY InitTypes, InitIsGood
    <2>1. Types
      BY InitTypes
    <2>2. BootNet(build.platform, hal) \in Nets /\ BootNet(build.platform, hal).mac = "own"
      BY <2>1, BootTypes DEF Types, ModeTypes, Builds, BootNet
    <2> QED
      BY <2>1, <2>2, StartBringsHome DEF Init, Types, ModeTypes, Remembered, Home
  <1>2. Types /\ Good /\ Remembered /\ Home /\ [Next]_vars => (Types /\ Good /\ Remembered /\ Home)'
    <2> SUFFICES ASSUME Types, Good, Remembered, Home, [Next]_vars
                 PROVE  Remembered' /\ Home'
      BY NextTypes, NextIsGood
    <2>1. Threads \subseteq Workers /\ "bus" \in Workers
      BY DEF Workers
    <2>2. CASE BusStep
      BY <2>1, <2>2, ConfigureBringsHome, AsideBringsHome DEF BusStep
    <2>3. ASSUME NEW t \in Threads, ThreadStep(t)
          PROVE  Remembered' /\ Home'
      BY <2>1, <2>3, ConfigureBringsHome, ThreadBringsHome, AsideBringsHome DEF ThreadStep
    <2> QED
      BY <2>2, <2>3, AsideBringsHome, RestartBringsHome DEF Next
  <1>3. Types /\ Home => PortHasItsAddress
    BY DEF Home, PortHasItsAddress, Settled, Resting, At, Returning, Types, ModeTypes, Nets
  <1> QED
    BY <1>1, <1>2, <1>3, PTL DEF Spec


-----------------------------------------------------------------------------
(* The selected mode                                                       *)

NoThread == \A t \in Threads : ~Active(t)

\* Only in the mode "auto" does the WAN manager try modes.
TriedInAuto == Active("bus") \/ wm.trial => sys.sel = "auto"

\* A WAN manager that stays disabled after a change has been noted as damage.
DownIsNoted ==
    ~wm.enable =>
        /\ NoThread => {"mode", "disabled"} \subseteq damage
        /\ \A t \in Threads : job[t].at = "end" => {"mode", "disabled"} \subseteq damage

\* What the WAN manager has recorded; it has recorded a mode before any thread
\* has run.
Known == /\ sys.cur = sys.last /\ sys.last # "auto"
         /\ sys.last = "unknown" => wm.enable /\ NoThread

\* Where a change leads: from the mode recorded last to the selected one, and
\* after a rollback back to it.
Aim(j) ==
    /\ ~j.rolled =>
         /\ sys.last = ModeOf(~j.v) /\ sys.sel = ModeOf(j.v)
         /\ j.at \notin {"start", "take", "hal", "back"} => hal = j.v
         /\ "mode" \notin damage => cfg.prev \in {"auto", ModeOf(~j.v)}
    /\ j.rolled =>
         /\ sys.last = ModeOf(j.v) /\ j.at \notin {"start", "back"}
         /\ "mode" \notin damage =>
              /\ sys.sel \in {"auto", ModeOf(j.v)}
              /\ j.at \notin {"take", "hal"} => hal = j.v

Aimed == \A t \in Threads : Active(t) => Aim(job[t])
ServedAtRest == NoThread /\ "mode" \notin damage => sys.sel \in {"auto", ModeOf(hal)}

Serving == TriedInAuto /\ DownIsNoted /\ Known /\ Aimed /\ ServedAtRest

\* A step of a thread that goes on.
LEMMA ThreadServes ==
    ASSUME Types, Good, Serving, NEW t \in Threads, Active(t), \A u \in Workers \ {t} : job'[u] = job[u],
           Active(t)', Aim(job[t])', wm'.trial = wm.trial,
           sys'.cur = sys.cur, sys'.last = sys.last,
           job'[t].at = "end" /\ ~wm'.enable => {"mode", "disabled"} \subseteq damage'
    PROVE  Serving'
  <1>1. Threads \subseteq Workers /\ "bus" \in Workers /\ "bus" # t
    BY ThreadsAssumption DEF Workers
  <1>2. \A u \in Workers \ {t} : ~Active(u)'
    BY OthersRest, <1>1 DEF Good, Active
  <1>3. ~wm.trial
    BY DEF Good, Solo
  <1>4. TriedInAuto'
    BY <1>1, <1>2, <1>3 DEF TriedInAuto
  <1>5. DownIsNoted'
    BY <1>1, <1>2 DEF DownIsNoted, NoThread, Active
  <1>6. Known'
    BY DEF Serving, Known, NoThread
  <1>7. Aimed' /\ ServedAtRest'
    BY <1>1, <1>2 DEF Aimed, ServedAtRest, NoThread
  <1> QED
    BY <1>4, <1>5, <1>6, <1>7 DEF Serving

\* A step in the mode "auto" while no thread runs.
LEMMA AutoServes ==
    ASSUME Serving, NoThread, NoThread', sys.sel = "auto", sys'.sel = "auto",
           sys'.cur = sys.cur, sys'.last = sys.last, wm'.enable = wm.enable,
           damage \subseteq damage'
    PROVE  Serving'
  BY DEF Serving, TriedInAuto, DownIsNoted, Known, Aimed, ServedAtRest, NoThread, Active

LEMMA ConfigureServes ==
    ASSUME Types, Good, Serving, NEW w \in Workers,
           \/ TakePort(w) \/ EthwanEnableWithoutReboot(w) \/ MarkFile(w) \/ CommitFlag(w)
           \/ CosaDmlConfigureEthWan(w)
    PROVE  Serving'
  <1>0. {"hal", "file", "flag", "late", "fin", "back", "idle"} \subseteq Steps
    BY DEF Steps
  <1>1. /\ Active(w) /\ wm' = wm /\ cfg'.prev = cfg.prev
        /\ sys'.sel = sys.sel /\ sys'.cur = sys.cur /\ sys'.last = sys.last
    BY DEF TakePort, EthwanEnableWithoutReboot, MarkFile, CommitFlag, CosaDmlConfigureEthWan,
           Active, At, Types, ModeTypes, Syscfg, EthWanCfg
  <1>2. damage \subseteq damage'
    BY DEF TakePort, EthwanEnableWithoutReboot, MarkFile, CommitFlag, CosaDmlConfigureEthWan,
           Failed, Fault, Unharmed, bounds
  <1>3. \A u \in Workers \ {w} : job'[u] = job[u]
    <2>1. \E s \in Steps : To(w, s) \/ Done(w)
      BY <1>0 DEF TakePort, EthwanEnableWithoutReboot, MarkFile, CommitFlag,
                  CosaDmlConfigureEthWan, Failed
    <2> QED
      BY <2>1, JobAfter
  <1>4. CASE w = "bus"
    <2>1. \A t \in Threads : t \in Workers \ {w}
      BY <1>4, ThreadsAssumption DEF Workers
    <2>2. NoThread
      BY <1>1, <2>1, OthersRest DEF NoThread, Good
    <2>3. NoThread'
      BY <1>3, <2>1, <2>2 DEF NoThread, Active
    <2>4. sys.sel = "auto"
      BY <1>1, <1>4 DEF Serving, TriedInAuto
    <2> QED
      BY <1>1, <1>2, <2>2, <2>3, <2>4, AutoServes
  <1>5. CASE w # "bus"
    <2>1. w \in Threads /\ Aim(job[w])
      BY <1>1, <1>5 DEF Workers, Serving, Aimed
    <2>2. job'[w].v = job[w].v /\ job'[w].rolled = job[w].rolled /\ Active(w)'
      <3>1. \E s \in Steps \ {"idle"} : To(w, s)
        BY <1>0, <1>5 DEF TakePort, EthwanEnableWithoutReboot, MarkFile, CommitFlag,
                          CosaDmlConfigureEthWan, Failed
      <3> QED
        BY <3>1, JobAfter DEF Active
    <2>3. ASSUME NEW harm, Failed(w, harm), hal' = hal
          PROVE  Aim(job[w])' /\ job'[w].at # "end"
      <3>1. CASE job[w].rolled
        <4>1. job'[w].at = "fin" /\ "mode" \in damage'
          BY <1>0, <1>5, <2>3, <3>1, JobAfter DEF Failed, Fault
        <4> QED
          BY <1>1, <2>1, <2>2, <3>1, <4>1 DEF Aim
      <3>2. CASE ~job[w].rolled
        <4>1. job'[w].at = "back"
          BY <1>0, <1>5, <2>3, <3>2, JobAfter DEF Failed
        <4> QED
          BY <1>1, <1>2, <2>1, <2>2, <3>2, <4>1 DEF Aim
      <3> QED
        BY <3>1, <3>2
    <2>4. Aim(job[w])' /\ job'[w].at # "end"
      <3>1. CASE TakePort(w)
        <4>1. job'[w].at = "hal" /\ hal' = hal /\ job[w].at = "take"
          BY <1>0, <3>1, JobAfter DEF TakePort, At
        <4> QED
          BY <1>1, <1>2, <2>1, <2>2, <4>1 DEF Aim
      <3>2. CASE EthwanEnableWithoutReboot(w)
        <4>1. CASE hal' = job[w].v /\ To(w, "file")
          <5>1. job'[w].at = "file"
            BY <1>0, <4>1, JobAfter
          <5> QED
            BY <1>1, <1>2, <2>1, <2>2, <4>1, <5>1 DEF Aim
        <4> QED
          BY <2>3, <3>2, <4>1 DEF EthwanEnableWithoutReboot
      <3>3. CASE MarkFile(w)
        <4>1. job'[w].at = "flag" /\ hal' = hal /\ job[w].at = "file"
          BY <1>0, <3>3, JobAfter DEF MarkFile, At
        <4> QED
          BY <1>1, <1>2, <2>1, <2>2, <4>1 DEF Aim
      <3>4. CASE CommitFlag(w)
        <4>1. CASE To(w, "late")
          <5>1. job'[w].at = "late" /\ hal' = hal /\ job[w].at = "flag"
            BY <1>0, <3>4, <4>1, JobAfter DEF CommitFlag, At
          <5> QED
            BY <1>1, <1>2, <2>1, <2>2, <5>1 DEF Aim
        <4> QED
          BY <2>3, <3>4, <4>1 DEF CommitFlag
      <3>5. CASE CosaDmlConfigureEthWan(w)
        <4>1. job'[w].at = "fin" /\ hal' = hal /\ job[w].at = "late"
          BY <1>0, <1>5, <3>5, JobAfter DEF CosaDmlConfigureEthWan, At
        <4> QED
          BY <1>1, <1>2, <2>1, <2>2, <4>1 DEF Aim
      <3> QED
        BY <3>1, <3>2, <3>3, <3>4, <3>5
    <2> QED
      BY <1>1, <1>3, <2>1, <2>2, <2>4, ThreadServes
  <1> QED
    BY <1>4, <1>5

LEMMA ThreadStepServes ==
    ASSUME Types, Good, Serving, NEW t \in Threads,
           \/ ThreadConfigEthWan(t) \/ RollBack(t) \/ CosaDmlIfaceFinalize(t) \/ WriteWanNames(t)
           \/ ResumeWanManager(t) \/ EndConfigEthWan(t)
    PROVE  Serving'
  <1>0. {"take", "hal", "names", "resume", "end", "idle"} \subseteq Steps
        /\ t \in Workers /\ t # "bus" /\ job[t] \in Job /\ job \in Jobs
    BY ThreadsAssumption DEF Steps, Workers, Types, Jobs
  <1>1. /\ Active(t) /\ Aim(job[t]) /\ hal' = hal /\ cfg'.prev = cfg.prev
        /\ sys'.cur = sys.cur /\ sys'.last = sys.last /\ wm'.trial = wm.trial
    BY DEF ThreadConfigEthWan, RollBack, CosaDmlIfaceFinalize, WriteWanNames, ResumeWanManager,
           EndConfigEthWan, Active, At, mode, Types, ModeTypes, InformTypes, Syscfg, EthWanCfg,
           WanManagers, Serving, Aimed
  <1>2. CASE ThreadConfigEthWan(t)
    <2>1. First(job[t].v) \in {"take", "hal"}
      BY DEF First
    <2>2. /\ \A u \in Workers \ {t} : job'[u] = job[u]
          /\ job'[t].at \in {"take", "hal"} /\ job'[t].v = job[t].v /\ job'[t].rolled = job[t].rolled
      BY <1>0, <1>2, <2>1, JobAfter DEF ThreadConfigEthWan
    <2>3. sys' = sys /\ damage' = damage /\ job[t].at = "start"
      BY <1>2 DEF ThreadConfigEthWan, At, Fault, Unharmed, bounds
    <2>4. Aim(job[t])'
      BY <1>1, <2>2, <2>3 DEF Aim
    <2> QED
      BY <1>1, <2>2, <2>4, ThreadServes DEF Active
  <1>3. CASE RollBack(t)
    <2>1. job' = [job EXCEPT ![t] = [Idle EXCEPT !.at = First(~job[t].v), !.v = ~job[t].v,
                                                 !.rolled = TRUE]]
      BY <1>3 DEF RollBack
    <2>2. /\ \A u \in Workers \ {t} : job'[u] = job[u]
          /\ job'[t].at \in {"take", "hal"} /\ job'[t].v = ~job[t].v /\ job'[t].rolled
      BY <1>0, <2>1 DEF Idle, Jobs, First
    <2>3. ~job[t].rolled /\ job[t].v \in BOOLEAN
      BY <1>0, <1>1, <1>3 DEF RollBack, At, Aim, Job
    <2>4. "mode" \notin damage' => sys'.sel = cfg.prev /\ "mode" \notin damage
      BY <1>3 DEF RollBack, Fault, Unharmed, bounds, Types, ModeTypes, Syscfg
    <2>5. Aim(job[t])'
      BY <1>1, <2>2, <2>3, <2>4 DEF Aim
    <2> QED
      BY <1>1, <2>2, <2>5, ThreadServes DEF Active
  <1>4. ASSUME \/ CosaDmlIfaceFinalize(t) \/ WriteWanNames(t) \/ ResumeWanManager(t)
        PROVE  Serving'
    <2>1. /\ \A u \in Workers \ {t} : job'[u] = job[u]
          /\ job[t].at \in Ends
          /\ job'[t].at \in {"names", "resume", "end"}
          /\ job'[t].at = "end" => ResumeWanManager(t)
          /\ job'[t].v = job[t].v /\ job'[t].rolled = job[t].rolled
      <3>1. CASE CosaDmlIfaceFinalize(t)
        <4>1. job' = [job EXCEPT ![t] = [@ EXCEPT !.at = "names", !.eth = hal]]
              /\ job[t].at = "fin"
          BY <1>0, <3>1 DEF CosaDmlIfaceFinalize, At
        <4>2. job'[t] = [job[t] EXCEPT !.at = "names", !.eth = hal]
              /\ \A u \in Workers \ {t} : job'[u] = job[u]
          BY <1>0, <4>1 DEF Jobs
        <4>3. /\ job'[t].at = "names" /\ job'[t].v = job[t].v /\ job'[t].rolled = job[t].rolled
          BY <1>0, <4>2 DEF Job
        <4> QED
          BY <4>1, <4>2, <4>3 DEF Ends
      <3>2. CASE WriteWanNames(t)
        BY <1>0, <3>2, JobAfter DEF WriteWanNames, At, Ends
      <3>3. CASE ResumeWanManager(t)
        BY <1>0, <3>3, JobAfter DEF ResumeWanManager, At, Ends
      <3> QED
        BY <1>4, <3>1, <3>2, <3>3
    <2>2. sys' = sys /\ ("mode" \notin damage' => "mode" \notin damage)
      BY <1>4 DEF CosaDmlIfaceFinalize, WriteWanNames, ResumeWanManager, mode, Fault, Told, Unharmed,
                  bounds
    <2>3. Aim(job[t])'
      BY <1>1, <2>1, <2>2 DEF Aim, Ends
    <2>4. job'[t].at = "end" /\ ~wm'.enable => {"mode", "disabled"} \subseteq damage'
      BY <2>1 DEF ResumeWanManager, Fault, Types, InformTypes, WanManagers
    <2> QED
      BY <1>1, <2>1, <2>3, <2>4, ThreadServes DEF Active
  <1>5. CASE EndConfigEthWan(t)
    <2>1. /\ \A u \in Workers \ {t} : job'[u] = job[u]
          /\ job'[t].at = "idle" /\ job[t].at = "end"
      BY <1>0, <1>5, JobAfter DEF EndConfigEthWan, At
    <2>2. \A u \in Workers : ~Active(u)'
      BY <1>0, <1>1, <2>1, OthersRest DEF Good, Active
    <2>3. NoThread' /\ ~Active("bus")' /\ ~wm'.trial
      BY <1>1, <2>2 DEF NoThread, Workers, Good, Solo
    <2>4. /\ wm' = wm /\ sys' = sys
          /\ "disabled" \in damage => damage \ {"flags"} \subseteq damage'
          /\ "mode" \notin damage' => "mode" \notin damage \/ ~job[t].rolled
      BY <1>5 DEF EndConfigEthWan
    <2>5. DownIsNoted'
      BY <2>1, <2>2, <2>4 DEF Serving, DownIsNoted, NoThread, Active, Workers
    <2>6. "mode" \notin damage' => sys.sel \in {"auto", ModeOf(hal)}
      BY <1>1, <2>1, <2>4 DEF Aim
    <2>7. Known'
      BY <2>3, <2>4 DEF Serving, Known
    <2> QED
      BY <1>1, <2>3, <2>4, <2>5, <2>6, <2>7
      DEF Serving, TriedInAuto, Aimed, ServedAtRest, NoThread
  <1> QED
    BY <1>2, <1>3, <1>4, <1>5

\* A step that mends nothing but the name.
LEMMA StillServes ==
    ASSUME Serving, UNCHANGED <<hal, job>>, wm'.enable = wm.enable, wm'.trial = wm.trial,
           sys'.sel = sys.sel, sys'.cur = sys.cur, sys'.last = sys.last, cfg'.prev = cfg.prev,
           damage \ {"name", "stale"} \subseteq damage'
    PROVE  Serving'
  BY DEF Serving, TriedInAuto, DownIsNoted, Known, Aimed, Aim, ServedAtRest, NoThread, Active

\* A step from rest to rest.
LEMMA RestServes ==
    ASSUME Serving, \A w \in Workers : ~Active(w)', ~wm'.trial,
           sys'.cur = sys'.last, sys'.last # "auto", sys'.last = "unknown" => wm'.enable,
           ~wm'.enable => {"mode", "disabled"} \subseteq damage',
           "mode" \notin damage' => sys'.sel \in {"auto", ModeOf(hal')}
    PROVE  Serving'
  <1>1. Threads \subseteq Workers /\ "bus" \in Workers
    BY DEF Workers
  <1>2. NoThread' /\ ~Active("bus")'
    BY <1>1 DEF NoThread
  <1>3. \A t \in Threads : ~Active(t)'
    BY <1>1
  <1> QED
    BY <1>2, <1>3 DEF Serving, TriedInAuto, DownIsNoted, Known, Aimed, ServedAtRest

LEMMA WriteServes ==
    ASSUME Patient, Types, Good, Serving, NEW m \in {"auto", "eth", "docsis"},
           EthernetWAN_SetParamStringValue(m)
    PROVE  Serving'
  <1> DEFINE stored == [sys EXCEPT !.sel = m]
  <1>1. /\ Resting /\ AllRest /\ ~wm.trial /\ wm' = wm /\ ~Active("bus")
        /\ Recorded \/ ~wm.enable
        /\ cfg'.prev = sys.sel
    BY RestingRests
    DEF EthernetWAN_SetParamStringValue, MayWrite, Resting, Active, At, Types, ModeTypes, EthWanCfg
  <1>2. /\ stored.sel = m /\ stored.cur = sys.cur /\ stored.last = sys.last
        /\ sys'.cur = sys.cur /\ sys'.last = sys.last
    BY DEF EthernetWAN_SetParamStringValue, CosaDmlEthWanSetEnable, ConfigEthWan, StoreAndReboot,
           Types, ModeTypes, Syscfg
  <1>3. damage \subseteq damage'
    BY DEF EthernetWAN_SetParamStringValue, CosaDmlEthWanSetEnable, ConfigEthWan, StoreAndReboot,
           Fault, Unharmed, bounds
  <1>4. Threads \subseteq Workers /\ "bus" \notin Threads
    BY ThreadsAssumption DEF Workers
  <1>5. NoThread
    BY <1>1, <1>4 DEF AllRest, NoThread
  <1>6. /\ "mode" \notin damage => wm.enable /\ sys.last = ModeOf(hal)
              /\ sys.cur = ModeOf(hal) /\ sys.sel \in {"auto", ModeOf(hal)}
        /\ ~wm.enable => {"mode", "disabled"} \subseteq damage
        /\ sys.last # "unknown" /\ sys.last # "auto" /\ sys.cur = sys.last
        /\ hal \in BOOLEAN /\ sys.last \in Modes
    BY <1>1, <1>5
    DEF Serving, DownIsNoted, Known, ServedAtRest, Recorded, ModeOf, Types, ModeTypes, Syscfg
  <1> HIDE DEF stored
  <1>7. ASSUME UNCHANGED job, "mode" \notin damage' => sys'.sel \in {"auto", ModeOf(hal')}
        PROVE  Serving'
    <2>1. \A w \in Workers : ~Active(w)'
      BY <1>1, <1>7 DEF AllRest, Active
    <2> QED
      BY <1>1, <1>2, <1>3, <1>6, <1>7, <2>1, RestServes
  <1>8. CASE Fault({}) /\ UNCHANGED sys /\ UNCHANGED <<hal, file, net, job, rebooting>>
    BY <1>3, <1>6, <1>7, <1>8
  <1>9. CASE /\ m \in {sys.cur, "auto"} /\ sys' = stored
             /\ UNCHANGED <<hal, file, net, job, rebooting>>
    BY <1>2, <1>3, <1>6, <1>7, <1>9
  <1>10. CASE /\ m \notin {sys.cur, "auto"} /\ build.noreboot
              /\ ConfigEthWan(m = "eth") /\ sys' = stored
    <2>1. hal' = hal
      BY <1>10 DEF ConfigEthWan
    <2>2. CASE Fault({"mode"}) /\ UNCHANGED job
      BY <1>7, <2>2 DEF Fault
    <2>3. ASSUME NEW t \in Threads, Unharmed,
                 job' = [job EXCEPT ![t] = [Idle EXCEPT !.at = "start", !.v = (m = "eth")]]
          PROVE  Serving'
      <3>1. /\ \A u \in Workers \ {t} : ~Active(u)'
            /\ job'[t].at = "start" /\ job'[t].v = (m = "eth") /\ ~job'[t].rolled
        BY <1>1, <1>4, <2>3 DEF AllRest, Active, Types, Jobs, Idle
      <3>2. sys.last = ModeOf(~(m = "eth")) /\ m = ModeOf(m = "eth")
        BY <1>6, <1>10 DEF ModeOf, Modes
      <3>3. "mode" \notin damage' => cfg'.prev \in {"auto", ModeOf(~(m = "eth"))}
        BY <1>1, <1>3, <1>6, <3>2
      <3>4. Aim(job[t])'
        BY <1>2, <1>10, <3>1, <3>2, <3>3 DEF Aim
      <3>5. TriedInAuto' /\ DownIsNoted'
        BY <1>1, <1>4, <3>1 DEF TriedInAuto, DownIsNoted, NoThread, Active, Workers
      <3>6. Known'
        BY <1>2, <1>6 DEF Known
      <3>7. Aimed' /\ ServedAtRest'
        BY <1>4, <3>1, <3>4 DEF Aimed, ServedAtRest, NoThread, Active
      <3> QED
        BY <3>5, <3>6, <3>7 DEF Serving
    <2> QED
      BY <1>10, <2>2, <2>3 DEF ConfigEthWan
  <1>11. CASE m \notin {sys.cur, "auto"} /\ StoreAndReboot(m = "eth", stored)
    <2>1. m = ModeOf(m = "eth") /\ [stored EXCEPT !.eth = (m = "eth")].sel = m
      BY <1>2, <1>11 DEF ModeOf, stored, Types, ModeTypes, Syscfg
    <2>2. "mode" \notin damage' => sys'.sel = ModeOf(hal')
      BY <1>11, <2>1 DEF StoreAndReboot, Fault
    <2> QED
      BY <1>7, <1>11, <2>2 DEF StoreAndReboot
  <1> QED
    BY <1>8, <1>9, <1>10, <1>11
    DEF EthernetWAN_SetParamStringValue, CosaDmlEthWanSetEnable, stored

LEMMA WanManagerServes ==
    ASSUME Types, Good, Serving,
           WanManagerTries \/ WanManagerFinalizes \/ CosaDmlIfaceFinalize("bus")
    PROVE  Serving'
  <1>1. \A t \in Threads : t \in Workers /\ t # "bus"
    BY ThreadsAssumption DEF Workers
  <1>2. NoThread
    <2>1. CASE wm.trial
      BY <2>1 DEF NoThread, Good, Solo
    <2>2. CASE Resting
      BY <1>1, <2>2, RestingRests DEF NoThread, AllRest
    <2>3. CASE CosaDmlIfaceFinalize("bus")
      <3>1. Active("bus") /\ "bus" \in Workers
        BY <2>3 DEF CosaDmlIfaceFinalize, At, Active, Workers
      <3> QED
        BY <1>1, <3>1, OthersRest DEF NoThread, Good
    <2> QED
      BY <2>1, <2>2, <2>3 DEF WanManagerTries, WanManagerFinalizes
  <1>3. \A t \in Threads : job'[t] = job[t]
    BY <1>1 DEF WanManagerTries, WanManagerFinalizes, CosaDmlIfaceFinalize, Done, Types, Jobs
  <1>4. NoThread'
    BY <1>2, <1>3 DEF NoThread, Active
  <1>5. sys.sel = "auto" /\ sys' = sys /\ wm'.enable = wm.enable /\ damage' = damage
    BY DEF WanManagerTries, WanManagerFinalizes, CosaDmlIfaceFinalize, mode, Unharmed, bounds,
           Types, InformTypes, WanManagers, Serving, TriedInAuto, Active, At
  <1> QED
    BY <1>2, <1>4, <1>5, AutoServes

LEMMA AsideServes ==
    ASSUME Types, Good, Serving, BootInform \/ ThreadUpdateInformMsg \/ WanManagerRecords \/ UNCHANGED vars
    PROVE  Serving'
  <1>1. CASE WanManagerRecords
    <2>1. /\ wm.enable /\ ~wm.trial /\ AllRest
          /\ sys'.sel = sys.sel /\ sys'.cur = ModeOf(hal) /\ sys'.last = ModeOf(hal)
          /\ UNCHANGED <<hal, job, wm, damage>>
      BY <1>1, RestingRests
      DEF WanManagerRecords, Resting, Unharmed, bounds, Types, ModeTypes, Syscfg
    <2>2. NoThread
      BY <2>1 DEF AllRest, NoThread, Workers
    <2>3. ModeOf(hal) # "auto" /\ ModeOf(hal) # "unknown"
      BY DEF ModeOf
    <2>4. \A w \in Workers : ~Active(w)'
      BY <2>1 DEF AllRest, Active
    <2> QED
      BY <2>1, <2>2, <2>3, <2>4, RestServes DEF Serving, ServedAtRest
  <1>2. CASE BootInform \/ ThreadUpdateInformMsg \/ UNCHANGED vars
    <2>1. UNCHANGED <<hal, job, sys, cfg>> /\ wm'.enable = wm.enable /\ wm'.trial = wm.trial
      BY <1>2 DEF BootInform, BootInformBegins, BootInformName, BootInformRest,
                  ThreadUpdateInformMsg, mode, vars, Types, InformTypes, WanManagers
    <2>2. damage \ {"name", "stale"} \subseteq damage'
      BY <1>2 DEF BootInform, BootInformBegins, BootInformName, BootInformRest,
                  ThreadUpdateInformMsg, vars, Fault, Told, Unharmed, bounds
    <2> QED
      BY <2>1, <2>2, StillServes
  <1> QED
    BY <1>1, <1>2

LEMMA RestartServes ==
    ASSUME Types, Good, Serving, AgentRestarts \/ DeviceReboots
    PROVE  Serving'
  <1>1. /\ UNCHANGED <<hal, sys>> /\ job' = [w \in Workers |-> Idle]
    <2>1. ASSUME NEW n, Restart(n)
          PROVE  UNCHANGED <<hal, sys>> /\ job' = [w \in Workers |-> Idle]
      BY <2>1 DEF Restart
    <2> QED
      BY <2>1 DEF AgentRestarts, DeviceReboots
  <1>2. \A w \in Workers : ~Active(w)'
    BY <1>1 DEF Active, Idle
  <1>3. "mode" \notin damage' => "mode" \notin damage /\ NoThread
    BY DEF AgentRestarts, DeviceReboots, Torn, At, NoThread, Active, Workers
  <1>4. /\ ~wm'.trial
        /\ sys.last = "unknown" => wm'.enable
        /\ ~wm'.enable => {"mode", "disabled"} \subseteq damage'
    <2>1. CASE AgentRestarts
      <3>1. wm'.enable = wm.enable /\ ~wm'.trial
        BY <2>1 DEF AgentRestarts, Types, InformTypes, WanManagers
      <3>2. ~wm.enable /\ "mode" \notin damage' => FALSE
        BY <1>3 DEF Serving, DownIsNoted
      <3> QED
        BY <2>1, <3>1, <3>2 DEF AgentRestarts, Serving, Known
    <2>2. CASE DeviceReboots
      BY <2>2 DEF DeviceReboots
    <2> QED
      BY <2>1, <2>2
  <1> QED
    BY <1>1, <1>2, <1>3, <1>4, RestServes DEF Serving, Known, ServedAtRest

LEMMA NextServes == Patient /\ Types /\ Good /\ Serving /\ [Next]_vars => Serving'
  <1> SUFFICES ASSUME Patient, Types, Good, Serving, [Next]_vars
               PROVE  Serving'
    OBVIOUS
  <1>1. Threads \subseteq Workers /\ "bus" \in Workers
    BY DEF Workers
  <1>2. CASE BusStep
    BY <1>1, <1>2, ConfigureServes, WanManagerServes DEF BusStep
  <1>3. ASSUME NEW t \in Threads, ThreadStep(t)
        PROVE  Serving'
    BY <1>1, <1>3, ConfigureServes, ThreadStepServes DEF ThreadStep
  <1>4. CASE \E m \in {"auto", "eth", "docsis"} : EthernetWAN_SetParamStringValue(m)
    BY <1>4, WriteServes
  <1>5. CASE BootInform \/ ThreadUpdateInformMsg \/ WanManagerRecords \/ UNCHANGED vars
    BY <1>5, AsideServes
  <1>6. CASE WanManagerTries \/ WanManagerFinalizes
    BY <1>6, WanManagerServes
  <1>7. CASE AgentRestarts \/ DeviceReboots
    BY <1>7, RestartServes
  <1> QED
    BY <1>2, <1>3, <1>4, <1>5, <1>6, <1>7 DEF Next

LEMMA InitServes == Init => Serving
  <1> SUFFICES ASSUME Init
               PROVE  Serving
    OBVIOUS
  <1>1. \A w \in Workers : ~Active(w)
    BY DEF Init, Active, Idle
  <1>2. Threads \subseteq Workers /\ "bus" \in Workers
    BY DEF Workers
  <1>3. wm.enable /\ ~wm.trial
    BY DEF Init
  <1>4. PICK sel \in {"auto", ModeOf(hal)}, known \in {ModeOf(hal), "unknown"} :
            sys = [eth |-> hal, sel |-> sel, cur |-> known, last |-> known]
    BY DEF Init
  <1>5. sys.cur = sys.last /\ sys.last # "auto" /\ sys.sel \in {"auto", ModeOf(hal)}
    BY <1>4 DEF ModeOf
  <1>6. NoThread
    BY <1>1, <1>2 DEF NoThread
  <1> QED
    BY <1>1, <1>2, <1>3, <1>5, <1>6
    DEF Serving, TriedInAuto, DownIsNoted, Known, Aimed, ServedAtRest

\* The selected mode is the one the device is in, whatever is written while it
\* is at rest, however often changes fail or are rolled back.
THEOREM SelectionIsServed ==
    ASSUME Patient
    PROVE  Spec => []SelectedIsServed
  <1>1. Init => Types /\ Good /\ Serving
    BY InitTypes, InitIsGood, InitServes
  <1>2. Types /\ Good /\ Serving /\ [Next]_vars => (Types /\ Good /\ Serving)'
    BY NextTypes, NextIsGood, NextServes
  <1>3. Serving => SelectedIsServed
    BY RestingRests
    DEF Serving, ServedAtRest, NoThread, AllRest, Workers, SelectedIsServed, Settled
  <1> QED
    BY <1>1, <1>2, <1>3, PTL DEF Spec


-----------------------------------------------------------------------------
(* The layouts of the bridges                                              *)

\* The devices, each with its name and its bridge: n.name and n.in in full.
Looks(n, dn, mn, bn, pi, di, mi) ==
    /\ n.name["port"] = "port" /\ n.name["docsis"] = dn
    /\ n.name["mta"] = mn /\ n.name["bridge"] = bn
    /\ n.in["port"] = pi /\ n.in["docsis"] = di /\ n.in["mta"] = mi /\ n.in["bridge"] = ""

VoiceName(p) == IF p = "puma7" THEN "dpdmta1" ELSE ""

\* All the layouts there ever are: the WAN bridge is up or not, and the port
\* is somewhere.
Shaped(n, p, up, where) ==
    /\ where = "wan" => up
    /\ IF up
       THEN Looks(n, Parked(p), VoiceName(p), WAN_IF_NAME_PRIMARY, where,
                  IF p = "bcm" THEN "wan" ELSE "", IF p = "puma7" THEN "wan" ELSE "")
       ELSE Looks(n, WAN_IF_NAME_PRIMARY, VoiceName(p), "", where, "", "")

Wheres == {"", "lan", "wan"}

\* What each command does to the devices as they look.
LEMMA RenameLooks ==
    ASSUME NEW n \in Nets, NEW dn, NEW mn, NEW bn, NEW pi, NEW di, NEW mi,
           Looks(n, dn, mn, bn, pi, di, mi), NEW x, NEW y
    PROVE  /\ y \in {"port", dn, mn, bn} => Rename(n, x, y) = n
           /\ y \notin {"port", dn, mn, bn} /\ x # "port" =>
                Looks(Rename(n, x, y), IF dn = x THEN y ELSE dn, IF mn = x THEN y ELSE mn,
                      IF bn = x THEN y ELSE bn, pi, di, mi)
  <1> USE DEF Looks, Named, Nets, Dev
  <1>1. y \in {"port", dn, mn, bn} => Rename(n, x, y) = n
    BY DEF Rename
  <1>2. ASSUME y \notin {"port", dn, mn, bn}, x # "port"
        PROVE  Looks(Rename(n, x, y), IF dn = x THEN y ELSE dn, IF mn = x THEN y ELSE mn,
                     IF bn = x THEN y ELSE bn, pi, di, mi)
    <2>1. Named(n, y) = {}
      BY <1>2
    <2> QED
      BY <1>2, <2>1 DEF Rename
  <1> QED
    BY <1>1, <1>2

LEMMA BridgeLooks ==
    ASSUME NEW n \in Nets, NEW dn, NEW mn, NEW bn, NEW pi, NEW di, NEW mi,
           Looks(n, dn, mn, bn, pi, di, mi)
    PROVE  /\ bn # "" => AddBr(n) = n
           /\ bn = "" /\ WAN_IF_NAME_PRIMARY \notin {dn, mn} =>
                Looks(AddBr(n), dn, mn, WAN_IF_NAME_PRIMARY, pi, di, mi)
           /\ bn # WAN_IF_NAME_PRIMARY => DelBr(n) = n
           /\ bn = WAN_IF_NAME_PRIMARY =>
                Looks(DelBr(n), dn, mn, "", IF pi = "wan" THEN "" ELSE pi,
                      IF di = "wan" THEN "" ELSE di, IF mi = "wan" THEN "" ELSE mi)
  <1> USE DEF Looks, Named, Nets, Dev
  <1>1. bn # "" => AddBr(n) = n
    BY DEF AddBr
  <1>2. bn = "" /\ WAN_IF_NAME_PRIMARY \notin {dn, mn} =>
                Looks(AddBr(n), dn, mn, WAN_IF_NAME_PRIMARY, pi, di, mi)
    BY DEF AddBr, WAN_IF_NAME_PRIMARY
  <1>3. /\ bn # WAN_IF_NAME_PRIMARY => DelBr(n) = n
        /\ bn = WAN_IF_NAME_PRIMARY =>
                Looks(DelBr(n), dn, mn, "", IF pi = "wan" THEN "" ELSE pi,
                      IF di = "wan" THEN "" ELSE di, IF mi = "wan" THEN "" ELSE mi)
    BY DEF DelBr
  <1> QED
    BY <1>1, <1>2, <1>3

LEMMA AddLooks ==
    ASSUME NEW n \in Nets, NEW dn, NEW mn, NEW bn, NEW pi, NEW di, NEW mi,
           Looks(n, dn, mn, bn, pi, di, mi), NEW x, NEW br,
           br = "lan" \/ bn = WAN_IF_NAME_PRIMARY,
           NEW pj, pj = IF x = "port" /\ pi = "" THEN br ELSE pi,
           NEW dj, dj = IF x = dn /\ di = "" THEN br ELSE di,
           NEW mj, mj = IF x = mn /\ mi = "" THEN br ELSE mi
    PROVE  Looks(AddIf(n, br, x), dn, mn, bn, pj, dj, mj)
  <1> DEFINE m == [n EXCEPT !.in = [d \in Dev |->
                 IF d \in Named(n, x) \ {"bridge"} /\ @[d] = "" THEN br ELSE @[d]]]
  <1>1. /\ "port" \in Named(n, x) <=> x = "port"
        /\ "docsis" \in Named(n, x) <=> x = dn
        /\ "mta" \in Named(n, x) <=> x = mn
    BY DEF Looks, Nets, Dev, Named
  <1>2. AddIf(n, br, x) = m
    BY DEF AddIf, Looks
  <1>3. m.name = n.name
    BY DEF Nets
  <1>4. \A d \in Dev : m.in[d] = IF d \in Named(n, x) \ {"bridge"} /\ n.in[d] = ""
                                 THEN br ELSE n.in[d]
    BY DEF Nets
  <1> HIDE DEF m
  <1> QED
    BY <1>1, <1>2, <1>3, <1>4 DEF Looks, Dev

LEMMA DelLooks ==
    ASSUME NEW n \in Nets, NEW dn, NEW mn, NEW bn, NEW pi, NEW di, NEW mi,
           Looks(n, dn, mn, bn, pi, di, mi), NEW x, NEW br, br # "",
           NEW pj, pj = IF x = "port" /\ pi = br THEN "" ELSE pi,
           NEW dj, dj = IF x = dn /\ di = br THEN "" ELSE di,
           NEW mj, mj = IF x = mn /\ mi = br THEN "" ELSE mi
    PROVE  Looks(DelIf(n, br, x), dn, mn, bn, pj, dj, mj)
  <1>1. /\ "port" \in Named(n, x) <=> x = "port"
        /\ "docsis" \in Named(n, x) <=> x = dn
        /\ "mta" \in Named(n, x) <=> x = mn
    BY DEF Looks, Nets, Dev, Named
  <1> QED
    BY <1>1 DEF Looks, Nets, Dev, DelIf

\* The commands on the port.
LEMMA PortShapes ==
    ASSUME NEW n \in Nets, NEW p \in Platforms, NEW up \in BOOLEAN, NEW where \in Wheres,
           Shaped(n, p, up, where)
    PROVE  /\ SwapNames(n) = n
           /\ Shaped(DelIf(n, "lan", "port"), p, up, IF where = "lan" THEN "" ELSE where)
           /\ Shaped(DelIf(n, "wan", "port"), p, up, IF where = "wan" THEN "" ELSE where)
           /\ where = "" => Shaped(AddIf(n, "wan", "port"), p, up, IF up THEN "wan" ELSE "")
           /\ where = "wan" => Shaped(AddIf(n, "wan", "port"), p, up, "wan")
           /\ where # "wan" => Shaped(AddIf(n, "lan", "port"), p, up, "lan")
  <1> DEFINE di == IF up /\ p = "bcm" THEN "wan" ELSE ""
             mi == IF up /\ p = "puma7" THEN "wan" ELSE ""
             dn == IF up THEN Parked(p) ELSE WAN_IF_NAME_PRIMARY
             bn == IF up THEN WAN_IF_NAME_PRIMARY ELSE ""
  <1>1. /\ Looks(n, dn, VoiceName(p), bn, where, di, mi)
        /\ \A m, w : Shaped(m, p, up, w) <=>
               (w = "wan" => up) /\ Looks(m, dn, VoiceName(p), bn, w, di, mi)
    BY DEF Shaped
  <1>2. /\ "port" \notin {dn, VoiceName(p), bn}
        /\ WAN_IF_NAME_PRIMARY \in {dn, bn}
        /\ up <=> bn = WAN_IF_NAME_PRIMARY
    BY DEF Parked, VoiceName, WAN_IF_NAME_PRIMARY, Platforms
  <1>3. where = "wan" => up
    BY DEF Shaped
  <1> HIDE DEF di, mi, dn, bn
  <1>4. Rename(n, WAN_IF_NAME_PRIMARY, "port") = n /\ Rename(n, "dummy-rf", WAN_IF_NAME_PRIMARY) = n
    BY <1>1, <1>2, RenameLooks
  <1>5. /\ Looks(DelIf(n, "lan", "port"), dn, VoiceName(p), bn,
                 IF where = "lan" THEN "" ELSE where, di, mi)
        /\ Looks(DelIf(n, "wan", "port"), dn, VoiceName(p), bn,
                 IF where = "wan" THEN "" ELSE where, di, mi)
        /\ up => Looks(AddIf(n, "wan", "port"), dn, VoiceName(p), bn,
                       IF where = "" THEN "wan" ELSE where, di, mi)
        /\ ~up => AddIf(n, "wan", "port") = n
        /\ Looks(AddIf(n, "lan", "port"), dn, VoiceName(p), bn,
                 IF where = "" THEN "lan" ELSE where, di, mi)
    <2>1. "port" # dn /\ "port" # VoiceName(p)
      BY <1>2
    <2>2. Looks(DelIf(n, "lan", "port"), dn, VoiceName(p), bn,
                 IF where = "lan" THEN "" ELSE where, di, mi)
      BY <1>1, <2>1, DelLooks
    <2>3. Looks(DelIf(n, "wan", "port"), dn, VoiceName(p), bn,
                 IF where = "wan" THEN "" ELSE where, di, mi)
      BY <1>1, <2>1, DelLooks
    <2>4. up => Looks(AddIf(n, "wan", "port"), dn, VoiceName(p), bn,
                       IF where = "" THEN "wan" ELSE where, di, mi)
      BY <1>1, <1>2, <2>1, AddLooks
    <2>5. ~up => AddIf(n, "wan", "port") = n
      BY <1>1, <1>2 DEF AddIf, Looks
    <2>6. Looks(AddIf(n, "lan", "port"), dn, VoiceName(p), bn,
                 IF where = "" THEN "lan" ELSE where, di, mi)
      BY <1>1, <2>1, AddLooks
    <2> QED
      BY <2>2, <2>3, <2>4, <2>5, <2>6
  <1> QED
    BY <1>1, <1>3, <1>4, <1>5 DEF SwapNames, Wheres

LEMMA BuildShape ==
    ASSUME NEW n \in Nets, NEW p \in Platforms, NEW up \in BOOLEAN, NEW where \in Wheres,
           Shaped(n, p, up, where)
    PROVE  Shaped(BuildBridge(n, p), p, TRUE, IF where = "" THEN "wan" ELSE where)
  <1> DEFINE a == Rename(n, WAN_IF_NAME_PRIMARY, Parked(p))
             b == AddBr(a)
             c == AddIf(b, "wan", "port")
             inf == ETHWAN_DOCSIS_INF_NAME(p)
             di == IF up /\ p = "bcm" THEN "wan" ELSE ""
             mi == IF up /\ p = "puma7" THEN "wan" ELSE ""
             there == IF where = "" THEN "wan" ELSE where
  <1>1. /\ Parked(p) # WAN_IF_NAME_PRIMARY /\ VoiceName(p) # WAN_IF_NAME_PRIMARY
        /\ "port" \notin {Parked(p), VoiceName(p), WAN_IF_NAME_PRIMARY, ""}
        /\ Parked(p) # VoiceName(p) /\ Parked(p) # "" /\ WAN_IF_NAME_PRIMARY # ""
        /\ inf = Parked(p) <=> p = "bcm"
        /\ inf = VoiceName(p) <=> p = "puma7"
        /\ p = "bcm" \/ p = "puma7"
    BY DEF Parked, VoiceName, WAN_IF_NAME_PRIMARY, Platforms, ETHWAN_DOCSIS_INF_NAME
  <1>2. a \in Nets /\ Looks(a, Parked(p), VoiceName(p), IF up THEN WAN_IF_NAME_PRIMARY ELSE "",
                            where, di, mi)
    <2>1. a \in Nets
      BY CommandTypes, NameTypes
    <2>2. CASE up
      <3>1. Looks(n, Parked(p), VoiceName(p), WAN_IF_NAME_PRIMARY, where, di, mi)
        BY <2>2 DEF Shaped
      <3>2. a = n
        BY <3>1 DEF Rename, Named, Looks, Dev
      <3> QED
        BY <2>1, <2>2, <3>1, <3>2
    <2>3. CASE ~up
      <3>1. Looks(n, WAN_IF_NAME_PRIMARY, VoiceName(p), "", where, "", "")
        BY <2>3 DEF Shaped
      <3>2. Looks(a, Parked(p), VoiceName(p), "", where, "", "")
        <4>1. Parked(p) \notin {"port", WAN_IF_NAME_PRIMARY, VoiceName(p), ""}
          BY <1>1
        <4> HIDE DEF a
        <4>2. Looks(a, IF WAN_IF_NAME_PRIMARY = WAN_IF_NAME_PRIMARY THEN Parked(p) ELSE WAN_IF_NAME_PRIMARY,
                    IF VoiceName(p) = WAN_IF_NAME_PRIMARY THEN Parked(p) ELSE VoiceName(p),
                    IF "" = WAN_IF_NAME_PRIMARY THEN Parked(p) ELSE "", where, "", "")
          BY <1>1, <3>1, <4>1, RenameLooks DEF a
        <4> QED
          BY <1>1, <4>2
      <3> QED
        BY <2>1, <2>3, <3>2
    <2> QED
      BY <2>2, <2>3
  <1> HIDE DEF a
  <1>3. b \in Nets /\ Looks(b, Parked(p), VoiceName(p), WAN_IF_NAME_PRIMARY, where, di, mi)
    <2>1. b \in Nets
      BY <1>2, CommandTypes, NameTypes
    <2> QED
      BY <1>1, <1>2, <2>1, BridgeLooks
  <1> HIDE DEF b
  <1>4. c \in Nets /\ Looks(c, Parked(p), VoiceName(p), WAN_IF_NAME_PRIMARY, there, di, mi)
    <2>1. c \in Nets
      BY <1>3, CommandTypes, NameTypes
    <2> QED
      BY <1>1, <1>3, <2>1, AddLooks
  <1> HIDE DEF c
  <1>5. Looks(AddIf(c, "wan", inf), Parked(p), VoiceName(p), WAN_IF_NAME_PRIMARY, there,
              IF p = "bcm" THEN "wan" ELSE "", IF p = "puma7" THEN "wan" ELSE "")
    BY <1>1, <1>4, AddLooks
  <1> QED
    BY <1>5 DEF BuildBridge, Shaped, a, b, c

LEMMA DropShape ==
    ASSUME NEW n \in Nets, NEW p \in Platforms, NEW up \in BOOLEAN, Shaped(n, p, up, "lan")
    PROVE  Shaped(DropBridge(n, p), p, FALSE, "lan")
  <1> DEFINE inf == ETHWAN_DOCSIS_INF_NAME(p)
             a == DelIf(n, "wan", inf)
             b == DelBr(a)
             di == IF up /\ p = "bcm" THEN "wan" ELSE ""
             mi == IF up /\ p = "puma7" THEN "wan" ELSE ""
             dn == IF up THEN Parked(p) ELSE WAN_IF_NAME_PRIMARY
             bn == IF up THEN WAN_IF_NAME_PRIMARY ELSE ""
  <1>1. /\ Parked(p) # WAN_IF_NAME_PRIMARY /\ VoiceName(p) # WAN_IF_NAME_PRIMARY
        /\ Parked(p) # VoiceName(p) /\ Parked(p) # "port" /\ WAN_IF_NAME_PRIMARY # ""
        /\ up /\ p = "bcm" => inf = dn
        /\ inf = VoiceName(p) <=> p = "puma7"
        /\ p = "bcm" \/ p = "puma7"
    BY DEF Parked, VoiceName, WAN_IF_NAME_PRIMARY, Platforms, ETHWAN_DOCSIS_INF_NAME
  <1>2. a \in Nets /\ Looks(a, dn, VoiceName(p), bn, "lan", "", "")
    <2>1. a \in Nets
      BY CommandTypes, NameTypes
    <2>2. Looks(n, dn, VoiceName(p), bn, "lan", di, mi)
      BY DEF Shaped
    <2>3. /\ "" = IF inf = dn /\ di = "wan" THEN "" ELSE di
          /\ "" = IF inf = VoiceName(p) /\ mi = "wan" THEN "" ELSE mi
          /\ "lan" = IF inf = "port" /\ "lan" = "wan" THEN "" ELSE "lan"
      BY <1>1
    <2> QED
      BY <2>1, <2>2, <2>3, DelLooks
  <1> HIDE DEF a
  <1>3. b \in Nets /\ Looks(b, dn, VoiceName(p), "", "lan", "", "")
    <2>1. b \in Nets
      BY <1>2, CommandTypes, NameTypes
    <2>2. CASE up
      <3>1. Looks(a, dn, VoiceName(p), WAN_IF_NAME_PRIMARY, "lan", "", "")
        BY <1>2, <2>2
      <3>2. Looks(b, dn, VoiceName(p), "", IF "lan" = "wan" THEN "" ELSE "lan",
                  IF "" = "wan" THEN "" ELSE "", IF "" = "wan" THEN "" ELSE "")
        BY <1>2, <3>1, BridgeLooks
      <3> QED
        BY <2>1, <3>2
    <2>3. CASE ~up
      <3>1. Looks(a, dn, VoiceName(p), "", "lan", "", "")
        BY <1>2, <2>3
      <3>2. b = a
        BY <1>1, <3>1 DEF DelBr, Looks
      <3> QED
        BY <2>1, <3>1, <3>2
    <2> QED
      BY <2>2, <2>3
  <1> HIDE DEF b
  <1>4. Looks(Rename(b, Parked(p), WAN_IF_NAME_PRIMARY), WAN_IF_NAME_PRIMARY, VoiceName(p), "",
              "lan", "", "")
    <2>1. CASE up
      <3>1. Looks(b, Parked(p), VoiceName(p), "", "lan", "", "")
        BY <1>3, <2>1
      <3>2. /\ WAN_IF_NAME_PRIMARY \notin {"port", Parked(p), VoiceName(p), ""}
            /\ "" # Parked(p)
        BY <1>1 DEF WAN_IF_NAME_PRIMARY, Parked
      <3>3. Looks(Rename(b, Parked(p), WAN_IF_NAME_PRIMARY),
                  IF Parked(p) = Parked(p) THEN WAN_IF_NAME_PRIMARY ELSE Parked(p),
                  IF VoiceName(p) = Parked(p) THEN WAN_IF_NAME_PRIMARY ELSE VoiceName(p),
                  IF "" = Parked(p) THEN WAN_IF_NAME_PRIMARY ELSE "", "lan", "", "")
        BY <1>1, <1>3, <3>1, <3>2, RenameLooks, ZenonT(40)
      <3> QED
        BY <1>1, <3>2, <3>3
    <2>2. CASE ~up
      BY <1>3, <2>2, RenameLooks
    <2> QED
      BY <2>1, <2>2
  <1> QED
    BY <1>4 DEF DropBridge, Shaped, a, b

LEMMA PortHome ==
    ASSUME NEW n \in Nets, NEW p \in Platforms, NEW up \in BOOLEAN, NEW where \in Wheres,
           Shaped(n, p, up, where), where # "wan"
    PROVE  Shaped(AddIf(n, "lan", "port"), p, up, "lan")
  BY PortShapes, ZenonT(40)

\* What the platform's handler makes of any layout.
ModeBridge(n, p, e, c) == IF p = "bcm" THEN WanBridgeConfigurationBcm(n, e, c)
                                       ELSE WanBridgeConfigurationIntelPuma7(n, e, c)

LEMMA HandlerShape ==
    ASSUME NEW n \in Nets, NEW p \in Platforms, NEW up \in BOOLEAN, NEW where \in Wheres,
           Shaped(n, p, up, where), NEW e \in BOOLEAN, NEW c \in BOOLEAN
    PROVE  /\ e /\ (c \/ up) => Shaped(ModeBridge(n, p, e, c), p, TRUE, "wan")
           /\ e /\ ~c /\ ~up => Shaped(ModeBridge(n, p, e, c), p, FALSE, "")
           /\ ~e /\ c => Shaped(ModeBridge(n, p, e, c), p, FALSE, "lan")
           /\ ~e /\ ~c => Shaped(ModeBridge(n, p, e, c), p, up, "lan")
  <1>1. ModeBridge(n, p, e, c) = IF e THEN EnterEthernet(n, p, c) ELSE LeaveEthernet(n, p, c)
    BY DEF ModeBridge, WanBridgeConfigurationBcm, WanBridgeConfigurationIntelPuma7, Platforms
  <1>2. DelIf(n, "lan", "port") \in Nets /\ DelIf(n, "wan", "port") \in Nets
    BY CommandTypes, NameTypes
  <1>3. CASE e
    <2> DEFINE out == DelIf(n, "lan", "port")
               there == IF where = "lan" THEN "" ELSE where
    <2>0. Shaped(out, p, up, there)
      BY PortShapes
    <2>1. Shaped(out, p, up, there) /\ there \in {"", "wan"} /\ (there = "wan" => up)
      BY <2>0 DEF Wheres, Shaped
    <2> HIDE DEF there
    <2>2. c => Shaped(BuildBridge(out, p), p, TRUE, "wan")
      <3>1. Shaped(BuildBridge(out, p), p, TRUE, IF there = "" THEN "wan" ELSE there)
        BY <1>2, <2>1, BuildShape DEF Wheres
      <3> QED
        BY <2>1, <3>1
    <2>3. Shaped(AddIf(out, "wan", "port"), p, up, IF up THEN "wan" ELSE "")
      <3>1. CASE there = ""
        <4>1. Shaped(out, p, up, "")
          BY <2>1, <3>1
        <4> HIDE DEF out
        <4> QED
          BY <1>2, <4>1, PortShapes DEF Wheres, out
      <3>2. CASE there = "wan"
        <4>1. Shaped(out, p, up, "wan") /\ up
          BY <2>1, <3>2
        <4>2. Shaped(AddIf(out, "wan", "port"), p, up, "wan")
          BY <1>2, <4>1, PortShapes DEF Wheres
        <4> QED
          BY <4>1, <4>2
      <3> QED
        BY <2>1, <3>1, <3>2
    <2> QED
      BY <1>1, <1>3, <2>2, <2>3 DEF EnterEthernet
  <1>4. CASE ~e
    <2> DEFINE off == DelIf(n, "wan", "port")
               home == AddIf(off, "lan", "port")
    <2> DEFINE there == IF where = "wan" THEN "" ELSE where
    <2>0. Shaped(off, p, up, there)
      BY PortShapes
    <2>1. off \in Nets /\ Shaped(off, p, up, there) /\ there \in Wheres /\ there # "wan"
      BY <1>2, <2>0 DEF Wheres
    <2> HIDE DEF there, off
    <2>2. Shaped(home, p, up, "lan") /\ home \in Nets
      <3>1. Shaped(AddIf(off, "lan", "port"), p, up, "lan")
        BY <2>1, PortHome
      <3>3. Shaped(home, p, up, "lan")
        BY <3>1
      <3>2. home \in Nets
        BY <2>1, CommandTypes, NameTypes
      <3> QED
        BY <3>2, <3>3
    <2> HIDE DEF home
    <2>3. Shaped(DropBridge(home, p), p, FALSE, "lan")
      BY <2>2, DropShape
    <2> QED
      BY <1>1, <1>4, <2>2, <2>3 DEF LeaveEthernet, home, off
  <1> QED
    BY <1>3, <1>4

\* Where the port is when the bridge has been built at start-up.
Landing(p, where) == IF where = "" \/ (where = "lan" /\ p = "bcm") THEN "wan" ELSE where

LEMMA StartShape ==
    ASSUME NEW n \in Nets, NEW p \in Platforms, NEW up \in BOOLEAN, NEW where \in Wheres,
           Shaped(n, p, up, where)
    PROVE  Shaped(EthWanBridgeInit(n, p), p, TRUE, Landing(p, where))
  <1> DEFINE out == IF p = "bcm" THEN DelIf(n, "lan", "port") ELSE n
             w == IF p = "bcm" /\ where = "lan" THEN "" ELSE where
  <1>1. Shaped(out, p, up, w)
    <2>1. CASE p = "bcm"
      BY <2>1, PortShapes, ZenonT(40)
    <2>2. CASE p # "bcm"
      BY <2>2
    <2> QED
      BY <2>1, <2>2
  <1>2. out \in Nets /\ w \in Wheres /\ Landing(p, where) = IF w = "" THEN "wan" ELSE w
    BY CommandTypes, NameTypes DEF Wheres, Landing
  <1> HIDE DEF w, out
  <1>3. BuildBridge(out, p) \in Nets /\ Shaped(BuildBridge(out, p), p, TRUE, IF w = "" THEN "wan" ELSE w)
    BY <1>1, <1>2, BuildShape, BuildTypes
  <1> QED
    BY <1>2, <1>3 DEF EthWanBridgeInit, out, Nets, Shaped, Looks

LEMMA BootShape ==
    ASSUME NEW p \in Platforms, NEW e \in BOOLEAN
    PROVE  Shaped(BootNet(p, e), p, FALSE, IF p = "puma7" /\ e THEN "" ELSE "lan")
  BY DEF BootNet, Shaped, Looks, Dev, VoiceName, Platforms


-----------------------------------------------------------------------------
(* The bridges and the mode                                                *)

Up == net.name["bridge"] # ""
LaidOut == Up = hal /\ net.in["port"] = IF hal THEN "wan" ELSE "lan"

\* The steps after CosaDmlIfaceFinalize.
Late == {"names", "resume", "end"}

ShapeKept == \E up \in BOOLEAN, where \in Wheres : Shaped(net, build.platform, up, where)

\* What the dispatcher configures, it configures for a mode on trial; it
\* finalizes when the trial is over.
BusOnTrial == Active("bus") => (wm.trial <=> job["bus"].at # "fin")

\* Until the bridges are rearranged they are those of the mode recorded last.
UpIsLast ==
    "mode" \notin damage /\ (wm.trial \/ \E w \in Workers : Active(w) /\ job[w].at \notin Late) =>
        (Up <=> sys.last = "eth")

\* A change that succeeded lays them out whatever was before.
LaidAtEnd ==
    \A t \in Threads : job[t].at \in Late /\ ("mode" \notin damage \/ ~job[t].rolled) => LaidOut

LaidAtRest == AllRest /\ ~wm.trial /\ ~rebooting /\ "mode" \notin damage => LaidOut

Bridged == ShapeKept /\ BusOnTrial /\ UpIsLast /\ LaidAtEnd /\ LaidAtRest

LEMMA ShapeFacts ==
    ASSUME NEW n, NEW p \in Platforms, NEW up \in BOOLEAN, NEW where, Shaped(n, p, up, where)
    PROVE  (n.name["bridge"] # "" <=> up) /\ n.in["port"] = where
  BY DEF Shaped, Looks, WAN_IF_NAME_PRIMARY

LEMMA LaidOutIsLayout ==
    ASSUME Types, ShapeKept, LaidOut
    PROVE  Layout(net, build.platform, hal)
  <1>1. build.platform \in Platforms /\ hal \in BOOLEAN
    BY DEF Types, Builds, ModeTypes
  <1>2. PICK up \in BOOLEAN, where \in Wheres : Shaped(net, build.platform, up, where)
    BY DEF ShapeKept
  <1>3. up = hal /\ where = IF hal THEN "wan" ELSE "lan"
    BY <1>1, <1>2, ShapeFacts DEF LaidOut, Up
  <1>4. CASE hal
    <2>1. Looks(net, Parked(build.platform), VoiceName(build.platform), WAN_IF_NAME_PRIMARY, "wan",
                IF build.platform = "bcm" THEN "wan" ELSE "",
                IF build.platform = "puma7" THEN "wan" ELSE "")
      BY <1>2, <1>3, <1>4 DEF Shaped
    <2>2. CASE build.platform = "bcm"
      BY <1>4, <2>1, <2>2 DEF Layout, Looks, Dev, ETHWAN_DOCSIS_INF_NAME, Parked
    <2>3. CASE build.platform = "puma7"
      BY <1>4, <2>1, <2>3 DEF Layout, Looks, Dev, ETHWAN_DOCSIS_INF_NAME, VoiceName
    <2> QED
      BY <1>1, <2>2, <2>3 DEF Platforms
  <1>5. CASE ~hal
    <2>1. Looks(net, WAN_IF_NAME_PRIMARY, VoiceName(build.platform), "", "lan", "", "")
      BY <1>2, <1>3, <1>5 DEF Shaped
    <2> QED
      BY <1>5, <2>1 DEF Layout, Looks, Dev
  <1> QED
    BY <1>4, <1>5

\* The commands before the bridges are rearranged leave the WAN bridge as it is.
LEMMA ShapeStays ==
    ASSUME Types, ShapeKept, build' = build,
           NEW m \in {net, SwapNames(net), DelIf(net, "lan", "port")},
           net'.name = m.name, net'.in = m.in
    PROVE  ShapeKept' /\ Up' = Up
  <1>1. build.platform \in Platforms /\ net \in Nets
    BY DEF Types, Builds, ModeTypes
  <1>2. PICK up \in BOOLEAN, where \in Wheres : Shaped(net, build.platform, up, where)
    BY DEF ShapeKept
  <1>3. \E there \in Wheres : Shaped(m, build.platform, up, there)
    <2>1. CASE m = net \/ m = SwapNames(net)
      BY <1>1, <1>2, <2>1, PortShapes
    <2>2. CASE m = DelIf(net, "lan", "port")
      <3> DEFINE there == IF where = "lan" THEN "" ELSE where
      <3>1. Shaped(m, build.platform, up, there)
        BY <1>1, <1>2, <2>2, PortShapes
      <3>2. there \in Wheres
        BY DEF Wheres
      <3> QED
        BY <3>1, <3>2
    <2> QED
      BY <2>1, <2>2
  <1>4. PICK there \in Wheres : Shaped(m, build.platform, up, there)
    BY <1>3
  <1>5. Shaped(net', build.platform, up, there)
    BY <1>4 DEF Shaped, Looks
  <1>6. ShapeKept'
    BY <1>5 DEF ShapeKept
  <1>7. Up' = up /\ Up = up
    <2>1. net.name["bridge"] # "" <=> up
      BY <1>1, <1>2, ShapeFacts, ZenonT(40)
    <2>2. net'.name["bridge"] # "" <=> up
      BY <1>1, <1>5, ShapeFacts, ZenonT(40)
    <2> QED
      BY <2>1, <2>2 DEF Up
  <1> QED
    BY <1>6, <1>7

\* A step of a job that has the bridges still to rearrange.
LEMMA WorkBridges ==
    ASSUME Types, Good, Bridged, NEW w \in Workers, Active(w), job[w].at \notin Late,
           \A u \in Workers \ {w} : job'[u] = job[u], job'[w].at \notin Late,
           w = "bus" => wm.trial /\ job'[w].at # "fin", w # "bus" => Active(w)',
           wm'.trial = wm.trial, sys'.last = sys.last, ShapeKept', Up' = Up,
           "mode" \in damage => "mode" \in damage'
    PROVE  Bridged'
  <1>1. \A u \in Workers \ {w} : job'[u].at = "idle"
    BY OthersRest DEF Good, Active
  <1>2. Threads \subseteq Workers /\ "bus" \in Workers /\ "idle" \notin Late
    BY DEF Workers, Late
  <1>3. BusOnTrial'
    BY <1>1, <1>2 DEF BusOnTrial, Active
  <1>4. "mode" \notin damage => (Up <=> sys.last = "eth")
    BY DEF Bridged, UpIsLast
  <1>5. UpIsLast'
    BY <1>4 DEF UpIsLast
  <1>6. LaidAtEnd'
    BY <1>1, <1>2 DEF LaidAtEnd
  <1>7. LaidAtRest'
    BY DEF LaidAtRest, AllRest
  <1> QED
    BY <1>3, <1>5, <1>6, <1>7 DEF Bridged

LEMMA ConfigureBridges ==
    ASSUME Types, Good, Bridged, NEW w \in Workers,
           \/ TakePort(w) \/ EthwanEnableWithoutReboot(w) \/ MarkFile(w) \/ CommitFlag(w)
           \/ CosaDmlConfigureEthWan(w)
    PROVE  Bridged'
  <1>0. {"hal", "file", "flag", "late", "fin", "back", "idle"} \subseteq Steps
    BY DEF Steps
  <1>1. /\ Active(w) /\ job[w].at \in Returning \ {"back"}
        /\ wm' = wm /\ build' = build /\ sys'.last = sys.last
        /\ damage \subseteq damage'
    <2>1. /\ Active(w) /\ job[w].at \in Returning \ {"back"} /\ wm' = wm /\ build' = build
          /\ sys'.last = sys.last
      BY DEF TakePort, EthwanEnableWithoutReboot, MarkFile, CommitFlag, CosaDmlConfigureEthWan,
             Active, At, Returning, Types, ModeTypes, Syscfg
    <2>2. damage \subseteq damage'
      BY DEF TakePort, EthwanEnableWithoutReboot, MarkFile, CommitFlag, CosaDmlConfigureEthWan,
             Failed, Fault, Unharmed, bounds
    <2> QED
      BY <2>1, <2>2
  <1>2. \/ \E s \in {"hal", "file", "flag", "late"} : To(w, s)
        \/ w # "bus" /\ (To(w, "fin") \/ To(w, "back"))
        \/ w = "bus" /\ Done(w)
    BY DEF TakePort, EthwanEnableWithoutReboot, MarkFile, CommitFlag,
           CosaDmlConfigureEthWan, Failed
  <1>3. /\ \A u \in Workers \ {w} : job'[u] = job[u]
        /\ job'[w].at \notin Late
        /\ w # "bus" => Active(w)'
        /\ w = "bus" => job'[w].at # "fin"
    BY <1>0, <1>2, JobAfter DEF Active, Late
  <1>4. w = "bus" => wm.trial
    BY <1>1 DEF Bridged, BusOnTrial, Returning
  <1>5. \E m \in {net, SwapNames(net), DelIf(net, "lan", "port")} :
            net'.name = m.name /\ net'.in = m.in
    <2>1. net \in Nets /\ DelIf(net, "lan", "port") \in Nets
      BY CommandTypes DEF Types, ModeTypes, Names
    <2>2. CASE TakePort(w)
      <3>1. net' = [DelIf(net, "lan", "port") EXCEPT !.mac = "wan"]
        BY <2>2 DEF TakePort
      <3> QED
        BY <2>1, <3>1 DEF Nets
    <2>3. CASE EthwanEnableWithoutReboot(w)
      BY <2>3 DEF EthwanEnableWithoutReboot
    <2>4. CASE CosaDmlConfigureEthWan(w)
      BY <2>1, <2>4 DEF CosaDmlConfigureEthWan, Nets
    <2>5. CASE MarkFile(w) \/ CommitFlag(w)
      BY <2>5 DEF MarkFile, CommitFlag
    <2> QED
      BY <2>2, <2>3, <2>4, <2>5
  <1>6. ShapeKept' /\ Up' = Up
    BY <1>1, <1>5, ShapeStays DEF Bridged
  <1>7. job[w].at \notin Late
    BY <1>1 DEF Returning, Late
  <1> QED
    BY <1>1, <1>3, <1>4, <1>6, <1>7, WorkBridges

LEMMA ThreadBridges ==
    ASSUME Types, Good, Bridged, NEW t \in Threads,
           \/ ThreadConfigEthWan(t) \/ RollBack(t) \/ WriteWanNames(t) \/ ResumeWanManager(t)
           \/ EndConfigEthWan(t)
    PROVE  Bridged'
  <1>0. /\ {"take", "hal", "resume", "end", "idle"} \subseteq Steps /\ t \in Workers
        /\ job[t] \in Job /\ job \in Jobs /\ t # "bus" /\ "bus" \in Workers
        /\ Threads \subseteq Workers
    BY ThreadsAssumption DEF Steps, Workers, Types, Jobs
  <1>1. /\ Active(t) /\ UNCHANGED <<build, hal, net, rebooting>>
        /\ sys'.last = sys.last /\ wm'.trial = wm.trial
    BY DEF ThreadConfigEthWan, RollBack, WriteWanNames, ResumeWanManager, EndConfigEthWan,
           Active, At, mode, Types, ModeTypes, InformTypes, Syscfg, WanManagers
  <1>2. ShapeKept' /\ Up' = Up /\ (LaidOut' <=> LaidOut)
    BY <1>1 DEF Bridged, ShapeKept, Up, LaidOut
  <1>3. CASE ThreadConfigEthWan(t) \/ RollBack(t)
    <2>1. job[t].at \in {"start", "back"} /\ damage \subseteq damage'
      BY <1>3 DEF ThreadConfigEthWan, RollBack, At, Fault, Unharmed, bounds
    <2>2. \A u \in Workers \ {t} : job'[u] = job[u]
      <3>1. CASE ThreadConfigEthWan(t)
        BY <1>0, <3>1, JobAfter DEF ThreadConfigEthWan, First
      <3>2. CASE RollBack(t)
        BY <1>0, <3>2 DEF RollBack, Jobs
      <3> QED
        BY <1>3, <3>1, <3>2
    <2>3. job'[t].at \in {"take", "hal"}
      <3>1. CASE ThreadConfigEthWan(t)
        <4>1. First(job[t].v) \in {"take", "hal"} /\ To(t, First(job[t].v))
          BY <3>1 DEF ThreadConfigEthWan, First
        <4> QED
          BY <1>0, <4>1, JobAfter
      <3>2. CASE RollBack(t)
        <4>1. job' = [job EXCEPT ![t] = [Idle EXCEPT !.at = First(~job[t].v), !.v = ~job[t].v,
                                                     !.rolled = TRUE]]
          BY <3>2 DEF RollBack
        <4> QED
          BY <1>0, <4>1 DEF Idle, Jobs, First
      <3> QED
        BY <1>3, <3>1, <3>2
    <2>4. job[t].at \notin Late /\ job'[t].at \notin Late /\ Active(t)'
      BY <2>1, <2>3 DEF Late, Active
    <2> QED
      BY <1>0, <1>1, <1>2, <2>1, <2>2, <2>4, WorkBridges
  <1>4. CASE WriteWanNames(t) \/ ResumeWanManager(t)
    <2>1. /\ \A u \in Workers \ {t} : job'[u] = job[u]
          /\ job[t].at \in Late /\ job'[t].at \in Late /\ job'[t].rolled = job[t].rolled
      <3>1. CASE WriteWanNames(t)
        BY <1>0, <3>1, JobAfter DEF WriteWanNames, At, Late
      <3>2. CASE ResumeWanManager(t)
        BY <1>0, <3>2, JobAfter DEF ResumeWanManager, At, Late
      <3> QED
        BY <1>4, <3>1, <3>2
    <2>2. "mode" \in damage => "mode" \in damage'
      BY <1>4 DEF WriteWanNames, ResumeWanManager, Fault, Told, Unharmed, bounds
    <2>3. \A u \in Workers \ {t} : ~Active(u)'
      BY <1>0, <1>1, <2>1, OthersRest DEF Good, Active
    <2>4. ~wm'.trial
      BY <1>1 DEF Good, Solo
    <2>5. Active(t)'
      BY <2>1 DEF Late, Active
    <2>6. BusOnTrial' /\ UpIsLast' /\ LaidAtRest'
      BY <1>0, <2>1, <2>3, <2>4, <2>5 DEF BusOnTrial, UpIsLast, LaidAtRest, AllRest
    <2>7. LaidAtEnd'
      <3>1. \A u \in Threads \ {t} : job'[u].at \notin Late
        BY <1>0, <2>3 DEF Active, Late
      <3> QED
        BY <1>2, <2>1, <2>2, <3>1 DEF Bridged, LaidAtEnd
    <2> QED
      BY <1>2, <2>6, <2>7 DEF Bridged
  <1>5. CASE EndConfigEthWan(t)
    <2>1. /\ \A u \in Workers \ {t} : job'[u] = job[u]
          /\ job'[t].at = "idle" /\ job[t].at = "end"
      BY <1>0, <1>5, JobAfter DEF EndConfigEthWan, At
    <2>2. \A u \in Workers : ~Active(u)'
      BY <1>0, <1>1, <2>1, OthersRest DEF Good, Active
    <2>3. ~wm'.trial
      BY <1>1 DEF Good, Solo
    <2>4. "mode" \notin damage' => "mode" \notin damage \/ ~job[t].rolled
      BY <1>5 DEF EndConfigEthWan
    <2>5. "mode" \notin damage' => LaidOut
      BY <2>1, <2>4 DEF Bridged, LaidAtEnd, Late
    <2>6. \A u \in Workers : job'[u].at = "idle"
      BY <2>2 DEF Active
    <2> QED
      BY <1>0, <1>2, <2>2, <2>3, <2>5, <2>6
      DEF Bridged, BusOnTrial, UpIsLast, LaidAtEnd, LaidAtRest, Late
  <1> QED
    BY <1>3, <1>4, <1>5

\* The bridges are rearranged: by UpIsLast configureBridge is TRUE exactly when
\* they are not yet those of the mode, and it is TRUE after every change that
\* succeeded.
LEMMA FinalizeBridges ==
    ASSUME Types, Good, Serving, Bridged, NEW w \in Workers, CosaDmlIfaceFinalize(w)
    PROVE  Bridged'
  <1> DEFINE p == build.platform
             c == ConfigureBridge
  <1>0. /\ p \in Platforms /\ hal \in BOOLEAN /\ c \in BOOLEAN /\ net \in Nets /\ sys.last \in Modes
        /\ job[w] \in Job /\ job \in Jobs /\ Threads \subseteq Workers /\ "bus" \in Workers
    BY DEF Types, Builds, ModeTypes, ConfigureBridge, Syscfg, Jobs, Workers
  <1>1. /\ Active(w) /\ job[w].at = "fin" /\ UNCHANGED <<build, hal, rebooting>>
        /\ sys' = sys /\ wm' = wm /\ damage' = damage
        /\ net' = ModeBridge(net, p, hal, c)
    BY DEF CosaDmlIfaceFinalize, At, Active, Unharmed, bounds, ModeBridge
  <1>2. PICK up \in BOOLEAN, where \in Wheres : Shaped(net, p, up, where)
    BY DEF Bridged, ShapeKept
  <1>3. Up <=> up
    BY <1>0, <1>2, ShapeFacts DEF Up
  <1> HIDE DEF p, c
  <1>4. PICK nup \in BOOLEAN, there \in Wheres :
            /\ Shaped(net', p, nup, there)
            /\ hal /\ (c \/ up) => nup /\ there = "wan"
            /\ ~hal /\ (c \/ ~up) => ~nup /\ there = "lan"
    <2> DEFINE final == ModeBridge(net, p, hal, c)
    <2>1. /\ hal /\ (c \/ up) => Shaped(final, p, TRUE, "wan")
          /\ hal /\ ~c /\ ~up => Shaped(final, p, FALSE, "")
          /\ ~hal /\ c => Shaped(final, p, FALSE, "lan")
          /\ ~hal /\ ~c => Shaped(final, p, up, "lan")
      BY <1>0, <1>2, HandlerShape
    <2> HIDE DEF final
    <2>2. net' = final
      BY <1>1 DEF final
    <2>3. {"", "wan", "lan"} \subseteq Wheres
      BY DEF Wheres
    <2>4. CASE hal /\ (c \/ up)
      BY <2>1, <2>2, <2>3, <2>4
    <2>5. CASE hal /\ ~c /\ ~up
      BY <2>1, <2>2, <2>3, <2>5
    <2>6. CASE ~hal /\ c
      BY <2>1, <2>2, <2>3, <2>6
    <2>7. CASE ~hal /\ ~c
      BY <2>1, <2>2, <2>3, <2>7
    <2> QED
      BY <1>0, <2>4, <2>5, <2>6, <2>7
  <1>5. ShapeKept'
    BY <1>1, <1>4 DEF ShapeKept, p
  <1>6. (hal /\ (c \/ Up)) \/ (~hal /\ (c \/ ~Up)) => LaidOut'
    <2>1. (net'.name["bridge"] # "" <=> nup) /\ net'.in["port"] = there
      BY <1>0, <1>4, ShapeFacts
    <2> QED
      BY <1>0, <1>1, <1>3, <1>4, <2>1 DEF LaidOut, Up
  <1>7. "mode" \notin damage => LaidOut'
    <2>1. "mode" \notin damage => (Up <=> sys.last = "eth")
      BY <1>1 DEF Bridged, UpIsLast, Late
    <2> QED
      BY <1>0, <1>6, <2>1 DEF c, ConfigureBridge
  <1>8. w \in Threads /\ ~job[w].rolled => LaidOut'
    <2> SUFFICES ASSUME w \in Threads, ~job[w].rolled
                 PROVE  c
      BY <1>0, <1>6
    <2>1. sys.last = ModeOf(~job[w].v) /\ hal = job[w].v
      BY <1>1 DEF Serving, Aimed, Aim
    <2> QED
      BY <1>0, <2>1 DEF c, ConfigureBridge, ModeOf
  <1>9. CASE w = "bus"
    <2>1. \A u \in Workers : ~Active(u)'
      <3>1. Done(w)
        BY <1>9 DEF CosaDmlIfaceFinalize
      <3>2. /\ \A u \in Workers \ {w} : job'[u] = job[u]
            /\ job'[w].at = "idle"
        BY <1>0, <3>1, JobAfter DEF Steps
      <3> QED
        BY <1>1, <3>2, OthersRest DEF Good, Active
    <2>2. BusOnTrial' /\ LaidAtEnd'
      BY <1>0, <2>1 DEF BusOnTrial, LaidAtEnd, Active, Late
    <2>3. ~wm'.trial
      BY <1>1, <1>9 DEF Bridged, BusOnTrial
    <2>4. UpIsLast' /\ LaidAtRest'
      BY <1>1, <1>7, <2>1, <2>3 DEF UpIsLast, LaidAtRest
    <2> QED
      BY <1>5, <2>2, <2>4 DEF Bridged
  <1>10. CASE w # "bus"
    <2>1. w \in Threads
      BY <1>10 DEF Workers
    <2>2. /\ \A u \in Workers \ {w} : job'[u] = job[u]
          /\ job'[w].at = "names" /\ job'[w].rolled = job[w].rolled
      <3>1. job' = [job EXCEPT ![w] = [@ EXCEPT !.at = "names", !.eth = hal]]
        BY <1>10 DEF CosaDmlIfaceFinalize
      <3>2. job'[w] = [job[w] EXCEPT !.at = "names", !.eth = hal]
            /\ \A u \in Workers \ {w} : job'[u] = job[u]
        BY <1>0, <3>1 DEF Jobs
      <3> QED
        BY <1>0, <3>2 DEF Job
    <2>3. \A u \in Workers \ {w} : ~Active(u)'
      BY <1>0, <1>1, <2>2, OthersRest DEF Good, Active
    <2>4. ~wm'.trial /\ Active(w)'
      BY <1>1, <2>1, <2>2 DEF Good, Solo, Active
    <2>5. BusOnTrial' /\ UpIsLast' /\ LaidAtRest'
      BY <1>0, <1>10, <2>2, <2>3, <2>4 DEF BusOnTrial, UpIsLast, LaidAtRest, AllRest, Late
    <2>6. \A u \in Threads \ {w} : job'[u].at \notin Late
      BY <1>0, <2>3 DEF Active, Late
    <2>7. LaidAtEnd'
      BY <1>1, <1>7, <1>8, <2>1, <2>2, <2>6 DEF LaidAtEnd
    <2> QED
      BY <1>5, <2>5, <2>7 DEF Bridged
  <1> QED
    BY <1>9, <1>10


\* The network after a start, as it looks.
LEMMA StartedShape ==
    ASSUME NEW n \in Nets, NEW p \in Platforms, NEW up \in BOOLEAN, NEW where \in Wheres,
           Shaped(n, p, up, where), hal \in BOOLEAN, build.platform = p
    PROVE  Shaped(StartNet(n), p, hal \/ up, IF hal THEN Landing(p, where) ELSE where)
  <1>1. CASE hal
    <2>1. Shaped(EthWanBridgeInit(n, p), p, TRUE, Landing(p, where))
      BY StartShape
    <2> QED
      BY <1>1, <2>1 DEF StartNet
  <1>2. CASE ~hal
    BY <1>2 DEF StartNet
  <1> QED
    BY <1>1, <1>2

LEMMA BootedShape ==
    ASSUME NEW p \in Platforms, hal \in BOOLEAN, build.platform = p
    PROVE  Shaped(StartNet(BootNet(p, hal)), p, hal, IF hal THEN "wan" ELSE "lan")
  <1> DEFINE n == BootNet(p, hal)
             where == IF p = "puma7" /\ hal THEN "" ELSE "lan"
  <1>1. n \in Nets /\ Shaped(n, p, FALSE, where) /\ where \in Wheres
    BY BootTypes, BootShape DEF Wheres
  <1>2. (IF hal THEN Landing(p, where) ELSE where) = IF hal THEN "wan" ELSE "lan"
    BY DEF Landing, Platforms
  <1> HIDE DEF n, where
  <1>3. Shaped(StartNet(n), p, hal \/ FALSE, IF hal THEN Landing(p, where) ELSE where)
    BY <1>1, StartedShape
  <1> QED
    BY <1>2, <1>3 DEF n

\* A step after which all rest.
LEMMA RestBridges ==
    ASSUME ShapeKept', \A w \in Workers : ~Active(w)', ~wm'.trial,
           "mode" \notin damage' => rebooting' \/ LaidOut'
    PROVE  Bridged'
  <1>1. Threads \subseteq Workers /\ "bus" \in Workers /\ "idle" \notin Late
    BY DEF Workers, Late
  <1> QED
    BY <1>1 DEF Bridged, BusOnTrial, UpIsLast, LaidAtEnd, LaidAtRest, Active

\* A job begins while all rest.
LEMMA BeginBridges ==
    ASSUME Types, Bridged, AllRest, NEW w \in Workers, \A u \in Workers \ {w} : job'[u] = job[u],
           Active(w)', job'[w].at \notin Late, UNCHANGED <<build, net>>,
           w = "bus" => (wm'.trial <=> job'[w].at # "fin"),
           "mode" \notin damage' => (Up <=> sys'.last = "eth")
    PROVE  Bridged'
  <1>1. Threads \subseteq Workers /\ "bus" \in Workers /\ "idle" \notin Late
    BY DEF Workers, Late
  <1>2. \A u \in Workers \ {w} : ~Active(u)'
    BY DEF AllRest, Active
  <1>3. BusOnTrial' /\ UpIsLast' /\ LaidAtRest'
    BY <1>1, <1>2 DEF BusOnTrial, UpIsLast, Up, LaidAtRest, AllRest
  <1>4. \A u \in Workers : job'[u].at \notin Late
    BY <1>1, <1>2 DEF Active
  <1>5. LaidAtEnd' /\ ShapeKept'
    BY <1>1, <1>4 DEF LaidAtEnd, Bridged, ShapeKept
  <1> QED
    BY <1>3, <1>5 DEF Bridged

LEMMA WriteBridges ==
    ASSUME Patient, Types, Good, Serving, Bridged, NEW m \in {"auto", "eth", "docsis"},
           EthernetWAN_SetParamStringValue(m)
    PROVE  Bridged'
  <1> DEFINE stored == [sys EXCEPT !.sel = m]
  <1>1. /\ Resting /\ AllRest /\ ~wm.trial /\ ~rebooting /\ wm' = wm /\ build' = build
        /\ Recorded \/ ~wm.enable
    BY RestingRests DEF EthernetWAN_SetParamStringValue, MayWrite, Resting
  <1>2. Threads \subseteq Workers
    BY DEF Workers
  <1>3. sys'.last = sys.last
    BY DEF EthernetWAN_SetParamStringValue, CosaDmlEthWanSetEnable, ConfigEthWan, StoreAndReboot,
           Types, ModeTypes, Syscfg
  <1>4. damage \subseteq damage'
    BY DEF EthernetWAN_SetParamStringValue, CosaDmlEthWanSetEnable, ConfigEthWan, StoreAndReboot,
           Fault, Unharmed, bounds
  <1>5. NoThread
    BY <1>1, <1>2 DEF AllRest, NoThread
  <1>6. "mode" \notin damage => LaidOut /\ (Up <=> sys.last = "eth")
    <2> SUFFICES ASSUME "mode" \notin damage
                 PROVE  LaidOut /\ (Up <=> sys.last = "eth")
      OBVIOUS
    <2>1. LaidOut
      BY <1>1 DEF Bridged, LaidAtRest
    <2>2. sys.last = ModeOf(hal) /\ hal \in BOOLEAN
      BY <1>1, <1>5 DEF Serving, DownIsNoted, Recorded, Types, ModeTypes
    <2> QED
      BY <2>1, <2>2 DEF LaidOut, ModeOf
  <1> HIDE DEF stored
  <1>7. net' = net
    <2>1. net' \in {net, SwapNames(net)}
      BY DEF EthernetWAN_SetParamStringValue, CosaDmlEthWanSetEnable, ConfigEthWan, StoreAndReboot
    <2>2. SwapNames(net) = net
      <3>1. net \in Nets /\ build.platform \in Platforms
        BY DEF Types, Builds, ModeTypes
      <3> QED
        BY <3>1, PortShapes DEF Bridged, ShapeKept
    <2> QED
      BY <2>1, <2>2
  <1>8. ShapeKept'
    BY <1>1, <1>7 DEF Bridged, ShapeKept
  <1>9. ASSUME UNCHANGED job, "mode" \notin damage' => rebooting' \/ hal' = hal
        PROVE  Bridged'
    <2>1. \A w \in Workers : ~Active(w)'
      BY <1>1, <1>9 DEF AllRest, Active
    <2>2. "mode" \notin damage' => rebooting' \/ LaidOut'
      <3>1. ASSUME LaidOut, hal' = hal
            PROVE  LaidOut'
        <4>1. Up' = Up
          BY <1>7 DEF Up
        <4>2. net'.in["port"] = IF hal' THEN "wan" ELSE "lan"
          BY <1>7, <3>1 DEF LaidOut
        <4> QED
          BY <3>1, <4>1, <4>2 DEF LaidOut
      <3> QED
        BY <1>4, <1>6, <1>9, <3>1
    <2> QED
      BY <1>1, <1>8, <2>1, <2>2, RestBridges
  <1>10. CASE UNCHANGED <<hal, file, net, job, rebooting>>
    BY <1>9, <1>10
  <1>11. CASE ConfigEthWan(m = "eth")
    <2>1. CASE UNCHANGED job
      BY <1>9, <1>11, <2>1 DEF ConfigEthWan
    <2>2. ASSUME NEW t \in Threads,
                 job' = [job EXCEPT ![t] = [Idle EXCEPT !.at = "start", !.v = (m = "eth")]]
          PROVE  Bridged'
      <3>1. /\ \A u \in Workers \ {t} : job'[u] = job[u]
            /\ job'[t].at = "start" /\ t \in Workers
        BY <1>2, <2>2 DEF Types, Jobs, Idle
      <3>2. Active(t)' /\ job'[t].at \notin Late /\ t # "bus"
        BY <3>1, ThreadsAssumption DEF Active, Late
      <3> QED
        BY <1>1, <1>3, <1>4, <1>6, <1>7, <3>1, <3>2, BeginBridges
    <2> QED
      BY <1>11, <2>1, <2>2 DEF ConfigEthWan
  <1>12. CASE StoreAndReboot(m = "eth", stored)
    BY <1>9, <1>12 DEF StoreAndReboot, Fault
  <1> QED
    BY <1>10, <1>11, <1>12 DEF EthernetWAN_SetParamStringValue, CosaDmlEthWanSetEnable, stored

LEMMA WanManagerBridges ==
    ASSUME Types, Good, Bridged, WanManagerTries \/ WanManagerFinalizes
    PROVE  Bridged'
  <1>1. "bus" \in Workers /\ "bus" \notin Threads /\ Threads \subseteq Workers
    BY ThreadsAssumption DEF Workers
  <1>2. AllRest
    <2>1. CASE wm.trial
      <3>1. \A t \in Threads : ~Active(t)
        BY <2>1 DEF Good, Solo
      <3>2. ~Active("bus")
        BY DEF WanManagerTries, WanManagerFinalizes, At, Active
      <3> QED
        BY <3>1, <3>2 DEF AllRest, Workers
    <2>2. CASE Resting
      BY <2>2, RestingRests
    <2> QED
      BY <2>1, <2>2 DEF WanManagerTries, WanManagerFinalizes
  <1>3. UNCHANGED <<build, net, sys, damage>>
    BY DEF WanManagerTries, WanManagerFinalizes, mode, Unharmed, bounds
  <1>4. "mode" \notin damage => (Up <=> sys.last = "eth")
    <2>1. CASE wm.trial
      BY <2>1 DEF Bridged, UpIsLast
    <2>2. ASSUME ~wm.trial, "mode" \notin damage
          PROVE  Up <=> sys.last = "eth"
      <3>1. Resting /\ (Recorded \/ (sys.last = "unknown" /\ ~hal)) /\ hal \in BOOLEAN
        BY <2>2 DEF WanManagerTries, WanManagerFinalizes, Types, ModeTypes
      <3>2. LaidOut
        BY <1>2, <2>2, <3>1 DEF Bridged, LaidAtRest, Resting
      <3> QED
        BY <3>1, <3>2 DEF LaidOut, Recorded, ModeOf
    <2> QED
      BY <2>1, <2>2
  <1>5. /\ \A u \in Workers \ {"bus"} : job'[u] = job[u]
        /\ job'["bus"].at \in {"take", "hal", "fin"}
        /\ wm'.trial <=> job'["bus"].at # "fin"
    <2>1. CASE WanManagerTries
      <3>1. PICK v \in BOOLEAN : job' = [job EXCEPT !["bus"] = [Idle EXCEPT !.at = First(v), !.v = v]]
        BY <2>1 DEF WanManagerTries
      <3>2. job'["bus"].at = First(v) /\ \A u \in Workers \ {"bus"} : job'[u] = job[u]
        BY <1>1, <3>1 DEF Types, Jobs, Idle
      <3>3. wm'.trial
        BY <2>1 DEF WanManagerTries, Types, InformTypes, WanManagers
      <3> QED
        BY <3>2, <3>3 DEF First
    <2>2. CASE WanManagerFinalizes
      BY <1>1, <2>2
      DEF WanManagerFinalizes, Types, Jobs, Idle, InformTypes, WanManagers
    <2> QED
      BY <2>1, <2>2
  <1>6. Active("bus")' /\ job'["bus"].at \notin Late
    BY <1>5 DEF Active, Late
  <1> QED
    BY <1>1, <1>2, <1>3, <1>4, <1>5, <1>6, BeginBridges

LEMMA AsideBridges ==
    ASSUME Types, Bridged, BootInform \/ ThreadUpdateInformMsg \/ WanManagerRecords \/ UNCHANGED vars
    PROVE  Bridged'
  <1>1. CASE WanManagerRecords
    <2>1. /\ AllRest /\ ~wm.trial /\ ~rebooting
          /\ UNCHANGED <<build, hal, net, job, wm, damage, rebooting>>
      BY <1>1, RestingRests DEF WanManagerRecords, Resting, Unharmed, bounds
    <2>2. \A w \in Workers : ~Active(w)'
      BY <2>1 DEF AllRest, Active
    <2>3. ShapeKept' /\ ("mode" \notin damage' => LaidOut')
      BY <2>1 DEF Bridged, ShapeKept, LaidAtRest, LaidOut, Up
    <2> QED
      BY <2>1, <2>2, <2>3, RestBridges
  <1>2. CASE BootInform \/ ThreadUpdateInformMsg \/ UNCHANGED vars
    <2>1. UNCHANGED <<build, hal, net, job, sys, rebooting>> /\ wm'.trial = wm.trial
      BY <1>2 DEF BootInform, BootInformBegins, BootInformName, BootInformRest,
                  ThreadUpdateInformMsg, mode, vars, Types, InformTypes, WanManagers
    <2>2. "mode" \in damage => "mode" \in damage'
      BY <1>2 DEF BootInform, BootInformBegins, BootInformName, BootInformRest,
                  ThreadUpdateInformMsg, vars, Fault, Told, Unharmed, bounds
    <2> QED
      BY <2>1, <2>2 DEF Bridged, ShapeKept, BusOnTrial, UpIsLast, Up, LaidAtEnd, LaidAtRest,
                        LaidOut, AllRest, Active
  <1> QED
    BY <1>1, <1>2

LEMMA RestartBridges ==
    ASSUME Types, Bridged, AgentRestarts \/ DeviceReboots
    PROVE  Bridged'
  <1> DEFINE p == build.platform
  <1>0. p \in Platforms /\ hal \in BOOLEAN /\ net \in Nets
    BY DEF Types, Builds, ModeTypes
  <1>1. ~wm'.trial
    BY DEF AgentRestarts, DeviceReboots, Types, InformTypes, WanManagers
  <1>2. ASSUME NEW n, Restart(n)
        PROVE  /\ UNCHANGED <<build, hal>> /\ net' = StartNet(n)
               /\ \A w \in Workers : ~Active(w)'
    BY <1>2 DEF Restart, Active, Idle
  <1> HIDE DEF p
  <1>3. CASE AgentRestarts
    <2>1. PICK up \in BOOLEAN, where \in Wheres : Shaped(net, p, up, where)
      BY DEF Bridged, ShapeKept, p
    <2> DEFINE nup == hal \/ up
               there == IF hal THEN Landing(p, where) ELSE where
    <2>2. /\ nup \in BOOLEAN /\ there \in Wheres
          /\ Shaped(StartNet(net), p, nup, there)
          /\ hal /\ where = "wan" => there = "wan"
          /\ ~hal => there = where
          /\ nup <=> hal \/ up
      BY <1>0, <2>1, StartedShape DEF p, Landing, Wheres
    <2> HIDE DEF nup, there
    <2>3. UNCHANGED <<build, hal>> /\ net' = StartNet(net) /\ \A w \in Workers : ~Active(w)'
      BY <1>2, <1>3 DEF AgentRestarts
    <2>4. ShapeKept'
      BY <2>2, <2>3 DEF ShapeKept, p
    <2>5. "mode" \notin damage' => LaidOut
      BY <1>3 DEF AgentRestarts, Torn, At, AllRest, Active, Bridged, LaidAtRest
    <2>6. LaidOut => LaidOut'
      <3>1. (net.name["bridge"] # "" <=> up) /\ net.in["port"] = where
        BY <1>0, <2>1, ShapeFacts
      <3>2. (net'.name["bridge"] # "" <=> nup) /\ net'.in["port"] = there
        BY <1>0, <2>2, <2>3, ShapeFacts
      <3> QED
        BY <1>0, <2>2, <2>3, <3>1, <3>2 DEF LaidOut, Up
    <2> QED
      BY <1>1, <2>3, <2>4, <2>5, <2>6, RestBridges
  <1>4. CASE DeviceReboots
    <2>1. UNCHANGED <<build, hal>> /\ net' = StartNet(BootNet(p, hal)) /\ \A w \in Workers : ~Active(w)'
      BY <1>2, <1>4 DEF DeviceReboots, p
    <2>2. Shaped(net', p, hal, IF hal THEN "wan" ELSE "lan")
      BY <1>0, <2>1, BootedShape DEF p
    <2>3. ShapeKept'
      BY <1>0, <2>1, <2>2 DEF ShapeKept, Wheres, p
    <2>4. LaidOut'
      <3>1. (net'.name["bridge"] # "" <=> hal) /\ net'.in["port"] = IF hal THEN "wan" ELSE "lan"
        BY <1>0, <2>2, ShapeFacts
      <3> QED
        BY <1>0, <2>1, <3>1 DEF LaidOut, Up
    <2> QED
      BY <1>1, <2>1, <2>3, <2>4, RestBridges
  <1> QED
    BY <1>3, <1>4

LEMMA NextBridges == Patient /\ Types /\ Good /\ Serving /\ Bridged /\ [Next]_vars => Bridged'
  <1> SUFFICES ASSUME Patient, Types, Good, Serving, Bridged, [Next]_vars
               PROVE  Bridged'
    OBVIOUS
  <1>1. Threads \subseteq Workers /\ "bus" \in Workers
    BY DEF Workers
  <1>2. CASE BusStep
    BY <1>1, <1>2, ConfigureBridges, FinalizeBridges DEF BusStep
  <1>3. ASSUME NEW t \in Threads, ThreadStep(t)
        PROVE  Bridged'
    BY <1>1, <1>3, ConfigureBridges, ThreadBridges, FinalizeBridges DEF ThreadStep
  <1>4. CASE \E m \in {"auto", "eth", "docsis"} : EthernetWAN_SetParamStringValue(m)
    BY <1>4, WriteBridges
  <1>5. CASE BootInform \/ ThreadUpdateInformMsg \/ WanManagerRecords \/ UNCHANGED vars
    BY <1>5, AsideBridges
  <1>6. CASE WanManagerTries \/ WanManagerFinalizes
    BY <1>6, WanManagerBridges
  <1>7. CASE AgentRestarts \/ DeviceReboots
    BY <1>7, RestartBridges
  <1> QED
    BY <1>2, <1>3, <1>4, <1>5, <1>6, <1>7 DEF Next

LEMMA InitBridges == Init => Bridged
  <1> SUFFICES ASSUME Init
               PROVE  Bridged
    OBVIOUS
  <1>1. /\ \A w \in Workers : job[w] = Idle
        /\ ~wm.trial /\ hal \in BOOLEAN /\ build.platform \in Platforms
        /\ net = StartNet(BootNet(build.platform, hal))
    BY DEF Init, Platforms
  <1>2. Shaped(net, build.platform, hal, IF hal THEN "wan" ELSE "lan")
    BY <1>1, BootedShape
  <1>3. ShapeKept
    BY <1>1, <1>2 DEF ShapeKept, Wheres
  <1>4. LaidOut
    <2> DEFINE where == IF hal THEN "wan" ELSE "lan"
    <2>0. where \in Wheres /\ Shaped(net, build.platform, hal, where)
      BY <1>2 DEF Wheres
    <2> HIDE DEF where
    <2>2. (net.name["bridge"] # "" <=> hal) /\ net.in["port"] = where
      BY <1>1, <2>0, ShapeFacts, ZenonT(40)
    <2>1. (net.name["bridge"] # "" <=> hal) /\ net.in["port"] = IF hal THEN "wan" ELSE "lan"
      BY <2>2 DEF where
    <2> QED
      BY <1>1, <2>1 DEF LaidOut, Up
  <1>5. Threads \subseteq Workers /\ "bus" \in Workers /\ Idle.at = "idle" /\ "idle" \notin Late
    BY DEF Workers, Idle, Late
  <1> QED
    BY <1>1, <1>3, <1>4, <1>5
    DEF Bridged, BusOnTrial, UpIsLast, LaidAtEnd, LaidAtRest, Active

\* The decision by last_wan_mode whether the bridges have to be rearranged is
\* right on every path, start-up and rollback included: at rest they have the
\* layout of the mode.
THEOREM BridgesFollow ==
    ASSUME Patient
    PROVE  Spec => []BridgeFollowsMode
  <1>1. Init => Types /\ Good /\ Serving /\ Bridged
    BY InitTypes, InitIsGood, InitServes, InitBridges
  <1>2. Types /\ Good /\ Serving /\ Bridged /\ [Next]_vars => (Types /\ Good /\ Serving /\ Bridged)'
    BY NextTypes, NextIsGood, NextServes, NextBridges
  <1>3. Types /\ Bridged => BridgeFollowsMode
    BY LaidOutIsLayout, RestingRests DEF Bridged, LaidAtRest, BridgeFollowsMode, Settled, Resting
  <1> QED
    BY <1>1, <1>2, <1>3, PTL DEF Spec


-----------------------------------------------------------------------------
(* The name of the Ethernet WAN                                            *)

Clean == damage \cap {"flags", "mode"} = {}

\* The update thread runs alone.
UpdateAtRest == update.at # "off" => AllRest /\ ~wm.trial

\* A change knows the right device, and has told the WAN manager.
NameInHand == \A t \in Threads : job[t].at = "names" => job[t].eth = hal
NameGiven == \A t \in Threads : job[t].at \in {"resume", "end"} /\ (~job[t].rolled \/ Clean) =>
                                    wm.eth = DeviceName(hal)
UpdateIsRight == update.at = "send" /\ Clean => update.msg = DeviceName(hal)
NamedAtRest == Resting /\ inform.at \in {"rest", "off"} /\ Clean => wm.eth = DeviceName(hal)

\* The last name that was to be written has arrived, and was not an old one.
Arrived == damage \cap {"name", "stale"} = {}

NameKnown == Arrived => NameGiven /\ NamedAtRest
RightlyNamed == UpdateAtRest /\ NameInHand /\ UpdateIsRight /\ NameKnown

\* What InitBootInformInfo finds when the copies of the mode agree.
LEMMA InfoIsRight ==
    ASSUME Types, Synced
    PROVE  InitBootInformInfo = DeviceName(hal)
  BY DEF Types, ModeTypes, Synced, InitBootInformInfo

\* A step with which a job is under way and has not come to the names.
LEMMA WorkNames ==
    ASSUME NEW w \in Workers, \A u \in Workers \ {w} : ~Active(u)', job'[w].at \notin Late,
           update.at = "off", update' = update, Active(w)' \/ wm'.trial
    PROVE  RightlyNamed'
  <1>1. Threads \subseteq Workers /\ "idle" \notin Late
    BY DEF Workers, Late
  <1>2. \A u \in Workers : job'[u].at \notin Late
    BY <1>1 DEF Active
  <1>3. NameInHand' /\ NameGiven'
    BY <1>1, <1>2 DEF NameInHand, NameGiven, Late
  <1>4. ~Resting'
    BY DEF Resting, At, Active
  <1>5. NamedAtRest' /\ UpdateIsRight' /\ UpdateAtRest'
    BY <1>4 DEF NamedAtRest, UpdateIsRight, UpdateAtRest
  <1> QED
    BY <1>3, <1>5 DEF RightlyNamed, NameKnown

\* While a job is under way the update thread is not.
LEMMA NoUpdateNow ==
    ASSUME RightlyNamed, NEW w \in Workers, Active(w)
    PROVE  update.at = "off"
  BY DEF RightlyNamed, UpdateAtRest, AllRest

LEMMA ConfigureNames ==
    ASSUME Types, Good, Bridged, RightlyNamed, NEW w \in Workers,
           \/ TakePort(w) \/ EthwanEnableWithoutReboot(w) \/ MarkFile(w) \/ CommitFlag(w)
           \/ CosaDmlConfigureEthWan(w)
    PROVE  RightlyNamed'
  <1>0. {"hal", "file", "flag", "late", "fin", "back", "idle"} \subseteq Steps
    BY DEF Steps
  <1>1. Active(w) /\ job[w].at # "fin" /\ wm' = wm /\ update' = update
    BY DEF TakePort, EthwanEnableWithoutReboot, MarkFile, CommitFlag, CosaDmlConfigureEthWan,
           Active, At
  <1>2. \/ \E s \in {"hal", "file", "flag", "late", "fin", "back"} : To(w, s)
        \/ w = "bus" /\ Done(w)
    BY DEF TakePort, EthwanEnableWithoutReboot, MarkFile, CommitFlag,
           CosaDmlConfigureEthWan, Failed
  <1>3. /\ \A u \in Workers \ {w} : job'[u] = job[u]
        /\ job'[w].at \notin Late /\ (w # "bus" => Active(w)')
    BY <1>0, <1>2, JobAfter DEF Active, Late
  <1>4. Active(w)' \/ wm'.trial
    BY <1>1, <1>3 DEF Bridged, BusOnTrial
  <1>5. \A u \in Workers \ {w} : ~Active(u)'
    BY <1>1, <1>3, OthersRest DEF Good, Active
  <1> QED
    BY <1>1, <1>3, <1>4, <1>5, NoUpdateNow, WorkNames

LEMMA ThreadNames ==
    ASSUME Types, Good, RightlyNamed, NEW t \in Threads,
           \/ ThreadConfigEthWan(t) \/ RollBack(t) \/ CosaDmlIfaceFinalize(t)
           \/ WriteWanNames(t) \/ ResumeWanManager(t) \/ EndConfigEthWan(t)
    PROVE  RightlyNamed'
  <1>0. /\ {"take", "hal", "names", "resume", "end", "idle"} \subseteq Steps /\ t \in Workers
        /\ job[t] \in Job /\ job \in Jobs /\ t # "bus" /\ "bus" \in Workers
        /\ Threads \subseteq Workers
    BY ThreadsAssumption DEF Steps, Workers, Types, Jobs
  <1>1. Active(t) /\ UNCHANGED <<hal, inform, update>>
    BY <1>0 DEF ThreadConfigEthWan, RollBack, CosaDmlIfaceFinalize, WriteWanNames,
           ResumeWanManager, EndConfigEthWan, Active, At, mode
  <1>2. update.at = "off"
    BY <1>0, <1>1, NoUpdateNow
  <1>3. UpdateAtRest' /\ UpdateIsRight'
    BY <1>1, <1>2 DEF UpdateAtRest, UpdateIsRight
  <1>4. \A u \in Workers \ {t} : job'[u] = job[u]
    <2>1. CASE ThreadConfigEthWan(t)
      BY <1>0, <2>1, JobAfter DEF ThreadConfigEthWan, First
    <2>2. CASE RollBack(t)
      BY <1>0, <2>2 DEF RollBack, Jobs
    <2>3. CASE CosaDmlIfaceFinalize(t)
      BY <1>0, <2>3 DEF CosaDmlIfaceFinalize, Jobs
    <2>4. CASE WriteWanNames(t) \/ ResumeWanManager(t) \/ EndConfigEthWan(t)
      BY <1>0, <2>4, JobAfter DEF WriteWanNames, ResumeWanManager, EndConfigEthWan
    <2> QED
      BY <2>1, <2>2, <2>3, <2>4
  <1>5. \A u \in Workers \ {t} : ~Active(u)' /\ job'[u].at = "idle"
    BY <1>0, <1>1, <1>4, OthersRest DEF Good, Active
  <1>6. CASE ThreadConfigEthWan(t) \/ RollBack(t)
    <2>1. job'[t].at \in {"take", "hal"}
      <3>1. CASE ThreadConfigEthWan(t)
        <4>1. First(job[t].v) \in {"take", "hal"} /\ To(t, First(job[t].v))
          BY <3>1 DEF ThreadConfigEthWan, First
        <4> QED
          BY <1>0, <4>1, JobAfter
      <3>2. CASE RollBack(t)
        <4>1. job' = [job EXCEPT ![t] = [Idle EXCEPT !.at = First(~job[t].v), !.v = ~job[t].v,
                                                     !.rolled = TRUE]]
          BY <3>2 DEF RollBack
        <4> QED
          BY <1>0, <4>1 DEF Idle, Jobs, First
      <3> QED
        BY <1>6, <3>1, <3>2
    <2>2. job'[t].at \notin Late /\ Active(t)'
      BY <2>1 DEF Late, Active
    <2> QED
      BY <1>0, <1>1, <1>2, <1>5, <2>2, WorkNames
  <1>7. CASE CosaDmlIfaceFinalize(t)
    <2>1. job'[t].at = "names" /\ job'[t].eth = hal
      <3>1. job' = [job EXCEPT ![t] = [@ EXCEPT !.at = "names", !.eth = hal]]
        BY <1>0, <1>7 DEF CosaDmlIfaceFinalize
      <3>2. job'[t] = [job[t] EXCEPT !.at = "names", !.eth = hal]
        BY <1>0, <3>1 DEF Jobs
      <3> QED
        BY <1>0, <3>2 DEF Job
    <2>2. NameInHand' /\ NameGiven'
      BY <1>0, <1>1, <1>5, <2>1 DEF NameInHand, NameGiven
    <2>3. NamedAtRest'
      BY <1>0, <2>1 DEF NamedAtRest, Resting, At
    <2> QED
      BY <1>3, <2>2, <2>3 DEF RightlyNamed, NameKnown
  <1>8. CASE WriteWanNames(t)
    <2>1. job'[t].at = "resume" /\ job[t].at = "names"
      BY <1>0, <1>8, JobAfter DEF WriteWanNames, At
    <2>2. NameInHand' /\ NamedAtRest'
      BY <1>0, <1>5, <2>1 DEF NameInHand, NamedAtRest, Resting, At
    <2>3. Arrived' => wm'.eth = DeviceName(hal)
      BY <1>8, <2>1
      DEF WriteWanNames, Fault, Arrived, RightlyNamed, NameInHand, Types, InformTypes, WanManagers
    <2>4. Arrived' => NameGiven'
      BY <1>1, <2>3, <1>0, <1>5 DEF NameGiven
    <2> QED
      BY <1>3, <2>2, <2>4 DEF RightlyNamed, NameKnown
  <1>9. CASE ResumeWanManager(t)
    <2>1. job'[t].at = "end" /\ job'[t].rolled = job[t].rolled /\ job[t].at = "resume"
      BY <1>0, <1>9, JobAfter DEF ResumeWanManager, At
    <2>2. NameInHand' /\ NamedAtRest'
      BY <1>0, <1>5, <2>1 DEF NameInHand, NamedAtRest, Resting, At
    <2>3. wm'.eth = wm.eth
      BY <1>9 DEF ResumeWanManager, Types, InformTypes, WanManagers
    <2>4. (Clean' => Clean) /\ (Arrived' => Arrived)
      BY <1>9 DEF ResumeWanManager, Fault, Clean, Arrived
    <2>5. Arrived' => NameGiven'
      <3>1. ASSUME Arrived', ~job[t].rolled \/ Clean'
            PROVE  wm'.eth = DeviceName(hal')
        BY <1>1, <2>1, <2>3, <2>4, <3>1 DEF RightlyNamed, NameKnown, NameGiven
      <3> QED
        BY <1>0, <1>5, <2>1, <3>1 DEF NameGiven
    <2> QED
      BY <1>3, <2>2, <2>5 DEF RightlyNamed, NameKnown
  <1>10. CASE EndConfigEthWan(t)
    <2>1. job'[t].at = "idle" /\ job[t].at = "end"
      BY <1>0, <1>10, JobAfter DEF EndConfigEthWan, At
    <2>2. NameInHand' /\ NameGiven'
      BY <1>0, <1>5, <2>1 DEF NameInHand, NameGiven
    <2>3. /\ wm' = wm
          /\ Clean' => ~job[t].rolled \/ Clean
          /\ Arrived' => Arrived
      BY <1>10 DEF EndConfigEthWan, Clean, Arrived
    <2>4. Arrived' => NamedAtRest'
      BY <1>1, <2>1, <2>3 DEF NamedAtRest, RightlyNamed, NameKnown, NameGiven
    <2> QED
      BY <1>3, <2>2, <2>4 DEF RightlyNamed, NameKnown
  <1> QED
    BY <1>6, <1>7, <1>8, <1>9, <1>10

LEMMA BusFinalizeNames ==
    ASSUME Types, Good, Bridged, RightlyNamed, CosaDmlIfaceFinalize("bus")
    PROVE  RightlyNamed'
  <1>0. "bus" \in Workers /\ Threads \subseteq Workers
    BY DEF Workers
  <1>1. Done("bus") /\ job["bus"].at = "fin" /\ Active("bus") /\ wm' = wm /\ update'.at = "start"
    BY DEF CosaDmlIfaceFinalize, At, Active, NoUpdate
  <1>2. \A u \in Workers : job'[u].at = "idle"
    <2>1. /\ \A u \in Workers \ {"bus"} : job'[u] = job[u]
          /\ job'["bus"].at = "idle"
      BY <1>0, <1>1, JobAfter DEF Steps
    <2> QED
      BY <1>0, <1>1, <2>1, OthersRest DEF Good, Active
  <1>3. UpdateAtRest'
    BY <1>1, <1>2 DEF UpdateAtRest, AllRest, Active, Bridged, BusOnTrial
  <1>4. NameInHand' /\ NameGiven' /\ UpdateIsRight' /\ NamedAtRest'
    BY <1>0, <1>1, <1>2 DEF NameInHand, NameGiven, UpdateIsRight, NamedAtRest, Resting
  <1> QED
    BY <1>3, <1>4 DEF RightlyNamed, NameKnown

\* A step that leaves the jobs, the mode and the name alone.
LEMMA StillNamed ==
    ASSUME RightlyNamed, UNCHANGED <<hal, job, update>>, wm'.eth = wm.eth, wm'.trial = wm.trial,
           Resting' /\ inform'.at \in {"rest", "off"} /\ Clean' =>
               Resting /\ inform.at \in {"rest", "off"},
           damage \subseteq damage'
    PROVE  RightlyNamed'
  <1>1. (Clean' => Clean) /\ (Arrived' => Arrived)
    BY DEF Clean, Arrived
  <1>2. UpdateAtRest'
    BY DEF RightlyNamed, UpdateAtRest, AllRest, Active
  <1>3. NameInHand' /\ UpdateIsRight'
    BY <1>1 DEF RightlyNamed, NameInHand, UpdateIsRight
  <1>4. NameGiven /\ NamedAtRest => NameGiven' /\ NamedAtRest'
    BY <1>1 DEF NameGiven, NamedAtRest
  <1> QED
    BY <1>1, <1>2, <1>3, <1>4 DEF RightlyNamed, NameKnown

LEMMA WriteNames ==
    ASSUME Patient, Types, RightlyNamed, NEW m \in {"auto", "eth", "docsis"},
           EthernetWAN_SetParamStringValue(m)
    PROVE  RightlyNamed'
  <1> DEFINE stored == [sys EXCEPT !.sel = m]
  <1>1. /\ Resting /\ AllRest /\ wm' = wm /\ inform' = inform /\ update' = update
        /\ update.at = "off" /\ Threads \subseteq Workers
    BY RestingRests DEF EthernetWAN_SetParamStringValue, MayWrite, Resting, Workers
  <1>2. damage \subseteq damage'
    BY DEF EthernetWAN_SetParamStringValue, CosaDmlEthWanSetEnable, ConfigEthWan, StoreAndReboot,
           Fault, Unharmed, bounds
  <1>3. CASE UNCHANGED <<hal, job>>
    BY <1>1, <1>2, <1>3, StillNamed
  <1>4. CASE ConfigEthWan(m = "eth")
    <2>1. CASE UNCHANGED job
      BY <1>3, <1>4, <2>1 DEF ConfigEthWan
    <2>2. ASSUME NEW t \in Threads,
                 job' = [job EXCEPT ![t] = [Idle EXCEPT !.at = "start", !.v = (m = "eth")]]
          PROVE  RightlyNamed'
      <3>1. /\ \A u \in Workers \ {t} : ~Active(u)'
            /\ job'[t].at = "start" /\ t \in Workers
        BY <1>1, <2>2 DEF Types, Jobs, Idle, AllRest, Active
      <3>2. Active(t)' /\ job'[t].at \notin Late
        BY <3>1 DEF Active, Late
      <3> QED
        BY <1>1, <3>1, <3>2, WorkNames
    <2> QED
      BY <1>4, <2>1, <2>2 DEF ConfigEthWan
  <1>5. CASE StoreAndReboot(m = "eth", stored)
    <2>1. UNCHANGED job /\ (rebooting' \/ ~Clean')
      BY <1>5 DEF StoreAndReboot, Fault, Clean
    <2>2. \A w \in Workers : ~Active(w)'
      BY <1>1, <2>1 DEF AllRest, Active
    <2>3. NameInHand' /\ NameGiven'
      BY <1>1, <2>2 DEF NameInHand, NameGiven, Active
    <2>4. UpdateAtRest' /\ UpdateIsRight' /\ NamedAtRest'
      BY <1>1, <2>1 DEF UpdateAtRest, UpdateIsRight, NamedAtRest, Resting
    <2> QED
      BY <2>3, <2>4 DEF RightlyNamed, NameKnown
  <1> QED
    BY <1>3, <1>4, <1>5 DEF EthernetWAN_SetParamStringValue, CosaDmlEthWanSetEnable, stored

LEMMA WanManagerNames ==
    ASSUME Types, Good, RightlyNamed, WanManagerTries \/ WanManagerFinalizes
    PROVE  RightlyNamed'
  <1>1. "bus" \in Workers /\ "bus" \notin Threads /\ Threads \subseteq Workers
    BY ThreadsAssumption DEF Workers
  <1>2. AllRest /\ update.at = "off"
    <2>1. CASE wm.trial
      <3>1. \A t \in Threads : ~Active(t)
        BY <2>1 DEF Good, Solo
      <3>2. ~Active("bus")
        BY DEF WanManagerTries, WanManagerFinalizes, At, Active
      <3>3. update.at = "off"
        BY <2>1 DEF RightlyNamed, UpdateAtRest
      <3> QED
        BY <3>1, <3>2, <3>3 DEF AllRest, Workers
    <2>2. CASE Resting
      BY <2>2, RestingRests DEF Resting
    <2> QED
      BY <2>1, <2>2 DEF WanManagerTries, WanManagerFinalizes
  <1>3. update' = update
    BY DEF WanManagerTries, WanManagerFinalizes
  <1>4. /\ \A u \in Workers \ {"bus"} : job'[u] = job[u]
        /\ job'["bus"].at \in {"take", "hal", "fin"}
    <2>1. CASE WanManagerTries
      <3>1. PICK v \in BOOLEAN : job' = [job EXCEPT !["bus"] = [Idle EXCEPT !.at = First(v), !.v = v]]
        BY <2>1 DEF WanManagerTries
      <3>2. job'["bus"].at = First(v) /\ \A u \in Workers \ {"bus"} : job'[u] = job[u]
        BY <1>1, <3>1 DEF Types, Jobs, Idle
      <3> QED
        BY <3>2 DEF First
    <2>2. CASE WanManagerFinalizes
      BY <1>1, <2>2 DEF WanManagerFinalizes, Types, Jobs, Idle
    <2> QED
      BY <2>1, <2>2
  <1>5. Active("bus")' /\ job'["bus"].at \notin Late /\ \A u \in Workers \ {"bus"} : ~Active(u)'
    BY <1>2, <1>4 DEF Active, Late, AllRest
  <1> QED
    BY <1>1, <1>2, <1>3, <1>5, WorkNames

LEMMA RecordNames ==
    ASSUME RightlyNamed, WanManagerRecords \/ UNCHANGED vars
    PROVE  RightlyNamed'
  <1>1. /\ UNCHANGED <<hal, job, update, inform, wm, rebooting>> /\ damage' = damage
    BY DEF WanManagerRecords, vars, mode, Unharmed, bounds
  <1>2. Resting' => Resting
    BY <1>1 DEF Resting, At
  <1> QED
    BY <1>1, <1>2, StillNamed

\* Where a thread has told the name, the copies of the mode agree.
LEMMA GivenIsSynced ==
    ASSUME Types, Good, NEW t \in Threads, job[t].at \in {"resume", "end"}, ~job[t].rolled \/ Clean
    PROVE  Synced
  <1>1. CASE ~job[t].rolled
    BY <1>1 DEF Good, Mended, Ends
  <1>2. CASE Clean
    <2>1. t \in Workers /\ Active(t) /\ Untouched(job[t]) /\ "flags" \notin damage
      BY <1>2 DEF Workers, Active, Untouched, Ends, Clean
    <2> QED
      BY <2>1, WholeNow
  <1> QED
    BY <1>1, <1>2

LEMMA BootInformNames ==
    ASSUME Types, Good, RightlyNamed, BootInform
    PROVE  RightlyNamed'
  <1>1. UNCHANGED <<hal, file, sys, job, update, rebooting>> /\ wm'.trial = wm.trial
    BY DEF BootInform, BootInformBegins, BootInformName, BootInformRest, mode, Types, InformTypes,
           WanManagers
  <1>2. Clean' => Clean
    BY DEF BootInform, BootInformBegins, BootInformName, BootInformRest, Fault, Told, Unharmed, bounds,
           Clean
  <1>3. Resting' => Resting
    BY <1>1 DEF Resting, At
  <1>4. CASE /\ wm' = wm /\ damage \subseteq damage'
             /\ inform'.at \in {"rest", "off"} => inform.at \in {"rest", "off"}
    BY <1>1, <1>2, <1>3, <1>4, StillNamed
  <1>5. UpdateAtRest' /\ NameInHand' /\ UpdateIsRight'
    BY <1>1, <1>2 DEF RightlyNamed, UpdateAtRest, AllRest, Active, NameInHand, UpdateIsRight
  <1>6. CASE /\ wm' = [wm EXCEPT !.eth = inform.msg]
             /\ Told(inform.msg = InitBootInformInfo)
    <2>1. CASE inform.msg # InitBootInformInfo
      BY <1>5, <1>6, <2>1 DEF Told, Arrived, RightlyNamed, NameKnown
    <2>2. CASE inform.msg = InitBootInformInfo
      <3>1. wm'.eth = InitBootInformInfo
        BY <1>6, <2>2 DEF Types, InformTypes, WanManagers
      <3>2. Synced => wm'.eth = DeviceName(hal')
        BY <1>1, <3>1, InfoIsRight
      <3>3. NameGiven'
        BY <1>1, <1>2, <3>2, GivenIsSynced DEF NameGiven
      <3>4. Resting /\ Clean => Synced
        BY RestIsWhole, RestingRests DEF Clean
      <3>5. NamedAtRest'
        BY <1>2, <1>3, <3>2, <3>4 DEF NamedAtRest
      <3> QED
        BY <1>5, <3>3, <3>5 DEF RightlyNamed, NameKnown
    <2> QED
      BY <2>1, <2>2
  <1>7. CASE BootInformBegins
    <2>1. inform'.at = "name"
      BY <1>7 DEF BootInformBegins, Types, InformTypes, Informs
    <2> QED
      BY <1>4, <1>7, <2>1 DEF BootInformBegins, Unharmed, bounds
  <1>8. CASE BootInformName
    <2>1. CASE Fault({"name"})
      BY <1>5, <2>1 DEF Fault, Arrived, RightlyNamed, NameKnown
    <2> QED
      BY <1>6, <1>8, <2>1 DEF BootInformName
  <1>9. CASE BootInformRest
    BY <1>4, <1>9 DEF BootInformRest, Fault, Unharmed, bounds
  <1> QED
    BY <1>7, <1>8, <1>9 DEF BootInform

LEMMA UpdateNames ==
    ASSUME Types, Good, RightlyNamed, ThreadUpdateInformMsg
    PROVE  RightlyNamed'
  <1>1. /\ UNCHANGED <<hal, inform, job>> /\ wm'.trial = wm.trial
        /\ AllRest /\ ~wm.trial /\ (Clean' => Clean)
    <2>1. UNCHANGED <<hal, inform, job>> /\ wm'.trial = wm.trial
      BY DEF ThreadUpdateInformMsg, mode, Types, InformTypes, WanManagers
    <2>2. AllRest /\ ~wm.trial
      BY DEF ThreadUpdateInformMsg, RightlyNamed, UpdateAtRest
    <2>3. Clean' => Clean
      BY DEF ThreadUpdateInformMsg, Fault, Told, Unharmed, bounds, Clean
    <2> QED
      BY <2>1, <2>2, <2>3
  <1>2. AllRest' /\ ~wm'.trial /\ UpdateAtRest'
    BY <1>1 DEF AllRest, Active, UpdateAtRest
  <1>3. NameInHand' /\ NameGiven'
    <2>1. Threads \subseteq Workers
      BY DEF Workers
    <2> QED
      BY <1>2, <2>1 DEF AllRest, Active, NameInHand, NameGiven
  <1>4. CASE update.at = "start" /\ update' = [at |-> "send", msg |-> InitBootInformInfo]
    <2>1. Clean => Synced
      BY <1>1, RestIsWhole DEF Clean
    <2>2. UpdateIsRight'
      BY <1>1, <1>4, <2>1, InfoIsRight DEF UpdateIsRight
    <2>3. NamedAtRest'
      BY <1>4 DEF NamedAtRest, Resting
    <2> QED
      BY <1>2, <1>3, <2>2, <2>3 DEF RightlyNamed, NameKnown
  <1>5. CASE /\ update.at = "send" /\ update' = NoUpdate
             /\ wm' = [wm EXCEPT !.eth = update.msg]
    <2>1. wm'.eth = update.msg
      BY <1>5 DEF Types, InformTypes, WanManagers
    <2>2. NamedAtRest'
      BY <1>1, <1>5, <2>1 DEF NamedAtRest, RightlyNamed, UpdateIsRight
    <2>3. UpdateIsRight'
      BY <1>5 DEF UpdateIsRight, NoUpdate
    <2> QED
      BY <1>2, <1>3, <2>2, <2>3 DEF RightlyNamed, NameKnown
  <1>6. CASE update' = NoUpdate /\ Fault({"name"})
    <2>1. UpdateIsRight' /\ ~Arrived'
      BY <1>6 DEF Fault, Arrived, UpdateIsRight, NoUpdate
    <2> QED
      BY <1>2, <1>3, <2>1 DEF RightlyNamed, NameKnown
  <1> QED
    BY <1>4, <1>5, <1>6 DEF ThreadUpdateInformMsg

LEMMA RestartNames ==
    ASSUME AgentRestarts \/ DeviceReboots
    PROVE  RightlyNamed'
  <1>1. /\ job' = [w \in Workers |-> Idle] /\ inform'.at = "ready" /\ update'.at = "off"
    <2>1. ASSUME NEW n, Restart(n)
          PROVE  job' = [w \in Workers |-> Idle] /\ inform' = NoInform /\ update' = NoUpdate
      BY <2>1 DEF Restart
    <2>2. job' = [w \in Workers |-> Idle] /\ inform' = NoInform /\ update' = NoUpdate
      BY <2>1 DEF AgentRestarts, DeviceReboots
    <2> QED
      BY <2>2 DEF NoInform, NoUpdate
  <1>2. \A t \in Threads : job'[t].at = "idle"
    BY <1>1 DEF Workers, Idle
  <1> QED
    BY <1>1, <1>2
    DEF RightlyNamed, UpdateAtRest, NameKnown, NameInHand, NameGiven, UpdateIsRight, NamedAtRest

LEMMA NextNames ==
    Patient /\ Types /\ Good /\ Bridged /\ RightlyNamed /\ [Next]_vars => RightlyNamed'
  <1> SUFFICES ASSUME Patient, Types, Good, Bridged, RightlyNamed, [Next]_vars
               PROVE  RightlyNamed'
    OBVIOUS
  <1>1. Threads \subseteq Workers /\ "bus" \in Workers
    BY DEF Workers
  <1>2. CASE BusStep
    BY <1>1, <1>2, ConfigureNames, BusFinalizeNames DEF BusStep
  <1>3. ASSUME NEW t \in Threads, ThreadStep(t)
        PROVE  RightlyNamed'
    BY <1>1, <1>3, ConfigureNames, ThreadNames DEF ThreadStep
  <1>4. CASE \E m \in {"auto", "eth", "docsis"} : EthernetWAN_SetParamStringValue(m)
    BY <1>4, WriteNames
  <1>5. CASE BootInform \/ ThreadUpdateInformMsg
    BY <1>5, BootInformNames, UpdateNames
  <1>6. CASE WanManagerRecords \/ UNCHANGED vars
    BY <1>6, RecordNames
  <1>7. CASE WanManagerTries \/ WanManagerFinalizes
    BY <1>7, WanManagerNames
  <1>8. CASE AgentRestarts \/ DeviceReboots
    BY <1>8, RestartNames
  <1> QED
    BY <1>2, <1>3, <1>4, <1>5, <1>6, <1>7, <1>8 DEF Next

LEMMA InitNames == Init => RightlyNamed
  <1> SUFFICES ASSUME Init
               PROVE  RightlyNamed
    OBVIOUS
  <1>1. \A t \in Threads : job[t].at = "idle"
    BY DEF Init, Workers, Idle
  <1>2. inform.at = "ready" /\ update.at = "off"
    BY DEF Init, NoInform, NoUpdate
  <1> QED
    BY <1>1, <1>2
    DEF RightlyNamed, UpdateAtRest, NameKnown, NameInHand, NameGiven, UpdateIsRight, NamedAtRest

\* On every path by which a change ends, the name that the finalization, the
\* update or a start-up message wrote last is the device of the mode; only a
\* write that failed and a start-up message computed before the change leave
\* another name.
THEOREM NameFollows ==
    ASSUME Patient
    PROVE  Spec => []EthNameFollowsMode
  <1>1. Init => Types /\ Good /\ Serving /\ Bridged /\ RightlyNamed
    BY InitTypes, InitIsGood, InitServes, InitBridges, InitNames
  <1>2. Types /\ Good /\ Serving /\ Bridged /\ RightlyNamed /\ [Next]_vars =>
            (Types /\ Good /\ Serving /\ Bridged /\ RightlyNamed)'
    BY NextTypes, NextIsGood, NextServes, NextBridges, NextNames
  <1>3. RightlyNamed => EthNameFollowsMode
    BY DEF RightlyNamed, NameKnown, NamedAtRest, Clean, Arrived, EthNameFollowsMode, Settled
  <1> QED
    BY <1>1, <1>2, <1>3, PTL DEF Spec

-----------------------------------------------------------------------------
(* Of any user: a change that has begun has a thread behind it             *)

Began(t) == job[t].at \notin {"idle", "start"}
Works(t) == job[t].at \notin {"idle", "start", "end"}

\* A step that ends the work of no thread, and disables nothing.
LEMMA GoesOn ==
    ASSUME ChangeUnderWay,
           \A t \in Threads : (Works(t) => Works(t)') /\ (Began(t) => Began(t)'),
           wm'.enable = wm.enable,
           cfg'.oper = "inprogress" => cfg.oper = "inprogress",
           "disabled" \in damage => "disabled" \in damage'
    PROVE  ChangeUnderWay'
  BY DEF ChangeUnderWay, ResumeUnderWay, EndUnderWay, Works, Began

\* Within a change a thread goes from one step to another, and only the dispatcher
\* is done with it half-way.
LEMMA WorkGoesOn ==
    ASSUME Types, NEW w \in Workers, NEW s \in Steps \ {"idle", "start", "end"},
           To(w, s) \/ (w = "bus" /\ Done(w))
    PROVE  \A t \in Threads : (Works(t) => Works(t)') /\ (Began(t) => Began(t)')
  <1> SUFFICES ASSUME NEW t \in Threads
               PROVE  (Works(t) => Works(t)') /\ (Began(t) => Began(t)')
    OBVIOUS
  <1>1. t \in Workers /\ t # "bus"
    BY ThreadsAssumption DEF Workers
  <1>2. CASE t = w
    BY <1>1, <1>2, JobAfter DEF Works, Began
  <1>3. CASE t # w
    <2>1. job'[t] = job[t]
      BY <1>1, <1>3, JobAfter
    <2> QED
      BY <2>1 DEF Works, Began
  <1> QED
    BY <1>2, <1>3

LEMMA ConfigureGoesOn ==
    ASSUME Types, ChangeUnderWay, NEW w \in Workers,
           \/ TakePort(w) \/ EthwanEnableWithoutReboot(w) \/ MarkFile(w) \/ CommitFlag(w)
           \/ CosaDmlConfigureEthWan(w)
    PROVE  ChangeUnderWay'
  <1>1. wm' = wm
    BY DEF TakePort, EthwanEnableWithoutReboot, MarkFile, CommitFlag, CosaDmlConfigureEthWan
  <1>2. cfg'.oper = cfg.oper
    BY DEF TakePort, EthwanEnableWithoutReboot, MarkFile, CommitFlag, CosaDmlConfigureEthWan,
           Types, ModeTypes, EthWanCfg
  <1>3. "disabled" \in damage => "disabled" \in damage'
    BY DEF TakePort, EthwanEnableWithoutReboot, MarkFile, CommitFlag, CosaDmlConfigureEthWan,
           Failed, Fault, Unharmed, bounds
  <1>4. \E s \in Steps \ {"idle", "start", "end"} : To(w, s) \/ (w = "bus" /\ Done(w))
    <2>1. {"hal", "file", "flag", "late", "fin", "back"} \subseteq Steps \ {"idle", "start", "end"}
      BY DEF Steps
    <2> QED
      BY <2>1
      DEF TakePort, EthwanEnableWithoutReboot, MarkFile, CommitFlag, CosaDmlConfigureEthWan, Failed
  <1>5. \A t \in Threads : (Works(t) => Works(t)') /\ (Began(t) => Began(t)')
    BY <1>4, WorkGoesOn
  <1> QED
    BY <1>1, <1>2, <1>3, <1>5, GoesOn

LEMMA ThreadGoesOn ==
    ASSUME Types, ChangeUnderWay, NEW t \in Threads,
           \/ ThreadConfigEthWan(t) \/ RollBack(t) \/ CosaDmlIfaceFinalize(t) \/ WriteWanNames(t)
           \/ ResumeWanManager(t) \/ EndConfigEthWan(t)
    PROVE  ChangeUnderWay'
  <1>0. t \in Workers /\ t # "bus" /\ job[t] \in Job /\ Threads \subseteq Workers
    BY ThreadsAssumption DEF Workers, Types, Jobs
  <1>1. CASE ThreadConfigEthWan(t)
    <2>1. job'[t].at = First(job[t].v)
      BY <1>0, <1>1, FirstTypes, JobAfter DEF ThreadConfigEthWan, Job
    <2>2. Began(t)' /\ Works(t)'
      BY <2>1 DEF First, Began, Works
    <2> QED
      BY <2>2 DEF ChangeUnderWay, ResumeUnderWay, EndUnderWay, Began, Works
  <1>2. CASE RollBack(t)
    <2>1. /\ \A u \in Workers \ {t} : job'[u] = job[u]
          /\ job'[t].at = First(~job[t].v)
      BY <1>0, <1>2 DEF RollBack, Types, Jobs, Idle
    <2>2. Began(t)' /\ Works(t)'
      BY <2>1 DEF First, Began, Works
    <2> QED
      BY <2>2 DEF ChangeUnderWay, ResumeUnderWay, EndUnderWay, Began, Works
  <1>3. CASE CosaDmlIfaceFinalize(t)
    <2>1. job'[t].at = "names"
      BY <1>0, <1>3 DEF CosaDmlIfaceFinalize, Types, Jobs, Job
    <2>2. Began(t)' /\ Works(t)'
      BY <2>1 DEF Began, Works
    <2> QED
      BY <2>2 DEF ChangeUnderWay, ResumeUnderWay, EndUnderWay, Began, Works
  <1>4. CASE WriteWanNames(t)
    <2>1. job'[t].at = "resume"
      BY <1>0, <1>4, JobAfter DEF WriteWanNames, Steps
    <2>2. Began(t)' /\ Works(t)'
      BY <2>1 DEF Began, Works
    <2> QED
      BY <2>2 DEF ChangeUnderWay, ResumeUnderWay, EndUnderWay, Began, Works
  <1>5. CASE ResumeWanManager(t)
    <2>1. job'[t].at = "end"
      BY <1>0, <1>5, JobAfter DEF ResumeWanManager, Steps
    <2>2. EndUnderWay'
      BY <2>1 DEF EndUnderWay
    <2>3. wm'.enable \/ "disabled" \in damage'
      BY <1>5 DEF ResumeWanManager, Fault, Types, InformTypes, WanManagers
    <2> QED
      BY <2>2, <2>3 DEF ChangeUnderWay, ResumeUnderWay
  <1>6. CASE EndConfigEthWan(t)
    <2>1. job[t].at = "end" /\ \A u \in Threads \ {t} : job'[u] = job[u]
      BY <1>0, <1>6, JobAfter DEF Steps, EndConfigEthWan, At
    <2>2. cfg'.oper = "completed"
      BY <1>6 DEF EndConfigEthWan, Types, ModeTypes, EthWanCfg
    <2>3. EndUnderWay'
      BY <2>2 DEF EndUnderWay
    <2>4. wm' = wm /\ ("disabled" \in damage => "disabled" \in damage')
      BY <1>6 DEF EndConfigEthWan
    <2>5. ResumeUnderWay'
      BY <2>1, <2>4 DEF ChangeUnderWay, ResumeUnderWay
    <2> QED
      BY <2>3, <2>5 DEF ChangeUnderWay
  <1> QED
    BY <1>1, <1>2, <1>3, <1>4, <1>5, <1>6

\* The dispatcher has no part in it.
LEMMA BusGoesOn ==
    ASSUME Types, ChangeUnderWay,
           CosaDmlIfaceFinalize("bus") \/ WanManagerTries \/ WanManagerFinalizes
    PROVE  ChangeUnderWay'
  <1>1. \A t \in Threads : job'[t] = job[t]
    BY ThreadsAssumption
    DEF CosaDmlIfaceFinalize, WanManagerTries, WanManagerFinalizes, Done, Types, Jobs, Workers
  <1>2. wm'.enable = wm.enable /\ cfg' = cfg /\ damage' = damage
    BY DEF CosaDmlIfaceFinalize, WanManagerTries, WanManagerFinalizes, mode, Unharmed, bounds,
           Types, InformTypes, WanManagers
  <1> QED
    BY <1>1, <1>2, GoesOn DEF Works, Began

\* A write does not go ahead while a change is in progress, and a thread it starts
\* is one that was idle.
LEMMA WriteGoesOn ==
    ASSUME Types, ChangeUnderWay, NEW m \in {"auto", "eth", "docsis"},
           EthernetWAN_SetParamStringValue(m)
    PROVE  ChangeUnderWay'
  <1> DEFINE stored == [sys EXCEPT !.sel = m]
  <1>1. wm' = wm
    BY DEF EthernetWAN_SetParamStringValue
  <1>2. cfg'.oper = "none"
    BY DEF EthernetWAN_SetParamStringValue, Types, ModeTypes, EthWanCfg
  <1>3. "disabled" \in damage => "disabled" \in damage'
    BY DEF EthernetWAN_SetParamStringValue, CosaDmlEthWanSetEnable, ConfigEthWan, StoreAndReboot,
           Fault, Unharmed, bounds
  <1>4. ASSUME NEW t \in Threads, Works(t)
        PROVE  Works(t)'
    <2>1. CASE UNCHANGED job
      BY <1>4, <2>1 DEF Works
    <2>2. ASSUME NEW u \in Threads, At(u, "idle"),
                 job' = [job EXCEPT ![u] = [Idle EXCEPT !.at = "start", !.v = (m = "eth")]]
          PROVE  Works(t)'
      <3>1. t # u /\ t \in Workers
        BY <1>4, <2>2 DEF Works, At, Workers
      <3>2. job'[t] = job[t]
        BY <2>2, <3>1 DEF Types, Jobs
      <3> QED
        BY <1>4, <3>2 DEF Works
    <2> QED
      BY <2>1, <2>2
      DEF EthernetWAN_SetParamStringValue, CosaDmlEthWanSetEnable, ConfigEthWan, StoreAndReboot
  <1>5. ResumeUnderWay'
    BY <1>1, <1>3, <1>4 DEF ChangeUnderWay, ResumeUnderWay, Works
  <1> QED
    BY <1>2, <1>5 DEF ChangeUnderWay, EndUnderWay

\* The messages, the record of the mode and stuttering.
LEMMA AsideGoesOn ==
    ASSUME Types, ChangeUnderWay,
           BootInform \/ ThreadUpdateInformMsg \/ WanManagerRecords \/ UNCHANGED vars
    PROVE  ChangeUnderWay'
  <1>1. UNCHANGED <<job, cfg>>
    BY DEF BootInform, BootInformBegins, BootInformName, BootInformRest, ThreadUpdateInformMsg,
           WanManagerRecords, vars, mode
  <1>2. wm'.enable = wm.enable
    BY DEF BootInform, BootInformBegins, BootInformName, BootInformRest, ThreadUpdateInformMsg,
           WanManagerRecords, vars, Types, InformTypes, WanManagers
  <1>3. "disabled" \in damage => "disabled" \in damage'
    BY DEF BootInform, BootInformBegins, BootInformName, BootInformRest, ThreadUpdateInformMsg,
           WanManagerRecords, vars, Fault, Told, Unharmed, bounds
  <1> QED
    BY <1>1, <1>2, <1>3, GoesOn DEF Works, Began

LEMMA NothingInProgress == \A n : StartCfg(n).oper = "none"
  BY DEF StartCfg

\* After a restart nothing is in progress, and a WAN manager that was left
\* disabled is known to be.
LEMMA RestartGoesOn ==
    ASSUME Types, AgentRestarts \/ DeviceReboots
    PROVE  ChangeUnderWay'
  <1>1. cfg'.oper = "none"
    <2>1. ASSUME NEW n, Restart(n)
          PROVE  cfg'.oper = "none"
      BY <2>1, NothingInProgress DEF Restart
    <2> QED
      BY <2>1 DEF AgentRestarts, DeviceReboots
  <1>2. wm'.enable \/ "disabled" \in damage'
    <2>1. CASE AgentRestarts
      <3>1. wm'.enable = wm.enable
        BY <2>1 DEF AgentRestarts, Types, InformTypes, WanManagers
      <3>2. ~wm.enable => "disabled" \in damage'
        BY <2>1 DEF AgentRestarts
      <3> QED
        BY <3>1, <3>2
    <2>2. CASE DeviceReboots
      <3>1. wm'.enable = TRUE
        BY <2>2 DEF DeviceReboots
      <3> QED
        BY <3>1
    <2> QED
      BY <2>1, <2>2
  <1> QED
    BY <1>1, <1>2 DEF ChangeUnderWay, ResumeUnderWay, EndUnderWay

LEMMA NextGoesOn == Types /\ ChangeUnderWay /\ [Next]_vars => ChangeUnderWay'
  <1> SUFFICES ASSUME Types, ChangeUnderWay, [Next]_vars
               PROVE  ChangeUnderWay'
    OBVIOUS
  <1>1. Threads \subseteq Workers /\ "bus" \in Workers
    BY DEF Workers
  <1>2. CASE BusStep
    BY <1>1, <1>2, ConfigureGoesOn, BusGoesOn DEF BusStep
  <1>3. ASSUME NEW t \in Threads, ThreadStep(t)
        PROVE  ChangeUnderWay'
    BY <1>1, <1>3, ConfigureGoesOn, ThreadGoesOn DEF ThreadStep
  <1>4. CASE \E m \in {"auto", "eth", "docsis"} : EthernetWAN_SetParamStringValue(m)
    BY <1>4, WriteGoesOn
  <1>5. CASE BootInform \/ ThreadUpdateInformMsg \/ WanManagerRecords \/ UNCHANGED vars
    BY <1>5, AsideGoesOn
  <1>6. CASE WanManagerTries \/ WanManagerFinalizes
    BY <1>6, BusGoesOn
  <1>7. CASE AgentRestarts \/ DeviceReboots
    BY <1>7, RestartGoesOn
  <1> QED
    BY <1>2, <1>3, <1>4, <1>5, <1>6, <1>7 DEF Next

\* Whatever user: however many changes overlap, and whichever calls fail, a WAN
\* manager that was disabled (ThreadConfigEthWan) has a thread that has still to
\* enable it, unless the call that enables it failed or the agent restarted; and
\* the state "inprogress", which has every write refused, has a thread that has
\* still to leave it (EthernetWAN_SetParamStringValue).
THEOREM ChangeNotForgotten == Spec => []ChangeUnderWay
  <1>1. Init => Types /\ ChangeUnderWay
    <2> SUFFICES ASSUME Init
                 PROVE  Types /\ ChangeUnderWay
      OBVIOUS
    <2>1. wm.enable = TRUE
      BY DEF Init
    <2>2. cfg.oper = "none"
      BY NothingInProgress DEF Init
    <2> QED
      BY <2>1, <2>2, InitTypes DEF ChangeUnderWay, ResumeUnderWay, EndUnderWay
  <1>2. Types /\ ChangeUnderWay /\ [Next]_vars => (Types /\ ChangeUnderWay)'
    BY NextTypes, NextGoesOn
  <1> QED
    BY <1>1, <1>2, PTL DEF Spec

-----------------------------------------------------------------------------
(* Of any user: changes overlap only through the gap of a thread's start   *)

Taken(t) == job[t].at # "idle"

\* A thread was created that has not yet made the writes be refused.
Gap == \E t \in Threads : At(t, "start")
StartsThread == \E t \in Threads : At(t, "idle") /\ job'[t].at = "start"
KeepsOffGap == Gap => ~StartsThread

Alone == \A s, t \in Threads : Taken(s) /\ Taken(t) => s = t
Refusing == \A t \in Threads : Began(t) => cfg.oper = "inprogress"
InTurn == Alone /\ Refusing

\* A step that starts no thread and leaves the state of the change alone.
LEMMA TurnStays ==
    ASSUME InTurn, \A t \in Threads : job'[t] = job[t], cfg'.oper = cfg.oper
    PROVE  InTurn'
  BY DEF InTurn, Alone, Refusing, Taken, Began

\* A step that leaves one thread at most.
LEMMA TurnOfOne ==
    ASSUME NEW t \in Threads, \A u \in Threads \ {t} : ~Taken(u)',
           Began(t)' => cfg'.oper = "inprogress"
    PROVE  InTurn'
  BY DEF InTurn, Alone, Refusing, Taken, Began

LEMMA BusKeepsTurn ==
    ASSUME Types, InTurn, BusStep \/ WanManagerTries \/ WanManagerFinalizes
    PROVE  InTurn'
  <1>1. \A t \in Threads : job'[t] = job[t]
    <2>0. "bus" \in Workers /\ \A t \in Threads : t \in Workers \ {"bus"}
      BY ThreadsAssumption DEF Workers
    <2>1. CASE BusStep
      <3>1. {"hal", "file", "flag", "late"} \subseteq Steps
        BY DEF Steps
      <3>2. \E s \in Steps : To("bus", s) \/ Done("bus")
        BY <2>1, <3>1 DEF BusStep, TakePort, EthwanEnableWithoutReboot, MarkFile, CommitFlag,
                          CosaDmlConfigureEthWan, CosaDmlIfaceFinalize, Failed
      <3> QED
        BY <2>0, <3>2, JobAfter
    <2>2. CASE WanManagerTries \/ WanManagerFinalizes
      BY <2>0, <2>2 DEF WanManagerTries, WanManagerFinalizes, Types, Jobs
    <2> QED
      BY <2>1, <2>2
  <1>2. cfg'.oper = cfg.oper
    BY DEF BusStep, TakePort, EthwanEnableWithoutReboot, MarkFile, CommitFlag, mode,
           CosaDmlConfigureEthWan, CosaDmlIfaceFinalize, WanManagerTries, WanManagerFinalizes,
           Types, ModeTypes, EthWanCfg
  <1> QED
    BY <1>1, <1>2, TurnStays

LEMMA ThreadKeepsTurn ==
    ASSUME Types, InTurn, NEW t \in Threads, ThreadStep(t)
    PROVE  InTurn'
  <1>0. t \in Workers /\ t # "bus" /\ Threads \subseteq Workers
    BY ThreadsAssumption DEF Workers
  <1>1. Taken(t)
    BY DEF ThreadStep, ThreadConfigEthWan, TakePort, EthwanEnableWithoutReboot, MarkFile, CommitFlag,
           CosaDmlConfigureEthWan, RollBack, CosaDmlIfaceFinalize, WriteWanNames, ResumeWanManager,
           EndConfigEthWan, At, Taken
  <1>2. \A u \in Threads \ {t} : job'[u] = job[u]
    <2>1. CASE RollBack(t) \/ CosaDmlIfaceFinalize(t)
      BY <1>0, <2>1 DEF RollBack, CosaDmlIfaceFinalize, Types, Jobs
    <2>2. CASE \E s \in Steps : To(t, s) \/ Done(t)
      BY <1>0, <2>2, JobAfter
    <2>3. \A v : First(v) \in Steps
      BY DEF First, Steps
    <2>4. {"hal", "file", "flag", "late", "back", "fin", "resume", "end"} \subseteq Steps
      BY DEF Steps
    <2> QED
      BY <1>0, <2>1, <2>2, <2>3, <2>4
      DEF ThreadStep, ThreadConfigEthWan, TakePort, EthwanEnableWithoutReboot, MarkFile, CommitFlag,
          CosaDmlConfigureEthWan, WriteWanNames, ResumeWanManager, EndConfigEthWan, Failed
  <1>3. \A u \in Threads \ {t} : ~Taken(u)'
    BY <1>1, <1>2 DEF InTurn, Alone, Taken
  <1>4. CASE ThreadConfigEthWan(t)
    <2>1. cfg'.oper = "inprogress"
      BY <1>4 DEF ThreadConfigEthWan, Types, ModeTypes, EthWanCfg
    <2> QED
      BY <1>3, <2>1, TurnOfOne
  <1>5. CASE EndConfigEthWan(t)
    <2>1. job'[t].at = "idle"
      BY <1>0, <1>5, JobAfter DEF EndConfigEthWan, Steps
    <2> QED
      BY <1>3, <2>1, TurnOfOne DEF Began
  <1>6. CASE ~ThreadConfigEthWan(t) /\ ~EndConfigEthWan(t)
    <2>1. Began(t) /\ cfg'.oper = cfg.oper
      BY <1>6 DEF ThreadStep, TakePort, EthwanEnableWithoutReboot, MarkFile, CommitFlag, mode,
             CosaDmlConfigureEthWan, RollBack, CosaDmlIfaceFinalize, WriteWanNames,
             ResumeWanManager, At, Began, Types, ModeTypes, EthWanCfg
    <2> QED
      BY <1>3, <2>1, TurnOfOne DEF InTurn, Refusing
  <1> QED
    BY <1>4, <1>5, <1>6

LEMMA WriteKeepsTurn ==
    ASSUME Types, InTurn, KeepsOffGap, NEW m \in {"auto", "eth", "docsis"},
           EthernetWAN_SetParamStringValue(m)
    PROVE  InTurn'
  <1>1. \A t \in Threads : ~Began(t)
    BY DEF EthernetWAN_SetParamStringValue, InTurn, Refusing
  <1>2. CASE UNCHANGED job
    BY <1>1, <1>2 DEF InTurn, Alone, Refusing, Taken, Began
  <1>3. ASSUME NEW t \in Threads, At(t, "idle"),
               job' = [job EXCEPT ![t] = [Idle EXCEPT !.at = "start", !.v = (m = "eth")]]
        PROVE  InTurn'
    <2>1. job'[t].at = "start" /\ \A u \in Threads \ {t} : job'[u] = job[u]
      BY <1>3 DEF Types, Jobs, Workers, Idle
    <2>2. ~Gap
      BY <1>3, <2>1 DEF KeepsOffGap, StartsThread
    <2>3. \A u \in Threads : ~Taken(u)
      BY <1>1, <2>2 DEF Began, Taken, Gap, At
    <2>4. ~Began(t)' /\ \A u \in Threads \ {t} : ~Taken(u)'
      BY <2>1, <2>3 DEF Began, Taken
    <2> QED
      BY <2>4, TurnOfOne
  <1> QED
    BY <1>2, <1>3
    DEF EthernetWAN_SetParamStringValue, CosaDmlEthWanSetEnable, ConfigEthWan, StoreAndReboot

LEMMA NextKeepsTurn == Types /\ InTurn /\ [Next]_vars /\ [KeepsOffGap]_vars => InTurn'
  <1> SUFFICES ASSUME Types, InTurn, [Next]_vars, [KeepsOffGap]_vars
               PROVE  InTurn'
    OBVIOUS
  <1>1. CASE UNCHANGED vars
    BY <1>1, TurnStays DEF vars, mode
  <1>2. CASE BootInform \/ ThreadUpdateInformMsg \/ WanManagerRecords
    BY <1>2, TurnStays DEF BootInform, BootInformBegins, BootInformName, BootInformRest,
       ThreadUpdateInformMsg, WanManagerRecords, mode
  <1>3. CASE BusStep \/ WanManagerTries \/ WanManagerFinalizes
    BY <1>3, BusKeepsTurn
  <1>4. ASSUME NEW t \in Threads, ThreadStep(t)
        PROVE  InTurn'
    BY <1>4, ThreadKeepsTurn
  <1>5. CASE KeepsOffGap /\ \E m \in {"auto", "eth", "docsis"} : EthernetWAN_SetParamStringValue(m)
    BY <1>5, WriteKeepsTurn
  <1>6. CASE AgentRestarts \/ DeviceReboots
    <2>1. job' = [w \in Workers |-> Idle]
      <3>1. ASSUME NEW n, Restart(n)
            PROVE  job' = [w \in Workers |-> Idle]
        BY <3>1 DEF Restart
      <3> QED
        BY <1>6, <3>1 DEF AgentRestarts, DeviceReboots
    <2>2. \A t \in Threads : job'[t].at = "idle"
      BY <2>1 DEF Workers, Idle
    <2> QED
      BY <2>2 DEF InTurn, Alone, Refusing, Taken, Began
  <1> QED
    BY <1>1, <1>2, <1>3, <1>4, <1>5, <1>6 DEF Next

\* Two changes run at a time only when a thread was created while another had
\* been created and had not set "inprogress" yet (the gap between ConfigEthWan's
\* pthread_create and ThreadConfigEthWan's first assignment): whatever the user
\* writes, whatever fails, rolls back or restarts, there is no other way.  Nothing
\* is assumed of the user but that no thread is created in that gap.
THEOREM OverlapNeedsGap == Spec /\ [][KeepsOffGap]_vars => []OneChangeAtATime
  <1>1. Init => Types /\ InTurn
    <2> SUFFICES ASSUME Init
                 PROVE  Types /\ InTurn
      OBVIOUS
    <2>1. \A t \in Threads : job[t].at = "idle"
      BY DEF Init, Workers, Idle
    <2> QED
      BY <2>1, InitTypes DEF InTurn, Alone, Refusing, Taken, Began
  <1>2. Types /\ InTurn /\ [Next]_vars /\ [KeepsOffGap]_vars => (Types /\ InTurn)'
    BY NextTypes, NextKeepsTurn
  <1>3. InTurn => OneChangeAtATime
    BY DEF InTurn, Alone, Taken, OneChangeAtATime
  <1> QED
    BY <1>1, <1>2, <1>3, PTL DEF Spec
=============================================================================
