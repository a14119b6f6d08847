---------------------------- MODULE EthWanBridge ----------------------------
(***************************************************************************)
(* The network devices a change of the WAN mode rearranges, and what the   *)
(* agent's command sequences do to them, as operators on a record net:     *)
(*   name  name[d] is the name device d has, "" when it does not exist     *)
(*   in    in[d] is the bridge d is a member of: "lan" is brlan0, "wan"    *)
(*         the bridge that carries the WAN name, "" none                   *)
(*   mac   the address of the Ethernet port: its "own" or the "wan" one    *)
(* The devices are the Ethernet WAN port, the DOCSIS device, the voice     *)
(* device of the Puma7 platform, and the WAN bridge itself.  The router    *)
(* configuration is modelled (bridge_mode = 0), with brctl and ip.         *)
(***************************************************************************)
Dev == {"port", "docsis", "mta", "bridge"}

WAN_IF_NAME_PRIMARY == "erouter0"

\* The name the DOCSIS device is parked under while a bridge has the WAN name.
Parked(platform) == IF platform = "bcm" THEN "cm0" ELSE "dummy-rf"

\* ETHWAN_DOCSIS_INF_NAME, the second member of the WAN bridge.
ETHWAN_DOCSIS_INF_NAME(platform) == IF platform = "bcm" THEN "cm0" ELSE "dpdmta1"

Names == {"", "port", WAN_IF_NAME_PRIMARY, "cm0", "dummy-rf", "dpdmta1"}

Nets == [name : [Dev -> Names], in : [Dev -> {"", "lan", "wan"}], mac : {"own", "wan"}]

-----------------------------------------------------------------------------
(* The kernel's side of the commands: each fails without effect.           *)

Named(n, x) == {d \in Dev : n.name[d] = x}

\* ip link set x name y
Rename(n, x, y) ==
    IF Named(n, y) # {} THEN n
    ELSE [n EXCEPT !.name = [d \in Dev |-> IF @[d] = x THEN y ELSE @[d]]]

\* brctl addbr, brctl delbr with the WAN name
AddBr(n) ==
    IF n.name["bridge"] # "" \/ Named(n, WAN_IF_NAME_PRIMARY) # {} THEN n
    ELSE [n EXCEPT !.name["bridge"] = WAN_IF_NAME_PRIMARY]

DelBr(n) ==
    IF n.name["bridge"] # WAN_IF_NAME_PRIMARY THEN n
    ELSE [n EXCEPT !.name["bridge"] = "",
                   !.in = [d \in Dev |-> IF @[d] = "wan" THEN "" ELSE @[d]]]

\* brctl addif, brctl delif: a device has at most one bridge.
AddIf(n, br, x) ==
    IF br = "wan" /\ n.name["bridge"] # WAN_IF_NAME_PRIMARY THEN n
    ELSE [n EXCEPT !.in = [d \in Dev |->
             IF d \in Named(n, x) \ {"bridge"} /\ @[d] = "" THEN br ELSE @[d]]]

DelIf(n, br, x) ==
    [n EXCEPT !.in = [d \in Dev |-> IF d \in Named(n, x) /\ @[d] = br THEN "" ELSE @[d]]]

\* What the boot scripts leave: on Puma7 an Ethernet WAN port is not bridged.
BootNet(platform, hal) ==
    [name |-> [port |-> "port", docsis |-> WAN_IF_NAME_PRIMARY, bridge |-> "",
               mta |-> IF platform = "puma7" THEN "dpdmta1" ELSE ""],
     in   |-> [d \in Dev |-> IF d = "port" /\ ~(platform = "puma7" /\ hal)
                             THEN "lan" ELSE ""],
     mac  |-> "own"]

-----------------------------------------------------------------------------
(* The agent's command sequences.                                          *)

\* A bridge takes the WAN name, over the port and the parked DOCSIS device or
\* the voice device.
BuildBridge(n, platform) ==
    LET renamed == Rename(n, WAN_IF_NAME_PRIMARY, Parked(platform))
    IN  AddIf(AddIf(AddBr(renamed), "wan", "port"),
              "wan", ETHWAN_DOCSIS_INF_NAME(platform))

\* The bridge is dismantled and the DOCSIS device gets the WAN name back.
DropBridge(n, platform) ==
    Rename(DelBr(DelIf(n, "wan", ETHWAN_DOCSIS_INF_NAME(platform))),
           Parked(platform), WAN_IF_NAME_PRIMARY)

\* The port moves from the LAN to the WAN bridge, and back.
EnterEthernet(n, platform, configureBridge) ==
    LET out == DelIf(n, "lan", "port")
    IN  IF configureBridge THEN BuildBridge(out, platform) ELSE AddIf(out, "wan", "port")

LeaveEthernet(n, platform, configureBridge) ==
    LET home == AddIf(DelIf(n, "wan", "port"), "lan", "port")
    IN  IF configureBridge THEN DropBridge(home, platform) ELSE home

\* The platforms' handlers, called with the mode the HAL has and with
\* configureBridge.
WanBridgeConfigurationBcm(n, ethWanEnabled, configureBridge) ==
    IF ethWanEnabled THEN EnterEthernet(n, "bcm", configureBridge)
                     ELSE LeaveEthernet(n, "bcm", configureBridge)

WanBridgeConfigurationIntelPuma7(n, ethWanEnabled, configureBridge) ==
    IF ethWanEnabled THEN EnterEthernet(n, "puma7", configureBridge)
                     ELSE LeaveEthernet(n, "puma7", configureBridge)

\* At start-up in the Ethernet mode; the port takes the WAN address.
EthWanBridgeInit(n, platform) ==
    LET out == IF platform = "bcm" THEN DelIf(n, "lan", "port") ELSE n
    IN  [BuildBridge(out, platform) EXCEPT !.mac = "wan"]

\* The renames in front of a switch to DOCSIS, from the time when the port
\* itself carried the WAN name: without effect on the devices modelled.
SwapNames(n) ==
    Rename(Rename(n, WAN_IF_NAME_PRIMARY, "port"), "dummy-rf", WAN_IF_NAME_PRIMARY)

-----------------------------------------------------------------------------
\* The layout each mode is meant to have.
Layout(n, platform, eth) ==
    IF eth
    THEN /\ n.name["bridge"] = WAN_IF_NAME_PRIMARY
         /\ n.name["docsis"] = Parked(platform)
         /\ n.in["port"] = "wan"
         /\ \E d \in Dev : n.in[d] = "wan" /\ n.name[d] = ETHWAN_DOCSIS_INF_NAME(platform)
    ELSE /\ n.name["bridge"] = ""
         /\ n.name["docsis"] = WAN_IF_NAME_PRIMARY
         /\ n.in["port"] = "lan"
         /\ \A d \in Dev : n.in[d] # "wan"
=============================================================================
