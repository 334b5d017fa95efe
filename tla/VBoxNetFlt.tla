----------------------------- MODULE VBoxNetFlt -----------------------------
(***************************************************************************)
(* The network filter (src/vboxnetflt) with the component factories of the *)
(* support driver it registers with (src/vboxdrv/SUPDrv.c).                *)
(*                                                                         *)
(* The internal network asks the support driver for the filter's factory,  *)
(* has it create an instance on a host interface, sends through it,        *)
(* changes its state, and in the end waits for it to be idle and releases  *)
(* it.  Meanwhile the interface disappears and comes back, packets are     *)
(* received, and the module may be unloaded.                               *)
(*                                                                         *)
(* External: the internal network (include/VBox/intnet.h says how it       *)
(* calls) and the Linux kernel.  Every stretch of code under hFastMtx,     *)
(* hSpinlock or mtxComponentFactory is short and waits for nothing, so it  *)
(* is one step; rtnl, the kernel's lock, is held across steps.  The module *)
(* is built as src/ has it: VBOXNETFLT_LINUX_NO_XMIT_QUEUE, no static      *)
(* configuration.  Promiscuous mode and the contents of packets are left   *)
(* out.                                                                    *)
(***************************************************************************)
EXTENDS Naturals, FiniteSets

CONSTANTS
    Ins,    \* memory for instances
    Vm,     \* threads that send for virtual machines
    NIL

ASSUME InsAssumption == NIL \notin Ins

Net    == "intnet"    \* the internal network, serialised by its mutex
Kernel == "kernel"    \* the kernel's thread that owns rtnl when devices come and go
Rx     == "rx"        \* the CPU that receives packets
Exit   == "exit"      \* the thread that unloads the module
Actor  == {Net, Kernel, Rx, Exit} \cup Vm

ASSUME VmAssumption == Vm \cap {Net, Kernel, Rx, Exit} = {}

VARIABLES
    ins,            \* the instances
    chain,          \* those on pInstanceHead's list
    cFactoryRefs,
    fIDCOpen,
    idc,            \* the support driver's side: is the session open,
    factories,      \*   is our factory registered
    module,         \* the kernel's side: "live", "going" or "gone",
    modRefs,        \*   and the references to our module
    dev,            \* the host interface exists
    rtnl,           \* who owns the kernel's lock
    pc, it, ret,    \* where an actor is, with which instance, and where to return to
    plugged         \* the trunk the internal network uses

globals == <<chain, cFactoryRefs, fIDCOpen>>
supdrv  == <<idc, factories>>
kernel  == <<module, modRefs, dev, rtnl>>
ctl     == <<pc, it, ret>>
vars    == <<ins, globals, supdrv, kernel, ctl, plugged>>

Blank == [mem |-> "free", enmState |-> "Initializing", enmTrunkState |-> "INACTIVE",
          cRefs |-> 0, cBusy |-> 0, hEventIdle |-> FALSE, pSwitchPort |-> FALSE,
          fDisconnectedFromHost |-> FALSE, fRediscoveryPending |-> FALSE,
          pDev |-> FALSE, fRegistered |-> FALSE, PacketType |-> FALSE, Notifier |-> FALSE]

TypeOK ==
    /\ \A i \in Ins :
          /\ DOMAIN ins[i] = DOMAIN Blank
          /\ ins[i].mem \in {"free", "used"}
          /\ ins[i].enmState \in {"Initializing", "Connected", "Disconnecting", "Destroyed"}
          /\ ins[i].enmTrunkState \in {"INACTIVE", "ACTIVE", "DISCONNECTING"}
          /\ {ins[i].cRefs, ins[i].cBusy} \subseteq Nat
    /\ chain \subseteq Ins /\ cFactoryRefs \in Nat /\ modRefs \in Nat
    /\ {fIDCOpen, idc, factories, dev} \subseteq BOOLEAN
    /\ module \in {"live", "going", "gone"} /\ rtnl \in {NIL, Net, Kernel}
    /\ it \in [Actor -> Ins \cup {NIL}] /\ plugged \in Ins \cup {NIL}
    /\ pc \in [Actor -> STRING] /\ ret \in [Actor -> STRING]

Init ==
    /\ ins = [i \in Ins |-> Blank]
    /\ chain = {} /\ cFactoryRefs = 0 /\ fIDCOpen = TRUE
    /\ idc = TRUE /\ factories = TRUE
    /\ module = "live" /\ modRefs = 0 /\ dev = TRUE /\ rtnl = NIL
    /\ pc = [a \in Actor |-> "idle"]
    /\ it = [a \in Actor |-> NIL]
    /\ ret = [a \in Actor |-> "idle"]
    /\ plugged = NIL

Goto(a, l) ==
    /\ pc' = [pc EXCEPT ![a] = l]
    /\ it' = [it EXCEPT ![a] = IF l \in {"idle", "fac_release"} THEN NIL ELSE @]
    /\ ret' = [ret EXCEPT ![a] = IF l = "idle" THEN "idle" ELSE @]

\* Actor a is at l with instance i.  Code that has been unloaded and calls with
\* an instance that has been freed are not followed any further.
At(a, l, i) == pc[a] = l /\ it[a] = i /\ ins[i].mem = "used" /\ module # "gone"

-----------------------------------------------------------------------------
(* References.                                                             *)

vboxNetFltRetain(i) == ins' = [ins EXCEPT ![i].cRefs = @ + 1]

(* Mutant: busy, but no reference. *)
Retained_BusyOnly(i) == ins' = [ins EXCEPT ![i].cBusy = @ + 1]

Retained(i) == ins' = [ins EXCEPT ![i].cRefs = @ + 1, ![i].cBusy = @ + 1]

(* Under the spinlock. *)
vboxNetFltTryRetainBusyActive(i) ==
    IF ins[i].enmTrunkState = "ACTIVE" THEN Retained(i) ELSE UNCHANGED ins

(* Mutant: the state is not looked at. *)
MayReport_Always(i) == TRUE

MayReport(i) == ins[i].enmTrunkState \in {"ACTIVE", "INACTIVE"}

vboxNetFltTryRetainBusyNotDisconnected(i) ==
    IF MayReport(i) THEN Retained(i) ELSE UNCHANGED ins

(* Mutant: the waiter is woken one count too late. *)
ReleaseBusy_NoSignal(a, i) ==
    /\ At(a, "busy", i)
    /\ ins' = [ins EXCEPT ![i].cBusy = @ - 1]
    /\ Goto(a, "release")
    /\ UNCHANGED <<globals, supdrv, kernel, plugged>>

(* vboxNetFltRelease: first the busy count, *)
ReleaseBusy(a, i) ==
    /\ At(a, "busy", i)
    /\ ins' = [ins EXCEPT ![i].cBusy = @ - 1, ![i].hEventIdle = @ \/ ins[i].cBusy = 1]
    /\ Goto(a, "release")
    /\ UNCHANGED <<globals, supdrv, kernel, plugged>>

(* then the reference; who drops the last one destroys the instance. *)
vboxNetFltRelease(a, i) ==
    /\ At(a, "release", i)
    /\ ins' = [ins EXCEPT ![i].cRefs = @ - 1]
    /\ Goto(a, IF ins[i].cRefs = 1 THEN "destroy" ELSE ret[a])
    /\ UNCHANGED <<globals, supdrv, kernel, plugged>>

-----------------------------------------------------------------------------
(* Destroying an instance.                                                 *)

NobodyReceives(i) == it[Rx] # i

(* vboxNetFltDestroyInstance, up to what vboxNetFltOsDeleteInstance reads. *)
vboxNetFltDestroyInstance(a, i) ==
    /\ At(a, "destroy", i)
    /\ ins' = [ins EXCEPT ![i].enmState = "Disconnecting"]
    /\ Goto(a, IF ins[i].fRegistered THEN "del_pack" ELSE "del_notifier")
    /\ UNCHANGED <<globals, supdrv, kernel, plugged>>

(* dev_remove_pack returns when nobody is in the handler. *)
vboxNetFltOsDeleteInstance(a, i) ==
    /\ At(a, "del_pack", i) /\ NobodyReceives(i)
    /\ ins' = [ins EXCEPT ![i].PacketType = FALSE]
    /\ Goto(a, "del_notifier")
    /\ UNCHANGED <<globals, supdrv, kernel, plugged>>

(* unregister_netdevice_notifier takes rtnl, whoever calls it. *)
DeleteNotifier(a, i) ==
    /\ At(a, "del_notifier", i) /\ rtnl = NIL
    /\ ins' = [ins EXCEPT ![i].Notifier = FALSE]
    /\ modRefs' = modRefs - 1
    /\ Goto(a, "unlink")
    /\ UNCHANGED <<globals, supdrv, module, dev, rtnl, plugged>>

(* Mutant: the instance is freed but stays in the list. *)
vboxNetFltUnlinkLocked_Nothing(i) == UNCHANGED chain

vboxNetFltUnlinkLocked(i) == chain' = chain \ {i}

Unlink(a, i) ==
    /\ At(a, "unlink", i)
    /\ vboxNetFltUnlinkLocked(i)
    /\ ins' = [ins EXCEPT ![i].mem = "free", ![i].enmState = "Destroyed"]
    /\ Goto(a, ret[a])
    /\ UNCHANGED <<cFactoryRefs, fIDCOpen, supdrv, kernel, plugged>>

-----------------------------------------------------------------------------
(* Attaching to the interface, which its registration with the kernel asks *)
(* for; the actor owns rtnl.                                               *)

vboxNetFltLinuxAttachToInterface(a, i) ==
    /\ At(a, "attach", i)
    /\ ins' = [ins EXCEPT ![i].pDev = TRUE]
    /\ Goto(a, "add_pack")
    /\ UNCHANGED <<globals, supdrv, kernel, plugged>>

dev_add_pack(a, i) ==
    /\ At(a, "add_pack", i)
    /\ ins' = [ins EXCEPT ![i].PacketType = TRUE]
    /\ Goto(a, "attached")
    /\ UNCHANGED <<globals, supdrv, kernel, plugged>>

SetIndicators(a, i) ==
    /\ At(a, "attached", i)
    /\ ins' = [ins EXCEPT ![i].fDisconnectedFromHost = FALSE, ![i].fRegistered = TRUE]
    /\ Goto(a, "report")
    /\ UNCHANGED <<globals, supdrv, kernel, plugged>>

(* The internal network is told about the interface while we are busy. *)
Report(a, i) ==
    /\ At(a, "report", i)
    /\ vboxNetFltTryRetainBusyNotDisconnected(i)
    /\ Goto(a, IF MayReport(i) THEN "busy" ELSE ret[a])
    /\ UNCHANGED <<globals, supdrv, kernel, plugged>>

-----------------------------------------------------------------------------
(* The kernel: the interface comes and goes.                               *)

Heard(i) == ins[i].mem = "used" /\ ins[i].Notifier

(* NETDEV_REGISTER. *)
vboxNetFltLinuxNotifierCallback(i) ==
    /\ pc[Kernel] = "idle" /\ rtnl = NIL /\ module # "gone"
    /\ ~dev /\ Heard(i)
    /\ dev' = TRUE /\ rtnl' = Kernel
    /\ pc' = [pc EXCEPT ![Kernel] = "attach"]
    /\ it' = [it EXCEPT ![Kernel] = i]
    /\ ret' = [ret EXCEPT ![Kernel] = "notified"]
    /\ UNCHANGED <<ins, globals, supdrv, module, modRefs, plugged>>

(* NETDEV_UNREGISTER, for the instance's own interface. *)
vboxNetFltLinuxUnregisterDevice(i) ==
    /\ pc[Kernel] = "idle" /\ rtnl = NIL /\ module # "gone"
    /\ dev /\ Heard(i) /\ ins[i].pDev
    /\ dev' = FALSE /\ rtnl' = Kernel
    /\ ins' = [ins EXCEPT ![i].fRegistered = FALSE, ![i].fDisconnectedFromHost = TRUE, ![i].pDev = FALSE]
    /\ pc' = [pc EXCEPT ![Kernel] = "rem_pack"]
    /\ it' = [it EXCEPT ![Kernel] = i]
    /\ UNCHANGED <<ret, globals, supdrv, module, modRefs, plugged>>

RemovePack(i) ==
    /\ At(Kernel, "rem_pack", i) /\ NobodyReceives(i)
    /\ ins' = [ins EXCEPT ![i].PacketType = FALSE]
    /\ Goto(Kernel, "notified")
    /\ UNCHANGED <<globals, supdrv, kernel, plugged>>

Notified ==
    /\ pc[Kernel] = "notified" /\ rtnl' = NIL
    /\ Goto(Kernel, "idle")
    /\ UNCHANGED <<ins, globals, supdrv, module, modRefs, dev, plugged>>

(* The interface comes or goes and nobody listens. *)
Unheard ==
    /\ pc[Kernel] = "idle" /\ rtnl = NIL
    /\ \A i \in Ins : ~(Heard(i) /\ (dev => ins[i].pDev))
    /\ dev' = ~dev
    /\ UNCHANGED <<ins, globals, supdrv, module, modRefs, rtnl, ctl, plugged>>

(* A packet is received: the handler looks at the device, and then hands   *)
(* the packet to the switch.                                               *)
vboxNetFltLinuxPacketHandler(i) ==
    /\ pc[Rx] = "idle" /\ dev /\ module # "gone"
    /\ ins[i].mem = "used" /\ ins[i].PacketType /\ ins[i].pDev
    /\ pc' = [pc EXCEPT ![Rx] = "recv"]
    /\ it' = [it EXCEPT ![Rx] = i]
    /\ UNCHANGED <<ret, ins, globals, supdrv, kernel, plugged>>

(* pfnRecv *)
vboxNetFltLinuxForwardSegment(i) ==
    /\ At(Rx, "recv", i)
    /\ Goto(Rx, "idle")
    /\ UNCHANGED <<ins, globals, supdrv, kernel, plugged>>

-----------------------------------------------------------------------------
(* The factory, and creating an instance.                                  *)

(* The support driver calls vboxNetFltQueryFactoryInterface. *)
SUPR0ComponentQueryFactory ==
    /\ pc[Net] = "idle" /\ plugged = NIL /\ factories
    /\ cFactoryRefs' = cFactoryRefs + 1
    /\ Goto(Net, "create")
    /\ UNCHANGED <<ins, chain, fIDCOpen, supdrv, kernel, plugged>>

(* The interface is busy if an instance has its name, else there is memory *)
(* for a new one or not.                                                   *)
vboxNetFltFactoryCreateAndConnect ==
    /\ pc[Net] = "create" /\ module # "gone"
    /\ \/ /\ Goto(Net, "fac_release")
          /\ UNCHANGED ins
       \/ \E i \in Ins :
             /\ chain = {} /\ ins[i].mem = "free" /\ \A a \in Actor : it[a] # i
             /\ ins' = [ins EXCEPT ![i] = [Blank EXCEPT !.mem = "used", !.cRefs = 1, !.pSwitchPort = TRUE]]
             /\ pc' = [pc EXCEPT ![Net] = "insert"]
             /\ it' = [it EXCEPT ![Net] = i]
             /\ UNCHANGED ret
    /\ UNCHANGED <<globals, supdrv, kernel, plugged>>

(* vboxNetFltNewInstance, from its second search. *)
vboxNetFltNewInstance(i) ==
    /\ At(Net, "insert", i)
    /\ IF chain = {}
       THEN /\ chain' = chain \cup {i} /\ UNCHANGED ins
            /\ Goto(Net, "init")
       ELSE /\ ins' = [ins EXCEPT ![i].mem = "free"] /\ UNCHANGED chain
            /\ Goto(Net, "fac_release")
    /\ UNCHANGED <<cFactoryRefs, fIDCOpen, supdrv, kernel, plugged>>

(* register_netdevice_notifier takes rtnl and reports the interfaces there *)
(* are; it may also fail.                                                  *)
vboxNetFltOsInitInstance(i) ==
    /\ At(Net, "init", i) /\ rtnl = NIL
    /\ \/ /\ ins' = [ins EXCEPT ![i].Notifier = TRUE]
          /\ rtnl' = Net
          /\ pc' = [pc EXCEPT ![Net] = IF dev THEN "attach" ELSE "registered"]
          /\ ret' = [ret EXCEPT ![Net] = "registered"]
          /\ UNCHANGED it
       \/ Goto(Net, "bail") /\ UNCHANGED <<ins, rtnl>>
    /\ UNCHANGED <<globals, supdrv, module, modRefs, dev, plugged>>

NotifierRegistered(i) ==
    /\ At(Net, "registered", i)
    /\ rtnl' = NIL
    /\ Goto(Net, "check")
    /\ UNCHANGED <<ins, globals, supdrv, module, modRefs, dev, plugged>>

CheckRegistered(i) ==
    /\ At(Net, "check", i)
    /\ Goto(Net, IF ins[i].fRegistered THEN "get_module" ELSE "take_back")
    /\ UNCHANGED <<ins, globals, supdrv, kernel, plugged>>

(* Without the interface the notifier is taken back, and the packet handler *)
(* of an interface that has come meanwhile stays.                           *)
TakeBackNotifier(i) ==
    /\ At(Net, "take_back", i) /\ rtnl = NIL
    /\ ins' = [ins EXCEPT ![i].Notifier = FALSE]
    /\ Goto(Net, "bail")
    /\ UNCHANGED <<globals, supdrv, kernel, plugged>>

(* If the interface is gone again or the module on its way out, the        *)
(* instance is given up with its notifier and packet handler in place.     *)
try_module_get(i) ==
    /\ At(Net, "get_module", i)
    /\ IF ins[i].fDisconnectedFromHost \/ module = "going"
       THEN Goto(Net, "bail") /\ UNCHANGED modRefs
       ELSE Goto(Net, "connect") /\ modRefs' = modRefs + 1
    /\ UNCHANGED <<ins, globals, supdrv, module, dev, rtnl, plugged>>

vboxNetFltConnectIt(i) ==
    /\ At(Net, "connect", i)
    /\ ins' = [ins EXCEPT ![i].enmState = "Connected"]
    /\ plugged' = i
    /\ Goto(Net, "fac_release")
    /\ UNCHANGED <<globals, supdrv, kernel>>

BailOut(i) ==
    /\ At(Net, "bail", i)
    /\ vboxNetFltUnlinkLocked(i)
    /\ ins' = [ins EXCEPT ![i].mem = "free"]
    /\ Goto(Net, "fac_release")
    /\ UNCHANGED <<cFactoryRefs, fIDCOpen, supdrv, kernel, plugged>>

vboxNetFltFactoryRelease ==
    /\ pc[Net] = "fac_release" /\ module # "gone"
    /\ cFactoryRefs' = cFactoryRefs - 1
    /\ Goto(Net, "idle")
    /\ UNCHANGED <<ins, chain, fIDCOpen, supdrv, kernel, plugged>>

-----------------------------------------------------------------------------
(* Using the port.                                                         *)

Connected(i) == i # NIL /\ ins[i].enmState = "Connected"

vboxNetFltPortSetState(s) ==
    /\ pc[Net] = "idle" /\ Connected(plugged)
    /\ ins[plugged].enmTrunkState # "DISCONNECTING"
    /\ ins' = [ins EXCEPT ![plugged].enmTrunkState = s]
    /\ IF s = "DISCONNECTING"
       THEN pc' = [pc EXCEPT ![Net] = "wait"] /\ it' = [it EXCEPT ![Net] = plugged]
       ELSE UNCHANGED <<pc, it>>
    /\ UNCHANGED <<ret, globals, supdrv, kernel, plugged>>

(* pfnNotifyMacAddress, pfnConnectInterface, pfnDisconnectInterface: Linux *)
(* has nothing to do but holds a reference meanwhile.                      *)
PortCall ==
    /\ pc[Net] = "idle" /\ Connected(plugged)
    /\ ins[plugged].enmTrunkState # "DISCONNECTING"
    /\ vboxNetFltRetain(plugged)
    /\ pc' = [pc EXCEPT ![Net] = "release"]
    /\ it' = [it EXCEPT ![Net] = plugged]
    /\ ret' = [ret EXCEPT ![Net] = "idle"]
    /\ UNCHANGED <<globals, supdrv, kernel, plugged>>

vboxNetFltPortWaitForIdle(i) ==
    /\ At(Net, "wait", i)
    /\ vboxNetFltRetain(i)
    /\ Goto(Net, "waiting")
    /\ UNCHANGED <<globals, supdrv, kernel, plugged>>

CheckBusy(i) ==
    /\ At(Net, "waiting", i)
    /\ pc' = [pc EXCEPT ![Net] = IF ins[i].cBusy = 0 THEN "release" ELSE "asleep"]
    /\ ret' = [ret EXCEPT ![Net] = "is_idle"]
    /\ UNCHANGED <<it, ins, globals, supdrv, kernel, plugged>>

RTSemEventWait(i) ==
    /\ At(Net, "asleep", i) /\ ins[i].hEventIdle
    /\ ins' = [ins EXCEPT ![i].hEventIdle = FALSE]
    /\ Goto(Net, "waiting")
    /\ UNCHANGED <<globals, supdrv, kernel, plugged>>

(* Unless the wait is for ever it may end with a timeout.  *)
WaitTimesOut(i) ==
    /\ At(Net, "asleep", i)
    /\ pc' = [pc EXCEPT ![Net] = "release"]
    /\ ret' = [ret EXCEPT ![Net] = "idle"]
    /\ UNCHANGED <<it, ins, globals, supdrv, kernel, plugged>>

(* Then the internal network waits again. *)
WaitAgain ==
    /\ pc[Net] = "idle" /\ Connected(plugged)
    /\ ins[plugged].enmTrunkState = "DISCONNECTING"
    /\ pc' = [pc EXCEPT ![Net] = "wait"]
    /\ it' = [it EXCEPT ![Net] = plugged]
    /\ UNCHANGED <<ret, ins, globals, supdrv, kernel, plugged>>

(* The internal network sees to it that its own calls have returned. *)
vboxNetFltPortDisconnectAndRelease(i) ==
    /\ At(Net, "is_idle", i) /\ \A v \in Vm : pc[v] = "idle"
    /\ ins' = [ins EXCEPT ![i].enmState = "Disconnecting", ![i].pSwitchPort = FALSE]
    /\ plugged' = NIL
    /\ pc' = [pc EXCEPT ![Net] = "release"]
    /\ ret' = [ret EXCEPT ![Net] = "idle"]
    /\ UNCHANGED <<it, globals, supdrv, kernel>>

(* A thread sends as long as the trunk is plugged in.  *)
vboxNetFltPortXmit(v) ==
    /\ pc[v] = "idle" /\ Connected(plugged) /\ pc[Net] # "is_idle"
    /\ pc' = [pc EXCEPT ![v] = "retain"]
    /\ it' = [it EXCEPT ![v] = plugged]
    /\ ret' = [ret EXCEPT ![v] = "idle"]
    /\ UNCHANGED <<ins, globals, supdrv, kernel, plugged>>

XmitRetain(v, i) ==
    /\ At(v, "retain", i)
    /\ vboxNetFltTryRetainBusyActive(i)
    /\ Goto(v, IF ins[i].enmTrunkState = "ACTIVE" THEN "xmit" ELSE "idle")
    /\ UNCHANGED <<globals, supdrv, kernel, plugged>>

(* Sent if the interface is there; if it is not, every five seconds one    *)
(* thread looks whether it is back.                                        *)
vboxNetFltPortOsXmit(v, i) ==
    /\ At(v, "xmit", i)
    /\ \/ Goto(v, "busy") /\ UNCHANGED ins
       \/ /\ ins[i].fDisconnectedFromHost /\ ~ins[i].fRediscoveryPending
          /\ ins' = [ins EXCEPT ![i].fRediscoveryPending = TRUE]
          /\ Goto(v, "rediscover")
    /\ UNCHANGED <<globals, supdrv, kernel, plugged>>

vboxNetFltMaybeRediscovered(v, i) ==
    /\ At(v, "rediscover", i)
    /\ ins' = [ins EXCEPT ![i].fRediscoveryPending = FALSE]
    /\ Goto(v, "busy")
    /\ UNCHANGED <<globals, supdrv, kernel, plugged>>

-----------------------------------------------------------------------------
(* Unloading and loading the module.                                       *)

vboxNetFltCanUnload == chain = {} /\ cFactoryRefs = 0

ExitTo(l) == pc' = [pc EXCEPT ![Exit] = l] /\ UNCHANGED <<it, ret>>

(* rmmod: the kernel lets go a module nobody holds a reference to. *)
VBoxNetFltLinuxUnload ==
    /\ pc[Exit] = "idle" /\ module = "live" /\ modRefs = 0
    /\ module' = "going"
    /\ ExitTo("try")
    /\ UNCHANGED <<ins, globals, supdrv, modRefs, dev, rtnl, plugged>>

vboxNetFltTryDeleteIdc ==
    /\ pc[Exit] = "try"
    /\ ExitTo(IF vboxNetFltCanUnload /\ fIDCOpen THEN "dereg" ELSE "term")
    /\ UNCHANGED <<ins, globals, supdrv, kernel, plugged>>

SUPR0ComponentDeregisterFactory ==
    /\ pc[Exit] = "dereg"
    /\ factories' = FALSE
    /\ ExitTo("recheck")
    /\ UNCHANGED <<ins, globals, idc, kernel, plugged>>

(* Mutant: nobody is expected to race us. *)
Recheck_Never ==
    /\ pc[Exit] = "recheck" /\ ExitTo("close")
    /\ UNCHANGED <<ins, globals, supdrv, kernel, plugged>>

Recheck ==
    /\ pc[Exit] = "recheck"
    /\ ExitTo(IF vboxNetFltCanUnload THEN "close" ELSE "rereg")
    /\ UNCHANGED <<ins, globals, supdrv, kernel, plugged>>

(* Registering needs memory; that it fails is only asserted against. *)
SUPR0ComponentRegisterFactory ==
    /\ pc[Exit] = "rereg"
    /\ factories' \in BOOLEAN
    /\ ExitTo("term")
    /\ UNCHANGED <<ins, globals, idc, kernel, plugged>>

SUPR0IdcClose ==
    /\ pc[Exit] = "close"
    /\ idc' = FALSE /\ fIDCOpen' = FALSE
    /\ ExitTo("term")
    /\ UNCHANGED <<ins, chain, cFactoryRefs, factories, kernel, plugged>>

(* RTR0Term and the memset, whatever came of it.  Only a module nobody was *)
(* using is loaded again.                                                  *)
Gone ==
    /\ pc[Exit] = "term"
    /\ module' = "gone"
    /\ ExitTo("gone")
    /\ UNCHANGED <<ins, globals, supdrv, modRefs, dev, rtnl, plugged>>

(* VBoxNetFltLinuxInit: vboxNetFltInitGlobalsAndIdc. *)
VBoxNetFltLinuxInit ==
    /\ pc[Exit] = "gone" /\ ~idc
    /\ \/ /\ module' = "live" /\ idc' = TRUE /\ factories' = TRUE /\ fIDCOpen' = TRUE
          /\ ExitTo("idle")
       \/ UNCHANGED <<module, supdrv, fIDCOpen, ctl>>
    /\ UNCHANGED <<ins, chain, cFactoryRefs, modRefs, dev, rtnl, plugged>>
-----------------------------------------------------------------------------

ReleaseStep(a) == \E i \in Ins : ReleaseBusy(a, i) \/ vboxNetFltRelease(a, i)

DestroyStep(a) ==
    \E i \in Ins : \/ vboxNetFltDestroyInstance(a, i) \/ vboxNetFltOsDeleteInstance(a, i)
                  \/ DeleteNotifier(a, i) \/ Unlink(a, i)

AttachStep(a) ==
    \E i \in Ins : \/ vboxNetFltLinuxAttachToInterface(a, i) \/ dev_add_pack(a, i)
                  \/ SetIndicators(a, i) \/ Report(a, i)

DeviceEvent ==
    \/ Unheard
    \/ \E i \in Ins : vboxNetFltLinuxNotifierCallback(i) \/ vboxNetFltLinuxUnregisterDevice(i)

KernelStep ==
    \/ AttachStep(Kernel) \/ ReleaseStep(Kernel) \/ DestroyStep(Kernel) \/ Notified
    \/ \E i \in Ins : RemovePack(i)

Receive == \E i \in Ins : vboxNetFltLinuxPacketHandler(i)

Received == \E i \in Ins : vboxNetFltLinuxForwardSegment(i)

Open == SUPR0ComponentQueryFactory

CreateStep ==
    \/ vboxNetFltFactoryCreateAndConnect \/ vboxNetFltFactoryRelease
    \/ \E i \in Ins : \/ vboxNetFltNewInstance(i) \/ vboxNetFltOsInitInstance(i)
                     \/ NotifierRegistered(i) \/ CheckRegistered(i) \/ TakeBackNotifier(i)
                     \/ try_module_get(i) \/ vboxNetFltConnectIt(i) \/ BailOut(i)

Use == PortCall \/ \E s \in {"ACTIVE", "INACTIVE", "DISCONNECTING"} : vboxNetFltPortSetState(s)

Timeout == \E i \in Ins : WaitTimesOut(i)

CloseStep ==
    \/ WaitAgain
    \/ \E i \in Ins : \/ vboxNetFltPortWaitForIdle(i) \/ CheckBusy(i) \/ RTSemEventWait(i)
                     \/ vboxNetFltPortDisconnectAndRelease(i)

NetStep == CreateStep \/ AttachStep(Net) \/ CloseStep \/ ReleaseStep(Net) \/ DestroyStep(Net)

VmStep(v) ==
    \/ ReleaseStep(v)
    \/ \E i \in Ins : \/ XmitRetain(v, i) \/ vboxNetFltPortOsXmit(v, i)
                     \/ vboxNetFltMaybeRediscovered(v, i)

ExitStep ==
    \/ vboxNetFltTryDeleteIdc \/ SUPR0ComponentDeregisterFactory \/ Recheck
    \/ SUPR0ComponentRegisterFactory \/ SUPR0IdcClose \/ Gone

Next ==
    \/ DeviceEvent \/ KernelStep \/ Receive \/ Received
    \/ Open \/ NetStep \/ Use \/ Timeout
    \/ \E v \in Vm : vboxNetFltPortXmit(v) \/ VmStep(v)
    \/ VBoxNetFltLinuxUnload \/ ExitStep \/ VBoxNetFltLinuxInit

(* Whoever is inside a call goes on, and the internal network waits until  *)
(* the trunk is idle; what the user, the network or the administrator asks *)
(* for next, they may also not ask for, and a wait may have no timeout.    *)
Fairness ==
    /\ WF_vars(KernelStep) /\ WF_vars(Received) /\ WF_vars(NetStep) /\ WF_vars(ExitStep)
    /\ \A v \in Vm : WF_vars(VmStep(v))

Spec == Init /\ [][Next]_vars /\ Fairness

-----------------------------------------------------------------------------
(* Properties.                                                             *)

BusyAt    == {"busy", "xmit", "rediscover"}
CountedAt == BusyAt \cup {"release", "waiting", "asleep"}

Holders(i, at) == {a \in Actor : it[a] = i /\ pc[a] \in at}

(* The creator's reference becomes the internal network's. *)
Owned(i) == plugged = i \/ (it[Net] = i /\ ins[i].enmState = "Initializing")

(* The counts are those of the calls in progress.  (VBoxNetFlt.c:          *)
(* vboxNetFltRetain, vboxNetFltRelease and the two that try.)              *)
RefsBalanced ==
    \A i \in Ins : ins[i].mem = "used" =>
        /\ ins[i].cBusy = Cardinality(Holders(i, BusyAt))
        /\ ins[i].cRefs = Cardinality(Holders(i, CountedAt)) + (IF Owned(i) THEN 1 ELSE 0)

(* When waiting for the trunk to be idle has succeeded nobody is busy with *)
(* it any more, and nobody will be.  (vboxNetFltPortWaitForIdle, and what  *)
(* vboxNetFltPortDisconnectAndRelease asserts.)                            *)
IdleIsIdle ==
    \A i \in Ins :
        /\ ins[i].mem = "used"
        /\ ins[i].enmState = "Disconnecting" \/ (it[Net] = i /\ pc[Net] = "is_idle")
        => ins[i].cBusy = 0 /\ ~ins[i].fRediscoveryPending

(* The list the factory searches has no instance that was freed, and one   *)
(* with the interface's name at most.  (vboxNetFltNewInstance,             *)
(* vboxNetFltDestroyInstance.)                                             *)
ListIsSound == Cardinality(chain) <= 1 /\ \A i \in chain : ins[i].mem = "used"

(* The connection to the support driver is closed only when nobody has the *)
(* factory or an instance.  (vboxNetFltTryDeleteIdc.)                      *)
ClosedWhenUnused ==
    [][idc /\ ~idc' => chain = {} /\ plugged = NIL /\ pc[Net] = "idle"]_vars

(* Waiting for the trunk to be idle comes to an end.                       *)
(* (vboxNetFltPortWaitForIdle, woken by vboxNetFltRelease.)                *)
WaitEnds == pc[Net] \in {"waiting", "asleep"} ~> pc[Net] = "is_idle"
=============================================================================
