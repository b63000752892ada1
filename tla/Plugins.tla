------------------------------- MODULE Plugins -------------------------------
(***************************************************************************)
(* The plugins of main(): what their phases leave elsewhere, and what the  *)
(* threads that follow it touch (core-api/CoreDeviceAPI.cpp, plugins/).    *)
(* Steps that neither throw nor leave a reference are left out.            *)
(***************************************************************************)

PluginOrder == <<"core", "hue", "tasmota">>
PluginApis == {"core", "hue", "tasmota"}

\* Main.h, in the order of declaration.
MainMembers == <<"dbHandler", "mqtt", "socketComm", "deviceTypes", "deviceReg", "actionSer", "ruleSer">>

PluginUsers ==
  {"coreHandlers", "timer", "later", "load", "hueType", "hueRule", "hueLater", "stat", "tele"}

Step(leaves, mayThrow) == [leaves |-> leaves, mayThrow |-> mayThrow]

\* RegisterEventHandlers adds handlers that refer to the plugin and its emitters,
\* then constructs the RuleEventHandler, which reads all rules (this may throw)
\* and starts the rule timer.
CoreWork == <<Step({"coreHandlers"}, FALSE), Step({"timer"}, TRUE)>>

\* Initialize looks for the bridge; RegisterDeviceTypes leaves a device type with
\* a pointer to the plugin's connection; SynchronizeDevices asks the bridge.
HueWork == <<Step({}, TRUE), Step({"hueType"}, FALSE), Step({}, TRUE)>>

\* Initialize reads the configuration; SynchronizeDevices subscribes two callbacks
\* that refer to the plugin, and each subscription may throw.
TasmotaWork == <<Step({}, TRUE), Step({"stat"}, TRUE), Step({"tele"}, TRUE)>>

PluginWork == [a \in PluginApis |-> CASE a = "core"    -> CoreWork
                                      [] a = "hue"     -> HueWork
                                      [] a = "tasmota" -> TasmotaWork]

\* Creating the load thread may fail; the other plugins have no Start.
PluginStartThrows == {"core"}

PluginUses ==
  [u \in PluginUsers |->
     CASE u = "coreHandlers" -> {"core", "deviceReg", "deviceTypes", "actionSer", "ruleSer", "dbHandler"}
       [] u \in {"timer", "later"} -> {"deviceReg", "deviceTypes", "actionSer", "socketComm", "dbHandler"}
       [] u = "load"  -> {"core", "socketComm"}
       [] u \in {"hueType", "hueRule", "hueLater"} -> {"hue", "deviceReg", "deviceTypes", "dbHandler"}
       [] u \in {"stat", "tele"} -> {"tasmota", "deviceReg", "deviceTypes", "dbHandler"}]
=============================================================================
