----------------------------- MODULE MPPTWiring -----------------------------
(***************************************************************************)
(* The tables of MPPTController: its registers, its text fields and the    *)
(* leaves they feed.  A register goes by its ID in registerMap, a field    *)
(* by its member's name without the ending Field, which is also that of    *)
(* its leaf without the ending Leaf.                                       *)
(***************************************************************************)
EXTENDS VEDirectReadings

MPPTRegisterIds ==
    {\h0100, \h0104, \h0140, \h0200, \h0201, \h0202, \h0205, \h0207, \h0244} \cup
    \h0350 .. \h0353 \cup {\h100A, \h104F} \cup \h1050 .. \h106E \cup
    {\h2002, \h2003} \cup \h200A .. \h200F \cup {\h2013, \h2015, \h2018, \h2027, \h2211, \h2212} \cup
    {t + f : t \in {\hECC0, \hECD0, \hECE0, \hECF0}, f \in {3, 11, 12, 13}} \cup
    {\hED8B, \hED8D, \hED8F, \hED90, \hED91, \hED98, \hED9C, \hED9D, \hED9E} \cup
    {\hEDA8, \hEDA9, \hEDAB, \hEDAC, \hEDAD, \hEDB1, \hEDB2, \hEDB3} \cup
    \hEDB8 .. \hEDBD \cup {\hEDBF, \hEDC6, \hEDC7, \hEDCA, \hEDCC, \hEDCD, \hEDCE} \cup
    \hEDD0 .. \hEDD5 \cup {\hEDD7} \cup \hEDD9 .. \hEDDD \cup {\hEDDF, \hEDE0} \cup
    \hEDE2 .. \hEDE8 \cup {\hEDEA, \hEDEC, \hEDEF, \hEDF0, \hEDF1, \hEDF2, \hEDF4} \cup
    {\hEDF6, \hEDF7} \cup \hEDFB .. \hEDFF

(* The class of a register: the type of its member.                        *)
MPPTRegisterClass ==
  [id \in MPPTRegisterIds |->
    CASE id \in {\h0100, \h0140, \h0202, \h0207, \h2027, \hECCC, \hECDC, \hECEC, \hECFC,
                 \hEDB1, \hEDBC, \hEDDC, \hEDDD} -> "UInt32"
      [] id \in {\h0104, \h0200, \h0201, \h0205, \h0244, \h200C, \h200D, \h200E, \h200F,
                 \h2018, \hECC3, \hECD3, \hECE3, \hECF3, \hED91, \hED98, \hED9E, \hEDAB,
                 \hEDAC, \hEDB3, \hEDC7, \hEDCC, \hEDCD, \hEDD4, \hEDD9, \hEDDA, \hEDE4,
                 \hEDEA, \hEDEF, \hEDF1, \hEDFD} -> "UInt8"
      [] id \in {\hEDA8, \hEDE5, \hEDE8, \hEDFE, \hEDFF} -> "UInt8OnOff"
      [] id \in {\h2003, \hED8D, \hED8F, \hEDDB, \hEDE0, \hEDF2} -> "Int16"
      [] id \in {\h200A, \h2013} -> "Int32"
      [] id = \hEDCE -> "UInt16Range"
      [] id = \h104F -> "TotalHistory"
      [] id \in \h1050 .. \h106E -> "DailyHistory"
      [] OTHER -> "UInt16"]

VoltageSense == \h2002
TemperatureSense == \h2003
CurrentSense == \h200A
FirstHistoryRegister == \h1050
HistoryRegisterCount == 31

(* The registers that were given a leaf, and its digits.  networkInfo and  *)
(* networkMode are not among them: UInt8Register takes a scaled leaf, and  *)
(* a DataModelUInt8Leaf converts to the uint8_t of the constructor without *)
(* a leaf.  Without INCLUDE_FULL_HISTORY only two weeks have leaves.       *)
MPPTRegisterLeaf(id) ==
    CASE id = VoltageSense -> <<[leaf |-> "batteryVoltage", digits |-> 2]>>
      [] id = TemperatureSense -> <<[leaf |-> "batteryTemperature", digits |-> 2]>>
      [] id = CurrentSense -> <<[leaf |-> "batteryCurrent", digits |-> 3]>>
      [] id \in FirstHistoryRegister .. FirstHistoryRegister + 13 -> <<[leaf |-> "history", digits |-> 0]>>
      [] OTHER -> <<>>

MPPTFieldMap ==
  [label \in {"CS", "ERR", "FW", "H19", "H20", "H21", "H22", "H23", "HSDS", "I", "IL", "LOAD",
             "MPPT", "OR", "PID", "PPV", "Relay", "SER#", "V", "VPV"} |->
    CASE label = "CS" -> "stateOfOperation"      [] label = "ERR" -> "errorCode"
      [] label = "FW" -> "firmware"              [] label = "H19" -> "yieldHistoric"
      [] label = "H20" -> "yieldToday"           [] label = "H21" -> "maxPowerToday"
      [] label = "H22" -> "yieldYesterday"       [] label = "H23" -> "maxPowerYesterday"
      [] label = "HSDS" -> "daySequenceNumber"   [] label = "I" -> "chargerCurrent"
      [] label = "IL" -> "loadCurrent"           [] label = "LOAD" -> "loadState"
      [] label = "MPPT" -> "trackerOperationMode" [] label = "OR" -> "offReason"
      [] label = "PID" -> "pid"                  [] label = "PPV" -> "panelPower"
      [] label = "Relay" -> "relayState"         [] label = "SER#" -> "serialNumber"
      [] label = "V" -> "chargerVoltage"         [] label = "VPV" -> "panelVoltage"]

MPPTFieldClass(field) ==
    CASE field \in {"stateOfOperation", "errorCode", "trackerOperationMode"} -> "UInt8"
      [] field \in {"firmware", "serialNumber"} -> "String"
      [] field \in {"yieldHistoric", "yieldToday", "yieldYesterday", "loadCurrent"} -> "ScaledUInt32"
      [] field \in {"maxPowerToday", "maxPowerYesterday", "panelPower"} -> "UInt32"
      [] field = "daySequenceNumber" -> "UInt16"
      [] field = "chargerCurrent" -> "ScaledInt32"
      [] field \in {"loadState", "relayState"} -> "OnOff"
      [] field = "offReason" -> "HexUInt32"
      [] field = "pid" -> "HexUInt16"
      [] field \in {"chargerVoltage", "panelVoltage"} -> "ScaledUInt16"

(* The digits the fields were given.                                       *)
MPPTFieldArguments(field) ==
    FieldArguments(MPPTFieldClass(field),
        CASE field \in {"chargerVoltage", "chargerCurrent", "panelVoltage", "loadCurrent"} -> 3
          [] field \in {"yieldHistoric", "yieldToday", "yieldYesterday"} -> 2
          [] OTHER -> 0,
        FALSE, <<>>)

MPPTLeafClass(leaf) ==
    CASE leaf \in {"chargerVoltage", "batteryVoltage", "panelVoltage"} -> ScaledUInt16Leaf
      [] leaf \in {"chargerCurrent", "batteryCurrent"} -> ScaledInt32Leaf
      [] leaf = "batteryTemperature" -> ScaledInt16Leaf
      [] leaf \in {"panelPower", "offReason", "maxPowerToday", "maxPowerYesterday"} -> UInt32Leaf
      [] leaf \in {"loadCurrent", "yieldHistoric", "yieldToday", "yieldYesterday"} -> ScaledUInt32Leaf
      [] leaf \in {"loadState", "relayState"} -> BoolLeaf
      [] leaf \in {"errorCode", "stateOfOperation", "trackerOperationMode",
                   "networkInfo", "networkMode", "networkStatus"} -> UInt8Leaf
      [] leaf = "firmware" -> StringLeaf(10)
      [] leaf = "serialNumber" -> StringLeaf(20)
      [] leaf \in {"pid", "daySequenceNumber"} -> UInt16Leaf

(* The leaves and their topics below that of the device.  history is the   *)
(* node of the days 0 to 13, which have DayLeaves each.                    *)
MPPTTopics ==
    "chargerVoltage" :> <<"charger", "voltage">> @@ "chargerCurrent" :> <<"charger", "current">> @@
    "batteryVoltage" :> <<"battery", "voltage">> @@ "batteryCurrent" :> <<"battery", "current">> @@
    "batteryTemperature" :> <<"battery", "temperature">> @@
    "panelVoltage" :> <<"panel", "voltage">> @@ "panelPower" :> <<"panel", "power">> @@
    "loadCurrent" :> <<"load", "current">> @@ "loadState" :> <<"load", "state">> @@
    "relayState" :> <<"relay", "state">> @@ "offReason" :> <<"offReason">> @@
    "yieldHistoric" :> <<"yield", "historic">> @@ "yieldToday" :> <<"yield", "today">> @@
    "yieldYesterday" :> <<"yield", "yesterday">> @@
    "maxPowerToday" :> <<"power", "maxToday">> @@
    "maxPowerYesterday" :> <<"power", "maxYesterday">> @@
    "errorCode" :> <<"errorCode">> @@ "stateOfOperation" :> <<"stateOfOperation">> @@
    "firmware" :> <<"firmware">> @@ "pid" :> <<"pid">> @@ "serialNumber" :> <<"serialNumber">> @@
    "trackerOperationMode" :> <<"trackerOperationMode">> @@
    "daySequenceNumber" :> <<"history", "daySequenceNumber">> @@
    "networkInfo" :> <<"network", "info">> @@ "networkMode" :> <<"network", "mode">> @@
    "networkStatus" :> <<"network", "status">>
=============================================================================
