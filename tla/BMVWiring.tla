------------------------------ MODULE BMVWiring ------------------------------
(***************************************************************************)
(* The tables of BMV, as in MPPTWiring.  None of its registers has a leaf: *)
(* all it shows it takes from the text fields.                             *)
(***************************************************************************)
EXTENDS VEDirectReadings

BMVRegisterIds ==
    {\h0090, \h0100, \h0101, \h010A, \h010B, \h010C, \h0120, \h0150} \cup
    \h0300 .. \h030B \cup {\h030E, \h030F, \h0310, \h0311} \cup \h0320 .. \h032D \cup
    {\h0331, \h0332, \h034D, \h034E, \h034F} \cup \h0350 .. \h0357 \cup
    \h035A .. \h035D \cup {\h0361, \h0362, \h0382, \h0383, \h0400, \h0FFD, \h0FFE, \h0FFF} \cup
    \h1000 .. \h100B \cup {\h1034, \hEC41, \hED7D} \cup \hED8C .. \hED8F \cup
    {\hEDEC, \hEEB6, \hEEB8} \cup \hEEE0 .. \hEEE8 \cup \hEEF4 .. \hEEFC \cup {\hEEFE, \hEEFF}

BMVRegisterClass ==
  [id \in BMVRegisterIds |->
    CASE id \in {\h0090, \h034D, \h0400, \h0FFD, \hEEF6, \hEEFC} \cup \hEEE0 .. \hEEE8 -> "UInt8OnOff"
      [] id \in {\h0100, \h0120, \h0150, \h0303, \h0304, \h0310, \h0311, \hEC41} \cup
                \h0308 .. \h030B -> "UInt32"
      [] id = \h0101 -> "UInt24"
      [] id \in {\h010A, \h010B} -> "String32"
      [] id = \h010C -> "String20"
      [] id \in {\h0300, \h0301, \h0302, \h0305, \h0306, \h0307, \h030E, \h030F, \hED8C, \hEEFF} -> "Int32"
      [] id \in {\h034E, \h034F, \hEEB6, \hEEF5, \hEEF7, \hEEF8, \hEEFE} -> "UInt8"
      [] id \in {\h0383, \h1034, \hED7D, \hED8D, \hED8E, \hED8F, \hEEB8} -> "Int16"
      [] OTHER -> "UInt16"]

BMVFieldMap ==
    "AR" :> "alarmReason" @@ "Alarm" :> "alarm" @@ "BMV" :> "modelDescription" @@
    "CE" :> "consumedAmpHours" @@ "FW" :> "firmware" @@ "H1" :> "deepestDischarge" @@
    "H10" :> "automaticSynchronizations" @@ "H11" :> "lowVoltageAlarms" @@
    "H12" :> "highVoltageAlarms" @@ "H15" :> "minimumAuxVoltage" @@
    "H16" :> "maximumAuxVoltage" @@ "H17" :> "dischargedEnergy" @@ "H18" :> "chargedEnergy" @@
    "H2" :> "lastDischarge" @@ "H3" :> "averageDischarge" @@ "H4" :> "cycles" @@
    "H5" :> "fullDischarges" @@ "H6" :> "cumulativeAmpHoursDrawn" @@
    "H7" :> "minimumVoltage" @@ "H8" :> "maximumVoltage" @@
    "H9" :> "timeSinceLastFullCharge" @@ "I" :> "current" @@ "MON" :> "monitorMode" @@
    "P" :> "power" @@ "PID" :> "pid" @@ "Relay" :> "relay" @@ "SOC" :> "soc" @@
    "T" :> "temperature" @@ "TTG" :> "timeToGo" @@ "V" :> "voltage" @@ "VS" :> "auxVoltage"

BMVFieldClass(field) ==
    CASE field \in {"alarmReason", "timeToGo"} -> "UInt16"
      [] field \in {"alarm", "relay"} -> "OnOff"
      [] field \in {"modelDescription", "firmware"} -> "String"
      [] field \in {"automaticSynchronizations", "lowVoltageAlarms", "highVoltageAlarms",
                    "cycles", "fullDischarges", "timeSinceLastFullCharge"} -> "UInt32"
      [] field = "averageDischarge" -> "ScaledUInt32"
      [] field = "soc" -> "ScaledUInt16"
      [] field \in {"monitorMode", "power"} -> "Int16"
      [] field = "pid" -> "HexUInt16"
      [] field = "voltage" -> "BMVVoltage"
      [] field = "temperature" -> "BMVTemperature"
      [] field = "current" -> "BMVCurrent"
      [] OTHER -> "ScaledInt32"

(* The digits of a field, whether it inverts, and what it excepts.         *)
BMVFieldArguments(field) ==
    FieldArguments(BMVFieldClass(field),
        CASE field = "soc" -> 1
          [] field \in {"dischargedEnergy", "chargedEnergy"} -> 2
          [] BMVFieldClass(field) \in {"ScaledInt32", "ScaledUInt32"} -> 3
          [] OTHER -> 0,
        field \in {"consumedAmpHours", "deepestDischarge", "lastDischarge",
                   "cumulativeAmpHoursDrawn"},
        IF field = "timeToGo" THEN <<Number(-1)>> ELSE <<>>)

(* The class of the leaf a field feeds.                                    *)
BMVLeafClass(field) ==
    CASE field = "soc" -> ScaledUInt16Leaf
      [] field = "voltage" -> ScaledInt16Leaf
      [] field \in {"temperature", "power", "monitorMode"} -> Int16Leaf
      [] field \in {"timeToGo", "alarmReason", "pid"} -> UInt16Leaf
      [] field \in {"alarm", "relay"} -> BoolLeaf
      [] field = "averageDischarge" -> ScaledUInt32Leaf
      [] field \in {"cycles", "fullDischarges", "timeSinceLastFullCharge",
                    "automaticSynchronizations", "lowVoltageAlarms",
                    "highVoltageAlarms"} -> UInt32Leaf
      [] field = "modelDescription" -> StringLeaf(40)
      [] field = "firmware" -> StringLeaf(10)
      [] OTHER -> ScaledInt32Leaf

(* The topic of that leaf below the device's.                              *)
BMVTopics ==
    [field \in {"soc", "voltage", "temperature", "current", "consumedAmpHours", "power"} |->
        <<"main", field>>] @@
    "timeToGo" :> <<"main", "ttg">> @@ "alarm" :> <<"alarm", "state">> @@
    "alarmReason" :> <<"alarm", "reason">> @@ "relay" :> <<"relay", "state">> @@
    "cumulativeAmpHoursDrawn" :> <<"history", "cumulativeAmpHoursDrawnLeaf">> @@
    [field \in {"pid", "modelDescription", "firmware", "monitorMode"} |-> <<field>>] @@
    "auxVoltage" :> <<"aux", "voltage">> @@
    [field \in Range(BMVFieldMap) |-> <<"history", field>>]
=============================================================================
