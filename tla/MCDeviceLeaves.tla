--------------------------- MODULE MCDeviceLeaves ---------------------------
(* Texts and registers for TLC.                                            *)
EXTENDS DeviceLeaves

MCTexts ==
    {Number(n) : n \in {7, -1, -1500, 12345, 65535, 65536}} \cup
    {HexNumber(41026), Dashes, On, Off, Other(33)}

(* The registers with leaves and, of each class, one more.                 *)
MCMPPTRegisters ==
    {VoltageSense, TemperatureSense, CurrentSense, FirstHistoryRegister,
     FirstHistoryRegister + HistoryRegisterCount - 1, \h0100, \h0200, \h104F, \h200D, \hEDA8, \hEDCE}

MCBMVRegisters == {\h0101, \h010A, \h010C}

MCFills == {1, 254}

(***************************************************************************)
(* The wiring, as far as it can be told from the tables.  Every leaf but   *)
(* those of the network has a field or a register, no two have the same    *)
(* topic, and every register that is asked for is in the map.              *)
(***************************************************************************)
FedLeaves ==
    Range(MPPTFieldMap) \cup
    {MPPTRegisterLeaf(id)[1].leaf : id \in {i \in MPPTRegisterIds : MPPTRegisterLeaf(i) # <<>>}}

ASSUME WiringAssumption ==
    /\ DOMAIN MPPTTopics \ FedLeaves = {"networkInfo", "networkMode", "networkStatus"}
    /\ FedLeaves \ DOMAIN MPPTTopics = {"history"}
    /\ IsInjective(MPPTTopics) /\ IsInjective(MPPTFieldMap)
    /\ DOMAIN BMVTopics = Range(BMVFieldMap)
    /\ IsInjective(BMVTopics) /\ IsInjective(BMVFieldMap)
    /\ FirstHistoryRegister .. FirstHistoryRegister + HistoryRegisterCount - 1
            \subseteq MPPTRegisterIds
    /\ Cardinality(MPPTRegisterIds) = 141 /\ Cardinality(BMVRegisterIds) = 105
    /\ Cardinality(DOMAIN MPPTFieldMap) = 20 /\ Cardinality(DOMAIN BMVFieldMap) = 31

(* A device that checks the sum of a command takes every GET and the ping, *)
(* and finds in a GET the ID that was asked for.                           *)
ASSUME CommandAssumption ==
    /\ SumOfBytes(resendPing) = ChecksumOfMessage
    /\ \A id \in MPPTRegisterIds :
          /\ SumOfBytes(sendGet(id)) = ChecksumOfMessage
          /\ parseUInt(sendGet(id), Start, 2).values = <<id>>
=============================================================================
