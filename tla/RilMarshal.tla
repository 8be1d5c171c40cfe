----------------------------- MODULE RilMarshal -----------------------------
(***************************************************************************)
(* The response functions of libril/ril.cpp that s_commands and            *)
(* s_unsolResponses name: the steps by which each writes the vendor        *)
(* library's structure to the parcel, in the terms of RilParcel.           *)
(*                                                                         *)
(* What the vendor library passes is told apart by its pointer and length: *)
(* "null" is NULL of length 0, "nullsome" NULL of another length, "fit" a  *)
(* structure or array of the length the function expects ("fit5", "fit6"   *)
(* and "fit10" where there are versions of it), "empty" one of length 0,   *)
(* "odd" one of another length.                                            *)
(***************************************************************************)
EXTENDS RilParcel

CONSTANTS
    MaxNum,         \* the most elements in an array of the vendor library
    MaxDataCalls,   \* the most data calls
    DigitMax,       \* RIL_CDMA_SMS_ADDRESS_MAX and the other array sizes
    ArrayMax,       \* RIL_CDMA_MAX_NUMBER_OF_INFO_RECS, NUM_SERVICE_CLASSES
    SsInfoMax       \* SS_INFO_MAX

Nums == 0 .. MaxNum

Reject(set)    == IfResp(set, Leave("rejected"), <<>>)
Dereference    == IfResp({"null", "nullsome"}, Leave("crash"), <<>>)
Constant(f, v) == Pick(f, {v}) \o Put(<<f>>)
Text(f)        == Pick(f, {"null", "", "text"}) \o PutStr(<<f>>)

Elements(count, body) == PutCount(count) \o Repeat(count, 100, Element \o body)

(* The count is responselen / sizeof(element).                             *)
List(count, body) ==
    IfResp({"null"}, Pick(count, {0}), Pick(count, Nums)) \o Elements(count, body)

responseInts == Reject({"nullsome", "odd"}) \o List("count", Put(<<"pInts">>))

responseFailCause ==
    Reject({"null", "nullsome", "odd"})
    \o Put(<<"cause_code">>) \o IfResp({"fit6"}, PutStr(<<"vendor_cause">>), <<>>)

responseStrings == Reject({"nullsome", "odd"}) \o List("countStrings", Text("pStrings"))

responseStringsWithVersion == Put(<<"version">>) \o responseStrings

responseString == Text("response")

responseVoid == <<>>

(* User-to-user information is written only with its data.                 *)
responseCallList ==
    Reject({"nullsome", "odd"})
    \o List("num",
         Put(<<"state", "index", "toa", "isMpty", "isMT", "als", "isVoice",
               "isVoicePrivacy">>)
         \o PutStr(<<"number">>) \o Put(<<"numberPresentation">>)
         \o PutStr(<<"name">>) \o Put(<<"namePresentation">>)
         \o IfBelow(3, Constant("uusPresent", 0),
              Pick("uus", {"none", "nodata", "data"})
              \o IfIn("uus", {"data"},
                   Constant("uusPresent", 1) \o Put(<<"uusType", "uusDcs", "uusLength">>)
                   \o PutStr(<<"uusData">>),
                   Constant("uusPresent", 0))))

responseSMS ==
    Reject({"null", "nullsome", "odd"})
    \o Put(<<"messageRef">>) \o PutStr(<<"ackPDU">>) \o Put(<<"errorCode">>)

(* Mutant: the count is of all strings.                                    *)
responseAvailableNetworksAll ==
    LET Sizes == 0 .. 5 * MaxNum
    IN  Reject({"nullsome", "odd"})
        \o IfResp({"null"}, Pick("numStrings", {0}), Pick("numStrings", Sizes))
        \o Derive("kept", "numStrings", [n \in Sizes |-> n - n \div 5])
        \o PutCount("numStrings")
        \o Repeat("kept", 100, Element \o PutStr(<<"p_cur">>))

(* Five strings to a network; the fifth of each is left out.  The length   *)
(* is only tested to be one of strings, so there may be some left over.    *)
responseAvailableNetworks ==
    LET Sizes == 0 .. 5 * MaxNum
    IN  Reject({"nullsome", "odd"})
        \o IfResp({"null"}, Pick("numStrings", {0}), Pick("numStrings", Sizes))
        \o Derive("finalQANelements", "numStrings", [n \in Sizes |-> (n \div 5) * 4])
        \o Derive("kept", "numStrings", [n \in Sizes |-> n - n \div 5])
        \o PutCount("finalQANelements")
        \o Repeat("kept", 100, Element \o PutStr(<<"p_cur">>))

(* A list of data calls is an array of one of four structures, which the   *)
(* function tells apart by the length of the array alone.  The sizes are   *)
(* those of the 32-bit ABI: four integers and five pointers, one pointer   *)
(* more, and one integer more.                                             *)
SizeOf == [v4 |-> 20, v6 |-> 36, v9 |-> 40, v11 |-> 44]

DataCallLists(layouts) == [layout : layouts, num : 0 .. MaxDataCalls]
Bytes(l)               == l.num * SizeOf[l.layout]
MultipleOf(size)       == {l \in DataCallLists({"v6", "v9", "v11"}) : Bytes(l) % size = 0}

PickList(lists) ==
    IfResp({"null"}, Pick("list", {l \in lists : l.num = 0}), Pick("list", lists))

DataCalls(wire, size, lists, body) ==
    Constant("listVersion", wire)
    \o Derive("num", "list", [l \in lists |-> Bytes(l) \div size])
    \o Elements("num", body)

DataCallV6 ==
    Put(<<"status", "suggestedRetryTime", "cid", "active">>)
    \o PutStr(<<"type", "ifname", "addresses", "dnses", "gateways">>)

responseDataCallListV4 ==
    LET Lists == DataCallLists({"v4"})
    IN  Reject({"nullsome", "odd"}) \o PickList(Lists)
        \o DataCalls(4, SizeOf["v4"], Lists,
                     Put(<<"cid", "active">>) \o PutStr(<<"type", "address">>))

responseDataCallListV6 ==
    DataCalls(6, SizeOf["v6"], MultipleOf(SizeOf["v6"]), DataCallV6)

responseDataCallListV9 ==
    DataCalls(10, SizeOf["v9"], MultipleOf(SizeOf["v9"]), DataCallV6 \o PutStr(<<"pcscf">>))

DataCallListV11 ==
    DataCalls(11, SizeOf["v11"], MultipleOf(SizeOf["v11"]),
              DataCallV6 \o PutStr(<<"pcscf">>) \o Put(<<"mtu">>))

(* Mutant: the length is first compared with the structure of version 9.   *)
responseDataCallListSwapped ==
    IfBelow(5, responseDataCallListV4,
        Reject({"nullsome", "odd"}) \o PickList(DataCallLists({"v6", "v9", "v11"}))
        \o IfIn("list", MultipleOf(SizeOf["v9"]), responseDataCallListV9,
             IfIn("list", MultipleOf(SizeOf["v6"]), responseDataCallListV6,
                  DataCallListV11)))

responseDataCallList ==
    IfBelow(5, responseDataCallListV4,
        Reject({"nullsome", "odd"}) \o PickList(DataCallLists({"v6", "v9", "v11"}))
        \o IfIn("list", MultipleOf(SizeOf["v6"]), responseDataCallListV6,
             IfIn("list", MultipleOf(SizeOf["v9"]), responseDataCallListV9,
                  DataCallListV11)))

responseSetupDataCall == IfBelow(5, responseStringsWithVersion, responseDataCallList)

(* A null block is written as a length of -1.                              *)
responseRaw ==
    Reject({"nullsome"})
    \o IfResp({"null"}, Constant("len", -1),
              Pick("len", {0, 1}) \o Put(<<"len">>) \o Repeat("len", 1, PutStr(<<"data">>)))

responseSIM_IO ==
    Reject({"null", "nullsome", "odd"}) \o Put(<<"sw1", "sw2">>) \o PutStr(<<"simResponse">>)

CallForwardInfo ==
    Put(<<"status", "reason", "serviceClass", "toa">>) \o PutStr(<<"number">>)
    \o Put(<<"timeSeconds">>)

responseCallForwards == Reject({"nullsome", "odd"}) \o List("num", CallForwardInfo)

responseSsn ==
    Reject({"null", "nullsome", "odd"})
    \o Put(<<"notificationType", "code", "index", "type">>) \o PutStr(<<"number">>)

responseCellList ==
    Reject({"nullsome", "odd"}) \o List("num", Put(<<"rssi">>) \o PutStr(<<"cid">>))

marshallSignalInfoRecord == Put(<<"isPresent", "signalType", "alertPitch", "signal">>)

(* The text of a record longer than its buffer ends the function half way. *)
Buffered(f) ==
    Pick("fits", BOOLEAN) \o IfIn("fits", {FALSE}, Leave("rejected"), PutStr(<<f>>))

NumberRecord == Buffered("buf") \o Put(<<"number_type", "number_plan", "pi", "si">>)

InfoRecord ==
    Pick("infoName", {"display", "number", "signal", "redirecting", "line", "clir",
                      "audio", "release"})
    \o Put(<<"infoName">>)
    \o IfIn("infoName", {"display"}, Buffered("alpha_buf"), <<>>)
    \o IfIn("infoName", {"number"}, NumberRecord, <<>>)
    \o IfIn("infoName", {"signal"}, marshallSignalInfoRecord, <<>>)
    \o IfIn("infoName", {"redirecting"}, NumberRecord \o Put(<<"redirectingReason">>), <<>>)
    \o IfIn("infoName", {"line"}, Put(<<"lineCtrlPolarityIncluded", "lineCtrlToggle",
                                        "lineCtrlReverse", "lineCtrlPowerDenial">>), <<>>)
    \o IfIn("infoName", {"clir"}, Put(<<"cause">>), <<>>)
    \o IfIn("infoName", {"audio"}, Put(<<"upLink", "downLink">>), <<>>)
    \o IfIn("infoName", {"release"}, Leave("rejected"), <<>>)

responseCdmaInformationRecords ==
    LET Said == 0 .. ArrayMax + 1
    IN  Reject({"null", "nullsome", "odd"})
        \o Pick("numberOfInfoRecs", Said)
        \o Derive("num", "numberOfInfoRecs", [n \in Said |-> Smaller(n, ArrayMax)])
        \o Elements("num", InfoRecord)

INT_MAX == 2147483647

(* Until version 6 an LTE value that is not known is -1, or 0 for rssnr,   *)
(* and rsrp is negative; the structure is changed where it is.             *)
Fixed(f, values, map) ==
    Pick(f, values)
    \o IfBelow(7, Derive(f, f, [x \in values |-> IF x \in DOMAIN map THEN map[x] ELSE x]), <<>>)
    \o Put(<<f>>)

LteFields ==
    Fixed("signalStrength", {-1, 20}, [x \in {-1} |-> 99])
    \o Fixed("rsrp", {-90, -1, 90}, [x \in {-90, -1} |-> IF x = -1 THEN INT_MAX ELSE -x])
    \o Fixed("rsrq", {-1, 10}, [x \in {-1} |-> INT_MAX])
    \o Fixed("rssnr", {0, 10}, [x \in {0} |-> INT_MAX])
    \o Fixed("cqi", {-1, 10}, [x \in {-1} |-> INT_MAX])

responseRilSignalStrength ==
    Reject({"null", "nullsome", "odd"})
    \o Put(<<"gw_signalStrength", "bitErrorRate", "cdma_dbm", "cdma_ecio", "evdo_dbm",
             "evdo_ecio", "signalNoiseRatio">>)
    \o IfResp({"fit5"},
         Constant("signalStrength", 99) \o Constant("rsrp", INT_MAX)
         \o Constant("rsrq", INT_MAX) \o Constant("rssnr", INT_MAX)
         \o Constant("cqi", INT_MAX) \o Constant("rscp", INT_MAX),
         LteFields \o IfResp({"fit10"}, Put(<<"rscp">>), Constant("rscp", INT_MAX)))

responseCdmaSignalInfoRecord ==
    Reject({"null", "nullsome", "odd"}) \o marshallSignalInfoRecord

responseCallRing ==
    IfResp({"null", "nullsome", "empty"}, responseVoid, responseCdmaSignalInfoRecord)

(* "odd" is the shorter structure of the versions before 6.                *)
responseCdmaCallWaiting ==
    Reject({"nullsome"}) \o Dereference
    \o PutStr(<<"number">>) \o Put(<<"numberPresentation">>) \o PutStr(<<"name">>)
    \o marshallSignalInfoRecord
    \o IfResp({"odd"}, Constant("number_type", 0) \o Constant("number_plan", 0),
              Put(<<"number_type", "number_plan">>))

responseSimRefresh ==
    LET Old == Pick("aid", {"null"}) \o PutStr(<<"aid">>)
    IN  Reject({"nullsome"}) \o Dereference \o Put(<<"result", "ef_id">>)
        \o IfBelow(7, Old, IfBelow(8, PutStr(<<"aid">>), Old))

(* Of a cell of a type it does not know only the head is written ...       *)
responseCellInfoList ==
    Reject({"nullsome", "odd"})
    \o List("num",
         Pick("cellInfoType", {"gsm", "wcdma", "cdma", "lte", "tdscdma", "other"})
         \o Put(<<"cellInfoType", "registered", "timeStampType", "timeStamp">>)
         \o IfIn("cellInfoType", {"gsm", "wcdma"},
              Put(<<"mcc", "mnc", "lac", "cid">>)
              \o IfIn("cellInfoType", {"wcdma"}, Put(<<"psc">>), <<>>)
              \o Put(<<"signalStrength", "bitErrorRate">>), <<>>)
         \o IfIn("cellInfoType", {"cdma"},
              Put(<<"networkId", "systemId", "basestationId", "longitude", "latitude",
                    "cdma_dbm", "cdma_ecio", "evdo_dbm", "evdo_ecio",
                    "signalNoiseRatio">>), <<>>)
         \o IfIn("cellInfoType", {"lte"},
              Put(<<"mcc", "mnc", "ci", "pci", "tac", "signalStrength", "rsrp", "rsrq",
                    "rssnr", "cqi", "timingAdvance">>), <<>>)
         \o IfIn("cellInfoType", {"tdscdma"},
              Put(<<"mcc", "mnc", "lac", "cid", "cpid", "rscp">>), <<>>))

(* ... and of such a piece of hardware nothing.                            *)
responseHardwareConfig ==
    Reject({"nullsome", "odd"})
    \o IfResp({"null"}, Pick("num", {0}), Pick("num", Nums)) \o PutCount("num")
    \o Repeat("num", 100,
         Pick("type", {"modem", "sim", "other"})
         \o IfIn("type", {"modem"},
              Element \o PutStr(<<"uuid">>)
              \o Put(<<"state", "rat", "maxVoice", "maxData", "maxStandby">>), <<>>)
         \o IfIn("type", {"sim"},
              Element \o PutStr(<<"uuid">>) \o Put(<<"state">>) \o PutStr(<<"modemUuid">>),
              <<>>))

responseRadioCapability ==
    Reject({"null", "nullsome", "odd"})
    \o Put(<<"version", "session", "phase", "rat">>) \o PutStr(<<"logicalModemUuid">>)
    \o Put(<<"status">>)

isServiceTypeCfQuery == Pick("cfQuery", BOOLEAN)

(* The number of call forwardings is cut to the size of the array.         *)
responseSSData ==
    LET Said == 0 .. ArrayMax + 1
    IN  Reject({"null", "nullsome", "odd"})
        \o Put(<<"serviceType", "requestType", "teleserviceType", "serviceClass", "result">>)
        \o isServiceTypeCfQuery
        \o IfIn("cfQuery", {TRUE},
             Pick("numValidIndexes", Said)
             \o Derive("numValidIndexes", "numValidIndexes",
                       [n \in Said |-> Smaller(n, ArrayMax)])
             \o Elements("numValidIndexes", CallForwardInfo),
             Pick("ssInfoMax", {SsInfoMax}) \o Elements("ssInfoMax", Put(<<"ssInfo">>)))

sendSimStatusAppInfo ==
    Pick("num_applications", Nums)
    \o Elements("num_applications",
         Put(<<"app_type", "app_state", "perso_substate">>)
         \o PutStr(<<"aid_ptr", "app_label_ptr">>)
         \o Put(<<"pin1_replaced", "pin1", "pin2">>))

(* Only the first card, with its first 3GPP and 3GPP2 application.         *)
responseSimStatus ==
    LET Index(f) == Pick(f, {-1, 0}) \o Put(<<f>>)
    IN  Reject({"null", "nullsome", "odd"})
        \o Pick("num_cards", {0, 1})
        \o IfIn("num_cards", {0},
             Constant("card_state", 0) \o Constant("universal_pin_state", 0)
             \o Constant("gsm_index", -1) \o Constant("cdma_index", -1)
             \o Constant("ims_index", -1) \o Pick("num_applications", {0})
             \o PutCount("num_applications"),
             Put(<<"card_state", "universal_pin_state">>)
             \o Index("gsm_index") \o Index("cdma_index")
             \o Constant("ims_index", -1) \o sendSimStatusAppInfo)

(* Two sets of registration state.                                         *)
responseRegState ==
    Reject({"null", "nullsome", "odd"})
    \o Times(Pick("numElements", Nums) \o Elements("numElements", PutStr(<<"regState">>)), 2)

responseGsmBrSmsCnf ==
    List("num", Put(<<"fromServiceId", "toServiceId", "fromCodeScheme", "toCodeScheme",
                      "selected">>))

responseCdmaBrSmsCnf == List("num", Put(<<"service_category", "language", "selected">>))

(* A length beyond the array is written as it is, the digits up to the     *)
(* end of the array.                                                       *)
WriteDigits(n, f) ==
    Pick(n, 0 .. DigitMax + 1) \o PutCount(n) \o Repeat(n, DigitMax, Element \o Put(<<f>>))

responseCdmaSms ==
    Reject({"null", "nullsome", "odd"})
    \o Put(<<"uTeleserviceID", "bIsServicePresent", "uServicecategory", "digit_mode",
             "number_mode", "number_type", "number_plan">>)
    \o WriteDigits("address_digits", "address")
    \o Put(<<"subaddressType", "odd">>)
    \o WriteDigits("subaddress_digits", "subaddress")
    \o WriteDigits("uBearerDataLen", "aBearerData")

responseDcRtInfo ==
    Reject({"null", "odd"}) \o Dereference \o Put(<<"time", "powerState">>)

responseLceData ==
    Reject({"null", "nullsome", "odd"})
    \o Put(<<"last_hop_capacity_kbps", "confidence_level", "lce_suspended">>)

(* A count in a response is the number of elements that follow it.  There  *)
(* are three exceptions, and in each of them it never is: a list of        *)
(* networks that ends in the middle of one, hardware of a type that        *)
(* responseHardwareConfig does not know, and a number of digits of a CDMA  *)
(* message beyond its array.                                               *)
CdmaLengths   == {"address_digits", "subaddress_digits", "uBearerDataLen"}
Miscounted(c) ==
    \/ c.f = "finalQANelements" /\ Val("numStrings") % 5 # 0
    \/ /\ name = "responseHardwareConfig"
       /\ \E i \in DOMAIN args : args[i].f = "type" /\ args[i].v = "other"
    \/ c.f \in CdmaLengths /\ c.said > DigitMax
CountsMatch ==
    prog = <<>> /\ ended = "no" =>
        \A i \in DOMAIN counts : counts[i].said = counts[i].given <=> ~Miscounted(counts[i])

(* The length of a list of data calls is all there is to tell its          *)
(* structure by.  A list is read as the structure the vendor library wrote *)
(* or it has at least nine calls and is read as more calls of an older     *)
(* structure, to its end and not beyond.  So a list of fewer than nine,    *)
(* or of the structure of version 6, is always recognised.                 *)
WireVersion == [v4 |-> 4, v6 |-> 6, v9 |-> 10, v11 |-> 11]
FewestMisread == 9
LayoutRecognised ==
    Known("list") /\ Known("num") /\ Val("list").num > 0 =>
        \E read \in DOMAIN SizeOf :
            /\ Val("listVersion") = WireVersion[read]
            /\ Val("num") * SizeOf[read] = Bytes(Val("list"))
            /\ \/ read = Val("list").layout
               \/ Val("list").num >= FewestMisread /\ SizeOf[read] < SizeOf[Val("list").layout]
=============================================================================
