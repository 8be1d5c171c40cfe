---------------------------- MODULE RilDispatch ----------------------------
(***************************************************************************)
(* The dispatch functions of libril/ril.cpp that s_commands names: the     *)
(* steps that each takes on the parcel of its request, in the terms of     *)
(* RilParcel.                                                              *)
(***************************************************************************)
EXTENDS RilMarshal

CONSTANTS
    MaxCount,           \* the most elements a client puts in a list
    numParamsRilV3      \* parameters of SETUP_DATA_CALL before version 4

Counts == 0 .. MaxCount
NoCap  == MaxCount + numParamsRilV3 + 1

dispatchVoid == Call

dispatchString == Strs(<<"string8">>) \o Call \o Frees(<<"string8">>)

(* A count of -1 is a null array.                                          *)
ReadStrings ==
    IntIn("countStrings", Counts \cup {-1}) \o Check
    \o Repeat("countStrings", NoCap, Strs(<<"pStrings">>))

dispatchStrings == ReadStrings \o Call \o Frees(<<"pStrings">>)

(* The second string is always "NOCHANGE".                                 *)
dispatchNetworkManual ==
    Strs(<<"pStrings0">>) \o Strdup("pStrings1") \o Call \o Frees(<<"pStrings0", "pStrings1">>)

dispatchInts ==
    IntIn("count", Counts) \o Check
    \o IfIn("count", {0}, Leave("invalid"), <<>>)
    \o Repeat("count", NoCap, Ints(<<"pInts">>) \o Check)
    \o Call

dispatchSmsWrite ==
    Ints(<<"status">>) \o Strs(<<"pdu">>) \o CheckStr("pdu")
    \o Strs(<<"smsc">>) \o Call \o Frees(<<"pdu">>)

dispatchSimPin ==
    IntValue("count", {1}) \o Strs(<<"pin", "aidPtr">>)
    \o Call \o Frees(<<"pin", "aidPtr">>)

(* Mutant: the PUK is not freed.                                           *)
dispatchSimPukKept ==
    IntValue("count", {1}) \o Strs(<<"puk", "newPin", "aidPtr">>)
    \o Call \o Frees(<<"newPin", "aidPtr">>)

dispatchSimPuk ==
    IntValue("count", {1}) \o Strs(<<"puk", "newPin", "aidPtr">>)
    \o Call \o Frees(<<"puk", "newPin", "aidPtr">>)

dispatchSimPinSet ==
    IntValue("count", {1}) \o Strs(<<"pin", "newPin", "aidPtr">>)
    \o Call \o Frees(<<"pin", "newPin", "aidPtr">>)

(* The user-to-user information, from version 3 on.                        *)
ReadUus ==
    IntIn("uusPresent", {0, 1}) \o Check
    \o IfIn("uusPresent", {0}, <<>>,
            Ints(<<"uusType", "uusDcs">>) \o IntIn("len", {-1, 0, 1}) \o Check
            \o Repeat("len", 1, Inplace("uusData")))

dispatchDial ==
    Strs(<<"address">>) \o Ints(<<"clir">>) \o CheckStr("address")
    \o IfBelow(3, <<>>, ReadUus)
    \o Call \o Frees(<<"address">>)

(* Mutant: a request that is answered here is passed on too.               *)
dispatchSIM_IOBoth ==
    IntIn("command", {176, 192, 214}) \o Ints(<<"fileid">>)
    \o StrIn("path", {"null", "3F00", "text"})
    \o Ints(<<"p1", "p2", "p3">>) \o Strs(<<"data", "pin2", "aidPtr">>) \o Check
    \o IfIn("path", {"null"}, Leave("crash"),
         IfIn("path", {"3F00"},
              IfIn("command", {176, 192}, Complete(responseSIM_IO, "fit"), <<>>), <<>>))
    \o Call \o Frees(<<"path", "data", "pin2", "aidPtr">>)

(* strcmp(simIO.path, ...) needs a path.  The two commands that read the   *)
(* ICC ID from the master file are answered here.                          *)
dispatchSIM_IO ==
    IntIn("command", {176, 192, 214}) \o Ints(<<"fileid">>)
    \o StrIn("path", {"null", "3F00", "text"})
    \o Ints(<<"p1", "p2", "p3">>) \o Strs(<<"data", "pin2", "aidPtr">>) \o Check
    \o IfIn("path", {"null"}, Leave("crash"),
         IfIn("path", {"3F00"},
              IfIn("command", {176, 192}, Complete(responseSIM_IO, "fit"), Call),
              Call))
    \o Frees(<<"path", "data", "pin2", "aidPtr">>)

dispatchCallForward ==
    Ints(<<"status", "reason", "serviceClass", "toa">>) \o Strs(<<"number">>)
    \o Ints(<<"timeSeconds">>) \o Check
    \o NullIfEmpty("number")
    \o Call \o Frees(<<"number">>)

(* strcmp(appId, "") needs an appId; the slot is "" without one.           *)
Slot ==
    IfIn("appId", {"null"}, Leave("crash"), <<>>)
    \o Derive("slot", "appId", [a \in {"", "text"} |-> IF a = "" THEN "" ELSE "0"])

dispatchQueryFacility ==
    IntValue("count", {4}) \o Strs(<<"facility", "password", "serviceClass", "appId">>)
    \o Slot \o Encode(<<"slot", "appId", "facility", "password", "serviceClass">>)
    \o dispatchStrings \o FreeCallers

dispatchSetFacility ==
    IntValue("count", {5})
    \o Strs(<<"facility", "lockString", "password", "serviceClass", "appId">>)
    \o Slot
    \o Encode(<<"slot", "appId", "facility", "lockString", "password", "serviceClass">>)
    \o dispatchStrings \o FreeCallers

(* A length of -1 is a null array, and then nothing is read.               *)
dispatchRaw ==
    IntIn("len", {-1, 0, 1}) \o Check \o Repeat("len", 1, Inplace("data")) \o Call

(* Mutant: two fields change places.                                       *)
constructCdmaSmsSwapped ==
    Ints(<<"uTeleserviceID", "bIsServicePresent", "uServicecategory", "digit_mode",
           "number_mode", "number_type", "number_plan">>)
    \o IntIn("address_digits", 0 .. DigitMax + 1)
    \o Repeat("address_digits", DigitMax, Ints(<<"address">>))
    \o Ints(<<"odd", "subaddressType">>)
    \o IntIn("subaddress_digits", 0 .. DigitMax + 1)
    \o Repeat("subaddress_digits", DigitMax, Ints(<<"subaddress">>))
    \o IntIn("uBearerDataLen", 0 .. DigitMax + 1)
    \o Repeat("uBearerDataLen", DigitMax, Ints(<<"aBearerData">>))
    \o Check

(* Digits beyond the array are not read.                                   *)
constructCdmaSms ==
    Ints(<<"uTeleserviceID", "bIsServicePresent", "uServicecategory", "digit_mode",
           "number_mode", "number_type", "number_plan">>)
    \o IntIn("address_digits", 0 .. DigitMax + 1)
    \o Repeat("address_digits", DigitMax, Ints(<<"address">>))
    \o Ints(<<"subaddressType", "odd">>)
    \o IntIn("subaddress_digits", 0 .. DigitMax + 1)
    \o Repeat("subaddress_digits", DigitMax, Ints(<<"subaddress">>))
    \o IntIn("uBearerDataLen", 0 .. DigitMax + 1)
    \o Repeat("uBearerDataLen", DigitMax, Ints(<<"aBearerData">>))
    \o Check

dispatchCdmaSms == constructCdmaSms \o Call

dispatchImsCdmaSms == constructCdmaSms \o Call

dispatchImsGsmSms == ReadStrings \o Call \o Frees(<<"pStrings">>)

(* A format that is neither is only logged.                                *)
dispatchImsSms ==
    IntIn("format", {1, 2, 3}) \o Check
    \o Ints(<<"retry">>) \o Check \o Ints(<<"messageRef">>) \o Check
    \o IfIn("format", {1}, dispatchImsGsmSms,
            IfIn("format", {2}, dispatchImsCdmaSms, <<>>))

(* Mutant: the status is not tested.                                       *)
dispatchCdmaSmsAckUnchecked == Ints(<<"uErrorClass", "uSMSCauseCode">>) \o Call

dispatchCdmaSmsAck == Ints(<<"uErrorClass", "uSMSCauseCode">>) \o Check \o Call

dispatchGsmBrSmsCnf ==
    IntIn("num", Counts) \o Check
    \o Repeat("num", NoCap, Ints(<<"fromServiceId", "toServiceId", "fromCodeScheme",
                                   "toCodeScheme", "selected">>))
    \o Check \o Call

dispatchCdmaBrSmsCnf ==
    IntIn("num", Counts) \o Check
    \o Repeat("num", NoCap, Ints(<<"service_category", "language", "selected">>))
    \o Check \o Call

Digits(f) == Ints([i \in 1 .. DigitMax |-> f])

(* Here the arrays are read whole.                                         *)
dispatchRilCdmaSmsWriteArgs ==
    Ints(<<"status", "uTeleserviceID", "bIsServicePresent", "uServicecategory",
           "digit_mode", "number_mode", "number_type", "number_plan",
           "address_digits">>)
    \o Digits("address") \o Ints(<<"subaddressType", "odd", "subaddress_digits">>)
    \o Digits("subaddress") \o Ints(<<"uBearerDataLen">>) \o Digits("aBearerData")
    \o Check \o Call

dispatchRequestImsi ==
    IntValue("count", {1}) \o Strs(<<"aid_ptr">>) \o Call \o Frees(<<"aid_ptr">>)

(* Before version 4 the parameters beyond the sixth are dropped.           *)
dispatchDataCall ==
    LET Params == SubSeq(<<"param1", "param2", "param3", "param4", "param5", "param6">>,
                         1, numParamsRilV3)
        Copy   == [i \in DOMAIN Params |-> String16(Params[i])[1]] \o Encode(Params)
        Same   == Rewind("countStrings")
    IN  IntValue("numParams", {-1, 0, numParamsRilV3, numParamsRilV3 + 1})
        \o IfBelow(4, IfIn("numParams", {numParamsRilV3 + 1}, Copy, Same), Same)
        \o dispatchStrings

(* The radio's state, as the vendor library gives it: off or unavailable,  *)
(* on, or one that tells the technology and the subscription source.  A    *)
(* request for a radio that is off is completed, and then once more,       *)
(* because that state tells nothing.                                       *)
AnswerFromState ==
    Pick("state", {"off", "on", "known"})
    \o IfIn("state", {"off"}, Complete(<<>>, "null"), <<>>)
    \o IfIn("state", {"on"}, dispatchVoid,
            IfIn("state", {"known"}, Complete(responseInts, "fit"), Complete(<<>>, "null")))

dispatchVoiceRadioTech == AnswerFromState

dispatchCdmaSubscriptionSource == AnswerFromState

-----------------------------------------------------------------------------
(* The functions in s_commands, those of requests before those of          *)
(* responses, and in s_unsolResponses.                                     *)
DispatchFunctions ==
   {"dispatchVoid", "dispatchString", "dispatchStrings", "dispatchNetworkManual",
     "dispatchInts", "dispatchSmsWrite", "dispatchSimPin", "dispatchSimPuk",
     "dispatchSimPinSet", "dispatchDial", "dispatchSIM_IO",
     "dispatchCallForward", "dispatchQueryFacility", "dispatchSetFacility",
     "dispatchRaw", "dispatchCdmaSms", "dispatchImsSms", "dispatchCdmaSmsAck",
     "dispatchGsmBrSmsCnf", "dispatchCdmaBrSmsCnf",
     "dispatchRilCdmaSmsWriteArgs", "dispatchRequestImsi", "dispatchDataCall",
     "dispatchVoiceRadioTech", "dispatchCdmaSubscriptionSource"}

RequestResponses ==
   {"responseSimStatus", "responseInts", "responseCallList", "responseVoid",
     "responseString", "responseFailCause", "responseRilSignalStrength",
     "responseRegState", "responseStrings", "responseSMS",
     "responseSetupDataCall", "responseSIM_IO", "responseCallForwards",
     "responseAvailableNetworks", "responseDataCallList", "responseRaw",
     "responseCellList", "responseGsmBrSmsCnf", "responseCdmaBrSmsCnf"}

UnsolResponses ==
   {"responseVoid", "responseString", "responseInts", "responseStrings",
     "responseRilSignalStrength", "responseDataCallList", "responseSsn",
     "responseSimRefresh", "responseCallRing", "responseCdmaSms", "responseRaw",
     "responseCdmaCallWaiting", "responseCdmaInformationRecords",
     "responseCellInfoList", "responseHardwareConfig", "responseDcRtInfo",
     "responseRadioCapability", "responseSSData", "responseLceData"}

Functions ==
    [dispatchVoid |-> dispatchVoid,
     dispatchString |-> dispatchString,
     dispatchStrings |-> dispatchStrings,
     dispatchNetworkManual |-> dispatchNetworkManual,
     dispatchInts |-> dispatchInts,
     dispatchSmsWrite |-> dispatchSmsWrite,
     dispatchSimPin |-> dispatchSimPin,
     dispatchSimPuk |-> dispatchSimPuk,
     dispatchSimPinSet |-> dispatchSimPinSet,
     dispatchDial |-> dispatchDial,
     dispatchSIM_IO |-> dispatchSIM_IO,
     dispatchCallForward |-> dispatchCallForward,
     dispatchQueryFacility |-> dispatchQueryFacility,
     dispatchSetFacility |-> dispatchSetFacility,
     dispatchRaw |-> dispatchRaw,
     dispatchCdmaSms |-> dispatchCdmaSms,
     dispatchImsSms |-> dispatchImsSms,
     dispatchCdmaSmsAck |-> dispatchCdmaSmsAck,
     dispatchGsmBrSmsCnf |-> dispatchGsmBrSmsCnf,
     dispatchCdmaBrSmsCnf |-> dispatchCdmaBrSmsCnf,
     dispatchRilCdmaSmsWriteArgs |-> dispatchRilCdmaSmsWriteArgs,
     dispatchRequestImsi |-> dispatchRequestImsi,
     dispatchDataCall |-> dispatchDataCall,
     dispatchVoiceRadioTech |-> dispatchVoiceRadioTech,
     dispatchCdmaSubscriptionSource |-> dispatchCdmaSubscriptionSource,
     responseSimStatus |-> responseSimStatus,
     responseInts |-> responseInts,
     responseCallList |-> responseCallList,
     responseVoid |-> responseVoid,
     responseString |-> responseString,
     responseFailCause |-> responseFailCause,
     responseRilSignalStrength |-> responseRilSignalStrength,
     responseRegState |-> responseRegState,
     responseStrings |-> responseStrings,
     responseSMS |-> responseSMS,
     responseSetupDataCall |-> responseSetupDataCall,
     responseSIM_IO |-> responseSIM_IO,
     responseCallForwards |-> responseCallForwards,
     responseAvailableNetworks |-> responseAvailableNetworks,
     responseDataCallList |-> responseDataCallList,
     responseRaw |-> responseRaw,
     responseCellList |-> responseCellList,
     responseGsmBrSmsCnf |-> responseGsmBrSmsCnf,
     responseCdmaBrSmsCnf |-> responseCdmaBrSmsCnf,
     responseSsn |-> responseSsn,
     responseSimRefresh |-> responseSimRefresh,
     responseCallRing |-> responseCallRing,
     responseCdmaSms |-> responseCdmaSms,
     responseCdmaCallWaiting |-> responseCdmaCallWaiting,
     responseCdmaInformationRecords |-> responseCdmaInformationRecords,
     responseCellInfoList |-> responseCellInfoList,
     responseHardwareConfig |-> responseHardwareConfig,
     responseDcRtInfo |-> responseDcRtInfo,
     responseRadioCapability |-> responseRadioCapability,
     responseSSData |-> responseSSData,
     responseLceData |-> responseLceData]

(* RIL_onRequestComplete calls the response function only for a response   *)
(* that is not NULL, RIL_onUnsolicitedResponse always.                     *)
Lengths(n) == CASE n = "responseFailCause"         -> {"fit", "fit6", "odd"}
                [] n = "responseRilSignalStrength" -> {"fit5", "fit6", "fit10", "odd"}
                [] n = "responseCallRing"          -> {"fit", "empty", "odd"}
                [] OTHER                           -> {"fit", "odd"}

Calls ==
    [name : DispatchFunctions, resp : {"null"}, open : {TRUE}]
    \cup UNION {[name : {n}, resp : Lengths(n), open : {FALSE}] :
                  n \in RequestResponses \cup UnsolResponses}
    \cup [name : UnsolResponses, resp : {"null", "nullsome"}, open : {FALSE}]

(* The requests that take what a response or message holds.                *)
SentBack == [responseGsmBrSmsCnf  |-> "dispatchGsmBrSmsCnf",
             responseCdmaBrSmsCnf |-> "dispatchCdmaBrSmsCnf",
             responseCdmaSms      |-> "dispatchCdmaSms",
             responseStrings      |-> "dispatchStrings",
             responseRaw          |-> "dispatchRaw"]

-----------------------------------------------------------------------------
(* A request that is found invalid is neither passed to the vendor library *)
(* nor completed, any other is one of the two and once, but for two cases: *)
(* dispatchImsSms only logs a format it does not know, and the functions   *)
(* that answer from the radio's state complete a request twice when the    *)
(* radio is off.                                                           *)
AnswersTwice == {"dispatchVoiceRadioTech", "dispatchCdmaSubscriptionSource"}
SettledOnce ==
    name \in DispatchFunctions =>
        /\ handed + answered <= IF name \in AnswersTwice THEN 2 ELSE 1
        /\ handed * answered = 0
        /\ prog = <<>> /\ ended = "no" =>
              handed + answered > 0 \/ (name = "dispatchImsSms" /\ Val("format") = 3)
        /\ ended = "invalid" => handed + answered = 0

(* No copy of a string is freed twice, and after a request that went       *)
(* through none is left, but for the smsc of dispatchSmsWrite and an empty *)
(* number in dispatchCallForward.                                          *)
Kept == {<<"dispatchSmsWrite", "smsc">>, <<"dispatchCallForward", "number">>}
CopiesFreed ==
    /\ ~ refreed
    /\ prog = <<>> /\ ended = "no" =>
          outer = {} /\ \A i \in dups : <<name, args[i].f>> \in Kept
=============================================================================
