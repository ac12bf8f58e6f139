---------------------------- MODULE GlueSwiftxx -----------------------------
(***************************************************************************)
(* Swift, the C++ half: the generated swiftxx/*.cpp of the test suite. A   *)
(* record crosses as a composite value whose members are found by their    *)
(* position; so do the arguments of a call. An exported function (calls)   *)
(* takes its arguments from the parameter list and calls C++; a method of  *)
(* SwiftProxy (proxied) fills the list and calls the entry of the protocol *)
(* table that its index names, which is its place in `proxied`.            *)
(***************************************************************************)
EXTENDS IdlTypes

\* Records.
NativeAssortedPrimitives == Record(<< <<"b", Bool>>, <<"eight", I8>>, <<"sixteen", I16>>,
                                      <<"thirtytwo", I32>>, <<"sixtyfour", I64>>,
                                      <<"fthirtytwo", F32>>, <<"fsixtyfour", F64>>,
                                      <<"o_b", Optional(Bool)>>, <<"o_eight", Optional(I8)>>,
                                      <<"o_sixteen", Optional(I16)>>, <<"o_thirtytwo", Optional(I32)>>,
                                      <<"o_sixtyfour", Optional(I64)>>,
                                      <<"o_fthirtytwo", Optional(F32)>>,
                                      <<"o_fsixtyfour", Optional(F64)>> >>)
NativeClientReturnedRecord == Record(<< <<"record_id", I64>>, <<"content", String>>,
                                        <<"misc", Optional(String)>> >>)
NativeConstantRecord == Record(<< <<"some_integer", I32>>, <<"some_string", String>> >>)
NativeConstantWithEnum == Record(<<>>)
NativeConstants == Record(<<>>)
NativeDateRecord == Record(<< <<"created_at", Date>> >>)
NativeEmptyRecord == Record(<<>>)
NativeEnumUsageRecord == Record(<< <<"e", Named("Color")>>, <<"o", Optional(Named("Color"))>>,
                                   <<"l", List(Named("Color"))>>, <<"s", Set(Named("Color"))>>,
                                   <<"m", Map(Named("Color"), Named("Color"))>> >>)
NativeExtendedRecord == Record(<< <<"foo", Bool>> >>)
NativeExternRecordWithDerivings == Record(<< <<"member", Named("RecordWithDerivings")>>,
                                             <<"e", Named("Color")>> >>)
NativeMapDateRecord == Record(<< <<"dates_by_id", Map(String, Date)>> >>)
NativeMapListRecord == Record(<< <<"map_list", List(Map(String, I64))>> >>)
NativeMapRecord == Record(<< <<"map", Map(String, I64)>>, <<"imap", Map(I32, I32)>> >>)
NativeNestedCollection == Record(<< <<"set_list", List(Set(String))>> >>)
NativeNestedOutcome == Record(<< <<"o", Outcome(I32, String)>> >>)
NativeNestedProvider == Record(<< <<"s", Provider(I32)>> >>)
NativeNestedProviderInterface == Record(<< <<"obj", Provider(Named("SimpleObject"))>> >>)
NativeOutcomeErrorCode == Record(<< <<"code", I32>> >>)
NativeOutcomeErrorInfo == Record(<< <<"code", I32>>, <<"message", String>> >>)
NativePrimitiveList == Record(<< <<"list", List(I64)>>,
                                 <<"optional_list", Optional(List(Optional(I64)))>> >>)
NativeRecordUsingExtendedRecord == Record(<< <<"er", Named("ExtendedRecord")>> >>)
NativeRecordWithDerivings == Record(<< <<"eight", I8>>, <<"sixteen", I16>>, <<"thirtytwo", I32>>,
                                       <<"sixtyfour", I64>>, <<"fthirtytwo", F32>>,
                                       <<"fsixtyfour", F64>>, <<"d", Date>>, <<"s", String>> >>)
NativeRecordWithDurationAndDerivings == Record(<< <<"dt", Duration(F64, "ns")>> >>)
NativeRecordWithEmbeddedCppProto == Record(<< <<"state", Proto("PersistingState")>> >>)
NativeRecordWithEmbeddedProto == Record(<< <<"person", Proto("Person")>> >>)
NativeRecordWithFlags == Record(<< <<"access", Named("AccessFlags")>> >>)
NativeRecordWithNestedDerivings == Record(<< <<"key", I32>>, <<"rec", Named("RecordWithDerivings")>> >>)
NativeSetRecord == Record(<< <<"set", Set(String)>>, <<"iset", Set(I32)>> >>)
NativeSupportCopying == Record(<< <<"x", I32>> >>)
NativeTestOptionalExternInterfaceRecord == Record(<< <<"sample_interface", Optional(Named("SampleInterface"))>> >>)
NativeVarnameRecord == Record(<< <<"_field_", I8>> >>)
NativeVec2 == Record(<< <<"x", I32>>, <<"y", I32>> >>)
NativeWcharTestRec == Record(<< <<"s", WString>> >>)

\* Interfaces.
NativeAsyncInterface == ForeignOnly(<<
    M("future_roundtrip", << <<"f", Future(I32)>> >>, Future(String))>>)

NativeClientInterface == ForeignOnly(<<
    M("get_record", << <<"record_id", I64>>, <<"utf8string", String>>, <<"misc", Optional(String)>> >>,
      Named("ClientReturnedRecord")),
    M("identifier_check", << <<"data", Binary>>, <<"r", I32>>, <<"jret", I64>> >>, F64),
    M("return_str", <<>>, String),
    M("meth_taking_interface", << <<"i", Named("ClientInterface")>> >>, String),
    M("meth_taking_optional_interface", << <<"i", Optional(Named("ClientInterface"))>> >>, String)>>)

NativeConflict == Interface(<<>>, <<>>)

NativeConflictUser == CppOnly(<<
    M("Conflict", <<>>, Named("Conflict")),
    M("conflict_arg", << <<"cs", List(Named("Conflict"))>> >>, Bool)>>)

NativeConstantInterfaceWithEnum == Interface(<<>>, <<>>)

NativeConstantsInterface == CppOnly(<<
    M("dummy", <<>>, Void)>>)

NativeCppException == CppOnly(<<
    M("throw_an_exception", <<>>, I32),
    M("call_throwing_interface", << <<"cb", Named("ThrowingInterface")>> >>, I32),
    M("call_throwing_and_catch", << <<"cb", Named("ThrowingInterface")>> >>, String),
    M("get", <<>>, Named("CppException"))>>)

NativeDataRefTest == CppOnly(<<
    M("sendData", << <<"data", DataRef>> >>, Void),
    M("retriveAsBin", <<>>, Binary),
    M("sendMutableData", << <<"data", DataRef>> >>, Void),
    M("generateData", <<>>, DataRef),
    M("dataFromVec", <<>>, DataRef),
    M("dataFromStr", <<>>, DataRef),
    M("sendDataView", << <<"data", DataView>> >>, Binary),
    M("recvDataView", <<>>, DataView),
    M("create", <<>>, Named("DataRefTest"))>>)

NativeEnumUsageInterface == CppOnly(<<
    M("e", << <<"e", Named("Color")>> >>, Named("Color")),
    M("o", << <<"o", Optional(Named("Color"))>> >>, Optional(Named("Color"))),
    M("l", << <<"l", List(Named("Color"))>> >>, List(Named("Color"))),
    M("s", << <<"s", Set(Named("Color"))>> >>, Set(Named("Color"))),
    M("m", << <<"m", Map(Named("Color"), Named("Color"))>> >>, Map(Named("Color"), Named("Color")))>>)

NativeExternInterface1 == CppOnly(<<
    M("foo", << <<"i", Named("ClientInterface")>> >>, Named("ClientReturnedRecord")),
    M("bar", << <<"e", Named("Color")>> >>, Named("Color"))>>)

NativeExternInterface2 == Interface(<<>>, <<>>)

NativeFirstListener == Interface(<<>>, <<>>)

NativeFlagRoundtrip == CppOnly(<<
    M("roundtrip_access", << <<"flag", Named("AccessFlags")>> >>, Named("AccessFlags")),
    M("roundtrip_empty", << <<"flag", Named("EmptyFlags")>> >>, Named("EmptyFlags")),
    M("roundtrip_access_boxed", << <<"flag", Optional(Named("AccessFlags"))>> >>,
      Optional(Named("AccessFlags"))),
    M("roundtrip_empty_boxed", << <<"flag", Optional(Named("EmptyFlags"))>> >>,
      Optional(Named("EmptyFlags")))>>)

NativeInterfaceUsingExtendedRecord == CppOnly(<<
    M("meth", << <<"er", Named("ExtendedRecord")>> >>, Named("ExtendedRecord"))>>)

NativeJavaOnlyListener == Interface(<<>>, <<>>)

NativeListenerCaller == CppOnly(<<
    M("init", << <<"first_l", Named("FirstListener")>>, <<"second_l", Named("SecondListener")>> >>,
      Named("ListenerCaller")),
    M("callFirst", <<>>, Void),
    M("callSecond", <<>>, Void)>>)

NativeObjcOnlyListener == Interface(<<>>, <<>>)

NativeProtoTests == CppOnly(<<
    M("protoToStrings", << <<"x", Proto("AddressBook")>> >>, List(String)),
    M("stringsToProto", << <<"x", List(String)>> >>, Proto("AddressBook")),
    M("embeddedProtoToString", << <<"x", Named("RecordWithEmbeddedProto")>> >>, String),
    M("stringToEmbeddedProto", << <<"x", String>> >>, Named("RecordWithEmbeddedProto")),
    M("cppProtoToString", << <<"x", Proto("PersistingState")>> >>, String),
    M("stringToCppProto", << <<"x", String>> >>, Proto("PersistingState")),
    M("embeddedCppProtoToString", << <<"x", Named("RecordWithEmbeddedCppProto")>> >>, String),
    M("stringToEmbeddedCppProto", << <<"x", String>> >>, Named("RecordWithEmbeddedCppProto")),
    M("protoListToStrings", << <<"x", List(Proto("Person"))>> >>, List(String)),
    M("stringsToProtoList", << <<"x", List(String)>> >>, List(Proto("Person"))),
    M("optionalProtoToString", << <<"x", Optional(Proto("Person"))>> >>, String),
    M("stringToOptionalProto", << <<"x", String>> >>, Optional(Proto("Person"))),
    M("stringToProtoOutcome", << <<"x", String>> >>, Outcome(Proto("Person"), I32))>>)

NativeReturnOne == CppOnly(<<
    M("get_instance", <<>>, Named("ReturnOne")),
    M("return_one", <<>>, I8)>>)

NativeReturnTwo == CppOnly(<<
    M("get_instance", <<>>, Named("ReturnTwo")),
    M("return_two", <<>>, I8)>>)

NativeReverseClientInterface == CppOnly(<<
    M("return_str", <<>>, String),
    M("meth_taking_interface", << <<"i", Named("ReverseClientInterface")>> >>, String),
    M("meth_taking_optional_interface", << <<"i", Optional(Named("ReverseClientInterface"))>> >>,
      String),
    M("create", <<>>, Named("ReverseClientInterface"))>>)

NativeSampleInterface == Interface(<<>>, <<>>)

NativeSecondListener == Interface(<<>>, <<>>)

NativeSimpleObject == CppOnly(<<
    M("get_value", <<>>, I32),
    M("get_name", <<>>, String)>>)

NativeTestArray == CppOnly(<<
    M("testStringArray", << <<"a", Array(String)>> >>, Array(String)),
    M("testIntArray", << <<"a", Array(I32)>> >>, Array(I32)),
    M("testRecordArray", << <<"a", Array(Named("Vec2"))>> >>, Array(Named("Vec2"))),
    M("testArrayOfArray", << <<"a", Array(Array(I32))>> >>, Array(Array(I32)))>>)

NativeTestDuration == CppOnly(<<
    M("hoursString", << <<"dt", Duration(I32, "h")>> >>, String),
    M("minutesString", << <<"dt", Duration(I32, "min")>> >>, String),
    M("secondsString", << <<"dt", Duration(I32, "s")>> >>, String),
    M("millisString", << <<"dt", Duration(I32, "ms")>> >>, String),
    M("microsString", << <<"dt", Duration(I32, "us")>> >>, String),
    M("nanosString", << <<"dt", Duration(I32, "ns")>> >>, String),
    M("hours", << <<"count", I32>> >>, Duration(I32, "h")),
    M("minutes", << <<"count", I32>> >>, Duration(I32, "min")),
    M("seconds", << <<"count", I32>> >>, Duration(I32, "s")),
    M("millis", << <<"count", I32>> >>, Duration(I32, "ms")),
    M("micros", << <<"count", I32>> >>, Duration(I32, "us")),
    M("nanos", << <<"count", I32>> >>, Duration(I32, "ns")),
    M("hoursf", << <<"count", F64>> >>, Duration(F64, "h")),
    M("minutesf", << <<"count", F64>> >>, Duration(F64, "min")),
    M("secondsf", << <<"count", F64>> >>, Duration(F64, "s")),
    M("millisf", << <<"count", F64>> >>, Duration(F64, "ms")),
    M("microsf", << <<"count", F64>> >>, Duration(F64, "us")),
    M("nanosf", << <<"count", F64>> >>, Duration(F64, "ns")),
    M("box", << <<"count", I64>> >>, Optional(Duration(I64, "s"))),
    M("unbox", << <<"dt", Optional(Duration(I64, "s"))>> >>, I64)>>)

NativeTestHelpers == CppOnly(<<
    M("get_set_record", <<>>, Named("SetRecord")),
    M("check_set_record", << <<"rec", Named("SetRecord")>> >>, Bool),
    M("get_primitive_list", <<>>, Named("PrimitiveList")),
    M("check_primitive_list", << <<"pl", Named("PrimitiveList")>> >>, Bool),
    M("get_nested_collection", <<>>, Named("NestedCollection")),
    M("check_nested_collection", << <<"nc", Named("NestedCollection")>> >>, Bool),
    M("get_map", <<>>, Map(String, I64)),
    M("check_map", << <<"m", Map(String, I64)>> >>, Bool),
    M("get_empty_map", <<>>, Map(String, I64)),
    M("check_empty_map", << <<"m", Map(String, I64)>> >>, Bool),
    M("get_map_list_record", <<>>, Named("MapListRecord")),
    M("check_map_list_record", << <<"m", Named("MapListRecord")>> >>, Bool),
    M("check_client_interface_ascii", << <<"i", Named("ClientInterface")>> >>, Void),
    M("check_client_interface_nonascii", << <<"i", Named("ClientInterface")>> >>, Void),
    M("check_client_interface_args", << <<"i", Named("ClientInterface")>> >>, Void),
    M("check_enum_map", << <<"m", Map(Named("Color"), String)>> >>, Void),
    M("check_enum", << <<"c", Named("Color")>> >>, Void),
    M("token_id", << <<"t", Optional(Named("UserToken"))>> >>, Optional(Named("UserToken"))),
    M("create_cpp_token", <<>>, Named("UserToken")),
    M("check_cpp_token", << <<"t", Named("UserToken")>> >>, Void),
    M("cpp_token_id", << <<"t", Named("UserToken")>> >>, I64),
    M("check_token_type", << <<"t", Named("UserToken")>>, <<"type", String>> >>, Void),
    M("return_none", <<>>, Optional(I32)),
    M("assorted_primitives_id", << <<"i", Named("AssortedPrimitives")>> >>, Named("AssortedPrimitives")),
    M("id_binary", << <<"b", Binary>> >>, Binary),
    M("get_async_result", <<>>, Future(I32)),
    M("future_roundtrip", << <<"f", Future(I32)>> >>, Future(String)),
    M("async_early_throw", <<>>, Future(I32)),
    M("void_async_method", << <<"f", Future(Void)>> >>, Future(Void)),
    M("add_one_if_present", << <<"f", Future(Optional(I32))>> >>, Future(Optional(I32))),
    M("return_exception_string", << <<"f", Future(I32)>> >>, Future(String)),
    M("check_async_interface", << <<"i", Named("AsyncInterface")>> >>, Future(String)),
    M("check_async_composition", << <<"i", Named("AsyncInterface")>> >>, Future(String)),
    M("get_optional_list", <<>>, List(Optional(String))),
    M("check_optional_list", << <<"ol", List(Optional(String))>> >>, Bool),
    M("get_optional_set", <<>>, Set(Optional(String))),
    M("check_optional_set", << <<"os", Set(Optional(String))>> >>, Bool),
    M("get_optional_map", <<>>, Map(Optional(String), Optional(String))),
    M("check_optional_map", << <<"om", Map(Optional(String), Optional(String))>> >>, Bool)>>)

NativeTestOutcome == CppOnly(<<
    M("getSuccessOutcome", <<>>, Outcome(String, I32)),
    M("getErrorOutcome", <<>>, Outcome(String, I32)),
    M("putSuccessOutcome", << <<"x", Outcome(String, I32)>> >>, String),
    M("putErrorOutcome", << <<"x", Outcome(String, I32)>> >>, I32),
    M("getNestedSuccessOutcome", <<>>, Named("NestedOutcome")),
    M("getNestedErrorOutcome", <<>>, Named("NestedOutcome")),
    M("putNestedSuccessOutcome", << <<"x", Named("NestedOutcome")>> >>, I32),
    M("putNestedErrorOutcome", << <<"x", Named("NestedOutcome")>> >>, String),
    M("getEnumErrorOutcome", <<>>, Outcome(String, Named("OutcomeError"))),
    M("getRecordErrorOutcome", <<>>, Outcome(String, Named("OutcomeErrorInfo")))>>)

NativeTestProvider == CppOnly(<<
    M("getProviderString", <<>>, Provider(String)),
    M("getProviderInt", <<>>, Provider(I32)),
    M("callProviderString", << <<"x", Provider(String)>> >>, String),
    M("callProviderInt", << <<"x", Provider(I32)>> >>, I32),
    M("getNestedProvider", <<>>, Named("NestedProvider")),
    M("callNestedProvider", << <<"x", Named("NestedProvider")>> >>, I32),
    M("getProviderObject", <<>>, Provider(Named("SimpleObject"))),
    M("callProviderObject", << <<"x", Provider(Named("SimpleObject"))>> >>, I32),
    M("callProviderObjectGetName", << <<"x", Provider(Named("SimpleObject"))>> >>, String),
    M("getNestedProviderInterface", <<>>, Named("NestedProviderInterface")),
    M("callNestedProviderInterface", << <<"x", Named("NestedProviderInterface")>> >>, I32),
    M("createSimpleObject", << <<"value", I32>>, <<"name", String>> >>, Named("SimpleObject"))>>)

NativeTestStaticMethodLanguage == Interface(<<>>, <<>>)

NativeThrowingInterface == ForeignOnly(<<
    M("throw_exception", <<>>, Void)>>)

NativeUserToken == Both(<<
    M("whoami", <<>>, String)>>)

NativeUsesSingleLanguageListeners == CppOnly(<<
    M("callForObjC", << <<"l", Named("ObjcOnlyListener")>> >>, Void),
    M("returnForObjC", <<>>, Named("ObjcOnlyListener")),
    M("callForJava", << <<"l", Named("JavaOnlyListener")>> >>, Void),
    M("returnForJava", <<>>, Named("JavaOnlyListener"))>>)

NativeVarnameInterface == CppOnly(<<
    M("_rmethod_", << <<"_r_arg_", Named("VarnameRecord")>> >>, Named("VarnameRecord")),
    M("_imethod_", << <<"_i_arg_", Named("VarnameInterface")>> >>, Named("VarnameInterface"))>>)

NativeWcharTestHelpers == CppOnly(<<
    M("get_record", <<>>, Named("WcharTestRec")),
    M("get_string", <<>>, WString),
    M("check_string", << <<"str", WString>> >>, Bool),
    M("check_record", << <<"rec", Named("WcharTestRec")>> >>, Bool)>>)

\* The tables by the name of the declaration.
Records ==
    [AssortedPrimitives |-> NativeAssortedPrimitives,
     ClientReturnedRecord |-> NativeClientReturnedRecord, ConstantRecord |-> NativeConstantRecord,
     ConstantWithEnum |-> NativeConstantWithEnum, Constants |-> NativeConstants,
     DateRecord |-> NativeDateRecord, EmptyRecord |-> NativeEmptyRecord,
     EnumUsageRecord |-> NativeEnumUsageRecord, ExtendedRecord |-> NativeExtendedRecord,
     ExternRecordWithDerivings |-> NativeExternRecordWithDerivings,
     MapDateRecord |-> NativeMapDateRecord, MapListRecord |-> NativeMapListRecord,
     MapRecord |-> NativeMapRecord, NestedCollection |-> NativeNestedCollection,
     NestedOutcome |-> NativeNestedOutcome, NestedProvider |-> NativeNestedProvider,
     NestedProviderInterface |-> NativeNestedProviderInterface,
     OutcomeErrorCode |-> NativeOutcomeErrorCode, OutcomeErrorInfo |-> NativeOutcomeErrorInfo,
     PrimitiveList |-> NativePrimitiveList,
     RecordUsingExtendedRecord |-> NativeRecordUsingExtendedRecord,
     RecordWithDerivings |-> NativeRecordWithDerivings,
     RecordWithDurationAndDerivings |-> NativeRecordWithDurationAndDerivings,
     RecordWithEmbeddedCppProto |-> NativeRecordWithEmbeddedCppProto,
     RecordWithEmbeddedProto |-> NativeRecordWithEmbeddedProto,
     RecordWithFlags |-> NativeRecordWithFlags,
     RecordWithNestedDerivings |-> NativeRecordWithNestedDerivings, SetRecord |-> NativeSetRecord,
     SupportCopying |-> NativeSupportCopying,
     TestOptionalExternInterfaceRecord |-> NativeTestOptionalExternInterfaceRecord,
     VarnameRecord |-> NativeVarnameRecord, Vec2 |-> NativeVec2,
     WcharTestRec |-> NativeWcharTestRec]

Interfaces ==
    [AsyncInterface |-> NativeAsyncInterface, ClientInterface |-> NativeClientInterface,
     Conflict |-> NativeConflict, ConflictUser |-> NativeConflictUser,
     ConstantInterfaceWithEnum |-> NativeConstantInterfaceWithEnum,
     ConstantsInterface |-> NativeConstantsInterface, CppException |-> NativeCppException,
     DataRefTest |-> NativeDataRefTest, EnumUsageInterface |-> NativeEnumUsageInterface,
     ExternInterface1 |-> NativeExternInterface1, ExternInterface2 |-> NativeExternInterface2,
     FirstListener |-> NativeFirstListener, FlagRoundtrip |-> NativeFlagRoundtrip,
     InterfaceUsingExtendedRecord |-> NativeInterfaceUsingExtendedRecord,
     JavaOnlyListener |-> NativeJavaOnlyListener, ListenerCaller |-> NativeListenerCaller,
     ObjcOnlyListener |-> NativeObjcOnlyListener, ProtoTests |-> NativeProtoTests,
     ReturnOne |-> NativeReturnOne, ReturnTwo |-> NativeReturnTwo,
     ReverseClientInterface |-> NativeReverseClientInterface,
     SampleInterface |-> NativeSampleInterface, SecondListener |-> NativeSecondListener,
     SimpleObject |-> NativeSimpleObject, TestArray |-> NativeTestArray,
     TestDuration |-> NativeTestDuration, TestHelpers |-> NativeTestHelpers,
     TestOutcome |-> NativeTestOutcome, TestProvider |-> NativeTestProvider,
     TestStaticMethodLanguage |-> NativeTestStaticMethodLanguage,
     ThrowingInterface |-> NativeThrowingInterface, UserToken |-> NativeUserToken,
     UsesSingleLanguageListeners |-> NativeUsesSingleLanguageListeners,
     VarnameInterface |-> NativeVarnameInterface, WcharTestHelpers |-> NativeWcharTestHelpers]
=============================================================================
