---------------------------- MODULE TestSuiteIdl ----------------------------
(***************************************************************************)
(* The declarations of the test suite's IDL, test-suite/djinni/*.djinni:   *)
(* what the generated glue of every target has to agree with. The          *)
(* constants of an interface or a record are not part of what crosses a    *)
(* border and are left out.                                                *)
(***************************************************************************)
EXTENDS IdlTypes

\* Enums and flags.
ConstantEnum == Enum(<<"some_value", "some_other_value">>)
Color == Enum(<<"red", "orange", "yellow", "green", "blue", "indigo", "violet">>)
AccessFlags == Flags(<<"nobody", "owner_read", "owner_write", "owner_execute", "group_read",
    "group_write", "group_execute", "system_read", "system_write", "system_execute", "everybody">>)
EmptyFlags == Flags(<<"none", "all">>)
TestIdentEnum == Enum(<<"snake_enum", "CAPS_ENUM">>)
OutcomeError == Enum(<<"not_found", "denied">>)

\* Records.
Vec2 == Record(<< <<"x", I32>>, <<"y", I32>> >>)
ClientReturnedRecord == Record(<< <<"record_id", I64>>, <<"content", String>>,
                                  <<"misc", Optional(String)>> >>)
ConstantWithEnum == Record(<<>>)
ConstantRecord == Record(<< <<"some_integer", I32>>, <<"some_string", String>> >>)
Constants == Record(<<>>)
RecordWithDerivings == Record(<< <<"eight", I8>>, <<"sixteen", I16>>, <<"thirtytwo", I32>>,
                                 <<"sixtyfour", I64>>, <<"fthirtytwo", F32>>, <<"fsixtyfour", F64>>,
                                 <<"d", Date>>, <<"s", String>> >>)
RecordWithNestedDerivings == Record(<< <<"key", I32>>, <<"rec", Named("RecordWithDerivings")>> >>)
EnumUsageRecord == Record(<< <<"e", Named("Color")>>, <<"o", Optional(Named("Color"))>>,
                             <<"l", List(Named("Color"))>>, <<"s", Set(Named("Color"))>>,
                             <<"m", Map(Named("Color"), Named("Color"))>> >>)
RecordWithFlags == Record(<< <<"access", Named("AccessFlags")>> >>)
ExtendedRecord == Record(<< <<"foo", Bool>> >>)
RecordUsingExtendedRecord == Record(<< <<"er", Named("ExtendedRecord")>> >>)
TestIdentRecord == Record(<< <<"FirstValue", I32>>, <<"second_value", String>> >>)
MapRecord == Record(<< <<"map", Map(String, I64)>>, <<"imap", Map(I32, I32)>> >>)
MapListRecord == Record(<< <<"map_list", List(Map(String, I64))>> >>)
NestedCollection == Record(<< <<"set_list", List(Set(String))>> >>)
SupportCopying == Record(<< <<"x", I32>> >>)
BaseRecord == Record(<< <<"val", I32>> >>)
MixedRecord == Record(<< <<"interfaceVal", Optional(Named("OptionalInterface"))>>, <<"reqInt", I32>>,
                         <<"optRecord", Optional(Named("BaseRecord"))>>,
                         <<"reqRecord", Named("BaseRecord")>> >>)
OptionalRecord == Record(<< <<"optInt", Optional(I32)>>,
                            <<"optInterface", Optional(Named("OptionalInterface"))>>,
                            <<"optRecord", Optional(Named("BaseRecord"))>> >>)
OverrideRecord == Record(<< <<"optInt", Optional(I32)>>, <<"optFloat", Optional(F32)>>,
                            <<"reqInt", I32>>, <<"optDouble", Optional(F64)>> >>)
PrimitiveList == Record(<< <<"list", List(I64)>>, <<"optional_list", Optional(List(Optional(I64)))>> >>)
AssortedPrimitives == Record(<< <<"b", Bool>>, <<"eight", I8>>, <<"sixteen", I16>>,
                                <<"thirtytwo", I32>>, <<"sixtyfour", I64>>, <<"fthirtytwo", F32>>,
                                <<"fsixtyfour", F64>>, <<"o_b", Optional(Bool)>>,
                                <<"o_eight", Optional(I8)>>, <<"o_sixteen", Optional(I16)>>,
                                <<"o_thirtytwo", Optional(I32)>>, <<"o_sixtyfour", Optional(I64)>>,
                                <<"o_fthirtytwo", Optional(F32)>>, <<"o_fsixtyfour", Optional(F64)>> >>)
SetRecord == Record(<< <<"set", Set(String)>>, <<"iset", Set(I32)>> >>)
EmptyRecord == Record(<<>>)
VarnameRecord == Record(<< <<"_field_", I8>> >>)
DateRecord == Record(<< <<"created_at", Date>> >>)
MapDateRecord == Record(<< <<"dates_by_id", Map(String, Date)>> >>)
RecordWithDurationAndDerivings == Record(<< <<"dt", Duration(F64, "ns")>> >>)
NestedOutcome == Record(<< <<"o", Outcome(I32, String)>> >>)
OutcomeErrorInfo == Record(<< <<"code", I32>>, <<"message", String>> >>)
OutcomeErrorCode == Record(<< <<"code", I32>> >>)
RecordWithEmbeddedProto == Record(<< <<"person", Proto("Person")>> >>)
RecordWithEmbeddedCppProto == Record(<< <<"state", Proto("PersistingState")>> >>)
NestedProvider == Record(<< <<"s", Provider(I32)>> >>)
NestedProviderInterface == Record(<< <<"obj", Provider(Named("SimpleObject"))>> >>)
WcharTestRec == Record(<< <<"s", WString>> >>)
ExternRecordWithDerivings == Record(<< <<"member", Named("RecordWithDerivings")>>,
                                       <<"e", Named("Color")>> >>)
TestOptionalExternInterfaceRecord == Record(<< <<"sample_interface", Optional(Named("SampleInterface"))>> >>)

\* Interfaces.
TestArray == CppOnly(<<
    M("testStringArray", << <<"a", Array(String)>> >>, Array(String)),
    M("testIntArray", << <<"a", Array(I32)>> >>, Array(I32)),
    M("testRecordArray", << <<"a", Array(Named("Vec2"))>> >>, Array(Named("Vec2"))),
    M("testArrayOfArray", << <<"a", Array(Array(I32))>> >>, Array(Array(I32)))>>)

ClientInterface == ForeignOnly(<<
    M("get_record", << <<"record_id", I64>>, <<"utf8string", String>>, <<"misc", Optional(String)>> >>,
      Named("ClientReturnedRecord")),
    M("identifier_check", << <<"data", Binary>>, <<"r", I32>>, <<"jret", I64>> >>, F64),
    M("return_str", <<>>, String),
    M("meth_taking_interface", << <<"i", Named("ClientInterface")>> >>, String),
    M("meth_taking_optional_interface", << <<"i", Optional(Named("ClientInterface"))>> >>, String)>>)

ReverseClientInterface == CppOnly(<<
    M("return_str", <<>>, String),
    M("meth_taking_interface", << <<"i", Named("ReverseClientInterface")>> >>, String),
    M("meth_taking_optional_interface", << <<"i", Optional(Named("ReverseClientInterface"))>> >>,
      String),
    M("create", <<>>, Named("ReverseClientInterface"))>>)

ConstantInterfaceWithEnum == CppOnly(<<>>)

ConstantsInterface == CppOnly(<<
    M("dummy", <<>>, Void)>>)

DataRefTest == CppOnly(<<
    M("sendData", << <<"data", DataRef>> >>, Void),
    M("retriveAsBin", <<>>, Binary),
    M("sendMutableData", << <<"data", DataRef>> >>, Void),
    M("generateData", <<>>, DataRef),
    M("dataFromVec", <<>>, DataRef),
    M("dataFromStr", <<>>, DataRef),
    M("sendDataView", << <<"data", DataView>> >>, Binary),
    M("recvDataView", <<>>, DataView),
    M("create", <<>>, Named("DataRefTest"))>>)

EnumUsageInterface == Both(<<
    M("e", << <<"e", Named("Color")>> >>, Named("Color")),
    M("o", << <<"o", Optional(Named("Color"))>> >>, Optional(Named("Color"))),
    M("l", << <<"l", List(Named("Color"))>> >>, List(Named("Color"))),
    M("s", << <<"s", Set(Named("Color"))>> >>, Set(Named("Color"))),
    M("m", << <<"m", Map(Named("Color"), Named("Color"))>> >>, Map(Named("Color"), Named("Color")))>>)

FlagRoundtrip == CppOnly(<<
    M("roundtrip_access", << <<"flag", Named("AccessFlags")>> >>, Named("AccessFlags")),
    M("roundtrip_empty", << <<"flag", Named("EmptyFlags")>> >>, Named("EmptyFlags")),
    M("roundtrip_access_boxed", << <<"flag", Optional(Named("AccessFlags"))>> >>,
      Optional(Named("AccessFlags"))),
    M("roundtrip_empty_boxed", << <<"flag", Optional(Named("EmptyFlags"))>> >>,
      Optional(Named("EmptyFlags")))>>)

ThrowingInterface == ForeignOnly(<<
    M("throw_exception", <<>>, Void)>>)

CppException == CppOnly(<<
    M("throw_an_exception", <<>>, I32),
    M("call_throwing_interface", << <<"cb", Named("ThrowingInterface")>> >>, I32),
    M("call_throwing_and_catch", << <<"cb", Named("ThrowingInterface")>> >>, String),
    M("get", <<>>, Named("CppException"))>>)

InterfaceUsingExtendedRecord == CppOnly(<<
    M("meth", << <<"er", Named("ExtendedRecord")>> >>, Named("ExtendedRecord"))>>)

FunctionPrologueHelper == CppOnly(<<
    M("foo", <<>>, String)>>)

TestJavaInterfaceOnly == ForeignOnly(<<
    M("test_method", <<>>, Bool)>>)

TestJavaAbstractClassOnly == CppOnly(<<
    M("test_method", <<>>, Bool)>>)

FirstListener == ForeignOnly(<<
    M("first", <<>>, Void)>>)

SecondListener == ForeignOnly(<<
    M("second", <<>>, Void)>>)

ListenerCaller == CppOnly(<<
    M("init", << <<"first_l", Named("FirstListener")>>, <<"second_l", Named("SecondListener")>> >>,
      Named("ListenerCaller")),
    M("callFirst", <<>>, Void),
    M("callSecond", <<>>, Void)>>)

ReturnOne == CppOnly(<<
    M("get_instance", <<>>, Named("ReturnOne")),
    M("return_one", <<>>, I8)>>)

ReturnTwo == CppOnly(<<
    M("get_instance", <<>>, Named("ReturnTwo")),
    M("return_two", <<>>, I8)>>)

OptionalInterface == CppOnly(<<>>)

OptionalTestHelpers == CppOnly(<<
    M("get_base_record", <<>>, Named("BaseRecord")),
    M("optional_interface", <<>>, Named("OptionalInterface")),
    M("get_mixed_record", <<>>, Named("MixedRecord")),
    M("get_optional_record", <<>>, Named("OptionalRecord")),
    M("mixed_record_id", << <<"i", Named("MixedRecord")>> >>, Named("MixedRecord"))>>)

ObjcOnlyListener == ForeignOnly(<<>>)

JavaOnlyListener == ForeignOnly(<<>>)

UsesSingleLanguageListeners == Both(<<
    M("callForObjC", << <<"l", Named("ObjcOnlyListener")>> >>, Void),
    M("returnForObjC", <<>>, Named("ObjcOnlyListener")),
    M("callForJava", << <<"l", Named("JavaOnlyListener")>> >>, Void),
    M("returnForJava", <<>>, Named("JavaOnlyListener"))>>)

TestStaticMethodLanguage == CppOnly(<<
    MFor({"cpp"}, "test_method", <<>>, Void)>>)

AsyncInterface == ForeignOnly(<<
    M("future_roundtrip", << <<"f", Future(I32)>> >>, Future(String))>>)

TestHelpers == CppOnly(<<
    M("get_set_record", <<>>, Named("SetRecord")),
    M("check_set_record", << <<"rec", Named("SetRecord")>> >>, Bool),
    M("get_primitive_list", <<>>, Named("PrimitiveList")),
    M("check_primitive_list", << <<"pl", Named("PrimitiveList")>> >>, Bool),
    M("get_nested_collection", <<>>, Named("NestedCollection")),
    M("check_nested_collection", << <<"nc", Named("NestedCollection")>> >>, Bool),
    M("get_map", <<>>, Map(String, I64)),
    M("check_map", << <<"m", Map(String, I64)>> >>, Bool),
    M("get_empty_map", <<>>, Map(String, I64)),
    M("check_empty_map", << <<"m", Map(String, I64)>> >>, Bool),
    M("get_map_list_record", <<>>, Named("MapListRecord")),
    M("check_map_list_record", << <<"m", Named("MapListRecord")>> >>, Bool),
    M("check_client_interface_ascii", << <<"i", Named("ClientInterface")>> >>, Void),
    M("check_client_interface_nonascii", << <<"i", Named("ClientInterface")>> >>, Void),
    M("check_client_interface_args", << <<"i", Named("ClientInterface")>> >>, Void),
    M("check_enum_map", << <<"m", Map(Named("Color"), String)>> >>, Void),
    M("check_enum", << <<"c", Named("Color")>> >>, Void),
    M("token_id", << <<"t", Optional(Named("UserToken"))>> >>, Optional(Named("UserToken"))),
    M("create_cpp_token", <<>>, Named("UserToken")),
    M("check_cpp_token", << <<"t", Named("UserToken")>> >>, Void),
    M("cpp_token_id", << <<"t", Named("UserToken")>> >>, I64),
    M("check_token_type", << <<"t", Named("UserToken")>>, <<"type", String>> >>, Void),
    M("return_none", <<>>, Optional(I32)),
    M("assorted_primitives_id", << <<"i", Named("AssortedPrimitives")>> >>, Named("AssortedPrimitives")),
    M("id_binary", << <<"b", Binary>> >>, Binary),
    M("get_async_result", <<>>, Future(I32)),
    M("future_roundtrip", << <<"f", Future(I32)>> >>, Future(String)),
    M("async_early_throw", <<>>, Future(I32)),
    M("void_async_method", << <<"f", Future(Void)>> >>, Future(Void)),
    M("add_one_if_present", << <<"f", Future(Optional(I32))>> >>, Future(Optional(I32))),
    M("return_exception_string", << <<"f", Future(I32)>> >>, Future(String)),
    M("check_async_interface", << <<"i", Named("AsyncInterface")>> >>, Future(String)),
    M("check_async_composition", << <<"i", Named("AsyncInterface")>> >>, Future(String)),
    M("get_optional_list", <<>>, List(Optional(String))),
    M("check_optional_list", << <<"ol", List(Optional(String))>> >>, Bool),
    M("get_optional_set", <<>>, Set(Optional(String))),
    M("check_optional_set", << <<"os", Set(Optional(String))>> >>, Bool),
    M("get_optional_map", <<>>, Map(Optional(String), Optional(String))),
    M("check_optional_map", << <<"om", Map(Optional(String), Optional(String))>> >>, Bool)>>)

Conflict == CppOnly(<<>>)

ConflictUser == CppOnly(<<
    M("Conflict", <<>>, Named("Conflict")),
    M("conflict_arg", << <<"cs", List(Named("Conflict"))>> >>, Bool)>>)

SampleInterface == CppOnly(<<>>)

UserToken == Both(<<
    M("whoami", <<>>, String)>>)

VarnameInterface == CppOnly(<<
    M("_rmethod_", << <<"_r_arg_", Named("VarnameRecord")>> >>, Named("VarnameRecord")),
    M("_imethod_", << <<"_i_arg_", Named("VarnameInterface")>> >>, Named("VarnameInterface"))>>)

TestDuration == CppOnly(<<
    M("hoursString", << <<"dt", Duration(I32, "h")>> >>, String),
    M("minutesString", << <<"dt", Duration(I32, "min")>> >>, String),
    M("secondsString", << <<"dt", Duration(I32, "s")>> >>, String),
    M("millisString", << <<"dt", Duration(I32, "ms")>> >>, String),
    M("microsString", << <<"dt", Duration(I32, "us")>> >>, String),
    M("nanosString", << <<"dt", Duration(I32, "ns")>> >>, String),
    M("hours", << <<"count", I32>> >>, Duration(I32, "h")),
    M("minutes", << <<"count", I32>> >>, Duration(I32, "min")),
    M("seconds", << <<"count", I32>> >>, Duration(I32, "s")),
    M("millis", << <<"count", I32>> >>, Duration(I32, "ms")),
    M("micros", << <<"count", I32>> >>, Duration(I32, "us")),
    M("nanos", << <<"count", I32>> >>, Duration(I32, "ns")),
    M("hoursf", << <<"count", F64>> >>, Duration(F64, "h")),
    M("minutesf", << <<"count", F64>> >>, Duration(F64, "min")),
    M("secondsf", << <<"count", F64>> >>, Duration(F64, "s")),
    M("millisf", << <<"count", F64>> >>, Duration(F64, "ms")),
    M("microsf", << <<"count", F64>> >>, Duration(F64, "us")),
    M("nanosf", << <<"count", F64>> >>, Duration(F64, "ns")),
    M("box", << <<"count", I64>> >>, Optional(Duration(I64, "s"))),
    M("unbox", << <<"dt", Optional(Duration(I64, "s"))>> >>, I64)>>)

TestOutcome == CppOnly(<<
    M("getSuccessOutcome", <<>>, Outcome(String, I32)),
    M("getErrorOutcome", <<>>, Outcome(String, I32)),
    M("putSuccessOutcome", << <<"x", Outcome(String, I32)>> >>, String),
    M("putErrorOutcome", << <<"x", Outcome(String, I32)>> >>, I32),
    M("getNestedSuccessOutcome", <<>>, Named("NestedOutcome")),
    M("getNestedErrorOutcome", <<>>, Named("NestedOutcome")),
    M("putNestedSuccessOutcome", << <<"x", Named("NestedOutcome")>> >>, I32),
    M("putNestedErrorOutcome", << <<"x", Named("NestedOutcome")>> >>, String),
    M("getEnumErrorOutcome", <<>>, Outcome(String, Named("OutcomeError"))),
    M("getRecordErrorOutcome", <<>>, Outcome(String, Named("OutcomeErrorInfo")))>>)

ProtoTests == CppOnly(<<
    M("protoToStrings", << <<"x", Proto("AddressBook")>> >>, List(String)),
    M("stringsToProto", << <<"x", List(String)>> >>, Proto("AddressBook")),
    M("embeddedProtoToString", << <<"x", Named("RecordWithEmbeddedProto")>> >>, String),
    M("stringToEmbeddedProto", << <<"x", String>> >>, Named("RecordWithEmbeddedProto")),
    M("cppProtoToString", << <<"x", Proto("PersistingState")>> >>, String),
    M("stringToCppProto", << <<"x", String>> >>, Proto("PersistingState")),
    M("embeddedCppProtoToString", << <<"x", Named("RecordWithEmbeddedCppProto")>> >>, String),
    M("stringToEmbeddedCppProto", << <<"x", String>> >>, Named("RecordWithEmbeddedCppProto")),
    M("protoListToStrings", << <<"x", List(Proto("Person"))>> >>, List(String)),
    M("stringsToProtoList", << <<"x", List(String)>> >>, List(Proto("Person"))),
    M("optionalProtoToString", << <<"x", Optional(Proto("Person"))>> >>, String),
    M("stringToOptionalProto", << <<"x", String>> >>, Optional(Proto("Person"))),
    M("stringToProtoOutcome", << <<"x", String>> >>, Outcome(Proto("Person"), I32))>>)

SimpleObject == CppOnly(<<
    M("get_value", <<>>, I32),
    M("get_name", <<>>, String)>>)

TestProvider == CppOnly(<<
    M("getProviderString", <<>>, Provider(String)),
    M("getProviderInt", <<>>, Provider(I32)),
    M("callProviderString", << <<"x", Provider(String)>> >>, String),
    M("callProviderInt", << <<"x", Provider(I32)>> >>, I32),
    M("getNestedProvider", <<>>, Named("NestedProvider")),
    M("callNestedProvider", << <<"x", Named("NestedProvider")>> >>, I32),
    M("getProviderObject", <<>>, Provider(Named("SimpleObject"))),
    M("callProviderObject", << <<"x", Provider(Named("SimpleObject"))>> >>, I32),
    M("callProviderObjectGetName", << <<"x", Provider(Named("SimpleObject"))>> >>, String),
    M("getNestedProviderInterface", <<>>, Named("NestedProviderInterface")),
    M("callNestedProviderInterface", << <<"x", Named("NestedProviderInterface")>> >>, I32),
    M("createSimpleObject", << <<"value", I32>>, <<"name", String>> >>, Named("SimpleObject"))>>)

WcharTestHelpers == CppOnly(<<
    M("get_record", <<>>, Named("WcharTestRec")),
    M("get_string", <<>>, WString),
    M("check_string", << <<"str", WString>> >>, Bool),
    M("check_record", << <<"rec", Named("WcharTestRec")>> >>, Bool)>>)

ExternInterface1 == CppOnly(<<
    M("foo", << <<"i", Named("ClientInterface")>> >>, Named("ClientReturnedRecord")),
    M("bar", << <<"e", Named("Color")>> >>, Named("Color"))>>)

ExternInterface2 == ForeignOnly(<<
    M("foo", << <<"i", Named("TestHelpers")>> >>, Named("ExternRecordWithDerivings"))>>)

\* The declarations by name.
Enums ==
    [ConstantEnum |-> ConstantEnum, Color |-> Color, AccessFlags |-> AccessFlags,
     EmptyFlags |-> EmptyFlags, TestIdentEnum |-> TestIdentEnum, OutcomeError |-> OutcomeError]

Records ==
    [Vec2 |-> Vec2, ClientReturnedRecord |-> ClientReturnedRecord,
     ConstantWithEnum |-> ConstantWithEnum, ConstantRecord |-> ConstantRecord,
     Constants |-> Constants, RecordWithDerivings |-> RecordWithDerivings,
     RecordWithNestedDerivings |-> RecordWithNestedDerivings, EnumUsageRecord |-> EnumUsageRecord,
     RecordWithFlags |-> RecordWithFlags, ExtendedRecord |-> ExtendedRecord,
     RecordUsingExtendedRecord |-> RecordUsingExtendedRecord, TestIdentRecord |-> TestIdentRecord,
     MapRecord |-> MapRecord, MapListRecord |-> MapListRecord,
     NestedCollection |-> NestedCollection, SupportCopying |-> SupportCopying,
     BaseRecord |-> BaseRecord, MixedRecord |-> MixedRecord, OptionalRecord |-> OptionalRecord,
     OverrideRecord |-> OverrideRecord, PrimitiveList |-> PrimitiveList,
     AssortedPrimitives |-> AssortedPrimitives, SetRecord |-> SetRecord,
     EmptyRecord |-> EmptyRecord, VarnameRecord |-> VarnameRecord, DateRecord |-> DateRecord,
     MapDateRecord |-> MapDateRecord,
     RecordWithDurationAndDerivings |-> RecordWithDurationAndDerivings,
     NestedOutcome |-> NestedOutcome, OutcomeErrorInfo |-> OutcomeErrorInfo,
     OutcomeErrorCode |-> OutcomeErrorCode, RecordWithEmbeddedProto |-> RecordWithEmbeddedProto,
     RecordWithEmbeddedCppProto |-> RecordWithEmbeddedCppProto, NestedProvider |-> NestedProvider,
     NestedProviderInterface |-> NestedProviderInterface, WcharTestRec |-> WcharTestRec,
     ExternRecordWithDerivings |-> ExternRecordWithDerivings,
     TestOptionalExternInterfaceRecord |-> TestOptionalExternInterfaceRecord]

Interfaces ==
    [TestArray |-> TestArray, ClientInterface |-> ClientInterface,
     ReverseClientInterface |-> ReverseClientInterface,
     ConstantInterfaceWithEnum |-> ConstantInterfaceWithEnum,
     ConstantsInterface |-> ConstantsInterface, DataRefTest |-> DataRefTest,
     EnumUsageInterface |-> EnumUsageInterface, FlagRoundtrip |-> FlagRoundtrip,
     ThrowingInterface |-> ThrowingInterface, CppException |-> CppException,
     InterfaceUsingExtendedRecord |-> InterfaceUsingExtendedRecord,
     FunctionPrologueHelper |-> FunctionPrologueHelper,
     TestJavaInterfaceOnly |-> TestJavaInterfaceOnly,
     TestJavaAbstractClassOnly |-> TestJavaAbstractClassOnly, FirstListener |-> FirstListener,
     SecondListener |-> SecondListener, ListenerCaller |-> ListenerCaller, ReturnOne |-> ReturnOne,
     ReturnTwo |-> ReturnTwo, OptionalInterface |-> OptionalInterface,
     OptionalTestHelpers |-> OptionalTestHelpers, ObjcOnlyListener |-> ObjcOnlyListener,
     JavaOnlyListener |-> JavaOnlyListener,
     UsesSingleLanguageListeners |-> UsesSingleLanguageListeners,
     TestStaticMethodLanguage |-> TestStaticMethodLanguage, AsyncInterface |-> AsyncInterface,
     TestHelpers |-> TestHelpers, Conflict |-> Conflict, ConflictUser |-> ConflictUser,
     SampleInterface |-> SampleInterface, UserToken |-> UserToken,
     VarnameInterface |-> VarnameInterface, TestDuration |-> TestDuration,
     TestOutcome |-> TestOutcome, ProtoTests |-> ProtoTests, SimpleObject |-> SimpleObject,
     TestProvider |-> TestProvider, WcharTestHelpers |-> WcharTestHelpers,
     ExternInterface1 |-> ExternInterface1, ExternInterface2 |-> ExternInterface2]
=============================================================================
