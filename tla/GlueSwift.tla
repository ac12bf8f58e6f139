----------------------------- MODULE GlueSwift ------------------------------
(***************************************************************************)
(* Swift, the Swift half: the generated swift/*+Private.swift of the test  *)
(* suite. A record's fromCpp reads the members of the composite value by   *)
(* their position and passes them to the initialiser by name, its toCpp    *)
(* adds them in order. A method of the C++ proxy (calls) adds its          *)
(* arguments to the parameter list; the closures of the protocol table     *)
(* (proxied) are found by their index and read the list by position.       *)
(***************************************************************************)
EXTENDS IdlTypes

\* Records.
AssortedPrimitives == Record(<< <<"b", Bool>>, <<"eight", I8>>, <<"sixteen", I16>>,
                                <<"thirtytwo", I32>>, <<"sixtyfour", I64>>, <<"fthirtytwo", F32>>,
                                <<"fsixtyfour", F64>>, <<"o_b", Optional(Bool)>>,
                                <<"o_eight", Optional(I8)>>, <<"o_sixteen", Optional(I16)>>,
                                <<"o_thirtytwo", Optional(I32)>>, <<"o_sixtyfour", Optional(I64)>>,
                                <<"o_fthirtytwo", Optional(F32)>>, <<"o_fsixtyfour", Optional(F64)>> >>)
ClientReturnedRecord == Record(<< <<"record_id", I64>>, <<"content", String>>,
                                  <<"misc", Optional(String)>> >>)
ConstantRecord == Record(<< <<"some_integer", I32>>, <<"some_string", String>> >>)
ConstantWithEnum == Record(<<>>)
Constants == Record(<<>>)
DateRecord == Record(<< <<"created_at", Date>> >>)
EmptyRecord == Record(<<>>)
EnumUsageRecord == Record(<< <<"e", Named("Color")>>, <<"o", Optional(Named("Color"))>>,
                             <<"l", List(Named("Color"))>>, <<"s", Set(Named("Color"))>>,
                             <<"m", Map(Named("Color"), Named("Color"))>> >>)
ExtendedRecord == Record(<< <<"foo", Bool>> >>)
ExternRecordWithDerivings == Record(<< <<"member", Named("RecordWithDerivings")>>,
                                       <<"e", Named("Color")>> >>)
MapDateRecord == Record(<< <<"dates_by_id", Map(String, Date)>> >>)
MapListRecord == Record(<< <<"map_list", List(Map(String, I64))>> >>)
MapRecord == Record(<< <<"map", Map(String, I64)>>, <<"imap", Map(I32, I32)>> >>)
NestedCollection == Record(<< <<"set_list", List(Set(String))>> >>)
NestedOutcome == Record(<< <<"o", Outcome(I32, String)>> >>)
NestedProvider == Record(<< <<"s", Provider(I32)>> >>)
NestedProviderInterface == Record(<< <<"obj", Provider(Named("SimpleObject"))>> >>)
OutcomeErrorCode == Record(<< <<"code", I32>> >>)
OutcomeErrorInfo == Record(<< <<"code", I32>>, <<"message", String>> >>)
PrimitiveList == Record(<< <<"list", List(I64)>>, <<"optional_list", Optional(List(Optional(I64)))>> >>)
RecordUsingExtendedRecord == Record(<< <<"er", Named("ExtendedRecord")>> >>)
RecordWithDerivings == Record(<< <<"eight", I8>>, <<"sixteen", I16>>, <<"thirtytwo", I32>>,
                                 <<"sixtyfour", I64>>, <<"fthirtytwo", F32>>, <<"fsixtyfour", F64>>,
                                 <<"d", Date>>, <<"s", String>> >>)
RecordWithDurationAndDerivings == Record(<< <<"dt", Duration(F64, "ns")>> >>)
RecordWithEmbeddedCppProto == Record(<< <<"state", Proto("PersistingState")>> >>)
RecordWithEmbeddedProto == Record(<< <<"person", Proto("Person")>> >>)
RecordWithFlags == Record(<< <<"access", Named("AccessFlags")>> >>)
RecordWithNestedDerivings == Record(<< <<"key", I32>>, <<"rec", Named("RecordWithDerivings")>> >>)
SetRecord == Record(<< <<"set", Set(String)>>, <<"iset", Set(I32)>> >>)
SupportCopying == Record(<< <<"x", I32>> >>)
TestOptionalExternInterfaceRecord == Record(<< <<"sample_interface", Optional(Named("SampleInterface"))>> >>)
VarnameRecord == Record(<< <<"_field_", I8>> >>)
Vec2 == Record(<< <<"x", I32>>, <<"y", I32>> >>)
WcharTestRec == Record(<< <<"s", String>> >>)

\* Interfaces.
AsyncInterface == ForeignOnly(<<
    M("future_roundtrip", << <<"f", Future(I32)>> >>, Future(String))>>)

ClientInterface == ForeignOnly(<<
    M("get_record", << <<"record_id", I64>>, <<"utf8string", String>>, <<"misc", Optional(String)>> >>,
      Named("ClientReturnedRecord")),
    M("identifier_check", << <<"data", Binary>>, <<"r", I32>>, <<"jret", I64>> >>, F64),
    M("return_str", <<>>, String),
    M("meth_taking_interface", << <<"i", Named("ClientInterface")>> >>, String),
    M("meth_taking_optional_interface", << <<"i", Optional(Named("ClientInterface"))>> >>, String)>>)

Conflict == Interface(<<>>, <<>>)

ConflictUser == CppOnly(<<
    M("Conflict", <<>>, Named("Conflict")),
    M("conflict_arg", << <<"cs", List(Named("Conflict"))>> >>, Bool)>>)

ConstantInterfaceWithEnum == Interface(<<>>, <<>>)

ConstantsInterface == CppOnly(<<
    M("dummy", <<>>, Void)>>)

CppException == CppOnly(<<
    M("throw_an_exception", <<>>, I32),
    M("call_throwing_interface", << <<"cb", Named("ThrowingInterface")>> >>, I32),
    M("call_throwing_and_catch", << <<"cb", Named("ThrowingInterface")>> >>, String),
    M("get", <<>>, Named("CppException"))>>)

DataRefTest == CppOnly(<<
    M("sendData", << <<"data", DataRef>> >>, Void),
    M("retriveAsBin", <<>>, Binary),
    M("sendMutableData", << <<"data", DataRef>> >>, Void),
    M("generateData", <<>>, DataRef),
    M("dataFromVec", <<>>, DataRef),
    M("dataFromStr", <<>>, DataRef),
    M("sendDataView", << <<"data", DataView>> >>, Binary),
    M("recvDataView", <<>>, DataView),
    M("create", <<>>, Named("DataRefTest"))>>)

EnumUsageInterface == CppOnly(<<
    M("e", << <<"e", Named("Color")>> >>, Named("Color")),
    M("o", << <<"o", Optional(Named("Color"))>> >>, Optional(Named("Color"))),
    M("l", << <<"l", List(Named("Color"))>> >>, List(Named("Color"))),
    M("s", << <<"s", Set(Named("Color"))>> >>, Set(Named("Color"))),
    M("m", << <<"m", Map(Named("Color"), Named("Color"))>> >>, Map(Named("Color"), Named("Color")))>>)

ExternInterface1 == CppOnly(<<
    M("foo", << <<"i", Named("ClientInterface")>> >>, Named("ClientReturnedRecord")),
    M("bar", << <<"e", Named("Color")>> >>, Named("Color"))>>)

ExternInterface2 == Interface(<<>>, <<>>)

FirstListener == Interface(<<>>, <<>>)

FlagRoundtrip == CppOnly(<<
    M("roundtrip_access", << <<"flag", Named("AccessFlags")>> >>, Named("AccessFlags")),
    M("roundtrip_empty", << <<"flag", Named("EmptyFlags")>> >>, Named("EmptyFlags")),
    M("roundtrip_access_boxed", << <<"flag", Optional(Named("AccessFlags"))>> >>,
      Optional(Named("AccessFlags"))),
    M("roundtrip_empty_boxed", << <<"flag", Optional(Named("EmptyFlags"))>> >>,
      Optional(Named("EmptyFlags")))>>)

InterfaceUsingExtendedRecord == CppOnly(<<
    M("meth", << <<"er", Named("ExtendedRecord")>> >>, Named("ExtendedRecord"))>>)

JavaOnlyListener == Interface(<<>>, <<>>)

ListenerCaller == CppOnly(<<
    M("callFirst", <<>>, Void),
    M("callSecond", <<>>, Void),
    M("init", << <<"first_l", Named("FirstListener")>>, <<"second_l", Named("SecondListener")>> >>,
      Named("ListenerCaller"))>>)

ObjcOnlyListener == Interface(<<>>, <<>>)

ProtoTests == CppOnly(<<
    M("protoToStrings", << <<"x", Proto("AddressBook")>> >>, List(String)),
    M("stringsToProto", << <<"x", List(String)>> >>, Proto("AddressBook")),
    M("embeddedProtoToString", << <<"x", Named("RecordWithEmbeddedProto")>> >>, String),
    M("stringToEmbeddedProto", << <<"x", String>> >>, Named("RecordWithEmbeddedProto")),
    M("cppProtoToString", << <<"x", Proto("PersistingState")>> >>, String),
    M("stringToCppProto", << <<"x", String>> >>, Proto("PersistingState")),
    M("embeddedCppProtoToString", << <<"x", Named("RecordWithEmbeddedCppProto")>> >>, String),
    M("stringToEmbeddedCppProto", << <<"x", String>> >>, Named("RecordWithEmbeddedCppProto")),
    M("protoListToStrings", << <<"x", List(Proto("Person"))>> >>, List(String)),
    M("stringsToProtoList", << <<"x", List(String)>> >>, List(Proto("Person"))),
    M("optionalProtoToString", << <<"x", Optional(Proto("Person"))>> >>, String),
    M("stringToOptionalProto", << <<"x", String>> >>, Optional(Proto("Person"))),
    M("stringToProtoOutcome", << <<"x", String>> >>, Outcome(Proto("Person"), I32))>>)

ReturnOne == CppOnly(<<
    M("return_one", <<>>, I8),
    M("get_instance", <<>>, Named("ReturnOne"))>>)

ReturnTwo == CppOnly(<<
    M("return_two", <<>>, I8),
    M("get_instance", <<>>, Named("ReturnTwo"))>>)

ReverseClientInterface == CppOnly(<<
    M("return_str", <<>>, String),
    M("meth_taking_interface", << <<"i", Named("ReverseClientInterface")>> >>, String),
    M("meth_taking_optional_interface", << <<"i", Optional(Named("ReverseClientInterface"))>> >>,
      String),
    M("create", <<>>, Named("ReverseClientInterface"))>>)

SampleInterface == Interface(<<>>, <<>>)

SecondListener == Interface(<<>>, <<>>)

SimpleObject == CppOnly(<<
    M("get_value", <<>>, I32),
    M("get_name", <<>>, String)>>)

TestArray == CppOnly(<<
    M("testStringArray", << <<"a", Array(String)>> >>, Array(String)),
    M("testIntArray", << <<"a", Array(I32)>> >>, Array(I32)),
    M("testRecordArray", << <<"a", Array(Named("Vec2"))>> >>, Array(Named("Vec2"))),
    M("testArrayOfArray", << <<"a", Array(Array(I32))>> >>, Array(Array(I32)))>>)

TestDuration == CppOnly(<<
    M("hoursString", << <<"dt", Duration(I32, "h")>> >>, String),
    M("minutesString", << <<"dt", Duration(I32, "min")>> >>, String),
    M("secondsString", << <<"dt", Duration(I32, "s")>> >>, String),
    M("millisString", << <<"dt", Duration(I32, "ms")>> >>, String),
    M("microsString", << <<"dt", Duration(I32, "us")>> >>, String),
    M("nanosString", << <<"dt", Duration(I32, "ns")>> >>, String),
    M("hours", << <<"count", I32>> >>, Duration(I32, "h")),
    M("minutes", << <<"count", I32>> >>, Duration(I32, "min")),
    M("seconds", << <<"count", I32>> >>, Duration(I32, "s")),
    M("millis", << <<"count", I32>> >>, Duration(I32, "ms")),
    M("micros", << <<"count", I32>> >>, Duration(I32, "us")),
    M("nanos", << <<"count", I32>> >>, Duration(I32, "ns")),
    M("hoursf", << <<"count", F64>> >>, Duration(F64, "h")),
    M("minutesf", << <<"count", F64>> >>, Duration(F64, "min")),
    M("secondsf", << <<"count", F64>> >>, Duration(F64, "s")),
    M("millisf", << <<"count", F64>> >>, Duration(F64, "ms")),
    M("microsf", << <<"count", F64>> >>, Duration(F64, "us")),
    M("nanosf", << <<"count", F64>> >>, Duration(F64, "ns")),
    M("box", << <<"count", I64>> >>, Optional(Duration(I64, "s"))),
    M("unbox", << <<"dt", Optional(Duration(I64, "s"))>> >>, I64)>>)

TestHelpers == CppOnly(<<
    M("get_set_record", <<>>, Named("SetRecord")),
    M("check_set_record", << <<"rec", Named("SetRecord")>> >>, Bool),
    M("get_primitive_list", <<>>, Named("PrimitiveList")),
    M("check_primitive_list", << <<"pl", Named("PrimitiveList")>> >>, Bool),
    M("get_nested_collection", <<>>, Named("NestedCollection")),
    M("check_nested_collection", << <<"nc", Named("NestedCollection")>> >>, Bool),
    M("get_map", <<>>, Map(String, I64)),
    M("check_map", << <<"m", Map(String, I64)>> >>, Bool),
    M("get_empty_map", <<>>, Map(String, I64)),
    M("check_empty_map", << <<"m", Map(String, I64)>> >>, Bool),
    M("get_map_list_record", <<>>, Named("MapListRecord")),
    M("check_map_list_record", << <<"m", Named("MapListRecord")>> >>, Bool),
    M("check_client_interface_ascii", << <<"i", Named("ClientInterface")>> >>, Void),
    M("check_client_interface_nonascii", << <<"i", Named("ClientInterface")>> >>, Void),
    M("check_client_interface_args", << <<"i", Named("ClientInterface")>> >>, Void),
    M("check_enum_map", << <<"m", Map(Named("Color"), String)>> >>, Void),
    M("check_enum", << <<"c", Named("Color")>> >>, Void),
    M("token_id", << <<"t", Optional(Named("UserToken"))>> >>, Optional(Named("UserToken"))),
    M("create_cpp_token", <<>>, Named("UserToken")),
    M("check_cpp_token", << <<"t", Named("UserToken")>> >>, Void),
    M("cpp_token_id", << <<"t", Named("UserToken")>> >>, I64),
    M("check_token_type", << <<"t", Named("UserToken")>>, <<"type", String>> >>, Void),
    M("return_none", <<>>, Optional(I32)),
    M("assorted_primitives_id", << <<"i", Named("AssortedPrimitives")>> >>, Named("AssortedPrimitives")),
    M("id_binary", << <<"b", Binary>> >>, Binary),
    M("get_async_result", <<>>, Future(I32)),
    M("future_roundtrip", << <<"f", Future(I32)>> >>, Future(String)),
    M("async_early_throw", <<>>, Future(I32)),
    M("void_async_method", << <<"f", Future(Void)>> >>, Future(Void)),
    M("add_one_if_present", << <<"f", Future(Optional(I32))>> >>, Future(Optional(I32))),
    M("return_exception_string", << <<"f", Future(I32)>> >>, Future(String)),
    M("check_async_interface", << <<"i", Named("AsyncInterface")>> >>, Future(String)),
    M("check_async_composition", << <<"i", Named("AsyncInterface")>> >>, Future(String)),
    M("get_optional_list", <<>>, List(Optional(String))),
    M("check_optional_list", << <<"ol", List(Optional(String))>> >>, Bool),
    M("get_optional_set", <<>>, Set(Optional(String))),
    M("check_optional_set", << <<"os", Set(Optional(String))>> >>, Bool),
    M("get_optional_map", <<>>, Map(Optional(String), Optional(String))),
    M("check_optional_map", << <<"om", Map(Optional(String), Optional(String))>> >>, Bool)>>)

TestOutcome == CppOnly(<<
    M("getSuccessOutcome", <<>>, Outcome(String, I32)),
    M("getErrorOutcome", <<>>, Outcome(String, I32)),
    M("putSuccessOutcome", << <<"x", Outcome(String, I32)>> >>, String),
    M("putErrorOutcome", << <<"x", Outcome(String, I32)>> >>, I32),
    M("getNestedSuccessOutcome", <<>>, Named("NestedOutcome")),
    M("getNestedErrorOutcome", <<>>, Named("NestedOutcome")),
    M("putNestedSuccessOutcome", << <<"x", Named("NestedOutcome")>> >>, I32),
    M("putNestedErrorOutcome", << <<"x", Named("NestedOutcome")>> >>, String),
    M("getEnumErrorOutcome", <<>>, Outcome(String, Named("OutcomeError"))),
    M("getRecordErrorOutcome", <<>>, Outcome(String, Named("OutcomeErrorInfo")))>>)

TestProvider == CppOnly(<<
    M("getProviderString", <<>>, Provider(String)),
    M("getProviderInt", <<>>, Provider(I32)),
    M("callProviderString", << <<"x", Provider(String)>> >>, String),
    M("callProviderInt", << <<"x", Provider(I32)>> >>, I32),
    M("getNestedProvider", <<>>, Named("NestedProvider")),
    M("callNestedProvider", << <<"x", Named("NestedProvider")>> >>, I32),
    M("getProviderObject", <<>>, Provider(Named("SimpleObject"))),
    M("callProviderObject", << <<"x", Provider(Named("SimpleObject"))>> >>, I32),
    M("callProviderObjectGetName", << <<"x", Provider(Named("SimpleObject"))>> >>, String),
    M("getNestedProviderInterface", <<>>, Named("NestedProviderInterface")),
    M("callNestedProviderInterface", << <<"x", Named("NestedProviderInterface")>> >>, I32),
    M("createSimpleObject", << <<"value", I32>>, <<"name", String>> >>, Named("SimpleObject"))>>)

TestStaticMethodLanguage == Interface(<<>>, <<>>)

ThrowingInterface == ForeignOnly(<<
    M("throw_exception", <<>>, Void)>>)

UserToken == Both(<<
    M("whoami", <<>>, String)>>)

UsesSingleLanguageListeners == CppOnly(<<
    M("callForObjC", << <<"l", Named("ObjcOnlyListener")>> >>, Void),
    M("returnForObjC", <<>>, Named("ObjcOnlyListener")),
    M("callForJava", << <<"l", Named("JavaOnlyListener")>> >>, Void),
    M("returnForJava", <<>>, Named("JavaOnlyListener"))>>)

VarnameInterface == CppOnly(<<
    M("_rmethod_", << <<"_r_arg_", Named("VarnameRecord")>> >>, Named("VarnameRecord")),
    M("_imethod_", << <<"_i_arg_", Named("VarnameInterface")>> >>, Named("VarnameInterface"))>>)

WcharTestHelpers == CppOnly(<<
    M("get_record", <<>>, Named("WcharTestRec")),
    M("get_string", <<>>, String),
    M("check_string", << <<"str", String>> >>, Bool),
    M("check_record", << <<"rec", Named("WcharTestRec")>> >>, Bool)>>)

\* The tables by the name of the declaration.
Records ==
    [AssortedPrimitives |-> AssortedPrimitives, ClientReturnedRecord |-> ClientReturnedRecord,
     ConstantRecord |-> ConstantRecord, ConstantWithEnum |-> ConstantWithEnum,
     Constants |-> Constants, DateRecord |-> DateRecord, EmptyRecord |-> EmptyRecord,
     EnumUsageRecord |-> EnumUsageRecord, ExtendedRecord |-> ExtendedRecord,
     ExternRecordWithDerivings |-> ExternRecordWithDerivings, MapDateRecord |-> MapDateRecord,
     MapListRecord |-> MapListRecord, MapRecord |-> MapRecord,
     NestedCollection |-> NestedCollection, NestedOutcome |-> NestedOutcome,
     NestedProvider |-> NestedProvider, NestedProviderInterface |-> NestedProviderInterface,
     OutcomeErrorCode |-> OutcomeErrorCode, OutcomeErrorInfo |-> OutcomeErrorInfo,
     PrimitiveList |-> PrimitiveList, RecordUsingExtendedRecord |-> RecordUsingExtendedRecord,
     RecordWithDerivings |-> RecordWithDerivings,
     RecordWithDurationAndDerivings |-> RecordWithDurationAndDerivings,
     RecordWithEmbeddedCppProto |-> RecordWithEmbeddedCppProto,
     RecordWithEmbeddedProto |-> RecordWithEmbeddedProto, RecordWithFlags |-> RecordWithFlags,
     RecordWithNestedDerivings |-> RecordWithNestedDerivings, SetRecord |-> SetRecord,
     SupportCopying |-> SupportCopying,
     TestOptionalExternInterfaceRecord |-> TestOptionalExternInterfaceRecord,
     VarnameRecord |-> VarnameRecord, Vec2 |-> Vec2, WcharTestRec |-> WcharTestRec]

Interfaces ==
    [AsyncInterface |-> AsyncInterface, ClientInterface |-> ClientInterface, Conflict |-> Conflict,
     ConflictUser |-> ConflictUser, ConstantInterfaceWithEnum |-> ConstantInterfaceWithEnum,
     ConstantsInterface |-> ConstantsInterface, CppException |-> CppException,
     DataRefTest |-> DataRefTest, EnumUsageInterface |-> EnumUsageInterface,
     ExternInterface1 |-> ExternInterface1, ExternInterface2 |-> ExternInterface2,
     FirstListener |-> FirstListener, FlagRoundtrip |-> FlagRoundtrip,
     InterfaceUsingExtendedRecord |-> InterfaceUsingExtendedRecord,
     JavaOnlyListener |-> JavaOnlyListener, ListenerCaller |-> ListenerCaller,
     ObjcOnlyListener |-> ObjcOnlyListener, ProtoTests |-> ProtoTests, ReturnOne |-> ReturnOne,
     ReturnTwo |-> ReturnTwo, ReverseClientInterface |-> ReverseClientInterface,
     SampleInterface |-> SampleInterface, SecondListener |-> SecondListener,
     SimpleObject |-> SimpleObject, TestArray |-> TestArray, TestDuration |-> TestDuration,
     TestHelpers |-> TestHelpers, TestOutcome |-> TestOutcome, TestProvider |-> TestProvider,
     TestStaticMethodLanguage |-> TestStaticMethodLanguage, ThrowingInterface |-> ThrowingInterface,
     UserToken |-> UserToken, UsesSingleLanguageListeners |-> UsesSingleLanguageListeners,
     VarnameInterface |-> VarnameInterface, WcharTestHelpers |-> WcharTestHelpers]
=============================================================================
