------------------------------- MODULE GlueC --------------------------------
(***************************************************************************)
(* C: the generated c/*.cpp of the test suite. A record's _new function    *)
(* takes the fields by position, its _get_ functions return them by name.  *)
(* A function that takes the instance (calls) converts its arguments and   *)
(* calls C++; a method of the Proxy class (proxied) converts and calls the *)
(* function of the caller's method table.                                  *)
(***************************************************************************)
EXTENDS IdlTypes

\* Records.
RecordWithEmbeddedCppProto == Record(<< <<"state", Proto("PersistingState")>> >>)
RecordWithEmbeddedProto == Record(<< <<"person", Proto("Person")>> >>)
varname_record == Record(<< <<"_field_", I8>> >>)
assorted_primitives == Record(<< <<"b", Bool>>, <<"eight", I8>>, <<"sixteen", I16>>,
                                 <<"thirtytwo", I32>>, <<"sixtyfour", I64>>, <<"fthirtytwo", F32>>,
                                 <<"fsixtyfour", F64>>, <<"o_b", Optional(Bool)>>,
                                 <<"o_eight", Optional(I8)>>, <<"o_sixteen", Optional(I16)>>,
                                 <<"o_thirtytwo", Optional(I32)>>, <<"o_sixtyfour", Optional(I64)>>,
                                 <<"o_fthirtytwo", Optional(F32)>>, <<"o_fsixtyfour", Optional(F64)>> >>)
client_returned_record == Record(<< <<"record_id", I64>>, <<"content", String>>,
                                    <<"misc", Optional(String)>> >>)
constant_record == Record(<< <<"some_integer", I32>>, <<"some_string", String>> >>)
constant_with_enum == Record(<<>>)
constants == Record(<<>>)
date_record == Record(<< <<"created_at", Date>> >>)
empty_record == Record(<<>>)
enum_usage_record == Record(<< <<"e", Named("Color")>>, <<"o", Optional(Named("Color"))>>,
                               <<"l", List(Named("Color"))>>, <<"s", Set(Named("Color"))>>,
                               <<"m", Map(Named("Color"), Named("Color"))>> >>)
extended_record == Record(<< <<"foo", Bool>> >>)
map_date_record == Record(<< <<"dates_by_id", Map(String, Date)>> >>)
map_list_record == Record(<< <<"map_list", List(Map(String, I64))>> >>)
map_record == Record(<< <<"map", Map(String, I64)>>, <<"imap", Map(I32, I32)>> >>)
nested_collection == Record(<< <<"set_list", List(Set(String))>> >>)
nested_outcome == Record(<< <<"o", Outcome(I32, String)>> >>)
nested_provider == Record(<< <<"s", Provider(I32)>> >>)
nested_provider_interface == Record(<< <<"obj", Provider(Named("SimpleObject"))>> >>)
outcome_error_code == Record(<< <<"code", I32>> >>)
outcome_error_info == Record(<< <<"code", I32>>, <<"message", String>> >>)
primitive_list == Record(<< <<"list", List(I64)>>, <<"optional_list", Optional(List(Optional(I64)))>> >>)
record_using_extended_record == Record(<< <<"er", Named("ExtendedRecord")>> >>)
record_with_derivings == Record(<< <<"eight", I8>>, <<"sixteen", I16>>, <<"thirtytwo", I32>>,
                                   <<"sixtyfour", I64>>, <<"fthirtytwo", F32>>, <<"fsixtyfour", F64>>,
                                   <<"d", Date>>, <<"s", String>> >>)
record_with_duration_and_derivings == Record(<< <<"dt", Duration(F64, "ns")>> >>)
record_with_flags == Record(<< <<"access", Named("AccessFlags")>> >>)
record_with_nested_derivings == Record(<< <<"key", I32>>, <<"rec", Named("RecordWithDerivings")>> >>)
set_record == Record(<< <<"set", Set(String)>>, <<"iset", Set(I32)>> >>)
support_copying == Record(<< <<"x", I32>> >>)

\* Mutant: the arguments of vec2_new change places.
vec2_swapped == Record(<< <<"y", I32>>, <<"x", I32>> >>)

vec2 == Record(<< <<"x", I32>>, <<"y", I32>> >>)

\* Interfaces.
DataRefTest == CppOnly(<<
    M("sendData", << <<"data", DataRef>> >>, Void),
    M("retriveAsBin", <<>>, Binary),
    M("sendMutableData", << <<"data", DataRef>> >>, Void),
    M("generateData", <<>>, DataRef),
    M("dataFromVec", <<>>, DataRef),
    M("dataFromStr", <<>>, DataRef),
    M("sendDataView", << <<"data", DataView>> >>, Binary),
    M("recvDataView", <<>>, DataView),
    M("create", <<>>, Named("DataRefTest"))>>)

varname_interface == CppOnly(<<
    M("_rmethod_", << <<"_r_arg_", Named("VarnameRecord")>> >>, Named("VarnameRecord")),
    M("_imethod_", << <<"_i_arg_", Named("VarnameInterface")>> >>, Named("VarnameInterface"))>>)

async_interface == Both(<<
    M("future_roundtrip", << <<"f", Future(I32)>> >>, Future(String))>>)

client_interface == Both(<<
    M("get_record", << <<"record_id", I64>>, <<"utf8string", String>>, <<"misc", Optional(String)>> >>,
      Named("ClientReturnedRecord")),
    M("identifier_check", << <<"data", Binary>>, <<"r", I32>>, <<"jret", I64>> >>, F64),
    M("return_str", <<>>, String),
    M("meth_taking_interface", << <<"i", Named("ClientInterface")>> >>, String),
    M("meth_taking_optional_interface", << <<"i", Optional(Named("ClientInterface"))>> >>, String)>>)

conflict_user == CppOnly(<<
    M("Conflict", <<>>, Named("Conflict")),
    M("conflict_arg", << <<"cs", List(Named("Conflict"))>> >>, Bool)>>)

constants_interface == CppOnly(<<
    M("dummy", <<>>, Void)>>)

cpp_exception == CppOnly(<<
    M("throw_an_exception", <<>>, I32),
    M("call_throwing_interface", << <<"cb", Named("ThrowingInterface")>> >>, I32),
    M("call_throwing_and_catch", << <<"cb", Named("ThrowingInterface")>> >>, String),
    M("get", <<>>, Named("CppException"))>>)

enum_usage_interface == CppOnly(<<
    M("e", << <<"e", Named("Color")>> >>, Named("Color")),
    M("o", << <<"o", Optional(Named("Color"))>> >>, Optional(Named("Color"))),
    M("l", << <<"l", List(Named("Color"))>> >>, List(Named("Color"))),
    M("s", << <<"s", Set(Named("Color"))>> >>, Set(Named("Color"))),
    M("m", << <<"m", Map(Named("Color"), Named("Color"))>> >>, Map(Named("Color"), Named("Color")))>>)

first_listener == CppOnly(<<
    M("first", <<>>, Void)>>)

flag_roundtrip == CppOnly(<<
    M("roundtrip_access", << <<"flag", Named("AccessFlags")>> >>, Named("AccessFlags")),
    M("roundtrip_empty", << <<"flag", Named("EmptyFlags")>> >>, Named("EmptyFlags")),
    M("roundtrip_access_boxed", << <<"flag", Optional(Named("AccessFlags"))>> >>,
      Optional(Named("AccessFlags"))),
    M("roundtrip_empty_boxed", << <<"flag", Optional(Named("EmptyFlags"))>> >>,
      Optional(Named("EmptyFlags")))>>)

interface_using_extended_record == CppOnly(<<
    M("meth", << <<"er", Named("ExtendedRecord")>> >>, Named("ExtendedRecord"))>>)

listener_caller == CppOnly(<<
    M("init", << <<"first_l", Named("FirstListener")>>, <<"second_l", Named("SecondListener")>> >>,
      Named("ListenerCaller")),
    M("callFirst", <<>>, Void),
    M("callSecond", <<>>, Void)>>)

proto_tests == CppOnly(<<
    M("protoToStrings", << <<"x", Proto("AddressBook")>> >>, List(String)),
    M("stringsToProto", << <<"x", List(String)>> >>, Proto("AddressBook")),
    M("embeddedProtoToString", << <<"x", Named("RecordWithEmbeddedProto")>> >>, String),
    M("stringToEmbeddedProto", << <<"x", String>> >>, Named("RecordWithEmbeddedProto")),
    M("cppProtoToString", << <<"x", Proto("PersistingState")>> >>, String),
    M("stringToCppProto", << <<"x", String>> >>, Proto("PersistingState")),
    M("embeddedCppProtoToString", << <<"x", Named("RecordWithEmbeddedCppProto")>> >>, String),
    M("stringToEmbeddedCppProto", << <<"x", String>> >>, Named("RecordWithEmbeddedCppProto")),
    M("protoListToStrings", << <<"x", List(Proto("Person"))>> >>, List(String)),
    M("stringsToProtoList", << <<"x", List(String)>> >>, List(Proto("Person"))),
    M("optionalProtoToString", << <<"x", Optional(Proto("Person"))>> >>, String),
    M("stringToOptionalProto", << <<"x", String>> >>, Optional(Proto("Person"))),
    M("stringToProtoOutcome", << <<"x", String>> >>, Outcome(Proto("Person"), I32))>>)

return_one == CppOnly(<<
    M("get_instance", <<>>, Named("ReturnOne")),
    M("return_one", <<>>, I8)>>)

return_two == CppOnly(<<
    M("get_instance", <<>>, Named("ReturnTwo")),
    M("return_two", <<>>, I8)>>)

reverse_client_interface == CppOnly(<<
    M("return_str", <<>>, String),
    M("meth_taking_interface", << <<"i", Named("ReverseClientInterface")>> >>, String),
    M("meth_taking_optional_interface", << <<"i", Optional(Named("ReverseClientInterface"))>> >>,
      String),
    M("create", <<>>, Named("ReverseClientInterface"))>>)

second_listener == CppOnly(<<
    M("second", <<>>, Void)>>)

simple_object == CppOnly(<<
    M("get_value", <<>>, I32),
    M("get_name", <<>>, String)>>)

test_array == CppOnly(<<
    M("testStringArray", << <<"a", List(String)>> >>, List(String)),
    M("testIntArray", << <<"a", List(I32)>> >>, List(I32)),
    M("testRecordArray", << <<"a", List(Named("Vec2"))>> >>, List(Named("Vec2"))),
    M("testArrayOfArray", << <<"a", List(List(I32))>> >>, List(List(I32)))>>)

test_duration == CppOnly(<<
    M("hoursString", << <<"dt", Duration(I32, "h")>> >>, String),
    M("minutesString", << <<"dt", Duration(I32, "min")>> >>, String),
    M("secondsString", << <<"dt", Duration(I32, "s")>> >>, String),
    M("millisString", << <<"dt", Duration(I32, "ms")>> >>, String),
    M("microsString", << <<"dt", Duration(I32, "us")>> >>, String),
    M("nanosString", << <<"dt", Duration(I32, "ns")>> >>, String),
    M("hours", << <<"count", I32>> >>, Duration(I32, "h")),
    M("minutes", << <<"count", I32>> >>, Duration(I32, "min")),
    M("seconds", << <<"count", I32>> >>, Duration(I32, "s")),
    M("millis", << <<"count", I32>> >>, Duration(I32, "ms")),
    M("micros", << <<"count", I32>> >>, Duration(I32, "us")),
    M("nanos", << <<"count", I32>> >>, Duration(I32, "ns")),
    M("hoursf", << <<"count", F64>> >>, Duration(F64, "h")),
    M("minutesf", << <<"count", F64>> >>, Duration(F64, "min")),
    M("secondsf", << <<"count", F64>> >>, Duration(F64, "s")),
    M("millisf", << <<"count", F64>> >>, Duration(F64, "ms")),
    M("microsf", << <<"count", F64>> >>, Duration(F64, "us")),
    M("nanosf", << <<"count", F64>> >>, Duration(F64, "ns")),
    M("box", << <<"count", I64>> >>, Optional(Duration(I64, "s"))),
    M("unbox", << <<"dt", Optional(Duration(I64, "s"))>> >>, I64)>>)

test_helpers == CppOnly(<<
    M("get_set_record", <<>>, Named("SetRecord")),
    M("check_set_record", << <<"rec", Named("SetRecord")>> >>, Bool),
    M("get_primitive_list", <<>>, Named("PrimitiveList")),
    M("check_primitive_list", << <<"pl", Named("PrimitiveList")>> >>, Bool),
    M("get_nested_collection", <<>>, Named("NestedCollection")),
    M("check_nested_collection", << <<"nc", Named("NestedCollection")>> >>, Bool),
    M("get_map", <<>>, Map(String, I64)),
    M("check_map", << <<"m", Map(String, I64)>> >>, Bool),
    M("get_empty_map", <<>>, Map(String, I64)),
    M("check_empty_map", << <<"m", Map(String, I64)>> >>, Bool),
    M("get_map_list_record", <<>>, Named("MapListRecord")),
    M("check_map_list_record", << <<"m", Named("MapListRecord")>> >>, Bool),
    M("check_client_interface_ascii", << <<"i", Named("ClientInterface")>> >>, Void),
    M("check_client_interface_nonascii", << <<"i", Named("ClientInterface")>> >>, Void),
    M("check_client_interface_args", << <<"i", Named("ClientInterface")>> >>, Void),
    M("check_enum_map", << <<"m", Map(Named("Color"), String)>> >>, Void),
    M("check_enum", << <<"c", Named("Color")>> >>, Void),
    M("token_id", << <<"t", Optional(Named("UserToken"))>> >>, Optional(Named("UserToken"))),
    M("create_cpp_token", <<>>, Named("UserToken")),
    M("check_cpp_token", << <<"t", Named("UserToken")>> >>, Void),
    M("cpp_token_id", << <<"t", Named("UserToken")>> >>, I64),
    M("check_token_type", << <<"t", Named("UserToken")>>, <<"type", String>> >>, Void),
    M("return_none", <<>>, Optional(I32)),
    M("assorted_primitives_id", << <<"i", Named("AssortedPrimitives")>> >>, Named("AssortedPrimitives")),
    M("id_binary", << <<"b", Binary>> >>, Binary),
    M("get_async_result", <<>>, Future(I32)),
    M("future_roundtrip", << <<"f", Future(I32)>> >>, Future(String)),
    M("async_early_throw", <<>>, Future(I32)),
    M("void_async_method", << <<"f", Future(Void)>> >>, Future(Void)),
    M("add_one_if_present", << <<"f", Future(Optional(I32))>> >>, Future(Optional(I32))),
    M("return_exception_string", << <<"f", Future(I32)>> >>, Future(String)),
    M("check_async_interface", << <<"i", Named("AsyncInterface")>> >>, Future(String)),
    M("check_async_composition", << <<"i", Named("AsyncInterface")>> >>, Future(String)),
    M("get_optional_list", <<>>, List(Optional(String))),
    M("check_optional_list", << <<"ol", List(Optional(String))>> >>, Bool),
    M("get_optional_set", <<>>, Set(Optional(String))),
    M("check_optional_set", << <<"os", Set(Optional(String))>> >>, Bool),
    M("get_optional_map", <<>>, Map(Optional(String), Optional(String))),
    M("check_optional_map", << <<"om", Map(Optional(String), Optional(String))>> >>, Bool)>>)

test_outcome == CppOnly(<<
    M("getSuccessOutcome", <<>>, Outcome(String, I32)),
    M("getErrorOutcome", <<>>, Outcome(String, I32)),
    M("putSuccessOutcome", << <<"x", Outcome(String, I32)>> >>, String),
    M("putErrorOutcome", << <<"x", Outcome(String, I32)>> >>, I32),
    M("getNestedSuccessOutcome", <<>>, Named("NestedOutcome")),
    M("getNestedErrorOutcome", <<>>, Named("NestedOutcome")),
    M("putNestedSuccessOutcome", << <<"x", Named("NestedOutcome")>> >>, I32),
    M("putNestedErrorOutcome", << <<"x", Named("NestedOutcome")>> >>, String),
    M("getEnumErrorOutcome", <<>>, Outcome(String, Named("OutcomeError"))),
    M("getRecordErrorOutcome", <<>>, Outcome(String, Named("OutcomeErrorInfo")))>>)

test_provider == CppOnly(<<
    M("getProviderString", <<>>, Provider(String)),
    M("getProviderInt", <<>>, Provider(I32)),
    M("callProviderString", << <<"x", Provider(String)>> >>, String),
    M("callProviderInt", << <<"x", Provider(I32)>> >>, I32),
    M("getNestedProvider", <<>>, Named("NestedProvider")),
    M("callNestedProvider", << <<"x", Named("NestedProvider")>> >>, I32),
    M("getProviderObject", <<>>, Provider(Named("SimpleObject"))),
    M("callProviderObject", << <<"x", Provider(Named("SimpleObject"))>> >>, I32),
    M("callProviderObjectGetName", << <<"x", Provider(Named("SimpleObject"))>> >>, String),
    M("getNestedProviderInterface", <<>>, Named("NestedProviderInterface")),
    M("callNestedProviderInterface", << <<"x", Named("NestedProviderInterface")>> >>, I32),
    M("createSimpleObject", << <<"value", I32>>, <<"name", String>> >>, Named("SimpleObject"))>>)

test_static_method_language == CppOnly(<<
    M("test_method", <<>>, Void)>>)

throwing_interface == CppOnly(<<
    M("throw_exception", <<>>, Void)>>)

user_token == Both(<<
    M("whoami", <<>>, String)>>)

uses_single_language_listeners == CppOnly(<<
    M("callForObjC", << <<"l", Named("ObjcOnlyListener")>> >>, Void),
    M("returnForObjC", <<>>, Named("ObjcOnlyListener")),
    M("callForJava", << <<"l", Named("JavaOnlyListener")>> >>, Void),
    M("returnForJava", <<>>, Named("JavaOnlyListener"))>>)

\* The tables by the name of the declaration.
Records ==
    [RecordWithEmbeddedCppProto |-> RecordWithEmbeddedCppProto,
     RecordWithEmbeddedProto |-> RecordWithEmbeddedProto, VarnameRecord |-> varname_record,
     AssortedPrimitives |-> assorted_primitives, ClientReturnedRecord |-> client_returned_record,
     ConstantRecord |-> constant_record, ConstantWithEnum |-> constant_with_enum,
     Constants |-> constants, DateRecord |-> date_record, EmptyRecord |-> empty_record,
     EnumUsageRecord |-> enum_usage_record, ExtendedRecord |-> extended_record,
     MapDateRecord |-> map_date_record, MapListRecord |-> map_list_record, MapRecord |-> map_record,
     NestedCollection |-> nested_collection, NestedOutcome |-> nested_outcome,
     NestedProvider |-> nested_provider, NestedProviderInterface |-> nested_provider_interface,
     OutcomeErrorCode |-> outcome_error_code, OutcomeErrorInfo |-> outcome_error_info,
     PrimitiveList |-> primitive_list, RecordUsingExtendedRecord |-> record_using_extended_record,
     RecordWithDerivings |-> record_with_derivings,
     RecordWithDurationAndDerivings |-> record_with_duration_and_derivings,
     RecordWithFlags |-> record_with_flags,
     RecordWithNestedDerivings |-> record_with_nested_derivings, SetRecord |-> set_record,
     SupportCopying |-> support_copying, Vec2 |-> vec2]

Interfaces ==
    [DataRefTest |-> DataRefTest, VarnameInterface |-> varname_interface,
     AsyncInterface |-> async_interface, ClientInterface |-> client_interface,
     ConflictUser |-> conflict_user, ConstantsInterface |-> constants_interface,
     CppException |-> cpp_exception, EnumUsageInterface |-> enum_usage_interface,
     FirstListener |-> first_listener, FlagRoundtrip |-> flag_roundtrip,
     InterfaceUsingExtendedRecord |-> interface_using_extended_record,
     ListenerCaller |-> listener_caller, ProtoTests |-> proto_tests, ReturnOne |-> return_one,
     ReturnTwo |-> return_two, ReverseClientInterface |-> reverse_client_interface,
     SecondListener |-> second_listener, SimpleObject |-> simple_object, TestArray |-> test_array,
     TestDuration |-> test_duration, TestHelpers |-> test_helpers, TestOutcome |-> test_outcome,
     TestProvider |-> test_provider, TestStaticMethodLanguage |-> test_static_method_language,
     ThrowingInterface |-> throwing_interface, UserToken |-> user_token,
     UsesSingleLanguageListeners |-> uses_single_language_listeners]
=============================================================================
