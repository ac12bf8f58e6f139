---------------------------- MODULE MCGeneration ----------------------------
(***************************************************************************)
(* Instances of Generation.  An IDL of many files declares nothing, one of *)
(* two files has a few declarations, the root alone a member of a family.  *)
(***************************************************************************)
EXTENDS Generation

SharedFiles == Permutations(IdlFiles \ {Root})

\* Two names differ in case alone.
MCLowerCased(n) == IF n = "Item" THEN "item" ELSE n

T(base) == Type(base, <<>>)
Of(base, t) == Type(base, <<t>>)

Decl0 == [name |-> "", as |-> "intern", kind |-> "enum", params |-> {}, ext |-> {}, fields |-> <<>>,
          methods |-> <<>>, consts |-> <<>>, deriving |-> {}]
Enum(n) == [Decl0 EXCEPT !.name = n]
Record(n, fields) == [Decl0 EXCEPT !.name = n, !.kind = "record", !.fields = fields]
Interface(n, ext, methods) == [Decl0 EXCEPT !.name = n, !.kind = "interface", !.ext = ext, !.methods = methods]
Proto(n, ext) == [Decl0 EXCEPT !.name = n, !.kind = "protobuf", !.ext = ext]

AllLangs == {"java", "objc", "js", "swift"}
Method(params, ret) == [static |-> FALSE, const |-> FALSE, lang |-> AllLangs, params |-> params, ret |-> ret]
Static(lang, ret) == [static |-> TRUE, const |-> FALSE, lang |-> lang, params |-> <<>>, ret |-> ret]

Native == {"cpp", "java", "jni", "objc", "objcpp"}
All == Range(BackEnds)
Plain == [backEnds |-> All, cppExtDir |-> "cpp", objcExtDir |-> "objc", jniDir |-> "jni", parcelable |-> FALSE,
          useOnLoad |-> FALSE, genProtocol |-> FALSE, omitConstants |-> FALSE]
Settings == {Plain,
             [Plain EXCEPT !.useOnLoad = TRUE, !.parcelable = TRUE, !.genProtocol = TRUE],
             [Plain EXCEPT !.backEnds = Native, !.cppExtDir = "user", !.objcExtDir = "user", !.omitConstants = TRUE]}

\* The helpers of the families: an enum, a record, an interface.
e == Enum("e")
s == [Record("s", <<T("i32")>>) EXCEPT !.deriving = {"eq", "ord"}]
i == Interface("i", {"cpp"}, <<Method(<<T("r")>>, <<>>)>>)

FieldPool == {T("i32"), T("string"), T("binary"), T("date"), T("void"), T("e"), T("s"), T("i"),
              Of("optional", T("s")), Of("list", T("e")), Of("optional", T("r")), Of("list", T("r")),
              Of("array", T("i32")), Of("list", Of("optional", T("r")))}

Records == {<<e, [Record("r", <<t>>) EXCEPT !.ext = ext, !.deriving = der], s, i>> :
              t \in FieldPool, ext \in {{}, {"cpp"}, {"objc"}, {"cpp", "java", "objc"}},
              der \in {{}, {"eq"}, {"eq", "ord"}, {"eq", "parcelable"}}}

Signatures == {Method(<<>>, <<>>), Method(<<T("s")>>, <<T("e")>>), Method(<<T("j")>>, <<Of("optional", T("j"))>>),
               [Method(<<>>, <<T("i32")>>) EXCEPT !.const = TRUE],
               Static(AllLangs, <<T("j")>>), Static({"java"}, <<T("s")>>), Static({"js", "swift"}, <<T("j")>>)}
InterfaceConsts == {<<>>, <<T("e")>>, <<T("s"), T("i32")>>, <<Of("optional", T("e"))>>, <<Of("optional", T("s"))>>}
Interfaces0 == {<<[Interface("j", ext, <<m>>) EXCEPT !.consts = c], e, s>> :
                 m \in Signatures, c \in InterfaceConsts,
                 ext \in {{}, {"cpp"}, {"java", "objc"}, {"cpp", "java", "objc", "js", "swift", "cc"}}}

\* Records with constants, records and interfaces that mention each other,
\* names that differ in case or meet that of a generated half.
Rest == {<<[Record("r", <<T("i32")>>) EXCEPT !.consts = <<c>>], e, s>> :
            c \in {T("e"), T("r"), T("i32"), Of("optional", T("e")), Of("optional", T("r")), T("binary")}}
        \union {<<[Record("r", <<T("i32")>>) EXCEPT !.consts = <<T("f")>>], Record("f", <<T("e")>>), e>>}
        \union {<<Record("a", <<Of("list", T("b"))>>), Record("b", <<t>>)>> : t \in {T("i32"), T("a"), Of("optional", T("a"))}}
        \union {<<Interface("j", ext, <<Method(<<T("k")>>, <<>>)>>),
                  Interface("k", ext, <<Method(<<>>, <<T("j")>>)>>)>> : ext \in {{"cpp"}, {"cpp", "java", "objc", "js", "swift"}}}
        \union {<<[Record("item", <<>>) EXCEPT !.ext = ext], Enum(n)>> : ext \in {{}, {"cpp"}}, n \in {"Item", "item", "item_base"}}
        \union {<<[Record("g", <<T("i32")>>) EXCEPT !.params = {"t"}],
                  Record("u", <<Of("g", T("i32"))>>)>>,
                <<[Interface("h", {"cpp"}, <<Method(<<T("t")>>, <<>>)>>) EXCEPT !.params = {"t"}]>>,
                <<[Record("g", <<Of("list", T("t"))>>) EXCEPT !.params = {"t"}]>>}

Single == Records \union Interfaces0 \union Rest

\* Where onLoad is used, the build lists the files first.
InputOf(declOf, set) == [contents |-> declOf, settings |-> set, skip |-> set.useOnLoad]
OnlyRoot(decls) == [f \in Files |-> IF f = Root THEN decls ELSE <<>>]

\* With a second file: what the root says of the other file's types.
Imported == {Enum("x"), Record("x", <<T("i32")>>), Interface("x", {"cpp"}, <<Method(<<>>, <<>>)>>),
             Proto("x", {}), Proto("x", {"objc", "ts", "swift"})}
Using == {<<[Record("r", <<t>>) EXCEPT !.deriving = der]>> :
             t \in {T("x"), Of("list", T("x")), Of("optional", T("x"))}, der \in {{}, {"eq"}}}
         \union {<<Interface("j", {"cpp", "java", "objc", "js", "swift"}, <<Method(<<T("x")>>, <<Of("list", T("x"))>>)>>)>>}
Valid(entry, d) == entry.as = "manifest" \/ d.kind # "protobuf"

Few == {<<>>, <<e>>, <<Enum("item"), Enum("Item")>>}

\* Extended records that are kept apart, and some of the back ends.
Apart == {<<[Record("r", <<T("i32")>>) EXCEPT !.ext = ext]>> : ext \in {{}, {"cpp"}, {"objc"}}}
FewBackEnds == {[Plain EXCEPT !.backEnds = b, !.cppExtDir = dirs[1], !.objcExtDir = dirs[2]] :
                  b \in {All, All \ {"yaml"}, {"yaml"}, {"wasm"}, {"swift", "swiftxx"},
                         Native \union {"yaml"}, Native \union {"bridging"}},
                  dirs \in {<<"user", "user">>, <<"cpp", "objc">>}}

MCInputs(list, sp) ==
  CASE Len(list) = 2 /\ sp.cppOut = CommandLine ->
         LET other == list[CHOOSE k \in {1, 2} : list[k].file # Root] IN
         {InputOf([f \in Files |-> IF f = Root THEN using ELSE IF f = other.file THEN <<x>> ELSE <<>>], Plain) :
            using \in Using, x \in {y \in Imported : Valid(other, y)}}
    [] Len(list) = 1 /\ sp.cppOut = CommandLine ->
         {InputOf(OnlyRoot(decls), set) : decls \in Single, set \in Settings}
         \union {InputOf(OnlyRoot(decls), set) : decls \in Apart, set \in FewBackEnds}
    [] Len(list) = 1 /\ sp.cppOut # CommandLine ->
         {[InputOf(OnlyRoot(decls), [Plain EXCEPT !.backEnds = {"yaml"}]) EXCEPT !.skip = listFirst] :
            decls \in Few, listFirst \in BOOLEAN}
    [] OTHER -> {InputOf(OnlyRoot(<<>>), Plain)}
=============================================================================
