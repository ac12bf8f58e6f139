------------------------------ MODULE Compiler ------------------------------
(***************************************************************************)
(* One run of the djinni generator (src/source/Main.scala): switches from  *)
(* the command line, values derived from them, the IDL traversal of        *)
(* IdlParser, the @flag lines of the IDL applied as further switches, the  *)
(* Spec, and name resolution.  Generation has the rest.                    *)
(*                                                                         *)
(* Five switches stand for the options.  One of them is stored and read    *)
(* by nothing but the Spec; the others take part in a value that is        *)
(* derived once, between the command line and the IDL.  The value of an    *)
(* option is the place it was set at: a file, the command line, nowhere.   *)
(***************************************************************************)
EXTENDS IdlParser

CONSTANTS
  CommandLine,
  Unset,
  InPlay    \* the switches a run may set anywhere

Switches == {"--cpp-namespace",      \* plain
             "--cpp-out", "--cpp-header-out",
             "--objc-type-prefix", "--ident-objc-type"}

ASSUME CompilerAssumption ==
  /\ InPlay \subseteq Switches
  /\ CommandLine # Unset /\ {CommandLine, Unset} \intersect IdlFiles = {}

VARIABLES
  stage,     \* where main() is
  options,   \* the option variables of main()
  derived,   \* the values computed from them before the IDL is read
  given,     \* switches set on the command line
  fileFlag,  \* the switch set by the @flag line of each file, if any
  spec       \* what the back ends get, or <<>>

vars == <<parserVars, stage, options, derived, given, fileFlag, spec>>

\* objcIdentStyle.ty is a converter; the prefix is composed into it.
Defaults == [s \in Switches \ {"--ident-objc-type"} |-> Unset] @@
            [s \in {"--ident-objc-type"} |-> [prefix |-> Unset, style |-> Unset]]

\* argParser: each switch has one assignment.  scopt takes a switch that is
\* not unbounded() at most once in a list; a second call of parse() starts
\* over, and its assignments override those of the first.
NoRepetition(settings) ==
  \A i, j \in DOMAIN settings : settings[i].switch = settings[j].switch => i = j

Assign(o, s, by) ==
  IF s = "--ident-objc-type" THEN [o EXCEPT ![s] = [prefix |-> Unset, style |-> by]]
  ELSE [o EXCEPT ![s] = by]

AssignAll(o, settings) == FoldLeft(LAMBDA acc, x : Assign(acc, x.switch, x.by), o, settings)

\* The switches of the command line, in some order (no two are the same).
FromCommandLine(set) ==
  [i \in DOMAIN SetToSeq(set) |-> [switch |-> SetToSeq(set)[i], by |-> CommandLine]]

\* cppHeaderOutFolder defaults to --cpp-out; the type prefix is composed into
\* objcIdentStyle.
DeriveHeaderFolder(o) == IF o["--cpp-header-out"] # Unset THEN o["--cpp-header-out"] ELSE o["--cpp-out"]
WithPrefix(o) == [o EXCEPT !["--ident-objc-type"].prefix = o["--objc-type-prefix"]]

SpecOf(o, headerFolder) ==
  [cppNamespace |-> o["--cpp-namespace"], cppOut |-> o["--cpp-out"],
   cppHeaderOut |-> headerFolder, objcType |-> o["--ident-objc-type"]]

CompilerInit ==
  /\ Init
  /\ stage = "arguments"
  /\ options = Defaults
  /\ derived = Unset
  /\ given = {}
  /\ fileFlag = [f \in IdlFiles |-> Unset]
  /\ spec = <<>>

ParseArguments ==
  /\ stage = "arguments"
  /\ \E set \in SUBSET InPlay :
       LET o == AssignAll(options, FromCommandLine(set)) IN
       /\ given' = set
       /\ derived' = DeriveHeaderFolder(o)
       /\ options' = WithPrefix(o)
  /\ stage' = "parse"
  /\ UNCHANGED <<parserVars, fileFlag, spec>>

Parse ==
  /\ stage = "parse"
  /\ ParserNext
  /\ UNCHANGED <<stage, options, derived, given, fileFlag, spec>>

\* The switches of the @flag lines, in the order of the list.
FlagSettings(chosen) ==
  SelectSeq([i \in DOMAIN flags |-> [switch |-> chosen[flags[i]], by |-> flags[i]]],
            LAMBDA x : x.switch # Unset)

ApplyFlags ==
  /\ stage = "parse" /\ status = "parsed"
  /\ \E chosen \in [Range(flags) -> InPlay \union {Unset}] :
       /\ fileFlag' = chosen @@ fileFlag
       /\ \/ /\ NoRepetition(FlagSettings(chosen))
             /\ options' = AssignAll(options, FlagSettings(chosen))
             /\ stage' = "resolve"
             /\ UNCHANGED status
          \/ /\ ~NoRepetition(FlagSettings(chosen))
             /\ status' = "rejected"
             /\ stage' = "ended"
             /\ UNCHANGED options
  /\ UNCHANGED <<refs, visitedFiles, fileStack, idl, flags, derived, given, spec>>

\* The Spec is built, and the declarations are resolved; an error ends the run.
Resolve ==
  /\ stage = "resolve"
  /\ spec' = SpecOf(options, derived)
  /\ \/ stage' = "generate" /\ UNCHANGED status
     \/ stage' = "ended" /\ status' \in {"rejected", "aborted"}
  /\ UNCHANGED <<refs, visitedFiles, fileStack, idl, flags, options, derived, given, fileFlag>>

CompilerNext == ParseArguments \/ Parse \/ ApplyFlags \/ Resolve

CompilerSpec == CompilerInit /\ [][CompilerNext]_vars

-----------------------------------------------------------------------------
Parsed == stage \in {"resolve", "generate", "ended"}

Edges(kinds) == {e \in IdlFiles \X Files :
                   \E r \in Range(refs[e[1]]) : r.file = e[2] /\ r.kind \in kinds}

Kinds == {"import", "externIdl", "manifest"}

\* What can be reached is in every set of files that leads nowhere else.
Closed(files, edges) == \A e \in edges : e[1] \in files => e[2] \in files
ReachableFrom(start, edges) ==
  {f \in Files : \A files \in SUBSET Files :
                   start \subseteq files /\ Closed(files, edges) => f \in files}

Reachable(kinds) == ReachableFrom({Root}, Edges(kinds))
Successors(f) == {e[2] : e \in {x \in Edges(Kinds) : x[1] = f}}

\* parser.scala:440-481.  When the traversal succeeds, each file that can be
\* reached contributes its declarations exactly once, however many paths lead
\* to it, no other file does, and none of them can reach itself; it aborts with
\* "Circular import detected!" only if one can, never for a file that two
\* others share.  What an @extern file imports is external too
\* (docs/djinni_generation_config.md:46-47): a file is left to the back ends
\* only if a chain of @import lines leads to it.
TraversalExact ==
  LET cyclic == \E f \in IdlFiles : f \in ReachableFrom(Successors(f), Edges(Kinds)) IN
  /\ Parsed =>
       /\ ~cyclic
       /\ \A i \in DOMAIN idl : idl[i].as = "intern" => idl[i].file \in Reachable({"import"})
       /\ \A f \in Files :
            Cardinality({i \in DOMAIN idl : idl[i].file = f}) = IF f \in Reachable(Kinds) THEN 1 ELSE 0
  /\ status = "circular" => cyclic

\* README.md:239: "This is equivalent to adding the same switches to the djinni
\* command line."  The Spec is the one the command line would have produced,
\* had the flags been appended to it (which it accepts if none is repeated).
FlagsEquivalent ==
  spec # <<>> /\ NoRepetition(FromCommandLine(given) \o FlagSettings(fileFlag)) =>
    LET o == AssignAll(AssignAll(Defaults, FromCommandLine(given)), FlagSettings(fileFlag)) IN
    spec = SpecOf(WithPrefix(o), DeriveHeaderFolder(o))
=============================================================================
