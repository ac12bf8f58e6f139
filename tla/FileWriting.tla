---------------------------- MODULE FileWriting ----------------------------
(***************************************************************************)
(* How the generator writes its files: what generate() of generator.scala  *)
(* does with the calls of createFile() that the back ends make, whatever   *)
(* these are (Generation says which).  A run with --skip-generation only   *)
(* lists the files; the build rules (bzl/djinni_codegen.bzl) take that     *)
(* list for the outputs of the run that writes them.  A run is             *)
(* deterministic and no back end looks at --skip-generation: the second    *)
(* run makes the calls of the first.  Folders that cannot be created and   *)
(* output errors are left out.                                             *)
(***************************************************************************)
EXTENDS Compiler

CONSTANT LowerCased(_)   \* String.toLowerCase of a name

VARIABLES
  skip,      \* spec.skipGeneration
  plan,      \* the calls of createFile() that this run makes, in order
  next,      \* position in plan
  listed,    \* --list-out-files, in order
  written,   \* paths of the files written, in order (every back end has
             \* folders and writtenFiles of its own)
  inventory  \* the list of the run with --skip-generation, or Unset

writingVars == <<skip, plan, next, listed, written, inventory>>
compilerVars == <<refs, visitedFiles, fileStack, idl, flags, options, derived, given, fileFlag, spec>>

\* A path has a folder, a name and an extension.  The text of the file may
\* come to an exception "before" the call, or "inside" its writer.  A call is
\* made for one declaration, or for all of them.
Call == [path : STRING \X STRING \X STRING, throws : {"no", "before", "inside"},
         for : {"declaration", "all"}]

SamePath(p, q) == p[1] = q[1] /\ LowerCased(p[2]) = LowerCased(q[2]) /\ p[3] = q[3]
\* Mutant: one map of written names for all folders.
AlreadyWrittenAnywhere(path) ==
  \E i \in DOMAIN written : LowerCased(written[i][2]) = LowerCased(path[2]) /\ written[i][3] = path[3]

AlreadyWritten(path) == \E i \in DOMAIN written : SamePath(written[i], path)

\* cppHeaderOutFolder.get throws: when the folder is created, or else when the
\* first header is, which is the first file of the first declaration.
HeaderFolderMissing == spec.cppOut # Unset /\ spec.cppHeaderOut = Unset
NeedsHeaderFolder == ~skip \/ (next \in DOMAIN plan /\ plan[next].path[1] = "cpp")

WritingInit ==
  /\ skip = FALSE /\ plan = <<>> /\ next = 0
  /\ listed = <<>> /\ written = <<>> /\ inventory = Unset

-----------------------------------------------------------------------------
Generating == stage = "generate" /\ ~(HeaderFolderMissing /\ NeedsHeaderFolder)

NoHeaderFolder ==
  /\ stage = "generate" /\ HeaderFolderMissing /\ NeedsHeaderFolder
  /\ stage' = "ended" /\ status' = "aborted"
  /\ UNCHANGED <<compilerVars, writingVars>>

\* The steps of createFile() for the next call; the run goes on after the
\* first two.  generate() of a back end turns an exception into a
\* RuntimeException if it was thrown for a declaration; main() catches
\* a GenerateException only.
GoesOn == UNCHANGED <<stage, status>>
EndsWith(verdict) == stage' = "ended" /\ status' = verdict

Calling(c) == Generating /\ next \in DOMAIN plan /\ c = plan[next]
Called == next' = next + 1 /\ UNCHANGED <<compilerVars, skip, plan, inventory>>

\* Mutant: nothing is listed when nothing is written.
ListOnlyNothing(c) ==
  /\ Calling(c) /\ skip /\ c.throws # "before"
  /\ UNCHANGED <<listed, written>>
  /\ GoesOn /\ Called

ListOnly(c) ==
  /\ Calling(c) /\ skip /\ c.throws # "before"
  /\ listed' = Append(listed, c.path) /\ UNCHANGED written
  /\ GoesOn /\ Called

Write(c) ==
  /\ Calling(c) /\ ~skip /\ c.throws # "before" /\ ~AlreadyWritten(c.path)
  /\ listed' = Append(listed, c.path) /\ written' = Append(written, c.path)
  /\ IF c.throws = "no" THEN GoesOn ELSE EndsWith("aborted")
  /\ Called

RefuseToWrite(c) ==
  /\ Calling(c) /\ ~skip /\ c.throws # "before" /\ AlreadyWritten(c.path)
  /\ listed' = Append(listed, c.path) /\ UNCHANGED written
  /\ EndsWith(IF c.for = "all" THEN "rejected" ELSE "aborted")
  /\ Called

ThrowBefore(c) ==
  /\ Calling(c) /\ c.throws = "before"
  /\ UNCHANGED <<listed, written>>
  /\ EndsWith("aborted") /\ Called

CreateFile(c) == ListOnly(c) \/ Write(c) \/ RefuseToWrite(c) \/ ThrowBefore(c)

Finish ==
  /\ Generating /\ next > Len(plan)
  /\ EndsWith("generated")
  /\ UNCHANGED <<compilerVars, writingVars>>

\* The build runs the generator again, to write what it listed.
RunAgain ==
  /\ stage = "ended" /\ status = "generated" /\ skip
  /\ skip' = FALSE /\ next' = 1
  /\ inventory' = listed /\ listed' = <<>>
  /\ stage' = "generate" /\ status' = "parsed"
  /\ UNCHANGED <<compilerVars, plan, written>>

Writing == NoHeaderFolder \/ CreateFile(plan[next]) \/ Finish \/ RunAgain

-----------------------------------------------------------------------------
\* Any program and settings: the back ends may make any calls.
StartWriting ==
  /\ Resolve
  /\ plan' \in Seq(Call) /\ skip' \in BOOLEAN /\ next' = 1
  /\ UNCHANGED <<listed, written, inventory>>

WritingNext ==
  \/ (ParseArguments \/ Parse \/ ApplyFlags) /\ UNCHANGED writingVars
  \/ StartWriting
  \/ Writing

WritingSpec == CompilerInit /\ WritingInit /\ [][WritingNext]_<<vars, writingVars>>

-----------------------------------------------------------------------------
(* Properties *)

Written == stage = "ended" /\ status = "generated" /\ ~skip

\* generator.scala:401-430, bzl/djinni_codegen.bzl:528-555.  The list of the
\* run that writes nothing is the list of the files that the next run writes,
\* in that order and without repetition.
ListPredictsOutput ==
  Written => /\ listed = written /\ IsInjective(written)
             /\ inventory # Unset => inventory = written

\* generator.scala:401-430, 500-521.  No failure is lost: a run that writes its
\* files ends well exactly if none of the calls comes to an exception and no two
\* are for paths that a case-insensitive file system takes for one.
GeneratedIffSound ==
  stage = "ended" /\ ~skip /\ next > 1 =>
    (status = "generated" <=>
       /\ \A i \in DOMAIN plan : plan[i].throws = "no"
       /\ \A i, j \in DOMAIN plan : SamePath(plan[i].path, plan[j].path) => i = j)
=============================================================================
