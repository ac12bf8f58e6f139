------------------------------ MODULE IdlParser ------------------------------
(***************************************************************************)
(* The traversal of an IDL file and of the files it names (src/source/     *)
(* parser.scala, class Parser).  parseFile() is recursive: fileStack holds *)
(* its activations.  What a file contains is chosen when it is read: the   *)
(* files it names, in order, and one type declaration and one @flag of its *)
(* own.  The grammar is abstracted to "the file can be parsed or not".     *)
(***************************************************************************)
EXTENDS Relation, SequencesExt

CONSTANTS
  IdlFiles,   \* .djinni files
  Manifests,  \* .yaml files: extern types and protobuf messages
  Root,       \* the --idl file
  MaxRefs     \* bound: @import, @extern and @protobuf lines in one file

ASSUME ParserAssumption ==
  Root \in IdlFiles /\ IdlFiles \intersect Manifests = {} /\ MaxRefs \in Nat

VARIABLES
  refs,          \* what each file read so far names, in order
  visitedFiles,
  fileStack,     \* activations of parseFile(), the innermost one first
  status,        \* "parsing", "parsed", "rejected" (error message and exit
                 \* code 1), "circular" (the AssertionError about imports) or
                 \* "aborted" (another exception that main() does not catch)
  idl,           \* the result of the outermost call: type declarations ...
  flags          \* ... and @flag lines, named by the file they are from

parserVars == <<refs, visitedFiles, fileStack, status, idl, flags>>

Files == IdlFiles \union Manifests

\* A line that names another file; @extern of a .djinni file is "externIdl".
FileRefs == [kind : {"import", "externIdl"}, file : IdlFiles]
              \union [kind : {"manifest"}, file : Manifests]

Top == Head(fileStack)
NextRef == Head(Top.left)
Stacked == {fileStack[i].file : i \in DOMAIN fileStack}

WithTop(frame) == <<frame>> \o Tail(fileStack)
Advanced == [Top EXCEPT !.left = Tail(@)]

Init ==
  /\ refs = [f \in IdlFiles |-> <<>>]
  /\ visitedFiles = {}
  /\ fileStack = <<>>
  /\ status = "parsing"
  /\ idl = <<>>
  /\ flags = <<>>

StopWith(outcomes) ==
  /\ status' \in outcomes
  /\ UNCHANGED <<refs, fileStack, idl, flags>>

\* parseFile() up to the loop over idl.imports.  `callers` are the activations
\* below the new one.
Enter(f, how, callers) ==
  /\ visitedFiles' = visitedFiles \union {f}
  /\ \/ \E named \in BoundedSeq(FileRefs, MaxRefs) :
          /\ refs' = [refs EXCEPT ![f] = named]
          /\ fileStack' = <<[file |-> f, how |-> how, left |-> named,
                             types |-> <<[file |-> f, as |-> "intern"]>>,
                             flags |-> <<f>>]>> \o callers
          /\ UNCHANGED <<status, idl, flags>>
     \/ StopWith({"rejected"})  \* not found, not readable, not in the grammar

ParseRoot ==
  /\ status = "parsing" /\ visitedFiles = {}
  /\ Enter(Root, "root", <<>>)

Looping == status = "parsing" /\ fileStack # <<>> /\ Top.left # <<>>

\* Mutant: every file seen before is taken for a cycle.
CircularImportIfVisited ==
  /\ Looping /\ NextRef.file \in visitedFiles
  /\ status' = "circular"
  /\ UNCHANGED <<refs, visitedFiles, fileStack, idl, flags>>

CircularImport ==
  /\ Looping /\ NextRef.file \in Stacked
  /\ status' = "circular"
  /\ UNCHANGED <<refs, visitedFiles, fileStack, idl, flags>>

SkipVisited ==
  /\ Looping /\ NextRef.file \in visitedFiles \ Stacked
  /\ fileStack' = WithTop(Advanced)
  /\ UNCHANGED <<refs, visitedFiles, status, idl, flags>>

ParseRef ==
  /\ Looping /\ NextRef.file \in IdlFiles \ visitedFiles
  /\ Enter(NextRef.file, NextRef.kind, WithTop(Advanced))

\* Mutant: a manifest is not remembered.
ParseManifestAgain ==
  /\ Looping /\ NextRef.file \in Manifests
  /\ fileStack' = WithTop([Advanced EXCEPT
        !.types = <<[file |-> NextRef.file, as |-> "manifest"]>> \o @])
  /\ UNCHANGED <<refs, visitedFiles, status, idl, flags>>

\* parseExternFile() and parseProtobufFile()
ParseManifest ==
  /\ Looping /\ NextRef.file \in Manifests \ visitedFiles
  /\ visitedFiles' = visitedFiles \union {NextRef.file}
  /\ \/ /\ fileStack' = WithTop([Advanced EXCEPT
              !.types = <<[file |-> NextRef.file, as |-> "manifest"]>> \o @])
        /\ UNCHANGED <<refs, status, idl, flags>>
     \/ StopWith({"rejected", "aborted"})  \* unreadable; malformed

Finished == status = "parsing" /\ fileStack # <<>> /\ Top.left = <<>>

ReturnRoot ==
  /\ Finished /\ Top.how = "root"
  /\ status' = "parsed"
  /\ idl' = Top.types
  /\ flags' = Top.flags
  /\ fileStack' = <<>>
  /\ UNCHANGED <<refs, visitedFiles>>

Caller == fileStack[2]
ReturnTo(frame) ==
  /\ fileStack' = <<frame>> \o SubSeq(fileStack, 3, Len(fileStack))
  /\ UNCHANGED <<refs, visitedFiles, status, idl, flags>>

ReturnImport ==
  /\ Finished /\ Top.how = "import"
  /\ ReturnTo([Caller EXCEPT !.types = Top.types \o @, !.flags = Top.flags \o @])

\* Mutant: the declarations of an external file are merged as they are.
ReturnExternUnwrapped ==
  /\ Finished /\ Top.how = "externIdl"
  /\ ReturnTo([Caller EXCEPT !.types = Top.types \o @])

\* The declarations of an external .djinni file are wrapped, with those of the
\* files it imports; their flags are dropped.  Its <file>.yaml may be missing
\* or malformed.
AsExtern(d) == IF d.as = "intern" THEN [d EXCEPT !.as = "extern"] ELSE d

ReturnExtern ==
  /\ Finished /\ Top.how = "externIdl"
  /\ \/ ReturnTo([Caller EXCEPT !.types = [i \in DOMAIN Top.types |-> AsExtern(Top.types[i])] \o @])
     \/ StopWith({"rejected", "aborted"}) /\ UNCHANGED visitedFiles

ParserNext ==
  \/ ParseRoot \/ CircularImport \/ SkipVisited \/ ParseRef \/ ParseManifest
  \/ ReturnRoot \/ ReturnImport \/ ReturnExtern
=============================================================================
