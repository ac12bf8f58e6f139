---------------------------- MODULE Compiler_proofs ----------------------------
(***************************************************************************)
(* The traversal of the IDL files is exact, for any number of files and of *)
(* lines that name others.  It is a depth-first search: the files on the   *)
(* stack lead to one another, those that have been finished lead to        *)
(* finished ones only, and of each file that was finished we know a set of *)
(* files that contains all it leads to and not the file itself.  The rest  *)
(* of a run keeps that.  Its calls of createFile() are made one by one;    *)
(* what is listed and written are the paths of those that have been made.  *)
(***************************************************************************)
EXTENDS FileWriting, FiniteSetTheorems, SequenceTheorems, TLAPS

-----------------------------------------------------------------------------
(* The invariant: of what has been read so far (r), of the files that were *)
(* visited (v), and of the stack of activations (q).                       *)

Declaration == [file : Files, as : {"intern", "extern", "manifest"}]
Frame == [file : IdlFiles, how : {"root", "import", "externIdl"}, left : Seq(FileRefs),
          types : Seq(Declaration), flags : Seq(IdlFiles)]

Statuses == {"parsing", "parsed", "rejected", "circular", "aborted", "generated"}

\* Edges and Successors, as functions of what has been read.
Links(r, kinds) == {e \in IdlFiles \X Files :
                      \E x \in Range(r[e[1]]) : x.file = e[2] /\ x.kind \in kinds}
LinkedBy(r, f) == {e[2] : e \in {x \in Links(r, Kinds) : x[1] = f}}

\* Files that have been read to the end, with all that they name.
OnStack(q) == {q[i].file : i \in DOMAIN q}
Done(v, q) == v \ OnStack(q)

Typed(r, v, q) ==
  r \in [IdlFiles -> Seq(FileRefs)] /\ v \in SUBSET Files /\ q \in Seq(Frame)

\* A file that has not been read names nothing yet.
Unread(r, v) == \A f \in IdlFiles : f \notin v => r[f] = <<>>

\* Nothing is read that the root does not lead to.
Led(r, v) == v \subseteq ReachableFrom({Root}, Links(r, Kinds))

\* The stack is a path of references from the root, without repetition.
Path(r, v, q) ==
  /\ \A i \in DOMAIN q : q[i].file \in v
  /\ \A i, j \in DOMAIN q : q[i].file = q[j].file => i = j
  /\ \A i \in DOMAIN q : q[i].how = "root" <=> i = Len(q)
  /\ q # <<>> => q[Len(q)].file = Root
  /\ \A i \in DOMAIN q : i # 1 => <<q[i].file, q[i - 1].file>> \in Links(r, {q[i - 1].how})
  /\ \A i, j \in DOMAIN q : i < j =>
       q[i].file \in ReachableFrom(LinkedBy(r, q[j].file), Links(r, Kinds))

\* What a file on the stack names is still to be looked at, has been finished, or
\* is the file that is being read for it.
Named(r, v, q) ==
  \A i \in DOMAIN q :
    /\ Range(q[i].left) \subseteq Range(r[q[i].file])
    /\ \A x \in Range(r[q[i].file]) :
         \/ x \in Range(q[i].left)
         \/ x.file \in Done(v, q)
         \/ i # 1 /\ x.file = q[i - 1].file

\* What a file leads to is within some of these files, and not the file itself.
Acyclic(r, files) ==
  \A f \in files : \E S \in SUBSET files :
    f \notin S /\ LinkedBy(r, f) \subseteq S /\ Closed(S, Links(r, Kinds))

\* What is declared, once.
DeclFiles(types) == {types[n].file : n \in DOMAIN types}
Once(types) == \A n, m \in DOMAIN types : types[n].file = types[m].file => n = m

\* Each file that has been read is declared in one place of one activation.
Declared(v, q) ==
  /\ \A i \in DOMAIN q : Once(q[i].types)
  /\ \A i, j \in DOMAIN q : i # j => DeclFiles(q[i].types) \intersect DeclFiles(q[j].types) = {}
  /\ v = UNION {DeclFiles(q[i].types) : i \in DOMAIN q}

\* What an activation will leave to the back ends, its file imports.
Interns(r, types, f) ==
  \A n \in DOMAIN types : types[n].as = "intern" =>
    types[n].file \in ReachableFrom({f}, Links(r, {"import"}))
Imported(r, q) == \A i \in DOMAIN q : Interns(r, q[i].types, q[i].file)

\* The search is under way; it has come back with idl; it has met a cycle.
Searching(r, v, q) ==
  /\ Typed(r, v, q) /\ Unread(r, v) /\ Led(r, v) /\ Path(r, v, q) /\ Named(r, v, q)
  /\ Acyclic(r, Done(v, q)) /\ Declared(v, q) /\ Imported(r, q)

Returned(r, v, d) ==
  /\ d \in Seq(Declaration) /\ Root \in v /\ v \subseteq Files
  /\ Unread(r, v) /\ Led(r, v) /\ Acyclic(r, v)
  /\ Once(d) /\ DeclFiles(d) = v
  /\ Interns(r, d, Root)

Circular(r) == \E f \in IdlFiles : f \in ReachableFrom(LinkedBy(r, f), Links(r, Kinds))

PInv ==
  /\ status \in Statuses
  /\ status = "parsing" => Searching(refs, visitedFiles, fileStack)
  /\ status = "parsed" => Returned(refs, visitedFiles, idl)
  /\ status = "circular" => Circular(refs)

\* main() goes on from there.
MainInv ==
  /\ Parsed => /\ Returned(refs, visitedFiles, idl)
               /\ status \in {"parsed", "rejected", "aborted", "generated"}
  /\ ~Parsed => stage \in {"arguments", "parse"}

-----------------------------------------------------------------------------
(* What can be reached *)

LEMMA ReachStart ==
  ASSUME NEW edges, NEW start \in SUBSET Files
  PROVE  start \subseteq ReachableFrom(start, edges)
  BY DEF ReachableFrom

LEMMA ReachStep ==
  ASSUME NEW edges, NEW start, NEW f, NEW g \in Files,
         f \in ReachableFrom(start, edges), <<f, g>> \in edges
  PROVE  g \in ReachableFrom(start, edges)
<1> SUFFICES ASSUME NEW files \in SUBSET Files, start \subseteq files, Closed(files, edges)
             PROVE  g \in files
  BY DEF ReachableFrom
<1>1. f \in files
  BY DEF ReachableFrom
<1>2. \A e \in edges : e[1] \in files => e[2] \in files
  BY DEF Closed
<1>3. <<f, g>>[1] = f /\ <<f, g>>[2] = g
  OBVIOUS
<1> QED
  BY <1>1, <1>2, <1>3

LEMMA ReachMore ==
  ASSUME NEW edges, NEW more, NEW start, NEW start2, edges \subseteq more,
         start \subseteq ReachableFrom(start2, more)
  PROVE  ReachableFrom(start, edges) \subseteq ReachableFrom(start2, more)
<1> SUFFICES ASSUME NEW f \in ReachableFrom(start, edges),
                    NEW files \in SUBSET Files, start2 \subseteq files, Closed(files, more)
             PROVE  f \in files
  BY DEF ReachableFrom
<1>1. start \subseteq files
  BY DEF ReachableFrom
<1>2. Closed(files, edges)
  BY DEF Closed
<1> QED
  BY <1>1, <1>2 DEF ReachableFrom

LEMMA ReachWithin ==
  ASSUME NEW edges, NEW start, NEW files \in SUBSET Files,
         start \subseteq files, Closed(files, edges)
  PROVE  ReachableFrom(start, edges) \subseteq files
  BY DEF ReachableFrom

LEMMA LinkIs ==
  ASSUME NEW r, NEW kinds, NEW f, NEW g
  PROVE  /\ <<f, g>> \in Links(r, kinds) <=>
              f \in IdlFiles /\ g \in Files /\ \E x \in Range(r[f]) : x.file = g /\ x.kind \in kinds
         /\ \A e \in Links(r, kinds) : e = <<e[1], e[2]>> /\ e[1] \in IdlFiles /\ e[2] \in Files
         /\ g \in LinkedBy(r, f) <=> <<f, g>> \in Links(r, Kinds)
<1>1. <<f, g>> \in Links(r, kinds) <=>
        f \in IdlFiles /\ g \in Files /\ \E x \in Range(r[f]) : x.file = g /\ x.kind \in kinds
  BY DEF Links
<1>2. \A k : \A e \in Links(r, k) : e = <<e[1], e[2]>> /\ e[1] \in IdlFiles /\ e[2] \in Files
  BY DEF Links
<1>3. g \in LinkedBy(r, f) <=> <<f, g>> \in Links(r, Kinds)
  <2>1. g \in LinkedBy(r, f) <=> \E e \in Links(r, Kinds) : e[1] = f /\ e[2] = g
    BY DEF LinkedBy
  <2>2. <<f, g>>[1] = f /\ <<f, g>>[2] = g
    OBVIOUS
  <2> QED
    BY <1>2, <2>1, <2>2
<1> QED
  BY <1>1, <1>2, <1>3

\* Finished files lead to finished files only.
LEMMA AcyclicClosed ==
  ASSUME NEW r, NEW files, Acyclic(r, files)
  PROVE  Closed(files, Links(r, Kinds))
<1> SUFFICES ASSUME NEW e \in Links(r, Kinds), e[1] \in files PROVE e[2] \in files
  BY DEF Closed
<1>1. e = <<e[1], e[2]>>
  BY LinkIs
<1>2. e[2] \in LinkedBy(r, e[1])
  BY <1>1, LinkIs
<1> QED
  BY <1>2 DEF Acyclic

-----------------------------------------------------------------------------
(* Sequences *)

LEMMA PushIs ==
  ASSUME NEW S, NEW x \in S, NEW s \in Seq(S)
  PROVE  /\ <<x>> \o s \in Seq(S)
         /\ Len(<<x>> \o s) = Len(s) + 1
         /\ DOMAIN (<<x>> \o s) = 1 .. Len(s) + 1
         /\ (<<x>> \o s)[1] = x
         /\ \A i \in 2 .. Len(s) + 1 : (<<x>> \o s)[i] = s[i - 1]
<1>1. PICK o \in Seq(S) : o = <<x>> /\ Len(o) = 1 /\ o[1] = x
  <2>1. <<x>> \in Seq(S) /\ Len(<<x>>) = 1 /\ <<x>>[1] = x
    OBVIOUS
  <2> QED
    BY <2>1
<1>2. /\ o \o s \in Seq(S) /\ Len(o \o s) = Len(o) + Len(s)
      /\ \A i \in 1 .. Len(o) + Len(s) :
           (o \o s)[i] = IF i <= Len(o) THEN o[i] ELSE s[i - Len(o)]
  BY ConcatProperties
<1>3. Len(s) \in Nat
  OBVIOUS
<1>4. PICK c \in Seq(S) : c = o \o s
  BY <1>2
<1>5. Len(c) = Len(s) + 1 /\ c[1] = x /\ \A i \in 2 .. Len(s) + 1 : c[i] = s[i - 1]
  BY <1>1, <1>2, <1>3, <1>4
<1>6. DOMAIN c = 1 .. Len(s) + 1
  BY <1>5
<1> QED
  BY <1>1, <1>4, <1>5, <1>6

LEMMA TailIs ==
  ASSUME NEW S, NEW s \in Seq(S), s # <<>>
  PROVE  /\ Head(s) = s[1] /\ s[1] \in S /\ Tail(s) \in Seq(S)
         /\ Len(s) \in Nat /\ Len(s) >= 1 /\ Len(Tail(s)) = Len(s) - 1
         /\ DOMAIN s = 1 .. Len(s) /\ DOMAIN Tail(s) = 1 .. Len(s) - 1
         /\ \A i \in 1 .. Len(s) - 1 : Tail(s)[i] = s[i + 1]
  OBVIOUS

\* What is left after the first element.
LEMMA RangeTail ==
  ASSUME NEW S, NEW s \in Seq(S), s # <<>>
  PROVE  /\ Head(s) \in Range(s) /\ Range(Tail(s)) \subseteq Range(s)
         /\ \A x \in Range(s) : x = Head(s) \/ x \in Range(Tail(s))
<1>1. /\ Head(s) = s[1] /\ Len(s) \in Nat /\ Len(s) >= 1
      /\ DOMAIN s = 1 .. Len(s) /\ DOMAIN Tail(s) = 1 .. Len(s) - 1
      /\ \A i \in 1 .. Len(s) - 1 : Tail(s)[i] = s[i + 1]
  BY TailIs
<1>2. Head(s) \in Range(s)
  BY <1>1 DEF Range
<1>3. ASSUME NEW x \in Range(Tail(s)) PROVE x \in Range(s)
  <2>1. PICK i \in 1 .. Len(s) - 1 : x = Tail(s)[i]
    BY <1>1 DEF Range
  <2>2. i + 1 \in DOMAIN s /\ x = s[i + 1]
    BY <1>1, <2>1
  <2> QED
    BY <2>2 DEF Range
<1>4. ASSUME NEW x \in Range(s), x # Head(s) PROVE x \in Range(Tail(s))
  <2>1. PICK i \in DOMAIN s : x = s[i]
    BY DEF Range
  <2>2. i # 1
    BY <1>1, <1>4, <2>1
  <2>3. i - 1 \in 1 .. Len(s) - 1 /\ i = (i - 1) + 1
    BY <1>1, <2>2
  <2>4. x = Tail(s)[i - 1]
    BY <1>1, <2>1, <2>3
  <2> QED
    BY <1>1, <2>3, <2>4 DEF Range
<1> QED
  BY <1>2, <1>3, <1>4

\* Declarations put before others.
LEMMA DeclaredTogether ==
  ASSUME NEW s \in Seq(Declaration), NEW u \in Seq(Declaration), Once(s), Once(u),
         DeclFiles(s) \intersect DeclFiles(u) = {}
  PROVE  /\ s \o u \in Seq(Declaration)
         /\ Once(s \o u) /\ DeclFiles(s \o u) = DeclFiles(s) \union DeclFiles(u)
<1> PICK c : c = s \o u
  OBVIOUS
<1>1. /\ c \in Seq(Declaration) /\ Len(c) = Len(s) + Len(u)
      /\ \A i \in 1 .. Len(s) + Len(u) : c[i] = IF i <= Len(s) THEN s[i] ELSE u[i - Len(s)]
  BY ConcatProperties
<1>2. /\ Len(s) \in Nat /\ Len(u) \in Nat /\ DOMAIN s = 1 .. Len(s) /\ DOMAIN u = 1 .. Len(u)
      /\ DOMAIN c = 1 .. Len(s) + Len(u)
  BY <1>1
<1>3. \A n \in DOMAIN c : \/ n \in DOMAIN s /\ c[n] = s[n]
                          \/ n \notin DOMAIN s /\ n - Len(s) \in DOMAIN u /\ c[n] = u[n - Len(s)]
  BY <1>1, <1>2
<1>4. /\ \A n \in DOMAIN s : n \in DOMAIN c /\ c[n] = s[n]
      /\ \A n \in DOMAIN u : n + Len(s) \in DOMAIN c /\ c[n + Len(s)] = u[n]
  BY <1>1, <1>2
<1>5. /\ \A n \in DOMAIN s : s[n].file \in DeclFiles(s)
      /\ \A n \in DOMAIN u : u[n].file \in DeclFiles(u)
      /\ \A n \in DOMAIN c : c[n].file \in DeclFiles(c)
  BY DEF DeclFiles
<1>6. DeclFiles(c) = DeclFiles(s) \union DeclFiles(u)
  <2>1. ASSUME NEW f \in DeclFiles(c) PROVE f \in DeclFiles(s) \union DeclFiles(u)
    <3>1. PICK n \in DOMAIN c : f = c[n].file
      BY DEF DeclFiles
    <3> QED
      BY <1>3, <1>5, <3>1
  <2>2. ASSUME NEW f \in DeclFiles(s) PROVE f \in DeclFiles(c)
    <3>1. PICK n \in DOMAIN s : f = s[n].file
      BY DEF DeclFiles
    <3> QED
      BY <1>4, <1>5, <3>1
  <2>3. ASSUME NEW f \in DeclFiles(u) PROVE f \in DeclFiles(c)
    <3>1. PICK n \in DOMAIN u : f = u[n].file
      BY DEF DeclFiles
    <3> QED
      BY <1>4, <1>5, <3>1
  <2> QED
    BY <2>1, <2>2, <2>3
<1>7. Once(c)
  <2> SUFFICES ASSUME NEW n \in DOMAIN c, NEW m \in DOMAIN c, c[n].file = c[m].file PROVE n = m
    BY DEF Once
  <2>1. CASE n \in DOMAIN s /\ m \in DOMAIN s
    BY <1>4, <2>1 DEF Once
  <2>2. CASE n \in DOMAIN s /\ m \notin DOMAIN s
    <3>1. c[n].file \in DeclFiles(s) /\ c[m].file \in DeclFiles(u)
      BY <1>3, <1>4, <1>5, <2>2
    <3> QED
      BY <3>1
  <2>3. CASE n \notin DOMAIN s /\ m \in DOMAIN s
    <3>1. c[m].file \in DeclFiles(s) /\ c[n].file \in DeclFiles(u)
      BY <1>3, <1>4, <1>5, <2>3
    <3> QED
      BY <3>1
  <2>4. CASE n \notin DOMAIN s /\ m \notin DOMAIN s
    <3>1. /\ n - Len(s) \in DOMAIN u /\ c[n] = u[n - Len(s)]
          /\ m - Len(s) \in DOMAIN u /\ c[m] = u[m - Len(s)]
      BY <1>3, <2>4
    <3>2. n - Len(s) = m - Len(s)
      BY <3>1 DEF Once
    <3> QED
      BY <1>2, <3>2
  <2> QED
    BY <2>1, <2>2, <2>3, <2>4
<1> QED
  BY <1>1, <1>6, <1>7

LEMMA DeclaredAlone ==
  ASSUME NEW d \in Declaration
  PROVE  <<d>> \in Seq(Declaration) /\ Once(<<d>>) /\ DeclFiles(<<d>>) = {d.file}
<1>1. PICK s \in Seq(Declaration) : s = <<d>> /\ DOMAIN s = {1} /\ s[1] = d
  <2>1. <<d>> \in Seq(Declaration) /\ DOMAIN <<d>> = {1} /\ <<d>>[1] = d
    OBVIOUS
  <2> QED
    BY <2>1
<1> QED
  BY <1>1 DEF Once, DeclFiles

-----------------------------------------------------------------------------
(* A file is opened *)

\* The lines of a file that names nothing yet become known.
Reads(r, r2, f) ==
  /\ r \in [IdlFiles -> Seq(FileRefs)] /\ f \in IdlFiles /\ r[f] = <<>>
  /\ r2 \in [IdlFiles -> Seq(FileRefs)] /\ \A g \in IdlFiles : g # f => r2[g] = r[g]

\* The new activation is put on the stack, for the next line of the one below.
Pushes(r, v, q, r2, q2) ==
  /\ Reads(r, r2, q2[1].file)
  /\ q2 \in Seq(Frame) /\ DOMAIN q2 = 1 .. Len(q) + 1 /\ Len(q2) = Len(q) + 1
  /\ q2[1].file \in IdlFiles /\ q2[1].file \notin v
  /\ q2[1].left = r2[q2[1].file]
  /\ Once(q2[1].types) /\ DeclFiles(q2[1].types) = {q2[1].file}
  /\ \A i \in 2 .. Len(q) + 1 :
       /\ q2[i].file = q[i - 1].file /\ q2[i].how = q[i - 1].how /\ q2[i].types = q[i - 1].types
       /\ i # 2 => q2[i].left = q[i - 1].left
  /\ q = <<>> => q2[1].how = "root" /\ q2[1].file = Root
  /\ q # <<>> => /\ Range(q2[2].left) \subseteq Range(q[1].left)
                 /\ \E x \in Range(q[1].left) :
                      /\ x.file = q2[1].file /\ x.kind = q2[1].how
                      /\ \A y \in Range(q[1].left) : y = x \/ y \in Range(q2[2].left)

\* What was known of the references stays.
LEMMA LinksMore ==
  ASSUME NEW r, NEW r2, NEW f, Reads(r, r2, f), NEW kinds
  PROVE  /\ Links(r, kinds) \subseteq Links(r2, kinds)
         /\ \A e \in Links(r2, kinds) : e[1] # f => e \in Links(r, kinds)
<1>1. \A e \in Links(r, kinds) : e[1] # f
  BY DEF Links, Reads, Range
<1>2. ASSUME NEW e \in Links(r, kinds) PROVE e \in Links(r2, kinds)
  BY <1>1 DEF Links, Reads
<1>3. ASSUME NEW e \in Links(r2, kinds), e[1] # f PROVE e \in Links(r, kinds)
  BY <1>3 DEF Links, Reads
<1> QED
  BY <1>2, <1>3

LEMMA ReachedMore ==
  ASSUME NEW r, NEW r2, NEW f, Reads(r, r2, f)
  PROVE  /\ \A g : LinkedBy(r, g) \subseteq LinkedBy(r2, g)
         /\ \A g : g # f => LinkedBy(r2, g) = LinkedBy(r, g)
         /\ \A g : LinkedBy(r2, g) \subseteq Files
         /\ \A g : ReachableFrom(LinkedBy(r, g), Links(r, Kinds))
                     \subseteq ReachableFrom(LinkedBy(r2, g), Links(r2, Kinds))
         /\ \A S \in SUBSET Files : \A kinds :
              ReachableFrom(S, Links(r, kinds)) \subseteq ReachableFrom(S, Links(r2, kinds))
<1>1. \A kinds : Links(r, kinds) \subseteq Links(r2, kinds)
  BY LinksMore
<1>2. ASSUME NEW g PROVE LinkedBy(r, g) \subseteq LinkedBy(r2, g)
  BY <1>1 DEF LinkedBy
<1>3. ASSUME NEW g, g # f PROVE LinkedBy(r2, g) = LinkedBy(r, g)
  <2>1. \A e \in Links(r2, Kinds) : e[1] # f => e \in Links(r, Kinds)
    BY LinksMore
  <2> QED
    BY <1>1, <1>3, <2>1 DEF LinkedBy
<1>4. ASSUME NEW g PROVE LinkedBy(r2, g) \subseteq Files
  BY DEF LinkedBy, Links
<1>5. ASSUME NEW g
      PROVE  ReachableFrom(LinkedBy(r, g), Links(r, Kinds))
               \subseteq ReachableFrom(LinkedBy(r2, g), Links(r2, Kinds))
  <2>1. LinkedBy(r, g) \subseteq ReachableFrom(LinkedBy(r2, g), Links(r2, Kinds))
    BY <1>2, <1>4, ReachStart
  <2> QED
    BY <1>1, <2>1, ReachMore
<1>6. ASSUME NEW S \in SUBSET Files, NEW kinds
      PROVE  ReachableFrom(S, Links(r, kinds)) \subseteq ReachableFrom(S, Links(r2, kinds))
  <2>1. S \subseteq ReachableFrom(S, Links(r2, kinds))
    BY ReachStart
  <2> QED
    BY <1>1, <2>1, ReachMore
<1> QED
  BY <1>2, <1>3, <1>4, <1>5, <1>6

LEMMA PushDone ==
  ASSUME NEW r, NEW v, NEW q, NEW r2, NEW q2, Pushes(r, v, q, r2, q2), Typed(r, v, q)
  PROVE  Done(v \union {q2[1].file}, q2) = Done(v, q)
<1>1. Len(q) \in Nat /\ DOMAIN q = 1 .. Len(q)
  BY DEF Typed
<1>2. OnStack(q2) = OnStack(q) \union {q2[1].file}
  <2>1. ASSUME NEW g \in OnStack(q2) PROVE g \in OnStack(q) \union {q2[1].file}
    <3>1. PICK i \in DOMAIN q2 : g = q2[i].file
      BY DEF OnStack
    <3>2. CASE i = 1
      BY <3>1, <3>2
    <3>3. CASE i # 1
      <4>1. i \in 2 .. Len(q) + 1 /\ i - 1 \in DOMAIN q
        BY <1>1, <3>3 DEF Pushes
      <4> QED
        BY <3>1, <4>1 DEF Pushes, OnStack
    <3> QED
      BY <3>2, <3>3
  <2>2. ASSUME NEW g \in OnStack(q) PROVE g \in OnStack(q2)
    <3>1. PICK i \in DOMAIN q : g = q[i].file
      BY DEF OnStack
    <3>2. i + 1 \in 2 .. Len(q) + 1 /\ i + 1 \in DOMAIN q2 /\ (i + 1) - 1 = i
      BY <1>1 DEF Pushes
    <3>3. q2[i + 1].file = q[i].file
      BY <3>2 DEF Pushes
    <3> QED
      BY <3>1, <3>2, <3>3 DEF OnStack
  <2>3. q2[1].file \in OnStack(q2)
    <3>1. 1 \in DOMAIN q2
      BY <1>1 DEF Pushes
    <3> QED
      BY <3>1 DEF OnStack
  <2> QED
    BY <2>1, <2>2, <2>3
<1> QED
  BY <1>2 DEF Done, Pushes

\* The reference that the new activation is for.
LEMMA PushLink ==
  ASSUME NEW r, NEW v, NEW q, NEW r2, NEW q2, Pushes(r, v, q, r2, q2), Typed(r, v, q),
         Named(r, v, q), q # <<>>
  PROVE  /\ <<q[1].file, q2[1].file>> \in Links(r2, {q2[1].how})
         /\ q2[1].how \in {"import", "externIdl"}
<1>1. 1 \in DOMAIN q /\ q[1] \in Frame
  BY DEF Typed
<1>2. PICK x \in Range(q[1].left) : x.file = q2[1].file /\ x.kind = q2[1].how
  BY DEF Pushes
<1>3. q[1].file \in IdlFiles /\ q2[1].file \in IdlFiles /\ r \in [IdlFiles -> Seq(FileRefs)]
  BY <1>1 DEF Pushes, Frame, Typed
<1>4. x \in Range(r[q[1].file])
  BY <1>1, <1>2 DEF Named
<1>5. <<q[1].file, q2[1].file>> \in Links(r, {q2[1].how})
  BY <1>2, <1>3, <1>4, LinkIs DEF Files
<1>6. Links(r, {q2[1].how}) \subseteq Links(r2, {q2[1].how})
  BY LinksMore DEF Pushes
<1>7. x \in FileRefs
  BY <1>3, <1>4 DEF Range
<1>8. x.kind \in {"import", "externIdl"}
  BY <1>2, <1>3, <1>7, ParserAssumption DEF FileRefs
<1> QED
  BY <1>2, <1>5, <1>6, <1>8

LEMMA PushPath ==
  ASSUME NEW r, NEW v, NEW q, NEW r2, NEW q2, Pushes(r, v, q, r2, q2), Typed(r, v, q),
         Named(r, v, q), Path(r, v, q)
  PROVE  Path(r2, v \union {q2[1].file}, q2)
<1> PICK n \in Nat : n = Len(q)
  BY DEF Typed
<1>1. DOMAIN q = 1 .. n
  BY DEF Typed
<1>2. /\ DOMAIN q2 = 1 .. n + 1 /\ Len(q2) = n + 1 /\ q2[1].file \notin v
      /\ \A i \in 2 .. n + 1 : q2[i].file = q[i - 1].file /\ q2[i].how = q[i - 1].how
  BY DEF Pushes
<1>3. \A i \in 2 .. n + 1 : i - 1 \in DOMAIN q
  BY <1>1
<1>4. \A i \in DOMAIN q2 : q2[i].file \in v \union {q2[1].file}
  <2> SUFFICES ASSUME NEW i \in DOMAIN q2, i # 1 PROVE q2[i].file \in v
    OBVIOUS
  <2>1. i \in 2 .. n + 1 /\ i - 1 \in DOMAIN q /\ q2[i].file = q[i - 1].file
    BY <1>2, <1>3
  <2> QED
    BY <2>1 DEF Path
<1>5. \A i, j \in DOMAIN q2 : q2[i].file = q2[j].file => i = j
  <2> SUFFICES ASSUME NEW i \in DOMAIN q2, NEW j \in DOMAIN q2, q2[i].file = q2[j].file
               PROVE  i = j
    OBVIOUS
  <2>1. CASE i = 1 \/ j = 1
    BY <1>2, <1>3, <2>1 DEF Path
  <2>2. CASE i # 1 /\ j # 1
    <3>1. i \in 2 .. n + 1 /\ j \in 2 .. n + 1
      BY <1>2, <2>2
    <3>2. i - 1 \in DOMAIN q /\ j - 1 \in DOMAIN q /\ q[i - 1].file = q[j - 1].file
      BY <1>2, <1>3, <3>1
    <3>3. i - 1 = j - 1
      BY <3>2 DEF Path
    <3> QED
      BY <3>1, <3>3
  <2> QED
    BY <2>1, <2>2
<1>6. \A i \in DOMAIN q2 : q2[i].how = "root" <=> i = Len(q2)
  <2>1. CASE n = 0
    <3>1. q = <<>>
      BY <2>1, EmptySeq DEF Typed
    <3> QED
      BY <1>2, <2>1, <3>1 DEF Pushes
  <2>2. CASE n # 0
    <3>1. q2[1].how \in {"import", "externIdl"}
      <4>1. q # <<>>
        BY <2>2
      <4> QED
        BY <4>1, PushLink
    <3>2. \A i \in DOMAIN q : q[i].how = "root" <=> i = n
      BY DEF Path
    <3> QED
      BY <1>2, <1>3, <2>2, <3>1, <3>2
  <2> QED
    BY <2>1, <2>2
<1>7. q2[Len(q2)].file = Root
  <2>1. CASE n = 0
    <3>1. q = <<>>
      BY <2>1, EmptySeq DEF Typed
    <3> QED
      BY <1>2, <2>1, <3>1 DEF Pushes
  <2>2. CASE n # 0
    <3>1. q # <<>> /\ q[n].file = Root
      BY <2>2 DEF Path
    <3>2. n + 1 \in 2 .. n + 1 /\ (n + 1) - 1 = n
      BY <2>2
    <3> QED
      BY <1>2, <3>1, <3>2
  <2> QED
    BY <2>1, <2>2
<1>8. \A i \in DOMAIN q2 : i # 1 => <<q2[i].file, q2[i - 1].file>> \in Links(r2, {q2[i - 1].how})
  <2> SUFFICES ASSUME NEW i \in DOMAIN q2, i # 1
               PROVE  <<q2[i].file, q2[i - 1].file>> \in Links(r2, {q2[i - 1].how})
    OBVIOUS
  <2>1. i \in 2 .. n + 1 /\ i - 1 \in DOMAIN q
    BY <1>2, <1>3
  <2>2. CASE i = 2
    <3>1. q # <<>> /\ q2[i].file = q[1].file /\ q2[i - 1] = q2[1]
      BY <1>2, <2>1, <2>2
    <3> QED
      BY <3>1, PushLink
  <2>3. CASE i # 2
    <3>1. i - 1 \in 2 .. n + 1
      BY <2>1, <2>3
    <3>2. <<q[i - 1].file, q[(i - 1) - 1].file>> \in Links(r, {q[(i - 1) - 1].how})
      BY <1>2, <2>1, <3>1 DEF Path
    <3>3. \A k : Links(r, k) \subseteq Links(r2, k)
      BY LinksMore DEF Pushes
    <3> QED
      BY <1>2, <2>1, <3>1, <3>2, <3>3
  <2> QED
    BY <2>2, <2>3
<1>9. \A i, j \in DOMAIN q2 : i < j =>
        q2[i].file \in ReachableFrom(LinkedBy(r2, q2[j].file), Links(r2, Kinds))
  <2> SUFFICES ASSUME NEW i \in DOMAIN q2, NEW j \in DOMAIN q2, i < j
               PROVE  q2[i].file \in ReachableFrom(LinkedBy(r2, q2[j].file), Links(r2, Kinds))
    OBVIOUS
  <2>1. j \in 2 .. n + 1 /\ j - 1 \in DOMAIN q /\ q2[j].file = q[j - 1].file
    BY <1>2, <1>3
  <2>2. \A g : /\ LinkedBy(r2, g) \subseteq Files
               /\ ReachableFrom(LinkedBy(r, g), Links(r, Kinds))
                    \subseteq ReachableFrom(LinkedBy(r2, g), Links(r2, Kinds))
    BY ReachedMore DEF Pushes
  <2>3. CASE i # 1
    <3>1. i \in 2 .. n + 1 /\ i - 1 \in DOMAIN q /\ q2[i].file = q[i - 1].file /\ i - 1 < j - 1
      BY <1>2, <1>3, <2>1, <2>3
    <3>2. q[i - 1].file \in ReachableFrom(LinkedBy(r, q[j - 1].file), Links(r, Kinds))
      BY <2>1, <3>1 DEF Path
    <3> QED
      BY <2>1, <2>2, <3>1, <3>2
  <2>4. CASE i = 1
    <3>0. q # <<>> /\ 1 \in DOMAIN q
      BY <1>1, <2>1
    <3>1. <<q[1].file, q2[1].file>> \in Links(r2, Kinds) /\ q2[1].file \in Files
      <4>1. <<q[1].file, q2[1].file>> \in Links(r2, {q2[1].how}) /\ q2[1].how \in Kinds
        BY <3>0, PushLink DEF Kinds
      <4>2. <<q[1].file, q2[1].file>> \in Links(r2, Kinds)
        BY <4>1, LinkIs
      <4> QED
        BY <4>2, LinkIs
    <3>2. CASE j = 2
      <4>1. q2[1].file \in LinkedBy(r2, q2[j].file)
        BY <2>1, <3>1, <3>2, LinkIs
      <4> QED
        BY <2>2, <2>4, <4>1, ReachStart
    <3>3. CASE j # 2
      <4>1. 1 < j - 1
        BY <2>1, <3>3
      <4>2. q[1].file \in ReachableFrom(LinkedBy(r, q[j - 1].file), Links(r, Kinds))
        BY <2>1, <3>0, <4>1 DEF Path
      <4>3. q[1].file \in ReachableFrom(LinkedBy(r2, q2[j].file), Links(r2, Kinds))
        BY <2>1, <2>2, <4>2
      <4> QED
        BY <2>4, <3>1, <4>3, ReachStep
    <3> QED
      BY <3>2, <3>3
  <2> QED
    BY <2>3, <2>4
<1> QED
  BY <1>4, <1>5, <1>6, <1>7, <1>8, <1>9 DEF Path

LEMMA PushNamed ==
  ASSUME NEW r, NEW v, NEW q, NEW r2, NEW q2, Pushes(r, v, q, r2, q2), Typed(r, v, q),
         Named(r, v, q), Path(r, v, q)
  PROVE  Named(r2, v \union {q2[1].file}, q2)
<1> PICK n \in Nat : n = Len(q)
  BY DEF Typed
<1>1. DOMAIN q = 1 .. n
  BY DEF Typed
<1>2. /\ DOMAIN q2 = 1 .. n + 1 /\ q2[1].file \notin v /\ q2[1].left = r2[q2[1].file]
      /\ \A i \in 2 .. n + 1 : q2[i].file = q[i - 1].file /\ (i # 2 => q2[i].left = q[i - 1].left)
  BY DEF Pushes
<1>3. Done(v \union {q2[1].file}, q2) = Done(v, q)
  BY PushDone
<1>4. \A i \in DOMAIN q : r2[q[i].file] = r[q[i].file]
  <2> TAKE i \in DOMAIN q
  <2>1. q[i] \in Frame /\ q[i].file \in v
    BY DEF Path, Typed
  <2>2. q[i].file \in IdlFiles
    BY <2>1 DEF Frame
  <2> QED
    BY <1>2, <2>1, <2>2 DEF Pushes, Reads
<1> SUFFICES ASSUME NEW i \in DOMAIN q2
             PROVE  /\ Range(q2[i].left) \subseteq Range(r2[q2[i].file])
                    /\ \A x \in Range(r2[q2[i].file]) :
                         \/ x \in Range(q2[i].left)
                         \/ x.file \in Done(v, q)
                         \/ i # 1 /\ x.file = q2[i - 1].file
  BY <1>3 DEF Named
<1>5. CASE i = 1
  BY <1>2, <1>5
<1>6. CASE i # 1
  <2>1. i \in 2 .. n + 1 /\ i - 1 \in DOMAIN q /\ q2[i].file = q[i - 1].file
    BY <1>1, <1>2, <1>6
  <2>2. /\ Range(q[i - 1].left) \subseteq Range(r[q[i - 1].file])
        /\ \A x \in Range(r[q[i - 1].file]) :
             \/ x \in Range(q[i - 1].left)
             \/ x.file \in Done(v, q)
             \/ i - 1 # 1 /\ x.file = q[(i - 1) - 1].file
    BY <2>1 DEF Named
  <2>3. CASE i # 2
    <3>1. q2[i].left = q[i - 1].left /\ q2[i - 1].file = q[(i - 1) - 1].file
      <4>1. i - 1 \in 2 .. n + 1
        BY <2>1, <2>3
      <4> QED
        BY <1>2, <2>1, <2>3, <4>1
    <3> QED
      BY <1>4, <2>1, <2>2, <2>3, <3>1
  <2>4. CASE i = 2
    <3>1. q # <<>> /\ i - 1 = 1
      BY <1>1, <2>1, <2>4
    <3>2. /\ Range(q2[2].left) \subseteq Range(q[1].left)
          /\ \A y \in Range(q[1].left) : y.file = q2[1].file \/ y \in Range(q2[2].left)
      BY <3>1 DEF Pushes
    <3> QED
      BY <1>4, <2>1, <2>2, <2>4, <3>1, <3>2
  <2> QED
    BY <2>3, <2>4
<1> QED
  BY <1>5, <1>6

LEMMA PushAcyclic ==
  ASSUME NEW r, NEW v, NEW q, NEW r2, NEW q2, Pushes(r, v, q, r2, q2), Typed(r, v, q),
         Acyclic(r, Done(v, q))
  PROVE  Acyclic(r2, Done(v \union {q2[1].file}, q2))
<1>0. Done(v \union {q2[1].file}, q2) = Done(v, q)
  BY PushDone
<1>1. Done(v \union {q2[1].file}, q2) = Done(v, q) /\ Done(v, q) \subseteq v /\ q2[1].file \notin v
  BY <1>0 DEF Done, Pushes
<1> SUFFICES ASSUME NEW f \in Done(v, q)
             PROVE  \E S \in SUBSET Done(v, q) :
                      f \notin S /\ LinkedBy(r2, f) \subseteq S /\ Closed(S, Links(r2, Kinds))
  BY <1>1 DEF Acyclic
<1>2. PICK S \in SUBSET Done(v, q) :
        f \notin S /\ LinkedBy(r, f) \subseteq S /\ Closed(S, Links(r, Kinds))
  BY DEF Acyclic
<1>3. LinkedBy(r2, f) = LinkedBy(r, f)
  BY <1>1, ReachedMore DEF Pushes
<1>4. Closed(S, Links(r2, Kinds))
  <2>1. \A e \in Links(r2, Kinds) : e[1] # q2[1].file => e \in Links(r, Kinds)
    BY LinksMore DEF Pushes
  <2> QED
    BY <1>1, <1>2, <2>1 DEF Closed
<1> QED
  BY <1>2, <1>3, <1>4

LEMMA PushLed ==
  ASSUME NEW r, NEW v, NEW q, NEW r2, NEW q2, Pushes(r, v, q, r2, q2), Typed(r, v, q),
         Named(r, v, q), Path(r, v, q), Led(r, v)
  PROVE  Led(r2, v \union {q2[1].file})
<1>1. {Root} \in SUBSET Files
  BY ParserAssumption DEF Files
<1>2. ReachableFrom({Root}, Links(r, Kinds)) \subseteq ReachableFrom({Root}, Links(r2, Kinds))
  BY <1>1, ReachedMore DEF Pushes
<1>3. q2[1].file \in ReachableFrom({Root}, Links(r2, Kinds))
  <2>1. CASE q = <<>>
    <3>1. q2[1].file = Root
      BY <2>1 DEF Pushes
    <3> QED
      BY <1>1, <3>1, ReachStart
  <2>2. CASE q # <<>>
    <3>1. q[1].file \in v
      BY <2>2 DEF Path, Typed
    <3>2. <<q[1].file, q2[1].file>> \in Links(r2, {q2[1].how}) /\ q2[1].how \in Kinds
      BY <2>2, PushLink DEF Kinds
    <3>3. <<q[1].file, q2[1].file>> \in Links(r2, Kinds)
      BY <3>2, LinkIs
    <3>4. q2[1].file \in Files
      BY <3>3, LinkIs
    <3>5. q[1].file \in ReachableFrom({Root}, Links(r2, Kinds))
      BY <1>2, <3>1 DEF Led
    <3> QED
      BY <3>3, <3>4, <3>5, ReachStep
  <2> QED
    BY <2>1, <2>2
<1> QED
  BY <1>2, <1>3 DEF Led

LEMMA PushDeclared ==
  ASSUME NEW r, NEW v, NEW q, NEW r2, NEW q2, Pushes(r, v, q, r2, q2), Typed(r, v, q),
         Declared(v, q)
  PROVE  Declared(v \union {q2[1].file}, q2)
<1> PICK n \in Nat : n = Len(q)
  BY DEF Typed
<1>1. DOMAIN q = 1 .. n
  BY DEF Typed
<1>2. /\ DOMAIN q2 = 1 .. n + 1 /\ q2[1].file \notin v
      /\ Once(q2[1].types) /\ DeclFiles(q2[1].types) = {q2[1].file}
      /\ \A i \in 2 .. n + 1 : q2[i].types = q[i - 1].types
  BY DEF Pushes
<1>3. \A i \in 2 .. n + 1 : i - 1 \in DOMAIN q /\ q2[i].types = q[i - 1].types
  BY <1>1, <1>2
<1>4. \A i \in DOMAIN q : DeclFiles(q[i].types) \subseteq v
  BY DEF Declared
<1>5. \A i \in DOMAIN q2 : i = 1 \/ i \in 2 .. n + 1
  BY <1>2
<1>6. \A i \in DOMAIN q2 : Once(q2[i].types)
  <2> TAKE i \in DOMAIN q2
  <2>1. CASE i = 1
    BY <1>2, <2>1
  <2>2. CASE i \in 2 .. n + 1
    BY <1>3, <2>2 DEF Declared
  <2> QED
    BY <1>5, <2>1, <2>2
<1>7. \A i, j \in DOMAIN q2 : i # j => DeclFiles(q2[i].types) \intersect DeclFiles(q2[j].types) = {}
  <2> SUFFICES ASSUME NEW i \in DOMAIN q2, NEW j \in DOMAIN q2, i # j
               PROVE  DeclFiles(q2[i].types) \intersect DeclFiles(q2[j].types) = {}
    OBVIOUS
  <2>1. CASE i = 1
    <3>1. j \in 2 .. n + 1
      BY <1>5, <2>1
    <3>2. DeclFiles(q2[j].types) \subseteq v
      BY <1>3, <1>4, <3>1
    <3> QED
      BY <1>2, <2>1, <3>2
  <2>2. CASE j = 1
    <3>1. i \in 2 .. n + 1
      BY <1>5, <2>2
    <3>2. DeclFiles(q2[i].types) \subseteq v
      BY <1>3, <1>4, <3>1
    <3> QED
      BY <1>2, <2>2, <3>2
  <2>3. CASE i \in 2 .. n + 1 /\ j \in 2 .. n + 1
    <3>1. i - 1 # j - 1
      BY <2>3
    <3>2. DeclFiles(q[i - 1].types) \intersect DeclFiles(q[j - 1].types) = {}
      BY <1>3, <2>3, <3>1 DEF Declared
    <3> QED
      BY <1>3, <2>3, <3>2
  <2> QED
    BY <1>5, <2>1, <2>2, <2>3
<1>8. v \union {q2[1].file} = UNION {DeclFiles(q2[i].types) : i \in DOMAIN q2}
  <2>1. ASSUME NEW f \in v PROVE \E i \in DOMAIN q2 : f \in DeclFiles(q2[i].types)
    <3>1. PICK i \in DOMAIN q : f \in DeclFiles(q[i].types)
      BY DEF Declared
    <3>2. i + 1 \in DOMAIN q2 /\ i + 1 \in 2 .. n + 1 /\ (i + 1) - 1 = i
      BY <1>1, <1>2
    <3>3. f \in DeclFiles(q2[i + 1].types)
      BY <1>3, <3>1, <3>2
    <3> QED
      BY <3>2, <3>3
  <2>2. \E i \in DOMAIN q2 : q2[1].file \in DeclFiles(q2[i].types)
    BY <1>2
  <2>3. ASSUME NEW i \in DOMAIN q2 PROVE DeclFiles(q2[i].types) \subseteq v \union {q2[1].file}
    <3>1. CASE i = 1
      BY <1>2, <3>1
    <3>2. CASE i \in 2 .. n + 1
      BY <1>3, <1>4, <3>2
    <3> QED
      BY <1>5, <3>1, <3>2
  <2> QED
    BY <2>1, <2>2, <2>3
<1> QED
  BY <1>6, <1>7, <1>8 DEF Declared

LEMMA InternsMore ==
  ASSUME NEW r, NEW r2, NEW f, NEW types, NEW g \in Files, Reads(r, r2, f), Interns(r, types, g)
  PROVE  Interns(r2, types, g)
<1>1. {g} \in SUBSET Files
  OBVIOUS
<1>2. ReachableFrom({g}, Links(r, {"import"})) \subseteq ReachableFrom({g}, Links(r2, {"import"}))
  BY <1>1, ReachedMore
<1> QED
  BY <1>2 DEF Interns

LEMMA PushImported ==
  ASSUME NEW r, NEW v, NEW q, NEW r2, NEW q2, Pushes(r, v, q, r2, q2), Typed(r, v, q),
         Imported(r, q)
  PROVE  Imported(r2, q2)
<1> SUFFICES ASSUME NEW i \in DOMAIN q2 PROVE Interns(r2, q2[i].types, q2[i].file)
  BY DEF Imported
<1> PICK n \in Nat : n = Len(q)
  BY DEF Typed
<1>1. DOMAIN q = 1 .. n /\ DOMAIN q2 = 1 .. n + 1
  BY DEF Typed, Pushes
<1>2. CASE i = 1
  <2>1. q2[1].file \in Files
    BY DEF Pushes, Files
  <2>2. q2[1].file \in ReachableFrom({q2[1].file}, Links(r2, {"import"}))
    BY <2>1, ReachStart
  <2>3. \A m \in DOMAIN q2[1].types : q2[1].types[m].file = q2[1].file
    BY DEF Pushes, DeclFiles
  <2> QED
    BY <1>2, <2>2, <2>3 DEF Interns
<1>3. CASE i # 1
  <2>1. i \in 2 .. n + 1 /\ i - 1 \in DOMAIN q
    BY <1>1, <1>3
  <2>2. q2[i].types = q[i - 1].types /\ q2[i].file = q[i - 1].file
    BY <2>1 DEF Pushes
  <2>3. Interns(r, q[i - 1].types, q[i - 1].file)
    BY <2>1 DEF Imported
  <2>4. q[i - 1] \in Frame
    BY <2>1 DEF Typed
  <2>5. q[i - 1].file \in Files
    BY <2>4 DEF Frame, Files
  <2>6. Reads(r, r2, q2[1].file)
    BY DEF Pushes
  <2> QED
    BY <2>2, <2>3, <2>5, <2>6, InternsMore
<1> QED
  BY <1>2, <1>3

LEMMA PushSearching ==
  ASSUME NEW r, NEW v, NEW q, NEW r2, NEW q2, Pushes(r, v, q, r2, q2), Searching(r, v, q)
  PROVE  Searching(r2, v \union {q2[1].file}, q2)
<1>1. Typed(r, v, q) /\ Unread(r, v) /\ Led(r, v) /\ Path(r, v, q) /\ Named(r, v, q)
  BY DEF Searching
<1>2. Acyclic(r, Done(v, q)) /\ Declared(v, q) /\ Imported(r, q)
  BY DEF Searching
<1>3. Typed(r2, v \union {q2[1].file}, q2)
  BY <1>1 DEF Typed, Pushes, Reads, Files
<1>4. Unread(r2, v \union {q2[1].file})
  BY <1>1 DEF Unread, Pushes, Reads
<1>5. Led(r2, v \union {q2[1].file})
  BY <1>1, PushLed
<1>6. Path(r2, v \union {q2[1].file}, q2)
  BY <1>1, PushPath
<1>7. Named(r2, v \union {q2[1].file}, q2)
  BY <1>1, PushNamed
<1>8. Acyclic(r2, Done(v \union {q2[1].file}, q2))
  BY <1>1, <1>2, PushAcyclic
<1>9. Declared(v \union {q2[1].file}, q2)
  BY <1>1, <1>2, PushDeclared
<1>10. Imported(r2, q2)
  BY <1>1, <1>2, PushImported
<1> QED
  BY <1>3, <1>4, <1>5, <1>6, <1>7, <1>8, <1>9, <1>10 DEF Searching

-----------------------------------------------------------------------------
(* A line is dealt with: its file is finished *)

LineTaken(v, q, v2, q2) ==
  \E x \in Range(q[1].left) :
    /\ v2 = v \union {x.file}
    /\ \/ x.file \in Done(v, q)
       \/ x.file \in Manifests \ v /\ x.kind = "manifest"
    /\ \A y \in Range(q[1].left) : y = x \/ y \in Range(q2[1].left)

Advances(r, v, q, v2, q2) ==
  /\ q # <<>> /\ q2 \in Seq(Frame) /\ Len(q2) = Len(q) /\ DOMAIN q2 = DOMAIN q
  /\ q2[1].file = q[1].file /\ q2[1].how = q[1].how
  /\ \A i \in DOMAIN q : i # 1 => q2[i] = q[i]
  /\ Range(q2[1].left) \subseteq Range(q[1].left)
  /\ LineTaken(v, q, v2, q2)
  /\ Once(q2[1].types) /\ DeclFiles(q2[1].types) = DeclFiles(q[1].types) \union (v2 \ v)
  /\ Interns(r, q[1].types, q[1].file) => Interns(r, q2[1].types, q[1].file)

LEMMA AdvanceSearching ==
  ASSUME NEW r, NEW v, NEW q, NEW v2, NEW q2, Advances(r, v, q, v2, q2), Searching(r, v, q)
  PROVE  Searching(r, v2, q2)
<1>1. Typed(r, v, q) /\ Unread(r, v) /\ Led(r, v) /\ Path(r, v, q) /\ Named(r, v, q)
  BY DEF Searching
<1>2. Acyclic(r, Done(v, q)) /\ Declared(v, q) /\ Imported(r, q)
  BY DEF Searching
<1> PICK n \in Nat : n = Len(q)
  BY <1>1 DEF Typed
<1>3. /\ DOMAIN q = 1 .. n /\ DOMAIN q2 = 1 .. n /\ Len(q2) = n /\ n # 0 /\ q # <<>> /\ 1 \in DOMAIN q
  <2>1. DOMAIN q = 1 .. n
    BY <1>1 DEF Typed
  <2> QED
    BY <1>1, <2>1, EmptySeq DEF Typed, Advances
<1>4. \A i \in DOMAIN q : /\ q2[i].file = q[i].file /\ q2[i].how = q[i].how
                          /\ i # 1 => q2[i].types = q[i].types /\ q2[i].left = q[i].left
  BY DEF Advances
<1> PICK x \in Range(q[1].left) :
       /\ v2 = v \union {x.file}
       /\ \/ x.file \in Done(v, q)
          \/ x.file \in Manifests \ v /\ x.kind = "manifest"
       /\ \A y \in Range(q[1].left) : y = x \/ y \in Range(q2[1].left)
  BY DEF Advances, LineTaken
<1>5. q[1] \in Frame /\ q[1].file \in IdlFiles /\ q[1].file \in v
  <2>1. q[1] \in Frame
    BY <1>1, <1>3 DEF Typed
  <2> QED
    BY <1>1, <1>3, <2>1 DEF Frame, Path
<1>6. OnStack(q2) = OnStack(q)
  BY <1>3, <1>4 DEF OnStack
<1>7. \A i \in DOMAIN q : q[i].file \in IdlFiles
  <2> TAKE i \in DOMAIN q
  <2>1. q[i] \in Frame
    BY <1>1 DEF Typed
  <2> QED
    BY <2>1 DEF Frame
<1>8. Done(v2, q2) = Done(v, q) \union {x.file}
  <2>1. x.file \notin OnStack(q)
    BY <1>7, ParserAssumption DEF OnStack, Done
  <2> QED
    BY <1>6, <2>1 DEF Done
<1>9. x \in Range(r[q[1].file])
  BY <1>1, <1>3 DEF Named
<1>10. x.file \in Manifests \ v => <<q[1].file, x.file>> \in Links(r, Kinds)
  <2> SUFFICES ASSUME x.file \in Manifests \ v PROVE <<q[1].file, x.file>> \in Links(r, Kinds)
    OBVIOUS
  <2>1. x.kind \in Kinds /\ x.file \in Files
    BY DEF Done, Kinds, Files
  <2> QED
    BY <1>5, <1>9, <2>1, LinkIs
<1>11. Typed(r, v2, q2)
  <2>1. q2 \in Seq(Frame)
    BY DEF Advances
  <2>2. v2 \subseteq Files
    BY <1>1 DEF Typed, Done, Files
  <2> QED
    BY <1>1, <2>1, <2>2 DEF Typed
<1>12. Unread(r, v2)
  BY <1>1 DEF Unread
<1>13. Led(r, v2)
  <2>1. CASE x.file \in Done(v, q)
    BY <1>1, <2>1 DEF Led, Done
  <2>2. CASE x.file \in Manifests \ v
    <3>1. q[1].file \in ReachableFrom({Root}, Links(r, Kinds))
      BY <1>1, <1>5 DEF Led
    <3>2. x.file \in Files
      BY <2>2 DEF Files
    <3>3. x.file \in ReachableFrom({Root}, Links(r, Kinds))
      BY <1>10, <2>2, <3>1, <3>2, ReachStep
    <3> QED
      BY <1>1, <3>3 DEF Led
  <2> QED
    BY <2>1, <2>2
<1>14. Path(r, v2, q2)
  <2>1. \A i \in DOMAIN q2 : q2[i].file \in v2
    BY <1>1, <1>3, <1>4 DEF Path
  <2>2. \A i, j \in DOMAIN q2 : q2[i].file = q2[j].file => i = j
    BY <1>1, <1>3, <1>4 DEF Path
  <2>3. \A i \in DOMAIN q2 : q2[i].how = "root" <=> i = Len(q2)
    BY <1>1, <1>3, <1>4 DEF Path
  <2>4. q2[Len(q2)].file = Root
    <3>1. n \in DOMAIN q /\ q[n].file = Root
      BY <1>1, <1>3 DEF Path
    <3> QED
      BY <1>3, <1>4, <3>1
  <2>5. \A i \in DOMAIN q2 : i # 1 => <<q2[i].file, q2[i - 1].file>> \in Links(r, {q2[i - 1].how})
    <3> SUFFICES ASSUME NEW i \in DOMAIN q2, i # 1
                 PROVE  <<q2[i].file, q2[i - 1].file>> \in Links(r, {q2[i - 1].how})
      OBVIOUS
    <3>1. i \in DOMAIN q /\ i - 1 \in DOMAIN q
      BY <1>3
    <3>2. <<q[i].file, q[i - 1].file>> \in Links(r, {q[i - 1].how})
      BY <1>1, <3>1 DEF Path
    <3> QED
      BY <1>4, <3>1, <3>2
  <2>6. \A i, j \in DOMAIN q2 : i < j =>
          q2[i].file \in ReachableFrom(LinkedBy(r, q2[j].file), Links(r, Kinds))
    BY <1>1, <1>3, <1>4 DEF Path
  <2> QED
    BY <2>1, <2>2, <2>3, <2>4, <2>5, <2>6 DEF Path
<1>15. Named(r, v2, q2)
  <2> SUFFICES ASSUME NEW i \in DOMAIN q
               PROVE  /\ Range(q2[i].left) \subseteq Range(r[q[i].file])
                      /\ \A y \in Range(r[q[i].file]) :
                           \/ y \in Range(q2[i].left)
                           \/ y.file \in Done(v2, q2)
                           \/ i # 1 /\ y.file = q2[i - 1].file
    BY <1>3, <1>4 DEF Named
  <2>1. /\ Range(q[i].left) \subseteq Range(r[q[i].file])
        /\ \A y \in Range(r[q[i].file]) :
             \/ y \in Range(q[i].left)
             \/ y.file \in Done(v, q)
             \/ i # 1 /\ y.file = q[i - 1].file
    BY <1>1 DEF Named
  <2>2. CASE i = 1
    <3>1. Range(q2[1].left) \subseteq Range(q[1].left)
      BY DEF Advances
    <3> QED
      BY <1>8, <2>1, <2>2, <3>1
  <2>3. CASE i # 1
    <3>1. i - 1 \in DOMAIN q
      BY <1>3, <2>3
    <3> QED
      BY <1>4, <1>8, <2>1, <2>3, <3>1
  <2> QED
    BY <2>2, <2>3
<1>16. Acyclic(r, Done(v2, q2))
  <2>1. CASE x.file \in Done(v, q)
    <3>1. Done(v2, q2) = Done(v, q)
      BY <1>8, <2>1
    <3> QED
      BY <1>2, <3>1
  <2>2. CASE x.file \in Manifests \ v
    <3>1. LinkedBy(r, x.file) = {}
      <4>1. x.file \notin IdlFiles
        BY <2>2, ParserAssumption
      <4>2. \A g : g \notin LinkedBy(r, x.file)
        BY <4>1, LinkIs
      <4> QED
        BY <4>2
    <3>2. {} \in SUBSET Done(v2, q2) /\ x.file \notin {} /\ LinkedBy(r, x.file) \subseteq {}
          /\ Closed({}, Links(r, Kinds))
      BY <3>1 DEF Closed
    <3>3. Done(v, q) \subseteq Done(v2, q2)
      BY <1>8
    <3> SUFFICES ASSUME NEW f \in Done(v2, q2)
                 PROVE  \E S \in SUBSET Done(v2, q2) :
                          f \notin S /\ LinkedBy(r, f) \subseteq S /\ Closed(S, Links(r, Kinds))
      BY DEF Acyclic
    <3>4. CASE f = x.file
      BY <3>2, <3>4
    <3>5. CASE f \in Done(v, q)
      BY <1>2, <3>3, <3>5 DEF Acyclic
    <3> QED
      BY <1>8, <3>4, <3>5
  <2> QED
    BY <2>1, <2>2
<1>17. Declared(v2, q2)
  <2>1. /\ Once(q2[1].types) /\ DeclFiles(q2[1].types) = DeclFiles(q[1].types) \union (v2 \ v)
    BY DEF Advances
  <2>2. \A i \in DOMAIN q : DeclFiles(q[i].types) \subseteq v
    BY <1>2 DEF Declared
  <2>3. \A i \in DOMAIN q2 : Once(q2[i].types)
    BY <1>2, <1>3, <1>4, <2>1 DEF Declared
  <2>4. \A i, j \in DOMAIN q2 : i # j => DeclFiles(q2[i].types) \intersect DeclFiles(q2[j].types) = {}
    <3> SUFFICES ASSUME NEW i \in DOMAIN q, NEW j \in DOMAIN q, i # j
                 PROVE  DeclFiles(q2[i].types) \intersect DeclFiles(q2[j].types) = {}
      BY <1>3
    <3>1. DeclFiles(q[i].types) \intersect DeclFiles(q[j].types) = {}
      BY <1>2 DEF Declared
    <3>2. /\ i = 1 => DeclFiles(q2[i].types) = DeclFiles(q[i].types) \union (v2 \ v)
          /\ i # 1 => DeclFiles(q2[i].types) = DeclFiles(q[i].types)
          /\ j = 1 => DeclFiles(q2[j].types) = DeclFiles(q[j].types) \union (v2 \ v)
          /\ j # 1 => DeclFiles(q2[j].types) = DeclFiles(q[j].types)
      BY <1>4, <2>1
    <3> QED
      BY <2>2, <3>1, <3>2
  <2>5. v2 = UNION {DeclFiles(q2[i].types) : i \in DOMAIN q2}
    <3>1. \A i \in DOMAIN q : DeclFiles(q[i].types) \subseteq DeclFiles(q2[i].types)
      <4> TAKE i \in DOMAIN q
      <4>1. CASE i = 1
        BY <2>1, <4>1
      <4>2. CASE i # 1
        BY <1>4, <4>2
      <4> QED
        BY <4>1, <4>2
    <3>2. ASSUME NEW f \in v PROVE \E i \in DOMAIN q2 : f \in DeclFiles(q2[i].types)
      <4>1. PICK i \in DOMAIN q : f \in DeclFiles(q[i].types)
        BY <1>2 DEF Declared
      <4> QED
        BY <1>3, <3>1, <4>1
    <3>3. ASSUME NEW f \in v2 \ v PROVE \E i \in DOMAIN q2 : f \in DeclFiles(q2[i].types)
      BY <1>3, <2>1
    <3>4. v \subseteq v2
      OBVIOUS
    <3>5. ASSUME NEW i \in DOMAIN q2 PROVE DeclFiles(q2[i].types) \subseteq v2
      <4>1. CASE i = 1
        BY <1>3, <2>1, <2>2, <3>4, <4>1
      <4>2. CASE i # 1
        BY <1>3, <1>4, <2>2, <3>4, <4>2
      <4> QED
        BY <4>1, <4>2
    <3> QED
      BY <3>2, <3>3, <3>5
  <2> QED
    BY <2>3, <2>4, <2>5 DEF Declared
<1>18. Imported(r, q2)
  <2> SUFFICES ASSUME NEW i \in DOMAIN q PROVE Interns(r, q2[i].types, q2[i].file)
    BY <1>3 DEF Imported
  <2>1. Interns(r, q[i].types, q[i].file)
    BY <1>2 DEF Imported
  <2>2. CASE i = 1
    BY <2>1, <2>2 DEF Advances
  <2>3. CASE i # 1
    BY <1>4, <2>1, <2>3
  <2> QED
    BY <2>2, <2>3
<1> QED
  BY <1>11, <1>12, <1>13, <1>14, <1>15, <1>16, <1>17, <1>18 DEF Searching

-----------------------------------------------------------------------------
(* A file is read to the end *)

\* What the innermost activation leads to has been finished: so is its file.
LEMMA FinishedFile ==
  ASSUME NEW r, NEW v, NEW q, Searching(r, v, q), q # <<>>, q[1].left = <<>>
  PROVE  /\ q[1].file \in v \ Done(v, q)
         /\ Acyclic(r, Done(v, q) \union {q[1].file})
<1> DEFINE D == Done(v, q)
<1>1. 1 \in DOMAIN q /\ q[1].file \in v
  <2>1. q \in Seq(Frame) /\ Len(q) \in Nat \ {0}
    BY EmptySeq DEF Searching, Typed
  <2> QED
    BY <2>1 DEF Searching, Path
<1>2. q[1].file \in v \ D
  BY <1>1 DEF Done, OnStack
<1>3. Acyclic(r, D)
  BY DEF Searching
<1>4. LinkedBy(r, q[1].file) \subseteq D
  <2> SUFFICES ASSUME NEW g \in LinkedBy(r, q[1].file) PROVE g \in D
    OBVIOUS
  <2>1. <<q[1].file, g>> \in Links(r, Kinds)
    BY LinkIs
  <2>2. PICK x \in Range(r[q[1].file]) : x.file = g
    BY <2>1, LinkIs
  <2>3. x \notin Range(q[1].left)
    BY DEF Range
  <2> QED
    BY <1>1, <2>2, <2>3 DEF Searching, Named
<1>5. Closed(D, Links(r, Kinds))
  BY <1>3, AcyclicClosed
<1>6. Acyclic(r, D \union {q[1].file})
  <2> SUFFICES ASSUME NEW f \in D \union {q[1].file}
               PROVE  \E S \in SUBSET (D \union {q[1].file}) :
                        f \notin S /\ LinkedBy(r, f) \subseteq S /\ Closed(S, Links(r, Kinds))
    BY DEF Acyclic
  <2>1. CASE f = q[1].file
    BY <1>2, <1>4, <1>5, <2>1
  <2>2. CASE f \in D
    <3>1. PICK S \in SUBSET D :
            f \notin S /\ LinkedBy(r, f) \subseteq S /\ Closed(S, Links(r, Kinds))
      BY <1>3, <2>2 DEF Acyclic
    <3> QED
      BY <3>1
  <2> QED
    BY <2>1, <2>2
<1> QED
  BY <1>2, <1>6

\* An inner call returns: the caller gets its declarations, or those of an
\* @extern file, none of which are left to the back ends.
Pops(r, v, q, q2, X) ==
  /\ q # <<>> /\ q[1].left = <<>> /\ Len(q) > 1
  /\ q2 \in Seq(Frame) /\ Len(q2) = Len(q) - 1 /\ DOMAIN q2 = 1 .. Len(q) - 1
  /\ \A i \in 1 .. Len(q) - 1 :
       /\ q2[i].file = q[i + 1].file /\ q2[i].how = q[i + 1].how /\ q2[i].left = q[i + 1].left
       /\ i # 1 => q2[i].types = q[i + 1].types
  /\ X \in Seq(Declaration) /\ Once(X) /\ DeclFiles(X) = DeclFiles(q[1].types)
  /\ q2[1].types = X \o q[2].types
  /\ \/ q[1].how = "import" /\ X = q[1].types
     \/ \A n \in DOMAIN X : X[n].as # "intern"

LEMMA PopSearching ==
  ASSUME NEW r, NEW v, NEW q, NEW q2, NEW X, Pops(r, v, q, q2, X), Searching(r, v, q)
  PROVE  Searching(r, v, q2)
<1>1. Typed(r, v, q) /\ Unread(r, v) /\ Led(r, v) /\ Path(r, v, q) /\ Named(r, v, q)
  BY DEF Searching
<1>2. Acyclic(r, Done(v, q)) /\ Declared(v, q) /\ Imported(r, q)
  BY DEF Searching
<1> PICK n \in Nat : n = Len(q)
  BY <1>1 DEF Typed
<1>3. /\ DOMAIN q = 1 .. n /\ DOMAIN q2 = 1 .. n - 1 /\ Len(q2) = n - 1 /\ n > 1 /\ q # <<>>
      /\ q[1].left = <<>> /\ q2[1].types = X \o q[2].types
  BY <1>1 DEF Typed, Pops
<1>4. \A i \in DOMAIN q2 : /\ i + 1 \in DOMAIN q
                           /\ q2[i].file = q[i + 1].file /\ q2[i].how = q[i + 1].how
                           /\ q2[i].left = q[i + 1].left
                           /\ i # 1 => q2[i].types = q[i + 1].types
  BY <1>3 DEF Pops
<1>5. \A i \in DOMAIN q : i # 1 => i - 1 \in DOMAIN q2 /\ q2[i - 1].file = q[i].file
  <2> SUFFICES ASSUME NEW i \in DOMAIN q, i # 1
               PROVE  i - 1 \in DOMAIN q2 /\ q2[i - 1].file = q[i].file
    OBVIOUS
  <2>1. i - 1 \in DOMAIN q2 /\ (i - 1) + 1 = i
    BY <1>3
  <2> QED
    BY <1>4, <2>1
<1>6. OnStack(q2) = OnStack(q) \ {q[1].file}
  <2>1. ASSUME NEW g \in OnStack(q2) PROVE g \in OnStack(q) \ {q[1].file}
    <3>1. PICK i \in DOMAIN q2 : g = q2[i].file
      BY DEF OnStack
    <3>2. i + 1 \in DOMAIN q /\ i + 1 # 1 /\ g = q[i + 1].file /\ 1 \in DOMAIN q
      BY <1>3, <1>4, <3>1
    <3> QED
      BY <1>1, <3>2 DEF Path, OnStack
  <2>2. ASSUME NEW g \in OnStack(q), g # q[1].file PROVE g \in OnStack(q2)
    <3>1. PICK i \in DOMAIN q : g = q[i].file
      BY DEF OnStack
    <3>2. i # 1
      BY <2>2, <3>1
    <3> QED
      BY <1>5, <3>1, <3>2 DEF OnStack
  <2> QED
    BY <2>1, <2>2
<1>7. Done(v, q2) = Done(v, q) \union {q[1].file}
  <2>1. q[1].file \in v \ Done(v, q)
    BY <1>3, FinishedFile
  <2> QED
    BY <1>6, <2>1 DEF Done
<1>8. Typed(r, v, q2)
  BY <1>1 DEF Typed, Pops
<1>9. Path(r, v, q2)
  <2>1. \A i \in DOMAIN q2 : q2[i].file \in v
    BY <1>1, <1>4 DEF Path
  <2>2. \A i, j \in DOMAIN q2 : q2[i].file = q2[j].file => i = j
    <3> SUFFICES ASSUME NEW i \in DOMAIN q2, NEW j \in DOMAIN q2, q2[i].file = q2[j].file
                 PROVE  i = j
      OBVIOUS
    <3>1. i + 1 = j + 1
      BY <1>1, <1>4 DEF Path
    <3> QED
      BY <1>3, <3>1
  <2>3. \A i \in DOMAIN q2 : q2[i].how = "root" <=> i = Len(q2)
    <3>1. \A i \in DOMAIN q : q[i].how = "root" <=> i = n
      BY <1>1 DEF Path
    <3> QED
      BY <1>3, <1>4, <3>1
  <2>4. q2[Len(q2)].file = Root
    <3>1. q[n].file = Root
      BY <1>1, <1>3 DEF Path
    <3>2. n - 1 \in DOMAIN q2 /\ (n - 1) + 1 = n
      BY <1>3
    <3> QED
      BY <1>3, <1>4, <3>1, <3>2
  <2>5. \A i \in DOMAIN q2 : i # 1 => <<q2[i].file, q2[i - 1].file>> \in Links(r, {q2[i - 1].how})
    <3> SUFFICES ASSUME NEW i \in DOMAIN q2, i # 1
                 PROVE  <<q2[i].file, q2[i - 1].file>> \in Links(r, {q2[i - 1].how})
      OBVIOUS
    <3>1. i + 1 \in DOMAIN q /\ i + 1 # 1 /\ i - 1 \in DOMAIN q2 /\ (i - 1) + 1 = i /\ (i + 1) - 1 = i
      BY <1>3
    <3>2. <<q[i + 1].file, q[(i + 1) - 1].file>> \in Links(r, {q[(i + 1) - 1].how})
      BY <1>1, <3>1 DEF Path
    <3> QED
      BY <1>4, <3>1, <3>2
  <2>6. \A i, j \in DOMAIN q2 : i < j =>
          q2[i].file \in ReachableFrom(LinkedBy(r, q2[j].file), Links(r, Kinds))
    <3> SUFFICES ASSUME NEW i \in DOMAIN q2, NEW j \in DOMAIN q2, i < j
                 PROVE  q2[i].file \in ReachableFrom(LinkedBy(r, q2[j].file), Links(r, Kinds))
      OBVIOUS
    <3>1. i + 1 \in DOMAIN q /\ j + 1 \in DOMAIN q /\ i + 1 < j + 1
      BY <1>3
    <3>2. q[i + 1].file \in ReachableFrom(LinkedBy(r, q[j + 1].file), Links(r, Kinds))
      BY <1>1, <3>1 DEF Path
    <3> QED
      BY <1>4, <3>2
  <2> QED
    BY <2>1, <2>2, <2>3, <2>4, <2>5, <2>6 DEF Path
<1>10. Named(r, v, q2)
  <2> SUFFICES ASSUME NEW i \in DOMAIN q2
               PROVE  /\ Range(q2[i].left) \subseteq Range(r[q2[i].file])
                      /\ \A x \in Range(r[q2[i].file]) :
                           \/ x \in Range(q2[i].left)
                           \/ x.file \in Done(v, q2)
                           \/ i # 1 /\ x.file = q2[i - 1].file
    BY DEF Named
  <2>1. i + 1 \in DOMAIN q /\ i + 1 # 1 /\ (i + 1) - 1 = i
    BY <1>3
  <2>2. /\ Range(q[i + 1].left) \subseteq Range(r[q[i + 1].file])
        /\ \A x \in Range(r[q[i + 1].file]) :
             \/ x \in Range(q[i + 1].left)
             \/ x.file \in Done(v, q)
             \/ x.file = q[i].file
    BY <1>1, <2>1 DEF Named
  <2>3. i # 1 => q2[i - 1].file = q[i].file
    <3>1. i \in DOMAIN q
      BY <1>3
    <3> QED
      BY <1>5, <3>1
  <2>4. \A x \in Range(r[q[i + 1].file]) :
          \/ x \in Range(q[i + 1].left)
          \/ x.file \in Done(v, q2)
          \/ i # 1 /\ x.file = q2[i - 1].file
    BY <1>7, <2>2, <2>3
  <2> QED
    BY <1>4, <2>2, <2>4
<1>11. Acyclic(r, Done(v, q2))
  BY <1>3, <1>7, FinishedFile
<1>12. 2 \in DOMAIN q /\ q[2] \in Frame /\ q[2].types \in Seq(Declaration) /\ q2[1].file = q[2].file
  <2>1. 2 \in DOMAIN q /\ q[2] \in Frame
    BY <1>1, <1>3 DEF Typed
  <2>2. q[2].types \in Seq(Declaration)
    BY <2>1 DEF Frame
  <2>3. 2 - 1 = 1 /\ 2 # 1
    OBVIOUS
  <2>4. q2[1].file = q[2].file
    BY <1>5, <2>1, <2>3
  <2> QED
    BY <2>1, <2>2, <2>4
<1>13. /\ Once(q2[1].types)
       /\ DeclFiles(q2[1].types) = DeclFiles(q[1].types) \union DeclFiles(q[2].types)
  <2>1. X \in Seq(Declaration) /\ Once(X) /\ DeclFiles(X) = DeclFiles(q[1].types)
    BY DEF Pops
  <2>2. Once(q[2].types)
    BY <1>2, <1>12 DEF Declared
  <2>3. DeclFiles(q[1].types) \intersect DeclFiles(q[2].types) = {}
    <3>1. 1 \in DOMAIN q /\ 1 # 2
      BY <1>3
    <3> QED
      BY <1>2, <1>12, <3>1 DEF Declared
  <2> QED
    BY <1>3, <1>12, <2>1, <2>2, <2>3, DeclaredTogether
<1>14. Declared(v, q2)
  <2>1. \A i \in DOMAIN q2 : Once(q2[i].types)
    <3> TAKE i \in DOMAIN q2
    <3>1. CASE i = 1
      BY <1>13, <3>1
    <3>2. CASE i # 1
      BY <1>2, <1>4, <3>2 DEF Declared
    <3> QED
      BY <3>1, <3>2
  <2>2. \A i \in DOMAIN q2 : i # 1 =>
          DeclFiles(q2[1].types) \intersect DeclFiles(q2[i].types) = {}
    <3> SUFFICES ASSUME NEW i \in DOMAIN q2, i # 1
                 PROVE  DeclFiles(q2[1].types) \intersect DeclFiles(q2[i].types) = {}
      OBVIOUS
    <3>1. i + 1 \in DOMAIN q /\ i + 1 # 1 /\ i + 1 # 2 /\ 1 \in DOMAIN q
      BY <1>3
    <3>2. /\ DeclFiles(q[1].types) \intersect DeclFiles(q[i + 1].types) = {}
          /\ DeclFiles(q[2].types) \intersect DeclFiles(q[i + 1].types) = {}
      BY <1>2, <1>12, <3>1 DEF Declared
    <3>3. DeclFiles(q2[i].types) = DeclFiles(q[i + 1].types)
      BY <1>4
    <3> QED
      BY <1>13, <3>2, <3>3
  <2>3. \A i, j \in DOMAIN q2 : i # j => DeclFiles(q2[i].types) \intersect DeclFiles(q2[j].types) = {}
    <3> SUFFICES ASSUME NEW i \in DOMAIN q2, NEW j \in DOMAIN q2, i # j
                 PROVE  DeclFiles(q2[i].types) \intersect DeclFiles(q2[j].types) = {}
      OBVIOUS
    <3>1. CASE i = 1 \/ j = 1
      BY <2>2, <3>1
    <3>2. CASE i # 1 /\ j # 1
      <4>1. i + 1 \in DOMAIN q /\ j + 1 \in DOMAIN q /\ i + 1 # j + 1
        BY <1>3
      <4>2. DeclFiles(q[i + 1].types) \intersect DeclFiles(q[j + 1].types) = {}
        BY <1>2, <4>1 DEF Declared
      <4> QED
        BY <1>4, <3>2, <4>2
    <3> QED
      BY <3>1, <3>2
  <2>4. v = UNION {DeclFiles(q2[i].types) : i \in DOMAIN q2}
    <3>1. 1 \in DOMAIN q2 /\ 1 \in DOMAIN q
      BY <1>3
    <3>2. ASSUME NEW f \in v PROVE \E i \in DOMAIN q2 : f \in DeclFiles(q2[i].types)
      <4>1. PICK i \in DOMAIN q : f \in DeclFiles(q[i].types)
        BY <1>2 DEF Declared
      <4>2. CASE i = 1 \/ i = 2
        BY <1>13, <3>1, <4>1, <4>2
      <4>3. CASE i # 1 /\ i # 2
        <5>1. i - 1 \in DOMAIN q2 /\ i - 1 # 1 /\ (i - 1) + 1 = i
          BY <1>3, <4>3
        <5> QED
          BY <1>4, <4>1, <5>1
      <4> QED
        BY <4>2, <4>3
    <3>3. \A i \in DOMAIN q : DeclFiles(q[i].types) \subseteq v
      BY <1>2 DEF Declared
    <3>4. ASSUME NEW i \in DOMAIN q2 PROVE DeclFiles(q2[i].types) \subseteq v
      <4>1. CASE i = 1
        <5>1. DeclFiles(q[1].types) \subseteq v /\ DeclFiles(q[2].types) \subseteq v
          BY <1>12, <3>1, <3>3
        <5> QED
          BY <1>13, <4>1, <5>1
      <4>2. CASE i # 1
        BY <1>4, <3>3, <4>2
      <4> QED
        BY <4>1, <4>2
    <3> QED
      BY <3>2, <3>4
  <2> QED
    BY <2>1, <2>3, <2>4 DEF Declared
<1>15. Imported(r, q2)
  <2> SUFFICES ASSUME NEW i \in DOMAIN q2 PROVE Interns(r, q2[i].types, q2[i].file)
    BY DEF Imported
  <2>1. CASE i # 1
    <3>1. Interns(r, q[i + 1].types, q[i + 1].file)
      BY <1>2, <1>4 DEF Imported
    <3> QED
      BY <1>4, <2>1, <3>1
  <2>2. CASE i = 1
    <3>1. Interns(r, X, q[2].file)
      <4>1. CASE \A m \in DOMAIN X : X[m].as # "intern"
        BY <4>1 DEF Interns
      <4>2. CASE q[1].how = "import" /\ X = q[1].types
        <5>0. 1 \in DOMAIN q /\ 2 - 1 = 1 /\ 2 # 1
          BY <1>3
        <5>1. Interns(r, X, q[1].file)
          BY <1>2, <4>2, <5>0 DEF Imported
        <5>2. <<q[2].file, q[1].file>> \in Links(r, {"import"})
          <6>1. <<q[2].file, q[2 - 1].file>> \in Links(r, {q[2 - 1].how})
            BY <1>1, <1>12, <5>0 DEF Path
          <6> QED
            BY <4>2, <5>0, <6>1
        <5>3. q[1].file \in Files /\ q[2].file \in Files
          BY <5>2, LinkIs DEF Files
        <5>4. q[2].file \in ReachableFrom({q[2].file}, Links(r, {"import"}))
          BY <5>3, ReachStart
        <5>5. q[1].file \in ReachableFrom({q[2].file}, Links(r, {"import"}))
          BY <5>2, <5>3, <5>4, ReachStep
        <5>6. {q[1].file} \subseteq ReachableFrom({q[2].file}, Links(r, {"import"}))
          BY <5>5
        <5>7. ReachableFrom({q[1].file}, Links(r, {"import"}))
                \subseteq ReachableFrom({q[2].file}, Links(r, {"import"}))
          BY <5>6, ReachMore
        <5> QED
          BY <5>1, <5>7 DEF Interns
      <4> QED
        BY <4>1, <4>2 DEF Pops
    <3>2. Interns(r, q[2].types, q[2].file)
      BY <1>2, <1>12 DEF Imported
    <3>3. PICK c : c = X \o q[2].types
      OBVIOUS
    <3>4. /\ c \in Seq(Declaration) /\ Len(c) = Len(X) + Len(q[2].types)
          /\ \A m \in 1 .. Len(X) + Len(q[2].types) :
               c[m] = IF m <= Len(X) THEN X[m] ELSE q[2].types[m - Len(X)]
      BY <1>12, <3>3, ConcatProperties DEF Pops
    <3>5. PICK k \in Nat : k = Len(X) /\ DOMAIN X = 1 .. k
      BY DEF Pops
    <3>6. PICK l \in Nat : l = Len(q[2].types) /\ DOMAIN q[2].types = 1 .. l
      BY <1>12
    <3>7. \A m \in DOMAIN c : \/ m \in DOMAIN X /\ c[m] = X[m]
                              \/ m - k \in DOMAIN q[2].types /\ c[m] = q[2].types[m - k]
      <4> SUFFICES ASSUME NEW m \in DOMAIN c
                   PROVE  \/ m \in DOMAIN X /\ c[m] = X[m]
                          \/ m - k \in DOMAIN q[2].types /\ c[m] = q[2].types[m - k]
        OBVIOUS
      <4>1. m \in 1 .. k + l /\ c[m] = IF m <= k THEN X[m] ELSE q[2].types[m - k]
        BY <3>4, <3>5, <3>6
      <4>2. CASE m <= k
        BY <3>5, <4>1, <4>2
      <4>3. CASE ~(m <= k)
        <5>1. m - k \in 1 .. l
          BY <4>1, <4>3
        <5> QED
          BY <3>6, <4>1, <4>3, <5>1
      <4> QED
        BY <4>2, <4>3
    <3>8. Interns(r, c, q[2].file)
      BY <3>1, <3>2, <3>7 DEF Interns
    <3> QED
      BY <1>3, <1>12, <2>2, <3>3, <3>8
  <2> QED
    BY <2>1, <2>2
<1> QED
  BY <1>1, <1>8, <1>9, <1>10, <1>11, <1>14, <1>15 DEF Searching

\* The outermost call returns.
LEMMA SearchReturns ==
  ASSUME NEW r, NEW v, NEW q, Searching(r, v, q), q # <<>>, q[1].left = <<>>, q[1].how = "root"
  PROVE  Returned(r, v, q[1].types)
<1>1. /\ Typed(r, v, q) /\ Unread(r, v) /\ Led(r, v) /\ Path(r, v, q)
      /\ Declared(v, q) /\ Imported(r, q)
  BY DEF Searching
<1>2. Len(q) = 1 /\ DOMAIN q = {1}
  <2>1. Len(q) \in Nat \ {0} /\ DOMAIN q = 1 .. Len(q)
    BY <1>1, EmptySeq DEF Typed
  <2>2. 1 = Len(q)
    BY <1>1, <2>1 DEF Path
  <2>3. 1 .. 1 = {1}
    OBVIOUS
  <2> QED
    BY <2>1, <2>2, <2>3
<1>3. q[1] \in Frame /\ q[1].file = Root /\ Root \in v
  BY <1>1, <1>2 DEF Typed, Path
<1>4. q[1].types \in Seq(Declaration)
  BY <1>3 DEF Frame
<1>5. Done(v, q) \union {q[1].file} = v
  BY <1>2, <1>3 DEF Done, OnStack
<1>6. Acyclic(r, v)
  BY <1>5, FinishedFile
<1>7. Once(q[1].types) /\ DeclFiles(q[1].types) = v
  BY <1>1, <1>2 DEF Declared
<1>8. Interns(r, q[1].types, Root)
  BY <1>1, <1>2, <1>3 DEF Imported
<1> QED
  BY <1>1, <1>3, <1>4, <1>6, <1>7, <1>8 DEF Returned, Typed

\* A reference to a file on the stack closes a cycle.
LEMMA CycleFound ==
  ASSUME NEW r, NEW v, NEW q, NEW x, Searching(r, v, q), q # <<>>, x \in Range(q[1].left),
         x.file \in OnStack(q)
  PROVE  Circular(r)
<1>1. Typed(r, v, q) /\ Path(r, v, q) /\ Named(r, v, q)
  BY DEF Searching
<1>2. DOMAIN q = 1 .. Len(q) /\ Len(q) \in Nat \ {0} /\ 1 \in DOMAIN q
  <2>1. DOMAIN q = 1 .. Len(q) /\ Len(q) \in Nat \ {0}
    BY <1>1, EmptySeq DEF Typed
  <2> QED
    BY <2>1
<1>3. PICK i \in DOMAIN q : x.file = q[i].file
  BY DEF OnStack
<1>4. q[i] \in Frame /\ q[1] \in Frame
  BY <1>1, <1>2 DEF Typed
<1>5. q[i].file \in IdlFiles /\ q[1].file \in IdlFiles
  BY <1>4 DEF Frame
<1>6. x \in Range(r[q[1].file])
  BY <1>1, <1>2 DEF Named
<1>7. x \in FileRefs
  BY <1>1, <1>5, <1>6 DEF Typed, Range
<1>8. x.kind \in Kinds /\ x.file \in Files
  BY <1>7 DEF FileRefs, Kinds, Files
<1>9. <<q[1].file, x.file>> \in Links(r, Kinds)
  BY <1>5, <1>6, <1>8, LinkIs
<1>10. LinkedBy(r, q[i].file) \subseteq Files
  BY DEF LinkedBy, Links
<1>11. x.file \in ReachableFrom(LinkedBy(r, q[i].file), Links(r, Kinds))
  <2>1. CASE i = 1
    <3>1. x.file \in LinkedBy(r, q[i].file)
      BY <1>9, <2>1, LinkIs
    <3> QED
      BY <1>10, <3>1, ReachStart
  <2>2. CASE i # 1
    <3>1. 1 < i
      BY <1>2, <2>2
    <3>2. q[1].file \in ReachableFrom(LinkedBy(r, q[i].file), Links(r, Kinds))
      BY <1>1, <1>2, <3>1 DEF Path
    <3> QED
      BY <1>8, <1>9, <3>2, ReachStep
  <2> QED
    BY <2>1, <2>2
<1> QED
  BY <1>3, <1>5, <1>11 DEF Circular

-----------------------------------------------------------------------------
(* The steps of the parser *)

LEMMA LinesOfAFile ==
  BoundedSeq(FileRefs, MaxRefs) \subseteq Seq(FileRefs)
  BY ParserAssumption DEF BoundedSeq, SeqOf

\* The activations below the one that is opened for f.
Below(q, below, f, how) ==
  /\ below \in Seq(Frame) /\ Len(below) = Len(q)
  /\ \A i \in 1 .. Len(q) :
       /\ below[i].file = q[i].file /\ below[i].how = q[i].how /\ below[i].types = q[i].types
       /\ i # 1 => below[i].left = q[i].left
  /\ q = <<>> => how = "root" /\ f = Root
  /\ q # <<>> => /\ Range(below[1].left) \subseteq Range(q[1].left)
                 /\ \E x \in Range(q[1].left) :
                      /\ x.file = f /\ x.kind = how
                      /\ \A y \in Range(q[1].left) : y = x \/ y \in Range(below[1].left)

LEMMA EnterKeeps ==
  ASSUME PInv, status = "parsing", NEW f \in IdlFiles, NEW how \in {"root", "import", "externIdl"},
         NEW below, f \notin visitedFiles, Below(fileStack, below, f, how), Enter(f, how, below)
  PROVE  PInv'
<1>1. CASE StopWith({"rejected"})
  BY <1>1 DEF StopWith, PInv, Statuses
<1>2. ASSUME NEW named \in BoundedSeq(FileRefs, MaxRefs),
             refs' = [refs EXCEPT ![f] = named],
             fileStack' = <<[file |-> f, how |-> how, left |-> named,
                             types |-> <<[file |-> f, as |-> "intern"]>>,
                             flags |-> <<f>>]>> \o below,
             UNCHANGED <<status, idl, flags>>
      PROVE  PInv'
  <2>1. Searching(refs, visitedFiles, fileStack)
    BY DEF PInv
  <2>2. refs \in [IdlFiles -> Seq(FileRefs)] /\ fileStack \in Seq(Frame) /\ refs[f] = <<>>
    BY <2>1 DEF Searching, Typed, Unread
  <2>3. named \in Seq(FileRefs)
    BY LinesOfAFile
  <2>4. PICK d \in Declaration : d = [file |-> f, as |-> "intern"] /\ d.file = f
    <3>1. [file |-> f, as |-> "intern"] \in Declaration
      BY DEF Declaration, Files
    <3> QED
      BY <3>1
  <2>5. PICK t \in Seq(Declaration) : t = <<d>> /\ Once(t) /\ DeclFiles(t) = {f}
    BY <2>4, DeclaredAlone
  <2>6. PICK g \in Seq(IdlFiles) : g = <<f>>
    <3>1. <<f>> \in Seq(IdlFiles)
      OBVIOUS
    <3> QED
      BY <3>1
  <2>7. PICK w \in Frame : /\ w = [file |-> f, how |-> how, left |-> named, types |-> t, flags |-> g]
                           /\ w.file = f /\ w.how = how /\ w.left = named /\ w.types = t
    <3>1. [file |-> f, how |-> how, left |-> named, types |-> t, flags |-> g] \in Frame
      BY <2>3 DEF Frame
    <3> QED
      BY <3>1
  <2>8. fileStack' = <<w>> \o below
    BY <1>2, <2>4, <2>5, <2>6, <2>7
  <2>9. PICK n \in Nat : n = Len(fileStack) /\ n = Len(below) /\ below \in Seq(Frame)
    BY <2>2 DEF Below
  <2>10. /\ fileStack' \in Seq(Frame) /\ Len(fileStack') = n + 1 /\ DOMAIN fileStack' = 1 .. n + 1
         /\ fileStack'[1] = w
         /\ \A i \in 2 .. n + 1 : fileStack'[i] = below[i - 1]
    BY <2>8, <2>9, PushIs
  <2>11. Reads(refs, refs', f)
    BY <1>2, <2>2, <2>3 DEF Reads
  <2>12. refs'[f] = named
    BY <1>2, <2>2
  <2>13. \A i \in 2 .. n + 1 :
          /\ fileStack'[i].file = fileStack[i - 1].file /\ fileStack'[i].how = fileStack[i - 1].how
          /\ fileStack'[i].types = fileStack[i - 1].types
          /\ i # 2 => fileStack'[i].left = fileStack[i - 1].left
    <3> TAKE i \in 2 .. n + 1
    <3>1. i - 1 \in 1 .. n /\ (i # 2 => i - 1 # 1)
      OBVIOUS
    <3> QED
      BY <2>9, <2>10, <3>1 DEF Below
  <2>14. fileStack = <<>> => fileStack'[1].how = "root" /\ fileStack'[1].file = Root
    BY <2>7, <2>10 DEF Below
  <2>15. fileStack # <<>> =>
           /\ Range(fileStack'[2].left) \subseteq Range(fileStack[1].left)
           /\ \E x \in Range(fileStack[1].left) :
                /\ x.file = fileStack'[1].file /\ x.kind = fileStack'[1].how
                /\ \A y \in Range(fileStack[1].left) : y = x \/ y \in Range(fileStack'[2].left)
    <3> SUFFICES ASSUME fileStack # <<>>
                 PROVE  /\ Range(fileStack'[2].left) \subseteq Range(fileStack[1].left)
                        /\ \E x \in Range(fileStack[1].left) :
                             /\ x.file = fileStack'[1].file /\ x.kind = fileStack'[1].how
                             /\ \A y \in Range(fileStack[1].left) :
                                  y = x \/ y \in Range(fileStack'[2].left)
      OBVIOUS
    <3>1. n # 0
      BY <2>2, <2>9, EmptySeq
    <3>2. 2 \in 2 .. n + 1 /\ 2 - 1 = 1
      BY <3>1
    <3>3. fileStack'[2] = below[1]
      BY <2>10, <3>2
    <3>4. fileStack'[1].file = f /\ fileStack'[1].how = how
      BY <2>7, <2>10
    <3> QED
      BY <3>3, <3>4 DEF Below
  <2>16. fileStack'[1].file = f /\ fileStack'[1].left = named /\ fileStack'[1].types = t
    BY <2>7, <2>10
  <2>17. Pushes(refs, visitedFiles, fileStack, refs', fileStack')
    BY <2>5, <2>9, <2>10, <2>11, <2>12, <2>13, <2>14, <2>15, <2>16 DEF Pushes
  <2>18. visitedFiles' = visitedFiles \union {fileStack'[1].file}
    BY <2>16 DEF Enter
  <2>19. Searching(refs', visitedFiles', fileStack')
    BY <2>1, <2>17, <2>18, PushSearching
  <2> QED
    BY <1>2, <2>19 DEF PInv, Statuses
<1> QED
  BY <1>1, <1>2 DEF Enter

LEMMA ParseRootKeeps ==
  ASSUME PInv, ParseRoot
  PROVE  PInv'
<1>1. status = "parsing" /\ visitedFiles = {} /\ Enter(Root, "root", <<>>)
  BY DEF ParseRoot
<1>2. Searching(refs, visitedFiles, fileStack)
  BY <1>1 DEF PInv
<1>3. fileStack = <<>>
  <2>1. \A i \in DOMAIN fileStack : fileStack[i].file \in {}
    BY <1>1, <1>2 DEF Searching, Path
  <2>2. DOMAIN fileStack = {}
    BY <2>1
  <2> QED
    BY <1>2, <2>2, EmptySeq DEF Searching, Typed
<1>4. Below(fileStack, <<>>, Root, "root")
  BY <1>3, EmptySeq DEF Below
<1> QED
  BY <1>1, <1>4, ParserAssumption, EnterKeeps

LEMMA TopReplaced ==
  ASSUME NEW q \in Seq(Frame), q # <<>>, NEW w \in Frame
  PROVE  /\ <<w>> \o Tail(q) \in Seq(Frame)
         /\ Len(<<w>> \o Tail(q)) = Len(q) /\ DOMAIN (<<w>> \o Tail(q)) = DOMAIN q
         /\ (<<w>> \o Tail(q))[1] = w
         /\ \A i \in DOMAIN q : i # 1 => (<<w>> \o Tail(q))[i] = q[i]
<1>1. /\ Tail(q) \in Seq(Frame) /\ Len(q) \in Nat /\ Len(q) >= 1 /\ Len(Tail(q)) = Len(q) - 1
      /\ DOMAIN q = 1 .. Len(q)
      /\ \A i \in 1 .. Len(q) - 1 : Tail(q)[i] = q[i + 1]
  BY TailIs
<1>2. PICK s \in Seq(Frame) : s = Tail(q)
  BY <1>1
<1>3. PICK c : c = <<w>> \o s
  OBVIOUS
<1>4. /\ c \in Seq(Frame) /\ Len(c) = Len(s) + 1 /\ DOMAIN c = 1 .. Len(s) + 1
      /\ c[1] = w /\ \A i \in 2 .. Len(s) + 1 : c[i] = s[i - 1]
  BY <1>3, PushIs
<1>5. Len(s) + 1 = Len(q)
  BY <1>1, <1>2
<1>6. \A i \in DOMAIN q : i # 1 => c[i] = q[i]
  <2> SUFFICES ASSUME NEW i \in DOMAIN q, i # 1 PROVE c[i] = q[i]
    OBVIOUS
  <2>1. i \in 2 .. Len(s) + 1 /\ i - 1 \in 1 .. Len(q) - 1 /\ (i - 1) + 1 = i
    BY <1>1, <1>5
  <2>2. c[i] = s[i - 1] /\ s[i - 1] = q[(i - 1) + 1]
    BY <1>1, <1>2, <1>4, <2>1
  <2> QED
    BY <2>1, <2>2
<1> QED
  BY <1>1, <1>2, <1>3, <1>4, <1>5, <1>6

\* The line that is looked at, and the activation that goes on from it.
LEMMA LineAhead ==
  ASSUME PInv, Looping
  PROVE  /\ Searching(refs, visitedFiles, fileStack) /\ status = "parsing"
         /\ fileStack \in Seq(Frame) /\ fileStack # <<>> /\ 1 \in DOMAIN fileStack
         /\ Top = fileStack[1] /\ Top \in Frame
         /\ NextRef \in Range(Top.left) /\ NextRef \in FileRefs
         /\ Advanced \in Frame /\ Advanced.left = Tail(Top.left)
         /\ Advanced.file = Top.file /\ Advanced.how = Top.how /\ Advanced.types = Top.types
         /\ Range(Tail(Top.left)) \subseteq Range(Top.left)
         /\ \A y \in Range(Top.left) : y = NextRef \/ y \in Range(Tail(Top.left))
<1>1. Searching(refs, visitedFiles, fileStack) /\ status = "parsing"
  BY DEF PInv, Looping
<1>2. fileStack \in Seq(Frame) /\ fileStack # <<>>
  BY <1>1 DEF Searching, Typed, Looping
<1>3. Top = fileStack[1] /\ Top \in Frame /\ 1 \in DOMAIN fileStack
  BY <1>2, TailIs DEF Top
<1>4. Top.left \in Seq(FileRefs) /\ Top.left # <<>>
  BY <1>3 DEF Frame, Looping
<1>5. /\ NextRef \in Range(Top.left) /\ Range(Tail(Top.left)) \subseteq Range(Top.left)
      /\ \A y \in Range(Top.left) : y = NextRef \/ y \in Range(Tail(Top.left))
  BY <1>4, RangeTail DEF NextRef
<1>6. NextRef \in FileRefs /\ Tail(Top.left) \in Seq(FileRefs)
  BY <1>4, TailIs DEF NextRef
<1>7. /\ Advanced \in Frame /\ Advanced.left = Tail(Top.left)
      /\ Advanced.file = Top.file /\ Advanced.how = Top.how /\ Advanced.types = Top.types
  BY <1>3, <1>6 DEF Advanced, Frame
<1> QED
  BY <1>1, <1>2, <1>3, <1>5, <1>6, <1>7

LEMMA CircularImportKeeps ==
  ASSUME PInv, CircularImport
  PROVE  PInv'
<1>1. /\ Looping /\ NextRef.file \in Stacked /\ status' = "circular"
      /\ refs' = refs
  BY DEF CircularImport
<1>2. /\ Searching(refs, visitedFiles, fileStack) /\ fileStack # <<>>
      /\ NextRef \in Range(fileStack[1].left)
  BY <1>1, LineAhead
<1>3. NextRef.file \in OnStack(fileStack)
  BY <1>1 DEF Stacked, OnStack
<1>4. Circular(refs)
  BY <1>2, <1>3, CycleFound
<1> QED
  BY <1>1, <1>4 DEF PInv, Statuses

LEMMA ParseRefKeeps ==
  ASSUME PInv, ParseRef
  PROVE  PInv'
<1>1. /\ Looping /\ NextRef.file \in IdlFiles \ visitedFiles
      /\ Enter(NextRef.file, NextRef.kind, WithTop(Advanced))
  BY DEF ParseRef
<1>2. /\ status = "parsing" /\ fileStack \in Seq(Frame) /\ fileStack # <<>>
      /\ Top = fileStack[1] /\ Advanced \in Frame /\ NextRef \in FileRefs /\ NextRef \in Range(Top.left)
      /\ Advanced.left = Tail(Top.left)
      /\ Advanced.file = Top.file /\ Advanced.how = Top.how /\ Advanced.types = Top.types
      /\ Range(Tail(Top.left)) \subseteq Range(Top.left)
      /\ \A y \in Range(Top.left) : y = NextRef \/ y \in Range(Tail(Top.left))
  BY <1>1, LineAhead
<1>3. NextRef.kind \in {"root", "import", "externIdl"}
  BY <1>1, <1>2, ParserAssumption DEF FileRefs
<1>4. PICK below : below = WithTop(Advanced)
  OBVIOUS
<1>5. /\ below \in Seq(Frame) /\ Len(below) = Len(fileStack) /\ below[1] = Advanced
      /\ \A i \in DOMAIN fileStack : i # 1 => below[i] = fileStack[i]
  BY <1>2, <1>4, TopReplaced DEF WithTop
<1>6. DOMAIN fileStack = 1 .. Len(fileStack)
  BY <1>2
<1>7. \A i \in 1 .. Len(fileStack) :
        /\ below[i].file = fileStack[i].file /\ below[i].how = fileStack[i].how
        /\ below[i].types = fileStack[i].types
        /\ i # 1 => below[i].left = fileStack[i].left
  BY <1>2, <1>5, <1>6
<1>8. Below(fileStack, below, NextRef.file, NextRef.kind)
  BY <1>2, <1>5, <1>7 DEF Below
<1> QED
  BY <1>1, <1>2, <1>3, <1>4, <1>8, EnterKeeps

LEMMA SkipVisitedKeeps ==
  ASSUME PInv, SkipVisited
  PROVE  PInv'
<1>1. /\ Looping /\ NextRef.file \in visitedFiles \ Stacked
      /\ fileStack' = WithTop(Advanced)
      /\ refs' = refs /\ visitedFiles' = visitedFiles /\ status' = status
  BY DEF SkipVisited
<1>2. /\ Searching(refs, visitedFiles, fileStack) /\ status = "parsing"
      /\ fileStack \in Seq(Frame) /\ fileStack # <<>> /\ 1 \in DOMAIN fileStack
      /\ Top = fileStack[1] /\ Advanced \in Frame /\ NextRef \in Range(Top.left)
      /\ Advanced.left = Tail(Top.left)
      /\ Advanced.file = Top.file /\ Advanced.how = Top.how /\ Advanced.types = Top.types
      /\ Range(Tail(Top.left)) \subseteq Range(Top.left)
      /\ \A y \in Range(Top.left) : y = NextRef \/ y \in Range(Tail(Top.left))
  BY <1>1, LineAhead
<1>3. /\ fileStack' \in Seq(Frame) /\ Len(fileStack') = Len(fileStack)
      /\ DOMAIN fileStack' = DOMAIN fileStack /\ fileStack'[1] = Advanced
      /\ \A i \in DOMAIN fileStack : i # 1 => fileStack'[i] = fileStack[i]
  BY <1>1, <1>2, TopReplaced DEF WithTop
<1>4. NextRef.file \in Done(visitedFiles, fileStack)
  BY <1>1 DEF Done, OnStack, Stacked
<1>5. visitedFiles' = visitedFiles \union {NextRef.file} /\ visitedFiles' \ visitedFiles = {}
  BY <1>1
<1>6. Once(Top.types)
  BY <1>2 DEF Searching, Declared
<1>7. Advances(refs, visitedFiles, fileStack, visitedFiles', fileStack')
  <2>1. /\ fileStack'[1].file = fileStack[1].file /\ fileStack'[1].how = fileStack[1].how
        /\ Range(fileStack'[1].left) \subseteq Range(fileStack[1].left)
        /\ fileStack'[1].types = fileStack[1].types
    BY <1>2, <1>3
  <2>2. LineTaken(visitedFiles, fileStack, visitedFiles', fileStack')
    <3>1. /\ NextRef \in Range(fileStack[1].left)
          /\ \A y \in Range(fileStack[1].left) : y = NextRef \/ y \in Range(fileStack'[1].left)
      BY <1>2, <1>3
    <3> QED
      BY <1>4, <1>5, <3>1 DEF LineTaken
  <2>3. /\ Once(fileStack'[1].types)
        /\ DeclFiles(fileStack'[1].types) = DeclFiles(fileStack[1].types) \union (visitedFiles' \ visitedFiles)
    BY <1>2, <1>5, <1>6, <2>1
  <2>4. Interns(refs, fileStack[1].types, fileStack[1].file)
          => Interns(refs, fileStack'[1].types, fileStack[1].file)
    BY <2>1
  <2> QED
    BY <1>2, <1>3, <2>1, <2>2, <2>3, <2>4 DEF Advances
<1>8. Searching(refs', visitedFiles', fileStack')
  BY <1>1, <1>2, <1>7, AdvanceSearching
<1> QED
  BY <1>1, <1>2, <1>8 DEF PInv, Statuses

LEMMA ParseManifestKeeps ==
  ASSUME PInv, ParseManifest
  PROVE  PInv'
<1>1. /\ Looping /\ NextRef.file \in Manifests \ visitedFiles
      /\ visitedFiles' = visitedFiles \union {NextRef.file}
  BY DEF ParseManifest
<1>2. CASE StopWith({"rejected", "aborted"})
  BY <1>2 DEF StopWith, PInv, Statuses
<1>3. CASE /\ fileStack' = WithTop([Advanced EXCEPT
                  !.types = <<[file |-> NextRef.file, as |-> "manifest"]>> \o @])
           /\ UNCHANGED <<refs, status, idl, flags>>
  <2>1. /\ Searching(refs, visitedFiles, fileStack) /\ status = "parsing"
        /\ fileStack \in Seq(Frame) /\ fileStack # <<>> /\ 1 \in DOMAIN fileStack
        /\ Top = fileStack[1] /\ Top \in Frame /\ Advanced \in Frame
        /\ NextRef \in Range(Top.left) /\ NextRef \in FileRefs
        /\ Advanced.left = Tail(Top.left)
        /\ Advanced.file = Top.file /\ Advanced.how = Top.how /\ Advanced.types = Top.types
        /\ Range(Tail(Top.left)) \subseteq Range(Top.left)
        /\ \A y \in Range(Top.left) : y = NextRef \/ y \in Range(Tail(Top.left))
    BY <1>1, LineAhead
  <2>2. PICK d \in Declaration : /\ d = [file |-> NextRef.file, as |-> "manifest"]
                                 /\ d.file = NextRef.file /\ d.as = "manifest"
    <3>1. [file |-> NextRef.file, as |-> "manifest"] \in Declaration
      BY <1>1 DEF Declaration, Files
    <3> QED
      BY <3>1
  <2>3. PICK t \in Seq(Declaration) :
          /\ t = <<d>> /\ Len(t) = 1 /\ DOMAIN t = {1} /\ t[1] = d
          /\ Once(t) /\ DeclFiles(t) = {NextRef.file}
    <3>1. <<d>> \in Seq(Declaration) /\ Len(<<d>>) = 1 /\ DOMAIN <<d>> = {1} /\ <<d>>[1] = d
      OBVIOUS
    <3>2. Once(<<d>>) /\ DeclFiles(<<d>>) = {NextRef.file}
      BY <2>2, DeclaredAlone
    <3> QED
      BY <3>1, <3>2
  <2>4. PICK u \in Seq(Declaration) : u = Top.types
    BY <2>1 DEF Frame
  <2>5. Once(u) /\ DeclFiles(u) \subseteq visitedFiles
    BY <2>1, <2>4 DEF Searching, Declared
  <2>6. PICK c \in Seq(Declaration) :
          c = t \o u /\ Once(c) /\ DeclFiles(c) = {NextRef.file} \union DeclFiles(u)
    <3>1. DeclFiles(t) \intersect DeclFiles(u) = {}
      BY <1>1, <2>3, <2>5
    <3>2. /\ t \o u \in Seq(Declaration) /\ Once(t \o u)
          /\ DeclFiles(t \o u) = {NextRef.file} \union DeclFiles(u)
      BY <2>3, <2>5, <3>1, DeclaredTogether
    <3> QED
      BY <3>2
  <2>7. \A m \in DOMAIN c : c[m].as = "intern" => \E k \in DOMAIN u : c[m] = u[k]
    <3>1. /\ Len(c) = Len(t) + Len(u)
          /\ \A m \in 1 .. Len(t) + Len(u) : c[m] = IF m <= Len(t) THEN t[m] ELSE u[m - Len(t)]
      BY <2>6, ConcatProperties
    <3>2. DOMAIN u = 1 .. Len(u) /\ DOMAIN c = 1 .. Len(c) /\ Len(u) \in Nat
      OBVIOUS
    <3> SUFFICES ASSUME NEW m \in DOMAIN c, c[m].as = "intern"
                 PROVE  \E k \in DOMAIN u : c[m] = u[k]
      OBVIOUS
    <3>3. m \in 1 .. Len(u) + 1
      BY <2>3, <3>1, <3>2
    <3>4. m # 1
      <4>1. m = 1 => c[m] = d
        BY <2>3, <3>1, <3>2
      <4> QED
        BY <2>2, <4>1
    <3>5. m - 1 \in DOMAIN u /\ c[m] = u[m - 1]
      BY <2>3, <3>1, <3>2, <3>3, <3>4
    <3> QED
      BY <3>5
  <2>8. PICK w \in Frame : /\ w = [Advanced EXCEPT !.types = c]
                           /\ w.file = Top.file /\ w.how = Top.how
                           /\ w.left = Tail(Top.left) /\ w.types = c
    <3>1. [Advanced EXCEPT !.types = c] \in Frame
      BY <2>1 DEF Frame
    <3> QED
      BY <2>1, <3>1 DEF Frame
  <2>9. fileStack' = WithTop(w)
    <3>1. c = <<[file |-> NextRef.file, as |-> "manifest"]>> \o Advanced.types
      BY <2>1, <2>2, <2>3, <2>4, <2>6
    <3> QED
      BY <1>3, <2>8, <3>1
  <2>10. /\ fileStack' \in Seq(Frame) /\ Len(fileStack') = Len(fileStack)
         /\ DOMAIN fileStack' = DOMAIN fileStack /\ fileStack'[1] = w
         /\ \A i \in DOMAIN fileStack : i # 1 => fileStack'[i] = fileStack[i]
    BY <2>1, <2>9, TopReplaced DEF WithTop
  <2>11. visitedFiles' \ visitedFiles = {NextRef.file}
    BY <1>1
  <2>12. Interns(refs, Top.types, Top.file) => Interns(refs, c, Top.file)
    BY <2>4, <2>7 DEF Interns
  <2>13. NextRef.kind = "manifest"
    BY <1>1, <2>1, ParserAssumption DEF FileRefs
  <2>14. LineTaken(visitedFiles, fileStack, visitedFiles', fileStack')
    BY <1>1, <2>1, <2>8, <2>10, <2>13 DEF LineTaken
  <2>15. Advances(refs, visitedFiles, fileStack, visitedFiles', fileStack')
    <3>1. /\ fileStack'[1].file = fileStack[1].file /\ fileStack'[1].how = fileStack[1].how
          /\ Range(fileStack'[1].left) \subseteq Range(fileStack[1].left)
          /\ fileStack'[1].types = c
      BY <2>1, <2>8, <2>10
    <3>2. /\ Once(fileStack'[1].types)
          /\ DeclFiles(fileStack'[1].types)
               = DeclFiles(fileStack[1].types) \union (visitedFiles' \ visitedFiles)
      BY <2>1, <2>4, <2>6, <2>11, <3>1
    <3>3. Interns(refs, fileStack[1].types, fileStack[1].file)
            => Interns(refs, fileStack'[1].types, fileStack[1].file)
      BY <2>1, <2>12, <3>1
    <3> QED
      BY <2>1, <2>10, <2>14, <3>1, <3>2, <3>3 DEF Advances
  <2>16. Searching(refs, visitedFiles', fileStack')
    BY <2>1, <2>15, AdvanceSearching
  <2>17. refs' = refs /\ status' = status
    BY <1>3
  <2> QED
    BY <2>1, <2>16, <2>17 DEF PInv, Statuses
<1> QED
  BY <1>2, <1>3 DEF ParseManifest

LEMMA CallerReplaced ==
  ASSUME NEW q \in Seq(Frame), Len(q) > 1, NEW w \in Frame
  PROVE  /\ <<w>> \o SubSeq(q, 3, Len(q)) \in Seq(Frame)
         /\ Len(<<w>> \o SubSeq(q, 3, Len(q))) = Len(q) - 1
         /\ DOMAIN (<<w>> \o SubSeq(q, 3, Len(q))) = 1 .. Len(q) - 1
         /\ (<<w>> \o SubSeq(q, 3, Len(q)))[1] = w
         /\ \A i \in 1 .. Len(q) - 1 : i # 1 => (<<w>> \o SubSeq(q, 3, Len(q)))[i] = q[i + 1]
<1> PICK n \in Nat : n = Len(q) /\ n > 1 /\ DOMAIN q = 1 .. n
  OBVIOUS
<1>1. PICK s \in Seq(Frame) : /\ s = SubSeq(q, 3, Len(q)) /\ Len(s) = n - 2
                              /\ \A i \in 1 .. n - 2 : s[i] = q[i + 2]
  <2>1. /\ SubSeq(q, 3, n) \in Seq(Frame) /\ Len(SubSeq(q, 3, n)) = n - 2
        /\ \A i \in 1 .. n - 2 : SubSeq(q, 3, n)[i] = q[i + 2]
    OBVIOUS
  <2> QED
    BY <2>1
<1>2. PICK c : c = <<w>> \o s
  OBVIOUS
<1>3. /\ c \in Seq(Frame) /\ Len(c) = Len(s) + 1 /\ DOMAIN c = 1 .. Len(s) + 1
      /\ c[1] = w /\ \A i \in 2 .. Len(s) + 1 : c[i] = s[i - 1]
  BY <1>2, PushIs
<1>4. Len(s) + 1 = n - 1
  BY <1>1
<1>5. \A i \in 1 .. n - 1 : i # 1 => c[i] = q[i + 1]
  <2> SUFFICES ASSUME NEW i \in 1 .. n - 1, i # 1 PROVE c[i] = q[i + 1]
    OBVIOUS
  <2>1. i \in 2 .. Len(s) + 1 /\ i - 1 \in 1 .. n - 2 /\ (i - 1) + 2 = i + 1
    BY <1>4
  <2>2. c[i] = s[i - 1] /\ s[i - 1] = q[(i - 1) + 2]
    BY <1>1, <1>3, <2>1
  <2> QED
    BY <2>1, <2>2
<1> QED
  BY <1>1, <1>2, <1>3, <1>4, <1>5

\* The activation that is done, and the one that called it.
LEMMA CallDone ==
  ASSUME PInv, Finished
  PROVE  /\ Searching(refs, visitedFiles, fileStack) /\ status = "parsing"
         /\ fileStack \in Seq(Frame) /\ fileStack # <<>> /\ 1 \in DOMAIN fileStack
         /\ Top = fileStack[1] /\ Top \in Frame /\ Top.left = <<>>
         /\ Top.types \in Seq(Declaration) /\ Once(Top.types)
         /\ Top.how # "root" => /\ Len(fileStack) > 1 /\ Caller = fileStack[2] /\ Caller \in Frame
<1>1. Searching(refs, visitedFiles, fileStack) /\ status = "parsing"
  BY DEF PInv, Finished
<1>2. fileStack \in Seq(Frame) /\ fileStack # <<>>
  BY <1>1 DEF Searching, Typed, Finished
<1>3. Top = fileStack[1] /\ Top \in Frame /\ 1 \in DOMAIN fileStack
  BY <1>2, TailIs DEF Top
<1>4. Top.types \in Seq(Declaration) /\ Once(Top.types) /\ Top.left = <<>>
  BY <1>1, <1>3 DEF Frame, Searching, Declared, Finished
<1>5. ASSUME Top.how # "root"
      PROVE  Len(fileStack) > 1 /\ Caller = fileStack[2] /\ Caller \in Frame
  <2>1. Len(fileStack) # 1
    BY <1>1, <1>3, <1>5 DEF Searching, Path
  <2>2. Len(fileStack) > 1
    <3>1. Len(fileStack) \in Nat \ {0}
      BY <1>2, EmptySeq
    <3> QED
      BY <2>1, <3>1
  <2> QED
    BY <1>2, <2>2 DEF Caller
<1> QED
  BY <1>1, <1>2, <1>3, <1>4, <1>5

LEMMA ReturnRootKeeps ==
  ASSUME PInv, ReturnRoot
  PROVE  PInv'
<1>1. /\ Finished /\ Top.how = "root" /\ status' = "parsed" /\ idl' = Top.types
      /\ refs' = refs /\ visitedFiles' = visitedFiles
  BY DEF ReturnRoot
<1>2. /\ Searching(refs, visitedFiles, fileStack) /\ fileStack # <<>>
      /\ Top = fileStack[1] /\ Top.left = <<>>
  BY <1>1, CallDone
<1>3. Returned(refs, visitedFiles, fileStack[1].types)
  BY <1>1, <1>2, SearchReturns
<1>4. Returned(refs', visitedFiles', idl')
  BY <1>1, <1>2, <1>3
<1> QED
  BY <1>1, <1>4 DEF PInv, Statuses

\* An inner call hands declarations X to its caller, and flags or none.
LEMMA ReturnToKeeps ==
  ASSUME PInv, Finished, Top.how # "root",
         NEW X \in Seq(Declaration), NEW w \in Frame, Once(X), DeclFiles(X) = DeclFiles(Top.types),
         \/ Top.how = "import" /\ X = Top.types
         \/ \A m \in DOMAIN X : X[m].as # "intern",
         w.file = Caller.file, w.how = Caller.how, w.left = Caller.left, w.types = X \o Caller.types,
         ReturnTo(w)
  PROVE  PInv'
<1>1. /\ Searching(refs, visitedFiles, fileStack) /\ status = "parsing"
      /\ fileStack \in Seq(Frame) /\ fileStack # <<>> /\ Top = fileStack[1] /\ Top.left = <<>>
      /\ Len(fileStack) > 1 /\ Caller = fileStack[2]
  BY CallDone
<1>2. /\ fileStack' = <<w>> \o SubSeq(fileStack, 3, Len(fileStack))
      /\ refs' = refs /\ visitedFiles' = visitedFiles /\ status' = status
  BY DEF ReturnTo
<1>3. /\ fileStack' \in Seq(Frame) /\ Len(fileStack') = Len(fileStack) - 1
      /\ DOMAIN fileStack' = 1 .. Len(fileStack) - 1
      /\ fileStack'[1] = w
      /\ \A i \in 1 .. Len(fileStack) - 1 : i # 1 => fileStack'[i] = fileStack[i + 1]
  BY <1>1, <1>2, CallerReplaced
<1>4. \A i \in 1 .. Len(fileStack) - 1 :
        /\ fileStack'[i].file = fileStack[i + 1].file /\ fileStack'[i].how = fileStack[i + 1].how
        /\ fileStack'[i].left = fileStack[i + 1].left
        /\ i # 1 => fileStack'[i].types = fileStack[i + 1].types
  <2> TAKE i \in 1 .. Len(fileStack) - 1
  <2>1. CASE i = 1
    BY <1>1, <1>3, <2>1
  <2>2. CASE i # 1
    BY <1>3, <2>2
  <2> QED
    BY <2>1, <2>2
<1>5. fileStack'[1].types = X \o fileStack[2].types
  BY <1>1, <1>3
<1>6. Pops(refs, visitedFiles, fileStack, fileStack', X)
  BY <1>1, <1>3, <1>4, <1>5 DEF Pops
<1>7. Searching(refs, visitedFiles, fileStack')
  BY <1>1, <1>6, PopSearching
<1> QED
  BY <1>1, <1>2, <1>7 DEF PInv, Statuses

LEMMA ReturnImportKeeps ==
  ASSUME PInv, ReturnImport
  PROVE  PInv'
<1>1. /\ Finished /\ Top.how = "import"
      /\ ReturnTo([Caller EXCEPT !.types = Top.types \o @, !.flags = Top.flags \o @])
  BY DEF ReturnImport
<1>2. /\ Top \in Frame /\ Caller \in Frame /\ Once(Top.types)
  BY <1>1, CallDone
<1>3. PICK X \in Seq(Declaration), Y \in Seq(IdlFiles) : X = Top.types /\ Y = Top.flags
  BY <1>2 DEF Frame
<1>4. PICK s \in Seq(Declaration), t \in Seq(IdlFiles) : s = Caller.types /\ t = Caller.flags
  BY <1>2 DEF Frame
<1>5. X \o s \in Seq(Declaration) /\ Y \o t \in Seq(IdlFiles)
  BY ConcatProperties
<1>6. PICK w \in Frame : /\ w = [Caller EXCEPT !.types = Top.types \o @, !.flags = Top.flags \o @]
                         /\ w.file = Caller.file /\ w.how = Caller.how /\ w.left = Caller.left
                         /\ w.types = X \o Caller.types
  <2>1. PICK a \in Seq(Declaration), b \in Seq(IdlFiles) : a = X \o s /\ b = Y \o t
    BY <1>5
  <2>2. [Caller EXCEPT !.types = a, !.flags = b] \in Frame
    BY <1>2 DEF Frame
  <2>3. [Caller EXCEPT !.types = a, !.flags = b]
          = [Caller EXCEPT !.types = Top.types \o @, !.flags = Top.flags \o @]
    BY <1>3, <1>4, <2>1
  <2>4. PICK w \in Frame : w = [Caller EXCEPT !.types = a, !.flags = b]
    BY <2>2
  <2>5. w.file = Caller.file /\ w.how = Caller.how /\ w.left = Caller.left /\ w.types = a
    BY <1>2, <2>4 DEF Frame
  <2> QED
    BY <1>4, <2>1, <2>3, <2>4, <2>5
<1>7. ReturnTo(w)
  BY <1>1, <1>6
<1> QED
  BY <1>1, <1>2, <1>3, <1>6, <1>7, ReturnToKeeps

\* What is left of the declarations of an @extern file.
LEMMA AllExtern ==
  ASSUME NEW s \in Seq(Declaration), Once(s)
  PROVE  /\ [i \in DOMAIN s |-> AsExtern(s[i])] \in Seq(Declaration)
         /\ Once([i \in DOMAIN s |-> AsExtern(s[i])])
         /\ DeclFiles([i \in DOMAIN s |-> AsExtern(s[i])]) = DeclFiles(s)
         /\ \A m \in DOMAIN s : [i \in DOMAIN s |-> AsExtern(s[i])][m].as # "intern"
<1>1. \A d \in Declaration : /\ AsExtern(d) \in Declaration /\ AsExtern(d).file = d.file
                             /\ AsExtern(d).as # "intern"
  BY DEF Declaration, AsExtern
<1>2. PICK X : X = [i \in DOMAIN s |-> AsExtern(s[i])]
  OBVIOUS
<1>3. DOMAIN X = DOMAIN s /\ \A i \in DOMAIN s : s[i] \in Declaration /\ X[i] = AsExtern(s[i])
  BY <1>2
<1>4. X \in Seq(Declaration)
  <2>1. PICK n \in Nat : DOMAIN s = 1 .. n
    OBVIOUS
  <2>2. X \in [1 .. n -> Declaration]
    BY <1>1, <1>2, <1>3, <2>1
  <2> QED
    BY <2>2
<1>5. \A i \in DOMAIN s : X[i].file = s[i].file /\ X[i].as # "intern"
  BY <1>1, <1>3
<1>6. Once(X)
  BY <1>3, <1>5 DEF Once
<1>7. DeclFiles(X) = DeclFiles(s)
  BY <1>3, <1>5 DEF DeclFiles
<1> QED
  BY <1>2, <1>4, <1>5, <1>6, <1>7

LEMMA ReturnExternKeeps ==
  ASSUME PInv, ReturnExtern
  PROVE  PInv'
<1>1. Finished /\ Top.how = "externIdl"
  BY DEF ReturnExtern
<1>2. CASE StopWith({"rejected", "aborted"})
  BY <1>2 DEF StopWith, PInv, Statuses
<1>3. CASE ReturnTo([Caller EXCEPT !.types = [i \in DOMAIN Top.types |-> AsExtern(Top.types[i])] \o @])
  <2>1. /\ Caller \in Frame /\ Top.types \in Seq(Declaration) /\ Once(Top.types)
    BY <1>1, CallDone
  <2>2. PICK X \in Seq(Declaration) :
          /\ X = [i \in DOMAIN Top.types |-> AsExtern(Top.types[i])]
          /\ Once(X) /\ DeclFiles(X) = DeclFiles(Top.types)
          /\ \A m \in DOMAIN X : X[m].as # "intern"
    BY <2>1, AllExtern
  <2>3. PICK s \in Seq(Declaration) : s = Caller.types
    BY <2>1 DEF Frame
  <2>4. PICK a \in Seq(Declaration) : a = X \o s
    BY ConcatProperties
  <2>5. PICK w \in Frame : /\ w = [Caller EXCEPT !.types = a]
                           /\ w.file = Caller.file /\ w.how = Caller.how /\ w.left = Caller.left
                           /\ w.types = a
    <3>1. PICK w \in Frame : w = [Caller EXCEPT !.types = a]
      <4>1. [Caller EXCEPT !.types = a] \in Frame
        BY <2>1 DEF Frame
      <4> QED
        BY <4>1
    <3>2. w.file = Caller.file /\ w.how = Caller.how /\ w.left = Caller.left /\ w.types = a
      BY <2>1, <3>1 DEF Frame
    <3> QED
      BY <3>1, <3>2
  <2>6. ReturnTo(w)
    <3>1. a = [i \in DOMAIN Top.types |-> AsExtern(Top.types[i])] \o Caller.types
      BY <2>2, <2>3, <2>4
    <3> QED
      BY <1>3, <2>5, <3>1
  <2>7. w.types = X \o Caller.types
    BY <2>3, <2>4, <2>5
  <2> QED
    BY <1>1, <2>2, <2>5, <2>6, <2>7, ReturnToKeeps
<1> QED
  BY <1>2, <1>3 DEF ReturnExtern

LEMMA ParserKeeps ==
  ASSUME PInv, ParserNext
  PROVE  PInv'
  BY ParseRootKeeps, CircularImportKeeps, SkipVisitedKeeps, ParseRefKeeps, ParseManifestKeeps,
     ReturnRootKeeps, ReturnImportKeeps, ReturnExternKeeps DEF ParserNext

-----------------------------------------------------------------------------
(* The run as a whole *)

TraversalInv == PInv /\ MainInv

LEMMA CompilerStarts ==
  CompilerInit => TraversalInv
<1> SUFFICES ASSUME CompilerInit PROVE TraversalInv
  OBVIOUS
<1>1. /\ refs = [f \in IdlFiles |-> <<>>] /\ visitedFiles = {} /\ fileStack = <<>>
      /\ status = "parsing" /\ stage = "arguments"
  BY DEF CompilerInit, Init
<1>2. PICK r, v, q : r = refs /\ v = visitedFiles /\ q = fileStack
  OBVIOUS
<1>3. q = <<>> /\ DOMAIN q = {} /\ Done(v, q) = {} /\ v = {}
  BY <1>1, <1>2 DEF Done
<1>4. Typed(r, v, q)
  <2>1. <<>> \in Seq(FileRefs) /\ <<>> \in Seq(Frame)
    BY EmptySeq
  <2> QED
    BY <1>1, <1>2, <2>1 DEF Typed
<1>5. Unread(r, v) /\ Led(r, v)
  BY <1>1, <1>2 DEF Unread, Led
<1>6. Path(r, v, q) /\ Named(r, v, q)
  BY <1>3 DEF Path, Named
<1>7. Acyclic(r, Done(v, q))
  BY <1>3 DEF Acyclic
<1>8. Declared(v, q) /\ Imported(r, q)
  BY <1>3 DEF Declared, Imported
<1>9. Searching(refs, visitedFiles, fileStack)
  BY <1>2, <1>4, <1>5, <1>6, <1>7, <1>8 DEF Searching
<1> QED
  BY <1>1, <1>9 DEF TraversalInv, PInv, MainInv, Parsed, Statuses

LEMMA CompilerKeeps ==
  TraversalInv /\ [CompilerNext]_vars => TraversalInv'
<1> SUFFICES ASSUME TraversalInv, [CompilerNext]_vars PROVE TraversalInv'
  OBVIOUS
<1> USE DEF TraversalInv
<1>1. CASE ParseArguments
  BY <1>1 DEF ParseArguments, PInv, MainInv, Parsed, parserVars
<1>2. CASE Parse
  <2>1. PInv' /\ stage' = "parse" /\ stage = "parse"
    BY <1>2, ParserKeeps DEF Parse
  <2> QED
    BY <2>1 DEF MainInv, Parsed
<1>3. CASE ApplyFlags
  <2>1. /\ status = "parsed" /\ status' \in {"parsed", "rejected"} /\ stage' \in {"resolve", "ended"}
        /\ refs' = refs /\ visitedFiles' = visitedFiles /\ fileStack' = fileStack /\ idl' = idl
    BY <1>3 DEF ApplyFlags
  <2>2. Returned(refs, visitedFiles, idl)
    BY <2>1 DEF PInv
  <2> QED
    BY <2>1, <2>2 DEF PInv, MainInv, Parsed, Statuses
<1>4. CASE Resolve
  <2>1. /\ stage = "resolve" /\ stage' \in {"generate", "ended"}
        /\ status' \in {status, "rejected", "aborted"}
        /\ refs' = refs /\ visitedFiles' = visitedFiles /\ fileStack' = fileStack /\ idl' = idl
    BY <1>4 DEF Resolve
  <2>2. /\ Returned(refs, visitedFiles, idl)
        /\ status \in {"parsed", "rejected", "aborted", "generated"}
    BY <2>1 DEF MainInv, Parsed
  <2> QED
    BY <2>1, <2>2 DEF PInv, MainInv, Parsed, Statuses
<1>5. CASE UNCHANGED vars
  BY <1>5 DEF vars, parserVars, PInv, MainInv, Parsed
<1> QED
  BY <1>1, <1>2, <1>3, <1>4, <1>5 DEF CompilerNext

\* What the traversal has returned is what the property asks for.
OncePerFile(r, d) ==
  \A f \in Files : Cardinality({i \in DOMAIN d : d[i].file = f})
                     = IF f \in ReachableFrom({Root}, Links(r, Kinds)) THEN 1 ELSE 0

LEMMA ReturnedIsExact ==
  ASSUME NEW r, NEW v, NEW d, Returned(r, v, d)
  PROVE  ~Circular(r) /\ Interns(r, d, Root) /\ OncePerFile(r, d)
<1>1. Interns(r, d, Root) /\ Acyclic(r, v) /\ v \subseteq Files
  BY DEF Returned
<1>2. ~Circular(r)
  <2> SUFFICES ASSUME NEW f \in IdlFiles
               PROVE  f \notin ReachableFrom(LinkedBy(r, f), Links(r, Kinds))
    BY DEF Circular
  <2>1. CASE f \in v
    <3>1. PICK S \in SUBSET v :
            f \notin S /\ LinkedBy(r, f) \subseteq S /\ Closed(S, Links(r, Kinds))
      BY <1>1, <2>1 DEF Acyclic
    <3>2. ReachableFrom(LinkedBy(r, f), Links(r, Kinds)) \subseteq S
      BY <1>1, <3>1, ReachWithin
    <3> QED
      BY <3>1, <3>2
  <2>2. CASE f \notin v
    <3>1. r[f] = <<>>
      BY <2>2 DEF Returned, Unread
    <3>2. \A g : <<f, g>> \notin Links(r, Kinds)
      BY <3>1, LinkIs DEF Range
    <3>3. LinkedBy(r, f) = {}
      BY <3>2, LinkIs
    <3>4. {} \in SUBSET Files /\ LinkedBy(r, f) \subseteq {} /\ Closed({}, Links(r, Kinds))
      BY <3>3 DEF Closed
    <3>5. ReachableFrom(LinkedBy(r, f), Links(r, Kinds)) \subseteq {}
      BY <3>4, ReachWithin
    <3> QED
      BY <3>5
  <2> QED
    BY <2>1, <2>2
<1>3. ReachableFrom({Root}, Links(r, Kinds)) = v
  <2>1. Closed(v, Links(r, Kinds))
    BY <1>1, AcyclicClosed
  <2>2. {Root} \subseteq v /\ v \in SUBSET Files
    BY DEF Returned
  <2>3. ReachableFrom({Root}, Links(r, Kinds)) \subseteq v
    BY <2>1, <2>2, ReachWithin
  <2> QED
    BY <2>3 DEF Returned, Led
<1>4. ASSUME NEW f \in Files
      PROVE  Cardinality({i \in DOMAIN d : d[i].file = f}) = IF f \in v THEN 1 ELSE 0
  <2>1. CASE f \in v
    <3>1. PICK n \in DOMAIN d : d[n].file = f
      BY <2>1 DEF Returned, DeclFiles
    <3>2. {i \in DOMAIN d : d[i].file = f} = {n}
      BY <3>1 DEF Returned, Once
    <3>3. Cardinality({n}) = 1
      BY FS_Singleton
    <3> QED
      BY <2>1, <3>2, <3>3, Zenon
  <2>2. CASE f \notin v
    <3>1. {i \in DOMAIN d : d[i].file = f} = {}
      BY <2>2 DEF Returned, DeclFiles
    <3>2. Cardinality({}) = 0
      BY FS_EmptySet
    <3> QED
      BY <2>2, <3>1, <3>2, Zenon
  <2> QED
    BY <2>1, <2>2
<1>5. OncePerFile(r, d)
  BY <1>3, <1>4 DEF OncePerFile
<1> QED
  BY <1>1, <1>2, <1>5

LEMMA TraversalHolds == TraversalInv => TraversalExact
<1> SUFFICES ASSUME TraversalInv PROVE TraversalExact
  OBVIOUS
<1>1. \A kinds : Edges(kinds) = Links(refs, kinds)
  BY DEF Edges, Links
<1>2. \A f : Successors(f) = LinkedBy(refs, f)
  BY <1>1 DEF Successors, LinkedBy
<1>3. (\E f \in IdlFiles : f \in ReachableFrom(Successors(f), Edges(Kinds))) <=> Circular(refs)
  BY <1>1, <1>2 DEF Circular
<1>4. \A kinds : Reachable(kinds) = ReachableFrom({Root}, Links(refs, kinds))
  BY <1>1 DEF Reachable
<1>5. status = "circular" => Circular(refs)
  BY DEF TraversalInv, PInv
<1>6. ASSUME Parsed
      PROVE  /\ ~Circular(refs)
             /\ \A i \in DOMAIN idl : idl[i].as = "intern" => idl[i].file \in Reachable({"import"})
             /\ \A f \in Files : Cardinality({i \in DOMAIN idl : idl[i].file = f})
                                   = IF f \in Reachable(Kinds) THEN 1 ELSE 0
  <2>1. Returned(refs, visitedFiles, idl)
    BY <1>6 DEF TraversalInv, MainInv
  <2>2. ~Circular(refs) /\ Interns(refs, idl, Root) /\ OncePerFile(refs, idl)
    BY <2>1, ReturnedIsExact
  <2>3. \A i \in DOMAIN idl : idl[i].as = "intern" => idl[i].file \in Reachable({"import"})
    BY <1>4, <2>2 DEF Interns
  <2>4. Reachable(Kinds) = ReachableFrom({Root}, Links(refs, Kinds))
    BY <1>4
  <2>5. \A f \in Files : Cardinality({i \in DOMAIN idl : idl[i].file = f})
                           = IF f \in Reachable(Kinds) THEN 1 ELSE 0
    BY <2>2, <2>4 DEF OncePerFile
  <2> QED
    BY <2>2, <2>3, <2>5
<1> QED
  BY <1>3, <1>5, <1>6 DEF TraversalExact

\* parser.scala:440-481.  When the traversal succeeds, each file that the root
\* leads to contributes its declarations exactly once, no other file does, and
\* none of them can reach itself; it aborts about a circular import only if one
\* can; and a file is left to the back ends only if a chain of @import lines
\* leads to it.  For any number of files, and of lines in them.
THEOREM TraversalIsExact == CompilerSpec => []TraversalExact
  BY TraversalHolds, CompilerStarts, CompilerKeeps, PTL DEF CompilerSpec

-----------------------------------------------------------------------------
(* Writing the files.  Whether a run lists or writes, what it has listed   *)
(* are the paths of the calls it has made, so that the list of a complete  *)
(* run depends on the calls alone.                                         *)

PathsUpTo(p, n) == [i \in 1 .. n |-> p[i].path]
Apart(paths) == \A i, j \in DOMAIN paths : SamePath(paths[i], paths[j]) => i = j
CalmUpTo(p, n) == \A i \in 1 .. n : p[i].throws = "no"

\* A reason for which a run that writes fails.
Unsound(p) ==
  \/ \E i \in DOMAIN p : p[i].throws # "no"
  \/ \E i, j \in DOMAIN p : i # j /\ SamePath(p[i].path, p[j].path)

Unstarted == stage \in {"arguments", "parse", "resolve"}

\* The calls before the next one have been made, and none of them failed.
Made(n) ==
  /\ listed = PathsUpTo(plan, n)
  /\ skip => written = <<>> /\ inventory = Unset
  /\ ~skip => /\ written = listed /\ Apart(listed) /\ CalmUpTo(plan, n)
              /\ inventory # Unset => inventory = PathsUpTo(plan, Len(plan))

WritingInv ==
  /\ plan \in Seq(Call) /\ skip \in BOOLEAN /\ next \in Nat
  /\ Unstarted => next = 0 /\ listed = <<>> /\ written = <<>> /\ inventory = Unset
  /\ stage = "generate" => next \in 1 .. Len(plan) + 1 /\ Made(next - 1)
  /\ stage = "generate" /\ ~skip /\ next > 1 => ~HeaderFolderMissing
  /\ stage = "ended" /\ status = "generated" => next = Len(plan) + 1 /\ Made(Len(plan))
  /\ stage = "ended" /\ status # "generated" /\ ~skip /\ next > 1 => Unsound(plan)

LEMMA WritingStarts == CompilerInit /\ WritingInit => WritingInv
<1> SUFFICES ASSUME CompilerInit, WritingInit PROVE WritingInv
  OBVIOUS
<1>1. /\ stage = "arguments" /\ plan = <<>> /\ next = 0 /\ skip = FALSE
      /\ listed = <<>> /\ written = <<>> /\ inventory = Unset
  BY DEF CompilerInit, WritingInit
<1>2. plan \in Seq(Call) /\ next \in Nat /\ skip \in BOOLEAN
  <2>1. <<>> \in Seq(Call)
    BY EmptySeq
  <2> QED
    BY <1>1, <2>1
<1> QED
  BY <1>1, <1>2 DEF WritingInv, Unstarted

\* One more call.
LEMMA PathsMore ==
  ASSUME NEW p \in Seq(Call), NEW n \in 1 .. Len(p)
  PROVE  PathsUpTo(p, n) = Append(PathsUpTo(p, n - 1), p[n].path)
<1>1. n \in Nat /\ n - 1 \in Nat
  OBVIOUS
<1>2. Len(PathsUpTo(p, n - 1)) = n - 1
  BY <1>1 DEF PathsUpTo
<1> QED
  BY <1>1, <1>2 DEF PathsUpTo

LEMMA StillApart ==
  ASSUME NEW p \in Seq(Call), NEW n \in 1 .. Len(p), Apart(PathsUpTo(p, n - 1)),
         \A i \in DOMAIN PathsUpTo(p, n - 1) : ~SamePath(PathsUpTo(p, n - 1)[i], p[n].path)
  PROVE  Apart(PathsUpTo(p, n))
<1>1. n \in Nat /\ DOMAIN PathsUpTo(p, n - 1) = 1 .. n - 1 /\ DOMAIN PathsUpTo(p, n) = 1 .. n
  BY DEF PathsUpTo
<1>2. \A i \in 1 .. n - 1 : PathsUpTo(p, n - 1)[i] = p[i].path
  BY <1>1 DEF PathsUpTo
<1>3. \A i \in 1 .. n : PathsUpTo(p, n)[i] = p[i].path
  BY <1>1 DEF PathsUpTo
<1>4. \A i, j \in 1 .. n - 1 : SamePath(p[i].path, p[j].path) => i = j
  BY <1>1, <1>2 DEF Apart
<1>5. \A i \in 1 .. n - 1 : ~SamePath(p[i].path, p[n].path) /\ ~SamePath(p[n].path, p[i].path)
  BY <1>1, <1>2 DEF SamePath
<1>6. \A i \in 1 .. n : i = n \/ i \in 1 .. n - 1
  BY <1>1
<1>7. \A i, j \in 1 .. n : SamePath(p[i].path, p[j].path) => i = j
  BY <1>4, <1>5, <1>6
<1> QED
  BY <1>1, <1>3, <1>7 DEF Apart

\* A call that goes on.
LEMMA CallMade ==
  ASSUME WritingInv, NEW c, Calling(c), Called, GoesOn, c.throws # "before",
         listed' = Append(listed, c.path),
         \/ skip /\ UNCHANGED written
         \/ ~skip /\ ~AlreadyWritten(c.path) /\ c.throws = "no" /\ written' = Append(written, c.path)
  PROVE  WritingInv'
<1>1. /\ stage = "generate" /\ stage' = "generate" /\ status' = status
      /\ c = plan[next] /\ next \in DOMAIN plan /\ next' = next + 1
      /\ plan' = plan /\ skip' = skip /\ inventory' = inventory /\ spec' = spec
  BY DEF Calling, Generating, Called, GoesOn, compilerVars
<1>2. /\ plan \in Seq(Call) /\ DOMAIN plan = 1 .. Len(plan) /\ Len(plan) \in Nat
      /\ next \in 1 .. Len(plan) /\ next \in Nat /\ Made(next - 1)
  BY <1>1, LenProperties DEF WritingInv
<1>3. listed' = PathsUpTo(plan, next)
  BY <1>1, <1>2, PathsMore DEF Made
<1>4. CASE skip
  <2>1. skip' /\ written' = <<>> /\ inventory' = Unset
    BY <1>1, <1>2, <1>4 DEF Made
  <2>2. Made(next - 1)' 
    BY <1>1, <1>2, <1>3, <2>1 DEF Made, PathsUpTo
  <2> QED
    BY <1>1, <1>2, <1>4, <2>2 DEF WritingInv, Unstarted
<1>5. CASE ~skip
  <2>1. /\ written = listed /\ listed = PathsUpTo(plan, next - 1) /\ Apart(listed) /\ CalmUpTo(plan, next - 1)
        /\ inventory # Unset => inventory = PathsUpTo(plan, Len(plan))
    BY <1>2, <1>5 DEF Made
  <2>2. written' = listed'
    BY <1>5, <2>1
  <2>3. Apart(listed')
    BY <1>1, <1>2, <1>3, <1>5, <2>1, StillApart DEF AlreadyWritten
  <2>4. CalmUpTo(plan, next)
    BY <1>1, <1>2, <1>5, <2>1 DEF CalmUpTo
  <2>5. ~HeaderFolderMissing /\ ~HeaderFolderMissing'
    BY <1>1, <1>5 DEF Calling, Generating, NeedsHeaderFolder, HeaderFolderMissing
  <2>6. next' - 1 = next
    BY <1>1, <1>2
  <2>7. Made(next - 1)'
    BY <1>1, <1>3, <1>5, <2>1, <2>2, <2>3, <2>4, <2>6 DEF Made
  <2> QED
    BY <1>1, <1>2, <1>5, <2>5, <2>7 DEF WritingInv, Unstarted
<1> QED
  BY <1>4, <1>5

\* A call at which the run fails.
LEMMA CallFailed ==
  ASSUME WritingInv, NEW c, Calling(c), Called, stage' = "ended", status' # "generated",
         ~skip => Unsound(plan)
  PROVE  WritingInv'
<1>1. /\ plan' = plan /\ skip' = skip /\ next' = next + 1
  BY DEF Called
<1> QED
  BY <1>1 DEF WritingInv, Unstarted, Unsound

LEMMA CreateFileKeeps ==
  ASSUME WritingInv, NEW c, CreateFile(c) PROVE WritingInv'
<1>1. CASE ListOnly(c)
  BY <1>1, CallMade DEF ListOnly
<1>2. CASE Write(c) /\ c.throws = "no"
  BY <1>2, CallMade DEF Write
<1>3. Calling(c) => next \in DOMAIN plan /\ c = plan[next] /\ stage = "generate"
  BY DEF Calling, Generating
<1>4. CASE Write(c) /\ c.throws # "no"
  <2>1. Calling(c) /\ Called /\ stage' = "ended" /\ status' = "aborted"
    BY <1>4 DEF Write, EndsWith
  <2>2. Unsound(plan)
    BY <1>3, <1>4, <2>1 DEF Unsound
  <2> QED
    BY <2>1, <2>2, CallFailed
<1>5. CASE RefuseToWrite(c)
  <2>1. /\ Calling(c) /\ Called /\ stage' = "ended" /\ status' # "generated"
        /\ ~skip /\ AlreadyWritten(c.path)
    BY <1>5 DEF RefuseToWrite, EndsWith
  <2>2. /\ plan \in Seq(Call) /\ DOMAIN plan = 1 .. Len(plan) /\ Len(plan) \in Nat
        /\ next \in 1 .. Len(plan) /\ Made(next - 1)
    BY <1>3, <2>1, LenProperties DEF WritingInv
  <2>3. written = PathsUpTo(plan, next - 1)
    BY <2>1, <2>2 DEF Made
  <2>4. PICK i \in DOMAIN written : SamePath(written[i], c.path)
    BY <2>1 DEF AlreadyWritten
  <2>5. i \in 1 .. next - 1 /\ written[i] = plan[i].path
    BY <2>3, <2>4 DEF PathsUpTo
  <2>6. i \in DOMAIN plan /\ i # next /\ SamePath(plan[i].path, plan[next].path)
    BY <1>3, <2>1, <2>2, <2>4, <2>5
  <2>7. Unsound(plan)
    BY <1>3, <2>1, <2>6 DEF Unsound
  <2> QED
    BY <2>1, <2>7, CallFailed
<1>6. CASE ThrowBefore(c)
  <2>1. Calling(c) /\ Called /\ stage' = "ended" /\ status' = "aborted" /\ c.throws = "before"
    BY <1>6 DEF ThrowBefore, EndsWith
  <2>2. Unsound(plan)
    BY <1>3, <2>1 DEF Unsound
  <2> QED
    BY <2>1, <2>2, CallFailed
<1> QED
  BY <1>1, <1>2, <1>4, <1>5, <1>6 DEF CreateFile

LEMMA WritingKeeps ==
  WritingInv /\ [WritingNext]_<<vars, writingVars>> => WritingInv'
<1> SUFFICES ASSUME WritingInv, [WritingNext]_<<vars, writingVars>> PROVE WritingInv'
  OBVIOUS
<1> USE DEF writingVars
<1>1. CASE (ParseArguments \/ Parse \/ ApplyFlags) /\ UNCHANGED writingVars
  <2>1. /\ stage \in {"arguments", "parse"}
        /\ stage' \in {"parse", "resolve", "ended"}
        /\ stage' = "ended" => status' = "rejected"
    BY <1>1 DEF ParseArguments, Parse, ApplyFlags
  <2>2. /\ plan' = plan /\ skip' = skip /\ next' = next /\ listed' = listed /\ written' = written
        /\ inventory' = inventory
    BY <1>1
  <2>3. next = 0 /\ listed = <<>> /\ written = <<>> /\ inventory = Unset
    BY <2>1 DEF WritingInv, Unstarted
  <2> QED
    BY <2>1, <2>2, <2>3 DEF WritingInv, Unstarted
<1>2. CASE StartWriting
  <2>1. /\ stage = "resolve" /\ stage' \in {"generate", "ended"}
        /\ stage' = "ended" => status' \in {"rejected", "aborted"}
        /\ plan' \in Seq(Call) /\ skip' \in BOOLEAN /\ next' = 1
        /\ listed' = <<>> /\ written' = <<>> /\ inventory' = Unset
    BY <1>2 DEF StartWriting, Resolve, WritingInv, Unstarted
  <2>2. next' \in 1 .. Len(plan') + 1 /\ PathsUpTo(plan', 0) = <<>> /\ next' - 1 = 0
    BY <2>1, LenProperties DEF PathsUpTo
  <2>3. Made(next - 1)'
    BY <2>1, <2>2 DEF Made, Apart, CalmUpTo
  <2> QED
    BY <2>1, <2>2, <2>3 DEF WritingInv, Unstarted
<1>3. CASE NoHeaderFolder
  <2>1. /\ stage = "generate" /\ stage' = "ended" /\ status' = "aborted"
        /\ plan' = plan /\ skip' = skip /\ next' = next /\ HeaderFolderMissing
    BY <1>3 DEF NoHeaderFolder
  <2> QED
    BY <2>1 DEF WritingInv, Unstarted
<1>4. CASE CreateFile(plan[next])
  BY <1>4, CreateFileKeeps
<1>5. CASE Finish
  <2>1. /\ stage = "generate" /\ stage' = "ended" /\ status' = "generated" /\ next > Len(plan)
        /\ UNCHANGED writingVars
    BY <1>5 DEF Finish, Generating, EndsWith
  <2>2. Len(plan) \in Nat /\ next = Len(plan) + 1 /\ Made(Len(plan))
    <3>1. Len(plan) \in Nat /\ next \in 1 .. Len(plan) + 1 /\ Made(next - 1)
      BY <2>1, LenProperties DEF WritingInv
    <3>2. next = Len(plan) + 1 /\ next - 1 = Len(plan)
      BY <2>1, <3>1
    <3> QED
      BY <3>1, <3>2
  <2>3. Made(Len(plan))'
    BY <2>1, <2>2 DEF Made
  <2> QED
    BY <2>1, <2>2, <2>3 DEF WritingInv, Unstarted
<1>6. CASE RunAgain
  <2>1. /\ stage = "ended" /\ status = "generated" /\ skip /\ ~skip' /\ skip' \in BOOLEAN
        /\ next' = 1 /\ inventory' = listed /\ listed' = <<>> /\ stage' = "generate"
        /\ plan' = plan /\ written' = written
    BY <1>6 DEF RunAgain
  <2>2. plan \in Seq(Call) /\ Made(Len(plan)) /\ Len(plan) \in Nat
    BY <2>1, LenProperties DEF WritingInv
  <2>3. next' \in 1 .. Len(plan') + 1 /\ PathsUpTo(plan', 0) = <<>> /\ next' - 1 = 0
    BY <2>1, <2>2 DEF PathsUpTo
  <2>4. Made(next - 1)'
    BY <2>1, <2>2, <2>3 DEF Made, Apart, CalmUpTo
  <2> QED
    BY <2>1, <2>2, <2>3, <2>4 DEF WritingInv, Unstarted
<1>7. CASE UNCHANGED <<vars, writingVars>>
  <2>1. /\ plan' = plan /\ skip' = skip /\ next' = next /\ listed' = listed /\ written' = written
        /\ inventory' = inventory /\ stage' = stage /\ status' = status /\ spec' = spec
    BY <1>7 DEF vars, parserVars
  <2>2. \A n : Made(n)' <=> Made(n)
    BY <2>1 DEF Made
  <2>3. HeaderFolderMissing' <=> HeaderFolderMissing
    BY <2>1 DEF HeaderFolderMissing
  <2> QED
    BY <2>1, <2>2, <2>3 DEF WritingInv, Unstarted
<1> QED
  BY <1>1, <1>2, <1>3, <1>4, <1>5, <1>6, <1>7 DEF WritingNext, Writing

\* ListPredictsOutput.
THEOREM ListIsExact == WritingSpec => []ListPredictsOutput
<1>1. WritingInv => ListPredictsOutput
  <2> SUFFICES ASSUME WritingInv, Written PROVE ListPredictsOutput
    BY DEF ListPredictsOutput
  <2>1. ~skip /\ Made(Len(plan))
    BY DEF Written, WritingInv
  <2>2. \A p : SamePath(p, p)
    BY DEF SamePath
  <2>3. IsInjective(written)
    BY <2>1, <2>2 DEF Made, Apart, IsInjective
  <2> QED
    BY <2>1, <2>3 DEF Made, ListPredictsOutput
<1> QED
  BY <1>1, WritingStarts, WritingKeeps, PTL DEF WritingSpec

\* GeneratedIffSound.
THEOREM FailuresShow == WritingSpec => []GeneratedIffSound
<1>1. WritingInv => GeneratedIffSound
  <2> SUFFICES ASSUME WritingInv, stage = "ended", ~skip, next > 1
               PROVE  status = "generated" <=>
                        /\ \A i \in DOMAIN plan : plan[i].throws = "no"
                        /\ \A i, j \in DOMAIN plan : SamePath(plan[i].path, plan[j].path) => i = j
    BY DEF GeneratedIffSound
  <2>1. CASE status = "generated"
    <3>1. Made(Len(plan)) /\ DOMAIN plan = 1 .. Len(plan)
      BY <2>1, LenProperties DEF WritingInv
    <3>2. Apart(PathsUpTo(plan, Len(plan))) /\ CalmUpTo(plan, Len(plan))
      BY <3>1 DEF Made
    <3> QED
      BY <2>1, <3>1, <3>2 DEF Apart, CalmUpTo, PathsUpTo
  <2>2. CASE status # "generated"
    BY <2>2 DEF WritingInv, Unsound
  <2> QED
    BY <2>1, <2>2
<1> QED
  BY <1>1, WritingStarts, WritingKeeps, PTL DEF WritingSpec

-----------------------------------------------------------------------------
(* A whole run, the files it writes included *)

\* Nothing after the resolution touches what the traversal has left.
LEMMA WritingLeavesTraversal ==
  ASSUME TraversalInv, Writing
  PROVE  TraversalInv'
<1>1. /\ refs' = refs /\ visitedFiles' = visitedFiles /\ fileStack' = fileStack /\ idl' = idl
  BY DEF Writing, NoHeaderFolder, CreateFile, ListOnly, Write, RefuseToWrite, ThrowBefore, Called,
         Finish, RunAgain, compilerVars
<1>2. /\ stage \in {"generate", "ended"} /\ stage' \in {"generate", "ended"}
      /\ status' \in {status, "parsed", "rejected", "aborted", "generated"}
  BY DEF Writing, NoHeaderFolder, CreateFile, ListOnly, Write, RefuseToWrite, ThrowBefore, Calling,
         Generating, GoesOn, EndsWith, Finish, RunAgain
<1>3. Returned(refs, visitedFiles, idl) /\ status \in {"parsed", "rejected", "aborted", "generated"}
  BY <1>2 DEF TraversalInv, MainInv, Parsed
<1> QED
  BY <1>1, <1>2, <1>3 DEF TraversalInv, PInv, MainInv, Parsed, Statuses

LEMMA WholeRunKeeps ==
  TraversalInv /\ [WritingNext]_<<vars, writingVars>> => TraversalInv'
<1> SUFFICES ASSUME TraversalInv, [WritingNext]_<<vars, writingVars>> PROVE TraversalInv'
  OBVIOUS
<1>1. CASE ParseArguments \/ Parse \/ ApplyFlags \/ StartWriting
  BY <1>1, CompilerKeeps DEF CompilerNext, StartWriting
<1>2. CASE Writing
  BY <1>2, WritingLeavesTraversal
<1>3. CASE UNCHANGED <<vars, writingVars>>
  BY <1>3, CompilerKeeps
<1> QED
  BY <1>1, <1>2, <1>3 DEF WritingNext

\* parser.scala:440-481.  TraversalExact, of runs that go on to list the files,
\* and then to write them: what they have been made from is still the result of
\* the one traversal.
THEOREM TraversalOfWholeRun == WritingSpec => []TraversalExact
  BY TraversalHolds, CompilerStarts, WholeRunKeeps, PTL DEF WritingSpec
=============================================================================
