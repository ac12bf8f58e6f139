---------------------------- MODULE CObjects_proofs ----------------------------
(***************************************************************************)
(* Proofs about CObjects for every finite set of threads and of objects,   *)
(* arrays of any length and any number of handles.  The owners of an       *)
(* object are of five sorts, each of which is counted on its own: a step   *)
(* moves owners from one sort to another, or removes one and decrements    *)
(* the count.                                                              *)
(***************************************************************************)
EXTENDS CObjects, FiniteSetTheorems, FunctionTheorems, SequenceTheorems, TLAPS

-----------------------------------------------------------------------------
(* Counting *)

\* What a call may have to do.
Steps ==
  [op : {"release"}, obj : All \union {NoObject}]
    \union [op : {"delete"}, obj : All]
    \union [op : {"store"}, obj : All, index : Slots, value : All \union {NoObject}]

\* The places of the todo lists where one of the steps W is.
PlacesOf(q) == UNION {{t} \X DOMAIN q[t] : t \in Threads}
Where(q, W) == {p \in PlacesOf(q) : q[p[1]][p[2]] \in W}
Among(s, W) == {n \in DOMAIN s : s[n] \in W}

LEMMA InPlaces ==
  ASSUME NEW q
  PROVE  /\ \A t \in Threads : \A n : <<t, n>> \in PlacesOf(q) <=> n \in DOMAIN q[t]
         /\ \A p \in PlacesOf(q) : /\ p = <<p[1], p[2]>>
                                   /\ p[1] \in Threads /\ p[2] \in DOMAIN q[p[1]]
BY DEF PlacesOf

\* Two sets with a bijection between them have the same size.
LEMMA SameSize ==
  ASSUME NEW S, NEW T, IsFiniteSet(S), NEW f \in [S -> T],
         \A x, y \in S : f[x] = f[y] => x = y,
         \A y \in T : \E x \in S : f[x] = y
  PROVE  IsFiniteSet(T) /\ Cardinality(T) = Cardinality(S)
<1>1. f \in Bijection(S, T)
  BY Fun_IsBij
<1> QED
  BY <1>1, FS_Bijection DEF ExistsBijection

\* A pair for each member of a set of positions.
LEMMA AmongFinite ==
  ASSUME NEW s \in Seq(Steps), NEW W
  PROVE  IsFiniteSet(Among(s, W)) /\ Cardinality(Among(s, W)) \in Nat
<1>1. DOMAIN s = 1 .. Len(s) /\ Len(s) \in Nat
  OBVIOUS
<1>2. IsFiniteSet(DOMAIN s)
  BY <1>1, FS_Interval
<1> QED
  BY <1>2, FS_Subset, FS_CardinalityType DEF Among

LEMMA PairUp ==
  ASSUME NEW a, NEW S, IsFiniteSet(S)
  PROVE  IsFiniteSet({a} \X S) /\ Cardinality({a} \X S) = Cardinality(S)
<1>1. Cardinality({a}) = 1 /\ IsFiniteSet({a})
  BY FS_Singleton
<1> QED
  BY <1>1, FS_Product, FS_CardinalityType

\* Two sets without a common member.
LEMMA Apart ==
  ASSUME NEW S, NEW T, IsFiniteSet(S), IsFiniteSet(T), S \intersect T = {}
  PROVE  /\ IsFiniteSet(S \union T)
         /\ Cardinality(S \union T) = Cardinality(S) + Cardinality(T)
         /\ Cardinality(S) \in Nat /\ Cardinality(T) \in Nat
  BY FS_Union, FS_EmptySet, FS_CardinalityType

\* A thread's first steps make way for others: the places of the rest move.
Replaced(q, q2, t, old, new, rest) ==
  /\ q \in [Threads -> Seq(Steps)] /\ q2 \in [Threads -> Seq(Steps)]
  /\ old \in Seq(Steps) /\ new \in Seq(Steps) /\ rest \in Seq(Steps)
  /\ q[t] = old \o rest /\ q2[t] = new \o rest
  /\ \A u \in Threads \ {t} : q2[u] = q[u]

LEMMA StepsReplaced ==
  ASSUME NEW q, NEW q2, NEW old, NEW new, NEW rest, NEW W, NEW t \in Threads,
         Replaced(q, q2, t, old, new, rest), IsFiniteSet(Where(q, W))
  PROVE  /\ IsFiniteSet(Where(q2, W))
         /\ Cardinality(Where(q2, W)) + Cardinality(Among(old, W))
              = Cardinality(Where(q, W)) + Cardinality(Among(new, W))
<1> DEFINE A == {t} \X Among(old, W)
           A2 == {t} \X Among(new, W)
           B == Where(q, W) \ A
           B2 == Where(q2, W) \ A2
           shift == Len(new) - Len(old)
           f == [p \in B |-> IF p[1] = t THEN <<t, p[2] + shift>> ELSE p]
<1>1. /\ Len(old) \in Nat /\ Len(new) \in Nat /\ Len(rest) \in Nat
      /\ DOMAIN old = 1 .. Len(old) /\ DOMAIN new = 1 .. Len(new)
      /\ DOMAIN q[t] = 1 .. Len(old) + Len(rest)
      /\ q2[t] = new \o rest
      /\ DOMAIN q2[t] = 1 .. Len(new) + Len(rest)
      /\ \A u \in Threads \ {t} : q2[u] = q[u]
  BY DEF Replaced
<1>2. /\ \A n \in DOMAIN old : q[t][n] = old[n]
      /\ \A n \in DOMAIN new : q2[t][n] = new[n]
      /\ \A n \in 1 .. Len(rest) : /\ q[t][n + Len(old)] = rest[n]
                                   /\ q2[t][n + Len(new)] = rest[n]
  BY <1>1 DEF Replaced
<1>3. \A u \in Threads : \A n :
        /\ <<u, n>> \in Where(q, W) <=> n \in DOMAIN q[u] /\ q[u][n] \in W
        /\ <<u, n>> \in Where(q2, W) <=> n \in DOMAIN q2[u] /\ q2[u][n] \in W
  BY InPlaces DEF Where
<1>4. /\ \A p \in Where(q, W) : p = <<p[1], p[2]>> /\ p[1] \in Threads /\ p[2] \in DOMAIN q[p[1]]
      /\ \A p \in Where(q2, W) : p = <<p[1], p[2]>> /\ p[1] \in Threads /\ p[2] \in DOMAIN q2[p[1]]
  BY InPlaces DEF Where
<1>5. A \subseteq Where(q, W) /\ A2 \subseteq Where(q2, W)
  <2>1. \A n \in Among(old, W) : n \in DOMAIN q[t] /\ q[t][n] \in W
    BY <1>1, <1>2 DEF Among
  <2>2. \A n \in Among(new, W) : n \in DOMAIN q2[t] /\ q2[t][n] \in W
    BY <1>1, <1>2 DEF Among
  <2>3. ASSUME NEW p \in A PROVE p \in Where(q, W)
    <3>1. PICK n \in Among(old, W) : p = <<t, n>>
      OBVIOUS
    <3> QED
      BY <1>3, <2>1, <3>1
  <2>4. ASSUME NEW p \in A2 PROVE p \in Where(q2, W)
    <3>1. PICK n \in Among(new, W) : p = <<t, n>>
      OBVIOUS
    <3> QED
      BY <1>3, <2>2, <3>1
  <2> QED
    BY <2>3, <2>4
<1>6. /\ IsFiniteSet(A) /\ Cardinality(A) = Cardinality(Among(old, W))
      /\ IsFiniteSet(A2) /\ Cardinality(A2) = Cardinality(Among(new, W))
  BY AmongFinite, PairUp DEF Replaced
<1>7. /\ IsFiniteSet(B) /\ Where(q, W) = A \union B /\ A \intersect B = {}
      /\ Where(q2, W) = A2 \union B2 /\ A2 \intersect B2 = {}
  BY <1>5, FS_Subset
<1>8. IsFiniteSet(B2) /\ Cardinality(B2) = Cardinality(B)
  <2>1. /\ \A n : <<t, n>> \in B <=> n \in DOMAIN q[t] /\ n > Len(old) /\ q[t][n] \in W
        /\ \A n : <<t, n>> \in B2 <=> n \in DOMAIN q2[t] /\ n > Len(new) /\ q2[t][n] \in W
    <3>1. /\ \A n : <<t, n>> \in A <=> n \in DOMAIN old /\ old[n] \in W
          /\ \A n : <<t, n>> \in A2 <=> n \in DOMAIN new /\ new[n] \in W
      BY DEF Among
    <3>2. /\ \A n \in DOMAIN q[t] : n \notin DOMAIN old <=> n > Len(old)
          /\ \A n \in DOMAIN q2[t] : n \notin DOMAIN new <=> n > Len(new)
      BY <1>1
    <3>3. /\ \A n \in DOMAIN old : n \in DOMAIN q[t] /\ q[t][n] = old[n]
          /\ \A n \in DOMAIN new : n \in DOMAIN q2[t] /\ q2[t][n] = new[n]
      BY <1>1, <1>2
    <3> HIDE DEF A, A2
    <3> QED
      BY <1>3, <3>1, <3>2, <3>3
  <2>2. /\ \A n : <<t, n>> \in B => n - Len(old) \in 1 .. Len(rest)
        /\ \A n : <<t, n>> \in B2 => n - Len(new) \in 1 .. Len(rest)
    <3>1. /\ \A n \in DOMAIN q[t] : n > Len(old) => n - Len(old) \in 1 .. Len(rest)
          /\ \A n \in DOMAIN q2[t] : n > Len(new) => n - Len(new) \in 1 .. Len(rest)
      BY <1>1
    <3> HIDE DEF B, B2
    <3> QED
      BY <2>1, <3>1
  <2>3. /\ \A n : <<t, n>> \in B => n \in Nat /\ <<t, n + shift>> \in B2
        /\ \A n : <<t, n>> \in B2 => n \in Nat /\ <<t, n - shift>> \in B
    <3>1. ASSUME NEW n, <<t, n>> \in B
          PROVE  n \in Nat /\ <<t, n + shift>> \in B2
      <4>1. PICK k \in 1 .. Len(rest) : k = n - Len(old)
        BY <2>2, <3>1
      <4>2. n \in Nat /\ n = k + Len(old) /\ n + shift = k + Len(new)
        BY <1>1, <2>1, <3>1, <4>1
      <4>3. q[t][n] = rest[k] /\ q2[t][n + shift] = rest[k]
        BY <1>2, <4>2
      <4>4. n + shift \in DOMAIN q2[t] /\ n + shift > Len(new)
        BY <1>1, <4>2
      <4>5. q[t][n] \in W
        BY <2>1, <3>1
      <4> HIDE DEF B, B2, shift
      <4> QED
        BY <2>1, <4>2, <4>3, <4>4, <4>5
    <3>2. ASSUME NEW n, <<t, n>> \in B2
          PROVE  n \in Nat /\ <<t, n - shift>> \in B
      <4>1. PICK k \in 1 .. Len(rest) : k = n - Len(new)
        BY <2>2, <3>2
      <4>2. n \in Nat /\ n = k + Len(new) /\ n - shift = k + Len(old)
        BY <1>1, <2>1, <3>2, <4>1
      <4>3. q2[t][n] = rest[k] /\ q[t][n - shift] = rest[k]
        BY <1>2, <4>2
      <4>4. n - shift \in DOMAIN q[t] /\ n - shift > Len(old)
        BY <1>1, <4>2
      <4>5. q2[t][n] \in W
        BY <2>1, <3>2
      <4> HIDE DEF B, B2, shift
      <4> QED
        BY <2>1, <4>2, <4>3, <4>4, <4>5
    <3> QED
      BY <3>1, <3>2
  <2>4. \A u \in Threads \ {t} : \A n : <<u, n>> \in B <=> <<u, n>> \in B2
    BY <1>1, <1>3
  <2>5. /\ \A p \in B : p = <<p[1], p[2]>> /\ p[1] \in Threads
        /\ \A p \in B2 : p = <<p[1], p[2]>> /\ p[1] \in Threads
    BY <1>4
  <2>6. shift \in Int
    BY <1>1
  <2> HIDE DEF B, B2, shift
  <2>7. f \in [B -> B2]
    <3> SUFFICES ASSUME NEW p \in B
                 PROVE  (IF p[1] = t THEN <<t, p[2] + shift>> ELSE p) \in B2
      OBVIOUS
    <3>1. CASE p[1] = t
      BY <2>3, <2>5, <3>1
    <3>2. CASE p[1] # t
      BY <2>4, <2>5, <3>2
    <3> QED
      BY <3>1, <3>2
  <2>8. \A x, y \in B : f[x] = f[y] => x = y
    <3> SUFFICES ASSUME NEW x \in B, NEW y \in B, f[x] = f[y] PROVE x = y
      OBVIOUS
    <3>1. /\ x = <<x[1], x[2]>> /\ y = <<y[1], y[2]>>
          /\ f[x] = (IF x[1] = t THEN <<t, x[2] + shift>> ELSE x)
          /\ f[y] = (IF y[1] = t THEN <<t, y[2] + shift>> ELSE y)
      BY <2>5
    <3>2. x[1] = y[1]
      BY <3>1
    <3>3. CASE x[1] = t
      <4>1. x[2] \in Nat /\ y[2] \in Nat
        BY <2>3, <3>1, <3>2, <3>3
      <4>2. x[2] + shift = y[2] + shift
        BY <3>1, <3>2, <3>3
      <4>3. x[2] = y[2]
        BY <2>6, <4>1, <4>2
      <4> QED
        BY <3>1, <3>2, <4>3
    <3>4. CASE x[1] # t
      BY <3>1, <3>2, <3>4
    <3> QED
      BY <3>3, <3>4
  <2>9. \A y \in B2 : \E x \in B : f[x] = y
    <3> SUFFICES ASSUME NEW y \in B2 PROVE \E x \in B : f[x] = y
      OBVIOUS
    <3>1. y = <<y[1], y[2]>> /\ y[1] \in Threads
      BY <2>5
    <3>2. CASE y[1] = t
      <4>1. y[2] \in Nat /\ <<t, y[2] - shift>> \in B
        BY <2>3, <3>1, <3>2
      <4>2. f[<<t, y[2] - shift>>] = <<t, (y[2] - shift) + shift>>
        BY <4>1
      <4>3. (y[2] - shift) + shift = y[2]
        BY <2>6, <4>1
      <4> QED
        BY <3>1, <3>2, <4>1, <4>2, <4>3
    <3>3. CASE y[1] # t
      <4>1. y \in B
        BY <2>4, <3>1, <3>3
      <4> QED
        BY <3>3, <4>1
    <3> QED
      BY <3>2, <3>3
  <2>10. IsFiniteSet(B)
    BY <1>7
  <2> HIDE DEF f, A, A2
  <2> QED
    BY <2>7, <2>8, <2>9, <2>10, SameSize
<1> QED
  <2> HIDE DEF A, A2, B, B2
  <2>1. /\ Cardinality(A \union B) = Cardinality(A) + Cardinality(B)
        /\ Cardinality(A) \in Nat /\ Cardinality(B) \in Nat
    BY <1>6, <1>7, Apart
  <2>2. /\ IsFiniteSet(A2 \union B2) /\ Cardinality(A2) \in Nat
        /\ Cardinality(A2 \union B2) = Cardinality(A2) + Cardinality(B2)
    BY <1>6, <1>7, <1>8, Apart
  <2>3. /\ Cardinality(Where(q, W)) = Cardinality(A \union B)
        /\ Cardinality(Where(q2, W)) = Cardinality(A2 \union B2)
        /\ IsFiniteSet(Where(q2, W)) <=> IsFiniteSet(A2 \union B2)
    BY <1>7, Zenon
  <2>4. Cardinality(B2) = Cardinality(B)
    BY <1>8
  <2>5. Cardinality(A) = Cardinality(Among(old, W)) /\ Cardinality(A2) = Cardinality(Among(new, W))
    BY <1>6
  <2> QED
    BY <2>1, <2>2, <2>3, <2>4, <2>5

-----------------------------------------------------------------------------
(* The invariant *)

Releases(o) == {s \in Steps : s.op = "release" /\ s.obj = o}
Deletes(o) == {s \in Steps : s.op = "delete" /\ s.obj = o}
Stores(a) == {s \in Steps : s.op = "store" /\ s.obj = a}
StoresAt(a, i) == {s \in Steps : s.op = "store" /\ s.obj = a /\ s.index = i}
StoresOf(o) == {s \in Steps : s.op = "store" /\ s.value = o}

\* How many of the steps W are left to do.
Left(q, W) == Cardinality(Where(q, W))

\* The handles to o.
HandlesTo(h, o) == UNION {{t} \X (1 .. h[t][o]) : t \in Threads}

One(p) == IF p THEN 1 ELSE 0

\* Slot i of a owns what it refers to, and the slots that own o: OwningSlots,
\* as a function of the state.
Holds(k, q, a, i) ==
  k[a] # "free" /\ Left(q, Deletes(a)) = 0 /\ Left(q, StoresAt(a, i)) = 0

Refers(k, s, q, a, i, o) == Holds(k, q, a, i) /\ s[a][i] = o

SlotsOf(k, s, q, o) == {x \in All \X Slots : Refers(k, s, q, x[1], x[2], o)}

CTypeOK ==
  /\ kind \in [All -> {"free", "leaf", "array", "outcome"}]
  /\ refCount \in [All -> Nat]
  /\ slot \in [All -> [Slots -> All \union {NoObject}]]
  /\ handles \in [Threads -> [All -> Nat]]
  /\ todo \in [Threads -> Seq(Steps)]
  /\ IsFiniteSet(PlacesOf(todo))
  /\ \A o \in All : IsFiniteSet(HandlesTo(handles, o))

OwnerCount(o) ==
  Cardinality(HandlesTo(handles, o)) + Cardinality(SlotsOf(kind, slot, todo, o))
    + Left(todo, Releases(o)) + Left(todo, StoresOf(o)) + One(o = EmptyArray)

CountInv == \A o \in All : refCount[o] = OwnerCount(o)

\* The count of an object is zero when it is free and while it is destroyed, by
\* one thread, and not otherwise.
LifeInv ==
  \A o \in All :
    /\ kind[o] = "free" => refCount[o] = 0 /\ Left(todo, Deletes(o)) = 0
    /\ kind[o] # "free" /\ refCount[o] = 0 => Left(todo, Deletes(o)) = 1
    /\ refCount[o] > 0 => Left(todo, Deletes(o)) = 0

\* A thread that is about to store into an array owns it, alone.
StoreInv ==
  /\ \A t \in Threads, n \in Nat :
       n \in DOMAIN todo[t] /\ todo[t][n].op = "store" => Owns(t, todo[t][n].obj)
  /\ \A a \in All : Left(todo, Stores(a)) <= 1

\* Strings, binaries and numbers refer to nothing, and nobody stores into them.
LeafInv ==
  \A o \in All : kind[o] = "leaf" =>
    Left(todo, Stores(o)) = 0 /\ \A i \in Slots : slot[o][i] = NoObject

CInv == CTypeOK /\ CountInv /\ LifeInv /\ StoreInv /\ LeafInv

-----------------------------------------------------------------------------
(* Handles *)

LEMMA HandlesPairs ==
  ASSUME NEW h, NEW o
  PROVE  /\ \A t \in Threads : \A n : <<t, n>> \in HandlesTo(h, o) <=> n \in 1 .. h[t][o]
         /\ \A p \in HandlesTo(h, o) : /\ p = <<p[1], p[2]>>
                                        /\ p[1] \in Threads /\ p[2] \in 1 .. h[p[1]][o]
  BY DEF HandlesTo

\* One handle more.
Takes(h, h2, t, o) ==
  h \in [Threads -> [All -> Nat]] /\ h2 = [h EXCEPT ![t][o] = @ + 1]

LEMMA HandleTaken ==
  ASSUME NEW h, NEW h2, NEW t \in Threads, NEW o \in All, Takes(h, h2, t, o),
         NEW x \in All, IsFiniteSet(HandlesTo(h, x))
  PROVE  /\ h2 \in [Threads -> [All -> Nat]]
         /\ IsFiniteSet(HandlesTo(h2, x))
         /\ Cardinality(HandlesTo(h2, x)) = Cardinality(HandlesTo(h, x)) + One(x = o)
<1>1. /\ h2 \in [Threads -> [All -> Nat]]
      /\ \A u \in Threads, y \in All :
           h2[u][y] = IF u = t /\ y = o THEN h[u][y] + 1 ELSE h[u][y]
  BY DEF Takes
<1>2. CASE x # o
  <2>1. HandlesTo(h2, x) = HandlesTo(h, x)
    BY <1>1, <1>2 DEF HandlesTo
  <2> QED
    BY <1>1, <1>2, <2>1, FS_CardinalityType DEF One
<1>3. CASE x = o
  <2> DEFINE n == h[t][x] + 1
  <2>0. h[t][x] \in Nat
    BY DEF Takes
  <2>1. n \in Nat /\ n \notin 1 .. h[t][x] /\ \A k : k \in 1 .. n <=> k \in 1 .. h[t][x] \/ k = n
    BY <2>0
  <2>2. HandlesTo(h2, x) = HandlesTo(h, x) \union {<<t, n>>}
    <3>1. \A u \in Threads : \A k : k \in 1 .. h2[u][x] <=> k \in 1 .. h[u][x] \/ (u = t /\ k = n)
      BY <1>1, <1>3, <2>1
    <3> HIDE DEF n
    <3>2. /\ \A q \in HandlesTo(h2, x) : q \in HandlesTo(h, x) \union {<<t, n>>}
          /\ \A q \in HandlesTo(h, x) \union {<<t, n>>} : q \in HandlesTo(h2, x)
      <4>1. ASSUME NEW q \in HandlesTo(h2, x) PROVE q \in HandlesTo(h, x) \union {<<t, n>>}
        <5>1. q = <<q[1], q[2]>> /\ q[1] \in Threads /\ q[2] \in 1 .. h2[q[1]][x]
          BY <4>1, HandlesPairs
        <5>2. q[2] \in 1 .. h[q[1]][x] \/ (q[1] = t /\ q[2] = n)
          BY <3>1, <5>1
        <5> QED
          BY <5>1, <5>2, HandlesPairs
      <4>2. ASSUME NEW q \in HandlesTo(h, x) PROVE q \in HandlesTo(h2, x)
        <5>1. PICK u \in Threads, k \in Int : k \in 1 .. h[u][x] /\ q = <<u, k>>
          BY <4>2, HandlesPairs
        <5>2. k \in 1 .. h2[u][x]
          BY <3>1, <5>1
        <5> QED
          BY <5>1, <5>2, HandlesPairs
      <4>3. <<t, n>> \in HandlesTo(h2, x)
        BY <3>1, HandlesPairs
      <4> QED
        BY <4>1, <4>2, <4>3
    <3> QED
      BY <3>2
  <2>3. <<t, n>> \notin HandlesTo(h, x)
    BY <2>1, HandlesPairs
  <2> HIDE DEF n
  <2>4. /\ IsFiniteSet(HandlesTo(h, x) \union {<<t, n>>})
        /\ Cardinality(HandlesTo(h, x) \union {<<t, n>>}) = Cardinality(HandlesTo(h, x)) + 1
    BY <2>3, FS_AddElement
  <2>5. IsFiniteSet(HandlesTo(h2, x)) /\ Cardinality(HandlesTo(h2, x)) = Cardinality(HandlesTo(h, x)) + 1
    BY <2>2, <2>4, Zenon
  <2> QED
    BY <1>1, <1>3, <2>5 DEF One
<1> QED
  BY <1>2, <1>3

\* One handle less.
Drops(h, h2, t, o) ==
  h \in [Threads -> [All -> Nat]] /\ h[t][o] > 0 /\ h2 = [h EXCEPT ![t][o] = @ - 1]

LEMMA HandleDropped ==
  ASSUME NEW h, NEW h2, NEW t \in Threads, NEW o \in All, Drops(h, h2, t, o),
         NEW x \in All, IsFiniteSet(HandlesTo(h, x))
  PROVE  /\ h2 \in [Threads -> [All -> Nat]]
         /\ IsFiniteSet(HandlesTo(h2, x))
         /\ Cardinality(HandlesTo(h, x)) = Cardinality(HandlesTo(h2, x)) + One(x = o)
<1>1. /\ h2 \in [Threads -> [All -> Nat]]
      /\ h = [h2 EXCEPT ![t][o] = @ + 1]
      /\ \A u \in Threads : h2[u][x] <= h[u][x] /\ h2[u][x] \in Nat /\ h[u][x] \in Nat
  <2>1. h[t][o] \in Nat /\ h[t][o] - 1 \in Nat
    BY DEF Drops
  <2>2. h2 \in [Threads -> [All -> Nat]]
    BY <2>1 DEF Drops
  <2>3. \A u \in Threads, y \in All :
          h2[u][y] = IF u = t /\ y = o THEN h[u][y] - 1 ELSE h[u][y]
    BY DEF Drops
  <2>4. \A u \in Threads, y \in All :
          h[u][y] = IF u = t /\ y = o THEN h2[u][y] + 1 ELSE h2[u][y]
    BY <2>1, <2>3 DEF Drops
  <2>5. h = [h2 EXCEPT ![t][o] = @ + 1]
    <3>1. [h2 EXCEPT ![t][o] = @ + 1] \in [Threads -> [All -> Nat]]
      BY <2>2
    <3>2. \A u \in Threads : h[u] = [h2 EXCEPT ![t][o] = @ + 1][u]
      <4> SUFFICES ASSUME NEW u \in Threads PROVE h[u] = [h2 EXCEPT ![t][o] = @ + 1][u]
        OBVIOUS
      <4>1. h[u] \in [All -> Nat] /\ [h2 EXCEPT ![t][o] = @ + 1][u] \in [All -> Nat]
        BY <3>1 DEF Drops
      <4>2. \A y \in All : h[u][y] = [h2 EXCEPT ![t][o] = @ + 1][u][y]
        BY <2>2, <2>4
      <4> QED
        BY <4>1, <4>2
    <3> QED
      BY <3>1, <3>2 DEF Drops
  <2>6. \A u \in Threads : h2[u][x] <= h[u][x] /\ h2[u][x] \in Nat /\ h[u][x] \in Nat
    BY <2>2, <2>4 DEF Drops
  <2> QED
    BY <2>2, <2>5, <2>6
<1>2. IsFiniteSet(HandlesTo(h2, x))
  <2>2. \A u \in Threads : \A k : k \in 1 .. h2[u][x] => k \in 1 .. h[u][x]
    BY <1>1
  <2>3. ASSUME NEW q \in HandlesTo(h2, x) PROVE q \in HandlesTo(h, x)
    <3>1. q = <<q[1], q[2]>> /\ q[1] \in Threads /\ q[2] \in 1 .. h2[q[1]][x]
      BY HandlesPairs
    <3> QED
      BY <2>2, <3>1, HandlesPairs
  <2> QED
    BY <2>3, FS_Subset
<1>3. Takes(h2, h, t, o)
  BY <1>1 DEF Takes
<1> QED
  BY <1>1, <1>2, <1>3, HandleTaken

-----------------------------------------------------------------------------
(* Steps *)

\* Any part of finitely many steps is finite.
LEMMA WhereFinite ==
  ASSUME NEW q, IsFiniteSet(PlacesOf(q)), NEW W
  PROVE  IsFiniteSet(Where(q, W)) /\ Left(q, W) \in Nat
  BY FS_Subset, FS_CardinalityType DEF Where, Left

\* A place with one of the steps W is a step left of them.
LEMMA SomeLeft ==
  ASSUME NEW q \in [Threads -> Seq(Steps)], IsFiniteSet(PlacesOf(q)), NEW W
  PROVE  /\ Left(q, W) = 0 <=> \A t \in Threads, n \in Nat : n \in DOMAIN q[t] => q[t][n] \notin W
         /\ Left(q, W) = 0 <=> Where(q, W) = {}
         /\ \A V : W \subseteq V => Left(q, W) <= Left(q, V)
<1>1. IsFiniteSet(Where(q, W)) /\ Left(q, W) \in Nat
  BY WhereFinite
<1>2. Left(q, W) = 0 <=> Where(q, W) = {}
  BY <1>1, FS_EmptySet DEF Left
<1>3. Where(q, W) = {} <=> \A t \in Threads, n \in Nat : n \in DOMAIN q[t] => q[t][n] \notin W
  <2>1. ASSUME NEW p \in Where(q, W)
        PROVE  \E t \in Threads, n \in Nat : n \in DOMAIN q[t] /\ q[t][n] \in W
    <3>1. p[1] \in Threads /\ p[2] \in DOMAIN q[p[1]] /\ q[p[1]][p[2]] \in W
      BY InPlaces DEF Where
    <3>2. p[2] \in Nat
      BY <3>1
    <3> QED
      BY <3>1, <3>2
  <2>2. ASSUME NEW t \in Threads, NEW n \in DOMAIN q[t], q[t][n] \in W PROVE <<t, n>> \in Where(q, W)
    BY <2>2, InPlaces DEF Where
  <2> QED
    BY <2>1, <2>2
<1>4. ASSUME NEW V, W \subseteq V PROVE Left(q, W) <= Left(q, V)
  <2>1. Where(q, W) \subseteq Where(q, V)
    BY <1>4 DEF Where
  <2> QED
    BY <2>1, WhereFinite, FS_Subset DEF Left
<1> QED
  BY <1>2, <1>3, <1>4

LEMMA AllPlaces ==
  ASSUME NEW q \in [Threads -> Seq(Steps)]
  PROVE  PlacesOf(q) = Where(q, Steps)
<1>1. \A t \in Threads : \A n \in DOMAIN q[t] : q[t][n] \in Steps
  OBVIOUS
<1> QED
  BY <1>1, InPlaces DEF Where

\* A list of no step, or of one.
LEMMA AmongOne ==
  ASSUME NEW W
  PROVE  /\ Cardinality(Among(<<>>, W)) = 0
         /\ \A s : Cardinality(Among(<<s>>, W)) = One(s \in W)
<1>1. Among(<<>>, W) = {}
  BY DEF Among
<1>2. ASSUME NEW s PROVE Among(<<s>>, W) = IF s \in W THEN {1} ELSE {}
  BY DEF Among
<1> QED
  BY <1>1, <1>2, FS_EmptySet, FS_Singleton DEF One

\* The steps of a call are added to those left.
Begins(q, q2, t, new) ==
  /\ q \in [Threads -> Seq(Steps)] /\ IsFiniteSet(PlacesOf(q)) /\ new \in Seq(Steps)
  /\ q[t] = <<>> /\ q2 = [q EXCEPT ![t] = new]

LEMMA StepsBegun ==
  ASSUME NEW q, NEW q2, NEW new, NEW W, NEW t \in Threads, Begins(q, q2, t, new)
  PROVE  /\ q2 \in [Threads -> Seq(Steps)] /\ IsFiniteSet(PlacesOf(q2))
         /\ Left(q2, W) = Left(q, W) + Cardinality(Among(new, W))
<1>1. PICK none \in Seq(Steps) : none = <<>> /\ q[t] = none \o none /\ new = new \o none
  <2>1. <<>> \in Seq(Steps) /\ q[t] = <<>> \o <<>> /\ new = new \o <<>>
    BY DEF Begins
  <2> QED
    BY <2>1
<1>2. ASSUME NEW V
      PROVE  /\ IsFiniteSet(Where(q2, V))
             /\ Left(q2, V) = Left(q, V) + Cardinality(Among(new, V))
  <2>1. IsFiniteSet(Where(q, V))
    BY WhereFinite DEF Begins
  <2>2. Replaced(q, q2, t, none, new, none)
    BY <1>1 DEF Replaced, Begins
  <2>3. /\ IsFiniteSet(Where(q2, V))
        /\ Cardinality(Where(q2, V)) + Cardinality(Among(none, V))
             = Cardinality(Where(q, V)) + Cardinality(Among(new, V))
    BY <2>1, <2>2, StepsReplaced
  <2>4. Cardinality(Where(q2, V)) \in Nat /\ Cardinality(Among(none, V)) = 0
    BY <1>1, <2>3, FS_CardinalityType, AmongOne
  <2> QED
    BY <2>3, <2>4 DEF Left
<1>3. q2 \in [Threads -> Seq(Steps)]
  BY DEF Begins
<1> QED
  BY <1>2, <1>3, AllPlaces

\* The first step of a thread is done, and others take its place.
Advances(q, q2, t, s, new) ==
  /\ q \in [Threads -> Seq(Steps)] /\ IsFiniteSet(PlacesOf(q)) /\ new \in Seq(Steps)
  /\ q[t] # <<>> /\ s = Head(q[t]) /\ q2 = [q EXCEPT ![t] = new \o Tail(q[t])]

LEMMA StepDone ==
  ASSUME NEW q, NEW q2, NEW s, NEW new, NEW W, NEW t \in Threads, Advances(q, q2, t, s, new)
  PROVE  /\ q2 \in [Threads -> Seq(Steps)] /\ IsFiniteSet(PlacesOf(q2))
         /\ Left(q2, W) + One(s \in W) = Left(q, W) + Cardinality(Among(new, W))
<1>1. PICK first \in Seq(Steps), rest \in Seq(Steps) :
        first = <<s>> /\ rest = Tail(q[t]) /\ q[t] = first \o rest
  <2>1. /\ <<s>> \in Seq(Steps) /\ Tail(q[t]) \in Seq(Steps)
        /\ q[t] = <<s>> \o Tail(q[t])
    BY DEF Advances
  <2> QED
    BY <2>1
<1>2. ASSUME NEW V
      PROVE  /\ IsFiniteSet(Where(q2, V))
             /\ Left(q2, V) + One(s \in V) = Left(q, V) + Cardinality(Among(new, V))
  <2>1. IsFiniteSet(Where(q, V))
    BY WhereFinite DEF Advances
  <2>2. Replaced(q, q2, t, first, new, rest)
    BY <1>1 DEF Replaced, Advances
  <2>3. /\ IsFiniteSet(Where(q2, V))
        /\ Cardinality(Where(q2, V)) + Cardinality(Among(first, V))
             = Cardinality(Where(q, V)) + Cardinality(Among(new, V))
    BY <2>1, <2>2, StepsReplaced
  <2> QED
    BY <1>1, <2>3, AmongOne DEF Left
<1>3. q2 \in [Threads -> Seq(Steps)]
  BY <1>1 DEF Advances
<1> QED
  BY <1>2, <1>3, AllPlaces

-----------------------------------------------------------------------------
(* Slots *)

LEMMA SlotsFinite ==
  ASSUME NEW k, NEW s, NEW q, NEW o
  PROVE  IsFiniteSet(SlotsOf(k, s, q, o)) /\ Cardinality(SlotsOf(k, s, q, o)) \in Nat
<1>1. IsFiniteSet(All)
  BY ObjectsAssumption, FS_AddElement DEF All
<1>2. IsFiniteSet(Slots)
  BY ObjectsAssumption, FS_Interval DEF Slots
<1>3. IsFiniteSet(All \X Slots)
  BY <1>1, <1>2, FS_Product
<1> QED
  BY <1>3, FS_Subset, FS_CardinalityType DEF SlotsOf

LEMMA SlotsPairs ==
  ASSUME NEW k, NEW s, NEW q, NEW o
  PROVE  /\ \A a \in All, i \in Slots :
              <<a, i>> \in SlotsOf(k, s, q, o) <=> Refers(k, s, q, a, i, o)
         /\ \A x \in SlotsOf(k, s, q, o) : x = <<x[1], x[2]>> /\ x[1] \in All /\ x[2] \in Slots
  BY DEF SlotsOf

\* The slots that own o stay the same, and one joins or leaves them.
Same(k, s, q, k2, s2, q2, o) ==
  \A a \in All, i \in Slots : Refers(k2, s2, q2, a, i, o) <=> Refers(k, s, q, a, i, o)

LEMMA SlotsSame ==
  ASSUME NEW k, NEW s, NEW q, NEW o, NEW k2, NEW s2, NEW q2,
         Same(k, s, q, k2, s2, q2, o)
  PROVE  Cardinality(SlotsOf(k2, s2, q2, o)) = Cardinality(SlotsOf(k, s, q, o))
<1>1. SlotsOf(k2, s2, q2, o) = SlotsOf(k, s, q, o)
  BY DEF SlotsOf, Same
<1> QED
  BY <1>1

Joins(k, s, q, k2, s2, q2, a, i, o) ==
  /\ ~Refers(k, s, q, a, i, o) /\ Refers(k2, s2, q2, a, i, o)
  /\ \A b \in All, j \in Slots : <<b, j>> # <<a, i>> =>
       (Refers(k2, s2, q2, b, j, o) <=> Refers(k, s, q, b, j, o))

LEMMA SlotJoins ==
  ASSUME NEW k, NEW s, NEW q, NEW o, NEW k2, NEW s2, NEW q2, NEW a \in All, NEW i \in Slots,
         Joins(k, s, q, k2, s2, q2, a, i, o)
  PROVE  Cardinality(SlotsOf(k2, s2, q2, o)) = Cardinality(SlotsOf(k, s, q, o)) + 1
<1> DEFINE S == SlotsOf(k, s, q, o)
           S2 == SlotsOf(k2, s2, q2, o)
<1>1. <<a, i>> \notin S
  BY SlotsPairs DEF Joins
<1>2. S2 = S \union {<<a, i>>}
  <2>1. ASSUME NEW x \in S2 PROVE x \in S \union {<<a, i>>}
    <3>1. PICK b \in All, j \in Slots : x = <<b, j>>
      BY <2>1, SlotsPairs
    <3> QED
      BY <2>1, <3>1, SlotsPairs DEF Joins
  <2>2. ASSUME NEW x \in S PROVE x \in S2
    <3>1. PICK b \in All, j \in Slots : x = <<b, j>>
      BY <2>2, SlotsPairs
    <3> QED
      BY <1>1, <2>2, <3>1, SlotsPairs DEF Joins
  <2>3. <<a, i>> \in S2
    BY SlotsPairs DEF Joins
  <2> HIDE DEF S, S2
  <2> QED
    BY <2>1, <2>2, <2>3
<1>3. IsFiniteSet(S)
  BY SlotsFinite
<1> HIDE DEF S, S2
<1>4. Cardinality(S \union {<<a, i>>}) = Cardinality(S) + 1
  BY <1>1, <1>3, FS_AddElement
<1> QED
  BY <1>2, <1>4, Zenon DEF S, S2

LEMMA SlotLeaves ==
  ASSUME NEW k, NEW s, NEW q, NEW o, NEW k2, NEW s2, NEW q2, NEW a \in All, NEW i \in Slots,
         Joins(k2, s2, q2, k, s, q, a, i, o)
  PROVE  Cardinality(SlotsOf(k, s, q, o)) = Cardinality(SlotsOf(k2, s2, q2, o)) + 1
  BY SlotJoins

-----------------------------------------------------------------------------
(* What the invariant says of an object *)

LEMMA CountsNat ==
  ASSUME CTypeOK, NEW o \in All
  PROVE  /\ Cardinality(HandlesTo(handles, o)) \in Nat
         /\ Cardinality(SlotsOf(kind, slot, todo, o)) \in Nat
         /\ \A W : Left(todo, W) \in Nat
         /\ One(o = EmptyArray) \in Nat
         /\ refCount[o] \in Nat
  BY FS_CardinalityType, SlotsFinite, WhereFinite DEF CTypeOK, One

\* What a thread owns is alive.
LEMMA OwnedAlive ==
  ASSUME CInv, NEW t \in Threads, NEW o \in All, Owns(t, o)
  PROVE  refCount[o] > 0 /\ kind[o] # "free" /\ Left(todo, Deletes(o)) = 0
<1>1. <<t, 1>> \in HandlesTo(handles, o)
  <2>1. handles[t][o] \in Nat /\ handles[t][o] > 0
    BY DEF CInv, CTypeOK, Owns
  <2> QED
    BY <2>1, HandlesPairs
<1>2. Cardinality(HandlesTo(handles, o)) # 0
  BY <1>1, FS_EmptySet DEF CInv, CTypeOK
<1>3. refCount[o] > 0
  BY <1>2, CountsNat DEF CInv, CountInv, OwnerCount
<1> QED
  BY <1>3 DEF CInv, LifeInv

\* Nobody is about to store into an array that nobody owns.
LEMMA NoStores ==
  ASSUME CInv, NEW a \in All, \A t \in Threads : ~Owns(t, a)
  PROVE  Left(todo, Stores(a)) = 0 /\ \A i : Left(todo, StoresAt(a, i)) = 0
<1>1. Left(todo, Stores(a)) = 0
  <2>1. \A t \in Threads, n \in Nat : n \in DOMAIN todo[t] => todo[t][n] \notin Stores(a)
    BY DEF CInv, StoreInv, Stores
  <2> QED
    BY <2>1, SomeLeft DEF CInv, CTypeOK
<1>2. \A i : StoresAt(a, i) \subseteq Stores(a)
  BY DEF Stores, StoresAt
<1>3. \A i : Left(todo, StoresAt(a, i)) <= 0 /\ Left(todo, StoresAt(a, i)) \in Nat
  BY <1>1, <1>2, SomeLeft, WhereFinite DEF CInv, CTypeOK
<1> QED
  BY <1>1, <1>3

\* Nobody owns an object whose count is zero.
LEMMA Unowned ==
  ASSUME CInv, NEW a \in All, refCount[a] = 0
  PROVE  /\ \A t \in Threads : ~Owns(t, a)
         /\ Left(todo, Stores(a)) = 0 /\ \A i : Left(todo, StoresAt(a, i)) = 0
<1>1. \A t \in Threads : ~Owns(t, a)
  BY OwnedAlive
<1> QED
  BY <1>1, NoStores

\* What a slot owns is alive.
LEMMA SlotAlive ==
  ASSUME CInv, NEW a \in All, NEW i \in Slots, NEW o \in All,
         Holds(kind, todo, a, i), slot[a][i] = o
  PROVE  refCount[o] > 0
<1>1. <<a, i>> \in SlotsOf(kind, slot, todo, o)
  BY SlotsPairs DEF Refers
<1>2. Cardinality(SlotsOf(kind, slot, todo, o)) # 0
  BY <1>1, SlotsFinite, FS_EmptySet
<1>3. /\ Cardinality(HandlesTo(handles, o)) \in Nat
      /\ Cardinality(SlotsOf(kind, slot, todo, o)) \in Nat
      /\ Left(todo, Releases(o)) \in Nat /\ Left(todo, StoresOf(o)) \in Nat
      /\ One(o = EmptyArray) \in Nat
  BY CountsNat DEF CInv
<1>4. refCount[o] = OwnerCount(o)
  BY DEF CInv, CountInv
<1> QED
  BY <1>2, <1>3, <1>4 DEF OwnerCount

LEMMA EmptyArrayAlive ==
  ASSUME CInv
  PROVE  refCount[EmptyArray] > 0
<1>1. EmptyArray \in All
  BY DEF All
<1>2. /\ Cardinality(HandlesTo(handles, EmptyArray)) \in Nat
      /\ Cardinality(SlotsOf(kind, slot, todo, EmptyArray)) \in Nat
      /\ Left(todo, Releases(EmptyArray)) \in Nat /\ Left(todo, StoresOf(EmptyArray)) \in Nat
  BY <1>1, CountsNat DEF CInv
<1>3. refCount[EmptyArray] = OwnerCount(EmptyArray)
  BY <1>1 DEF CInv, CountInv
<1> QED
  BY <1>2, <1>3 DEF OwnerCount, One

-----------------------------------------------------------------------------
(* Calls *)

\* The first state.
LEMMA InitCInv == Init => CInv
<1> SUFFICES ASSUME Init PROVE CInv
  OBVIOUS
<1>1. \A o \in All : HandlesTo(handles, o) = {}
  BY DEF Init, HandlesTo
<1>2. PlacesOf(todo) = {} /\ \A W : Where(todo, W) = {}
  BY DEF Init, PlacesOf, Where
<1>3. IsFiniteSet({}) /\ Cardinality({}) = 0
  BY FS_EmptySet
<1>4. CTypeOK
  <2>1. /\ kind \in [All -> {"free", "leaf", "array", "outcome"}]
        /\ refCount \in [All -> Nat] /\ slot \in [All -> [Slots -> All \union {NoObject}]]
    BY DEF Init
  <2>2. handles \in [Threads -> [All -> Nat]] /\ todo \in [Threads -> Seq(Steps)]
    BY DEF Init
  <2> QED
    BY <1>1, <1>2, <1>3, <2>1, <2>2 DEF CTypeOK
<1>5. \A W : Left(todo, W) = 0
  BY <1>2, <1>3 DEF Left
<1>6. \A o \in All : SlotsOf(kind, slot, todo, o) = {}
  BY ObjectsAssumption DEF Init, SlotsOf, Refers, All
<1>7. CountInv
  <2> SUFFICES ASSUME NEW o \in All PROVE refCount[o] = OwnerCount(o)
    BY DEF CountInv
  <2>1. refCount[o] = One(o = EmptyArray)
    BY DEF Init, One
  <2>2. OwnerCount(o) = 0 + 0 + 0 + 0 + One(o = EmptyArray) /\ One(o = EmptyArray) \in Nat
    BY <1>1, <1>3, <1>5, <1>6 DEF OwnerCount, One
  <2> QED
    BY <2>1, <2>2
<1>8. LifeInv
  BY <1>5 DEF Init, LifeInv
<1>9. StoreInv /\ LeafInv
  BY <1>5 DEF Init, StoreInv, LeafInv
<1> QED
  BY <1>4, <1>7, <1>8, <1>9 DEF CInv

\* A thread gets a further handle to an object that is alive.
LEMMA SharedMore ==
  ASSUME CInv, NEW t \in Threads, NEW o \in All, refCount[o] > 0,
         handles' = [handles EXCEPT ![t][o] = @ + 1], refCount' = [refCount EXCEPT ![o] = @ + 1],
         UNCHANGED <<kind, slot, todo>>
  PROVE  CInv'
<1>0. Takes(handles, handles', t, o)
  BY DEF Takes, CInv, CTypeOK
<1>1. CTypeOK'
  BY <1>0, HandleTaken DEF CInv, CTypeOK
<1>2. \A x \in All : refCount'[x] = refCount[x] + One(x = o)
  BY DEF CInv, CTypeOK, One
<1>3. CountInv'
  <2> SUFFICES ASSUME NEW x \in All PROVE refCount'[x] = OwnerCount(x)'
    BY DEF CountInv
  <2>1. Cardinality(HandlesTo(handles', x)) = Cardinality(HandlesTo(handles, x)) + One(x = o)
    BY <1>0, HandleTaken DEF CInv, CTypeOK
  <2>2. /\ Cardinality(HandlesTo(handles, x)) \in Nat
        /\ Cardinality(SlotsOf(kind, slot, todo, x)) \in Nat
        /\ Left(todo, Releases(x)) \in Nat /\ Left(todo, StoresOf(x)) \in Nat
        /\ One(x = EmptyArray) \in Nat /\ One(x = o) \in Nat
    BY CountsNat DEF CInv, One
  <2>3. refCount[x] = OwnerCount(x)
    BY DEF CInv, CountInv
  <2> QED
    BY <1>2, <2>1, <2>2, <2>3 DEF OwnerCount
<1>4. LifeInv'
  BY <1>2 DEF CInv, CTypeOK, LifeInv, One
<1>5. StoreInv'
  <2>1. \A u \in Threads, x \in All : Owns(u, x) => Owns(u, x)'
    BY DEF CInv, CTypeOK, Owns
  <2>2. \A u \in Threads, n \in Nat : n \in DOMAIN todo[u] /\ todo[u][n].op = "store" =>
          todo[u][n].obj \in All
    BY DEF CInv, CTypeOK, Steps
  <2> QED
    BY <2>1, <2>2 DEF CInv, StoreInv
<1>6. LeafInv'
  BY DEF CInv, LeafInv
<1> QED
  BY <1>1, <1>3, <1>4, <1>5, <1>6 DEF CInv

LEMMA NewEmptyArrayStep ==
  ASSUME CInv, NEW t \in Threads, NewEmptyArray(t)
  PROVE  CInv'
<1>1. EmptyArray \in All /\ EmptyArray # NoObject
  BY ObjectsAssumption DEF All
<1> QED
  BY <1>1, EmptyArrayAlive, SharedMore DEF NewEmptyArray, TakeHandle, Retained

LEMMA RetainStep ==
  ASSUME CInv, NEW t \in Threads, NEW o \in All, Retain(t, o)
  PROVE  CInv'
<1>1. o # NoObject
  BY ObjectsAssumption DEF All
<1>2. refCount[o] > 0
  BY OwnedAlive DEF Retain
<1> QED
  BY <1>1, <1>2, SharedMore DEF Retain, TakeHandle, Retained

\* What a thread gets out of an array that it owns, and that nobody is storing
\* into, is alive.
LEMMA NoStoreUnderWay ==
  ASSUME CInv, NEW t \in Threads, NEW a \in All, Idle(t), Unshared(t, a)
  PROVE  Left(todo, Stores(a)) = 0 /\ \A i : Left(todo, StoresAt(a, i)) = 0
<1>1. \A u \in Threads, n \in Nat : n \in DOMAIN todo[u] => todo[u][n] \notin Stores(a)
  BY DEF Idle, Unshared, Stores
<1>2. Left(todo, Stores(a)) = 0
  BY <1>1, SomeLeft DEF CInv, CTypeOK
<1>3. \A i : StoresAt(a, i) \subseteq Stores(a)
  BY DEF Stores, StoresAt
<1>4. \A i : Left(todo, StoresAt(a, i)) <= 0 /\ Left(todo, StoresAt(a, i)) \in Nat
  BY <1>2, <1>3, SomeLeft, WhereFinite DEF CInv, CTypeOK
<1> QED
  BY <1>2, <1>4

LEMMA GetStep ==
  ASSUME CInv, NEW t \in Threads, NEW a \in All, NEW i \in Slots, Get(t, a, i)
  PROVE  CInv'
<1>1. PICK v \in All : v = slot[a][i] /\ v # NoObject
  BY DEF Get, CInv, CTypeOK
<1>2. Holds(kind, todo, a, i)
  BY OwnedAlive, NoStoreUnderWay DEF Get, Holds
<1>3. refCount[v] > 0
  BY <1>1, <1>2, SlotAlive
<1> QED
  BY <1>1, <1>3, SharedMore DEF Get, TakeHandle, Retained

\* The program passes a handle on.
LEMMA PassOnStep ==
  ASSUME CInv, NEW t \in Threads, NEW u \in Threads \ {t}, NEW o \in All, PassOn(t, u, o)
  PROVE  CInv'
<1> DEFINE h == [handles EXCEPT ![t][o] = @ - 1]
<1>1. handles[t][o] > 0 /\ handles \in [Threads -> [All -> Nat]]
      /\ \A x \in All : IsFiniteSet(HandlesTo(handles, x))
  BY DEF CInv, CTypeOK, PassOn, Owns
<1>2. /\ h \in [Threads -> [All -> Nat]]
      /\ \A x \in All : /\ IsFiniteSet(HandlesTo(h, x))
                        /\ Cardinality(HandlesTo(handles, x)) = Cardinality(HandlesTo(h, x)) + One(x = o)
  <2>1. Drops(handles, h, t, o)
    BY <1>1 DEF Drops
  <2> QED
    BY <1>1, <2>1, HandleDropped
<1>3. handles' = [h EXCEPT ![u][o] = @ + 1]
  BY <1>1 DEF PassOn
<1>4. \A x \in All, w \in Threads \ {t} : handles'[w][x] >= handles[w][x]
  BY <1>1 DEF PassOn
<1> HIDE DEF h
<1>5. /\ handles' \in [Threads -> [All -> Nat]]
      /\ \A x \in All : /\ IsFiniteSet(HandlesTo(handles', x))
                        /\ Cardinality(HandlesTo(handles', x)) = Cardinality(HandlesTo(h, x)) + One(x = o)
  <2>1. Takes(h, handles', u, o)
    BY <1>2, <1>3 DEF Takes
  <2> QED
    BY <1>2, <1>3, <2>1, HandleTaken
<1>6. UNCHANGED <<kind, refCount, slot, todo>> /\ todo[t] = <<>>
  BY DEF PassOn, Idle
<1>7. CTypeOK'
  BY <1>5, <1>6 DEF CInv, CTypeOK
<1>8. CountInv'
  <2>1. \A x \in All : Cardinality(HandlesTo(handles', x)) = Cardinality(HandlesTo(handles, x))
    BY <1>2, <1>5
  <2> QED
    BY <1>6, <2>1 DEF CInv, CountInv, OwnerCount
<1>9. StoreInv'
  <2>1. \A w \in Threads, n \in Nat : n \in DOMAIN todo[w] => w # t
    BY <1>6
  <2>2. \A w \in Threads, n \in Nat : n \in DOMAIN todo[w] /\ todo[w][n].op = "store" =>
          todo[w][n].obj \in All
    BY DEF CInv, CTypeOK, Steps
  <2>3. \A w \in Threads \ {t}, x \in All : Owns(w, x) => Owns(w, x)'
    BY <1>1, <1>4, <1>5 DEF Owns
  <2> QED
    BY <1>6, <2>1, <2>2, <2>3 DEF CInv, StoreInv
<1>10. LifeInv' /\ LeafInv'
  BY <1>6 DEF CInv, LifeInv, LeafInv
<1> QED
  BY <1>7, <1>8, <1>9, <1>10 DEF CInv

\* A new object has one handle, and nothing in its slots, but for what its maker
\* puts into the first one of an outcome.
LEMMA NewObject ==
  ASSUME CInv, NEW t \in Threads, NEW o \in Objects, kind[o] = "free",
         NEW k \in {"leaf", "array", "outcome"}, NEW v \in All \union {NoObject},
         k = "leaf" => v = NoObject, v # NoObject => refCount[v] > 0,
         kind' = [kind EXCEPT ![o] = k],
         refCount' = Retained([refCount EXCEPT ![o] = 1], v),
         slot' = [slot EXCEPT ![o] = [i \in Slots |-> IF i = 1 THEN v ELSE NoObject]],
         handles' = [handles EXCEPT ![t][o] = @ + 1], UNCHANGED todo
  PROVE  CInv'
<1>0. /\ o \in All /\ NoObject \notin All /\ 1 \in Slots
      /\ refCount[o] = 0 /\ Left(todo, Deletes(o)) = 0
      /\ v # o
  BY ObjectsAssumption DEF All, Slots, CInv, LifeInv
<1>1. Takes(handles, handles', t, o)
  BY DEF Takes, CInv, CTypeOK
<1>2. \A x \in All : refCount'[x] = refCount[x] + One(x = o) + One(x = v)
  <2> SUFFICES ASSUME NEW x \in All PROVE refCount'[x] = refCount[x] + One(x = o) + One(x = v)
    OBVIOUS
  <2>1. CASE x = o
    BY <1>0, <2>1 DEF CInv, CTypeOK, Retained, One
  <2>2. CASE x = v
    BY <1>0, <2>2 DEF CInv, CTypeOK, Retained, One
  <2>3. CASE x # o /\ x # v
    BY <1>0, <2>3 DEF CInv, CTypeOK, Retained, One
  <2> QED
    BY <2>1, <2>2, <2>3
<1>3. /\ \A a \in All \ {o} : kind'[a] = kind[a] /\ slot'[a] = slot[a]
      /\ kind'[o] = k /\ \A i \in Slots : slot'[o][i] = IF i = 1 THEN v ELSE NoObject
  BY <1>0 DEF CInv, CTypeOK
<1>4. CTypeOK'
  <2>1. /\ kind' \in [All -> {"free", "leaf", "array", "outcome"}]
        /\ slot' \in [All -> [Slots -> All \union {NoObject}]]
    BY <1>0 DEF CInv, CTypeOK
  <2>2. refCount' \in [All -> Nat]
    BY <1>0 DEF CInv, CTypeOK, Retained
  <2>3. handles' \in [Threads -> [All -> Nat]] /\ \A x \in All : IsFiniteSet(HandlesTo(handles', x))
    BY <1>0, <1>1, HandleTaken DEF CInv, CTypeOK
  <2> QED
    BY <2>1, <2>2, <2>3 DEF CInv, CTypeOK
<1>5. \A x \in All : Cardinality(SlotsOf(kind', slot', todo, x))
                       = Cardinality(SlotsOf(kind, slot, todo, x)) + One(x = v)
  <2> SUFFICES ASSUME NEW x \in All
               PROVE  Cardinality(SlotsOf(kind', slot', todo, x))
                        = Cardinality(SlotsOf(kind, slot, todo, x)) + One(x = v)
    OBVIOUS
  <2>1. \A i \in Slots : ~Refers(kind, slot, todo, o, i, x)
    BY DEF Refers, Holds
  <2>2. \A b \in All \ {o}, j \in Slots :
          Refers(kind', slot', todo, b, j, x) <=> Refers(kind, slot, todo, b, j, x)
    BY <1>3 DEF Refers, Holds
  <2>3. \A j \in Slots \ {1} : ~Refers(kind', slot', todo, o, j, x)
    BY <1>0, <1>3 DEF Refers
  <2>4. CASE x = v
    <3>1. Refers(kind', slot', todo, o, 1, x)
      BY <1>0, <1>3, <2>4, Unowned DEF Refers, Holds
    <3>2. Joins(kind, slot, todo, kind', slot', todo, o, 1, x)
      BY <1>0, <2>1, <2>2, <2>3, <3>1 DEF Joins
    <3> QED
      BY <1>0, <2>4, <3>2, SlotJoins DEF One
  <2>5. CASE x # v
    <3>1. ~Refers(kind', slot', todo, o, 1, x)
      BY <1>0, <1>3, <2>5 DEF Refers
    <3>2. Same(kind, slot, todo, kind', slot', todo, x)
      BY <2>1, <2>2, <2>3, <3>1 DEF Same
    <3>3. Cardinality(SlotsOf(kind', slot', todo, x)) = Cardinality(SlotsOf(kind, slot, todo, x))
      BY <3>2, SlotsSame
    <3> QED
      BY <2>5, <3>3, SlotsFinite DEF One
  <2> QED
    BY <2>4, <2>5
<1>6. CountInv'
  <2> SUFFICES ASSUME NEW x \in All PROVE refCount'[x] = OwnerCount(x)'
    BY DEF CountInv
  <2>1. Cardinality(HandlesTo(handles', x)) = Cardinality(HandlesTo(handles, x)) + One(x = o)
    BY <1>0, <1>1, HandleTaken DEF CInv, CTypeOK
  <2>2. /\ Cardinality(HandlesTo(handles, x)) \in Nat
        /\ Cardinality(SlotsOf(kind, slot, todo, x)) \in Nat
        /\ Left(todo, Releases(x)) \in Nat /\ Left(todo, StoresOf(x)) \in Nat
        /\ One(x = EmptyArray) \in Nat /\ One(x = o) \in Nat /\ One(x = v) \in Nat
    BY CountsNat DEF CInv, One
  <2>3. refCount[x] = OwnerCount(x)
    BY DEF CInv, CountInv
  <2>4. Cardinality(SlotsOf(kind', slot', todo', x)) = Cardinality(SlotsOf(kind, slot, todo, x)) + One(x = v)
    BY <1>5
  <2>5. OwnerCount(x)' = OwnerCount(x) + One(x = o) + One(x = v)
    BY <2>1, <2>2, <2>4 DEF OwnerCount
  <2> QED
    BY <1>2, <2>3, <2>5
<1>7. LifeInv'
  <2> SUFFICES ASSUME NEW x \in All
               PROVE  /\ kind'[x] = "free" => refCount'[x] = 0 /\ Left(todo, Deletes(x)) = 0
                      /\ kind'[x] # "free" /\ refCount'[x] = 0 => Left(todo, Deletes(x)) = 1
                      /\ refCount'[x] > 0 => Left(todo, Deletes(x)) = 0
    BY DEF LifeInv
  <2>1. CASE x = o
    <3>1. refCount'[o] = 1 /\ kind'[o] # "free"
      <4>1. refCount'[o] = refCount[o] + One(o = o) + One(o = v)
        BY <1>0, <1>2
      <4> QED
        BY <1>0, <1>3, <4>1 DEF One
    <3> QED
      BY <1>0, <2>1, <3>1
  <2>2. CASE x # o
    <3>1. kind'[x] = kind[x] /\ refCount'[x] = refCount[x] + One(x = v) /\ refCount[x] \in Nat
      <4>1. refCount'[x] = refCount[x] + One(x = o) + One(x = v) /\ refCount[x] \in Nat
        BY <1>2 DEF CInv, CTypeOK
      <4> QED
        BY <1>3, <2>2, <4>1 DEF One
    <3>2. x = v => refCount[x] > 0
      BY <1>0
    <3> QED
      BY <3>1, <3>2 DEF CInv, LifeInv, One
  <2> QED
    BY <2>1, <2>2
<1>8. StoreInv'
  <2>1. \A u \in Threads, x \in All : Owns(u, x) => Owns(u, x)'
    BY <1>0 DEF CInv, CTypeOK, Owns
  <2>2. \A u \in Threads, n \in Nat : n \in DOMAIN todo[u] /\ todo[u][n].op = "store" =>
          todo[u][n].obj \in All
    BY DEF CInv, CTypeOK, Steps
  <2> QED
    BY <2>1, <2>2 DEF CInv, StoreInv
<1>9. LeafInv'
  <2>1. Left(todo', Stores(o)) = 0
    BY <1>0, Unowned
  <2> QED
    BY <1>0, <1>3, <2>1 DEF CInv, LeafInv
<1> QED
  BY <1>4, <1>6, <1>7, <1>8, <1>9 DEF CInv

LEMMA NewStep ==
  ASSUME CInv, NEW t \in Threads, NEW o \in Objects, NEW k \in {"leaf", "array"}, New(t, o, k)
  PROVE  CInv'
<1>1. [i \in Slots |-> NoObject] = [i \in Slots |-> IF i = 1 THEN NoObject ELSE NoObject]
  OBVIOUS
<1>2. [refCount EXCEPT ![o] = 1] = Retained([refCount EXCEPT ![o] = 1], NoObject)
  BY DEF Retained
<1>3. /\ kind[o] = "free" /\ kind' = [kind EXCEPT ![o] = k]
      /\ refCount' = Retained([refCount EXCEPT ![o] = 1], NoObject)
      /\ slot' = [slot EXCEPT ![o] = [i \in Slots |-> IF i = 1 THEN NoObject ELSE NoObject]]
      /\ handles' = [handles EXCEPT ![t][o] = @ + 1] /\ UNCHANGED todo
  BY <1>1, <1>2 DEF New, TakeHandle
<1> QED
  BY <1>3, NewObject

LEMMA NewOutcomeStep ==
  ASSUME CInv, NEW t \in Threads, NEW o \in Objects, NEW v \in All \union {NoObject},
         NewOutcome(t, o, v)
  PROVE  CInv'
<1>1. v # NoObject => refCount[v] > 0
  BY OwnedAlive DEF NewOutcome
<1> QED
  BY <1>1, NewObject DEF NewOutcome, TakeHandle

\* What a step counts as.
LEMMA ReleaseIs ==
  ASSUME NEW s \in Steps, s.op = "release"
  PROVE  /\ \A x : s \in Releases(x) <=> x = s.obj
         /\ \A x, i : s \notin Deletes(x) /\ s \notin StoresOf(x) /\ s \notin Stores(x)
                      /\ s \notin StoresAt(x, i)
  BY DEF Releases, Deletes, StoresOf, Stores, StoresAt

LEMMA DeleteIs ==
  ASSUME NEW s \in Steps, s.op = "delete"
  PROVE  /\ s.obj \in All
         /\ \A x : s \in Deletes(x) <=> x = s.obj
         /\ \A x, i : s \notin Releases(x) /\ s \notin StoresOf(x) /\ s \notin Stores(x)
                      /\ s \notin StoresAt(x, i)
  BY DEF Steps, Releases, Deletes, StoresOf, Stores, StoresAt

LEMMA StoreIs ==
  ASSUME NEW s \in Steps, s.op = "store"
  PROVE  /\ s.obj \in All /\ s.index \in Slots /\ s.value \in All \union {NoObject}
         /\ \A x : /\ s \in StoresOf(x) <=> x = s.value
                   /\ s \in Stores(x) <=> x = s.obj
         /\ \A x, i : s \in StoresAt(x, i) <=> x = s.obj /\ i = s.index
         /\ \A x : s \notin Releases(x) /\ s \notin Deletes(x)
  BY DEF Steps, Releases, Deletes, StoresOf, Stores, StoresAt

\* A release hands the caller's reference over to the call.
LEMMA ReleaseCall ==
  ASSUME CInv, NEW t \in Threads, NEW o \in All, Release(t, o)
  PROVE  CInv'
<1> DEFINE r == [op |-> "release", obj |-> o]
<1>0. r \in Steps /\ r.op = "release" /\ r.obj = o
  BY DEF Steps
<1>1. /\ todo[t] = <<>> /\ todo' = [todo EXCEPT ![t] = <<r>>]
      /\ UNCHANGED <<kind, refCount, slot>> /\ Drops(handles, handles', t, o)
  BY ObjectsAssumption DEF All, Release, Idle, Owns, ReleaseOf, Drops, CInv, CTypeOK
<1>2. /\ todo \in [Threads -> Seq(Steps)] /\ IsFiniteSet(PlacesOf(todo))
      /\ \A x \in All : IsFiniteSet(HandlesTo(handles, x))
  BY DEF CInv, CTypeOK
<1> DEFINE new == <<r>>
<1> HIDE DEF r
<1>3. Begins(todo, todo', t, new)
  BY <1>0, <1>1, <1>2 DEF Begins
<1>4. \A W : Cardinality(Among(new, W)) = One(r \in W)
  BY AmongOne
<1> HIDE DEF new
<1>12. /\ todo' \in [Threads -> Seq(Steps)] /\ IsFiniteSet(PlacesOf(todo'))
       /\ \A W : Left(todo', W) = Left(todo, W) + One(r \in W)
  BY <1>3, <1>4, StepsBegun
<1>5. /\ handles' \in [Threads -> [All -> Nat]]
      /\ \A x \in All : /\ IsFiniteSet(HandlesTo(handles', x))
                        /\ Cardinality(HandlesTo(handles, x)) = Cardinality(HandlesTo(handles', x)) + One(x = o)
  <2>1. handles' \in [Threads -> [All -> Nat]]
    BY <1>1 DEF Drops
  <2> QED
    BY <1>1, <1>2, <2>1, HandleDropped
<1>6. /\ \A x : /\ Left(todo', Deletes(x)) = Left(todo, Deletes(x))
                /\ Left(todo', Stores(x)) = Left(todo, Stores(x))
                /\ Left(todo', StoresOf(x)) = Left(todo, StoresOf(x))
      /\ \A x, i : Left(todo', StoresAt(x, i)) = Left(todo, StoresAt(x, i))
      /\ \A x : Left(todo', Releases(x)) = Left(todo, Releases(x)) + One(x = o)
  <2>1. \A W : Left(todo, W) \in Nat
    BY <1>2, WhereFinite
  <2> QED
    <3>1. /\ \A x : One(r \in Releases(x)) = One(x = o)
          /\ \A x, i : /\ One(r \in Deletes(x)) = 0 /\ One(r \in Stores(x)) = 0
                        /\ One(r \in StoresOf(x)) = 0 /\ One(r \in StoresAt(x, i)) = 0
      BY <1>0, ReleaseIs DEF One
    <3>2. \A W : One(r \in W) = 0 => Left(todo', W) = Left(todo, W)
      BY <1>12, <2>1
    <3> QED
      BY <1>12, <3>1, <3>2
<1>7. CTypeOK'
  BY <1>1, <1>12, <1>5 DEF CInv, CTypeOK
<1>8. \A x \in All : Cardinality(SlotsOf(kind', slot', todo', x)) = Cardinality(SlotsOf(kind, slot, todo, x))
  <2>1. \A a, i : Holds(kind', todo', a, i) <=> Holds(kind, todo, a, i)
    <3>1. kind' = kind
      BY <1>1
    <3> QED
      BY <1>6, <3>1 DEF Holds
  <2>2. \A x \in All : Same(kind, slot, todo, kind', slot', todo', x)
    BY <1>1, <2>1 DEF Same, Refers
  <2> QED
    BY <2>2, SlotsSame
<1>9. CountInv'
  <2> SUFFICES ASSUME NEW x \in All PROVE refCount'[x] = OwnerCount(x)'
    BY DEF CountInv
  <2>1. /\ Cardinality(HandlesTo(handles, x)) = Cardinality(HandlesTo(handles', x)) + One(x = o)
        /\ Left(todo', Releases(x)) = Left(todo, Releases(x)) + One(x = o)
        /\ Left(todo', StoresOf(x)) = Left(todo, StoresOf(x))
        /\ Cardinality(SlotsOf(kind', slot', todo', x)) = Cardinality(SlotsOf(kind, slot, todo, x))
    BY <1>5, <1>6, <1>8
  <2>2. /\ Cardinality(HandlesTo(handles', x)) \in Nat
        /\ Cardinality(SlotsOf(kind, slot, todo, x)) \in Nat
        /\ Left(todo, Releases(x)) \in Nat /\ Left(todo, StoresOf(x)) \in Nat
        /\ One(x = EmptyArray) \in Nat /\ One(x = o) \in Nat
    BY <1>5, CountsNat, FS_CardinalityType DEF CInv, One
  <2>3. refCount[x] = OwnerCount(x)
    BY DEF CInv, CountInv
  <2>4. OwnerCount(x)' = OwnerCount(x)
    BY <2>1, <2>2 DEF OwnerCount
  <2> QED
    BY <1>1, <2>3, <2>4
<1>10. LifeInv' /\ LeafInv'
  BY <1>1, <1>6 DEF CInv, LifeInv, LeafInv
<1>11. StoreInv'
  <2>1. \A u \in Threads \ {t} : todo'[u] = todo[u] /\ handles'[u] = handles[u]
    BY <1>1, <1>2 DEF Drops
  <2>2. todo'[t] = <<r>>
    BY <1>1, <1>2
  <2>3. \A u \in Threads, n \in Nat :
          n \in DOMAIN todo'[u] /\ todo'[u][n].op = "store" => handles'[u][todo'[u][n].obj] > 0
    <3> SUFFICES ASSUME NEW u \in Threads, NEW n \in Nat,
                        n \in DOMAIN todo'[u], todo'[u][n].op = "store"
                 PROVE  handles'[u][todo'[u][n].obj] > 0
      OBVIOUS
    <3>1. u # t
      BY <1>0, <2>2
    <3>2. Owns(u, todo[u][n].obj)
      BY <2>1, <3>1 DEF CInv, StoreInv
    <3>3. todo'[u][n].obj = todo[u][n].obj /\ handles'[u] = handles[u]
      BY <2>1, <3>1
    <3> QED
      BY <3>2, <3>3 DEF Owns
  <2>4. \A a \in All : Left(todo', Stores(a)) <= 1
    BY <1>6 DEF CInv, StoreInv
  <2> QED
    BY <2>3, <2>4 DEF StoreInv, Owns
<1> QED
  BY <1>7, <1>9, <1>10, <1>11 DEF CInv

-----------------------------------------------------------------------------
(* Steps of a call *)

\* A thread that is in a call owns what it is about to store into, also when it
\* has put further releases and deletes before.
LEMMA StoresKept ==
  ASSUME CInv, NEW s, NEW new, NEW t \in Threads, Advances(todo, todo', t, s, new),
         \A n \in DOMAIN new : new[n].op # "store", UNCHANGED handles
  PROVE  \A u \in Threads, n \in Nat :
           n \in DOMAIN todo'[u] /\ todo'[u][n].op = "store" => handles'[u][todo'[u][n].obj] > 0
<1> SUFFICES ASSUME NEW u \in Threads, NEW n \in Nat,
                    n \in DOMAIN todo'[u], todo'[u][n].op = "store"
             PROVE  handles[u][todo'[u][n].obj] > 0
  OBVIOUS
<1>1. PICK m \in Nat : m \in DOMAIN todo[u] /\ todo'[u][n] = todo[u][m]
  <2>1. CASE u # t
    <3>1. todo'[u] = todo[u]
      BY <2>1 DEF Advances
    <3> QED
      BY <3>1
  <2>2. CASE u = t
    <3>1. /\ todo[t] \in Seq(Steps) /\ new \in Seq(Steps) /\ todo[t] # <<>>
          /\ todo'[t] = new \o Tail(todo[t])
      BY DEF Advances
    <3>2. n \notin DOMAIN new
      <4>1. n \in DOMAIN new => todo'[t][n] = new[n]
        BY <3>1
      <4> QED
        BY <2>2, <4>1
    <3>3. /\ Len(todo[t]) \in Nat /\ Len(new) \in Nat
          /\ n > Len(new) /\ n - Len(new) + 1 \in 1 .. Len(todo[t])
          /\ todo'[t][n] = todo[t][n - Len(new) + 1]
      BY <2>2, <3>1, <3>2
    <3> QED
      BY <2>2, <3>3
  <2> QED
    BY <2>1, <2>2
<1> QED
  BY <1>1 DEF CInv, StoreInv, Owns

\* A thread has done the first of its steps, with nothing to add.
LEMMA Popped ==
  ASSUME CInv, NEW s, NEW t \in Threads, todo[t] # <<>>, s = Head(todo[t]),
         todo' = [todo EXCEPT ![t] = Tail(@)], UNCHANGED handles
  PROVE  /\ todo' \in [Threads -> Seq(Steps)] /\ IsFiniteSet(PlacesOf(todo'))
         /\ s \in Steps
         /\ \A W : /\ Left(todo', W) + One(s \in W) = Left(todo, W)
                   /\ Left(todo', W) \in Nat /\ Left(todo, W) \in Nat
         /\ \A u \in Threads, n \in Nat :
              n \in DOMAIN todo'[u] /\ todo'[u][n].op = "store" => handles'[u][todo'[u][n].obj] > 0
<1>1. todo[t] \in Seq(Steps) /\ todo \in [Threads -> Seq(Steps)] /\ IsFiniteSet(PlacesOf(todo))
  BY DEF CInv, CTypeOK
<1>2. s \in Steps
  BY <1>1
<1> DEFINE none == <<>>
<1>3. Advances(todo, todo', t, s, none)
  <2>1. none \o Tail(todo[t]) = Tail(todo[t])
    BY <1>1
  <2> QED
    BY <1>1, <2>1 DEF Advances
<1>4. (\A W : Cardinality(Among(none, W)) = 0) /\ \A n \in DOMAIN none : none[n].op # "store"
  BY AmongOne
<1> HIDE DEF none
<1>5. todo' \in [Threads -> Seq(Steps)] /\ IsFiniteSet(PlacesOf(todo'))
  BY <1>3, StepDone
<1>6. \A W : Left(todo', W) \in Nat /\ Left(todo, W) \in Nat
  BY <1>1, <1>5, WhereFinite
<1>7. ASSUME NEW W PROVE Left(todo', W) + One(s \in W) = Left(todo, W)
  <2>1. Left(todo', W) + One(s \in W) = Left(todo, W) + Cardinality(Among(none, W))
    BY <1>3, StepDone
  <2>2. Cardinality(Among(none, W)) = 0 /\ Left(todo, W) \in Nat
    BY <1>4, <1>6
  <2> QED
    BY <2>1, <2>2
<1>8. \A u \in Threads, n \in Nat :
        n \in DOMAIN todo'[u] /\ todo'[u][n].op = "store" => handles'[u][todo'[u][n].obj] > 0
  BY <1>3, <1>4, StoresKept
<1> QED
  BY <1>2, <1>5, <1>6, <1>7, <1>8

\* The memory is freed: the object has had no owner for a while.
LEMMA DeleteStepKeeps ==
  ASSUME CInv, NEW t \in Threads, DeleteStep(t)
  PROVE  CInv'
<1> PICK s : s = Head(todo[t])
  OBVIOUS
<1>0. /\ todo[t] # <<>> /\ todo' = [todo EXCEPT ![t] = Tail(@)]
      /\ UNCHANGED <<refCount, slot, handles>>
      /\ s.op = "delete" /\ kind' = [kind EXCEPT ![s.obj] = "free"]
  BY DEF DeleteStep, Idle
<1>1. /\ todo' \in [Threads -> Seq(Steps)] /\ IsFiniteSet(PlacesOf(todo'))
      /\ s \in Steps
      /\ \A W : /\ Left(todo', W) + One(s \in W) = Left(todo, W)
                /\ Left(todo', W) \in Nat /\ Left(todo, W) \in Nat
      /\ \A u \in Threads, n \in Nat :
           n \in DOMAIN todo'[u] /\ todo'[u][n].op = "store" => handles'[u][todo'[u][n].obj] > 0
  BY <1>0, Popped
<1>2. PICK o \in All : o = s.obj
  BY <1>0, <1>1, DeleteIs
<1>3. /\ \A x : Left(todo', Deletes(x)) + One(x = o) = Left(todo, Deletes(x))
      /\ \A x : /\ Left(todo', Releases(x)) = Left(todo, Releases(x))
                /\ Left(todo', Stores(x)) = Left(todo, Stores(x))
                /\ Left(todo', StoresOf(x)) = Left(todo, StoresOf(x))
      /\ \A x, i : Left(todo', StoresAt(x, i)) = Left(todo, StoresAt(x, i))
  <2>1. /\ \A x : One(s \in Deletes(x)) = One(x = o)
        /\ \A x, i : /\ One(s \in Releases(x)) = 0 /\ One(s \in Stores(x)) = 0
                     /\ One(s \in StoresOf(x)) = 0 /\ One(s \in StoresAt(x, i)) = 0
    BY <1>0, <1>1, <1>2, DeleteIs DEF One
  <2>2. \A W : One(s \in W) = 0 => Left(todo', W) = Left(todo, W)
    BY <1>1
  <2> QED
    BY <1>1, <2>1, <2>2
<1>4. refCount[o] = 0 /\ kind[o] # "free" /\ Left(todo, Deletes(o)) = 1 /\ Left(todo', Deletes(o)) = 0
  <2>1. Left(todo, Deletes(o)) # 0
    <3>1. Left(todo', Deletes(o)) + One(o = o) = Left(todo, Deletes(o)) /\ Left(todo', Deletes(o)) \in Nat
      BY <1>1, <1>3
    <3> QED
      BY <3>1 DEF One
  <2>2. refCount[o] = 0 /\ kind[o] # "free" /\ Left(todo, Deletes(o)) = 1
    BY <2>1 DEF CInv, CTypeOK, LifeInv
  <2>3. Left(todo', Deletes(o)) + One(o = o) = Left(todo, Deletes(o)) /\ Left(todo', Deletes(o)) \in Nat
    BY <1>1, <1>3
  <2> QED
    BY <2>2, <2>3 DEF One
<1>5. kind'[o] = "free" /\ \A x \in All \ {o} : kind'[x] = kind[x]
  BY <1>0, <1>2 DEF CInv, CTypeOK
<1>6. \A x \in All \ {o} : Left(todo', Deletes(x)) = Left(todo, Deletes(x))
  <2> SUFFICES ASSUME NEW x \in All \ {o} PROVE Left(todo', Deletes(x)) = Left(todo, Deletes(x))
    OBVIOUS
  <2>1. Left(todo', Deletes(x)) + One(x = o) = Left(todo, Deletes(x)) /\ Left(todo', Deletes(x)) \in Nat
    BY <1>1, <1>3
  <2> QED
    BY <2>1 DEF One
<1>7. CTypeOK'
  BY <1>0, <1>1, <1>2 DEF CInv, CTypeOK
<1>8. \A x \in All : Cardinality(SlotsOf(kind', slot', todo', x)) = Cardinality(SlotsOf(kind, slot, todo, x))
  <2>1. \A a \in All : \A i : Holds(kind', todo', a, i) <=> Holds(kind, todo, a, i)
    BY <1>3, <1>4, <1>5, <1>6 DEF Holds
  <2>2. \A x \in All : Same(kind, slot, todo, kind', slot', todo', x)
    BY <1>0, <2>1 DEF Same, Refers
  <2> QED
    BY <2>2, SlotsSame
<1>9. CountInv'
  <2>1. \A x \in All : OwnerCount(x)' = OwnerCount(x)
    BY <1>0, <1>3, <1>8 DEF OwnerCount
  <2> QED
    BY <1>0, <2>1 DEF CInv, CountInv
<1>10. LifeInv'
  BY <1>0, <1>4, <1>5, <1>6 DEF CInv, LifeInv
<1>11. StoreInv'
  BY <1>1, <1>3 DEF CInv, StoreInv, Owns
<1>12. LeafInv'
  BY <1>0, <1>3, <1>5 DEF CInv, LeafInv
<1> QED
  BY <1>7, <1>9, <1>10, <1>11, <1>12 DEF CInv

\* The element is stored: from now on the slot owns it.
LEMMA StoreStepKeeps ==
  ASSUME CInv, NEW t \in Threads, StoreStep(t)
  PROVE  CInv'
<1> PICK s : s = Head(todo[t])
  OBVIOUS
<1>0. /\ todo[t] # <<>> /\ todo' = [todo EXCEPT ![t] = Tail(@)]
      /\ UNCHANGED <<kind, refCount, handles>>
      /\ s.op = "store" /\ slot' = [slot EXCEPT ![s.obj][s.index] = s.value]
  BY DEF StoreStep, Idle
<1>1. /\ todo' \in [Threads -> Seq(Steps)] /\ IsFiniteSet(PlacesOf(todo'))
      /\ s \in Steps
      /\ \A W : /\ Left(todo', W) + One(s \in W) = Left(todo, W)
                /\ Left(todo', W) \in Nat /\ Left(todo, W) \in Nat
      /\ \A u \in Threads, n \in Nat :
           n \in DOMAIN todo'[u] /\ todo'[u][n].op = "store" => handles'[u][todo'[u][n].obj] > 0
  BY <1>0, Popped
<1>2. PICK a \in All, i \in Slots, v \in All \union {NoObject} :
        a = s.obj /\ i = s.index /\ v = s.value
  BY <1>0, <1>1, StoreIs
<1>3. /\ \A x : One(s \in Releases(x)) = 0 /\ One(s \in Deletes(x)) = 0
      /\ \A x : One(s \in StoresOf(x)) = One(x = v) /\ One(s \in Stores(x)) = One(x = a)
      /\ \A x, j : One(s \in StoresAt(x, j)) = One(x = a /\ j = i)
  BY <1>0, <1>1, <1>2, StoreIs DEF One
<1>4. /\ \A x : Left(todo', Deletes(x)) = Left(todo, Deletes(x))
      /\ \A x : Left(todo', Releases(x)) = Left(todo, Releases(x))
      /\ \A x : Left(todo', StoresOf(x)) + One(x = v) = Left(todo, StoresOf(x))
      /\ \A x : Left(todo', Stores(x)) <= Left(todo, Stores(x))
  <2>1. \A W : One(s \in W) = 0 => Left(todo', W) = Left(todo, W)
    BY <1>1
  <2>2. \A W : Left(todo', W) <= Left(todo, W)
    <3> TAKE W
    <3>1. /\ Left(todo', W) + One(s \in W) = Left(todo, W)
          /\ Left(todo', W) \in Nat /\ Left(todo, W) \in Nat
      BY <1>1
    <3> QED
      BY <3>1 DEF One
  <2> QED
    BY <1>1, <1>3, <2>1, <2>2
<1>5. /\ Left(todo, StoresAt(a, i)) = 1 /\ Left(todo', StoresAt(a, i)) = 0
      /\ \A x, j : ~(x = a /\ j = i) => Left(todo', StoresAt(x, j)) = Left(todo, StoresAt(x, j))
  <2>1. /\ Left(todo', StoresAt(a, i)) + 1 = Left(todo, StoresAt(a, i))
        /\ Left(todo', StoresAt(a, i)) \in Nat
    BY <1>1, <1>3 DEF One
  <2>2. Left(todo, StoresAt(a, i)) <= Left(todo, Stores(a)) /\ Left(todo, Stores(a)) <= 1
    <3>1. StoresAt(a, i) \subseteq Stores(a)
      BY DEF StoresAt, Stores
    <3> QED
      BY <3>1, SomeLeft DEF CInv, CTypeOK, StoreInv
  <2>3. ASSUME NEW x, NEW j, ~(x = a /\ j = i)
        PROVE  Left(todo', StoresAt(x, j)) = Left(todo, StoresAt(x, j))
    <3>1. /\ Left(todo', StoresAt(x, j)) + One(s \in StoresAt(x, j)) = Left(todo, StoresAt(x, j))
          /\ Left(todo', StoresAt(x, j)) \in Nat
      BY <1>1
    <3>2. One(s \in StoresAt(x, j)) = 0
      BY <1>3, <2>3 DEF One
    <3> QED
      BY <3>1, <3>2
  <2>4. Left(todo, Stores(a)) \in Nat /\ Left(todo, StoresAt(a, i)) \in Nat
    BY <1>1
  <2> QED
    BY <2>1, <2>2, <2>3, <2>4
<1>6. kind[a] # "free" /\ Left(todo, Deletes(a)) = 0 /\ kind[a] # "leaf"
  <2>1. PICK n \in Nat : n \in DOMAIN todo[t] /\ todo[t][n] = s
    <3>1. todo[t] \in Seq(Steps)
      BY DEF CInv, CTypeOK
    <3>2. 1 \in DOMAIN todo[t] /\ todo[t][1] = s
      BY <1>0, <3>1
    <3> QED
      BY <3>2
  <2>2. Owns(t, a)
    BY <1>0, <1>2, <2>1 DEF CInv, StoreInv
  <2>3. Left(todo, Stores(a)) # 0
    <3>1. Left(todo', Stores(a)) + 1 = Left(todo, Stores(a)) /\ Left(todo', Stores(a)) \in Nat
      BY <1>1, <1>3 DEF One
    <3> QED
      BY <3>1
  <2> QED
    BY <2>2, <2>3, OwnedAlive DEF CInv, LeafInv
<1>7. /\ slot'[a][i] = v
      /\ \A b \in All, j \in Slots : ~(b = a /\ j = i) => slot'[b][j] = slot[b][j]
      /\ slot' \in [All -> [Slots -> All \union {NoObject}]]
  BY <1>0, <1>2 DEF CInv, CTypeOK
<1>8. CTypeOK'
  BY <1>0, <1>1, <1>7 DEF CInv, CTypeOK
<1>9. \A x \in All : Cardinality(SlotsOf(kind', slot', todo', x))
                       = Cardinality(SlotsOf(kind, slot, todo, x)) + One(x = v)
  <2> SUFFICES ASSUME NEW x \in All
               PROVE  Cardinality(SlotsOf(kind', slot', todo', x))
                        = Cardinality(SlotsOf(kind, slot, todo, x)) + One(x = v)
    OBVIOUS
  <2>0. kind' = kind
    BY <1>0
  <2>1. ~Refers(kind, slot, todo, a, i, x)
    BY <1>5 DEF Refers, Holds
  <2>2. \A b \in All, j \in Slots : ~(b = a /\ j = i) =>
          (Refers(kind', slot', todo', b, j, x) <=> Refers(kind, slot, todo, b, j, x))
    BY <2>0, <1>4, <1>5, <1>7 DEF Refers, Holds
  <2>3. Refers(kind', slot', todo', a, i, x) <=> x = v
    BY <2>0, <1>4, <1>5, <1>6, <1>7 DEF Refers, Holds
  <2>4. CASE x = v
    <3>1. Joins(kind, slot, todo, kind', slot', todo', a, i, x)
      BY <2>1, <2>2, <2>3, <2>4 DEF Joins
    <3> QED
      BY <2>4, <3>1, SlotJoins DEF One
  <2>5. CASE x # v
    <3>1. Same(kind, slot, todo, kind', slot', todo', x)
      BY <2>1, <2>2, <2>3, <2>5 DEF Same
    <3>2. Cardinality(SlotsOf(kind', slot', todo', x)) = Cardinality(SlotsOf(kind, slot, todo, x))
      BY <3>1, SlotsSame
    <3> QED
      BY <2>5, <3>2, SlotsFinite DEF One
  <2> QED
    BY <2>4, <2>5
<1>10. CountInv'
  <2> SUFFICES ASSUME NEW x \in All PROVE refCount'[x] = OwnerCount(x)'
    BY DEF CountInv
  <2>1. /\ HandlesTo(handles', x) = HandlesTo(handles, x)
        /\ Left(todo', Releases(x)) = Left(todo, Releases(x))
        /\ Left(todo', StoresOf(x)) + One(x = v) = Left(todo, StoresOf(x))
        /\ Cardinality(SlotsOf(kind', slot', todo', x)) = Cardinality(SlotsOf(kind, slot, todo, x)) + One(x = v)
    BY <1>0, <1>4, <1>9
  <2>2. /\ Cardinality(HandlesTo(handles, x)) \in Nat
        /\ Cardinality(SlotsOf(kind, slot, todo, x)) \in Nat
        /\ Left(todo, Releases(x)) \in Nat /\ Left(todo', StoresOf(x)) \in Nat
        /\ One(x = EmptyArray) \in Nat /\ One(x = v) \in Nat
    BY <1>1, CountsNat DEF CInv, One
  <2>3. refCount[x] = OwnerCount(x)
    BY DEF CInv, CountInv
  <2>4. OwnerCount(x)' = OwnerCount(x)
    BY <2>1, <2>2 DEF OwnerCount
  <2> QED
    BY <1>0, <2>3, <2>4
<1>11. LifeInv'
  BY <1>0, <1>4 DEF CInv, LifeInv
<1>12. StoreInv'
  <2>1. ASSUME NEW x \in All PROVE Left(todo', Stores(x)) <= 1
    <3>1. Left(todo', Stores(x)) <= Left(todo, Stores(x)) /\ Left(todo, Stores(x)) <= 1
      BY <1>4 DEF CInv, StoreInv
    <3>2. Left(todo', Stores(x)) \in Nat /\ Left(todo, Stores(x)) \in Nat
      BY <1>1
    <3> QED
      BY <3>1, <3>2
  <2> QED
    BY <1>1, <2>1 DEF StoreInv, Owns
<1>13. LeafInv'
  <2> SUFFICES ASSUME NEW x \in All, kind[x] = "leaf"
               PROVE  Left(todo', Stores(x)) = 0 /\ \A j \in Slots : slot'[x][j] = NoObject
    BY <1>0 DEF LeafInv
  <2>1. Left(todo, Stores(x)) = 0 /\ \A j \in Slots : slot[x][j] = NoObject
    BY DEF CInv, LeafInv
  <2>2. Left(todo', Stores(x)) <= Left(todo, Stores(x)) /\ Left(todo', Stores(x)) \in Nat
    BY <1>1, <1>4
  <2> QED
    BY <1>6, <1>7, <2>1, <2>2
<1> QED
  BY <1>8, <1>10, <1>11, <1>12, <1>13 DEF CInv
-----------------------------------------------------------------------------
(* A new element *)

\* A list of two steps.
LEMMA AmongTwo ==
  ASSUME NEW r, NEW s, NEW W
  PROVE  Cardinality(Among(<<r, s>>, W)) = One(r \in W) + One(s \in W)
<1>1. Among(<<r, s>>, W) = (IF r \in W THEN {1} ELSE {}) \union (IF s \in W THEN {2} ELSE {})
  <2>1. DOMAIN <<r, s>> = {1, 2}
    OBVIOUS
  <2>2. \A n \in {1, 2} : <<r, s>>[n] \in W <=> (n = 1 /\ r \in W) \/ (n = 2 /\ s \in W)
    OBVIOUS
  <2> QED
    BY <2>1, <2>2 DEF Among
<1>2. /\ Cardinality({}) = 0 /\ Cardinality({1}) = 1 /\ Cardinality({2}) = 1
      /\ Cardinality({1, 2}) = 2
  <2>1. /\ IsFiniteSet({1}) /\ Cardinality({1}) = 1 /\ Cardinality({2}) = 1
        /\ Cardinality({}) = 0
    BY FS_EmptySet, FS_Singleton
  <2>2. Cardinality({1} \union {2}) = Cardinality({1}) + 1
    <3>1. 2 \notin {1}
      OBVIOUS
    <3> QED
      BY <2>1, <3>1, FS_AddElement
  <2>3. {1} \union {2} = {1, 2}
    OBVIOUS
  <2>4. Cardinality({1, 2}) = Cardinality({1} \union {2})
    BY <2>3, Zenon
  <2>5. Cardinality({1, 2}) = 2
    BY <2>1, <2>2, <2>4
  <2> QED
    BY <2>1, <2>5
<1>3. CASE r \in W /\ s \in W
  <2>1. Among(<<r, s>>, W) = {1, 2}
    BY <1>1, <1>3
  <2> QED
    BY <1>2, <1>3, <2>1 DEF One
<1>4. CASE r \in W /\ s \notin W
  <2>1. Among(<<r, s>>, W) = {1}
    BY <1>1, <1>4
  <2> QED
    BY <1>2, <1>4, <2>1 DEF One
<1>5. CASE r \notin W /\ s \in W
  <2>1. Among(<<r, s>>, W) = {2}
    BY <1>1, <1>5
  <2> QED
    BY <1>2, <1>5, <2>1 DEF One
<1>6. CASE r \notin W /\ s \notin W
  <2>1. Among(<<r, s>>, W) = {}
    BY <1>1, <1>6
  <2> QED
    BY <1>2, <1>6, <2>1 DEF One
<1> QED
  BY <1>3, <1>4, <1>5, <1>6

\* What a Set has to do: release the old element, if there is one, and store.
Replaces(list, old, a, i, v) ==
  /\ list \in Seq(Steps)
  /\ \A n \in DOMAIN list : list[n].op = "store" => list[n].obj = a
  /\ \A x : /\ x # NoObject => Cardinality(Among(list, Releases(x))) = One(x = old)
            /\ Cardinality(Among(list, Deletes(x))) = 0
            /\ Cardinality(Among(list, StoresOf(x))) = One(x = v)
            /\ Cardinality(Among(list, Stores(x))) = One(x = a)
  /\ \A x, j : Cardinality(Among(list, StoresAt(x, j))) = One(x = a /\ j = i)

LEMMA SetList ==
  ASSUME NEW old \in All \union {NoObject}, NEW a \in All, NEW i \in Slots,
         NEW v \in All \union {NoObject}
  PROVE  Replaces(ReleaseOf(old) \o <<[op |-> "store", obj |-> a, index |-> i, value |-> v]>>,
                  old, a, i, v)
<1> PICK st : st = [op |-> "store", obj |-> a, index |-> i, value |-> v]
  OBVIOUS
<1> PICK r : r = [op |-> "release", obj |-> old]
  OBVIOUS
<1>1. /\ st \in Steps /\ st.op = "store" /\ st.obj = a /\ st.index = i /\ st.value = v
      /\ r \in Steps /\ r.op = "release" /\ r.obj = old
  BY DEF Steps
<1>2. /\ \A x : /\ One(st \in Releases(x)) = 0 /\ One(st \in Deletes(x)) = 0
                /\ One(st \in StoresOf(x)) = One(x = v) /\ One(st \in Stores(x)) = One(x = a)
      /\ \A x, j : One(st \in StoresAt(x, j)) = One(x = a /\ j = i)
  BY <1>1, StoreIs DEF One
<1>3. /\ \A x : /\ One(r \in Releases(x)) = One(x = old) /\ One(r \in Deletes(x)) = 0
                /\ One(r \in StoresOf(x)) = 0 /\ One(r \in Stores(x)) = 0
      /\ \A x, j : One(r \in StoresAt(x, j)) = 0
  BY <1>1, ReleaseIs DEF One
<1>4. \A p : One(p) \in Nat
  BY DEF One
<1>5. CASE old = NoObject
  <2>1. PICK list \in Seq(Steps) :
          list = ReleaseOf(old) \o <<[op |-> "store", obj |-> a, index |-> i, value |-> v]>>
          /\ list = <<st>>
    <3>1. <<st>> \in Seq(Steps)
      BY <1>1
    <3>2. ReleaseOf(old) \o <<st>> = <<st>>
      BY <1>1, <1>5 DEF ReleaseOf
    <3> QED
      BY <3>1, <3>2
  <2>2. \A W : Cardinality(Among(list, W)) = One(st \in W)
    BY <2>1, AmongOne
  <2>3. \A x : x # NoObject => One(x = old) = 0
    BY <1>5 DEF One
  <2>4. \A n \in DOMAIN list : list[n] = st
    BY <2>1
  <2>5. /\ \A n \in DOMAIN list : list[n].op = "store" => list[n].obj = a
        /\ \A x : /\ Cardinality(Among(list, Releases(x))) = 0
                  /\ Cardinality(Among(list, Deletes(x))) = 0
                  /\ Cardinality(Among(list, StoresOf(x))) = One(x = v)
                  /\ Cardinality(Among(list, Stores(x))) = One(x = a)
        /\ \A x, j : Cardinality(Among(list, StoresAt(x, j))) = One(x = a /\ j = i)
    BY <1>1, <1>2, <2>2, <2>4
  <2>6. Replaces(list, old, a, i, v)
    BY <2>3, <2>5 DEF Replaces
  <2> QED
    BY <2>1, <2>6
<1>6. CASE old # NoObject
  <2>1. PICK list \in Seq(Steps) :
          list = ReleaseOf(old) \o <<[op |-> "store", obj |-> a, index |-> i, value |-> v]>>
          /\ list = <<r, st>>
    <3>1. <<r, st>> \in Seq(Steps)
      BY <1>1
    <3>2. <<r>> \o <<st>> = <<r, st>>
      <4>1. PICK c \in Seq(Steps), c1 \in Seq(Steps), c2 \in Seq(Steps) :
              c = c1 \o c2 /\ c1 = <<r>> /\ c2 = <<st>>
        <5>1. <<r>> \in Seq(Steps) /\ <<st>> \in Seq(Steps)
          BY <1>1
        <5>2. \A c1, c2 \in Seq(Steps) : c1 \o c2 \in Seq(Steps)
          OBVIOUS
        <5>3. <<r>> \o <<st>> \in Seq(Steps)
          BY <5>1, <5>2, Zenon
        <5> QED
          BY <5>1, <5>3, Zenon
      <4>2. Len(c1) = 1 /\ Len(c2) = 1 /\ c1[1] = r /\ c2[1] = st
        BY <4>1
      <4>3. Len(c) = 2 /\ c[1] = c1[1] /\ c[2] = c2[1]
        BY <4>1, <4>2
      <4>4. Len(<<r, st>>) = 2 /\ <<r, st>>[1] = r /\ <<r, st>>[2] = st
        OBVIOUS
      <4>5. c = <<r, st>>
        BY <3>1, <4>2, <4>3, <4>4
      <4> QED
        BY <4>1, <4>5
    <3>3. ReleaseOf(old) = <<r>>
      BY <1>6 DEF ReleaseOf
    <3> QED
      BY <3>1, <3>2, <3>3
  <2>2. \A W : Cardinality(Among(list, W)) = One(r \in W) + One(st \in W)
    BY <2>1, AmongTwo
  <2>4. \A n \in DOMAIN list : list[n] = st \/ list[n] = r
    BY <2>1
  <2>5. /\ \A n \in DOMAIN list : list[n].op = "store" => list[n].obj = a
        /\ \A x : Cardinality(Among(list, Releases(x))) = One(x = old) + 0
        /\ \A x : Cardinality(Among(list, Deletes(x))) = 0
        /\ \A x : Cardinality(Among(list, StoresOf(x))) = 0 + One(x = v)
        /\ \A x : Cardinality(Among(list, Stores(x))) = 0 + One(x = a)
        /\ \A x, j : Cardinality(Among(list, StoresAt(x, j))) = 0 + One(x = a /\ j = i)
    BY <1>1, <1>2, <1>3, <2>2, <2>4
  <2>6. Replaces(list, old, a, i, v)
    BY <1>4, <2>5 DEF Replaces
  <2> QED
    BY <2>1, <2>6
<1> QED
  BY <1>5, <1>6

\* The new element is retained, and the slot stops owning the old one.
LEMMA SetStep ==
  ASSUME CInv, NEW t \in Threads, NEW a \in All, NEW i \in Slots,
         NEW v \in All \union {NoObject}, Set(t, a, i, v)
  PROVE  CInv'
<1> PICK old \in All \union {NoObject} : old = slot[a][i]
  BY DEF CInv, CTypeOK
<1> PICK list : list = ReleaseOf(old) \o <<[op |-> "store", obj |-> a, index |-> i, value |-> v]>>
  OBVIOUS
<1>0. /\ todo[t] = <<>> /\ todo' = [todo EXCEPT ![t] = list]
      /\ UNCHANGED <<kind, slot, handles>> /\ refCount' = Retained(refCount, v)
      /\ kind[a] = "array" /\ Owns(t, a) /\ Idle(t) /\ Unshared(t, a)
      /\ v # NoObject => Owns(t, v)
  BY DEF Set, Idle
<1>1. Replaces(list, old, a, i, v)
  BY SetList
<1>2. /\ todo' \in [Threads -> Seq(Steps)] /\ IsFiniteSet(PlacesOf(todo'))
      /\ \A W : /\ Left(todo', W) = Left(todo, W) + Cardinality(Among(list, W))
                /\ Left(todo', W) \in Nat /\ Left(todo, W) \in Nat
  <2>1. Begins(todo, todo', t, list)
    BY <1>0, <1>1 DEF Begins, Replaces, CInv, CTypeOK
  <2>2. todo' \in [Threads -> Seq(Steps)] /\ IsFiniteSet(PlacesOf(todo'))
    BY <2>1, StepsBegun
  <2>3. \A W : Left(todo', W) = Left(todo, W) + Cardinality(Among(list, W))
    BY <2>1, StepsBegun
  <2> QED
    BY <2>2, <2>3, WhereFinite DEF CInv, CTypeOK
<1>3. /\ \A x \in All : Left(todo', Releases(x)) = Left(todo, Releases(x)) + One(x = old)
      /\ \A x : Left(todo', StoresOf(x)) = Left(todo, StoresOf(x)) + One(x = v)
      /\ \A x : Left(todo', Stores(x)) = Left(todo, Stores(x)) + One(x = a)
      /\ \A x, j : Left(todo', StoresAt(x, j)) = Left(todo, StoresAt(x, j)) + One(x = a /\ j = i)
  <2>1. \A x \in All : x # NoObject
    BY ObjectsAssumption DEF All
  <2>2. \A x \in All : Cardinality(Among(list, Releases(x))) = One(x = old)
    BY <1>1, <2>1 DEF Replaces
  <2>3. /\ \A x : /\ Cardinality(Among(list, StoresOf(x))) = One(x = v)
                  /\ Cardinality(Among(list, Stores(x))) = One(x = a)
        /\ \A x, j : Cardinality(Among(list, StoresAt(x, j))) = One(x = a /\ j = i)
    BY <1>1 DEF Replaces
  <2>4. \A W : Left(todo', W) = Left(todo, W) + Cardinality(Among(list, W))
    BY <1>2
  <2>5. \A x \in All : Left(todo', Releases(x)) = Left(todo, Releases(x)) + One(x = old)
    BY <2>2, <2>4
  <2>6. \A x : Left(todo', StoresOf(x)) = Left(todo, StoresOf(x)) + One(x = v)
    BY <2>3, <2>4
  <2>7. \A x : Left(todo', Stores(x)) = Left(todo, Stores(x)) + One(x = a)
    BY <2>3, <2>4
  <2>8. \A x, j : Left(todo', StoresAt(x, j)) = Left(todo, StoresAt(x, j)) + One(x = a /\ j = i)
    BY <2>3, <2>4
  <2> QED
    BY <2>5, <2>6, <2>7, <2>8
<1>4. \A x : Left(todo', Deletes(x)) = Left(todo, Deletes(x))
  <2> TAKE x
  <2>1. Left(todo', Deletes(x)) = Left(todo, Deletes(x)) + 0 /\ Left(todo, Deletes(x)) \in Nat
    BY <1>1, <1>2 DEF Replaces
  <2> QED
    BY <2>1
<1>5. /\ Left(todo, Stores(a)) = 0 /\ Left(todo, StoresAt(a, i)) = 0
      /\ Left(todo', Stores(a)) = 1 /\ Left(todo', StoresAt(a, i)) = 1
      /\ \A x, j : ~(x = a /\ j = i) => Left(todo', StoresAt(x, j)) = Left(todo, StoresAt(x, j))
      /\ \A x : x # a => Left(todo', Stores(x)) = Left(todo, Stores(x))
  <2>1. Left(todo, Stores(a)) = 0 /\ Left(todo, StoresAt(a, i)) = 0
    BY <1>0, NoStoreUnderWay
  <2>2. /\ Left(todo', Stores(a)) = Left(todo, Stores(a)) + One(a = a)
        /\ Left(todo', StoresAt(a, i)) = Left(todo, StoresAt(a, i)) + One(a = a /\ i = i)
    BY <1>3
  <2>3. ASSUME NEW x, NEW j, ~(x = a /\ j = i)
        PROVE  Left(todo', StoresAt(x, j)) = Left(todo, StoresAt(x, j))
    <3>1. /\ Left(todo', StoresAt(x, j)) = Left(todo, StoresAt(x, j)) + One(x = a /\ j = i)
          /\ Left(todo, StoresAt(x, j)) \in Nat
      BY <1>2, <1>3
    <3> QED
      BY <2>3, <3>1 DEF One
  <2>4. ASSUME NEW x, x # a
        PROVE  Left(todo', Stores(x)) = Left(todo, Stores(x))
    <3>1. /\ Left(todo', Stores(x)) = Left(todo, Stores(x)) + One(x = a)
          /\ Left(todo, Stores(x)) \in Nat
      BY <1>2, <1>3
    <3> QED
      BY <2>4, <3>1 DEF One
  <2> QED
    BY <2>1, <2>2, <2>3, <2>4 DEF One
<1>6. refCount' \in [All -> Nat] /\ \A x \in All : refCount'[x] = refCount[x] + One(x = v)
  <2>1. refCount \in [All -> Nat] /\ NoObject \notin All
    BY ObjectsAssumption DEF CInv, CTypeOK, All
  <2> QED
    BY <1>0, <2>1 DEF Retained, One
<1>7. CTypeOK'
  BY <1>0, <1>2, <1>6 DEF CInv, CTypeOK
<1>8. \A x \in All : Cardinality(SlotsOf(kind, slot, todo, x))
                       = Cardinality(SlotsOf(kind', slot', todo', x)) + One(x = old)
  <2> SUFFICES ASSUME NEW x \in All
               PROVE  Cardinality(SlotsOf(kind, slot, todo, x))
                        = Cardinality(SlotsOf(kind', slot', todo', x)) + One(x = old)
    OBVIOUS
  <2>0. kind' = kind /\ slot' = slot
    BY <1>0
  <2>1. Refers(kind, slot, todo, a, i, x) <=> x = old
    BY <1>0, <1>5, OwnedAlive DEF Refers, Holds
  <2>2. ~Refers(kind', slot', todo', a, i, x)
    BY <1>5 DEF Refers, Holds
  <2>3. \A b \in All, j \in Slots : ~(b = a /\ j = i) =>
          (Refers(kind', slot', todo', b, j, x) <=> Refers(kind, slot, todo, b, j, x))
    BY <2>0, <1>4, <1>5 DEF Refers, Holds
  <2>4. CASE x = old
    <3>1. Joins(kind', slot', todo', kind, slot, todo, a, i, x)
      BY <2>1, <2>2, <2>3, <2>4 DEF Joins
    <3> QED
      BY <2>4, <3>1, SlotLeaves DEF One
  <2>5. CASE x # old
    <3>1. Same(kind, slot, todo, kind', slot', todo', x)
      BY <2>1, <2>2, <2>3, <2>5 DEF Same
    <3>2. Cardinality(SlotsOf(kind', slot', todo', x)) = Cardinality(SlotsOf(kind, slot, todo, x))
      BY <3>1, SlotsSame
    <3> QED
      BY <2>5, <3>2, SlotsFinite DEF One
  <2> QED
    BY <2>4, <2>5
<1>9. CountInv'
  <2> SUFFICES ASSUME NEW x \in All PROVE refCount'[x] = OwnerCount(x)'
    BY DEF CountInv
  <2>1. /\ HandlesTo(handles', x) = HandlesTo(handles, x)
        /\ Left(todo', Releases(x)) = Left(todo, Releases(x)) + One(x = old)
        /\ Left(todo', StoresOf(x)) = Left(todo, StoresOf(x)) + One(x = v)
        /\ Cardinality(SlotsOf(kind, slot, todo, x)) = Cardinality(SlotsOf(kind', slot', todo', x)) + One(x = old)
    BY <1>0, <1>3, <1>8
  <2>2. /\ Cardinality(HandlesTo(handles, x)) \in Nat
        /\ Cardinality(SlotsOf(kind', slot', todo', x)) \in Nat
        /\ Left(todo, Releases(x)) \in Nat /\ Left(todo, StoresOf(x)) \in Nat
        /\ One(x = EmptyArray) \in Nat /\ One(x = v) \in Nat /\ One(x = old) \in Nat
    BY CountsNat, SlotsFinite DEF CInv, One
  <2>3. refCount[x] = OwnerCount(x)
    BY DEF CInv, CountInv
  <2>4. OwnerCount(x)' = OwnerCount(x) + One(x = v)
    BY <2>1, <2>2 DEF OwnerCount
  <2> QED
    BY <1>6, <2>3, <2>4
<1>10. LifeInv'
  <2> SUFFICES ASSUME NEW x \in All
               PROVE  /\ kind[x] = "free" => refCount'[x] = 0 /\ Left(todo, Deletes(x)) = 0
                      /\ kind[x] # "free" /\ refCount'[x] = 0 => Left(todo, Deletes(x)) = 1
                      /\ refCount'[x] > 0 => Left(todo, Deletes(x)) = 0
    BY <1>0, <1>4 DEF LifeInv
  <2>1. /\ kind[x] = "free" => refCount[x] = 0 /\ Left(todo, Deletes(x)) = 0
        /\ kind[x] # "free" /\ refCount[x] = 0 => Left(todo, Deletes(x)) = 1
        /\ refCount[x] > 0 => Left(todo, Deletes(x)) = 0
    BY DEF CInv, LifeInv
  <2>2. x = v => refCount[x] > 0
    BY <1>0, OwnedAlive, ObjectsAssumption DEF All
  <2>3. refCount'[x] = refCount[x] + One(x = v) /\ refCount[x] \in Nat
    BY <1>6 DEF CInv, CTypeOK
  <2> QED
    BY <2>1, <2>2, <2>3 DEF One
<1>11. StoreInv'
  <2>1. ASSUME NEW u \in Threads, NEW n \in Nat, n \in DOMAIN todo'[u], todo'[u][n].op = "store"
        PROVE  handles[u][todo'[u][n].obj] > 0
    <3>1. CASE u = t
      <4>1. todo'[t] = list
        BY <1>0 DEF CInv, CTypeOK
      <4>2. todo'[u][n].obj = a
        BY <1>1, <2>1, <3>1, <4>1 DEF Replaces
      <4> QED
        BY <1>0, <3>1, <4>2 DEF Owns
    <3>2. CASE u # t
      <4>1. todo'[u] = todo[u]
        BY <1>0, <3>2
      <4> QED
        BY <2>1, <4>1 DEF CInv, StoreInv, Owns
    <3> QED
      BY <3>1, <3>2
  <2>2. \A x \in All : Left(todo', Stores(x)) <= 1
    BY <1>5 DEF CInv, StoreInv
  <2> QED
    BY <1>0, <2>1, <2>2 DEF StoreInv, Owns
<1>12. LeafInv'
  BY <1>0, <1>5 DEF CInv, LeafInv
<1> QED
  BY <1>7, <1>9, <1>10, <1>11, <1>12 DEF CInv
-----------------------------------------------------------------------------
(* A release *)

\* What the destructor of o adds: a release for each of its slots, and the
\* delete.
Destroys(list, o) ==
  /\ list \in Seq(Steps)
  /\ \A n \in DOMAIN list : list[n].op # "store"
  /\ \A x \in All : Cardinality(Among(list, Releases(x))) = Cardinality({i \in Slots : slot[o][i] = x})
  /\ \A x : /\ Cardinality(Among(list, Deletes(x))) = One(x = o)
            /\ Cardinality(Among(list, StoresOf(x))) = 0
            /\ Cardinality(Among(list, Stores(x))) = 0
  /\ \A x, j : Cardinality(Among(list, StoresAt(x, j))) = 0

LEMMA DestructorList ==
  ASSUME CInv, NEW o \in All
  PROVE  Destroys(Destructor(o), o)
<1>m. PICK m \in Nat : m = IF kind[o] = "leaf" THEN 0 ELSE NumSlots
  BY ObjectsAssumption
<1>l. PICK list : list = Destructor(o)
  OBVIOUS
<1>0. /\ NumSlots \in Nat /\ Slots = 1 .. NumSlots
      /\ \A x \in All : x # NoObject
      /\ \A i \in Slots : slot[o][i] \in All \union {NoObject}
  BY ObjectsAssumption DEF Slots, All, CInv, CTypeOK
<1>1. /\ list \in Seq(Steps) /\ Len(list) = m + 1
      /\ list[m + 1].op = "delete" /\ list[m + 1].obj = o
      /\ \A i \in 1 .. m : list[i].op = "release" /\ list[i].obj = slot[o][i]
  <2>1. PICK last \in Seq(Steps) : last = <<[op |-> "delete", obj |-> o]>>
    <3>1. PICK d \in Steps : d = [op |-> "delete", obj |-> o]
      BY DEF Steps
    <3>2. <<d>> \in Seq(Steps)
      OBVIOUS
    <3> QED
      BY <3>1, <3>2, Zenon
  <2>2. PICK first \in Seq(Steps) :
          /\ first = (IF kind[o] = "leaf" THEN <<>>
                      ELSE [i \in Slots |-> [op |-> "release", obj |-> slot[o][i]]])
          /\ Len(first) = m
          /\ \A i \in 1 .. m : first[i].op = "release" /\ first[i].obj = slot[o][i]
    <3>1. CASE kind[o] = "leaf"
      <4>1. <<>> \in Seq(Steps) /\ Len(<<>>) = 0 /\ m = 0
        BY <1>m, <3>1
      <4>2. \A i \in 1 .. 0 : <<>>[i].op = "release" /\ <<>>[i].obj = slot[o][i]
        OBVIOUS
      <4> QED
        BY <3>1, <4>1, <4>2
    <3>2. CASE kind[o] # "leaf"
      <4>1. \A i \in Slots : [op |-> "release", obj |-> slot[o][i]] \in Steps
        BY <1>0 DEF Steps
      <4>2. [i \in 1 .. NumSlots |-> [op |-> "release", obj |-> slot[o][i]]] \in Seq(Steps)
        BY <1>0, <4>1
      <4>3. Len([i \in 1 .. NumSlots |-> [op |-> "release", obj |-> slot[o][i]]]) = NumSlots
        BY <1>0, <4>2
      <4> QED
        BY <1>0, <1>m, <3>2, <4>2, <4>3
    <3> QED
      BY <3>1, <3>2
  <2>3. list = first \o last
    BY <1>l, <2>1, <2>2 DEF Destructor
  <2>4. Len(last) = 1 /\ last[1].op = "delete" /\ last[1].obj = o
    BY <2>1
  <2>5. Len(first) = m /\ Len(last) = 1
    BY <2>2, <2>4
  <2>6. /\ list \in Seq(Steps) /\ Len(list) = m + 1 /\ list[m + 1] = last[1]
        /\ \A i \in 1 .. m : list[i] = first[i]
    <3>1. list \in Seq(Steps)
      BY <2>3
    <3>2. /\ Len(first \o last) = Len(first) + Len(last)
          /\ (first \o last)[Len(first) + 1] = last[1]
      <4>1. /\ Len(first \o last) = Len(first) + Len(last)
            /\ \A i \in 1 .. Len(first) + Len(last) :
                 (first \o last)[i] = IF i <= Len(first) THEN first[i] ELSE last[i - Len(first)]
        BY ConcatProperties
      <4> QED
        BY <2>5, <4>1
    <3>3. Len(list) = m + 1 /\ list[m + 1] = last[1]
      BY <2>3, <2>5, <3>2, Zenon
    <3>4. \A i \in 1 .. m : list[i] = first[i]
      BY <2>3, <2>5
    <3> QED
      BY <3>1, <3>3, <3>4
  <2>7. \A i \in 1 .. m : first[i].op = "release" /\ first[i].obj = slot[o][i]
    BY <2>2
  <2> QED
    BY <2>4, <2>6, <2>7
<1>2. DOMAIN list = 1 .. m + 1
  <2>1. list \in Seq(Steps) /\ Len(list) = m + 1
    BY <1>1
  <2> QED
    BY <2>1
<1>3. \A n \in DOMAIN list : list[n] \in Steps
  BY <1>1
<1>4. /\ \A n \in 1 .. m : list[n].op = "release" /\ list[n].obj = slot[o][n]
      /\ list[m + 1].op = "delete" /\ list[m + 1].obj = o
  BY <1>1
<1>5. \A n \in DOMAIN list : n \in 1 .. m \/ n = m + 1
  BY <1>0, <1>2
<1>6. \A n \in 1 .. m : n \in DOMAIN list
  BY <1>0, <1>2
<1>7. m + 1 \in DOMAIN list /\ m + 1 \notin 1 .. m
  BY <1>0, <1>2
<1>8. \A n \in DOMAIN list : list[n].op # "store"
  BY <1>4, <1>5
<1>9. \A x \in All : Among(list, Releases(x)) = {i \in Slots : slot[o][i] = x}
  <2> SUFFICES ASSUME NEW x \in All
               PROVE  Among(list, Releases(x)) = {i \in Slots : slot[o][i] = x}
    OBVIOUS
  <2>1. \A n \in DOMAIN list : list[n] \in Releases(x) <=> n \in 1 .. m /\ slot[o][n] = x
    BY <1>3, <1>4, <1>5, <1>7 DEF Releases
  <2>2. CASE kind[o] = "leaf"
    <3>1. m = 0 /\ \A i \in Slots : slot[o][i] # x
      BY <1>0, <1>m, <2>2 DEF CInv, LeafInv
    <3>2. \A n : n \notin 1 .. m
      BY <3>1
    <3> QED
      BY <2>1, <3>1, <3>2 DEF Among
  <2>3. CASE kind[o] # "leaf"
    <3>1. 1 .. m = Slots
      BY <1>0, <1>m, <2>3
    <3> QED
      BY <1>6, <2>1, <3>1 DEF Among
  <2> QED
    BY <2>2, <2>3
<1>10. \A x : Cardinality(Among(list, Deletes(x))) = One(x = o)
  <2> TAKE x
  <2>1. \A n \in DOMAIN list : list[n] \in Deletes(x) <=> n = m + 1 /\ x = o
    BY <1>3, <1>4, <1>5, <1>7 DEF Deletes
  <2>2. CASE x = o
    <3>1. Among(list, Deletes(x)) = {m + 1}
      BY <1>7, <2>1, <2>2 DEF Among
    <3> QED
      BY <2>2, <3>1, FS_Singleton DEF One
  <2>3. CASE x # o
    <3>1. Among(list, Deletes(x)) = {}
      BY <2>1, <2>3 DEF Among
    <3> QED
      BY <2>3, <3>1, FS_EmptySet DEF One
  <2> QED
    BY <2>2, <2>3
<1>11. \A x, j : /\ Among(list, StoresOf(x)) = {} /\ Among(list, Stores(x)) = {}
                 /\ Among(list, StoresAt(x, j)) = {}
  BY <1>8 DEF Among, StoresOf, Stores, StoresAt
<1>12. Cardinality({}) = 0
  BY FS_EmptySet
<1>13. Destroys(list, o)
  BY <1>1, <1>8, <1>9, <1>10, <1>11, <1>12 DEF Destroys
<1> QED
  BY <1>l, <1>13

\* The last release: the object, which nobody owns, hands what its slots own over
\* to the releases of its destructor.
LEMMA LastRelease ==
  ASSUME CInv, NEW list, NEW s, NEW t \in Threads, NEW o \in All,
         Advances(todo, todo', t, s, list), s.op = "release", s.obj = o, refCount[o] = 1,
         refCount' = [refCount EXCEPT ![o] = @ - 1], Destroys(list, o),
         UNCHANGED <<kind, slot, handles>>
  PROVE  CInv'
<1>1. /\ todo' \in [Threads -> Seq(Steps)] /\ IsFiniteSet(PlacesOf(todo'))
      /\ \A W : Left(todo', W) + One(s \in W) = Left(todo, W) + Cardinality(Among(list, W))
      /\ \A W : Left(todo', W) \in Nat
      /\ \A W : Left(todo, W) \in Nat
  <2>1. /\ todo' \in [Threads -> Seq(Steps)] /\ IsFiniteSet(PlacesOf(todo'))
        /\ \A W : Left(todo', W) + One(s \in W) = Left(todo, W) + Cardinality(Among(list, W))
    <3>1. todo' \in [Threads -> Seq(Steps)] /\ IsFiniteSet(PlacesOf(todo'))
      BY StepDone
    <3>2. ASSUME NEW W
          PROVE  Left(todo', W) + One(s \in W) = Left(todo, W) + Cardinality(Among(list, W))
      BY StepDone
    <3> QED
      BY <3>1, <3>2
  <2>2. \A W : Left(todo', W) \in Nat
    BY <2>1, WhereFinite
  <2>3. \A W : Left(todo, W) \in Nat
    BY WhereFinite DEF CInv, CTypeOK
  <2> QED
    BY <2>1, <2>2, <2>3
<1>2. s \in Steps
  BY DEF Advances, CInv, CTypeOK
<1>3. /\ \A x : One(s \in Releases(x)) = One(x = o)
      /\ \A x, j : /\ One(s \in Deletes(x)) = 0 /\ One(s \in StoresOf(x)) = 0
                   /\ One(s \in Stores(x)) = 0 /\ One(s \in StoresAt(x, j)) = 0
  BY <1>2, ReleaseIs DEF One
<1> DEFINE given(x) == {i \in Slots : slot[o][i] = x}
<1>4. \A x : IsFiniteSet(given(x)) /\ Cardinality(given(x)) \in Nat
  <2>1. IsFiniteSet(Slots)
    <3>1. 1 \in Int /\ NumSlots \in Int
      BY ObjectsAssumption
    <3> QED
      BY <3>1, FS_Interval DEF Slots
  <2>2. \A x : given(x) \subseteq Slots
    OBVIOUS
  <2> HIDE DEF given
  <2> QED
    BY <2>1, <2>2, FS_Subset, FS_CardinalityType
<1>5. /\ \A x : Left(todo', Deletes(x)) = Left(todo, Deletes(x)) + One(x = o)
      /\ \A x : Left(todo', StoresOf(x)) = Left(todo, StoresOf(x))
      /\ \A x : Left(todo', Stores(x)) = Left(todo, Stores(x))
      /\ \A x, j : Left(todo', StoresAt(x, j)) = Left(todo, StoresAt(x, j))
      /\ \A x \in All : Left(todo', Releases(x)) + One(x = o) = Left(todo, Releases(x)) + Cardinality(given(x))
  <2>1. \A x : Left(todo', Deletes(x)) = Left(todo, Deletes(x)) + One(x = o)
    <3> TAKE x
    <3>1. /\ Left(todo', Deletes(x)) + One(s \in Deletes(x))
               = Left(todo, Deletes(x)) + Cardinality(Among(list, Deletes(x)))
          /\ Left(todo', Deletes(x)) \in Nat
      BY <1>1
    <3>2. One(s \in Deletes(x)) = 0 /\ Cardinality(Among(list, Deletes(x))) = One(x = o)
      BY <1>3 DEF Destroys
    <3> QED
      BY <3>1, <3>2
  <2>2. \A W : One(s \in W) = 0 /\ Cardinality(Among(list, W)) = 0 => Left(todo', W) = Left(todo, W)
    <3> TAKE W
    <3>1. /\ Left(todo', W) + One(s \in W) = Left(todo, W) + Cardinality(Among(list, W))
          /\ Left(todo', W) \in Nat /\ Left(todo, W) \in Nat
      BY <1>1
    <3> QED
      BY <3>1
  <2>3. \A x : Left(todo', StoresOf(x)) = Left(todo, StoresOf(x))
    BY <1>3, <2>2 DEF Destroys
  <2>4. \A x : Left(todo', Stores(x)) = Left(todo, Stores(x))
    BY <1>3, <2>2 DEF Destroys
  <2>5. \A x, j : Left(todo', StoresAt(x, j)) = Left(todo, StoresAt(x, j))
    BY <1>3, <2>2 DEF Destroys
  <2>6. ASSUME NEW x \in All
        PROVE  Left(todo', Releases(x)) + One(x = o) = Left(todo, Releases(x)) + Cardinality(given(x))
    <3>1. Left(todo', Releases(x)) + One(s \in Releases(x))
            = Left(todo, Releases(x)) + Cardinality(Among(list, Releases(x)))
      BY <1>1
    <3>2. One(s \in Releases(x)) = One(x = o)
      BY <1>3
    <3>3. Cardinality(Among(list, Releases(x))) = Cardinality(given(x))
      BY DEF Destroys
    <3> QED
      BY <3>1, <3>2, <3>3
  <2> QED
    BY <2>1, <2>3, <2>4, <2>5, <2>6
<1>6. /\ Left(todo, Releases(o)) = 1 /\ Cardinality(HandlesTo(handles, o)) = 0
      /\ kind[o] # "free" /\ Left(todo, Deletes(o)) = 0
  <2>1. Left(todo, Releases(o)) # 0
    <3>1. 1 \in DOMAIN todo[t] /\ todo[t][1] = s /\ todo \in [Threads -> Seq(Steps)]
      BY DEF Advances
    <3>2. s \in Releases(o)
      BY <1>2, ReleaseIs
    <3> QED
      BY <3>1, <3>2, SomeLeft DEF CInv, CTypeOK
  <2>2. refCount[o] = OwnerCount(o)
    BY DEF CInv, CountInv
  <2>3. /\ Cardinality(HandlesTo(handles, o)) \in Nat
        /\ Cardinality(SlotsOf(kind, slot, todo, o)) \in Nat
        /\ Left(todo, Releases(o)) \in Nat /\ Left(todo, StoresOf(o)) \in Nat
        /\ One(o = EmptyArray) \in Nat
    BY CountsNat DEF CInv
  <2>4. kind[o] # "free" /\ Left(todo, Deletes(o)) = 0
    BY DEF CInv, LifeInv
  <2> QED
    BY <2>1, <2>2, <2>3, <2>4 DEF OwnerCount
<1>7. \A i : Left(todo, StoresAt(o, i)) = 0
  <2>1. HandlesTo(handles, o) = {}
    BY <1>6, FS_EmptySet DEF CInv, CTypeOK
  <2>2. ASSUME NEW u \in Threads PROVE ~Owns(u, o)
    <3>1. <<u, 1>> \notin HandlesTo(handles, o)
      BY <2>1
    <3>2. 1 \notin 1 .. handles[u][o]
      BY <3>1, HandlesPairs
    <3>3. handles[u][o] \in Nat
      BY DEF CInv, CTypeOK
    <3> QED
      BY <3>2, <3>3 DEF Owns
  <2> QED
    BY <2>2, NoStores
<1>8. refCount' \in [All -> Nat] /\ \A x \in All : refCount'[x] + One(x = o) = refCount[x]
  BY DEF CInv, CTypeOK, One
<1>9. CTypeOK'
  BY <1>1, <1>8 DEF CInv, CTypeOK
<1>10. \A x \in All : Cardinality(SlotsOf(kind, slot, todo, x))
                        = Cardinality(SlotsOf(kind', slot', todo', x)) + Cardinality(given(x))
  <2> SUFFICES ASSUME NEW x \in All
               PROVE  Cardinality(SlotsOf(kind, slot, todo, x))
                        = Cardinality(SlotsOf(kind', slot', todo', x)) + Cardinality(given(x))
    OBVIOUS
  <2>0. kind' = kind /\ slot' = slot
    OBVIOUS
  <2>1. \A i \in Slots : Refers(kind, slot, todo, o, i, x) <=> i \in given(x)
    BY <1>6, <1>7 DEF Refers, Holds
  <2>2. \A i \in Slots : ~Refers(kind', slot', todo', o, i, x)
    <3>1. Left(todo', Deletes(o)) # 0
      BY <1>5, <1>6 DEF One
    <3> QED
      BY <3>1 DEF Refers, Holds
  <2>3. \A b \in All \ {o}, j \in Slots :
          Refers(kind', slot', todo', b, j, x) <=> Refers(kind, slot, todo, b, j, x)
    <3>1. ASSUME NEW b \in All \ {o} PROVE Left(todo', Deletes(b)) = Left(todo, Deletes(b))
      <4>1. Left(todo', Deletes(b)) = Left(todo, Deletes(b)) + One(b = o) /\ Left(todo, Deletes(b)) \in Nat
        BY <1>1, <1>5
      <4> QED
        BY <4>1 DEF One
    <3> QED
      BY <2>0, <1>5, <3>1 DEF Refers, Holds
  <2> DEFINE S == SlotsOf(kind, slot, todo, x)
             R == SlotsOf(kind', slot', todo', x)
             G == {o} \X given(x)
  <2>4. \A b \in All, j \in Slots : /\ <<b, j>> \in S <=> Refers(kind, slot, todo, b, j, x)
                                    /\ <<b, j>> \in R <=> Refers(kind', slot', todo', b, j, x)
                                    /\ <<b, j>> \in G <=> b = o /\ j \in given(x)
    BY SlotsPairs
  <2>5. /\ \A p \in S : p = <<p[1], p[2]>> /\ p[1] \in All /\ p[2] \in Slots
        /\ \A p \in R : p = <<p[1], p[2]>> /\ p[1] \in All /\ p[2] \in Slots
        /\ \A p \in G : p = <<p[1], p[2]>> /\ p[1] \in All /\ p[2] \in Slots
    BY SlotsPairs
  <2>6. IsFiniteSet(R) /\ IsFiniteSet(G) /\ Cardinality(G) = Cardinality(given(x))
    <3>1. IsFiniteSet(R)
      BY SlotsFinite
    <3>2. IsFiniteSet(given(x))
      BY <1>4
    <3> HIDE DEF given
    <3>3. IsFiniteSet(G) /\ Cardinality(G) = Cardinality(given(x))
      BY <3>2, PairUp
    <3> QED
      BY <3>1, <3>3
  <2>7. S = R \union G /\ R \intersect G = {}
    <3> HIDE DEF S, R, G, given
    <3>1. ASSUME NEW b \in All, NEW j \in Slots
          PROVE  /\ <<b, j>> \in S <=> <<b, j>> \in R \/ <<b, j>> \in G
                 /\ ~(<<b, j>> \in R /\ <<b, j>> \in G)
      BY <2>1, <2>2, <2>3, <2>4
    <3> QED
      BY <2>5, <3>1
  <2> HIDE DEF S, R, G, given
  <2>8. Cardinality(R \union G) = Cardinality(R) + Cardinality(G)
    BY <2>6, <2>7, Apart
  <2>9. Cardinality(S) = Cardinality(R \union G)
    BY <2>7, Zenon
  <2>10. Cardinality(S) = Cardinality(R) + Cardinality(given(x))
    BY <2>6, <2>8, <2>9
  <2> QED
    BY <2>10 DEF S, R
<1> HIDE DEF given
<1>11. CountInv'
  <2> SUFFICES ASSUME NEW x \in All PROVE refCount'[x] = OwnerCount(x)'
    BY DEF CountInv
  <2>1. /\ HandlesTo(handles', x) = HandlesTo(handles, x)
        /\ Left(todo', Releases(x)) + One(x = o) = Left(todo, Releases(x)) + Cardinality(given(x))
        /\ Left(todo', StoresOf(x)) = Left(todo, StoresOf(x))
        /\ Cardinality(SlotsOf(kind, slot, todo, x))
             = Cardinality(SlotsOf(kind', slot', todo', x)) + Cardinality(given(x))
    BY <1>5, <1>10
  <2>2. /\ Cardinality(HandlesTo(handles, x)) \in Nat
        /\ Cardinality(SlotsOf(kind', slot', todo', x)) \in Nat
        /\ Left(todo', Releases(x)) \in Nat /\ Left(todo, Releases(x)) \in Nat
        /\ Left(todo, StoresOf(x)) \in Nat
        /\ One(x = EmptyArray) \in Nat /\ One(x = o) \in Nat /\ Cardinality(given(x)) \in Nat
    BY <1>1, <1>4, CountsNat, SlotsFinite DEF CInv, One
  <2>3. refCount[x] = OwnerCount(x) /\ refCount'[x] + One(x = o) = refCount[x] /\ refCount'[x] \in Nat
    BY <1>8 DEF CInv, CountInv
  <2>4. OwnerCount(x)' + One(x = o) = OwnerCount(x)
    BY <2>1, <2>2 DEF OwnerCount
  <2>5. OwnerCount(x)' \in Nat
    BY <2>1, <2>2 DEF OwnerCount
  <2> QED
    BY <2>2, <2>3, <2>4, <2>5
<1>12. LifeInv'
  <2> SUFFICES ASSUME NEW x \in All
               PROVE  /\ kind[x] = "free" => refCount'[x] = 0 /\ Left(todo', Deletes(x)) = 0
                      /\ kind[x] # "free" /\ refCount'[x] = 0 => Left(todo', Deletes(x)) = 1
                      /\ refCount'[x] > 0 => Left(todo', Deletes(x)) = 0
    BY DEF LifeInv
  <2>1. /\ kind[x] = "free" => refCount[x] = 0 /\ Left(todo, Deletes(x)) = 0
        /\ kind[x] # "free" /\ refCount[x] = 0 => Left(todo, Deletes(x)) = 1
        /\ refCount[x] > 0 => Left(todo, Deletes(x)) = 0
    BY DEF CInv, LifeInv
  <2>2. refCount'[x] + One(x = o) = refCount[x] /\ refCount'[x] \in Nat
    BY <1>8
  <2>3. Left(todo', Deletes(x)) = Left(todo, Deletes(x)) + One(x = o) /\ Left(todo, Deletes(x)) \in Nat
    BY <1>1, <1>5
  <2>4. CASE x = o
    BY <1>6, <2>2, <2>3, <2>4 DEF One
  <2>5. CASE x # o
    BY <2>1, <2>2, <2>3, <2>5 DEF One
  <2> QED
    BY <2>4, <2>5
<1>13. StoreInv'
  <2>1. \A u \in Threads, n \in Nat :
          n \in DOMAIN todo'[u] /\ todo'[u][n].op = "store" => handles'[u][todo'[u][n].obj] > 0
    BY StoresKept DEF Destroys
  <2> QED
    BY <1>5, <2>1 DEF CInv, StoreInv, Owns
<1>14. LeafInv'
  BY <1>5 DEF CInv, LeafInv
<1> QED
  BY <1>9, <1>11, <1>12, <1>13, <1>14 DEF CInv

\* A release of null, or one that is not the last.
NotTheLast(t, s) ==
  /\ todo[t] # <<>> /\ s = Head(todo[t]) /\ s.op = "release"
  /\ todo' = [todo EXCEPT ![t] = Tail(@)] /\ UNCHANGED <<kind, slot, handles>>
  /\ \/ s.obj = NoObject /\ UNCHANGED refCount
     \/ /\ s.obj \in All /\ refCount[s.obj] # 1
        /\ refCount' = [refCount EXCEPT ![s.obj] = @ - 1]

LEMMA FirstReleases ==
  ASSUME CInv, NEW s, NEW t \in Threads, NotTheLast(t, s)
  PROVE  CInv'
<1>0. s.op = "release" /\ UNCHANGED <<kind, slot, handles>>
  BY DEF NotTheLast
<1>1. /\ todo' \in [Threads -> Seq(Steps)] /\ IsFiniteSet(PlacesOf(todo'))
      /\ s \in Steps
      /\ \A W : /\ Left(todo', W) + One(s \in W) = Left(todo, W)
                /\ Left(todo', W) \in Nat /\ Left(todo, W) \in Nat
      /\ \A u \in Threads, n \in Nat :
           n \in DOMAIN todo'[u] /\ todo'[u][n].op = "store" => handles'[u][todo'[u][n].obj] > 0
  BY Popped DEF NotTheLast
<1>2. /\ \A x : Left(todo', Releases(x)) + One(x = s.obj) = Left(todo, Releases(x))
      /\ \A x : /\ Left(todo', Deletes(x)) = Left(todo, Deletes(x))
                /\ Left(todo', Stores(x)) = Left(todo, Stores(x))
                /\ Left(todo', StoresOf(x)) = Left(todo, StoresOf(x))
      /\ \A x, i : Left(todo', StoresAt(x, i)) = Left(todo, StoresAt(x, i))
  <2>1. /\ \A x : One(s \in Releases(x)) = One(x = s.obj)
        /\ \A x, i : /\ One(s \in Deletes(x)) = 0 /\ One(s \in Stores(x)) = 0
                     /\ One(s \in StoresOf(x)) = 0 /\ One(s \in StoresAt(x, i)) = 0
    BY <1>0, <1>1, ReleaseIs DEF One
  <2>2. \A W : One(s \in W) = 0 => Left(todo', W) = Left(todo, W)
    BY <1>1
  <2> QED
    BY <1>1, <2>1, <2>2
<1>3. \A x \in All : Cardinality(SlotsOf(kind', slot', todo', x)) = Cardinality(SlotsOf(kind, slot, todo, x))
  <2>1. kind' = kind /\ slot' = slot
    BY <1>0
  <2>2. \A a \in All : \A i : Holds(kind', todo', a, i) <=> Holds(kind, todo, a, i)
    BY <1>2, <2>1 DEF Holds
  <2>3. \A x \in All : Same(kind, slot, todo, kind', slot', todo', x)
    BY <2>1, <2>2 DEF Same, Refers
  <2> QED
    BY <2>3, SlotsSame
<1>4. \A x \in All : OwnerCount(x)' + One(x = s.obj) = OwnerCount(x) /\ OwnerCount(x)' \in Nat
  <2> TAKE x \in All
  <2>1. /\ HandlesTo(handles', x) = HandlesTo(handles, x)
        /\ Left(todo', Releases(x)) + One(x = s.obj) = Left(todo, Releases(x))
        /\ Left(todo', StoresOf(x)) = Left(todo, StoresOf(x))
        /\ Cardinality(SlotsOf(kind', slot', todo', x)) = Cardinality(SlotsOf(kind, slot, todo, x))
    BY <1>0, <1>2, <1>3
  <2>2. /\ Cardinality(HandlesTo(handles, x)) \in Nat
        /\ Cardinality(SlotsOf(kind, slot, todo, x)) \in Nat
        /\ Left(todo', Releases(x)) \in Nat /\ Left(todo, StoresOf(x)) \in Nat
        /\ One(x = EmptyArray) \in Nat /\ One(x = s.obj) \in Nat
    BY <1>1, CountsNat DEF CInv, One
  <2> QED
    BY <2>1, <2>2 DEF OwnerCount
<1>5. \A x \in All : refCount[x] = OwnerCount(x) /\ refCount[x] \in Nat
  BY DEF CInv, CountInv, CTypeOK
<1>6. refCount' \in [All -> Nat] /\ CountInv'
  <2>1. CASE s.obj = NoObject /\ UNCHANGED refCount
    <3>1. \A x \in All : One(x = s.obj) = 0
      BY <2>1, ObjectsAssumption DEF All, One
    <3>2. \A x \in All : OwnerCount(x)' = OwnerCount(x)
      BY <1>4, <3>1
    <3> QED
      BY <1>5, <2>1, <3>2 DEF CInv, CTypeOK, CountInv
  <2>2. CASE s.obj \in All /\ refCount' = [refCount EXCEPT ![s.obj] = @ - 1]
    <3>1. refCount[s.obj] > 0
      <4>1. OwnerCount(s.obj)' + One(s.obj = s.obj) = OwnerCount(s.obj) /\ OwnerCount(s.obj)' \in Nat
        BY <1>4, <2>2
      <4> QED
        BY <1>5, <2>2, <4>1 DEF One
    <3>2. refCount' \in [All -> Nat]
      BY <2>2, <3>1 DEF CInv, CTypeOK
    <3>3. ASSUME NEW x \in All PROVE refCount'[x] = OwnerCount(x)'
      <4>1. refCount'[x] + One(x = s.obj) = refCount[x] /\ refCount'[x] \in Nat /\ refCount[x] \in Nat
        BY <2>2, <3>1, <3>2 DEF CInv, CTypeOK, One
      <4>2. OwnerCount(x)' + One(x = s.obj) = OwnerCount(x) /\ OwnerCount(x)' \in Nat /\ One(x = s.obj) \in Nat
        BY <1>4 DEF One
      <4> QED
        BY <1>5, <4>1, <4>2
    <3> QED
      BY <3>2, <3>3 DEF CountInv
  <2> QED
    BY <2>1, <2>2 DEF NotTheLast
<1>7. CTypeOK'
  BY <1>0, <1>1, <1>6 DEF CInv, CTypeOK
<1>8. LifeInv'
  <2> SUFFICES ASSUME NEW x \in All
               PROVE  /\ kind[x] = "free" => refCount'[x] = 0 /\ Left(todo, Deletes(x)) = 0
                      /\ kind[x] # "free" /\ refCount'[x] = 0 => Left(todo, Deletes(x)) = 1
                      /\ refCount'[x] > 0 => Left(todo, Deletes(x)) = 0
    BY <1>0, <1>2 DEF LifeInv
  <2>1. /\ kind[x] = "free" => refCount[x] = 0 /\ Left(todo, Deletes(x)) = 0
        /\ kind[x] # "free" /\ refCount[x] = 0 => Left(todo, Deletes(x)) = 1
        /\ refCount[x] > 0 => Left(todo, Deletes(x)) = 0
    BY DEF CInv, LifeInv
  <2>2. CASE refCount'[x] = refCount[x]
    BY <2>1, <2>2
  <2>3. CASE refCount'[x] # refCount[x]
    <3>1. refCount'[x] = refCount[x] - 1 /\ refCount[x] # 1
      BY <2>3 DEF NotTheLast, CInv, CTypeOK
    <3>2. refCount'[x] \in Nat /\ refCount[x] \in Nat
      BY <1>5, <1>6
    <3> QED
      BY <2>1, <3>1, <3>2
  <2> QED
    BY <2>2, <2>3
<1>9. StoreInv'
  BY <1>1, <1>2 DEF CInv, StoreInv, Owns
<1>10. LeafInv'
  BY <1>0, <1>2 DEF CInv, LeafInv
<1> QED
  BY <1>6, <1>7, <1>8, <1>9, <1>10 DEF CInv

LEMMA ReleaseStepKeeps ==
  ASSUME CInv, NEW t \in Threads, ReleaseStep(t)
  PROVE  CInv'
<1> PICK s : s = Head(todo[t])
  OBVIOUS
<1>0. /\ todo[t] # <<>> /\ s.op = "release" /\ UNCHANGED <<kind, slot, handles>>
      /\ s \in Steps /\ Tail(todo[t]) \in Seq(Steps)
  BY DEF ReleaseStep, Idle, CInv, CTypeOK
<1>1. CASE s.obj = NoObject
  <2>1. UNCHANGED refCount /\ todo' = [todo EXCEPT ![t] = Tail(@)]
    BY <1>1 DEF ReleaseStep
  <2> QED
    BY <1>0, <1>1, <2>1, FirstReleases DEF NotTheLast
<1>2. CASE s.obj # NoObject
  <2>0. PICK o \in All : o = s.obj
    BY <1>0, <1>2 DEF Steps
  <2>1. /\ refCount' = [refCount EXCEPT ![o] = @ - 1]
        /\ todo' = [todo EXCEPT ![t] = (IF refCount'[o] = 0 THEN Destructor(o) ELSE <<>>) \o Tail(todo[t])]
    BY <1>2, <2>0 DEF ReleaseStep
  <2>2. refCount'[o] = refCount[o] - 1 /\ refCount[o] \in Nat
    BY <2>1 DEF CInv, CTypeOK
  <2>3. CASE refCount[o] = 1
    <3>1. PICK list : list = Destructor(o)
      OBVIOUS
    <3>2. Destroys(list, o)
      BY <3>1, DestructorList
    <3>3. todo' = [todo EXCEPT ![t] = list \o Tail(todo[t])]
      <4>1. refCount'[o] = 0
        BY <2>2, <2>3
      <4>2. (IF refCount'[o] = 0 THEN Destructor(o) ELSE <<>>) = list
        BY <3>1, <4>1, Zenon
      <4> QED
        BY <2>1, <4>2, Zenon
    <3>4. Advances(todo, todo', t, s, list)
      BY <1>0, <3>2, <3>3 DEF Advances, Destroys, CInv, CTypeOK
    <3> QED
      BY <1>0, <2>0, <2>1, <2>3, <3>2, <3>4, LastRelease
  <2>4. CASE refCount[o] # 1
    <3>1. todo' = [todo EXCEPT ![t] = <<>> \o Tail(todo[t])]
      <4>1. refCount'[o] # 0
        BY <2>2, <2>4
      <4>2. (IF refCount'[o] = 0 THEN Destructor(o) ELSE <<>>) = <<>>
        BY <4>1, Zenon
      <4> QED
        BY <2>1, <4>2, Zenon
    <3>2. <<>> \o Tail(todo[t]) = Tail(todo[t])
      BY <1>0
    <3>3. todo' = [todo EXCEPT ![t] = Tail(@)]
      BY <3>1, <3>2
    <3> QED
      BY <1>0, <2>0, <2>1, <2>4, <3>3, FirstReleases DEF NotTheLast
  <2> QED
    BY <2>3, <2>4
<1> QED
  BY <1>1, <1>2
-----------------------------------------------------------------------------
(* Every step *)

LEMMA NextCInv == CInv /\ [Next]_vars => CInv'
<1> SUFFICES ASSUME CInv, [Next]_vars PROVE CInv'
  OBVIOUS
<1>1. CASE UNCHANGED vars
  BY <1>1 DEF vars, CInv, CTypeOK, CountInv, OwnerCount, LifeInv, StoreInv, LeafInv, Owns
<1>2. ASSUME NEW t \in Threads, Step(t) PROVE CInv'
  BY <1>2, ReleaseStepKeeps, DeleteStepKeeps, StoreStepKeeps DEF Step
<1>3. ASSUME NEW t \in Threads, Call(t) PROVE CInv'
  <2>1. CASE NewEmptyArray(t)
    BY <2>1, NewEmptyArrayStep
  <2>2. CASE \E o \in Objects : \E k \in {"leaf", "array"} : New(t, o, k)
    BY <2>2, NewStep
  <2>3. CASE \E o \in Objects, v \in All \union {NoObject} : NewOutcome(t, o, v)
    BY <2>3, NewOutcomeStep
  <2>4. CASE \E o \in All : Retain(t, o) \/ Release(t, o)
    BY <2>4, RetainStep, ReleaseCall
  <2>5. CASE \E a \in All, i \in Slots : Get(t, a, i)
    BY <2>5, GetStep
  <2>6. CASE \E a \in All, i \in Slots, v \in All \union {NoObject} : Set(t, a, i, v)
    BY <2>6, SetStep
  <2>7. CASE \E u \in Threads \ {t}, o \in All : PassOn(t, u, o)
    BY <2>7, PassOnStep
  <2> QED
    BY <1>3, <2>1, <2>2, <2>3, <2>4, <2>5, <2>6, <2>7 DEF Call
<1> QED
  BY <1>1, <1>2, <1>3 DEF Next

\* The invariant holds of every state that the calls of a program lead to.
THEOREM CountsKept == Spec => []CInv
<1>1. Init => CInv
  BY InitCInv
<1>2. CInv /\ [Next]_vars => CInv'
  BY NextCInv
<1> QED
  BY <1>1, <1>2, PTL DEF Spec

-----------------------------------------------------------------------------
(* The properties *)

\* What the properties say of places and slots, in terms of the counts.
LEMMA PendingIs ==
  ASSUME CInv, NEW o
  PROVE  /\ Pending("release", o) = Where(todo, Releases(o))
         /\ Pending("delete", o) = Where(todo, Deletes(o))
         /\ Pending("store", o) = Where(todo, Stores(o))
         /\ {p \in Places : StepAt(p).op = "store" /\ StepAt(p).value = o} = Where(todo, StoresOf(o))
<1>1. Places = PlacesOf(todo)
  BY DEF Places, PlacesOf
<1>2. \A p \in Places : todo[p[1]][p[2]] \in Steps
  <2>1. \A u \in Threads : \A n \in DOMAIN todo[u] : todo[u][n] \in Steps
    BY DEF CInv, CTypeOK
  <2> QED
    BY <1>1, <2>1, InPlaces
<1>3. \A p \in Places : StepAt(p) = todo[p[1]][p[2]]
  BY DEF StepAt
<1>4. Pending("release", o) = Where(todo, Releases(o))
  BY <1>1, <1>2, <1>3 DEF Pending, Where, Releases
<1>5. Pending("delete", o) = Where(todo, Deletes(o))
  BY <1>1, <1>2, <1>3 DEF Pending, Where, Deletes
<1>6. Pending("store", o) = Where(todo, Stores(o))
  BY <1>1, <1>2, <1>3 DEF Pending, Where, Stores
<1>7. {p \in Places : StepAt(p).op = "store" /\ StepAt(p).value = o} = Where(todo, StoresOf(o))
  BY <1>1, <1>2, <1>3 DEF Where, StoresOf
<1> QED
  BY <1>4, <1>5, <1>6, <1>7

LEMMA DyingIs ==
  ASSUME CInv, NEW o
  PROVE  Dying(o) <=> Left(todo, Deletes(o)) # 0
<1>1. Pending("delete", o) = Where(todo, Deletes(o))
  BY PendingIs
<1>2. Left(todo, Deletes(o)) = 0 <=> Where(todo, Deletes(o)) = {}
  BY SomeLeft DEF CInv, CTypeOK
<1> QED
  BY <1>1, <1>2 DEF Dying

LEMMA SlotsAre ==
  ASSUME CInv, NEW o
  PROVE  OwningSlots(o) = SlotsOf(kind, slot, todo, o)
<1>1. ASSUME NEW a \in All, NEW i \in Slots
      PROVE  (\A p \in Pending("store", a) : StepAt(p).index # i)
               <=> Left(todo, StoresAt(a, i)) = 0
  <2>1. Pending("store", a) = Where(todo, Stores(a))
    BY PendingIs
  <2>2. \A p \in Where(todo, Stores(a)) : StepAt(p) \in Stores(a)
    BY DEF Where, StepAt
  <2>3. \A p : p \in Where(todo, StoresAt(a, i)) <=> p \in Where(todo, Stores(a)) /\ StepAt(p).index = i
    BY DEF Where, StepAt, Stores, StoresAt
  <2>4. Left(todo, StoresAt(a, i)) = 0 <=> Where(todo, StoresAt(a, i)) = {}
    BY SomeLeft DEF CInv, CTypeOK
  <2> QED
    BY <2>1, <2>3, <2>4
<1>2. \A a \in All, i \in Slots :
        Refers(kind, slot, todo, a, i, o)
          <=> /\ Allocated(a) /\ ~Dying(a) /\ slot[a][i] = o
              /\ \A p \in Pending("store", a) : StepAt(p).index # i
  BY <1>1, DyingIs DEF Refers, Holds, Allocated
<1>3. \A x \in All \X Slots : x[1] \in All /\ x[2] \in Slots
  OBVIOUS
<1>4. \A x \in All \X Slots :
        Refers(kind, slot, todo, x[1], x[2], o)
          <=> /\ Allocated(x[1]) /\ ~Dying(x[1]) /\ slot[x[1]][x[2]] = o
              /\ \A p \in Pending("store", x[1]) : StepAt(p).index # x[2]
  BY <1>2, <1>3
<1> QED
  BY <1>4 DEF OwningSlots, SlotsOf

\* Owners of different sorts are different.
LEMMA Sorts ==
  ASSUME NEW a, NEW b, a # b, NEW S, NEW T
  PROVE  ({a} \X S) \intersect ({b} \X T) = {}
  OBVIOUS

LEMMA OwnersCount ==
  ASSUME CInv, NEW o \in All
  PROVE  IsFiniteSet(Owners(o)) /\ Cardinality(Owners(o)) = OwnerCount(o)
<1>1. PICK H, S, R, T, E :
        /\ H = HandlesTo(handles, o) /\ S = SlotsOf(kind, slot, todo, o)
        /\ R = Where(todo, Releases(o)) /\ T = Where(todo, StoresOf(o))
        /\ E = IF o = EmptyArray THEN {1} ELSE {}
  OBVIOUS
<1>2. Owners(o) = ((((({"handle"} \X H) \union ({"slot"} \X S)) \union ({"release"} \X R))
                       \union ({"store"} \X T)) \union ({"static"} \X E))
  <2>1. OwningSlots(o) = S
    BY <1>1, SlotsAre
  <2>2. Pending("release", o) = R
    BY <1>1, PendingIs
  <2>3. {p \in Places : StepAt(p).op = "store" /\ StepAt(p).value = o} = T
    BY <1>1, PendingIs
  <2>4. UNION {{t} \X (1 .. handles[t][o]) : t \in Threads} = H
    BY <1>1 DEF HandlesTo
  <2> QED
    BY <1>1, <2>1, <2>2, <2>3, <2>4, Zenon DEF Owners
<1>3. /\ IsFiniteSet(H) /\ IsFiniteSet(S) /\ IsFiniteSet(R) /\ IsFiniteSet(T) /\ IsFiniteSet(E)
      /\ Cardinality(E) = One(o = EmptyArray)
  <2>1. IsFiniteSet(H) /\ IsFiniteSet(S) /\ IsFiniteSet(R) /\ IsFiniteSet(T)
    BY <1>1, SlotsFinite, WhereFinite DEF CInv, CTypeOK
  <2>2. CASE o = EmptyArray
    <3>1. E = {1}
      BY <1>1, <2>2
    <3> QED
      BY <2>1, <2>2, <3>1, FS_Singleton DEF One
  <2>3. CASE o # EmptyArray
    <3>1. E = {}
      BY <1>1, <2>3
    <3> QED
      BY <2>1, <2>3, <3>1, FS_EmptySet DEF One
  <2> QED
    BY <2>2, <2>3
<1>4. PICK H1, S1, R1, T1, E1 :
        /\ H1 = {"handle"} \X H /\ S1 = {"slot"} \X S /\ R1 = {"release"} \X R
        /\ T1 = {"store"} \X T /\ E1 = {"static"} \X E
  OBVIOUS
<1>5. /\ IsFiniteSet(H1) /\ Cardinality(H1) = Cardinality(H)
      /\ IsFiniteSet(S1) /\ Cardinality(S1) = Cardinality(S)
      /\ IsFiniteSet(R1) /\ Cardinality(R1) = Cardinality(R)
      /\ IsFiniteSet(T1) /\ Cardinality(T1) = Cardinality(T)
      /\ IsFiniteSet(E1) /\ Cardinality(E1) = Cardinality(E)
  BY <1>3, <1>4, PairUp
<1>6. /\ H1 \intersect S1 = {} /\ H1 \intersect R1 = {} /\ H1 \intersect T1 = {}
      /\ H1 \intersect E1 = {} /\ S1 \intersect R1 = {} /\ S1 \intersect T1 = {}
      /\ S1 \intersect E1 = {} /\ R1 \intersect T1 = {} /\ R1 \intersect E1 = {}
      /\ T1 \intersect E1 = {}
  BY <1>4, Sorts
<1>7. PICK A, B, C, D : /\ A = H1 \union S1 /\ B = A \union R1 /\ C = B \union T1 /\ D = C \union E1
  OBVIOUS
<1>8. A \intersect R1 = {} /\ B \intersect T1 = {} /\ C \intersect E1 = {}
  BY <1>6, <1>7
<1>9. IsFiniteSet(A) /\ Cardinality(A) = Cardinality(H1) + Cardinality(S1)
  BY <1>5, <1>6, <1>7, Apart
<1>10. IsFiniteSet(B) /\ Cardinality(B) = Cardinality(A) + Cardinality(R1)
  BY <1>5, <1>7, <1>8, <1>9, Apart
<1>11. IsFiniteSet(C) /\ Cardinality(C) = Cardinality(B) + Cardinality(T1)
  BY <1>5, <1>7, <1>8, <1>10, Apart
<1>12. IsFiniteSet(D) /\ Cardinality(D) = Cardinality(C) + Cardinality(E1)
  BY <1>5, <1>7, <1>8, <1>11, Apart
<1>13. Owners(o) = D
  BY <1>2, <1>4, <1>7, Zenon
<1>14. /\ Cardinality(H) = Cardinality(HandlesTo(handles, o))
       /\ Cardinality(S) = Cardinality(SlotsOf(kind, slot, todo, o))
       /\ Cardinality(R) = Left(todo, Releases(o)) /\ Cardinality(T) = Left(todo, StoresOf(o))
  BY <1>1 DEF Left
<1>15. Cardinality(D) = OwnerCount(o)
  BY <1>3, <1>5, <1>9, <1>10, <1>11, <1>12, <1>14 DEF OwnerCount
<1> QED
  BY <1>12, <1>13, <1>15

LEMMA CountsGiveProperties == CInv => RefCountExact /\ NothingDangles /\ NoLeak
<1> SUFFICES ASSUME CInv PROVE RefCountExact /\ NothingDangles /\ NoLeak
  OBVIOUS
<1>1. RefCountExact
  BY OwnersCount DEF RefCountExact, CInv, CountInv
<1>2. \A o \in All : refCount[o] > 0 => Allocated(o) /\ ~Dying(o)
  <2> SUFFICES ASSUME NEW o \in All, refCount[o] > 0 PROVE Allocated(o) /\ ~Dying(o)
    OBVIOUS
  <2>1. Left(todo, Deletes(o)) = 0 /\ kind[o] # "free"
    BY DEF CInv, LifeInv, CTypeOK
  <2> QED
    BY <2>1, DyingIs DEF Allocated
<1>3. NothingDangles
  <2>1. ASSUME NEW o \in All, NEW t \in Threads, Owns(t, o) PROVE refCount[o] > 0
    BY <2>1, OwnedAlive
  <2>2. ASSUME NEW o \in All, OwningSlots(o) # {} PROVE refCount[o] > 0
    <3>1. PICK x : x \in SlotsOf(kind, slot, todo, o)
      BY <2>2, SlotsAre
    <3>2. /\ x[1] \in All /\ x[2] \in Slots
          /\ Holds(kind, todo, x[1], x[2]) /\ slot[x[1]][x[2]] = o
      BY <3>1 DEF SlotsOf, Refers
    <3> QED
      BY <3>2, SlotAlive
  <2> QED
    BY <1>2, <2>1, <2>2, EmptyArrayAlive DEF NothingDangles
<1>4. NoLeak
  <2> SUFFICES ASSUME \A t \in Threads : Idle(t), NEW o \in All, Allocated(o)
               PROVE  Owners(o) # {}
    BY DEF NoLeak
  <2>1. Left(todo, Deletes(o)) = 0
    BY SomeLeft DEF Idle, CInv, CTypeOK
  <2>2. refCount[o] # 0
    BY <2>1 DEF Allocated, CInv, LifeInv
  <2>3. Cardinality(Owners(o)) # 0
    BY <2>2, OwnersCount DEF CInv, CountInv
  <2> QED
    BY <2>3, FS_EmptySet
<1> QED
  BY <1>1, <1>3, <1>4

\* The reference count of an object that has not been freed is the number of its
\* owners, whatever calls, releases and cascades of destructors are under way in
\* other threads (Object::retain() and Object::release(), djinni_c.cpp).
THEOREM CountsAreExact == Spec => []RefCountExact
  BY CountsKept, CountsGiveProperties, PTL

\* What a handle or a slot refers to has not been freed, nor has its destructor
\* begun; nor is the array that all empty arrays share ever freed.
THEOREM OwnedIsAlive == Spec => []NothingDangles
  BY CountsKept, CountsGiveProperties, PTL

\* When no call is under way, every object that has not been freed has an owner.
THEOREM NothingLeaks == Spec => []NoLeak
  BY CountsKept, CountsGiveProperties, PTL
=============================================================================
