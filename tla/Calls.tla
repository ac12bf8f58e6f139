------------------------------- MODULE Calls -------------------------------
(***************************************************************************)
(* One call across a language border, through the glue of the test suite:  *)
(* a call, which the target makes in C++, or a callback, which C++ makes   *)
(* in the target.  The arguments go over leg by leg, the callee answers,   *)
(* and the result comes back.  A conversion that throws, asserts or        *)
(* crashes ends the call.                                                  *)
(*                                                                         *)
(* Besides the methods of the interfaces there are echoes: a value of a    *)
(* record (interface "records") or of one of ValueTypes ("values") that    *)
(* is sent over and returned, as a field of a record of that type would be.*)
(***************************************************************************)
EXTENDS Marshalling, FiniteSets

CONSTANT ValueTypes

VARIABLES crossing, phase, leg, args, result
vars == <<crossing, phase, leg, args, result>>

\* "malformed" is "edge" with bad text, where C++ makes the value.
Samples == {"plain", "empty", "edge", "malformed"}

(***************************************************************************)
(* What is declared.                                                       *)
(***************************************************************************)
Methods(table) == IF table.kind = "interface" THEN table.calls \o table.proxied ELSE <<>>
Declared(c) ==
    CASE c.interface = "records" -> M(c.method, << <<"value", Named(c.method)>> >>, Named(c.method))
      [] c.interface = "values" -> M(c.method, << <<"value", c.method>> >>, c.method)
      [] OTHER -> LET ms == Methods(Idl!Interfaces[c.interface]) IN ms[MethodNamed(ms, c.method)]
IsEcho(c) == c.interface \in {"records", "values"}

Direction(c) == IF c.way = "call" THEN "toCpp" ELSE "fromCpp"
Legs(c, dir) == IF dir = "fromCpp" THEN OutLegs[c.platform] ELSE InLegs[c.platform]
Back(dir) == IF dir = "toCpp" THEN "fromCpp" ELSE "toCpp"

(***************************************************************************)
(* What the glue of a leg does for the call.  The Swift half is called     *)
(* back through the protocol table, at the index of the C++ half's method. *)
(***************************************************************************)
Side(c, table) == IF c.way = "call" THEN table.calls ELSE table.proxied
EntryOf(c, l) ==
    IF IsEcho(c) THEN Declared(c)
    ELSE LET own == Side(c, InterfaceGlue[l][c.interface])
         IN  IF c.way = "callback" /\ l = "swift"
             THEN own[MethodNamed(Side(c, Swiftxx!Interfaces[c.interface]), c.method)]
             ELSE own[MethodNamed(own, c.method)]
Reached(c) == EntryOf(c, Legs(c, Direction(c))[Len(Legs(c, Direction(c)))]).name

Convert(dir, l, t, v) == IF dir = "toCpp" THEN ToCpp(l, t, v) ELSE FromCpp(l, t, v)

Passed(c, l, dir) ==
    LET declared == Declared(c).params
        entry == EntryOf(c, l).params
    IN  [i \in DOMAIN declared |->
            IF i \notin DOMAIN entry THEN Failed
            ELSE Convert(dir, l, entry[i][2], args[SourceOf(dir, l, declared, entry, i)])]

Returned(c, l, dir) == Convert(dir, l, EntryOf(c, l).ret, result)

(***************************************************************************)
(* What is sent: C++ values of the declared types, every one different.    *)
(* A std::string that is not UTF-8 comes from C++, and so do dates finer   *)
(* than a millisecond; NSDate and Swift's Date are as fine.                *)
(***************************************************************************)
FromCppSide(c) == c.way = "callback"
SubMillisecond(c, cppMade) == cppMade \/ c.platform \in {"objc", "swift"}

RECURSIVE Sample(_, _, _, _, _)
Sample(c, cppMade, kind, t, id) ==
    LET Sub(u, i) == Sample(c, cppMade, kind, u, 10 * id + i)
        Plain(u, i) == Sample(c, cppMade, "plain", u, 10 * id + i)
    IN  CASE t = String /\ kind = "malformed" /\ cppMade /\ c.platform # "valdi" -> Malformed
          [] Class(t) = "String" -> <<"String", id>>
          [] t[1] = "Date" ->
                (CASE kind = "plain" -> <<"Date", Second * id>>
                   [] kind = "empty" -> <<"Date", -(Second * id + 3 * Millisecond)>>
                   [] OTHER -> <<"Date", -(Second * id + IF SubMillisecond(c, cppMade) THEN 1 ELSE 0)>>)
          [] t[1] = "Duration" -> <<"Duration", id, t[3]>>
          [] t[1] = "Proto" -> <<"Proto", id, t[2]>>
          [] t[1] = "Void" -> t
          [] t[1] = "Optional" -> IF kind = "empty" THEN None ELSE Some(Sub(t[2], 1))
          [] t[1] \in {"Future", "Provider"} -> <<t[1], <<Sub(t[2], 1)>>>>
          [] t[1] = "Outcome" ->
                (CASE kind = "plain" -> <<"Result", Plain(t[2], 1)>>
                   [] kind = "empty" -> <<"Result", Sub(t[2], 1)>>
                   [] OTHER -> <<"Error", Sub(t[3], 2)>>)
          [] Class(t) \in {"List", "Set"} ->
                <<Class(t), IF kind = "empty" THEN <<>> ELSE <<Plain(t[2], 1), Sub(t[2], 2), Plain(t[2], 3)>>>>
          [] t[1] = "Map" ->
                <<"Map", IF kind = "empty" THEN <<>>
                         ELSE <<Plain(t[2], 1), Sub(t[3], 2), Plain(t[2], 3), Plain(t[3], 4)>>>>
          [] t[1] = "Named" /\ t[2] \in DOMAIN Idl!Records ->
                LET fields == Idl!Records[t[2]].fields
                IN  <<"Record", [i \in DOMAIN fields |-> Sub(fields[i][2], i)], t[2]>>
          [] t[1] = "Named" /\ t[2] \in DOMAIN Idl!Enums ->
                <<"Enum", OptionsOf(t[2])[(id % Len(OptionsOf(t[2]))) + 1], t[2]>>
          [] t[1] = "Named" -> <<"Object", id, t[2]>>
          [] OTHER -> <<t[1], id>>

\* The target's value for a C++ value, whatever the target.
RECURSIVE Shown(_, _)
Shown(t, v) ==
    CASE t[1] = "Optional" -> IF v = None THEN Null ELSE Shown(t[2], v[2])
      [] Class(t) \in Collections -> <<v[1], [i \in DOMAIN v[2] |-> Shown(ElementType(t, i), v[2][i])]>>
      [] t[1] = "Outcome" -> <<v[1], Shown(IF v[1] = "Result" THEN t[2] ELSE t[3], v[2])>>
      [] t[1] = "Named" /\ v[1] = "Record" ->
            <<"Record", [i \in DOMAIN v[2] |-> Shown(Idl!Records[t[2]].fields[i][2], v[2][i])], t[2]>>
      [] OTHER -> v

SentOf(c, i) == Sample(c, FromCppSide(c), c.sample, Declared(c).params[i][2], i)
AnsweredOf(c) == Sample(c, ~FromCppSide(c), c.sample, Declared(c).ret, 7)

\* In the language of the side that has it.
Here(c, cppSide, t, v) == IF cppSide THEN v ELSE Shown(t, v)

(***************************************************************************)
(* The crossings.                                                          *)
(***************************************************************************)
GlueCrossings ==
    UNION {UNION {UNION {{[platform |-> p, way |-> w, interface |-> n, method |-> m.name, sample |-> s] :
              m \in {Side([way |-> w], InterfaceGlue[InLegs[p][1]][n])[i] :
                        i \in DOMAIN Side([way |-> w], InterfaceGlue[InLegs[p][1]][n])},
              s \in Samples} :
           n \in DOMAIN InterfaceGlue[InLegs[p][1]]} :
        w \in {"call", "callback"}} :
    p \in Platforms}
RecordCrossings ==
    UNION {{[platform |-> p, way |-> w, interface |-> "records", method |-> n, sample |-> s] :
              w \in {"call", "callback"}, n \in DOMAIN RecordGlue[InLegs[p][1]], s \in Samples} :
           p \in Platforms}
ValueCrossings ==
    [platform : Platforms \union {"valdi"}, way : {"call", "callback"}, interface : {"values"},
     method : ValueTypes, sample : Samples]

Init ==
    /\ \/ crossing \in GlueCrossings
       \/ crossing \in RecordCrossings
       \/ crossing \in ValueCrossings
    /\ phase = "going"
    /\ leg = 1
    /\ args = [i \in DOMAIN Declared(crossing).params |->
                 Here(crossing, FromCppSide(crossing), Declared(crossing).params[i][2], SentOf(crossing, i))]
    /\ result = <<"Void">>

\* (A value that is used more than once is bound, so that TLC evaluates it once.)
Passing == {Passed(crossing, Legs(crossing, Direction(crossing))[leg], Direction(crossing))}

Go ==
    /\ phase = "going"
    /\ \E passed \in Passing :
          /\ \A i \in DOMAIN passed : passed[i] # Failed
          /\ args' = passed
    /\ leg' = leg + 1
    /\ phase' = IF leg = Len(Legs(crossing, Direction(crossing))) THEN "there" ELSE "going"
    /\ UNCHANGED <<crossing, result>>

GoFails ==
    /\ phase = "going"
    /\ \E passed \in Passing : \E i \in DOMAIN passed : passed[i] = Failed
    /\ phase' = "failed going"
    /\ UNCHANGED <<crossing, leg, args, result>>

\* An echo returns what it got.
Answer ==
    /\ phase = "there"
    /\ phase' = "coming"
    /\ leg' = 1
    /\ result' = IF IsEcho(crossing) THEN args[1]
                 ELSE Here(crossing, ~FromCppSide(crossing), Declared(crossing).ret, AnsweredOf(crossing))
    /\ UNCHANGED <<crossing, args>>

Returning ==
    LET dir == Back(Direction(crossing)) IN {Returned(crossing, Legs(crossing, dir)[leg], dir)}

Come ==
    /\ phase = "coming"
    /\ \E returned \in Returning : returned # Failed /\ result' = returned
    /\ leg' = leg + 1
    /\ phase' = IF leg = Len(Legs(crossing, Back(Direction(crossing)))) THEN "back" ELSE "coming"
    /\ UNCHANGED <<crossing, args>>

ComeFails ==
    /\ phase = "coming"
    /\ Returning = {Failed}
    /\ phase' = "failed coming"
    /\ UNCHANGED <<crossing, leg, args, result>>

Next == Go \/ GoFails \/ Answer \/ Come \/ ComeFails
Spec == Init /\ [][Next]_vars

-----------------------------------------------------------------------------
\* The same value, but for what a border is known to lose: text that was not UTF-8, and of
\* a date what is below the unit.  A date that was sent counts s.sent times, one that came
\* s.came times: not once each where Swift shows another moment, see SwiftDate.
RECURSIVE Alike(_, _, _)
Alike(s, a, b) ==
    \/ a = b
    \/ a = Malformed /\ b \in {Null, Replaced}
    \/ a = Some(Malformed) /\ b = None
    \/ /\ a[1] = "Date" /\ b[1] = "Date"
       /\ LET lost == s.sent * a[2] - s.came * b[2] IN -s.within < lost /\ lost < s.within
    \/ /\ a[1] \in {"Some", "Result", "Error"}
       /\ b[1] = a[1]
       /\ Alike(s, a[2], b[2])
    \/ /\ a[1] \in Collections \union {"Record"}
       /\ b[1] = a[1]
       /\ DOMAIN a[2] = DOMAIN b[2]
       /\ \A i \in DOMAIN a[2] : Alike(s, a[2][i], b[2][i])

ToThe(unit) == [sent |-> 1, came |-> 1, within |-> unit]
Scale(c, toCpp) ==
    IF c.platform # "swift" THEN ToThe(Millisecond)
    ELSE IF toCpp THEN [sent |-> 1, came |-> 1000, within |-> Second]
    ELSE [sent |-> 1000, came |-> 1, within |-> 1000 * Millisecond]

\* The callee that the glue reaches is the declared one, and each argument that it gets
\* is the one that was passed for it: the order, the names and the converters of the
\* generated glue agree with the IDL, in every target and in both directions, through
\* records in any depth.  A date loses less than a millisecond; Swift shows one of C++ a
\* thousand times as late, C++ one of Swift a thousand times as early, to the second.
ArgumentsArrive ==
    phase \in {"there", "coming", "back"} =>
        /\ Reached(crossing) = crossing.method
        /\ \A i \in DOMAIN args :
              \E sent \in {Here(crossing, ~FromCppSide(crossing), Declared(crossing).params[i][2],
                               SentOf(crossing, i))} :
                 Alike(Scale(crossing, ~FromCppSide(crossing)), sent, args[i])

\* The caller gets the result that the callee returned.
ResultsArrive ==
    phase = "back" /\ ~IsEcho(crossing) =>
        \E answered \in {Here(crossing, FromCppSide(crossing), Declared(crossing).ret,
                             AnsweredOf(crossing))} :
           Alike(Scale(crossing, FromCppSide(crossing)), answered, result)

\* Both, for every call and callback of the test suite.
CallsArrive == ArgumentsArrive /\ ResultsArrive

\* A value that crosses and returns is the same, to the millisecond where it is a date,
\* and to the second where the date started in Swift; an outcome is on the side it was.
ValuesComeBack ==
    phase = "back" /\ IsEcho(crossing) =>
        \E sent \in {Here(crossing, FromCppSide(crossing), Declared(crossing).ret,
                         SentOf(crossing, 1))} :
           Alike(ToThe(IF crossing.platform = "swift" /\ ~FromCppSide(crossing) THEN Second
                       ELSE Millisecond),
                 sent, result)

\* C++ has put text that is not UTF-8 somewhere into the value.
RECURSIVE HasMalformed(_)
HasMalformed(v) ==
    \/ v = Malformed
    \/ v[1] \in {"Some", "Result", "Error"} /\ HasMalformed(v[2])
    \/ v[1] \in Collections \union {"Record"} /\ \E i \in DOMAIN v[2] : HasMalformed(v[2][i])

\* A conversion fails only for a value that C++ made with text that is not UTF-8 in it,
\* and only in JNI, which throws for it, and in Objective-C, which makes a nil of it: a
\* collection cannot take that, nor can C++ have it back.  Each argument by itself: the
\* others of the call do not excuse it.  With its text well formed ("edge"), the value crosses, the
\* error of an outcome and a date before the epoch included.
OnlyMalformedTextFails ==
    /\ phase \in {"failed going", "failed coming"} => crossing.platform \in {"jni", "objc"}
    /\ phase = "failed going" =>
          \A passed \in Passing : \A i \in DOMAIN passed :
             passed[i] = Failed => HasMalformed(SentOf(crossing, i))
    /\ phase = "failed coming" =>
          HasMalformed(IF IsEcho(crossing) THEN SentOf(crossing, 1) ELSE AnsweredOf(crossing))

\* For OutcomesKeepTheirSide: an outcome whose two sides may both be empty.
OutcomeTypes == {Outcome(Optional(I32), Optional(String))}

\* Outcome_valdi.hpp: what it sends must not be misread "as a *result* outcome" but "stays
\* an error", and the same for the result: an outcome arrives on the side it was sent.
OutcomesKeepTheirSide ==
    phase = "back" /\ IsEcho(crossing) /\ Declared(crossing).ret[1] = "Outcome" =>
        result[1] = SentOf(crossing, 1)[1]
=============================================================================
