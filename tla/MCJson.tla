-------------------------------- MODULE MCJson --------------------------------
(* JSON.stringify of an object, an array inside it and a third object in the   *)
(* array, with every value, cycle, toJSON and replacer.                        *)
EXTENDS Json

---------------------------------------------------------------------------
\* JSON.stringify of ECMAScript: every element and property gives a text of its
\* own, or none, and the texts of an object or array are joined.  Nothing in this
\* section is translated from the repository.

None == <<"none">>

Joined(texts, gap, depth) ==
  LET line(d) == IF gap THEN <<<<"line", d>>>> ELSE <<>>
      RECURSIVE From(_)
      From(i) == texts[i] \o IF i = Len(texts) THEN <<>> ELSE <<",">> \o line(depth + 1) \o From(i + 1)
  IN  IF texts = <<>> THEN <<>> ELSE line(depth + 1) \o From(1) \o line(depth)

RECURSIVE Serialize(_, _, _, _, _), SerializeAll(_, _, _, _, _)

\* The property names of an object or array.
JsNames(c, o) ==
  CASE o.kind = "array" -> [i \in DOMAIN o.vals |-> ToString(i - 1)]
    [] o.kind # "array" /\ c.props # <<"all">> -> c.props[2]
    [] OTHER -> SelectSeq(o.keys, LAMBDA k : HasOwn(o, k))

Bracketed(c, kind, depth, parts) ==
  LET brackets == IF kind = "array" THEN <<"[", "]">> ELSE <<"{", "}">>
  IN  IF parts.err # "none" THEN parts
      ELSE Ok(<<brackets[1]>> \o Joined(parts.v, c.gap, depth) \o <<brackets[2]>>, parts.st)

SerializeValue(c, v, above, st) ==
  CASE v[1] = "ref" /\ \E i \in DOMAIN above : above[i] = v -> Throw(TypeError, st)
    [] v[1] = "ref" -> Bracketed(c, st.heap[v[2]].kind, Len(above),
                         SerializeAll(c, JsNames(c, st.heap[v[2]]), v, Append(above, v), st))
    [] v \in {NaN, Null} -> Ok(<<"null">>, st)
    [] v[1] \in {"num", "str", "bool"} -> Ok(<<v>>, st)
    [] OTHER -> Ok(None, st)

\* SerializeJSONProperty: above has the objects around this one.
Serialize(c, key, holder, above, st) ==
  LET ToJSON(v) == IF v[1] = "ref" /\ ~IsArray(v, st) THEN GetProp(v, "toJSON", st).v ELSE Undefined
      Said(v) == IF Callable(ToJSON(v)) THEN Call(ToJSON(v), <<Str(key)>>, st) ELSE Ok(v, st)
  IN  Then(Said(GetProp(holder, key, st).v), LAMBDA v, s :
        Then(IF Callable(c.replacer) THEN Call(c.replacer, <<Str(key), v>>, s) ELSE Ok(v, s),
             LAMBDA w, t : SerializeValue(c, w, above, t)))

\* The texts of the elements, or of the properties that have one.
TextOf(text, array, name) ==
  CASE text # None /\ array -> <<text>>
    [] text # None /\ ~array -> <<<<Str(name), ":">> \o text>>
    [] text = None /\ array -> <<<<"null">>>>
    [] OTHER -> <<>>

SerializeAll(c, names, v, above, st) ==
  IF names = <<>> THEN Ok(<<>>, st)
  ELSE Then(Serialize(c, names[1], v, above, st), LAMBDA x, s :
         Then(SerializeAll(c, Tail(names), v, above, s), LAMBDA rest, t :
           Ok(TextOf(x, IsArray(v, st), names[1]) \o rest, t)))

JsStringify(c, v, st) ==
  LET s == [st EXCEPT !.heap = Append(@, Object(<<"">>, <<v>>))]
  IN  Then(Serialize(c, "", <<"ref", Len(s.heap)>>, <<>>, s), LAMBDA x, t :
        Ok(IF x = None THEN Undefined ELSE <<"text", x>>, t))

---------------------------------------------------------------------------
VARIABLES
  input,   \* what runs, or "none"
  output   \* its answer: none yet, or one

vars == <<input, output>>

Leaves == {Undefined, Null, NaN, Num(1), <<"fun", "one">>, Hole}
Refs == {<<"ref", i>> : i \in 1..3}
Functions == {Undefined, <<"fun", "same">>, <<"fun", "boom">>, <<"fun", "nothing">>, <<"fun", "forget">>}
Resizers == {<<"fun", "shorten">>, <<"fun", "lengthen">>}
Lists == {<<"all">>, <<"only", <<"b", "a">>>>}

Heap3(a, b, x, y, z, tj) ==
  <<Object(<<"a", "b">>, <<a, b>>), Array(<<x, y>>), Object(<<"toJSON", "z">>, <<tj, z>>)>>
Starting(heap) == [heap |-> heap, vars |-> <<>>, trace |-> <<>>]

Init == input = <<"none">> /\ output = <<>>
Idle == input = <<"none">>
Run(c, v, st) == input' = <<"json", c, v, st>> /\ UNCHANGED output

Written ==
  /\ input[1] = "json" /\ output = <<>>
  /\ output' = <<Stringify(input[2], input[3], input[4])>>
  /\ UNCHANGED input

Given(gap, replacer, props) == [gap |-> gap, replacer |-> replacer, props |-> props]
Indented == {<<Undefined, <<"all">>>>}
Plainly == {<<f, <<"all">>>> : f \in Functions} \cup {<<Undefined, l>> : l \in Lists}

RunValue == Idle /\ \E v \in (Leaves \ {Hole}) \cup {Bool(TRUE), Str("m")}, f \in Functions :
  Run(Given(FALSE, f, <<"all">>), v, Starting(<<Object(<<"a", "b">>, <<Num(1), Num(2)>>)>>))

\* An indented text has no empty object or array: Goja, and json.go after it,
\* leave the indentation of what follows raised (the comment in ja).
RunTree ==
  Idle /\ \E gap \in BOOLEAN : \E g \in IF gap THEN Indented ELSE Plainly :
    \E a, x \in (Leaves \ {Hole}) \cup Refs, tj \in Functions \cup {Num(1)} :
    \E z \in IF gap THEN {Num(1), <<"ref", 1>>} ELSE {Undefined, Num(1), <<"ref", 1>>} :
    \E b \in IF gap THEN {Num(1), <<"ref", 2>>} ELSE {Undefined, <<"ref", 2>>} :
    \E y \in {Hole, Num(1), <<"ref", 3>>} :
      Run(Given(gap, g[1], g[2]), <<"ref", 1>>, Starting(Heap3(a, b, x, y, z, tj)))

\* What RunTree leaves out: a function changes the length of an array while its
\* elements are written.
RunResized ==
  Idle /\ \E tj \in Resizers, x, y \in {Num(1), <<"ref", 3>>} :
    Run(Given(FALSE, Undefined, <<"all">>), <<"ref", 2>>,
        Starting(Heap3(Num(1), Num(1), x, y, Num(1), tj)))

Next == RunValue \/ RunTree \/ Written
Spec == Init /\ [][Next]_vars
ResizedSpec == Init /\ [][RunResized \/ Written]_vars

Agrees(r, js) ==
  /\ r.v = js.v /\ r.err = js.err
  /\ r.st.trace = js.st.trace /\ r.st.heap = js.st.heap

\* README: every accepted script matches JavaScript.  The text, the error of a
\* cycle, the calls of toJSON and the replacer with their arguments and what
\* they do to the objects being written are those of ECMAScript.
JsonAsInJavaScript ==
  input[1] = "json" /\ output # <<>> =>
    Agrees(output[1], JsStringify(input[2], input[3], input[4]))
=============================================================================
