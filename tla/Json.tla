--------------------------------- MODULE Json ---------------------------------
(***************************************************************************)
(* JSON.stringify (json.go).  The text is a sequence of tokens; a line     *)
(* break has the depth of its indentation.  st also has the text so far,   *)
(* the stack of the objects being written, and the depth; c has what       *)
(* stringify was given: whether there is a gap, the replacer function or   *)
(* Undefined, and the property list or <<"all">>.                          *)
(***************************************************************************)
EXTENDS Heap

Write(tokens, st) == [st EXCEPT !.text = @ \o tokens]
Separator(c, st) == IF c.gap THEN <<",", <<"line", st.indent>>>> ELSE <<",">>
Line(c, depth) == IF c.gap THEN <<<<"line", depth>>>> ELSE <<>>

\* toJSON of a plain object, then the replacer.
ToJson(key, value, st) ==
  LET tj == IF value[1] = "ref" /\ HasOwn(st.heap[value[2]], "toJSON")
            THEN Own(st.heap[value[2]], "toJSON") ELSE Undefined
  IN  IF ~IsArray(value, st) /\ Callable(tj) THEN Call(tj, <<Str(key)>>, st) ELSE Ok(value, st)

Replaced(c, key, value, st) ==
  IF Callable(c.replacer) THEN Call(c.replacer, <<Str(key), value>>, st) ELSE Ok(value, st)

OwnNames(ref, st) ==
  LET o == st.heap[ref[2]] IN [i \in DOMAIN OwnPositions(o) |-> o.keys[OwnPositions(o)[i]]]

\* A bug: an object that was written stays on the stack.
Leave_Never(st) == st

Leave(st) == [st EXCEPT !.stack = ButLast(@)]

RECURSIVE StrAt(_, _, _, _), Ja(_, _, _, _, _), Jo(_, _, _, _, _)

\* str: what it returns is whether it wrote anything.
StrAt(c, key, holder, st) ==
  Then(GetProp(holder, key, st), LAMBDA v0, s0 :
  Then(ToJson(key, v0, s0), LAMBDA v1, s1 :
  Then(Replaced(c, key, v1, s1), LAMBDA v, s :
    CASE v[1] = "ref" ->
           IF \E i \in DOMAIN s.stack : s.stack[i] = v THEN Throw(TypeError, s)
           ELSE LET in == [s EXCEPT !.stack = Append(@, v), !.indent = IF c.gap THEN @ + 1 ELSE @]
                    r == IF IsArray(v, s)
                         THEN Ja(c, v, 0, Len(s.heap[v[2]].vals), Write(<<"[">>, in))
                         ELSE Jo(c, v, IF c.props = <<"all">> THEN OwnNames(v, s) ELSE c.props[2], TRUE,
                                 Write(<<"{">>, in))
                IN  [r EXCEPT !.st = Leave(@)]
      [] v = NaN \/ v = Null -> Ok(Bool(TRUE), Write(<<"null">>, s))
      [] v[1] \in {"num", "str", "bool"} -> Ok(Bool(TRUE), Write(<<v>>, s))
      [] OTHER -> Ok(Bool(FALSE), s))))

Element(wrote, st) == IF wrote THEN st ELSE Write(<<"null">>, st)

\* ja: the separator looks at the length the array has now.
Ja(c, a, i, n, st) ==
  LET close(s) == Ok(Bool(TRUE), Write(<<"]">>, s))
  IN  CASE n = 0 -> close(st)     \* the indentation stays raised
        [] i = n -> close([Write(Line(c, st.indent - 1), st) EXCEPT !.indent = IF c.gap THEN @ - 1 ELSE @])
        [] OTHER ->
             Then(StrAt(c, ToString(i), a, IF i = 0 THEN Write(Line(c, st.indent), st) ELSE st),
                  LAMBDA wrote, s :
                    LET t == Element(wrote = Bool(TRUE), s)
                    IN  Ja(c, a, i + 1, n,
                           IF i < Len(t.heap[a[2]].vals) - 1 THEN Write(Separator(c, t), t) ELSE t))

\* jo: what was written for a property without a value is cut off again.
Jo(c, o, names, empty, st) ==
  LET close(s) == Ok(Bool(TRUE), Write(<<"}">>, s))
  IN  CASE names = <<>> /\ empty -> close(st)
        [] names = <<>> -> close([Write(Line(c, st.indent - 1), st) EXCEPT !.indent = IF c.gap THEN @ - 1 ELSE @])
        [] OTHER ->
             LET before == IF empty THEN Line(c, st.indent) ELSE Separator(c, st)
             IN  Then(StrAt(c, names[1], o, Write(before \o <<Str(names[1]), ":">>, st)),
                      LAMBDA wrote, s :
                        IF wrote = Bool(TRUE) THEN Jo(c, o, Tail(names), FALSE, s)
                        ELSE Jo(c, o, Tail(names), empty, [s EXCEPT !.text = st.text]))

\* stringify: the value is a property of a new object.
Stringify(c, v, st) ==
  Then(New(Object(<<"">>, <<v>>), st), LAMBDA holder, s :
    Then(StrAt(c, "", holder, [text |-> <<>>, stack |-> <<>>, indent |-> 0] @@ s), LAMBDA wrote, t :
      Ok(IF wrote = Bool(TRUE) THEN <<"text", t.text>> ELSE Undefined, t)))
=============================================================================
