------------------------------ MODULE MCHostData ------------------------------
(* Graphs of objects with sharing and cycles, host objects that a script       *)
(* changes, and what the exporters make of them, against the tree that is      *)
(* reached from a value.                                                       *)
EXTENDS HostData, SequencesExt

VARIABLES
  input,   \* what runs, or "none"
  output   \* its answer: none yet, or one

vars == <<input, output>>

MCAlphabet == <<"a", "b", "c">>

Init == input = <<"none">> /\ output = <<>>
Idle == input = <<"none">>
Starting(heap) == [heap |-> heap, vars |-> <<>>, trace |-> <<>>]

\* Every graph over two objects, a map and a set.
Leaves == {Undefined, Num(1), NaN, <<"fun", "one">>, <<"date", "invalid">>}
Refs == {<<"ref", i>> : i \in 1..4}
Graph(a, b, x, y, m, s) ==
  <<Object(<<"a", "b">>, <<a, b>>), Array(<<x, y>>),
    Collection(TRUE, <<<<Str("m"), m>>>>), Collection(FALSE, <<<<s, s>>>>)>>

RunExport ==
  Idle /\ \E mode \in DOMAIN Exporters, a, b \in Leaves \cup Refs, y \in {Hole, <<"ref", 3>>, <<"ref", 1>>} :
          \E x \in {Num(1), <<"ref", 2>>, <<"ref", 4>>}, m \in {Null, <<"regexp">>, <<"ref", 1>>},
             s \in {<<"date", "d">>, <<"ref", 2>>, <<"ref", 4>>} :
    LET st == Starting(Graph(a, b, x, y, m, s))
    IN  input' = <<"export", mode, <<"ref", 1>>, st>> /\ output' = <<ExportFrom(mode, <<"ref", 1>>, st)>>

\* The host's own view and export of a value, with data and other such values in it.
Datas == {<<"int", 1>>, Null, Str("m"), <<"chan">>,
          <<"slice", <<<<"int", 1>>, Undefined>>>>,
          <<"map", [b |-> <<"int", 2>>, a |-> <<"slice", <<>>>>]>>,
          <<"Object", [a |-> <<"int", 3>>], <<>>, <<"int", 8>>>>}
Hosts == {<<"Object", [a |-> d, b |-> e], order, <<"map", [b |-> <<"int", 7>>]>>>> :
            d, e \in Datas, order \in {<<>>, <<"b", "c", "a">>}}

\* What the script writes, one after the other: a member of the value it was
\* given, or of one inside it.
Writes == {<<op, at>> : op \in {"set", "delete"}, at \in {"top", "inner"}}
WriteLists == {<<>>} \cup {<<w>> : w \in Writes} \cup {<<w, u>> : w, u \in Writes}

View(v, heap) == LET o == heap[v[2]] IN IF o.kind = "host" THEN heap[o.view[2]] ELSE o
Place(at, top, heap) == IF at = "top" THEN top ELSE Own(View(top, heap), "b")

\* A write to what is not an object or array does nothing here.
Written(w, top, st) ==
  LET ref == Place(w[2], top, st.heap)
  IN  CASE ref[1] # "ref" -> st
        [] ref[1] = "ref" /\ w[1] = "set" -> SetHere(ref, "a", Num(9), st)
        [] OTHER -> DeleteHere(ref, "a", st)

\* A value from the host, the script's writes, and the export of the value, or of
\* the one inside it; the input has the objects that were written to.
RunHost ==
  Idle /\ \E d \in Hosts, ws \in WriteLists, at \in {"top", "inner"}, mode \in DOMAIN Exporters :
    LET r == FromGo(d, Starting(<<>>))
        s == FoldLeft(LAMBDA st, w : Written(w, r.v, st), r.st, ws)
        v == Place(at, r.v, s.heap)
        changed == {Place(ws[i][2], r.v, s.heap) : i \in DOMAIN ws}
    IN  IF r.err = "none"
        THEN input' = <<"host", mode, v, s, changed>> /\ output' = <<ExportFrom(mode, v, s)>>
        ELSE input' = <<"refused", d>> /\ output' = <<r>>

\* Go data for encoding/json, in every order of its keys: faults of each kind, data
\* deeper than MaxJsonDepth, and enough numbers to meet MaxNodes, to pass it by one
\* and by many.
Numbers(n) == <<"slice", [i \in 1..n |-> <<"int", i>>]>>
Datas2 == {<<"int", 1>>, Undefined, NaN, <<"chan">>,
           <<"slice", <<NaN, <<"chan">>>>>>, <<"map", [a |-> <<"chan">>, b |-> NaN]>>,
           <<"map", [b |-> NaN, c |-> Numbers(4)]>>,
           <<"Object", [a |-> Null], <<>>, <<"slice", <<Undefined>>>>>>,
           <<"slice", <<<<"slice", <<Undefined>>>>>>>>,
           Numbers(4), Numbers(5), Numbers(12)}
Orders == {<<"a", "b", "c">>, <<"c", "b", "a">>, <<"b", "a", "c">>, <<"a", "c", "b">>, <<"b", "c", "a">>,
           <<"c", "a", "b">>}
RunMarshal ==
  Idle /\ \E a, b, c \in Datas2, omit \in BOOLEAN, order \in Orders :
    LET d == <<"map", [a |-> a, b |-> b, c |-> c]>>
    IN  input' = <<"marshal", d, omit>> /\ output' = <<JsonValue(d, omit, order, 0, 0)>>

Next == RunExport \/ RunHost \/ RunMarshal
Spec == Init /\ [][Next]_vars
MarshalSpec == Init /\ [][RunMarshal]_vars

---------------------------------------------------------------------------
\* The tree that is reached from v, in the objects above it; what fails is a set. Of
\* a host's object it is the view, if the script wrote to it, and else what the host
\* exports; x is an exporter with the objects written to.
Fine(t) == [tree |-> t, fails |-> {}, size |-> 1]
Fails(why) == [tree |-> Null, fails |-> {why}, size |-> 1]

RECURSIVE Reached(_, _, _, _, _)
Reached(x, v, depth, above, heap) ==
  LET o == heap[v[2]]
      below(u) == Reached(x, u, depth + 1, above \cup {v}, heap)
      all(us) == [i \in DOMAIN us |-> below(us[i])]
      RECURSIVE sum(_, _)
      sum(rs, i) == IF i = 0 THEN 1 ELSE rs[i].size + sum(rs, i - 1)
      whole(rs, t) == [tree |-> t, fails |-> UNION {rs[i].fails : i \in DOMAIN rs}, size |-> sum(rs, Len(rs))]
      trees(rs) == [i \in DOMAIN rs |-> rs[i].tree]
  IN  CASE x.clamp /\ depth >= MaxDepth -> Fine(Marker)
        [] v[1] = "ref" /\ v \in above /\ ~x.clamp -> [Fails("cycle") EXCEPT !.size = MaxNodes]
        [] v[1] = "ref" /\ o.kind = "object" ->
             LET rs == all(o.vals)
             IN  whole(rs, <<"map", [k \in {o.keys[i] : i \in DOMAIN o.keys} |->
                                       rs[CHOOSE i \in DOMAIN o.keys : o.keys[i] = k].tree]>>)
        [] v[1] = "ref" /\ o.kind = "array" -> LET rs == all(o.vals) IN whole(rs, <<"slice", trees(rs)>>)
        [] v[1] = "ref" /\ o.kind = "collection" ->
             LET rs == all([i \in DOMAIN o.entries |-> IF o.isMap THEN <<"pair">> \o o.entries[i] ELSE o.entries[i][1]])
             IN  whole(rs, <<"slice", trees(rs)>>)
        [] v[1] = "ref" /\ o.kind = "host" ->
             IF v \in x.changed THEN Reached(x, o.view, depth, above, heap) ELSE Fine(o.export)
        [] v[1] = "pair" -> LET rs == all(Tail(v)) IN whole(rs, <<"slice", trees(rs)>>)
        [] Callable(v) -> IF x.clamp /\ ~x.funcsFail THEN Fine(Undefined) ELSE Fails("function")
        [] v = NaN /\ x.strict -> Fails("number")
        [] v = Hole \/ v = <<"date", "invalid">> -> Fine(Null)
        [] v[1] = "date" -> Fine(<<"time", v[2]>>)
        [] v[1] = "regexp" -> Fine(<<"map", <<>>>>)
        [] OTHER -> Fine(v)

\* However objects share and contain each other, an export is the tree that is
\* reached from the value, cut at the depth of the host, or an error that is
\* really there: a cycle, a function or a number on some path, or more nodes
\* than the limit.  What is shared without a cycle is no error.
ExportsTree ==
  input[1] = "export" =>
    LET x == [changed |-> {}] @@ Exporters[input[2]]
        r == Reached(x, input[3], 0, {}, input[4].heap)
    IN  /\ output[1].err = "none" => output[1].v = r.tree /\ r.fails = {} /\ r.size <= MaxNodes
        /\ output[1].err # "none" => output[1].v[2] \in r.fails \cup {"limit"}
        /\ output[1].v = Error("limit") => r.size > MaxNodes \/ "cycle" \in r.fails
        /\ output[1].st.nodes <= MaxNodes + 1

\* value.go: a host object keeps its original export until the script writes to it.
\* The host gets back the script's view of each object the script wrote to, at any
\* depth, with the writes to what is in it, and its own value of one the script did
\* not write to.
ExportsWrites ==
  input[1] = "host" =>
    LET x == [changed |-> input[5]] @@ Exporters[input[2]]
    IN  output[1].err = "none" /\ output[1].v = Reached(x, input[3], 0, {}, input[4].heap).tree

\* What encoding/json makes of the data, whatever the order in which the members
\* are visited: [v, err, size], with the failure of the smallest key, and the nodes
\* that are visited.
RECURSIVE Encoded(_, _, _)
Encoded(d, omit, depth) ==
  LET leaf(v, err) == [v |-> v, err |-> err, size |-> 1]
      below(e) == Encoded(e, omit, depth + 1)
      fails(r) == r.err # "none"
      sum(rs) == FoldLeft(LAMBDA n, r : n + r.size, 1, rs)
      first(rs) == CHOOSE i \in DOMAIN rs : fails(rs[i]) /\ \A j \in 1..(i - 1) : ~fails(rs[j])
      good(rs) == \A i \in DOMAIN rs : ~fails(rs[i])
      trees(rs) == [i \in DOMAIN rs |-> rs[i].v]
  IN  CASE depth > MaxJsonDepth -> leaf(Error("limit"), "throw")
        [] d = Undefined -> leaf(Null, "none")
        [] d = NaN -> leaf(Error("number"), "throw")
        [] d[1] = "chan" -> leaf(Error("non-JSON"), "throw")
        [] d[1] = "Object" -> [below(d[4]) EXCEPT !.size = @ + 1]
        [] d[1] = "slice" ->
             LET rs == [i \in DOMAIN d[2] |-> below(d[2][i])]
             IN  IF good(rs) THEN [v |-> <<"slice", trees(rs)>>, err |-> "none", size |-> sum(rs)]
                 ELSE [rs[first(rs)] EXCEPT !.size = sum(SubSeq(rs, 1, first(rs)))]
        [] d[1] = "map" ->
             LET ks == SelectSeq(Alphabet, LAMBDA k : k \in DOMAIN d[2] /\ ~(omit /\ d[2][k] = Undefined))
                 rs == [i \in DOMAIN ks |-> below(d[2][ks[i]])]
             IN  IF good(rs) THEN [v |-> <<"map", Mapped(ks, trees(rs))>>, err |-> "none", size |-> sum(rs)]
                 ELSE [rs[first(rs)] EXCEPT !.size = sum(rs)]
        [] OTHER -> leaf(d, "none")

\* execute.go: map iteration order must not pick the message.  Whether Go data can
\* be encoded never depends on it, nor does the encoding or the message, the
\* failure of the smallest key, of data within the limit on nodes; data beyond the
\* limit never passes.
MarshalAsEncoded ==
  input[1] = "marshal" =>
    LET r == Encoded(input[2], input[3], 0)
    IN  IF r.size <= MaxNodes THEN output[1].v = r.v /\ output[1].err = r.err
        ELSE output[1].err = "throw"

\* execute.go:793: map iteration order must not pick the message, of any data.
MarshalDeterministic ==
  input[1] = "marshal" =>
    \A order \in Orders :
      LET r == JsonValue(input[2], input[3], order, 0, 0) IN output[1].v = r.v /\ output[1].err = r.err
=============================================================================
