------------------------------- MODULE HostData -------------------------------
(***************************************************************************)
(* Data between the host and a script (execute.go): fromGo builds runtime  *)
(* values, export turns them back into Go data, jsonValue cleans Go data   *)
(* for encoding/json.  Go data is a tuple headed by its type:              *)
(*   <<"map", f>>   <<"slice", s>>   <<"int", n>>   <<"chan">>             *)
(*   <<"Object", fields, order, export>>       toolscript.Object           *)
(* or a primitive value of a script.  The heap has, besides objects and    *)
(* arrays, hostObjects and collections.                                    *)
(***************************************************************************)
EXTENDS Heap

CONSTANTS
  Alphabet,    \* the keys of objects, as sort.Strings orders them
  MaxNodes,    \* maxExportNodes
  MaxDepth,    \* maxExportDepth
  MaxJsonDepth \* the depth Marshal goes to, 10000

Error(what) == <<"error", what>>
Marker == Str("[max depth exceeded]")

HostObject(view, export) == [kind |-> "host", view |-> view, export |-> export, dirty |-> FALSE]
Collection(isMap, entries) == [kind |-> "collection", isMap |-> isMap, entries |-> entries]
Pair(k, v) == <<"pair", k, v>>

Sorted(S) == SelectSeq(Alphabet, LAMBDA k : k \in S)

---------------------------------------------------------------------------
RECURSIVE FromGo(_, _), FromAll(_, _, _)

\* The members one after the other; st is the heap.
FromAll(data, done, st) ==
  IF data = <<>> THEN Ok(done, st)
  ELSE Then(FromGo(data[1], st), LAMBDA v, s : FromAll(Tail(data), Append(done, v), s))

FromFields(names, f, st) ==
  Then(FromAll([i \in DOMAIN names |-> f[names[i]]], <<>>, st), LAMBDA vals, s :
    New(Object(names, vals), s))

FromGo(d, st) ==
  CASE d[1] = "int" -> Ok(Num(d[2]), st)
    [] d[1] = "map" -> FromFields(Sorted(DOMAIN d[2]), d[2], st)
    [] d[1] = "slice" -> Then(FromAll(d[2], <<>>, st), LAMBDA vals, s : New(Array(vals), s))
    [] d[1] = "Object" ->
         Then(FromFields(IF d[3] = <<>> THEN Sorted(DOMAIN d[2])
                         ELSE SelectSeq(d[3], LAMBDA k : k \in DOMAIN d[2]), d[2], st),
              LAMBDA view, s : New(HostObject(view, d[4]), s))
    [] d[1] = "chan" -> Throw(Error("non-JSON"), st)
    [] OTHER -> Ok(d, st)

---------------------------------------------------------------------------
\* What a script does to a hostObject goes to its view.
SetHere(ref, k, v, st) ==
  LET o == st.heap[ref[2]]
  IN  IF o.kind = "host"
      THEN [SetProp(o.view, k, v, st).st EXCEPT !.heap[ref[2]].dirty = TRUE]
      ELSE SetProp(ref, k, v, st).st

DeleteHere_Clean(ref, k, st) ==
  LET o == st.heap[ref[2]]
  IN  DeleteProp(IF o.kind = "host" THEN o.view ELSE ref, k, st).st

DeleteHere(ref, k, st) ==
  LET o == st.heap[ref[2]]
  IN  IF o.kind = "host"
      THEN [DeleteProp(o.view, k, st).st EXCEPT !.heap[ref[2]].dirty = TRUE]
      ELSE DeleteProp(ref, k, st).st

---------------------------------------------------------------------------
\* The three exporters: of a result, of a tool's argument, of a console line.
Exporters == [result |-> [clamp |-> TRUE, strict |-> FALSE, funcsFail |-> FALSE],
              argument |-> [clamp |-> FALSE, strict |-> TRUE, funcsFail |-> FALSE],
              console |-> [clamp |-> TRUE, strict |-> FALSE, funcsFail |-> TRUE]]

\* A bug: what was exported stays on the stack.
Leave_Never(ref, stack) == stack

Leave(ref, stack) == stack \ {ref}

RECURSIVE Export(_, _, _, _), ExportAll(_, _, _, _, _)

ExportAll(x, vs, depth, done, st) ==
  IF vs = <<>> THEN Ok(done, st)
  ELSE Then(Export(x, vs[1], depth, st), LAMBDA e, s : ExportAll(x, Tail(vs), depth, Append(done, e), s))

\* The members of an object or array, which is on the stack meanwhile.
ExportMembers(x, ref, vs, depth, st) ==
  IF x.strict /\ ref \in st.stack THEN Throw(Error("cycle"), st)
  ELSE Then(ExportAll(x, vs, depth + 1, <<>>, [st EXCEPT !.stack = @ \cup {ref}]),
            LAMBDA es, s : Ok(es, [s EXCEPT !.stack = Leave(ref, @)]))

Mapped(names, es) == [k \in {names[i] : i \in DOMAIN names} |-> es[CHOOSE i \in DOMAIN names : names[i] = k]]

ExportRef(x, ref, depth, st) ==
  LET o == st.heap[ref[2]]
  IN  CASE o.kind = "object" ->
             Then(ExportMembers(x, ref, o.vals, depth, st), LAMBDA es, s : Ok(<<"map", Mapped(o.keys, es)>>, s))
        [] o.kind = "array" ->
             Then(ExportMembers(x, ref, o.vals, depth, st), LAMBDA es, s : Ok(<<"slice", es>>, s))
        [] o.kind = "host" -> IF o.dirty THEN Export(x, o.view, depth, st) ELSE Ok(o.export, st)
        [] o.kind = "collection" ->
             Then(ExportAll(x, [i \in DOMAIN o.entries |-> IF o.isMap THEN Pair(o.entries[i][1], o.entries[i][2])
                                                           ELSE o.entries[i][1]], depth + 1, <<>>, st),
                  LAMBDA es, s : Ok(<<"slice", es>>, s))

Export(x, v, depth, st0) ==
  LET st == [st0 EXCEPT !.nodes = @ + 1]
  IN  CASE st.nodes > MaxNodes -> Throw(Error("limit"), st)
        [] st.nodes <= MaxNodes /\ x.clamp /\ depth >= MaxDepth -> Ok(Marker, st)
        [] v[1] = "ref" -> ExportRef(x, v, depth, st)
        [] v[1] = "pair" -> Then(ExportAll(x, Tail(v), depth + 1, <<>>, st), LAMBDA es, s : Ok(<<"slice", es>>, s))
        [] Callable(v) -> IF x.strict \/ x.funcsFail THEN Throw(Error("function"), st) ELSE Ok(Undefined, st)
        [] v = Hole -> Ok(Null, st)
        [] v[1] \in {"regexp", "iterator"} -> Ok(<<"map", <<>>>>, st)
        [] v[1] = "date" -> Ok(IF v[2] = "invalid" THEN Null ELSE <<"time", v[2]>>, st)
        [] v = NaN /\ x.strict -> Throw(Error("number"), st)
        [] OTHER -> Ok(v, st)

ExportFrom(mode, v, st) == Export(Exporters[mode], v, 0, [nodes |-> 0, stack |-> {}] @@ st)

---------------------------------------------------------------------------
\* jsonValue: Go visits the keys of a map in any order; order is the one taken
\* here.  The error that is kept is that of the smallest key.
Kept_First(errs, order) == errs[SelectSeq(order, LAMBDA k : k \in DOMAIN errs)[1]]

Kept(errs, order) == errs[Sorted(DOMAIN errs)[1]]

RECURSIVE JsonValue(_, _, _, _, _), JsonFields(_, _, _, _, _, _, _, _), JsonAll(_, _, _, _, _, _)

\* The nodes are counted in one counter, n, over all of the data.
JsonAll(ds, done, omit, order, depth, n) ==
  IF ds = <<>> THEN [v |-> done, err |-> "none", n |-> n]
  ELSE LET r == JsonValue(ds[1], omit, order, depth, n)
       IN  IF r.err # "none" THEN r ELSE JsonAll(Tail(ds), Append(done, r.v), omit, order, depth, r.n)

\* A member that fails does not end the walk over the map.
JsonFields(names, f, done, errs, omit, order, depth, n) ==
  CASE names = <<>> /\ DOMAIN errs = {} -> [v |-> <<"map", done>>, err |-> "none", n |-> n]
    [] names = <<>> /\ DOMAIN errs # {} -> [v |-> Kept(errs, order), err |-> "throw", n |-> n]
    [] names # <<>> /\ f[names[1]] = Undefined /\ omit ->
         JsonFields(Tail(names), f, done, errs, omit, order, depth, n)
    [] OTHER ->
         LET r == JsonValue(f[names[1]], omit, order, depth, n)
             one == names[1] :> r.v
         IN  IF r.err = "none" THEN JsonFields(Tail(names), f, one @@ done, errs, omit, order, depth, r.n)
             ELSE JsonFields(Tail(names), f, done, one @@ errs, omit, order, depth, r.n)

JsonValue(d, omit, order, depth, n0) ==
  LET n == n0 + 1
      over == n > MaxNodes \/ depth > MaxJsonDepth
  IN  CASE over -> [v |-> Error("limit"), err |-> "throw", n |-> n]
        [] ~over /\ d = Undefined -> [v |-> Null, err |-> "none", n |-> n]
        [] ~over /\ d[1] = "Object" -> JsonValue(d[4], omit, order, depth + 1, n)
        [] ~over /\ d[1] = "map" ->
             JsonFields(SelectSeq(order, LAMBDA k : k \in DOMAIN d[2]), d[2], <<>>, <<>>, omit, order, depth + 1, n)
        [] ~over /\ d[1] = "slice" ->
             LET r == JsonAll(d[2], <<>>, omit, order, depth + 1, n)
             IN  IF r.err = "none" THEN [r EXCEPT !.v = <<"slice", @>>] ELSE r
        [] ~over /\ d = NaN -> [v |-> Error("number"), err |-> "throw", n |-> n]
        [] ~over /\ d[1] = "chan" -> [v |-> Error("non-JSON"), err |-> "throw", n |-> n]
        [] OTHER -> [v |-> d, err |-> "none", n |-> n]
=============================================================================
