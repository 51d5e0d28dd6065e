-------------------------------- MODULE Heap --------------------------------
(***************************************************************************)
(* The values a script computes with, and what both the interpreter and    *)
(* ECMAScript do alike: reading and writing properties, calling a function. *)
(* A value is a tuple headed by its type:                                  *)
(*   <<"undefined">> <<"null">> <<"bool", b>> <<"num", n>> <<"str", s>>     *)
(*   <<"fun", f>>   a function, with the effect that Call gives it          *)
(*   <<"ref", i>>   the object or array st.heap[i]                          *)
(* A state st has the heap, the variables and the trace of effects.  The   *)
(* result of an evaluation is [v, err, st]; err is "none", "throw" (v is   *)
(* what is thrown) or "short" (see Expressions).                           *)
(***************************************************************************)
EXTENDS Integers, Sequences, FiniteSets, TLC

Undefined == <<"undefined">>
Null == <<"null">>
NaN == <<"num", -99>>
Num(n) == <<"num", n>>
Str(s) == <<"str", s>>
Bool(b) == <<"bool", b>>
TypeError == <<"TypeError">>
ReferenceError == <<"ReferenceError">>

Nullish(v) == v[1] \in {"undefined", "null"}
Truthy(v) == ~Nullish(v) /\ v \notin {Bool(FALSE), Num(0), NaN, Str("")}
Callable(v) == v[1] = "fun"
IsObject(v) == v[1] \in {"ref", "fun"}

Ok(v, st) == [v |-> v, err |-> "none", st |-> st]
Throw(v, st) == [v |-> v, err |-> "throw", st |-> st]

\* Go's `if err != nil { return err }`, ECMAScript's question mark.
Then(r, Op(_, _)) == IF r.err = "none" THEN Op(r.v, r.st) ELSE r

Log(event, st) == [st EXCEPT !.trace = Append(@, event)]

---------------------------------------------------------------------------
\* An object keeps its keys in order; the keys of an array are its indices,
\* and an element that does not exist is a hole.
Hole == <<"hole">>
Unhole(v) == IF v = Hole THEN Undefined ELSE v

Object(keys, vals) == [kind |-> "object", keys |-> keys, vals |-> vals]
Array(items) ==
  [kind |-> "array", keys |-> [i \in DOMAIN items |-> ToString(i - 1)], vals |-> items]

Position(o, k) == {i \in DOMAIN o.keys : o.keys[i] = k /\ o.vals[i] # Hole}
HasOwn(o, k) == Position(o, k) # {}
Own(o, k) == o.vals[CHOOSE i \in Position(o, k) : TRUE]
OwnPositions(o) == SelectSeq([i \in DOMAIN o.keys |-> i], LAMBDA i : o.vals[i] # Hole)

WithOwn(o, k, v) ==
  IF \E i \in DOMAIN o.keys : o.keys[i] = k
  THEN [o EXCEPT !.vals[CHOOSE i \in DOMAIN o.keys : o.keys[i] = k] = v]
  ELSE [o EXCEPT !.keys = Append(@, k), !.vals = Append(@, v)]

WithoutOwn(o, k) ==
  LET keep == SelectSeq([i \in DOMAIN o.keys |-> i], LAMBDA i : o.keys[i] # k)
  IN  IF o.kind = "array"
      THEN [o EXCEPT !.vals = [i \in DOMAIN @ |-> IF o.keys[i] = k THEN Hole ELSE @[i]]]
      ELSE [o EXCEPT !.keys = [i \in DOMAIN keep |-> o.keys[keep[i]]],
                     !.vals = [i \in DOMAIN keep |-> o.vals[keep[i]]]]

ButLast(items) == SubSeq(items, 1, Len(items) - 1)

New(o, st) == Ok(<<"ref", Len(st.heap) + 1>>, [st EXCEPT !.heap = Append(@, o)])

GetProp(v, k, st) ==
  CASE Nullish(v) -> Throw(TypeError, st)
    [] v[1] # "ref" -> Ok(Undefined, st)
    [] OTHER -> LET o == st.heap[v[2]]
                IN  Ok(CASE HasOwn(o, k) -> Own(o, k)
                         [] o.kind = "array" /\ k = "length" -> Num(Len(o.vals))
                         [] OTHER -> Undefined, st)

SetProp(v, k, x, st) ==
  CASE Nullish(v) -> Throw(TypeError, st)
    [] v[1] # "ref" -> Ok(x, st)
    [] OTHER -> Ok(x, [st EXCEPT !.heap[v[2]] = WithOwn(@, k, x)])

DeleteProp(v, k, st) ==
  CASE Nullish(v) -> Throw(TypeError, st)
    [] v[1] # "ref" -> Ok(Bool(TRUE), st)
    [] OTHER -> Ok(Bool(TRUE), [st EXCEPT !.heap[v[2]] = WithoutOwn(@, k)])

HasProp(v, k, st) ==
  IF v[1] # "ref" THEN Throw(TypeError, st)
  ELSE Ok(Bool(HasOwn(st.heap[v[2]], k)), st)

IsArray(v, st) == v[1] = "ref" /\ st.heap[v[2]].kind = "array"

\* What iterating over v yields.
Items(v, st) ==
  IF IsArray(v, st) THEN Ok([i \in DOMAIN st.heap[v[2]].vals |-> Unhole(st.heap[v[2]].vals[i])], st)
  ELSE Throw(TypeError, st)

---------------------------------------------------------------------------
\* A variable has a kind (let, const, var, or function: the own name of a
\* function expression) and may still be in its dead zone.
Tdz == <<"tdz">>

ReadName(x, st) ==
  IF st.vars[x].val = Tdz THEN Throw(ReferenceError, st) ELSE Ok(st.vars[x].val, st)

StoreName(x, v, st) ==
  CASE st.vars[x].kind = "function" -> Ok(v, st)
    [] st.vars[x].val = Tdz -> Throw(ReferenceError, st)
    [] st.vars[x].kind = "const" -> Throw(TypeError, st)
    [] OTHER -> Ok(v, [st EXCEPT !.vars[x].val = v])

\* The functions of the scripts: every call is an effect; some change the heap.
Call(f, args, st) ==
  LET s == Log(<<"call", f, args>>, st)
  IN  IF ~Callable(f) THEN Throw(TypeError, st)
      ELSE CASE f[2] = "boom" -> Throw(<<"thrown">>, s)
             [] f[2] = "one" -> Ok(Num(1), s)
             [] f[2] = "two" -> Ok(Num(2), s)
             [] f[2] = "text" -> Ok(Str("m"), s)
             [] f[2] = "nothing" -> Ok(Undefined, s)
             [] f[2] = "self" -> Ok(<<"ref", 1>>, s)
             [] f[2] = "same" -> Ok(args[Len(args)], s)
             [] f[2] = "shorten" -> Ok(Num(1), [s EXCEPT !.heap[2] = Array(ButLast(@.vals))])
             [] f[2] = "lengthen" -> Ok(Num(1), [s EXCEPT !.heap[2] = Array(Append(@.vals, Num(4)))])
             [] f[2] = "forget" -> Then(DeleteProp(<<"ref", 1>>, "b", s), LAMBDA v, t : Ok(Num(1), t))
             [] f[2] = "swap" -> SetProp(<<"ref", 1>>, "m", <<"fun", "two">>, s)

---------------------------------------------------------------------------
\* The strings that scripts compare, in the order of their code units.
Texts == <<"", "1", "2", "m">>

Text(v) ==
  CASE v[1] = "str" -> v[2]
    [] v = NaN -> "NaN"
    [] v[1] \in {"num", "bool"} -> ToString(v[2])
    [] OTHER -> v[1]

\* ToNumber of a primitive value.
Numeric(v) ==
  CASE v[1] = "num" -> v
    [] v = Null \/ v = Bool(FALSE) \/ v = Str("") -> Num(0)
    [] v = Bool(TRUE) \/ v = Str("1") -> Num(1)
    [] v = Str("2") -> Num(2)
    [] OTHER -> NaN

Sum(a, b) == IF NaN \in {a, b} THEN NaN ELSE Num(a[2] + b[2])
Difference(a, b) == IF NaN \in {a, b} THEN NaN ELSE Num(a[2] - b[2])
StrictlyEqual(a, b) == a = b /\ a # NaN

\* The order of two primitives: by code units if both are strings.
Before(a, b) == \E i, j \in DOMAIN Texts : i < j /\ Texts[i] = a /\ Texts[j] = b
Strings(a, b) == a[1] = "str" /\ b[1] = "str"
Less(a, b) ==
  IF Strings(a, b) THEN Before(a[2], b[2])
  ELSE LET x == Numeric(a) y == Numeric(b) IN NaN \notin {x, y} /\ x[2] < y[2]
Unordered(a, b) == ~Strings(a, b) /\ NaN \in {Numeric(a), Numeric(b)}

TypeOf(v) ==
  CASE v = Null -> "object"
    [] v[1] = "ref" -> "object"
    [] v[1] = "fun" -> "function"
    [] v[1] = "num" -> "number"
    [] OTHER -> v[1]
=============================================================================
