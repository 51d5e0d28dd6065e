------------------------------- MODULE Batches -------------------------------
(***************************************************************************)
(* Which batches may run in parallel (call.go, isolated).  The argument of *)
(* Promise.all is a tree: <<"name", x>>, <<"member", e, key>>,              *)
(* <<"assign", target, e>>, <<"update", target>>, <<"delete", target>>,     *)
(* <<"call", callee, args>>,                                               *)
(* <<"function", name, params, body>> (name "" of an arrow), <<"array",    *)
(* list>>, <<"num">>, and the statements <<"do", e>>, <<"let", x, e>>,       *)
(* <<"forof", into, e, body>>, <<"try", body, x, handler>>, <<"return", e>>. *)
(***************************************************************************)
EXTENDS Integers, Sequences, FiniteSets, TLC, Functions

\* The variables around the batch: a number n, an object o, an array a, a
\* function f that writes n, and an alias of a namespace of tools.
Outer == {"n", "o", "a", "f"}
Aliases == {"tools"}
Declared(x) == x \in Outer \cup Aliases            \* c.lookup

MutatingMethods == {"push", "sort", "set", "delete"}
Setters == {"set", "setTime"}                      \* names that begin with "set"
BuiltinMethods == {"at", "map", "includes"}        \* of arrays or strings

---------------------------------------------------------------------------
\* ast: the nodes below a node.
Children(e) ==
  CASE e[1] \in {"member", "update", "delete", "do", "return"} -> {e[2]}
    [] e[1] = "assign" -> {e[2], e[3]}
    [] e[1] = "call" -> {e[2]} \cup Range(e[3])
    [] e[1] = "function" -> Range(e[4])
    [] e[1] = "array" -> Range(e[2])
    [] e[1] = "let" -> {e[3]}
    [] e[1] = "forof" -> {e[3]} \cup Range(e[4]) \cup (IF e[2][1] = "decl" THEN {} ELSE {e[2]})
    [] e[1] = "try" -> Range(e[2]) \cup Range(e[4])
    [] OTHER -> {}

RECURSIVE Nodes(_)
Nodes(e) == {e} \cup UNION {Nodes(k) : k \in Children(e)}

\* What a node declares.
Binds(e) ==
  CASE e[1] = "let" -> {e[2]}
    [] e[1] = "forof" /\ e[2][1] = "decl" -> {e[2][2]}
    [] e[1] = "try" -> {e[3]}
    [] e[1] = "function" -> Range(e[3]) \cup ({e[2]} \ {""})
    [] OTHER -> {}

Locals(arg) == UNION {Binds(e) : e \in Nodes(arg)}

OwnName_Any(target, local) == target[1] = "name"
OwnName(target, local) == target[1] = "name" /\ target[2] \in local

\* A method call that may write to what other items see.
SuspectMethod(object, key, local) ==
  \/ key \in MutatingMethods \cup Setters
  \/ object = <<"name", "Object">> /\ key = "assign"
  \/ /\ object[1] = "name" /\ object[2] \in Outer \ local
     /\ key \notin BuiltinMethods

SuspectCall(callee, local) ==
  CASE callee[1] = "name" -> Declared(callee[2]) /\ callee[2] \notin local
    [] callee[1] = "member" -> SuspectMethod(callee[2], callee[3], local)
    [] OTHER -> TRUE

Suspect(e, local) ==
  CASE e[1] \in {"assign", "update", "delete"} -> ~OwnName(e[2], local)
    [] e[1] = "call" -> SuspectCall(e[2], local)
    [] OTHER -> FALSE

\* The items of arg cannot observe each other.
Isolated(arg) ==
  LET local == Locals(arg)
  IN  /\ \A x \in local : ~Declared(x)
      /\ \A e \in Nodes(arg) : ~Suspect(e, local)
=============================================================================
