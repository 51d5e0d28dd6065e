--------------------------- MODULE OrderedEffects ---------------------------
(***************************************************************************)
(* What a parallel batch promises about its ordered effects (the comment   *)
(* on sequencer in call.go): host functions, sequential tools and console  *)
(* lines are those of a machine that has a single turn.  The item holding  *)
(* the turn may call out; once it has finished its lines are printed and   *)
(* the turn passes to the next item.  Items finish in any order.           *)
(***************************************************************************)
EXTENDS Integers, Sequences

CONSTANT N   \* items of the batch, a natural number

VARIABLES turn, finished, trace

vars == <<turn, finished, trace>>

Item == 0..(N - 1)

Init == turn = 0 /\ finished = {} /\ trace = <<>>

\* Item i begins a host call or a sequential tool call.
Perform(i) ==
  /\ i = turn /\ i \notin finished
  /\ trace' = Append(trace, <<"effect", i>>)
  /\ UNCHANGED <<turn, finished>>

FinishItem(i) ==
  /\ finished' = finished \cup {i}
  /\ UNCHANGED <<turn, trace>>

Show(i) ==
  /\ i = turn /\ i \in finished
  /\ trace' = Append(trace, <<"line", i>>)
  /\ UNCHANGED <<turn, finished>>

Pass ==
  /\ turn \in finished
  /\ turn' = turn + 1
  /\ UNCHANGED <<finished, trace>>

Next == Pass \/ \E i \in Item : Perform(i) \/ FinishItem(i) \/ Show(i)

Spec == Init /\ [][Next]_vars

TypeOK ==
  /\ turn \in 0..N
  /\ finished \subseteq Item
  /\ trace \in Seq({"effect", "line"} \X Item)

\* What the caller sees, over every entry of the trace: no effect or line of
\* an item comes after one of a later item, and no item calls out once it has
\* printed.
InItemOrder ==
  \A m, n \in DOMAIN trace : m < n =>
    \/ trace[m][2] < trace[n][2]
    \/ trace[m][2] = trace[n][2] /\ (trace[m][1] = "line" => trace[n][1] = "line")

============================================================================
