------------------------------- MODULE JsObject -------------------------------
(***************************************************************************)
(* What an object promises a script: properties in the order they were     *)
(* added, the own non-enumerable ones of an Error apart, listed with the   *)
(* array indices first; and loops that visit the keys of the start, less   *)
(* those that are gone when their turn comes.                              *)
(***************************************************************************)
EXTENDS Integers, Sequences, FiniteSets

CONSTANTS Key, Value, Walker

VARIABLES
  entries,   \* the enumerable properties, [key, value]
  hidden,    \* the others: from the keys to the values
  ahead,     \* per walker: the keys still ahead of it
  answer

vars == <<entries, hidden, ahead, answer>>

Places(k) == {i \in DOMAIN entries : entries[i].key = k}
Present(k) == Places(k) # {}

IsIndex(k) == k[1] = "index"

\* The keys, the indices first.
First(a, b, i, j) ==
  IF IsIndex(a) THEN ~IsIndex(b) \/ a[2] < b[2] ELSE ~IsIndex(b) /\ i < j

Earlier(i) == {j \in DOMAIN entries : First(entries[j].key, entries[i].key, j, i)}

Ranked(r) == CHOOSE i \in DOMAIN entries : Cardinality(Earlier(i)) = r - 1

InOrder == [r \in DOMAIN entries |-> entries[Ranked(r)].key]

Init ==
  /\ entries = <<>>
  /\ DOMAIN hidden \subseteq Key /\ \A k \in DOMAIN hidden : hidden[k] \in Value
  /\ ahead = [w \in Walker |-> <<>>]
  /\ answer = <<>>

Set(k, v) ==
  /\ \/ /\ k \in DOMAIN hidden
        /\ hidden' = [hidden EXCEPT ![k] = v]
        /\ UNCHANGED entries
     \/ /\ k \notin DOMAIN hidden /\ Present(k)
        /\ entries' = [i \in DOMAIN entries |-> IF i \in Places(k) THEN [key |-> k, value |-> v] ELSE entries[i]]
        /\ UNCHANGED hidden
     \/ /\ k \notin DOMAIN hidden /\ ~Present(k)
        /\ entries' = Append(entries, [key |-> k, value |-> v])
        /\ UNCHANGED hidden
  /\ answer' = <<"ok">>
  /\ UNCHANGED ahead

Get(k) ==
  /\ \/ k \in DOMAIN hidden /\ answer' = <<"value", hidden[k]>>
     \/ \E i \in Places(k) : answer' = <<"value", entries[i].value>>
     \/ k \notin DOMAIN hidden /\ ~Present(k) /\ answer' = <<"none">>
  /\ UNCHANGED <<entries, hidden, ahead>>

Delete(k) ==
  /\ IF Present(k)
     THEN \E i \in Places(k) :
            entries' = SubSeq(entries, 1, i - 1) \o SubSeq(entries, i + 1, Len(entries))
     ELSE UNCHANGED entries
  /\ hidden' = [x \in DOMAIN hidden \ {k} |-> hidden[x]]
  /\ answer' = <<"ok">>
  /\ UNCHANGED ahead

List == answer' = <<"keys", InOrder>> /\ UNCHANGED <<entries, hidden, ahead>>

Walk(w) ==
  /\ ahead' = [ahead EXCEPT ![w] = InOrder]
  /\ answer' = <<"ok">>
  /\ UNCHANGED <<entries, hidden>>

Visit(w) ==
  LET there == {i \in DOMAIN ahead[w] : Present(ahead[w][i])}
  IN  /\ \/ \E i \in there :
              /\ \A j \in there : i <= j
              /\ ahead' = [ahead EXCEPT ![w] = SubSeq(@, i + 1, Len(@))]
              /\ answer' = <<"key", ahead[w][i]>>
         \/ there = {} /\ ahead' = [ahead EXCEPT ![w] = <<>>] /\ answer' = <<"done">>
      /\ UNCHANGED <<entries, hidden>>

Next ==
  \/ \E k \in Key : Get(k) \/ Delete(k) \/ \E v \in Value : Set(k, v)
  \/ List
  \/ \E w \in Walker : Walk(w) \/ Visit(w)

Spec == Init /\ [][Next]_vars
=============================================================================
