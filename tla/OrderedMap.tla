----------------------------- MODULE OrderedMap -----------------------------
(***************************************************************************)
(* What a Map (or a Set, a Map without values) promises a script: entries  *)
(* in the order they were added, found by SameValueZero, and walks that go *)
(* on over whatever the collection holds when they are asked to.  An entry *)
(* has a stamp, the number of entries added before it; nothing remains of  *)
(* one that is deleted.                                                    *)
(***************************************************************************)
EXTENDS Integers

CONSTANTS EntryKey, EntryValue, Walker, MaxItems, PosZero, NegZero, UndefinedValue

VARIABLES
  entries,   \* the entries: [stamp, key, value]
  added,     \* entries ever added
  mark,      \* per walker: the first stamp still ahead of it
  answer     \* what the last operation returned

vars == <<entries, added, mark, answer>>

SameValueZero(a, b) == a = b \/ {a, b} = {PosZero, NegZero}

Found(k) == {e \in entries : SameValueZero(e.key, k)}

Init == entries = {} /\ added = 0 /\ mark = [w \in Walker |-> 1] /\ answer = <<>>

\* An entry keeps its place when its value changes.  The limit is on the
\* entries ever added, not on those present.
Set(k, v) ==
  /\ \/ /\ Found(k) # {}
        /\ entries' = {IF e \in Found(k) THEN [e EXCEPT !.value = v] ELSE e : e \in entries}
        /\ answer' = <<"ok">>
        /\ UNCHANGED added
     \/ /\ Found(k) = {} /\ added < MaxItems
        /\ added' = added + 1
        /\ entries' = entries \cup
             {[stamp |-> added', key |-> IF k = NegZero THEN PosZero ELSE k, value |-> v]}
        /\ answer' = <<"ok">>
     \/ /\ Found(k) = {} /\ added >= MaxItems
        /\ answer' = <<"RangeError">>
        /\ UNCHANGED <<entries, added>>
  /\ UNCHANGED mark

Get(k) ==
  /\ \/ Found(k) = {} /\ answer' = <<"no", UndefinedValue>>
     \/ \E e \in Found(k) : answer' = <<"yes", e.value>>
  /\ UNCHANGED <<entries, added, mark>>

Delete(k) ==
  /\ entries' = entries \ Found(k)
  /\ answer' = IF Found(k) = {} THEN <<"no">> ELSE <<"yes">>
  /\ UNCHANGED <<added, mark>>

Clear == entries' = {} /\ answer' = <<"ok">> /\ UNCHANGED <<added, mark>>

Walk(w) ==
  /\ mark' = [mark EXCEPT ![w] = 1]
  /\ answer' = <<"ok">>
  /\ UNCHANGED <<entries, added>>

\* The oldest entry ahead, if there is one.
Next(w) ==
  LET ahead == {e \in entries : e.stamp >= mark[w]}
  IN  /\ \/ ahead = {} /\ answer' = <<"done">> /\ UNCHANGED mark
         \/ \E e \in ahead :
              /\ \A f \in ahead : e.stamp <= f.stamp
              /\ mark' = [mark EXCEPT ![w] = e.stamp + 1]
              /\ answer' = <<"entry", e.key, e.value>>
      /\ UNCHANGED <<entries, added>>

Step ==
  \/ \E k \in EntryKey : Get(k) \/ Delete(k) \/ \E v \in EntryValue : Set(k, v)
  \/ Clear
  \/ \E w \in Walker : Walk(w) \/ Next(w)

Spec == Init /\ [][Step]_vars

============================================================================
