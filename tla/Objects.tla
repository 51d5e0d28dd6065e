------------------------------- MODULE Objects -------------------------------
(***************************************************************************)
(* object (value.go): one object of a script, or an Error, and the loops   *)
(* that walk its keys.  Keys and values are parallel slices; a large       *)
(* object also has an index.  for-in and the other walks take the slice    *)
(* that ownKeys returns, which may be o.keys itself, and the script sets   *)
(* and deletes keys between any two steps of a walk.                       *)
(***************************************************************************)
EXTENDS Integers, Sequences, FiniteSets

CONSTANTS
  Name,          \* the keys that are no array indices
  MaxIndex,      \* the index keys are 0..MaxIndex
  Value,
  Walker,        \* loops in progress
  SmallObject,   \* up to this many keys are searched in order
  Unset

ASSUME ObjectAssumption ==
  /\ MaxIndex \in Nat /\ SmallObject \in Nat
  /\ {"message", "cause"} \subseteq Name /\ Unset \notin Value

VARIABLES
  keys, vals,
  indexed, index,        \* o.index != nil, and what it maps
  indexKey,
  errName,               \* it is an Error
  errMsg, errCause,      \* its hidden properties, or Unset
  walked, pos,           \* per walker: the keys it walks, and the next one
  shared,                \* its slice may be o.keys itself
  answer

object == <<keys, vals, indexed, index, indexKey, errName, errMsg, errCause>>
walks == <<walked, pos, shared>>
vars == <<object, walks, answer>>

Key == {<<"name", x>> : x \in Name} \cup {<<"index", i>> : i \in 0..MaxIndex}
IsIndexKey(k) == k[1] = "index"
Message == <<"name", "message">>
Cause == <<"name", "cause">>

TypeOK ==
  /\ keys \in Seq(Key) /\ vals \in Seq(Value) /\ Len(vals) = Len(keys)
  /\ indexed \in BOOLEAN /\ DOMAIN index \subseteq Key
  /\ indexKey \in BOOLEAN /\ errName \in BOOLEAN
  /\ {errMsg, errCause} \subseteq Value \cup {Unset}
  /\ ~errName => errMsg = Unset /\ errCause = Unset
  /\ walked \in [Walker -> Seq(Key)] /\ pos \in [Walker -> Nat \ {0}]
  /\ shared \in [Walker -> BOOLEAN]

\* newObject and newError; a cause is an option of the constructor.
Init ==
  /\ keys = <<>> /\ vals = <<>>
  /\ indexed = FALSE /\ index = [k \in {} |-> 0] /\ indexKey = FALSE
  /\ errName \in BOOLEAN
  /\ errMsg \in IF errName THEN Value \cup {Unset} ELSE {Unset}
  /\ errCause \in IF errName THEN Value \cup {Unset} ELSE {Unset}
  /\ walked = [w \in Walker |-> <<>>] /\ pos = [w \in Walker |-> 1]
  /\ shared = [w \in Walker |-> FALSE]
  /\ answer = <<>>

---------------------------------------------------------------------------
\* find: where the key is, or nowhere.
Find(k) ==
  IF indexed THEN {index[x] : x \in {k} \cap DOMAIN index} ELSE {i \in DOMAIN keys : keys[i] = k}

Hidden(k) ==
  \/ k = Message /\ errMsg # Unset
  \/ k = Cause /\ errCause # Unset

\* set, and with it own writes: a hidden property of an Error stays hidden.
SetHidden(k, v) ==
  /\ Hidden(k) /\ Find(k) = {}
  /\ errMsg' = IF k = Message THEN v ELSE errMsg
  /\ errCause' = IF k = Cause THEN v ELSE errCause
  /\ UNCHANGED <<keys, vals, indexed, index, indexKey, errName>>

SetOwn(k, v) ==
  /\ \E i \in Find(k) : vals' = [vals EXCEPT ![i] = v]
  /\ UNCHANGED <<keys, indexed, index, indexKey, errName, errMsg, errCause>>

Add(k, v) ==
  /\ ~Hidden(k) /\ Find(k) = {}
  /\ keys' = Append(keys, k) /\ vals' = Append(vals, v)
  /\ indexed' = (indexed \/ Len(keys) + 1 > SmallObject)
  /\ index' = IF indexed THEN [x \in DOMAIN index \cup {k} |-> IF x = k THEN Len(keys) + 1 ELSE index[x]]
              ELSE IF indexed' THEN [x \in {keys'[i] : i \in DOMAIN keys'} |-> CHOOSE i \in DOMAIN keys' : keys'[i] = x]
              ELSE index
  /\ indexKey' = (indexKey \/ IsIndexKey(k))
  /\ UNCHANGED <<errName, errMsg, errCause>>

Set(k, v) ==
  /\ SetHidden(k, v) \/ SetOwn(k, v) \/ Add(k, v)
  /\ answer' = <<"ok">>
  /\ UNCHANGED walks

\* get: own first, then what an Error hides or inherits.
Get(k) ==
  /\ answer' = CASE Find(k) # {} -> <<"value", vals[CHOOSE i \in Find(k) : TRUE]>>
                 [] Find(k) = {} /\ Hidden(k) -> <<"value", IF k = Message THEN errMsg ELSE errCause>>
                 [] OTHER -> <<"none">>
  /\ UNCHANGED <<object, walks>>

Without(s, i) == SubSeq(s, 1, i - 1) \o SubSeq(s, i + 1, Len(s))

\* What the index says after the deletion of keys[i].
Reindexed_Stale(i) == [x \in DOMAIN index \ {keys[i]} |-> index[x]]

Reindexed(i) ==
  [x \in DOMAIN index \ {keys[i]} |-> IF index[x] > i THEN index[x] - 1 ELSE index[x]]

\* The bug that append(o.keys[:i], ...) would be: the slices that share the
\* array see its elements move.
Compact_InPlace(i) ==
  /\ keys' = Without(keys, i) /\ vals' = Without(vals, i)
  /\ walked' = [w \in Walker |->
       IF shared[w] THEN SubSeq(Append(Without(keys, i), keys[Len(keys)]), 1, Len(walked[w]))
       ELSE walked[w]]
  /\ UNCHANGED shared

\* append(o.keys[:i:i], ...) makes new arrays: whoever walks keeps the old one.
Compact(i) ==
  /\ keys' = Without(keys, i) /\ vals' = Without(vals, i)
  /\ shared' = [w \in Walker |-> FALSE]
  /\ UNCHANGED walked

Remove(k) ==
  /\ \E i \in Find(k) :
       /\ Compact(i)
       /\ index' = IF indexed THEN Reindexed(i) ELSE index
  /\ UNCHANGED <<indexed, indexKey, errName, errMsg, errCause>>

RemoveHidden(k) ==
  /\ Find(k) = {}
  /\ errMsg' = IF k = Message THEN Unset ELSE errMsg
  /\ errCause' = IF k = Cause THEN Unset ELSE errCause
  /\ UNCHANGED <<keys, vals, indexed, index, indexKey, errName, walked, shared>>

Delete(k) ==
  /\ Remove(k) \/ RemoveHidden(k)
  /\ answer' = <<"ok">>
  /\ UNCHANGED pos

---------------------------------------------------------------------------
\* ownKeys: the index keys first, sorted by number; here, all there can be.
IndexKeys == [i \in 1..(MaxIndex + 1) |-> <<"index", i - 1>>]

\* The loop that parts the keys: the elements of s that are in T, in their order.
Among(s, T) ==
  LET kept[n \in 0..Len(s)] ==
        IF n = 0 THEN <<>>
        ELSE IF s[n] \in T THEN Append(kept[n - 1], s[n]) ELSE kept[n - 1]
  IN  kept[Len(s)]

OwnKeys ==
  IF ~indexKey THEN keys
  ELSE Among(IndexKeys, {keys[i] : i \in DOMAIN keys})
       \o Among(keys, {k \in Key : ~IsIndexKey(k)})

\* Object.keys, a spread, JSON.stringify: all keys at once.
List ==
  /\ answer' = <<"keys", OwnKeys>>
  /\ UNCHANGED <<object, walks>>

\* for-in
Walk(w) ==
  /\ walked' = [walked EXCEPT ![w] = OwnKeys]
  /\ pos' = [pos EXCEPT ![w] = 1]
  /\ shared' = [shared EXCEPT ![w] = ~indexKey]
  /\ answer' = <<"ok">>
  /\ UNCHANGED object

Still(w, i) == Find(walked[w][i]) # {}

\* The next key that is still there, or the end.
Visit(w) ==
  LET ahead == pos[w]..Len(walked[w])
  IN  /\ \/ \E i \in ahead :
              /\ Still(w, i) /\ \A j \in pos[w]..(i - 1) : ~Still(w, j)
              /\ pos' = [pos EXCEPT ![w] = i + 1]
              /\ answer' = <<"key", walked[w][i]>>
         \/ /\ \A i \in ahead : ~Still(w, i)
            /\ pos' = [pos EXCEPT ![w] = Len(walked[w]) + 1]
            /\ answer' = <<"done">>
      /\ UNCHANGED <<object, walked, shared>>

Next ==
  \/ \E k \in Key : Get(k) \/ Delete(k) \/ \E v \in Value : Set(k, v)
  \/ List
  \/ \E w \in Walker : Walk(w) \/ Visit(w)

Spec == Init /\ [][Next]_vars

---------------------------------------------------------------------------
\* Whatever is set, deleted and set again, and on either side of the size at
\* which the index is made: no key is there twice, the index has each key at
\* its place and no other, and an index key is known to be there.
IndexExact ==
  /\ \A i, j \in DOMAIN keys : keys[i] = keys[j] => i = j
  /\ indexed => /\ DOMAIN index = {keys[i] : i \in DOMAIN keys}
                /\ \A x \in DOMAIN index : index[x] \in DOMAIN keys /\ keys[index[x]] = x
  /\ (\E i \in DOMAIN keys : IsIndexKey(keys[i])) => indexKey

\* The slices, the index and their walks are an object to the script.
Entries == [i \in DOMAIN keys |-> [key |-> keys[i], value |-> vals[i]]]
HiddenValues == [k \in {x \in {Message, Cause} : Hidden(x)} |-> IF k = Message THEN errMsg ELSE errCause]
Ahead == [w \in Walker |-> SubSeq(walked[w], pos[w], Len(walked[w]))]
Dictionary == INSTANCE JsObject WITH entries <- Entries, hidden <- HiddenValues, ahead <- Ahead
ObjectSpec == Dictionary!Spec
=============================================================================
