---------------------------- MODULE Collections ----------------------------
(***************************************************************************)
(* collection and iterator (collections.go): one Map of a script, or a Set *)
(* as a Map whose values are undefined, and the walks over it: iterators,  *)
(* consumed by next, for-of or a spread, and forEach.  The script may      *)
(* change the collection between any two steps of a walk, so the walks and *)
(* the operations interleave freely.                                       *)
(***************************************************************************)
EXTENDS Integers, Sequences, FiniteSets

CONSTANTS
  EntryKey,   \* the script's values, as keys
  EntryValue,
  Walker,     \* iterators and forEach calls in progress
  MaxItems,   \* ExecuteOptions.MaxArrayLength
  PosZero, NegZero, NotANumber, UndefinedValue,
  NanKey      \* Go's nanKey{}

ASSUME KeyAssumption ==
  /\ {PosZero, NegZero, NotANumber, UndefinedValue} \subseteq EntryKey
  /\ NegZero \notin {PosZero, NotANumber, UndefinedValue} /\ NotANumber # PosZero
  /\ NanKey \notin EntryKey /\ UndefinedValue \in EntryValue
  /\ MaxItems \in Nat

VARIABLES
  keys, vals, dead,  \* slots, in order of insertion
  index,             \* from the normalised keys to their slots
  live,
  kind, pos,         \* per walker: what it is, and the next slot it looks at
  answer,            \* what the last operation returned
  mark,              \* history: the slot after the last one it yielded
  over               \* history: it has reported its end

slots == <<keys, vals, dead, index, live>>
walks == <<kind, pos, mark, over>>
collectionVars == <<slots, walks, answer>>

NormKey(k) == IF k = NotANumber THEN NanKey ELSE IF k = NegZero THEN PosZero ELSE k

\* Stored keys are normalised: a zero is +0.
Stored(k) == IF k = NegZero THEN PosZero ELSE k

Slot == 1..MaxItems

TypeOK ==
  /\ keys \in Seq(EntryKey) /\ vals \in Seq(EntryValue) /\ dead \in Seq(BOOLEAN)
  /\ Len(keys) <= MaxItems /\ Len(vals) = Len(keys) /\ Len(dead) = Len(keys)
  /\ DOMAIN index \subseteq {NormKey(k) : k \in EntryKey}
  /\ \A nk \in DOMAIN index : index[nk] \in DOMAIN keys
  /\ live \in Nat
  /\ kind \in [Walker -> {"none", "iterator", "forEach"}]
  /\ pos \in [Walker -> 1..(MaxItems + 1)]
  /\ mark \in [Walker -> 1..(MaxItems + 1)]
  /\ over \in [Walker -> BOOLEAN]

CollectionInit ==
  /\ keys = <<>> /\ vals = <<>> /\ dead = <<>>
  /\ index = [nk \in {} |-> 0] /\ live = 0
  /\ kind = [w \in Walker |-> "none"]
  /\ pos = [w \in Walker |-> 1] /\ mark = [w \in Walker |-> 1]
  /\ over = [w \in Walker |-> FALSE]
  /\ answer = <<>>

---------------------------------------------------------------------------
Has(k) == NormKey(k) \in DOMAIN index
SlotOf(k) == index[NormKey(k)]

\* Deleted entries count.
Full == Len(keys) >= MaxItems

Update(k, v) ==
  /\ vals' = [vals EXCEPT ![SlotOf(k)] = v]
  /\ UNCHANGED <<keys, dead, index, live>>

Insert(k, v) ==
  /\ index' = [nk \in DOMAIN index \cup {NormKey(k)} |->
                 IF nk = NormKey(k) THEN Len(keys) + 1 ELSE index[nk]]
  /\ keys' = Append(keys, Stored(k))
  /\ vals' = Append(vals, v)
  /\ dead' = Append(dead, FALSE)
  /\ live' = live + 1

\* set and add; a constructor is an empty collection and a set per item.
Set(k, v) ==
  /\ \/ Has(k) /\ Update(k, v) /\ answer' = <<"ok">>
     \/ ~Has(k) /\ ~Full /\ Insert(k, v) /\ answer' = <<"ok">>
     \/ ~Has(k) /\ Full /\ UNCHANGED slots /\ answer' = <<"RangeError">>
  /\ UNCHANGED walks

\* get and has.
Get(k) ==
  /\ answer' = IF Has(k) THEN <<"yes", vals[SlotOf(k)]>> ELSE <<"no", UndefinedValue>>
  /\ UNCHANGED <<slots, walks>>

Remove_KeepsIndex(k) ==
  /\ dead' = [dead EXCEPT ![SlotOf(k)] = TRUE]
  /\ keys' = [keys EXCEPT ![SlotOf(k)] = UndefinedValue]
  /\ vals' = [vals EXCEPT ![SlotOf(k)] = UndefinedValue]
  /\ live' = live - 1
  /\ UNCHANGED index

Remove(k) ==
  /\ index' = [nk \in DOMAIN index \ {NormKey(k)} |-> index[nk]]
  /\ dead' = [dead EXCEPT ![SlotOf(k)] = TRUE]
  /\ keys' = [keys EXCEPT ![SlotOf(k)] = UndefinedValue]
  /\ vals' = [vals EXCEPT ![SlotOf(k)] = UndefinedValue]
  /\ live' = live - 1

Delete(k) ==
  /\ \/ Has(k) /\ Remove(k) /\ answer' = <<"yes">>
     \/ ~Has(k) /\ UNCHANGED slots /\ answer' = <<"no">>
  /\ UNCHANGED walks

Clear ==
  /\ dead' = [i \in DOMAIN dead |-> TRUE]
  /\ keys' = [i \in DOMAIN keys |-> UndefinedValue]
  /\ vals' = [i \in DOMAIN vals |-> UndefinedValue]
  /\ index' = [nk \in {} |-> 0]
  /\ live' = 0
  /\ answer' = <<"ok">>
  /\ UNCHANGED walks

---------------------------------------------------------------------------
\* A new iterator, or the start of a forEach.
Walk(w) ==
  /\ kind[w] = "none"
  /\ kind' \in {[kind EXCEPT ![w] = k] : k \in {"iterator", "forEach"}}
  /\ pos' = [pos EXCEPT ![w] = 1]
  /\ mark' = [mark EXCEPT ![w] = 1]
  /\ over' = [over EXCEPT ![w] = FALSE]
  /\ answer' = <<"ok">>
  /\ UNCHANGED slots

Yields_Defined(i) == keys[i] # UndefinedValue

Yields(i) == ~dead[i]

After_Same(i) == i

After(i) == i + 1

\* One round: the first slot from here on that is not dead.  A forEach ends
\* with the last one; an iterator stays where it is.
Yield(w, i) ==
  /\ i \in pos[w]..Len(keys) /\ Yields(i)
  /\ \A j \in pos[w]..(i - 1) : ~Yields(j)
  /\ pos' = [pos EXCEPT ![w] = After(i)]
  /\ mark' = [mark EXCEPT ![w] = After(i)]
  /\ answer' = <<"entry", keys[i], vals[i]>>
  /\ UNCHANGED <<kind, over>>

End(w) ==
  /\ \A j \in pos[w]..Len(keys) : ~Yields(j)
  /\ pos' = [pos EXCEPT ![w] = Len(keys) + 1]
  /\ kind' = IF kind[w] = "forEach" THEN [kind EXCEPT ![w] = "none"] ELSE kind
  /\ over' = [over EXCEPT ![w] = TRUE]
  /\ answer' = <<"done">>
  /\ UNCHANGED mark

NextEntry(w) ==
  /\ kind[w] # "none"
  /\ (\E i \in Slot : Yield(w, i)) \/ End(w)
  /\ UNCHANGED slots

\* A loop is left, a forEach callback throws, an iterator is dropped.
Leave(w) ==
  /\ kind[w] # "none"
  /\ kind' = [kind EXCEPT ![w] = "none"]
  /\ UNCHANGED <<slots, pos, mark, over, answer>>

Operation ==
  \/ \E k \in EntryKey : Get(k) \/ Delete(k) \/ \E v \in EntryValue : Set(k, v)
  \/ Clear

Step == Operation \/ \E w \in Walker : Walk(w) \/ NextEntry(w) \/ Leave(w)

CollectionSpec == CollectionInit /\ [][Step]_collectionVars

\* A loop over the collection asks for its next entry again and again.
FairSpec == CollectionSpec /\ \A w \in Walker : WF_collectionVars(NextEntry(w))

---------------------------------------------------------------------------
LiveSlots == {i \in DOMAIN keys : ~dead[i]}

\* The index, the slots and size tell the same story through any deletions,
\* clears and re-insertions: each live slot is the one the index has for its
\* key, nothing else is in the index, and a dead slot holds on to nothing.
IndexExact ==
  /\ DOMAIN index = {NormKey(keys[i]) : i \in LiveSlots}
  /\ \A nk \in DOMAIN index : index[nk] \in LiveSlots /\ NormKey(keys[index[nk]]) = nk
  /\ \A i \in LiveSlots : index[NormKey(keys[i])] = i
  /\ live = Cardinality(LiveSlots)
  /\ \A i \in DOMAIN keys \ LiveSlots : keys[i] = UndefinedValue /\ vals[i] = UndefinedValue

\* The slots, tombstones and all, are an ordered map to the script; walks
\* included, whatever is deleted, re-added or cleared under them.
Ordered == INSTANCE OrderedMap WITH
  entries <- {[stamp |-> i, key |-> keys[i], value |-> vals[i]] : i \in LiveSlots},
  added <- Len(keys)
OrderedSpec == Ordered!Spec

\* A forEach ends even if its callback keeps deleting and adding entries.
WalksEnd ==
  \A w \in Walker : kind[w] = "forEach" ~> kind[w] # "forEach"

\* The comment on collection: live iteration behaves like JavaScript's, where an
\* iterator that has reported its end yields nothing more.
DoneIsFinal ==
  [][\A w \in Walker : kind[w] = "iterator" /\ over[w] => mark'[w] = mark[w]]_collectionVars

============================================================================
