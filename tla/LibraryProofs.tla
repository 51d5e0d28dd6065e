--------------------------- MODULE LibraryProofs ---------------------------
(* Theorems about Objects and Sorting: for any names, indices, values, walks *)
(* and size at which the index is made; for any array, any comparator and any *)
(* series of comparisons and swaps.                                          *)
EXTENDS Objects, Sorting, FiniteSetTheorems, SequenceTheorems, WellFoundedInduction, TLAPS

---------------------------------------------------------------------------
(* Objects: the index.                                                     *)

\* What the slices and the index are, whatever they hold.
SlicesOK ==
  /\ keys \in Seq(Key) /\ vals \in Seq(Value) /\ Len(vals) = Len(keys)
  /\ indexed \in BOOLEAN /\ indexKey \in BOOLEAN
  /\ index = [x \in DOMAIN index |-> index[x]]

Inv == SlicesOK /\ IndexExact

LEMMA Concatenated ==
  ASSUME NEW S, NEW a \in Seq(S), NEW b \in Seq(S)
  PROVE  /\ a \o b \in Seq(S) /\ Len(a \o b) = Len(a) + Len(b)
         /\ \A j \in 1..Len(a) : (a \o b)[j] = a[j]
         /\ \A j \in 1..Len(b) : (a \o b)[Len(a) + j] = b[j]
  OBVIOUS

LEMMA WithoutElements ==
  ASSUME NEW S, NEW s \in Seq(S), NEW i \in 1..Len(s)
  PROVE  /\ Without(s, i) \in Seq(S)
         /\ Len(Without(s, i)) = Len(s) - 1
         /\ \A j \in 1..(Len(s) - 1) : Without(s, i)[j] = IF j < i THEN s[j] ELSE s[j + 1]
<1>1. Len(s) \in Nat OBVIOUS
<1>2. /\ SubSeq(s, 1, i - 1) \in Seq(S) /\ Len(SubSeq(s, 1, i - 1)) = i - 1
      /\ \A j \in 1..(i - 1) : SubSeq(s, 1, i - 1)[j] = s[j]
  BY <1>1
<1>3. /\ SubSeq(s, i + 1, Len(s)) \in Seq(S) /\ Len(SubSeq(s, i + 1, Len(s))) = Len(s) - i
      /\ \A j \in 1..(Len(s) - i) : SubSeq(s, i + 1, Len(s))[j] = s[i + j]
  BY <1>1
<1> DEFINE a == SubSeq(s, 1, i - 1)
           b == SubSeq(s, i + 1, Len(s))
<1>4. /\ a \o b \in Seq(S) /\ Len(a \o b) = Len(a) + Len(b)
      /\ \A j \in 1..Len(a) : (a \o b)[j] = a[j]
      /\ \A j \in 1..Len(b) : (a \o b)[Len(a) + j] = b[j]
  <2> HIDE DEF a, b
  <2>1. a \in Seq(S) /\ b \in Seq(S) BY <1>2, <1>3 DEF a, b
  <2> QED BY <2>1, Concatenated
<1>5. Without(s, i) = a \o b BY DEF Without
<1>6. Len(a) = i - 1 /\ Len(b) = Len(s) - i BY <1>2, <1>3
<1>7. ASSUME NEW j \in 1..(Len(s) - 1)
      PROVE  (a \o b)[j] = IF j < i THEN s[j] ELSE s[j + 1]
  <2> HIDE DEF a, b
  <2>1. CASE j < i
    <3>1. j \in 1..Len(a) BY <1>1, <1>6, <2>1
    <3>2. a[j] = s[j] BY <1>2, <1>6, <3>1 DEF a
    <3> QED BY <1>4, <2>1, <3>1, <3>2
  <2>2. CASE ~(j < i)
    <3>1. j - (i - 1) \in 1..Len(b) BY <1>1, <1>6, <2>2
    <3>2. b[j - (i - 1)] = s[i + (j - (i - 1))] BY <1>3, <1>6, <3>1 DEF b
    <3>3. (a \o b)[Len(a) + (j - (i - 1))] = b[j - (i - 1)] BY <1>4, <3>1
    <3>4. Len(a) + (j - (i - 1)) = j /\ i + (j - (i - 1)) = j + 1 BY <1>6, <1>1
    <3> QED BY <2>2, <3>2, <3>3, <3>4
  <2> QED BY <2>1, <2>2
<1> HIDE DEF a, b
<1> QED BY <1>1, <1>4, <1>5, <1>6, <1>7

LEMMA Appended ==
  ASSUME NEW S, NEW s \in Seq(S), NEW e \in S
  PROVE  /\ Append(s, e) \in Seq(S) /\ Len(Append(s, e)) = Len(s) + 1
         /\ \A i \in 1..Len(s) : Append(s, e)[i] = s[i]
         /\ Append(s, e)[Len(s) + 1] = e
  OBVIOUS

\* A key is found where it is and nowhere else.
LEMMA FindExact ==
  ASSUME Inv, NEW k \in Key
  PROVE  Find(k) = {i \in DOMAIN keys : keys[i] = k}
<1>1. CASE ~indexed BY <1>1 DEF Find
<1>2. CASE indexed
  <2>1. Find(k) = {index[x] : x \in {k} \cap DOMAIN index} BY <1>2 DEF Find
  <2>2. CASE k \in DOMAIN index
    <3>1. Find(k) = {index[k]} BY <2>1, <2>2
    <3>2. index[k] \in DOMAIN keys /\ keys[index[k]] = k BY <1>2, <2>2 DEF Inv, IndexExact
    <3>3. \A i \in DOMAIN keys : keys[i] = k => i = index[k] BY <3>2 DEF Inv, IndexExact
    <3> QED BY <3>1, <3>2, <3>3
  <2>3. CASE k \notin DOMAIN index
    <3>1. Find(k) = {} BY <2>1, <2>3
    <3>2. \A i \in DOMAIN keys : keys[i] # k BY <1>2, <2>3 DEF Inv, IndexExact
    <3> QED BY <3>1, <3>2
  <2> QED BY <2>2, <2>3
<1> QED BY <1>1, <1>2 DEF Inv, SlicesOK

LEMMA InitInv ==
  ASSUME Init
  PROVE  Inv
<1>1. keys = <<>> /\ vals = <<>> /\ indexed = FALSE /\ indexKey = FALSE
  BY DEF Init
<1>2. index = [x \in {} |-> 0] BY DEF Init
<1>3. DOMAIN index = {} /\ index = [x \in DOMAIN index |-> index[x]] BY <1>2
<1>4. keys \in Seq(Key) /\ vals \in Seq(Value) /\ Len(vals) = Len(keys) /\ DOMAIN keys = {}
  BY <1>1
<1> QED BY <1>1, <1>3, <1>4 DEF Inv, SlicesOK, IndexExact

LEMMA SetOwnInv ==
  ASSUME Inv, NEW k \in Key, NEW v \in Value, SetOwn(k, v)
  PROVE  Inv'
<1>1. PICK i \in Find(k) : vals' = [vals EXCEPT ![i] = v] BY DEF SetOwn
<1>2. UNCHANGED <<keys, indexed, index, indexKey>> BY DEF SetOwn
<1>3. vals \in [1..Len(vals) -> Value] /\ Len(vals) \in Nat BY DEF Inv, SlicesOK
<1>4. vals' \in [1..Len(vals) -> Value] BY <1>1, <1>3
<1>5. vals' \in Seq(Value) /\ Len(vals') = Len(vals) BY <1>3, <1>4
<1> QED BY <1>2, <1>5 DEF Inv, SlicesOK, IndexExact

LEMMA AddInv ==
  ASSUME Inv, NEW k \in Key, NEW v \in Value, Add(k, v)
  PROVE  Inv'
<1>1. /\ keys' = Append(keys, k) /\ vals' = Append(vals, v)
      /\ indexed' = (indexed \/ Len(keys) + 1 > SmallObject)
      /\ indexKey' = (indexKey \/ IsIndexKey(k))
  BY DEF Add
<1>2. /\ keys \in Seq(Key) /\ vals \in Seq(Value) /\ Len(vals) = Len(keys)
      /\ indexed \in BOOLEAN /\ indexKey \in BOOLEAN
  BY DEF Inv, SlicesOK
<1>3. /\ keys' \in Seq(Key) /\ Len(keys') = Len(keys) + 1
      /\ \A i \in 1..Len(keys) : keys'[i] = keys[i]
      /\ keys'[Len(keys) + 1] = k
  BY <1>1, <1>2, Appended
<1>4. vals' \in Seq(Value) /\ Len(vals') = Len(vals) + 1 BY <1>1, <1>2, Appended
<1>5. DOMAIN keys = 1..Len(keys) /\ DOMAIN keys' = 1..(Len(keys) + 1) /\ Len(keys) \in Nat
  BY <1>2, <1>3
<1>6. \A i \in DOMAIN keys : keys[i] # k
  <2>1. Find(k) = {} BY DEF Add
  <2> QED BY <2>1, FindExact
<1>7. \A i, j \in DOMAIN keys' : keys'[i] = keys'[j] => i = j
  <2>1. \A i, j \in DOMAIN keys : keys[i] = keys[j] => i = j BY DEF Inv, IndexExact
  <2> QED BY <1>3, <1>5, <1>6, <2>1
<1>8. (\E i \in DOMAIN keys' : IsIndexKey(keys'[i])) => indexKey'
  <2>1. (\E i \in DOMAIN keys : IsIndexKey(keys[i])) => indexKey BY DEF Inv, IndexExact
  <2>2. SUFFICES ASSUME NEW i \in DOMAIN keys', IsIndexKey(keys'[i]) PROVE indexKey'
    OBVIOUS
  <2>3. CASE i \in 1..Len(keys) BY <1>1, <1>3, <1>5, <2>1, <2>2, <2>3
  <2>4. CASE i = Len(keys) + 1 BY <1>1, <1>3, <2>2, <2>4
  <2> QED BY <1>5, <2>3, <2>4
<1>9. index' = [x \in DOMAIN index' |-> index'[x]]
  <2>1. CASE indexed BY <2>1 DEF Add
  <2>2. CASE indexed' /\ ~indexed
    <3>1. index' = [x \in {keys'[i] : i \in DOMAIN keys'} |-> CHOOSE i \in DOMAIN keys' : keys'[i] = x]
      BY <2>2 DEF Add
    <3> DEFINE D == {keys'[i] : i \in DOMAIN keys'}
               f(x) == CHOOSE i \in DOMAIN keys' : keys'[i] = x
    <3>2. index' = [x \in D |-> f(x)] BY <3>1
    <3> HIDE DEF D, f
    <3> QED BY <3>2
  <2>3. CASE ~indexed' BY <1>1, <2>3 DEF Add, Inv, SlicesOK
  <2> QED BY <1>1, <1>2, <2>1, <2>2, <2>3
<1>10. indexed' => /\ DOMAIN index' = {keys'[i] : i \in DOMAIN keys'}
                   /\ \A x \in DOMAIN index' : index'[x] \in DOMAIN keys' /\ keys'[index'[x]] = x
  <2>1. CASE indexed
    <3>1. index' = [x \in DOMAIN index \cup {k} |-> IF x = k THEN Len(keys) + 1 ELSE index[x]]
      BY <2>1 DEF Add
    <3>2. /\ DOMAIN index = {keys[i] : i \in DOMAIN keys}
          /\ \A x \in DOMAIN index : index[x] \in DOMAIN keys /\ keys[index[x]] = x
      BY <2>1 DEF Inv, IndexExact
    <3>3. DOMAIN index' = {keys'[i] : i \in DOMAIN keys'}
      <4>1. DOMAIN index' = DOMAIN index \cup {k} BY <3>1
      <4>2. {keys'[i] : i \in DOMAIN keys'} = {keys[i] : i \in DOMAIN keys} \cup {k}
        <5>1. ASSUME NEW i \in DOMAIN keys'
              PROVE  keys'[i] \in {keys[j] : j \in DOMAIN keys} \cup {k}
          <6>1. i \in 1..Len(keys) \/ i = Len(keys) + 1 BY <1>5
          <6> QED BY <1>3, <1>5, <6>1
        <5>2. ASSUME NEW i \in DOMAIN keys
              PROVE  keys[i] \in {keys'[j] : j \in DOMAIN keys'}
          <6>1. i \in DOMAIN keys' /\ keys'[i] = keys[i] BY <1>3, <1>5
          <6> QED BY <6>1
        <5>3. k \in {keys'[j] : j \in DOMAIN keys'} BY <1>3, <1>5
        <5> QED BY <5>1, <5>2, <5>3
      <4> QED BY <3>2, <4>1, <4>2
    <3>4. ASSUME NEW x \in DOMAIN index'
          PROVE  index'[x] \in DOMAIN keys' /\ keys'[index'[x]] = x
      <4>1. CASE x = k BY <1>3, <1>5, <3>1, <4>1
      <4>2. CASE x # k
        <5>1. x \in DOMAIN index /\ index'[x] = index[x] BY <3>1, <4>2
        <5>2. index[x] \in 1..Len(keys) /\ keys[index[x]] = x BY <1>5, <3>2, <5>1
        <5> QED BY <1>3, <1>5, <5>1, <5>2
      <4> QED BY <4>1, <4>2
    <3> QED BY <3>3, <3>4
  <2>2. CASE indexed' /\ ~indexed
    <3>1. index' = [x \in {keys'[i] : i \in DOMAIN keys'} |-> CHOOSE i \in DOMAIN keys' : keys'[i] = x]
      BY <2>2 DEF Add
    <3>2. DOMAIN index' = {keys'[i] : i \in DOMAIN keys'} BY <3>1
    <3>3. ASSUME NEW x \in DOMAIN index'
          PROVE  index'[x] \in DOMAIN keys' /\ keys'[index'[x]] = x
      <4>1. \E i \in DOMAIN keys' : keys'[i] = x BY <3>2, <3>3
      <4>2. index'[x] = CHOOSE i \in DOMAIN keys' : keys'[i] = x BY <3>1, <3>2, <3>3
      <4> QED BY <4>1, <4>2
    <3> QED BY <3>2, <3>3
  <2> QED BY <1>1, <1>2, <2>1, <2>2
<1> QED BY <1>1, <1>2, <1>3, <1>4, <1>7, <1>8, <1>9, <1>10 DEF Inv, SlicesOK, IndexExact

\* The places after the one that is removed move by one.
LEMMA RemoveInv ==
  ASSUME Inv, NEW k \in Key, Remove(k)
  PROVE  Inv'
<1>1. PICK i \in Find(k) : Compact(i) /\ index' = IF indexed THEN Reindexed(i) ELSE index
  BY DEF Remove
<1>2. UNCHANGED <<indexed, indexKey>> BY DEF Remove
<1>3. /\ keys \in Seq(Key) /\ vals \in Seq(Value) /\ Len(vals) = Len(keys)
      /\ indexed \in BOOLEAN /\ indexKey \in BOOLEAN
      /\ DOMAIN keys = 1..Len(keys) /\ Len(keys) \in Nat
  BY DEF Inv, SlicesOK
<1>4. i \in 1..Len(keys) /\ keys[i] = k BY <1>1, <1>3, FindExact
<1>5. /\ keys' \in Seq(Key) /\ Len(keys') = Len(keys) - 1
      /\ \A j \in 1..(Len(keys) - 1) : keys'[j] = IF j < i THEN keys[j] ELSE keys[j + 1]
  BY <1>1, <1>3, <1>4, WithoutElements DEF Compact
<1>6. vals' \in Seq(Value) /\ Len(vals') = Len(vals) - 1
  BY <1>1, <1>3, <1>4, WithoutElements DEF Compact
<1>7. DOMAIN keys' = 1..(Len(keys) - 1) BY <1>3, <1>5
<1>8. \A a, b \in DOMAIN keys : keys[a] = keys[b] => a = b BY DEF Inv, IndexExact
<1>9. \A a, b \in DOMAIN keys' : keys'[a] = keys'[b] => a = b
  <2>1. SUFFICES ASSUME NEW a \in DOMAIN keys', NEW b \in DOMAIN keys', keys'[a] = keys'[b]
                 PROVE  a = b
    OBVIOUS
  <2>2. DEFINE p == IF a < i THEN a ELSE a + 1
               q == IF b < i THEN b ELSE b + 1
  <2>3. p \in DOMAIN keys /\ q \in DOMAIN keys BY <1>3, <1>4, <1>7
  <2>4. keys'[a] = keys[p] /\ keys'[b] = keys[q] BY <1>5, <1>7
  <2>5. p = q BY <1>8, <2>1, <2>3, <2>4
  <2> QED BY <1>3, <1>4, <1>7, <2>5
<1>10. (\E a \in DOMAIN keys' : IsIndexKey(keys'[a])) => indexKey'
  <2>1. (\E a \in DOMAIN keys : IsIndexKey(keys[a])) => indexKey BY DEF Inv, IndexExact
  <2>2. SUFFICES ASSUME NEW a \in DOMAIN keys', IsIndexKey(keys'[a]) PROVE indexKey
    BY <1>2
  <2>3. PICK p \in DOMAIN keys : keys'[a] = keys[p]
    <3>1. CASE a < i BY <1>3, <1>4, <1>5, <1>7, <3>1
    <3>2. CASE ~(a < i)
      <4>1. a + 1 \in DOMAIN keys /\ keys'[a] = keys[a + 1] BY <1>3, <1>4, <1>5, <1>7, <3>2
      <4> QED BY <4>1
    <3> QED BY <3>1, <3>2
  <2> QED BY <2>1, <2>2, <2>3
<1>11. index' = [x \in DOMAIN index' |-> index'[x]]
  <2>1. CASE indexed BY <1>1, <2>1 DEF Reindexed
  <2>2. CASE ~indexed BY <1>1, <2>2 DEF Inv, SlicesOK
  <2> QED BY <1>3, <2>1, <2>2
<1>12. indexed => /\ DOMAIN index' = {keys'[j] : j \in DOMAIN keys'}
                  /\ \A x \in DOMAIN index' : index'[x] \in DOMAIN keys' /\ keys'[index'[x]] = x
  <2>1. SUFFICES ASSUME indexed
                 PROVE  /\ DOMAIN index' = {keys'[j] : j \in DOMAIN keys'}
                        /\ \A x \in DOMAIN index' : index'[x] \in DOMAIN keys' /\ keys'[index'[x]] = x
    OBVIOUS
  <2>2. index' = [x \in DOMAIN index \ {k} |-> IF index[x] > i THEN index[x] - 1 ELSE index[x]]
    BY <1>1, <1>4, <2>1 DEF Reindexed
  <2>3. /\ DOMAIN index = {keys[j] : j \in DOMAIN keys}
        /\ \A x \in DOMAIN index : index[x] \in DOMAIN keys /\ keys[index[x]] = x
    BY <2>1 DEF Inv, IndexExact
  <2>4. ASSUME NEW x \in DOMAIN index'
        PROVE  index'[x] \in DOMAIN keys' /\ keys'[index'[x]] = x
    <3>1. x \in DOMAIN index /\ x # k BY <2>2
    <3>2. index[x] \in 1..Len(keys) /\ keys[index[x]] = x /\ index[x] # i BY <1>3, <1>4, <2>3, <3>1
    <3>3. index'[x] = IF index[x] > i THEN index[x] - 1 ELSE index[x] BY <2>2
    <3>4. CASE index[x] > i
      <4>1. index'[x] = index[x] - 1 /\ index'[x] \in 1..(Len(keys) - 1) /\ ~(index'[x] < i)
        BY <1>3, <1>4, <3>2, <3>3, <3>4
      <4>2. keys'[index'[x]] = keys[index'[x] + 1] BY <1>5, <4>1
      <4>3. index'[x] + 1 = index[x] BY <1>3, <3>2, <4>1
      <4> QED BY <1>7, <3>2, <4>1, <4>2, <4>3
    <3>5. CASE ~(index[x] > i)
      <4>1. index'[x] = index[x] /\ index'[x] \in 1..(Len(keys) - 1) /\ index'[x] < i
        BY <1>3, <1>4, <3>2, <3>3, <3>5
      <4> QED BY <1>5, <1>7, <3>2, <4>1
    <3> QED BY <3>4, <3>5
  <2>5. DOMAIN index' \subseteq {keys'[j] : j \in DOMAIN keys'}
    <3>1. ASSUME NEW x \in DOMAIN index' PROVE x \in {keys'[j] : j \in DOMAIN keys'}
      BY <2>4
    <3> QED BY <3>1
  <2>6. ASSUME NEW j \in DOMAIN keys' PROVE keys'[j] \in DOMAIN index'
    <3>1. DEFINE p == IF j < i THEN j ELSE j + 1
    <3>2. p \in DOMAIN keys /\ p # i BY <1>3, <1>4, <1>7
    <3>3. keys'[j] = keys[p] BY <1>5, <1>7
    <3>4. keys[p] \in DOMAIN index BY <2>3, <3>2
    <3>5. keys[p] # k BY <1>3, <1>4, <1>8, <3>2
    <3> QED BY <2>2, <3>3, <3>4, <3>5
  <2> QED BY <2>4, <2>5, <2>6
<1> QED BY <1>2, <1>3, <1>5, <1>6, <1>9, <1>10, <1>11, <1>12 DEF Inv, SlicesOK, IndexExact

LEMMA NextInv ==
  ASSUME Inv, [Next]_vars
  PROVE  Inv'
<1>1. CASE UNCHANGED object BY <1>1 DEF object, Inv, SlicesOK, IndexExact
<1>2. ASSUME NEW k \in Key, NEW v \in Value, Set(k, v) PROVE Inv'
  <2>1. CASE SetHidden(k, v) BY <2>1 DEF SetHidden, Inv, SlicesOK, IndexExact
  <2>2. CASE SetOwn(k, v) BY <2>2, SetOwnInv
  <2>3. CASE Add(k, v) BY <2>3, AddInv
  <2> QED BY <1>2, <2>1, <2>2, <2>3 DEF Set
<1>3. ASSUME NEW k \in Key, Delete(k) PROVE Inv'
  <2>1. CASE Remove(k) BY <2>1, RemoveInv
  <2>2. CASE RemoveHidden(k) BY <2>2 DEF RemoveHidden, Inv, SlicesOK, IndexExact
  <2> QED BY <1>3, <2>1, <2>2 DEF Delete
<1>4. ASSUME NEW k \in Key, Get(k) PROVE UNCHANGED object BY <1>4 DEF Get
<1>5. ASSUME List PROVE UNCHANGED object BY <1>5 DEF List
<1>6. ASSUME NEW w \in Walker, Walk(w) \/ Visit(w) PROVE UNCHANGED object
  BY <1>6 DEF Walk, Visit
<1>7. CASE UNCHANGED vars BY <1>1, <1>7 DEF vars
<1> QED BY <1>1, <1>2, <1>3, <1>4, <1>5, <1>6, <1>7 DEF Next

\* For any number of keys and any size at which the index is made, in every
\* state of an object (set and delete of value.go) no key is there twice, the
\* index has each key at its place and index keys are known to be there.
THEOREM ObjectIndexExact == Spec => []IndexExact
<1>1. Init => Inv BY InitInv
<1>2. Inv /\ [Next]_vars => Inv' BY NextInv
<1>3. Inv => IndexExact BY DEF Inv
<1> QED BY <1>1, <1>2, <1>3, PTL DEF Spec

---------------------------------------------------------------------------
(* What Among and OwnKeys return.                                          *)

\* Induction is by the least number for which a formula fails: the library's
\* own theorems take it as an operator.
LEMMA NatMin ==
  ASSUME NEW T, T \subseteq Nat, T # {}
  PROVE  \E x \in T : \A y \in T : x <= y
<1> DEFINE R == OpToRel(<, Nat)
<1>1. IsWellFoundedOn(R, Nat) BY NatLessThanWellFounded
<1>2. \A x, y \in Nat : x < y => <<x, y>> \in R BY DEF OpToRel
<1> HIDE DEF R
<1>3. PICK x \in T : \A y \in T : ~(<<y, x>> \in R) BY <1>1, WFMin
<1>4. ASSUME NEW y \in T PROVE x <= y
  <2>1. x \in Nat /\ y \in Nat OBVIOUS
  <2>2. ~(y < x) BY <1>2, <1>3, <2>1
  <2> QED BY <2>1, <2>2
<1> QED BY <1>4

\* Induction up to a length, with a set for the formula.
LEMMA UpTo ==
  ASSUME NEW n \in Nat, NEW I, 0 \in I,
         \A m \in 0..(n - 1) : m \in I => m + 1 \in I
  PROVE  0..n \subseteq I
<1> SUFFICES ASSUME (0..n) \ I # {} PROVE FALSE OBVIOUS
<1> DEFINE J == (0..n) \ I
<1>0. J \subseteq Nat /\ J # {} OBVIOUS
<1>1. PICK x \in J : \A y \in J : x <= y
  <2> HIDE DEF J
  <2> QED BY <1>0, NatMin
<1>2. x # 0 BY <1>1
<1>3. x - 1 \in 0..(n - 1) /\ (x - 1) + 1 = x /\ ~(x <= x - 1) BY <1>1, <1>2
<1>4. x - 1 \in I BY <1>1, <1>3
<1> QED BY <1>1, <1>3, <1>4

Longer(s, T, q, n) == IF s[n] \in T THEN Append(q, s[n]) ELSE q

\* The recursion of Among is one over a function.
LEMMA AmongSteps ==
  ASSUME NEW S, NEW s \in Seq(S), NEW T
  PROVE  \E f : /\ f = [n \in 0..Len(s) |-> f[n]] /\ f[0] = <<>>
                /\ \A n \in 1..Len(s) : f[n] = Longer(s, T, f[n - 1], n)
                /\ Among(s, T) = f[Len(s)]
<1> DEFINE N == Len(s)
           Steps(g, n) == /\ g = [m \in 0..n |-> g[m]] /\ g[0] = <<>>
                          /\ \A m \in 1..n : g[m] = Longer(s, T, g[m - 1], m)
           I == {n \in 0..N : \E g : Steps(g, n)}
<1>0. N \in Nat OBVIOUS
<1> HIDE DEF N
<1>1. 0 \in I
  <2> DEFINE g == [m \in 0..0 |-> <<>>]
  <2>1. Steps(g, 0) OBVIOUS
  <2>2. 0 \in 0..N BY <1>0
  <2> HIDE DEF g
  <2> QED BY <2>1, <2>2
<1>2. ASSUME NEW m \in 0..(N - 1), m \in I PROVE m + 1 \in I
  <2>1. PICK g : Steps(g, m) BY <1>2
  <2> DEFINE h == [k \in 0..(m + 1) |-> IF k = m + 1 THEN Longer(s, T, g[m], m + 1) ELSE g[k]]
  <2>2. h[m + 1] = Longer(s, T, g[m], m + 1) /\ \A k \in 0..m : h[k] = g[k]
    BY <1>0
  <2>3. h = [k \in 0..(m + 1) |-> h[k]] OBVIOUS
  <2> HIDE DEF h
  <2>4. ASSUME NEW k \in 1..(m + 1) PROVE h[k] = Longer(s, T, h[k - 1], k)
    <3>1. CASE k = m + 1
      <4>1. k - 1 = m /\ m \in 0..m BY <1>0, <3>1
      <4> QED BY <2>2, <3>1, <4>1
    <3>2. CASE k # m + 1
      <4>1. k \in 1..m /\ k \in 0..m /\ k - 1 \in 0..m BY <1>0, <3>2
      <4> QED BY <2>1, <2>2, <4>1
    <3> QED BY <3>1, <3>2
  <2>5. 0 \in 0..m /\ m + 1 \in 0..N BY <1>0
  <2>6. Steps(h, m + 1) BY <2>1, <2>2, <2>3, <2>4, <2>5
  <2> QED BY <2>5, <2>6
<1>3. PICK g : Steps(g, N)
  <2>1. 0..N \subseteq I
    <3> HIDE DEF I
    <3> QED BY <1>0, <1>1, <1>2, UpTo
  <2> QED BY <1>0, <2>1
<1> DEFINE body(f) == [n \in 0..Len(s) |->
             IF n = 0 THEN <<>>
             ELSE IF s[n] \in T THEN Append(f[n - 1], s[n]) ELSE f[n - 1]]
           kept == CHOOSE f : f = body(f)
<1>4. g = body(g)
  <2>1. g = [n \in 0..N |-> g[n]] BY <1>3
  <2>2. ASSUME NEW n \in 0..N
        PROVE  g[n] = IF n = 0 THEN <<>>
                      ELSE IF s[n] \in T THEN Append(g[n - 1], s[n]) ELSE g[n - 1]
    <3>1. CASE n = 0 BY <1>3, <3>1
    <3>2. CASE n # 0
      <4>1. n \in 1..N BY <1>0, <3>2
      <4> QED BY <1>3, <3>2, <4>1 DEF Longer
    <3> QED BY <3>1, <3>2
  <2> QED BY <2>1, <2>2 DEF N
<1>5. kept = body(kept)
  <2> HIDE DEF body
  <2> QED BY <1>4
<1>6. Among(s, T) = kept[Len(s)] BY DEF Among
<1> HIDE DEF kept
<1>7. /\ kept = [n \in 0..N |-> kept[n]] /\ kept[0] = <<>>
      /\ \A n \in 1..N : kept[n] = Longer(s, T, kept[n - 1], n)
  <2>1. \A n \in 0..N : kept[n] = IF n = 0 THEN <<>>
            ELSE IF s[n] \in T THEN Append(kept[n - 1], s[n]) ELSE kept[n - 1]
    BY <1>5 DEF N
  <2>2. kept = [n \in 0..N |-> kept[n]] BY <1>5 DEF N
  <2>3. 0 \in 0..N /\ \A n \in 1..N : n \in 0..N /\ n # 0 BY <1>0
  <2> QED BY <2>1, <2>2, <2>3 DEF Longer
<1> QED BY <1>6, <1>7 DEF N

\* o is what s has of T up to n: p says from where each element comes.
Sifted(s, T, o, n) ==
  \E p \in [1..Len(o) -> 1..n] :
    /\ \A r \in 1..Len(o) : o[r] = s[p[r]]
    /\ \A a, b \in 1..Len(o) : a < b => p[a] < p[b]
    /\ \A i \in 1..n : s[i] \in T <=> \E r \in 1..Len(o) : p[r] = i

LEMMA LongerSifted ==
  ASSUME NEW S, NEW s \in Seq(S), NEW T, NEW o \in Seq(S),
         NEW n \in 0..(Len(s) - 1), Sifted(s, T, o, n)
  PROVE  /\ Longer(s, T, o, n + 1) \in Seq(S)
         /\ Sifted(s, T, Longer(s, T, o, n + 1), n + 1)
<1>0. Len(s) \in Nat /\ Len(o) \in Nat /\ n + 1 \in 1..Len(s) /\ s[n + 1] \in S OBVIOUS
<1>1. PICK p \in [1..Len(o) -> 1..n] :
        /\ \A r \in 1..Len(o) : o[r] = s[p[r]]
        /\ \A a, b \in 1..Len(o) : a < b => p[a] < p[b]
        /\ \A i \in 1..n : s[i] \in T <=> \E r \in 1..Len(o) : p[r] = i
  BY DEF Sifted
<1>2. CASE s[n + 1] \notin T
  <2>1. Longer(s, T, o, n + 1) = o BY <1>2 DEF Longer
  <2>2. p \in [1..Len(o) -> 1..(n + 1)] BY <1>0
  <2>3. ASSUME NEW i \in 1..(n + 1)
        PROVE  s[i] \in T <=> \E r \in 1..Len(o) : p[r] = i
    <3>1. CASE i = n + 1
      <4>1. \A r \in 1..Len(o) : p[r] \in 1..n BY <1>1
      <4> QED BY <1>0, <1>2, <3>1, <4>1
    <3>2. CASE i # n + 1
      <4>1. i \in 1..n BY <1>0, <3>2
      <4> QED BY <1>1, <4>1
    <3> QED BY <3>1, <3>2
  <2>4. Sifted(s, T, o, n + 1)
    <3> SUFFICES \E x \in [1..Len(o) -> 1..(n + 1)] :
          /\ \A r \in 1..Len(o) : o[r] = s[x[r]]
          /\ \A a, b \in 1..Len(o) : a < b => x[a] < x[b]
          /\ \A i \in 1..(n + 1) : s[i] \in T <=> \E r \in 1..Len(o) : x[r] = i
      BY DEF Sifted
    <3> WITNESS p \in [1..Len(o) -> 1..(n + 1)]
    <3> QED BY <1>1, <2>3
  <2> QED BY <2>1, <2>4
<1>3. CASE s[n + 1] \in T
  <2> DEFINE e == s[n + 1]
             l == Len(o) + 1
             q == [r \in 1..l |-> IF r = l THEN n + 1 ELSE p[r]]
  <2>1. /\ Longer(s, T, o, n + 1) = Append(o, e)
        /\ Append(o, e) \in Seq(S) /\ Len(Append(o, e)) = l
        /\ \A i \in 1..Len(o) : Append(o, e)[i] = o[i]
        /\ Append(o, e)[l] = e
    BY <1>0, <1>3, Appended DEF Longer
  <2>2. /\ q[l] = n + 1 /\ \A r \in 1..Len(o) : q[r] = p[r] /\ r \in 1..l /\ p[r] \in 1..n
        /\ l \in 1..l /\ \A r \in 1..l : r = l \/ r \in 1..Len(o)
    BY <1>0, <1>1
  <2>3. q \in [1..l -> 1..(n + 1)] BY <1>0, <1>1
  <2> HIDE DEF q
  <2>4. \A r \in 1..l : Append(o, e)[r] = s[q[r]] BY <1>1, <2>1, <2>2
  <2>5. ASSUME NEW a \in 1..l, NEW b \in 1..l, a < b PROVE q[a] < q[b]
    <3>1. a \in 1..Len(o) BY <1>0, <2>5
    <3>2. CASE b = l BY <1>0, <2>2, <3>1, <3>2
    <3>3. CASE b # l BY <1>1, <2>2, <2>5, <3>1, <3>3
    <3> QED BY <3>2, <3>3
  <2>6. ASSUME NEW i \in 1..(n + 1)
        PROVE  s[i] \in T <=> \E r \in 1..l : q[r] = i
    <3>1. CASE i = n + 1 BY <1>3, <2>2, <3>1
    <3>2. CASE i # n + 1
      <4>1. i \in 1..n BY <1>0, <3>2
      <4>2. (\E r \in 1..l : q[r] = i) <=> \E r \in 1..Len(o) : p[r] = i
        BY <2>2, <3>2
      <4> QED BY <1>1, <4>1, <4>2
    <3> QED BY <3>1, <3>2
  <2> DEFINE o2 == Append(o, e)
  <2>7. Sifted(s, T, o2, n + 1)
    <3> HIDE DEF o2
    <3>1. Len(o2) = l BY <2>1 DEF o2
    <3>2. \A r \in 1..Len(o2) : o2[r] = s[q[r]] BY <2>4, <3>1 DEF o2
    <3>3. q \in [1..Len(o2) -> 1..(n + 1)] BY <2>3, <3>1
    <3>4. \A a, b \in 1..Len(o2) : a < b => q[a] < q[b] BY <2>5, <3>1
    <3>5. \A i \in 1..(n + 1) : s[i] \in T <=> \E r \in 1..Len(o2) : q[r] = i
      BY <2>6, <3>1
    <3> SUFFICES \E x \in [1..Len(o2) -> 1..(n + 1)] :
          /\ \A r \in 1..Len(o2) : o2[r] = s[x[r]]
          /\ \A a, b \in 1..Len(o2) : a < b => x[a] < x[b]
          /\ \A i \in 1..(n + 1) : s[i] \in T <=> \E r \in 1..Len(o2) : x[r] = i
      BY DEF Sifted
    <3> USE <3>3
    <3> WITNESS q \in [1..Len(o2) -> 1..(n + 1)]
    <3> QED BY <3>2, <3>4, <3>5
  <2> QED BY <2>1, <2>7
<1> QED BY <1>2, <1>3

\* The elements of s that are in T and no others, in the order of s.
LEMMA AmongSifts ==
  ASSUME NEW S, NEW s \in Seq(S), NEW T
  PROVE  Among(s, T) \in Seq(S) /\ Sifted(s, T, Among(s, T), Len(s))
<1>1. PICK f : /\ f = [n \in 0..Len(s) |-> f[n]] /\ f[0] = <<>>
               /\ \A n \in 1..Len(s) : f[n] = Longer(s, T, f[n - 1], n)
               /\ Among(s, T) = f[Len(s)]
  BY AmongSteps
<1> DEFINE I == {n \in 0..Len(s) : f[n] \in Seq(S) /\ Sifted(s, T, f[n], n)}
<1>0. Len(s) \in Nat OBVIOUS
<1>2. 0 \in I
  <2> DEFINE e == [i \in {} |-> 0]
  <2>1. <<>> \in Seq(S) /\ Len(<<>>) = 0 OBVIOUS
  <2>2. e \in [1..0 -> 1..0] OBVIOUS
  <2>3. Sifted(s, T, <<>>, 0) BY <2>1, <2>2 DEF Sifted
  <2> QED BY <1>0, <1>1, <2>1, <2>3
<1>3. ASSUME NEW m \in 0..(Len(s) - 1), m \in I PROVE m + 1 \in I
  <2>1. m + 1 \in 1..Len(s) /\ m + 1 \in 0..Len(s) /\ (m + 1) - 1 = m BY <1>0
  <2>2. f[m + 1] = Longer(s, T, f[m], m + 1) BY <1>1, <2>1
  <2>3. f[m] \in Seq(S) /\ Sifted(s, T, f[m], m) BY <1>3
  <2>4. f[m + 1] \in Seq(S) /\ Sifted(s, T, f[m + 1], m + 1)
    BY <2>2, <2>3, LongerSifted
  <2> QED BY <2>1, <2>4
<1>4. 0..Len(s) \subseteq I
  <2> HIDE DEF I
  <2> QED BY <1>0, <1>2, <1>3, UpTo
<1> QED BY <1>0, <1>1, <1>4

---------------------------------------------------------------------------
(* The order in which a script sees the keys.                              *)

LEMMA KeyKinds ==
  /\ \A k \in Key : IsIndexKey(k) => k[2] \in 0..MaxIndex /\ k = <<"index", k[2]>>
  /\ \A i \in 0..MaxIndex : <<"index", i>> \in Key /\ IsIndexKey(<<"index", i>>)
                            /\ <<"index", i>>[2] = i
  /\ IndexKeys \in Seq(Key) /\ Len(IndexKeys) = MaxIndex + 1
  /\ \A i \in 1..(MaxIndex + 1) : IndexKeys[i] = <<"index", i - 1>>
<1>0. MaxIndex \in Nat BY ObjectAssumption
<1>1. \A k \in Key : IsIndexKey(k) => k[2] \in 0..MaxIndex /\ k = <<"index", k[2]>>
  <2>1. SUFFICES ASSUME NEW k \in Key, IsIndexKey(k)
                 PROVE  k[2] \in 0..MaxIndex /\ k = <<"index", k[2]>>
    OBVIOUS
  <2>2. ~(\E x \in Name : k = <<"name", x>>) BY <2>1 DEF IsIndexKey
  <2>3. PICK i \in 0..MaxIndex : k = <<"index", i>> BY <2>2 DEF Key
  <2> QED BY <2>3
<1>2. ASSUME NEW i \in 0..MaxIndex
      PROVE  <<"index", i>> \in Key /\ IsIndexKey(<<"index", i>>) /\ <<"index", i>>[2] = i
  BY DEF Key, IsIndexKey
<1>3. \A i \in 1..(MaxIndex + 1) : i - 1 \in 0..MaxIndex BY <1>0
<1>4. IndexKeys \in [1..(MaxIndex + 1) -> Key] BY <1>2, <1>3 DEF IndexKeys
<1>5. IndexKeys \in Seq(Key) /\ Len(IndexKeys) = MaxIndex + 1 BY <1>0, <1>4
<1>6. \A i \in 1..(MaxIndex + 1) : IndexKeys[i] = <<"index", i - 1>> BY DEF IndexKeys
<1> QED BY <1>1, <1>2, <1>5, <1>6

\* o lists the keys of the object in the order a script sees them; p says
\* where each one is.
Lists(o, p) ==
  /\ o \in Seq(Key)
  /\ p \in [1..Len(o) -> 1..Len(keys)]
  /\ \A r \in 1..Len(o) : o[r] = keys[p[r]]
  /\ \A i \in 1..Len(keys) : \E r \in 1..Len(o) : p[r] = i
  /\ \A a, b \in 1..Len(o) : a < b => Dictionary!First(o[a], o[b], p[a], p[b])

\* First in the words of Objects.
LEMMA SameNames ==
  ASSUME NEW a, NEW b, NEW i, NEW j
  PROVE  Dictionary!First(a, b, i, j) <=>
           IF IsIndexKey(a) THEN ~IsIndexKey(b) \/ a[2] < b[2] ELSE ~IsIndexKey(b) /\ i < j
BY DEF Dictionary!First, Dictionary!IsIndex, IsIndexKey

\* The index keys that are there, by number, then the other keys.
LEMMA OwnKeysLists ==
  ASSUME Inv
  PROVE  \E p : Lists(OwnKeys, p)
<1>0. /\ keys \in Seq(Key) /\ Len(keys) \in Nat /\ DOMAIN keys = 1..Len(keys)
      /\ indexKey \in BOOLEAN /\ MaxIndex \in Nat
      /\ \A i \in 1..Len(keys) : keys[i] \in Key
      /\ \A i, j \in 1..Len(keys) : keys[i] = keys[j] => i = j
      /\ (\E i \in 1..Len(keys) : IsIndexKey(keys[i])) => indexKey
  BY ObjectAssumption DEF Inv, SlicesOK, IndexExact
<1>1. CASE ~indexKey
  <2> DEFINE p == [i \in 1..Len(keys) |-> i]
  <2>1. OwnKeys = keys BY <1>1 DEF OwnKeys
  <2>2. \A i \in 1..Len(keys) : ~IsIndexKey(keys[i]) BY <1>0, <1>1
  <2>3. p \in [1..Len(keys) -> 1..Len(keys)] /\ \A i \in 1..Len(keys) : p[i] = i
    OBVIOUS
  <2> HIDE DEF p
  <2>4. \A a, b \in 1..Len(keys) : a < b => Dictionary!First(keys[a], keys[b], p[a], p[b])
    BY <2>2, <2>3, SameNames
  <2>5. Lists(keys, p) BY <1>0, <2>3, <2>4 DEF Lists
  <2> QED BY <2>1, <2>5
<1>2. CASE indexKey
  <2> DEFINE K == {keys[i] : i \in DOMAIN keys}
             A == Among(IndexKeys, K)
             B == Among(keys, {k \in Key : ~IsIndexKey(k)})
             o == A \o B
             Place(k) == CHOOSE i \in 1..Len(keys) : keys[i] = k
  <2>1. OwnKeys = o BY <1>2 DEF OwnKeys
  <2>2. A \in Seq(Key) /\ Sifted(IndexKeys, K, A, MaxIndex + 1)
    BY KeyKinds, AmongSifts
  <2>3. B \in Seq(Key) /\ Sifted(keys, {k \in Key : ~IsIndexKey(k)}, B, Len(keys))
    BY <1>0, AmongSifts
  <2>4. \A x : x \in K <=> \E i \in 1..Len(keys) : keys[i] = x BY <1>0
  <2> HIDE DEF A, B, K
  <2>5. PICK f \in [1..Len(A) -> 1..(MaxIndex + 1)] :
          /\ \A r \in 1..Len(A) : A[r] = IndexKeys[f[r]]
          /\ \A a, b \in 1..Len(A) : a < b => f[a] < f[b]
          /\ \A i \in 1..(MaxIndex + 1) : IndexKeys[i] \in K <=> \E r \in 1..Len(A) : f[r] = i
    BY <2>2 DEF Sifted
  <2>6. PICK g \in [1..Len(B) -> 1..Len(keys)] :
          /\ \A r \in 1..Len(B) : B[r] = keys[g[r]]
          /\ \A a, b \in 1..Len(B) : a < b => g[a] < g[b]
          /\ \A i \in 1..Len(keys) : keys[i] \in {k \in Key : ~IsIndexKey(k)} <=>
                                     \E r \in 1..Len(B) : g[r] = i
    BY <2>3 DEF Sifted
  <2>7. /\ o \in Seq(Key) /\ Len(o) = Len(A) + Len(B)
        /\ \A j \in 1..Len(A) : o[j] = A[j]
        /\ \A j \in 1..Len(B) : o[Len(A) + j] = B[j]
        /\ Len(A) \in Nat /\ Len(B) \in Nat
    BY <2>2, <2>3, Concatenated
  <2> HIDE DEF o
  \* The first part: index keys, in numeric order.
  <2>8. ASSUME NEW r \in 1..Len(A)
        PROVE  /\ IsIndexKey(A[r]) /\ A[r][2] = f[r] - 1
               /\ Place(A[r]) \in 1..Len(keys) /\ keys[Place(A[r])] = A[r]
    <3>1. f[r] \in 1..(MaxIndex + 1) BY <2>5
    <3>2. A[r] = <<"index", f[r] - 1>> /\ f[r] - 1 \in 0..MaxIndex
      BY <1>0, <2>5, <3>1, KeyKinds
    <3>3. A[r] \in K BY <2>5, <3>1
    <3>4. \E i \in 1..Len(keys) : keys[i] = A[r] BY <2>4, <3>3
    <3> QED BY <3>2, <3>4, KeyKinds
  <2>9. ASSUME NEW r \in 1..Len(B)
        PROVE  g[r] \in 1..Len(keys) /\ keys[g[r]] = B[r] /\ ~IsIndexKey(B[r])
    BY <2>6, <1>0
  <2> DEFINE q == [r \in 1..Len(o) |-> IF r <= Len(A) THEN Place(A[r]) ELSE g[r - Len(A)]]
  <2>10. ASSUME NEW r \in 1..Len(o)
         PROVE  \/ r \in 1..Len(A) /\ q[r] = Place(A[r]) /\ o[r] = A[r]
                \/ /\ ~(r <= Len(A)) /\ r - Len(A) \in 1..Len(B)
                   /\ q[r] = g[r - Len(A)] /\ o[r] = B[r - Len(A)]
    <3> HIDE DEF Place
    <3>1. CASE r <= Len(A)
      <4>1. r \in 1..Len(A) BY <2>7, <3>1
      <4> QED BY <2>7, <3>1, <4>1
    <3>2. CASE ~(r <= Len(A))
      <4>1. r - Len(A) \in 1..Len(B) /\ Len(A) + (r - Len(A)) = r BY <2>7, <3>2
      <4> QED BY <2>7, <3>2, <4>1
    <3> QED BY <3>1, <3>2
  <2>11. q = [r \in 1..Len(o) |-> q[r]] OBVIOUS
  <2> HIDE DEF q, Place
  <2>12. \A r \in 1..Len(o) : q[r] \in 1..Len(keys) /\ o[r] = keys[q[r]]
    BY <2>8, <2>9, <2>10
  <2>13. q \in [1..Len(o) -> 1..Len(keys)] BY <2>11, <2>12
  <2>14. ASSUME NEW i \in 1..Len(keys) PROVE \E r \in 1..Len(o) : q[r] = i
    <3>1. CASE IsIndexKey(keys[i])
      <4>1. keys[i] \in Key BY <1>0
      <4>2. keys[i][2] \in 0..MaxIndex /\ keys[i] = <<"index", keys[i][2]>>
        BY <3>1, <4>1, KeyKinds
      <4>3. keys[i][2] + 1 \in 1..(MaxIndex + 1) /\ (keys[i][2] + 1) - 1 = keys[i][2]
        BY <1>0, <4>2
      <4>4. IndexKeys[keys[i][2] + 1] = keys[i] BY <4>2, <4>3, KeyKinds
      <4>5. keys[i] \in K BY <2>4
      <4>6. PICK r \in 1..Len(A) : f[r] = keys[i][2] + 1 BY <2>5, <4>3, <4>4, <4>5
      <4>7. A[r] = keys[i] BY <2>5, <4>4, <4>6
      <4>8. Place(A[r]) = i BY <1>0, <2>8, <4>7
      <4>9. r \in 1..Len(o) /\ r <= Len(A) BY <2>7
      <4> QED BY <2>10, <4>8, <4>9
    <3>2. CASE ~IsIndexKey(keys[i])
      <4>1. PICK r \in 1..Len(B) : g[r] = i BY <1>0, <2>6, <3>2
      <4>2. /\ r + Len(A) \in 1..Len(o) /\ (r + Len(A)) - Len(A) = r
            /\ r + Len(A) \notin 1..Len(A)
        BY <2>7
      <4> QED BY <2>10, <4>1, <4>2
    <3> QED BY <3>1, <3>2
  <2>15. ASSUME NEW a \in 1..Len(o), NEW b \in 1..Len(o), a < b
         PROVE  Dictionary!First(o[a], o[b], q[a], q[b])
    <3>1. CASE b <= Len(A)
      <4>1. a \in 1..Len(A) /\ b \in 1..Len(A) BY <2>7, <2>15, <3>1
      <4>2. f[a] < f[b] /\ f[a] \in Int /\ f[b] \in Int BY <1>0, <2>5, <2>15, <4>1
      <4>3. f[a] - 1 < f[b] - 1 BY <4>2
      <4>4. o[a] = A[a] /\ o[b] = A[b] BY <2>7, <4>1
      <4> QED BY <2>8, <4>1, <4>3, <4>4, SameNames
    <3>2. CASE a <= Len(A) /\ ~(b <= Len(A))
      <4>1. a \in 1..Len(A) BY <2>7, <3>2
      <4>2. IsIndexKey(o[a]) BY <2>7, <2>8, <4>1
      <4>3. ~IsIndexKey(o[b]) BY <2>9, <2>10, <3>2, <2>7
      <4> QED BY <4>2, <4>3, SameNames
    <3>3. CASE ~(a <= Len(A))
      <4>1. ~(b <= Len(A)) BY <2>7, <2>15, <3>3
      <4>2. a - Len(A) \in 1..Len(B) /\ q[a] = g[a - Len(A)] /\ o[a] = B[a - Len(A)]
        BY <2>7, <2>10, <3>3
      <4>3. b - Len(A) \in 1..Len(B) /\ q[b] = g[b - Len(A)] /\ o[b] = B[b - Len(A)]
        BY <2>7, <2>10, <4>1
      <4>4. a - Len(A) < b - Len(A) BY <2>7, <2>15
      <4>5. q[a] < q[b] BY <2>6, <4>2, <4>3, <4>4
      <4> QED BY <2>9, <4>2, <4>3, <4>5, SameNames
    <3> QED BY <2>7, <3>1, <3>2, <3>3
  <2>16. Lists(o, q) BY <2>7, <2>12, <2>13, <2>14, <2>15 DEF Lists
  <2> QED BY <2>1, <2>16
<1> QED BY <1>0, <1>1, <1>2

\* The instance has operators of its own for those of FiniteSets.
LEMMA SameCardinality ==
  ASSUME NEW S
  PROVE  Dictionary!Cardinality(S) = Cardinality(S)
BY DEF Dictionary!Cardinality, Cardinality

---------------------------------------------------------------------------
(* What the mapping makes of the slices.                                   *)

LEMMA EntriesAre ==
  ASSUME Inv
  PROVE  /\ Len(keys) \in Nat /\ DOMAIN keys = 1..Len(keys)
         /\ DOMAIN Entries = 1..Len(keys)
         /\ \A i \in 1..Len(keys) :
              /\ Entries[i] = [key |-> keys[i], value |-> vals[i]]
              /\ Entries[i].key = keys[i] /\ Entries[i].value = vals[i]
              /\ keys[i] \in Key /\ vals[i] \in Value
         /\ Entries \in Seq([key : Key, value : Value]) /\ Len(Entries) = Len(keys)
<1>1. /\ keys \in Seq(Key) /\ vals \in Seq(Value) /\ Len(vals) = Len(keys)
      /\ Len(keys) \in Nat /\ DOMAIN keys = 1..Len(keys)
      /\ \A i \in 1..Len(keys) : keys[i] \in Key /\ vals[i] \in Value
  BY DEF Inv, SlicesOK
<1>2. /\ DOMAIN Entries = 1..Len(keys)
      /\ \A i \in 1..Len(keys) : Entries[i] = [key |-> keys[i], value |-> vals[i]]
      /\ Entries = [i \in 1..Len(keys) |-> Entries[i]]
  BY <1>1 DEF Entries
<1> DEFINE E == [key : Key, value : Value]
<1>3. \A i \in 1..Len(keys) : Entries[i] \in E
  BY <1>1, <1>2
<1> HIDE DEF E
<1>4. Entries \in [1..Len(keys) -> E] BY <1>2, <1>3
<1>5. Entries \in Seq(E) /\ Len(Entries) = Len(keys)
  BY <1>1, <1>4
<1> QED BY <1>1, <1>2, <1>5 DEF E

\* The dictionary has a key where find has it.
LEMMA PlacesAre ==
  ASSUME Inv, NEW k \in Key
  PROVE  /\ Dictionary!Places(k) = Find(k)
         /\ Dictionary!Present(k) <=> Find(k) # {}
         /\ \A i \in Find(k) : i \in 1..Len(keys) /\ keys[i] = k /\ Find(k) = {i}
<1>1. Find(k) = {i \in 1..Len(keys) : keys[i] = k} BY FindExact, EntriesAre
<1>2. Dictionary!Places(k) = {i \in DOMAIN Entries : Entries[i].key = k}
  BY DEF Dictionary!Places
<1>3. Dictionary!Places(k) = Find(k) BY <1>1, <1>2, EntriesAre
<1>4. \A i \in Find(k) : i \in 1..Len(keys) /\ keys[i] = k /\ Find(k) = {i}
  BY <1>1, EntriesAre DEF Inv, IndexExact
<1> QED BY <1>3, <1>4 DEF Dictionary!Present

\* What a listing is, one fact at a time.
LEMMA ListsHas ==
  ASSUME Inv, NEW o, NEW p, Lists(o, p)
  PROVE  /\ o \in Seq(Key) /\ Len(o) \in Nat
         /\ p \in [1..Len(o) -> 1..Len(keys)]
         /\ \A q \in 1..Len(o) : o[q] = keys[p[q]]
         /\ \A a, b \in 1..Len(o) : a < b => Dictionary!First(o[a], o[b], p[a], p[b])
<1>1. o \in Seq(Key) BY DEF Lists
<1>2. o \in Seq(Key) /\ Len(o) \in Nat BY <1>1
<1>3. p \in [1..Len(o) -> 1..Len(keys)] BY DEF Lists
<1>4. \A q \in 1..Len(o) : o[q] = keys[p[q]] BY DEF Lists
<1>6. \A a, b \in 1..Len(o) : a < b => Dictionary!First(o[a], o[b], p[a], p[b])
  BY DEF Lists
<1> QED BY <1>2, <1>3, <1>4, <1>6

\* What is listed at r has r - 1 keys before it.
LEMMA EarlierAre ==
  ASSUME Inv, NEW o, NEW p, Lists(o, p), NEW r \in 1..Len(o)
  PROVE  Cardinality(Dictionary!Earlier(p[r])) = r - 1
<1> DEFINE F == [q \in 1..(r - 1) |-> p[q]]
           E == Dictionary!Earlier(p[r])
<1>0. /\ Len(o) \in Nat /\ p \in [1..Len(o) -> 1..Len(keys)]
      /\ \A q \in 1..Len(o) : o[q] = keys[p[q]]
      /\ \A a, b \in 1..Len(o) : a < b => Dictionary!First(o[a], o[b], p[a], p[b])
  BY ListsHas
<1>9. \A i \in 1..Len(keys) : \E q \in 1..Len(o) : p[q] = i BY DEF Lists
<1>1. E = {j \in 1..Len(keys) : Dictionary!First(keys[j], keys[p[r]], j, p[r])}
  <2>1. E = {j \in DOMAIN Entries : Dictionary!First(Entries[j].key, Entries[p[r]].key, j, p[r])}
    BY DEF Dictionary!Earlier
  <2>2. p[r] \in 1..Len(keys) BY <1>0
  <2> HIDE DEF E
  <2> QED BY <2>1, <2>2, EntriesAre
<1>2. /\ \A a, b, i, j : i \in Int /\ j \in Int /\ a \in Key /\ b \in Key
           /\ Dictionary!First(a, b, i, j) => ~Dictionary!First(b, a, j, i)
      /\ \A i \in 1..Len(keys) : keys[i] \in Key
  <2>1. \A k \in Key : IsIndexKey(k) => k[2] \in Int BY KeyKinds
  <2>2. \A m, n \in Int : m < n => ~(n < m) OBVIOUS
  <2> QED BY <2>1, <2>2, SameNames, EntriesAre
<1> HIDE DEF E
<1>3. ASSUME NEW q \in 1..(r - 1) PROVE q \in 1..Len(o) /\ q < r /\ p[q] \in E
  <2>1. q \in 1..Len(o) /\ q < r BY <1>0
  <2> QED BY <1>0, <1>1, <2>1
<1>4. ASSUME NEW j \in E PROVE \E q \in 1..(r - 1) : p[q] = j
  <2>1. PICK q \in 1..Len(o) : p[q] = j BY <1>1, <1>9
  <2>2. Dictionary!First(o[q], o[r], p[q], p[r]) BY <1>0, <1>1, <2>1
  <2>3. o[q] \in Key /\ o[r] \in Key /\ p[q] \in Int /\ p[r] \in Int BY <1>0, <1>2
  <2>4. ~(r < q) BY <1>0, <1>2, <2>2, <2>3
  <2>5. q # r BY <1>2, <2>2, <2>3
  <2>6. q \in 1..(r - 1) BY <1>0, <2>4, <2>5
  <2> QED BY <2>1, <2>6
<1>5. \A a, b \in 1..(r - 1) : p[a] = p[b] => a = b
  <2>1. SUFFICES ASSUME NEW a \in 1..(r - 1), NEW b \in 1..(r - 1), a < b, p[a] = p[b]
                 PROVE  FALSE
    OBVIOUS
  <2>2. a \in 1..Len(o) /\ b \in 1..Len(o) BY <1>3
  <2>3. Dictionary!First(o[a], o[b], p[a], p[b]) /\ o[a] = o[b] BY <1>0, <2>1, <2>2
  <2>4. o[a] \in Key /\ p[a] \in Int BY <1>0, <1>2, <2>2
  <2> QED BY <1>2, <2>1, <2>3, <2>4
<1>6. F \in Bijection(1..(r - 1), E)
  <2>1. F \in [1..(r - 1) -> E] /\ \A q \in 1..(r - 1) : F[q] = p[q] BY <1>3
  <2> HIDE DEF F
  <2> QED BY <1>4, <1>5, <2>1 DEF Bijection, Injection, Surjection, IsInjective
<1>7. r - 1 \in Nat BY <1>0
<1> QED BY <1>6, <1>7, FS_CountingElements DEF ExistsBijection, E

\* A listing has every key once.
LEMMA ListsAll ==
  ASSUME Inv, NEW o, NEW p, Lists(o, p)
  PROVE  Len(o) = Len(keys)
<1>0. /\ Len(o) \in Nat /\ Len(keys) \in Nat /\ p \in [1..Len(o) -> 1..Len(keys)]
  BY EntriesAre, ListsHas
<1>9. \A i \in 1..Len(keys) : \E q \in 1..Len(o) : p[q] = i BY DEF Lists
<1>1. \A a, b \in 1..Len(o) : p[a] = p[b] => a = b
  <2>1. SUFFICES ASSUME NEW a \in 1..Len(o), NEW b \in 1..Len(o), p[a] = p[b]
                 PROVE  a = b
    OBVIOUS
  <2>2. a - 1 = b - 1 BY <2>1, EarlierAre
  <2> QED BY <1>0, <2>2
<1>2. p \in Bijection(1..Len(o), 1..Len(keys))
  BY <1>0, <1>1, <1>9 DEF Bijection, Injection, Surjection, IsInjective
<1>3. /\ IsFiniteSet(1..Len(o))
      /\ Cardinality(1..Len(o)) = Len(o) /\ Cardinality(1..Len(keys)) = Len(keys)
  <2>1. \A n \in Nat : IsFiniteSet(1..n) /\ Cardinality(1..n) = IF 1 > n THEN 0 ELSE n - 1 + 1
    BY FS_Interval
  <2>2. \A n \in Nat : IsFiniteSet(1..n) /\ Cardinality(1..n) = n BY <2>1
  <2> QED BY <1>0, <2>2
<1> QED BY <1>2, <1>3, FS_Bijection DEF ExistsBijection

\* So a listing is the sequence the dictionary ranks its keys into.
LEMMA InOrderIs ==
  ASSUME Inv, NEW o, NEW p, Lists(o, p)
  PROVE  Dictionary!InOrder = o
<1>0. /\ Len(o) = Len(keys) /\ Len(o) \in Nat /\ DOMAIN Entries = 1..Len(o)
      /\ p \in [1..Len(o) -> 1..Len(o)]
      /\ \A q \in 1..Len(o) : o[q] = keys[p[q]]
      /\ \A i \in 1..Len(o) : \E q \in 1..Len(o) : p[q] = i
  <2>1. /\ o \in Seq(Key) /\ Len(o) \in Nat /\ p \in [1..Len(o) -> 1..Len(keys)]
        /\ \A q \in 1..Len(o) : o[q] = keys[p[q]]
    BY ListsHas
  <2>3. \A i \in 1..Len(keys) : \E q \in 1..Len(o) : p[q] = i BY DEF Lists
  <2>2. Len(o) = Len(keys) /\ DOMAIN Entries = 1..Len(keys) BY EntriesAre, ListsAll, Zenon
  <2> QED BY <2>1, <2>2, <2>3
<1>1. Dictionary!InOrder = [r \in DOMAIN Entries |-> Entries[Dictionary!Ranked(r)].key]
  BY DEF Dictionary!InOrder
<1>2. ASSUME NEW r \in 1..Len(o)
      PROVE  Dictionary!Ranked(r) = p[r]
  <2>1. Cardinality(Dictionary!Earlier(p[r])) = r - 1 BY EarlierAre
  <2>2. ASSUME NEW i \in 1..Len(o), Cardinality(Dictionary!Earlier(i)) = r - 1
        PROVE  i = p[r]
    <3>1. PICK q \in 1..Len(o) : p[q] = i BY <1>0
    <3>2. q - 1 = r - 1 BY <2>2, <3>1, EarlierAre
    <3> QED BY <3>1, <3>2
  <2>3. p[r] \in 1..Len(o) BY <1>0
  <2>4. \E i \in DOMAIN Entries : Cardinality(Dictionary!Earlier(i)) = r - 1
    BY <1>0, <2>1, <2>3
  <2>5. \A i \in DOMAIN Entries : Cardinality(Dictionary!Earlier(i)) = r - 1 => i = p[r]
    BY <1>0, <2>2
  <2> DEFINE P(i) == Dictionary!Cardinality(Dictionary!Earlier(i)) = r - 1
  <2>6. Dictionary!Ranked(r) = CHOOSE i \in DOMAIN Entries : P(i) BY DEF Dictionary!Ranked
  <2>7. (\E i \in DOMAIN Entries : P(i)) /\ \A i \in DOMAIN Entries : P(i) => i = p[r]
    BY <2>4, <2>5, SameCardinality
  <2> HIDE DEF P
  <2> QED BY <2>6, <2>7
<1>3. ASSUME NEW r \in 1..Len(o) PROVE Entries[Dictionary!Ranked(r)].key = o[r]
  <2>1. p[r] \in 1..Len(keys) BY <1>0
  <2>2. Entries[p[r]].key = o[r] BY <1>0, <2>1, EntriesAre
  <2> QED BY <1>2, <2>2
<1>4. o = [q \in 1..Len(o) |-> o[q]]
  <2>1. o \in Seq(Key) BY ListsHas, Zenon
  <2> QED BY <2>1
<1> QED BY <1>0, <1>1, <1>3, <1>4

\* Parallel slices, as the entries they stand for.
Entry == [key : Key, value : Value]
Zip(ks, vs) == [i \in DOMAIN ks |-> [key |-> ks[i], value |-> vs[i]]]

LEMMA Zipped ==
  ASSUME NEW ks \in Seq(Key), NEW vs \in Seq(Value), Len(vs) = Len(ks)
  PROVE  /\ Zip(ks, vs) \in Seq(Entry) /\ Len(Zip(ks, vs)) = Len(ks)
         /\ \A i \in 1..Len(ks) :
              /\ Zip(ks, vs)[i] = [key |-> ks[i], value |-> vs[i]]
              /\ ks[i] \in Key /\ vs[i] \in Value
<1> DEFINE z == Zip(ks, vs)
<1>1. /\ DOMAIN ks = 1..Len(ks) /\ Len(ks) \in Nat
      /\ \A i \in 1..Len(ks) : ks[i] \in Key /\ vs[i] \in Value
  OBVIOUS
<1>2. /\ z = [i \in 1..Len(ks) |-> z[i]]
      /\ \A i \in 1..Len(ks) : z[i] = [key |-> ks[i], value |-> vs[i]]
  BY <1>1 DEF Zip
<1> HIDE DEF z
<1>3. \A i \in 1..Len(ks) : z[i] \in Entry BY <1>1, <1>2 DEF Entry
<1>4. z \in [1..Len(ks) -> Entry] BY <1>2, <1>3
<1>5. z \in Seq(Entry) /\ Len(z) = Len(ks) BY <1>1, <1>4
<1> QED BY <1>1, <1>2, <1>5 DEF z

LEMMA ZipAppend ==
  ASSUME NEW ks \in Seq(Key), NEW vs \in Seq(Value), Len(vs) = Len(ks),
         NEW k \in Key, NEW v \in Value
  PROVE  Zip(Append(ks, k), Append(vs, v)) = Append(Zip(ks, vs), [key |-> k, value |-> v])
<1> DEFINE a == Append(ks, k)
           b == Append(vs, v)
           e == [key |-> k, value |-> v]
           z == Zip(ks, vs)
           l == Append(z, e)
<1>0. Len(ks) \in Nat /\ e \in Entry BY DEF Entry
<1>1. /\ a \in Seq(Key) /\ b \in Seq(Value) /\ Len(a) = Len(ks) + 1 /\ Len(b) = Len(ks) + 1
      /\ \A i \in 1..Len(ks) : a[i] = ks[i] /\ b[i] = vs[i]
      /\ a[Len(ks) + 1] = k /\ b[Len(ks) + 1] = v
  BY Appended
<1>2. /\ z \in Seq(Entry) /\ Len(z) = Len(ks)
      /\ \A i \in 1..Len(ks) : z[i] = [key |-> ks[i], value |-> vs[i]]
  BY Zipped
<1> HIDE DEF z, e
<1>3. /\ l \in Seq(Entry) /\ Len(l) = Len(ks) + 1
      /\ \A i \in 1..Len(ks) : l[i] = z[i]
      /\ l[Len(ks) + 1] = e
  BY <1>0, <1>2, Appended
<1> HIDE DEF a, b, l
<1>4. /\ Zip(a, b) \in Seq(Entry) /\ Len(Zip(a, b)) = Len(ks) + 1
      /\ \A i \in 1..(Len(ks) + 1) : Zip(a, b)[i] = [key |-> a[i], value |-> b[i]]
  BY <1>1, Zipped
<1>5. ASSUME NEW i \in 1..(Len(ks) + 1) PROVE Zip(a, b)[i] = l[i]
  <2>1. CASE i = Len(ks) + 1 BY <1>1, <1>3, <1>4, <2>1 DEF e
  <2>2. CASE i # Len(ks) + 1
    <3>1. i \in 1..Len(ks) BY <1>0, <2>2
    <3> QED BY <1>1, <1>2, <1>3, <1>4, <3>1
  <2> QED BY <2>1, <2>2
<1>6. Zip(a, b) = l BY <1>3, <1>4, <1>5, SeqEqual
<1> QED BY <1>6 DEF a, b, l, z, e

LEMMA ZipWithout ==
  ASSUME NEW ks \in Seq(Key), NEW vs \in Seq(Value), Len(vs) = Len(ks), NEW i \in 1..Len(ks)
  PROVE  Zip(Without(ks, i), Without(vs, i)) = Without(Zip(ks, vs), i)
<1> DEFINE a == Without(ks, i)
           b == Without(vs, i)
           z == Zip(ks, vs)
           l == Without(z, i)
<1>0. Len(ks) \in Nat OBVIOUS
<1>1. /\ a \in Seq(Key) /\ b \in Seq(Value) /\ Len(a) = Len(ks) - 1 /\ Len(b) = Len(ks) - 1
      /\ \A j \in 1..(Len(ks) - 1) : a[j] = IF j < i THEN ks[j] ELSE ks[j + 1]
      /\ \A j \in 1..(Len(ks) - 1) : b[j] = IF j < i THEN vs[j] ELSE vs[j + 1]
  BY WithoutElements
<1>2. /\ z \in Seq(Entry) /\ Len(z) = Len(ks)
      /\ \A j \in 1..Len(ks) : z[j] = [key |-> ks[j], value |-> vs[j]]
  BY Zipped
<1> HIDE DEF z
<1>3. /\ l \in Seq(Entry) /\ Len(l) = Len(ks) - 1
      /\ \A j \in 1..(Len(ks) - 1) : l[j] = IF j < i THEN z[j] ELSE z[j + 1]
  BY <1>2, WithoutElements
<1> HIDE DEF a, b, l
<1>4. /\ Zip(a, b) \in Seq(Entry) /\ Len(Zip(a, b)) = Len(ks) - 1
      /\ \A j \in 1..(Len(ks) - 1) : Zip(a, b)[j] = [key |-> a[j], value |-> b[j]]
  BY <1>1, Zipped
<1>5. ASSUME NEW j \in 1..(Len(ks) - 1) PROVE Zip(a, b)[j] = l[j]
  <2>1. j \in 1..Len(ks) /\ j + 1 \in 1..Len(ks) BY <1>0
  <2>2. CASE j < i BY <1>1, <1>2, <1>3, <1>4, <2>1, <2>2
  <2>3. CASE ~(j < i) BY <1>1, <1>2, <1>3, <1>4, <2>1, <2>3
  <2> QED BY <2>2, <2>3
<1>6. Zip(a, b) = l BY <1>3, <1>4, <1>5, SeqEqual
<1> QED BY <1>6 DEF a, b, l, z

LEMMA EntriesZip ==
  /\ Entries = Zip(keys, vals)
  /\ Entries' = Zip(keys', vals')
BY DEF Entries, Zip

\* The hidden properties, as a function of the two fields.
HiddenOf(m, c) ==
  [k \in {x \in {Message, Cause} : (x = Message /\ m # Unset) \/ (x = Cause /\ c # Unset)} |->
     IF k = Message THEN m ELSE c]

LEMMA HiddenValuesOf ==
  /\ HiddenValues = HiddenOf(errMsg, errCause)
  /\ HiddenValues' = HiddenOf(errMsg', errCause')
  /\ \A k : k \in DOMAIN HiddenValues <=> Hidden(k)
  /\ \A k : Hidden(k) => HiddenValues[k] = IF k = Message THEN errMsg ELSE errCause
  /\ Message \in Key /\ Cause \in Key /\ Message # Cause
<1>1. HiddenValues = HiddenOf(errMsg, errCause) /\ HiddenValues' = HiddenOf(errMsg', errCause')
  <2>1. \A x : Hidden(x) <=> (x = Message /\ errMsg # Unset) \/ (x = Cause /\ errCause # Unset)
    BY DEF Hidden
  <2>2. \A x : Hidden(x)' <=> (x = Message /\ errMsg' # Unset) \/ (x = Cause /\ errCause' # Unset)
    BY DEF Hidden
  <2>3. HiddenValues = HiddenOf(errMsg, errCause) BY <2>1 DEF HiddenValues, HiddenOf
  <2>4. HiddenValues' = HiddenOf(errMsg', errCause') BY <2>2 DEF HiddenValues, HiddenOf
  <2> QED BY <2>3, <2>4
<1>2. \A k : k \in DOMAIN HiddenValues <=> Hidden(k) BY DEF HiddenValues, Hidden
<1>3. \A k : Hidden(k) => HiddenValues[k] = IF k = Message THEN errMsg ELSE errCause
  BY DEF HiddenValues, Hidden
<1>4. Message \in Key /\ Cause \in Key /\ Message # Cause
  BY ObjectAssumption DEF Message, Cause, Key
<1> QED BY <1>1, <1>2, <1>3, <1>4

\* What is left of what is left.
LEMMA Suffix ==
  ASSUME NEW S, NEW s \in Seq(S), NEW p \in 1..(Len(s) + 1)
  PROVE  /\ SubSeq(s, p, Len(s)) \in Seq(S)
         /\ Len(SubSeq(s, p, Len(s))) = Len(s) - p + 1
         /\ \A j \in 1..(Len(s) - p + 1) : SubSeq(s, p, Len(s))[j] = s[p + j - 1]
         /\ \A j \in 1..(Len(s) - p + 1) :
              SubSeq(SubSeq(s, p, Len(s)), j + 1, Len(s) - p + 1) = SubSeq(s, p + j, Len(s))
<1>0. Len(s) \in Nat /\ \A i \in 1..Len(s) : s[i] \in S OBVIOUS
<1> DEFINE t == SubSeq(s, p, Len(s))
           n == Len(s) - p + 1
<1>1. /\ t \in Seq(S) /\ Len(t) = n
      /\ \A j \in 1..n : t[j] = s[p + j - 1]
  <2>1. p \in Int /\ Len(s) \in Int /\ \A i \in p..Len(s) : s[i] \in S BY <1>0
  <2>2. /\ t \in Seq(S) /\ Len(t) = IF p <= Len(s) THEN Len(s) - p + 1 ELSE 0
        /\ \A i \in 1..(Len(s) - p + 1) : t[i] = s[p + i - 1]
    BY <2>1, SubSeqProperties
  <2> QED BY <1>0, <2>2
<1>2. ASSUME NEW j \in 1..n PROVE SubSeq(t, j + 1, n) = SubSeq(s, p + j, Len(s))
  <2> DEFINE u == SubSeq(t, j + 1, n)
             v == SubSeq(s, p + j, Len(s))
  <2> HIDE DEF t
  <2>1. j + 1 \in Int /\ n \in Int /\ \A i \in (j + 1)..n : t[i] \in S BY <1>0, <1>1
  <2>2. p + j \in Int /\ Len(s) \in Int /\ \A i \in (p + j)..Len(s) : s[i] \in S BY <1>0
  <2>3. /\ u \in Seq(S) /\ Len(u) = IF j + 1 <= n THEN n - (j + 1) + 1 ELSE 0
        /\ \A i \in 1..(n - (j + 1) + 1) : u[i] = t[(j + 1) + i - 1]
    <3> HIDE DEF n
    <3> QED BY <2>1, SubSeqProperties
  <2>4. /\ v \in Seq(S) /\ Len(v) = IF p + j <= Len(s) THEN Len(s) - (p + j) + 1 ELSE 0
        /\ \A i \in 1..(Len(s) - (p + j) + 1) : v[i] = s[(p + j) + i - 1]
    BY <2>2, SubSeqProperties
  <2> HIDE DEF u, v
  <2>5. Len(u) = n - j /\ Len(v) = n - j
    <3>1. p \in Int /\ j \in Int /\ Len(s) \in Int /\ j <= n /\ n = Len(s) - p + 1
      BY <1>0
    <3>2. CASE j = n
      <4>1. ~(j + 1 <= n) /\ ~(p + j <= Len(s)) /\ n - j = 0 BY <3>1, <3>2
      <4> QED BY <2>3, <2>4, <4>1
    <3>3. CASE j # n
      <4>1. j + 1 <= n /\ p + j <= Len(s) BY <3>1, <3>3
      <4>2. n - (j + 1) + 1 = n - j /\ Len(s) - (p + j) + 1 = n - j BY <3>1
      <4> QED BY <2>3, <2>4, <4>1, <4>2
    <3> QED BY <3>2, <3>3
  <2>6. ASSUME NEW i \in 1..Len(u) PROVE u[i] = v[i]
    <3>1. /\ i \in 1..(n - (j + 1) + 1) /\ i \in 1..(Len(s) - (p + j) + 1)
          /\ (j + 1) + i - 1 \in 1..n /\ (j + 1) + i - 1 = j + i
          /\ p + (j + i) - 1 = (p + j) + i - 1
      BY <1>0, <2>5
    <3>2. u[i] = t[j + i] BY <2>3, <3>1
    <3>3. t[j + i] = s[(p + j) + i - 1] BY <1>1, <3>1
    <3> QED BY <2>4, <3>1, <3>2, <3>3
  <2>7. u = v BY <2>3, <2>4, <2>5, <2>6, SeqEqual
  <2> QED BY <2>7 DEF u, v
<1> QED BY <1>1, <1>2

---------------------------------------------------------------------------
(* The refinement.                                                         *)

\* A key is hidden or listed, never both; a walk stops behind its last key.
Apart == \A k \in Key : Hidden(k) => Find(k) = {}
WalksOK ==
  /\ walked \in [Walker -> Seq(Key)] /\ pos \in [Walker -> Nat]
  /\ \A w \in Walker : pos[w] \in 1..(Len(walked[w]) + 1)

RefineInv == Inv /\ Apart /\ WalksOK

LEMMA OwnKeysInOrder ==
  ASSUME Inv
  PROVE  /\ Dictionary!InOrder = OwnKeys
         /\ OwnKeys \in Seq(Key)
<1>1. PICK p : Lists(OwnKeys, p) BY OwnKeysLists
<1>2. Dictionary!InOrder = OwnKeys BY <1>1, InOrderIs
<1>3. OwnKeys \in Seq(Key) BY <1>1 DEF Lists
<1> QED BY <1>2, <1>3

LEMMA RefineInit == Init => RefineInv
<1> SUFFICES ASSUME Init PROVE RefineInv
  OBVIOUS
<1>1. keys = <<>> /\ indexed = FALSE BY DEF Init
<1>2. \A k : Find(k) = {} BY <1>1 DEF Find
<1>3. walked = [w \in Walker |-> <<>>] /\ pos = [w \in Walker |-> 1] BY DEF Init
<1>4. <<>> \in Seq(Key) /\ Len(<<>>) = 0 /\ 1 \in 1..(0 + 1) OBVIOUS
<1>5. WalksOK BY <1>3, <1>4 DEF WalksOK
<1> QED BY <1>2, <1>5, InitInv DEF RefineInv, Apart

\* The walks keep their keys, or begin with those of the object.
LEMMA WalksStep ==
  ASSUME RefineInv, [Next]_vars PROVE WalksOK'
<1> USE DEF RefineInv, WalksOK
<1>1. CASE UNCHANGED <<walked, pos>> BY <1>1
<1>2. ASSUME NEW k \in Key, Get(k) \/ Delete(k) \/ (\E v \in Value : Set(k, v))
      PROVE  UNCHANGED <<walked, pos>>
  BY <1>2 DEF Get, Delete, Remove, Compact, RemoveHidden, Set, walks
<1>3. ASSUME NEW w \in Walker, Walk(w) PROVE WalksOK'
  <2>1. OwnKeys \in Seq(Key) BY OwnKeysInOrder
  <2>2. walked' = [walked EXCEPT ![w] = OwnKeys] /\ pos' = [pos EXCEPT ![w] = 1]
    BY <1>3 DEF Walk
  <2>3. Len(OwnKeys) \in Nat BY <2>1
  <2>4. 1 \in 1..(Len(OwnKeys) + 1) BY <2>3
  <2> QED BY <2>1, <2>2, <2>4
<1>4. ASSUME NEW w \in Walker, Visit(w) PROVE WalksOK'
  <2>1. walked' = walked BY <1>4 DEF Visit
  <2>2. Len(walked[w]) \in Nat BY <1>4
  <2>3. \E i \in pos[w]..(Len(walked[w]) + 1) :
          pos' = [pos EXCEPT ![w] = i] 
    <3>1. CASE \E i \in pos[w]..Len(walked[w]) : pos' = [pos EXCEPT ![w] = i + 1]
      <4>1. PICK i \in pos[w]..Len(walked[w]) : pos' = [pos EXCEPT ![w] = i + 1] BY <3>1
      <4>2. i + 1 \in pos[w]..(Len(walked[w]) + 1) BY <2>2
      <4> QED BY <4>1, <4>2
    <3>2. CASE pos' = [pos EXCEPT ![w] = Len(walked[w]) + 1]
      <4>1. Len(walked[w]) + 1 \in pos[w]..(Len(walked[w]) + 1) BY <2>2
      <4> QED BY <3>2, <4>1
    <3> QED BY <1>4, <3>1, <3>2 DEF Visit
  <2>4. PICK i \in pos[w]..(Len(walked[w]) + 1) : pos' = [pos EXCEPT ![w] = i] BY <2>3
  <2>5. i \in 1..(Len(walked[w]) + 1) /\ i \in Nat BY <2>2
  <2> QED BY <2>1, <2>4, <2>5
<1>5. CASE List \/ UNCHANGED vars BY <1>1, <1>5 DEF List, vars, walks
<1> QED BY <1>1, <1>2, <1>3, <1>4, <1>5 DEF Next

\* A property of an Error that is hidden is never added, and one that is not
\* does not become hidden.
LEMMA ApartStep ==
  ASSUME RefineInv, [Next]_vars PROVE Apart'
<1> USE DEF RefineInv, Apart
<1>0. Inv' BY NextInv
<1>1. CASE UNCHANGED object BY <1>1 DEF object, Find, Hidden
<1>2. ASSUME NEW k \in Key, NEW v \in Value, Set(k, v) PROVE Apart'
  <2>1. CASE SetHidden(k, v)
    <3>1. UNCHANGED <<keys, indexed, index>> BY <2>1 DEF SetHidden
    <3>2. \A x \in Key : Find(x)' = Find(x) BY <3>1 DEF Find
    <3>3. \A x \in Key : Hidden(x)' => Hidden(x)
      BY <2>1, ObjectAssumption DEF SetHidden, Hidden
    <3> QED BY <3>2, <3>3
  <2>2. CASE SetOwn(k, v) BY <2>2 DEF SetOwn, Find, Hidden
  <2>3. CASE Add(k, v)
    <3>1. ~Hidden(k) /\ \A x : Hidden(x)' <=> Hidden(x) BY <2>3 DEF Add, Hidden
    <3>2. /\ keys \in Seq(Key) /\ Len(keys) \in Nat /\ keys' = Append(keys, k)
          /\ DOMAIN keys' = 1..(Len(keys) + 1) /\ DOMAIN keys = 1..Len(keys)
          /\ \A i \in 1..Len(keys) : keys'[i] = keys[i]
          /\ keys'[Len(keys) + 1] = k
      BY <2>3, EntriesAre, Appended DEF Add, Inv, SlicesOK
    <3>3. ASSUME NEW x \in Key, Hidden(x)' PROVE Find(x)' = {}
      <4>1. x # k /\ Find(x) = {} BY <3>1, <3>3
      <4>2. \A i \in DOMAIN keys : keys[i] # x BY <4>1, FindExact
      <4>3. \A i \in DOMAIN keys' : keys'[i] # x BY <3>2, <4>1, <4>2
      <4>4. CASE ~indexed' BY <4>3, <4>4 DEF Find
      <4>5. CASE indexed'
        <5>1. DOMAIN index' = {keys'[i] : i \in DOMAIN keys'} BY <1>0, <4>5 DEF Inv, IndexExact
        <5>2. x \notin DOMAIN index' BY <4>3, <5>1
        <5> QED BY <4>5, <5>2 DEF Find
      <4> QED BY <4>4, <4>5
    <3> QED BY <3>3
  <2> QED BY <1>2, <2>1, <2>2, <2>3 DEF Set
<1>3. ASSUME NEW k \in Key, Delete(k) PROVE Apart'
  <2>1. CASE Remove(k)
    <3>1. PICK i \in Find(k) : Compact(i) BY <2>1 DEF Remove
    <3>2. \A x : Hidden(x)' <=> Hidden(x) BY <2>1 DEF Remove, Hidden
    <3>3. keys \in Seq(Key) /\ i \in 1..Len(keys) /\ Len(keys) \in Nat
      BY <3>1, PlacesAre, EntriesAre DEF Inv, SlicesOK
    <3>4. /\ Len(keys') = Len(keys) - 1 /\ keys' \in Seq(Key)
          /\ \A j \in 1..(Len(keys) - 1) : keys'[j] = IF j < i THEN keys[j] ELSE keys[j + 1]
      BY <3>1, <3>3, WithoutElements DEF Compact
    <3>5. DOMAIN keys' = 1..(Len(keys) - 1) /\ DOMAIN keys = 1..Len(keys) BY <3>3, <3>4
    <3>6. ASSUME NEW x \in Key, Hidden(x)' PROVE Find(x)' = {}
      <4>1. Find(x) = {} BY <3>2, <3>6
      <4>2. \A j \in 1..Len(keys) : keys[j] # x BY <3>5, <4>1, FindExact
      <4>3. \A j \in DOMAIN keys' : keys'[j] # x
        <5>1. \A j \in 1..(Len(keys) - 1) : j \in 1..Len(keys) /\ j + 1 \in 1..Len(keys) BY <3>3
        <5> QED BY <3>4, <3>5, <4>2, <5>1
      <4>4. CASE ~indexed' BY <4>3, <4>4 DEF Find
      <4>5. CASE indexed'
        <5>1. DOMAIN index' = {keys'[j] : j \in DOMAIN keys'} BY <1>0, <4>5 DEF Inv, IndexExact
        <5>2. x \notin DOMAIN index' BY <4>3, <5>1
        <5> QED BY <4>5, <5>2 DEF Find
      <4> QED BY <4>4, <4>5
    <3> QED BY <3>6
  <2>2. CASE RemoveHidden(k)
    <3>1. UNCHANGED <<keys, indexed, index>> BY <2>2 DEF RemoveHidden
    <3>2. \A x \in Key : Find(x)' = Find(x) BY <3>1 DEF Find
    <3>3. \A x \in Key : Hidden(x)' => Hidden(x) BY <2>2 DEF RemoveHidden, Hidden
    <3> QED BY <3>2, <3>3
  <2> QED BY <1>3, <2>1, <2>2 DEF Delete
<1>4. ASSUME NEW k \in Key, Get(k) PROVE UNCHANGED object BY <1>4 DEF Get
<1>5. ASSUME NEW w \in Walker, Walk(w) \/ Visit(w) PROVE UNCHANGED object
  BY <1>5 DEF Walk, Visit
<1>6. CASE List \/ UNCHANGED vars BY <1>1, <1>6 DEF List, vars
<1> QED BY <1>1, <1>2, <1>3, <1>4, <1>5, <1>6 DEF Next

\* What a state of the object shows, in the words of the mapping.
LEMMA MappedNow ==
  ASSUME RefineInv
  PROVE  /\ keys \in Seq(Key) /\ vals \in Seq(Value) /\ Len(vals) = Len(keys)
         /\ Entries = Zip(keys, vals) /\ DOMAIN Entries = 1..Len(keys)
         /\ \A k \in Key : k \in DOMAIN HiddenValues <=> Hidden(k)
         /\ \A k \in Key : Dictionary!Present(k) => k \notin DOMAIN HiddenValues
<1>1. keys \in Seq(Key) /\ vals \in Seq(Value) /\ Len(vals) = Len(keys)
  BY DEF RefineInv, Inv, SlicesOK
<1>2. Entries = Zip(keys, vals) /\ DOMAIN Entries = 1..Len(keys)
  BY EntriesZip, EntriesAre DEF RefineInv
<1>3. \A k : k \in DOMAIN HiddenValues <=> Hidden(k) BY HiddenValuesOf
<1>4. \A k \in Key : Dictionary!Present(k) => ~Hidden(k)
  BY PlacesAre DEF RefineInv, Apart
<1> QED BY <1>1, <1>2, <1>3, <1>4

LEMMA SetRefines ==
  ASSUME RefineInv, NEW k \in Key, NEW v \in Value, Set(k, v)
  PROVE  Dictionary!Set(k, v)
<1> DEFINE e == [key |-> k, value |-> v]
<1>1. answer' = <<"ok">> /\ Ahead' = Ahead BY DEF Set, walks, Ahead
<1>2. CASE SetHidden(k, v)
  <2>1. UNCHANGED <<keys, vals>> /\ Hidden(k)
        /\ errMsg' = (IF k = Message THEN v ELSE errMsg)
        /\ errCause' = (IF k = Cause THEN v ELSE errCause)
    BY <1>2 DEF SetHidden
  <2>2. Entries' = Entries BY <2>1, EntriesZip
  <2>3. v # Unset BY ObjectAssumption
  <2>4. HiddenOf(errMsg', errCause') = [HiddenOf(errMsg, errCause) EXCEPT ![k] = v]
    <3>1. CASE k = Message
      <4>1. errMsg # Unset /\ errMsg' = v /\ errCause' = errCause
        BY <2>1, <3>1, HiddenValuesOf DEF Hidden
      <4> QED BY <2>3, <3>1, <4>1, HiddenValuesOf DEF HiddenOf
    <3>2. CASE k = Cause
      <4>1. errCause # Unset /\ errMsg' = errMsg /\ errCause' = v
        BY <2>1, <3>2, HiddenValuesOf DEF Hidden
      <4> QED BY <2>3, <3>2, <4>1, HiddenValuesOf DEF HiddenOf
    <3> QED BY <2>1, <3>1, <3>2 DEF Hidden
  <2>5. HiddenValues' = [HiddenValues EXCEPT ![k] = v] BY <2>4, HiddenValuesOf
  <2>6. k \in DOMAIN HiddenValues BY <2>1, HiddenValuesOf
  <2> QED BY <1>1, <2>2, <2>5, <2>6 DEF Dictionary!Set
<1>3. CASE SetOwn(k, v)
  <2>1. PICK i \in Find(k) : vals' = [vals EXCEPT ![i] = v] BY <1>3 DEF SetOwn
  <2>2. keys' = keys /\ errMsg' = errMsg /\ errCause' = errCause BY <1>3 DEF SetOwn
  <2>3. i \in 1..Len(keys) /\ keys[i] = k /\ Dictionary!Places(k) = {i}
        /\ Dictionary!Present(k)
    BY <2>1, PlacesAre DEF RefineInv
  <2>4. Entries' = [j \in 1..Len(keys) |-> IF j = i THEN e ELSE Entries[j]]
    <3>1. keys \in Seq(Key) /\ vals \in Seq(Value) /\ DOMAIN vals = 1..Len(keys)
          /\ DOMAIN keys = 1..Len(keys)
      BY MappedNow, EntriesAre DEF RefineInv
    <3>2. Entries' = [j \in 1..Len(keys) |-> [key |-> keys[j], value |-> vals'[j]]]
      BY <2>2, <3>1 DEF Entries
    <3>3. ASSUME NEW j \in 1..Len(keys)
          PROVE  [key |-> keys[j], value |-> vals'[j]] = IF j = i THEN e ELSE Entries[j]
      <4>1. vals'[j] = IF j = i THEN v ELSE vals[j] BY <2>1, <3>1
      <4>2. Entries[j] = [key |-> keys[j], value |-> vals[j]] BY EntriesAre DEF RefineInv
      <4> QED BY <2>3, <4>1, <4>2
    <3> HIDE DEF e
    <3> QED BY <3>2, <3>3
  <2>5. Entries' = [j \in DOMAIN Entries |-> IF j \in Dictionary!Places(k) THEN e ELSE Entries[j]]
    BY <2>3, <2>4, MappedNow
  <2>6. HiddenValues' = HiddenValues BY <2>2, HiddenValuesOf
  <2>7. k \notin DOMAIN HiddenValues BY <2>3, MappedNow
  <2> QED BY <1>1, <2>3, <2>5, <2>6, <2>7 DEF Dictionary!Set
<1>4. CASE Add(k, v)
  <2>1. /\ ~Hidden(k) /\ Find(k) = {}
        /\ keys' = Append(keys, k) /\ vals' = Append(vals, v)
        /\ errMsg' = errMsg /\ errCause' = errCause
    BY <1>4 DEF Add
  <2>2. Entries' = Append(Entries, e)
    BY <2>1, MappedNow, EntriesZip, ZipAppend
  <2>3. k \notin DOMAIN HiddenValues /\ HiddenValues' = HiddenValues
    BY <2>1, HiddenValuesOf
  <2>4. ~Dictionary!Present(k) BY <2>1, PlacesAre DEF RefineInv
  <2> QED BY <1>1, <2>2, <2>3, <2>4 DEF Dictionary!Set
<1> QED BY <1>2, <1>3, <1>4 DEF Set

LEMMA GetRefines ==
  ASSUME RefineInv, NEW k \in Key, Get(k)
  PROVE  Dictionary!Get(k)
<1>1. UNCHANGED <<Entries, HiddenValues, Ahead>>
  BY DEF Get, object, walks, Entries, HiddenValues, Hidden, Ahead
<1>2. CASE Find(k) # {}
  <2>1. PICK i \in Find(k) : TRUE BY <1>2
  <2>2. i \in 1..Len(keys) /\ Find(k) = {i} /\ Dictionary!Places(k) = {i}
    BY <2>1, PlacesAre DEF RefineInv
  <2>3. (CHOOSE j \in Find(k) : TRUE) = i BY <2>2
  <2>4. answer' = <<"value", vals[CHOOSE j \in Find(k) : TRUE]>> BY <1>2 DEF Get
  <2>5. Entries[i].value = vals[i] BY <2>2, EntriesAre DEF RefineInv
  <2> QED BY <1>1, <2>2, <2>3, <2>4, <2>5 DEF Dictionary!Get
<1>3. CASE Find(k) = {} /\ Hidden(k)
  <2>1. answer' = <<"value", IF k = Message THEN errMsg ELSE errCause>> BY <1>3 DEF Get
  <2>2. k \in DOMAIN HiddenValues /\ HiddenValues[k] = IF k = Message THEN errMsg ELSE errCause
    BY <1>3, HiddenValuesOf
  <2> QED BY <1>1, <2>1, <2>2 DEF Dictionary!Get
<1>4. CASE Find(k) = {} /\ ~Hidden(k)
  <2>1. answer' = <<"none">> BY <1>4 DEF Get
  <2>2. k \notin DOMAIN HiddenValues BY <1>4, HiddenValuesOf
  <2>3. ~Dictionary!Present(k) BY <1>4, PlacesAre DEF RefineInv
  <2> QED BY <1>1, <2>1, <2>2, <2>3 DEF Dictionary!Get
<1> QED BY <1>2, <1>3, <1>4

LEMMA DeleteRefines ==
  ASSUME RefineInv, NEW k \in Key, Delete(k)
  PROVE  Dictionary!Delete(k)
<1> DEFINE left == [x \in DOMAIN HiddenValues \ {k} |-> HiddenValues[x]]
<1>1. answer' = <<"ok">> /\ Ahead' = Ahead
  BY DEF Delete, Remove, Compact, RemoveHidden, Ahead
<1>2. CASE Remove(k)
  <2>1. PICK i \in Find(k) : Compact(i) BY <1>2 DEF Remove
  <2>2. i \in 1..Len(keys) /\ Dictionary!Places(k) = {i} /\ Dictionary!Present(k)
    BY <2>1, PlacesAre DEF RefineInv
  <2>3. keys' = Without(keys, i) /\ vals' = Without(vals, i) BY <2>1 DEF Compact
  <2>4. Entries' = Without(Entries, i) BY <2>2, <2>3, MappedNow, EntriesZip, ZipWithout
  <2>5. Entries' = SubSeq(Entries, 1, i - 1) \o SubSeq(Entries, i + 1, Len(Entries))
    BY <2>4 DEF Without
  <2>6. errMsg' = errMsg /\ errCause' = errCause BY <1>2 DEF Remove
  <2>7. HiddenValues' = HiddenValues BY <2>6, HiddenValuesOf
  <2>8. k \notin DOMAIN HiddenValues BY <2>2, MappedNow
  <2>9. HiddenValues = [x \in DOMAIN HiddenValues |-> HiddenValues[x]] BY DEF HiddenValues
  <2>10. DOMAIN HiddenValues \ {k} = DOMAIN HiddenValues BY <2>8
  <2>11. HiddenValues' = left BY <2>7, <2>9, <2>10
  <2> QED BY <1>1, <2>2, <2>5, <2>11 DEF Dictionary!Delete
<1>3. CASE RemoveHidden(k)
  <2>1. /\ Find(k) = {} /\ UNCHANGED <<keys, vals>>
        /\ errMsg' = (IF k = Message THEN Unset ELSE errMsg)
        /\ errCause' = (IF k = Cause THEN Unset ELSE errCause)
    BY <1>3 DEF RemoveHidden
  <2>2. Entries' = Entries BY <2>1, EntriesZip
  <2>3. ~Dictionary!Present(k) BY <2>1, PlacesAre DEF RefineInv
  <2>4. HiddenOf(errMsg', errCause') =
          [x \in DOMAIN HiddenOf(errMsg, errCause) \ {k} |-> HiddenOf(errMsg, errCause)[x]]
    BY <2>1, HiddenValuesOf DEF HiddenOf
  <2>5. HiddenValues' = left BY <2>4, HiddenValuesOf
  <2> QED BY <1>1, <2>2, <2>3, <2>5 DEF Dictionary!Delete
<1> QED BY <1>2, <1>3 DEF Delete

LEMMA ListRefines ==
  ASSUME RefineInv, List
  PROVE  Dictionary!List
<1>1. UNCHANGED <<Entries, HiddenValues, Ahead>>
  BY DEF List, object, walks, Entries, HiddenValues, Hidden, Ahead
<1> QED BY <1>1, OwnKeysInOrder DEF List, Dictionary!List, RefineInv

LEMMA WalkRefines ==
  ASSUME RefineInv, NEW w \in Walker, Walk(w)
  PROVE  Dictionary!Walk(w)
<1>1. UNCHANGED <<Entries, HiddenValues>>
  BY DEF Walk, object, Entries, HiddenValues, Hidden
<1>2. OwnKeys \in Seq(Key) /\ Dictionary!InOrder = OwnKeys BY OwnKeysInOrder DEF RefineInv
<1>3. /\ walked' = [walked EXCEPT ![w] = OwnKeys] /\ pos' = [pos EXCEPT ![w] = 1]
      /\ answer' = <<"ok">>
      /\ walked \in [Walker -> Seq(Key)] /\ pos \in [Walker -> Nat]
  BY DEF Walk, RefineInv, WalksOK
<1>4. SubSeq(OwnKeys, 1, Len(OwnKeys)) = OwnKeys BY <1>2, SubSeqFull
<1>5. Ahead' = [Ahead EXCEPT ![w] = OwnKeys]
  <2>1. Ahead' = [x \in Walker |-> SubSeq(walked'[x], pos'[x], Len(walked'[x]))] BY DEF Ahead
  <2>2. ASSUME NEW x \in Walker
        PROVE  SubSeq(walked'[x], pos'[x], Len(walked'[x])) =
                 IF x = w THEN OwnKeys ELSE SubSeq(walked[x], pos[x], Len(walked[x]))
    <3>1. CASE x = w
      <4>1. walked'[x] = OwnKeys /\ pos'[x] = 1 BY <1>3, <3>1
      <4> QED BY <1>4, <3>1, <4>1
    <3>2. CASE x # w
      <4>1. walked'[x] = walked[x] /\ pos'[x] = pos[x] BY <1>3, <3>2
      <4> QED BY <3>2, <4>1
    <3> QED BY <3>1, <3>2
  <2>3. Ahead' = [x \in Walker |-> IF x = w THEN OwnKeys ELSE SubSeq(walked[x], pos[x], Len(walked[x]))]
    BY <2>1, <2>2
  <2> QED BY <2>3 DEF Ahead
<1> QED BY <1>1, <1>2, <1>3, <1>5 DEF Dictionary!Walk

\* The keys that are still ahead, and which of them are still there.
LEMMA AheadIs ==
  ASSUME RefineInv, NEW w \in Walker
  PROVE  /\ walked[w] \in Seq(Key) /\ Len(walked[w]) \in Nat
         /\ pos[w] \in 1..(Len(walked[w]) + 1)
         /\ Ahead[w] = SubSeq(walked[w], pos[w], Len(walked[w]))
         /\ DOMAIN Ahead[w] = 1..(Len(walked[w]) - pos[w] + 1)
         /\ Len(Ahead[w]) = Len(walked[w]) - pos[w] + 1
         /\ \A j \in DOMAIN Ahead[w] :
              /\ pos[w] + j - 1 \in pos[w]..Len(walked[w])
              /\ Ahead[w][j] = walked[w][pos[w] + j - 1]
              /\ Dictionary!Present(Ahead[w][j]) <=> Still(w, pos[w] + j - 1)
<1>1. /\ walked[w] \in Seq(Key) /\ Len(walked[w]) \in Nat
      /\ pos[w] \in 1..(Len(walked[w]) + 1)
      /\ Ahead[w] = SubSeq(walked[w], pos[w], Len(walked[w]))
  BY DEF RefineInv, WalksOK, Ahead
<1> DEFINE s == walked[w]
           p == pos[w]
           t == Ahead[w]
           n == Len(s) - p + 1
<1>2. /\ t \in Seq(Key) /\ Len(t) = n /\ \A j \in 1..n : t[j] = s[p + j - 1]
  <2> HIDE DEF s, p, t
  <2>1. s \in Seq(Key) /\ p \in 1..(Len(s) + 1) /\ t = SubSeq(s, p, Len(s))
    BY <1>1 DEF s, p, t
  <2> QED BY <2>1, Suffix
<1>3. DOMAIN t = 1..n BY <1>2
<1>4. ASSUME NEW j \in 1..n
      PROVE  /\ p + j - 1 \in p..Len(s)
             /\ Dictionary!Present(t[j]) <=> Still(w, p + j - 1)
  <2>1. p + j - 1 \in p..Len(s) /\ p + j - 1 \in 1..Len(s) BY <1>1
  <2>2. s[p + j - 1] \in Key BY <1>1, <2>1
  <2>3. t[j] = s[p + j - 1] BY <1>2
  <2>4. Dictionary!Present(t[j]) <=> Find(s[p + j - 1]) # {}
    BY <2>2, <2>3, PlacesAre DEF RefineInv
  <2> QED BY <2>1, <2>4 DEF Still
<1> QED BY <1>1, <1>2, <1>3, <1>4

LEMMA VisitRefines ==
  ASSUME RefineInv, NEW w \in Walker, Visit(w)
  PROVE  Dictionary!Visit(w)
<1> DEFINE s == walked[w]
           p == pos[w]
           t == Ahead[w]
           n == Len(s) - p + 1
           there == {i \in DOMAIN t : Dictionary!Present(t[i])}
<1>1. UNCHANGED <<Entries, HiddenValues>>
  BY DEF Visit, object, Entries, HiddenValues, Hidden
<1>2. /\ s \in Seq(Key) /\ Len(s) \in Nat /\ p \in 1..(Len(s) + 1)
      /\ t = SubSeq(s, p, Len(s)) /\ DOMAIN t = 1..n /\ Len(t) = n
      /\ \A j \in 1..n : /\ p + j - 1 \in p..Len(s)
                         /\ t[j] = s[p + j - 1]
                         /\ Dictionary!Present(t[j]) <=> Still(w, p + j - 1)
  BY AheadIs
<1>3. /\ walked' = walked /\ walked \in [Walker -> Seq(Key)] /\ pos \in [Walker -> Nat]
  BY DEF Visit, RefineInv, WalksOK
\* Moving on to the key behind the one at i takes the first keys off.
<1>4. ASSUME NEW i \in p..Len(s), pos' = [pos EXCEPT ![w] = i + 1]
      PROVE  Ahead' = [Ahead EXCEPT ![w] = SubSeq(t, (i - p + 1) + 1, Len(t))]
  <2>1. i - p + 1 \in 1..n /\ p + (i - p + 1) = i + 1
    <3>1. p \in Int /\ Len(s) \in Int /\ i \in Int /\ p <= i /\ i <= Len(s) BY <1>2
    <3> HIDE DEF s, p
    <3> QED BY <3>1
  <2>2. SubSeq(t, (i - p + 1) + 1, Len(t)) = SubSeq(s, i + 1, Len(s))
    <3>1. \A j \in 1..n : SubSeq(SubSeq(s, p, Len(s)), j + 1, n) = SubSeq(s, p + j, Len(s))
      <4> HIDE DEF s, p, t
      <4> QED BY <1>2, Suffix
    <3>2. SubSeq(SubSeq(s, p, Len(s)), (i - p + 1) + 1, n) = SubSeq(s, p + (i - p + 1), Len(s))
      BY <2>1, <3>1
    <3> QED BY <1>2, <2>1, <3>2
  <2>3. Ahead' = [x \in Walker |-> SubSeq(walked[x], pos'[x], Len(walked[x]))]
    BY <1>3 DEF Ahead
  <2>4. ASSUME NEW x \in Walker
        PROVE  SubSeq(walked[x], pos'[x], Len(walked[x])) =
                 IF x = w THEN SubSeq(s, i + 1, Len(s)) ELSE SubSeq(walked[x], pos[x], Len(walked[x]))
    <3>1. CASE x = w BY <1>3, <1>4, <3>1
    <3>2. CASE x # w BY <1>3, <1>4, <3>2
    <3> QED BY <3>1, <3>2
  <2>5. Ahead' = [x \in Walker |-> IF x = w THEN SubSeq(s, i + 1, Len(s))
                                   ELSE SubSeq(walked[x], pos[x], Len(walked[x]))]
    BY <2>3, <2>4
  <2>6. Ahead' = [Ahead EXCEPT ![w] = SubSeq(s, i + 1, Len(s))] BY <2>5 DEF Ahead
  <2> QED BY <2>2, <2>6
<1>5. CASE \E i \in p..Len(s) :
             /\ Still(w, i) /\ \A j \in p..(i - 1) : ~Still(w, j)
             /\ pos' = [pos EXCEPT ![w] = i + 1] /\ answer' = <<"key", walked[w][i]>>
  <2>1. PICK i \in p..Len(s) :
             /\ Still(w, i) /\ \A j \in p..(i - 1) : ~Still(w, j)
             /\ pos' = [pos EXCEPT ![w] = i + 1] /\ answer' = <<"key", walked[w][i]>>
    BY <1>5
  <2> DEFINE a == i - p + 1
  <2>2. a \in 1..n /\ p + a - 1 = i
    <3>1. p \in Int /\ Len(s) \in Int /\ i \in Int /\ p <= i /\ i <= Len(s) BY <1>2
    <3> HIDE DEF s, p
    <3> QED BY <3>1
  <2>3. a \in there /\ t[a] = s[i] BY <1>2, <2>1, <2>2
  <2>4. ASSUME NEW j \in there PROVE a <= j
    <3>1. j \in 1..n /\ Still(w, p + j - 1) /\ p + j - 1 \in p..Len(s) BY <1>2
    <3>2. ~(p + j - 1 \in p..(i - 1)) BY <2>1, <3>1
    <3> QED BY <1>2, <2>2, <3>1, <3>2
  <2>5. Ahead' = [Ahead EXCEPT ![w] = SubSeq(t, a + 1, Len(t))] BY <1>4, <2>1
  <2>6. answer' = <<"key", t[a]>> BY <2>1, <2>3
  <2>7. Ahead' = [Ahead EXCEPT ![w] = SubSeq(@, a + 1, Len(@))] BY <2>5
  <2> HIDE DEF a
  <2> QED BY <1>1, <2>3, <2>4, <2>6, <2>7 DEF Dictionary!Visit
<1>6. CASE /\ \A i \in p..Len(s) : ~Still(w, i)
           /\ pos' = [pos EXCEPT ![w] = Len(s) + 1] /\ answer' = <<"done">>
  <2>1. there = {} BY <1>2, <1>6
  <2>2. Ahead' = [x \in Walker |-> SubSeq(walked[x], pos'[x], Len(walked[x]))]
    BY <1>3 DEF Ahead
  <2>3. SubSeq(s, Len(s) + 1, Len(s)) = <<>>
    <3>1. Len(s) \in Int /\ Len(s) + 1 \in Int /\ Len(s) < Len(s) + 1 BY <1>2
    <3> QED BY <3>1, SubSeqEmpty
  <2>4. ASSUME NEW x \in Walker
        PROVE  SubSeq(walked[x], pos'[x], Len(walked[x])) =
                 IF x = w THEN <<>> ELSE SubSeq(walked[x], pos[x], Len(walked[x]))
    <3>1. CASE x = w BY <1>3, <1>6, <2>3, <3>1
    <3>2. CASE x # w BY <1>3, <1>6, <3>2
    <3> QED BY <3>1, <3>2
  <2>5. Ahead' = [x \in Walker |-> IF x = w THEN <<>> ELSE SubSeq(walked[x], pos[x], Len(walked[x]))]
    BY <2>2, <2>4
  <2>6. Ahead' = [Ahead EXCEPT ![w] = <<>>] BY <2>5 DEF Ahead
  <2> QED BY <1>1, <1>6, <2>1, <2>6 DEF Dictionary!Visit
<1> QED BY <1>5, <1>6 DEF Visit

LEMMA InitRefines == Init => Dictionary!Init
<1> SUFFICES ASSUME Init PROVE Dictionary!Init
  OBVIOUS
<1>1. Entries = <<>>
  <2>1. keys = <<>> BY DEF Init
  <2> QED BY <2>1 DEF Entries
<1>2. Ahead = [w \in Walker |-> <<>>]
  <2>1. walked = [w \in Walker |-> <<>>] /\ pos = [w \in Walker |-> 1] BY DEF Init
  <2>2. SubSeq(<<>>, 1, Len(<<>>)) = <<>> OBVIOUS
  <2>3. \A w \in Walker : SubSeq(walked[w], pos[w], Len(walked[w])) = <<>> BY <2>1, <2>2
  <2> QED BY <2>3 DEF Ahead
<1>3. /\ answer = <<>>
      /\ errMsg \in Value \cup {Unset} /\ errCause \in Value \cup {Unset}
  BY DEF Init
<1>4. DOMAIN HiddenValues \subseteq Key BY HiddenValuesOf DEF HiddenValues
<1>5. \A k \in DOMAIN HiddenValues : HiddenValues[k] \in Value
  BY <1>3, HiddenValuesOf DEF Hidden
<1> QED BY <1>1, <1>2, <1>3, <1>4, <1>5 DEF Dictionary!Init

\* Each step of the object is the dictionary's step of the same name.
LEMMA NextRefines ==
  ASSUME RefineInv, [Next]_vars
  PROVE  [Dictionary!Next]_(Dictionary!vars)
<1>1. ASSUME NEW k \in Key, Get(k) PROVE Dictionary!Next
  BY <1>1, GetRefines DEF Dictionary!Next
<1>2. ASSUME NEW k \in Key, Delete(k) PROVE Dictionary!Next
  BY <1>2, DeleteRefines DEF Dictionary!Next
<1>3. ASSUME NEW k \in Key, NEW v \in Value, Set(k, v) PROVE Dictionary!Next
  BY <1>3, SetRefines DEF Dictionary!Next
<1>4. ASSUME List PROVE Dictionary!Next
  BY <1>4, ListRefines DEF Dictionary!Next
<1>5. ASSUME NEW w \in Walker, Walk(w) PROVE Dictionary!Next
  BY <1>5, WalkRefines DEF Dictionary!Next
<1>6. ASSUME NEW w \in Walker, Visit(w) PROVE Dictionary!Next
  BY <1>6, VisitRefines DEF Dictionary!Next
<1>7. CASE UNCHANGED vars
  BY <1>7 DEF vars, object, walks, Dictionary!vars, Entries, HiddenValues, Hidden, Ahead
<1> QED BY <1>1, <1>2, <1>3, <1>4, <1>5, <1>6, <1>7 DEF Next

\* For all names, indices, values, walks and sizes at which the index is made:
\* the slices, the index, the hidden fields and the key order of value.go, and
\* walks over slices that sets and deletions move, are the ordered dictionary
\* of JsObject.  No walk visits a key that is gone or skips one that is there.
THEOREM ImplementsDictionary == Spec => ObjectSpec
<1>1. Init => RefineInv /\ Dictionary!Init BY RefineInit, InitRefines
<1>2. RefineInv /\ [Next]_vars => RefineInv'
  BY NextInv, WalksStep, ApartStep DEF RefineInv
<1>3. RefineInv /\ [Next]_vars => [Dictionary!Next]_(Dictionary!vars) BY NextRefines
<1> QED BY <1>1, <1>2, <1>3, PTL DEF Spec, ObjectSpec, Dictionary!Spec

---------------------------------------------------------------------------
(* Sorting: the elements are kept.                                         *)

\* The types of the variables.
Typed ==
  /\ stage \in {"idle", "collect", "sort", "call", "done"}
  /\ op \in {"none", "sort", "toSorted"}
  /\ given \in Seq(Slot) /\ home \in Seq(Slot) /\ work \in Seq(Slot)
  /\ Len(given) <= Len(home) /\ length \in 0..Len(home)
  /\ next \in Nat \ {0} /\ changes \in Nat
  /\ moved \in BOOLEAN /\ failed \in BOOLEAN /\ written \in BOOLEAN

\* Nothing has been done to the array yet.
Untouched == home = given /\ length = Len(given) /\ changes = 0 /\ ~written /\ ~moved

\* work has the elements among the first n, and no holes.
SetAside(n) ==
  /\ work \in Seq(Member)
  /\ Len(work) + Count(given, n, Gap) = n
  /\ \A x \in Member : Count(work, Len(work), x) = Count(given, n, x)

IdleInv == stage = "idle" => op = "none" /\ given = <<>> /\ Untouched /\ next = 1 /\ work = <<>>

CollectInv ==
  stage = "collect" => op = "sort" /\ Untouched /\ next <= Len(given) + 1 /\ SetAside(next - 1)

\* While and after the elements are sorted.
SortInv ==
  stage \in {"sort", "call", "done"} =>
    /\ op \in {"sort", "toSorted"}
    /\ op = "sort" /\ HasHoles => SetAside(Len(given))
    /\ op = "sort" /\ ~HasHoles /\ ~written =>
         \A x \in Slot : Count(home, Len(given), x) = Count(given, Len(given), x)
    /\ op = "toSorted" =>
         /\ Len(work) = Len(given)
         /\ \A x \in Slot : Count(work, Len(given), x) = Count(Filled(given), Len(given), x)
    /\ op = "toSorted" /\ changes = 0 => home = given /\ length = Len(given)

SortingInv == Typed /\ IdleInv /\ CollectInv /\ SortInv /\ SortKeepsElements

---------------------------------------------------------------------------
(* Counting the elements of the front of a sequence.                       *)

LEMMA CountIsNat ==
  ASSUME NEW s, NEW n \in Nat, NEW x
  PROVE  IsFiniteSet({i \in 1..n : s[i] = x}) /\ Count(s, n, x) \in Nat
<1>1. IsFiniteSet(1..n) BY FS_Interval
<1>2. IsFiniteSet({i \in 1..n : s[i] = x}) BY <1>1, FS_Subset
<1> QED BY <1>2, FS_CardinalityType DEF Count

LEMMA CountSame ==
  ASSUME NEW s, NEW t, NEW n \in Nat, \A i \in 1..n : s[i] = t[i], NEW x
  PROVE  Count(s, n, x) = Count(t, n, x)
<1>1. {i \in 1..n : s[i] = x} = {i \in 1..n : t[i] = x} OBVIOUS
<1> QED BY <1>1 DEF Count

LEMMA CountNone ==
  ASSUME NEW s, NEW x
  PROVE  Count(s, 0, x) = 0
<1>1. {i \in 1..0 : s[i] = x} = {} OBVIOUS
<1> QED BY <1>1, FS_EmptySet DEF Count

LEMMA CountOneMore ==
  ASSUME NEW s, NEW n \in Nat, NEW x
  PROVE  Count(s, n + 1, x) = Count(s, n, x) + (IF s[n + 1] = x THEN 1 ELSE 0)
<1> DEFINE A == {i \in 1..n : s[i] = x}
           B == {i \in 1..(n + 1) : s[i] = x}
<1>1. IsFiniteSet(A) /\ Cardinality(A) \in Nat BY CountIsNat DEF Count
<1>2. n + 1 \notin A OBVIOUS
<1>3. CASE s[n + 1] = x
  <2>1. B = A \cup {n + 1} BY <1>3
  <2> HIDE DEF A, B
  <2>2. Cardinality(B) = Cardinality(A) + 1 BY <1>1, <1>2, <2>1, FS_AddElement
  <2> QED BY <1>3, <2>2 DEF Count, A, B
<1>4. CASE s[n + 1] # x
  <2>1. B = A BY <1>4
  <2>2. Count(s, n + 1, x) = Cardinality(A) BY <2>1 DEF Count
  <2> HIDE DEF A, B
  <2> QED BY <1>1, <1>4, <2>2 DEF Count, A
<1> QED BY <1>3, <1>4

\* Two elements that change places are still there.
LEMMA ExchangeKeeps ==
  ASSUME NEW S, NEW s \in Seq(S), NEW n \in 0..Len(s), NEW i \in 1..n, NEW j \in 1..n
  PROVE  /\ Exchange(s, i, j) \in Seq(S) /\ Len(Exchange(s, i, j)) = Len(s)
         /\ \A x : Count(Exchange(s, i, j), n, x) = Count(s, n, x)
<1> DEFINE t == Exchange(s, i, j)
<1>1. /\ t \in Seq(S) /\ Len(t) = Len(s)
      /\ \A k \in 1..n : t[k] = IF k = j THEN s[i] ELSE IF k = i THEN s[j] ELSE s[k]
  BY DEF Exchange
<1> HIDE DEF t
<1>2. ASSUME NEW x PROVE Count(t, n, x) = Count(s, n, x)
  <2> DEFINE A == {k \in 1..n : s[k] = x}
             B == {k \in 1..n : t[k] = x}
             f == [k \in A |-> IF k = i THEN j ELSE IF k = j THEN i ELSE k]
  <2>1. \A k \in A : f[k] \in B BY <1>1
  <2>2. \A k, l \in A : f[k] = f[l] => k = l OBVIOUS
  <2>3. ASSUME NEW l \in B PROVE \E k \in A : f[k] = l
    <3> DEFINE k == IF l = i THEN j ELSE IF l = j THEN i ELSE l
    <3>1. k \in A /\ f[k] = l BY <1>1
    <3> QED BY <3>1
  <2>4. f \in Bijection(A, B)
    <3>1. f \in [A -> B] BY <2>1
    <3> HIDE DEF f, A, B
    <3> QED BY <2>2, <2>3, <3>1 DEF Bijection, Injection, Surjection, IsInjective
  <2>5. IsFiniteSet(A)
    <3>1. n \in Nat OBVIOUS
    <3> QED BY <3>1, CountIsNat
  <2> QED BY <2>4, <2>5, FS_Bijection DEF ExistsBijection, Count
<1> QED BY <1>1, <1>2 DEF t

---------------------------------------------------------------------------
(* The steps.                                                              *)

LEMMA SortingInit == SortInit => SortingInv
<1> SUFFICES ASSUME SortInit PROVE SortingInv OBVIOUS
<1>1. <<>> \in Seq(Slot) /\ Len(<<>>) = 0 OBVIOUS
<1>2. Typed
  <2>1. given \in Seq(Slot) /\ home \in Seq(Slot) /\ work \in Seq(Slot) /\ Len(given) = 0 /\ Len(home) = 0
    BY <1>1 DEF SortInit
  <2>2. next \in Nat \ {0} /\ changes \in Nat /\ length \in 0..0 BY DEF SortInit
  <2>3. Len(given) <= Len(home) /\ length \in 0..Len(home) BY <2>1, <2>2
  <2>4. /\ stage = "idle" /\ op = "none"
        /\ moved \in BOOLEAN /\ failed \in BOOLEAN /\ written \in BOOLEAN
    BY DEF SortInit
  <2> QED BY <2>1, <2>2, <2>3, <2>4 DEF Typed
<1>3. IdleInv BY <1>1 DEF SortInit, IdleInv, Untouched
<1> QED BY <1>2, <1>3 DEF SortInit, SortingInv, CollectInv, SortInv, SortKeepsElements

LEMMA FilledIsSeq ==
  ASSUME NEW a \in Seq(Slot)
  PROVE  Filled(a) \in Seq(Slot) /\ Len(Filled(a)) = Len(a)
<1>1. \A i \in 1..Len(a) : (IF a[i] = Gap THEN Undef ELSE a[i]) \in Slot
  BY SortingAssumption DEF Slot
<1> QED BY <1>1 DEF Filled

LEMMA BeginInv ==
  ASSUME SortingInv, NEW method \in {"sort", "toSorted"}, NEW items \in Inputs,
         Begin(method, items)
  PROVE  SortingInv'
<1>0. /\ stage = "idle" /\ op' = method /\ given' = items /\ home' = items
      /\ length' = Len(items)
      /\ UNCHANGED <<moved, next, failed, changes, written>>
  BY DEF Begin
<1>1. /\ next = 1 /\ changes = 0 /\ ~written /\ ~moved /\ work = <<>>
  BY <1>0 DEF SortingInv, IdleInv, Untouched
<1>2. items \in Seq(Slot)
  BY SortingAssumption DEF Inputs
<1>3. Untouched' BY <1>0, <1>1 DEF Untouched
<1>4. CASE method = "sort"
  <2>1. stage' = "collect" /\ work' = work BY <1>4 DEF Begin
  <2>2. Typed' BY <1>0, <1>1, <1>2, <2>1 DEF SortingInv, Typed
  <2>3. SetAside(0)'
    <3>1. work' = <<>> /\ Len(work') = 0 BY <1>1, <2>1
    <3>2. \A x : Count(given', 0, x) = 0 /\ Count(work', 0, x) = 0 BY CountNone
    <3> QED BY <3>1, <3>2 DEF SetAside
  <2>4. CollectInv'
    <3>1. next' = 1 /\ next' - 1 = 0 /\ next' <= Len(given') + 1 BY <1>0, <1>1, <1>2
    <3> QED BY <1>0, <1>3, <1>4, <2>3, <3>1 DEF CollectInv
  <2> QED BY <2>1, <2>2, <2>4 DEF SortingInv, IdleInv, SortInv, SortKeepsElements
<1>5. CASE method = "toSorted"
  <2>1. stage' = "sort" /\ work' = Filled(items) BY <1>5 DEF Begin
  <2>2. work' \in Seq(Slot) /\ Len(work') = Len(given') BY <1>0, <1>2, <2>1, FilledIsSeq
  <2>3. Typed' BY <1>0, <1>1, <1>2, <1>5, <2>1, <2>2 DEF SortingInv, Typed
  <2>4. \A x \in Slot : Count(work', Len(given'), x) = Count(Filled(given'), Len(given'), x)
    BY <1>0, <2>1
  <2>5. SortInv' BY <1>0, <1>5, <2>1, <2>2, <2>4 DEF SortInv
  <2> QED BY <2>1, <2>3, <2>5 DEF SortingInv, IdleInv, CollectInv, SortKeepsElements
<1> QED BY <1>4, <1>5

LEMMA CollectStep ==
  ASSUME SortingInv, Collect
  PROVE  SortingInv'
<1>0. /\ stage = "collect" /\ op = "sort" /\ Untouched /\ SetAside(next - 1)
      /\ next \in Nat \ {0} /\ next <= Len(given) + 1
      /\ UNCHANGED <<op, given, home, length, moved, failed, changes, written>>
  BY DEF Collect, SortingInv, Typed, CollectInv
<1>1. given \in Seq(Slot) /\ home = given BY <1>0 DEF SortingInv, Typed, Untouched
<1>2. Untouched' BY <1>0 DEF Untouched
<1>3. CASE next <= Len(given)
  <2>1. /\ work' = IF given[next] = Gap THEN work ELSE Append(work, given[next])
        /\ next' = next + 1 /\ stage' = stage
    BY <1>1, <1>3 DEF Collect
  <2>2. PICK n \in Nat : n + 1 = next /\ n = next - 1
    <3>1. next - 1 \in Nat BY <1>0
    <3> QED BY <1>0, <3>1
  <2>3. given[next] \in Slot BY <1>0, <1>1, <1>3
  <2>4. /\ work \in Seq(Member)
        /\ Len(work) + Count(given, n, Gap) = n
        /\ \A x \in Member : Count(work, Len(work), x) = Count(given, n, x)
    BY <1>0, <2>2 DEF SetAside
  <2>5. \A x : Count(given, n + 1, x) = Count(given, n, x) + (IF given[n + 1] = x THEN 1 ELSE 0)
    BY CountOneMore
  <2>6. \A x : Count(given, n, x) \in Nat BY CountIsNat
  <2>7. /\ work' \in Seq(Member)
        /\ Len(work') + Count(given, next, Gap) = next
        /\ \A x \in Member : Count(work', Len(work'), x) = Count(given, next, x)
    <3>1. CASE given[next] = Gap
      <4>1. work' = work BY <2>1, <3>1
      <4>2. \A x \in Member : x # Gap BY SortingAssumption
      <4>3. Count(given, next, Gap) = Count(given, n, Gap) + 1 BY <2>2, <2>5, <3>1
      <4>4. \A x \in Member : Count(given, next, x) = Count(given, n, x)
        BY <2>2, <2>5, <2>6, <3>1, <4>2
      <4>5. Len(work) \in Nat BY <2>4
      <4> QED BY <2>2, <2>4, <2>6, <4>1, <4>3, <4>4, <4>5
    <3>2. CASE given[next] # Gap
      <4> DEFINE e == given[next]
      <4>1. e \in Member BY <2>3, <3>2 DEF Slot
      <4>2. work' = Append(work, e) BY <2>1, <3>2
      <4> HIDE DEF e
      <4>3. /\ work' \in Seq(Member) /\ Len(work') = Len(work) + 1 /\ Len(work) \in Nat
            /\ \A i \in 1..Len(work) : work'[i] = work[i]
            /\ work'[Len(work) + 1] = e
        BY <2>4, <4>1, <4>2
      <4>4. Count(given, next, Gap) = Count(given, n, Gap)
        BY <2>2, <2>5, <2>6, <3>2
      <4>5. ASSUME NEW x \in Member PROVE Count(work', Len(work'), x) = Count(given, next, x)
        <5>1. Count(work', Len(work), x) = Count(work, Len(work), x)
          <6>1. Len(work) \in Nat /\ \A i \in 1..Len(work) : work'[i] = work[i] BY <4>3
          <6> QED BY <6>1, CountSame
        <5>2. Count(work', Len(work) + 1, x) = Count(work', Len(work), x) + (IF e = x THEN 1 ELSE 0)
          BY <4>3, CountOneMore
        <5> QED BY <2>2, <2>4, <2>5, <4>3, <5>1, <5>2 DEF e
      <4>6. Len(work') + Count(given, next, Gap) = next
        <5>1. Len(work') = Len(work) + 1 /\ Len(work) \in Nat BY <4>3
        <5>2. Len(work) + Count(given, n, Gap) = n /\ Count(given, n, Gap) \in Nat BY <2>4, <2>6
        <5> QED BY <2>2, <4>4, <5>1, <5>2
      <4> QED BY <4>3, <4>5, <4>6
    <3> QED BY <3>1, <3>2
  <2>8. SetAside(next - 1)'
    <3>1. next' - 1 = next BY <1>0, <2>1
    <3> QED BY <1>0, <2>7, <3>1 DEF SetAside
  <2>9. CollectInv'
    <3>1. next' <= Len(given') + 1 BY <1>0, <1>1, <1>3, <2>1
    <3> QED BY <1>0, <1>2, <2>8, <3>1 DEF CollectInv
  <2>10. Typed'
    <3>1. work' \in Seq(Slot) BY <2>7 DEF Slot
    <3>2. next' \in Nat \ {0} BY <1>0, <2>1
    <3> QED BY <1>0, <2>1, <3>1, <3>2 DEF SortingInv, Typed
  <2> QED BY <1>0, <2>1, <2>9, <2>10 DEF SortingInv, IdleInv, SortInv, SortKeepsElements
<1>4. CASE ~(next <= Len(given))
  <2>1. stage' = "sort" /\ work' = work /\ next' = next BY <1>4 DEF Collect
  <2>2. next - 1 = Len(given) BY <1>0, <1>1, <1>4
  <2>3. SetAside(Len(given))' BY <1>0, <2>1, <2>2 DEF SetAside
  <2>4. SortInv' BY <1>0, <1>1, <2>3 DEF SortInv
  <2>5. Typed' BY <1>0, <2>1 DEF SortingInv, Typed
  <2> QED BY <2>1, <2>4, <2>5 DEF SortingInv, IdleInv, CollectInv, SortKeepsElements
<1> QED BY <1>3, <1>4

\* The comparator is called, or it returns: nothing that matters changes.
LEMMA CallingInv ==
  ASSUME SortingInv, \/ \E i, j \in 1..Len(Sorted) : Call(i, j)
               \/ \E throws \in BOOLEAN : Return(throws)
  PROVE  SortingInv'
<1>1. /\ stage \in {"sort", "call"} /\ stage' \in {"sort", "call"} /\ failed' \in BOOLEAN
      /\ UNCHANGED <<op, given, home, length, moved, next, work, changes, written>>
  BY DEF Call, Return, SortingInv, Typed
<1>2. Typed' BY <1>1 DEF SortingInv, Typed
<1>3. SortInv' BY <1>1 DEF SortingInv, SortInv, SetAside, HasHoles
<1> QED BY <1>1, <1>2, <1>3 DEF SortingInv, IdleInv, CollectInv, SortKeepsElements

LEMMA SwapInv ==
  ASSUME SortingInv, NEW i \in 1..Len(Sorted), NEW j \in 1..Len(Sorted), Swap(i, j)
  PROVE  SortingInv'
<1>0. /\ stage = "sort" /\ stage' = "sort"
      /\ UNCHANGED <<op, given, length, moved, next, failed, changes, written>>
  BY DEF Swap
<1>1. /\ given \in Seq(Slot) /\ home \in Seq(Slot) /\ work \in Seq(Slot)
      /\ Len(given) <= Len(home) /\ op \in {"sort", "toSorted"}
  BY <1>0 DEF SortingInv, Typed, SortInv
<1>2. HasHoles' = HasHoles BY <1>0 DEF HasHoles
<1>3. CASE Copied
  <2>1. work' = Exchange(work, i, j) /\ home' = home BY <1>3 DEF Swap
  <2>2. i \in 1..Len(work) /\ j \in 1..Len(work) BY <1>3 DEF Sorted
  <2>3. Len(work) \in 0..Len(work) BY <1>1
  <2>4. /\ work' \in Seq(Slot) /\ Len(work') = Len(work)
        /\ \A x : Count(work', Len(work), x) = Count(work, Len(work), x)
    BY <1>1, <2>1, <2>2, <2>3, ExchangeKeeps
  <2>5. Typed' BY <1>0, <2>1, <2>4 DEF SortingInv, Typed
  <2>6. ASSUME op = "sort", HasHoles PROVE SetAside(Len(given))'
    <3>1. SetAside(Len(given)) BY <1>0, <2>6 DEF SortingInv, SortInv
    <3>2. work \in Seq(Member) BY <3>1 DEF SetAside
    <3>3. work' \in Seq(Member) BY <2>1, <2>2, <2>3, <3>2, ExchangeKeeps
    <3> QED BY <1>0, <2>4, <3>1, <3>3 DEF SetAside
  <2>7. ASSUME op = "toSorted"
        PROVE  /\ Len(work') = Len(given)
               /\ \A x \in Slot : Count(work', Len(given), x) = Count(Filled(given), Len(given), x)
    BY <1>0, <2>4, <2>7 DEF SortingInv, SortInv
  <2>8. ~(op = "sort" /\ ~HasHoles) BY <1>1, <1>3 DEF Copied
  <2>9. op = "toSorted" /\ changes = 0 => home' = given /\ length = Len(given)
    BY <1>0, <2>1 DEF SortingInv, SortInv
  <2>10. SortInv'
    BY <1>0, <1>1, <1>2, <2>6, <2>7, <2>8, <2>9 DEF SortInv
  <2> QED BY <1>0, <2>5, <2>10 DEF SortingInv, IdleInv, CollectInv, SortKeepsElements
<1>4. CASE ~Copied
  <2>1. home' = Exchange(home, i, j) /\ work' = work BY <1>4 DEF Swap
  <2>2. op = "sort" /\ ~HasHoles BY <1>1, <1>4 DEF Copied
  <2>3. Len(SubSeq(home, 1, Len(given))) = Len(given) BY <1>1
  <2>4. i \in 1..Len(given) /\ j \in 1..Len(given) BY <1>4, <2>3 DEF Sorted
  <2>5. Len(given) \in 0..Len(home) BY <1>1
  <2>6. /\ home' \in Seq(Slot) /\ Len(home') = Len(home)
        /\ \A x : Count(home', Len(given), x) = Count(home, Len(given), x)
    BY <1>1, <2>1, <2>4, <2>5, ExchangeKeeps
  <2>7. Typed' BY <1>0, <2>1, <2>6 DEF SortingInv, Typed
  <2>8. ~written => \A x \in Slot : Count(home', Len(given), x) = Count(given, Len(given), x)
    BY <1>0, <2>2, <2>6 DEF SortingInv, SortInv
  <2>9. SortInv' BY <1>0, <1>2, <2>2, <2>8 DEF SortInv
  <2> QED BY <1>0, <2>7, <2>9 DEF SortingInv, IdleInv, CollectInv, SortKeepsElements
<1> QED BY <1>3, <1>4

\* The comparator changes the array: the memory of the sort only if it writes there.
LEMMA ChangingInv ==
  ASSUME SortingInv, Changing, home' \in Seq(Slot), Len(home) <= Len(home'), length' \in 0..Len(home'),
         moved' \in BOOLEAN, written' \in BOOLEAN, written => written',
         ~written' => \A i \in 1..Len(given) : home'[i] = home[i]
  PROVE  SortingInv'
<1>0. /\ stage = "call" /\ stage' = "call" /\ changes' = changes + 1
      /\ UNCHANGED <<op, given, next, work, failed>>
  BY DEF Changing
<1>1. /\ given \in Seq(Slot) /\ home \in Seq(Slot) /\ Len(given) <= Len(home) /\ changes \in Nat
  BY DEF SortingInv, Typed
<1>2. Typed'
  <2>1. Len(given') <= Len(home') /\ changes' \in Nat BY <1>0, <1>1
  <2> QED BY <1>0, <2>1 DEF SortingInv, Typed
<1>3. HasHoles' = HasHoles BY <1>0 DEF HasHoles
<1>4. ASSUME ~written', op = "sort", ~HasHoles, NEW x \in Slot
      PROVE  Count(home', Len(given), x) = Count(given, Len(given), x)
  <2>1. Count(home, Len(given), x) = Count(given, Len(given), x)
    BY <1>0, <1>4 DEF SortingInv, SortInv
  <2>2. Len(given) \in Nat /\ \A i \in 1..Len(given) : home'[i] = home[i] BY <1>1, <1>4
  <2>3. Count(home', Len(given), x) = Count(home, Len(given), x) BY <2>2, CountSame
  <2> QED BY <2>1, <2>3
<1>5. changes' # 0 BY <1>0, <1>1
<1>6. SetAside(Len(given))' <=> SetAside(Len(given)) BY <1>0 DEF SetAside
<1>7. SortInv' BY <1>0, <1>3, <1>4, <1>5, <1>6 DEF SortingInv, SortInv
<1> QED BY <1>0, <1>2, <1>7 DEF SortingInv, IdleInv, CollectInv, SortKeepsElements

LEMMA ChangesInv ==
  ASSUME SortingInv,
         \/ \E i \in 1..length, v \in Slot : Store(i, v)
         \/ \E n \in 0..length : Shorten(n)
         \/ \E v \in Slot : Push(v)
         \/ Move
  PROVE  SortingInv'
<1>0. /\ given \in Seq(Slot) /\ home \in Seq(Slot) /\ Len(given) <= Len(home)
      /\ length \in 0..Len(home) /\ written \in BOOLEAN /\ moved \in BOOLEAN
  BY DEF SortingInv, Typed
<1>1. ASSUME NEW i \in 1..length, NEW v \in Slot, Store(i, v) PROVE SortingInv'
  <2>1. /\ home' = [home EXCEPT ![i] = v] /\ written' = (written \/ i <= Len(given))
        /\ length' = length /\ moved' = moved /\ Changing
    BY <1>1 DEF Store
  <2>2. home' \in Seq(Slot) /\ Len(home') = Len(home) BY <1>0, <2>1
  <2>3. \A k \in 1..Len(home) : k # i => home'[k] = home[k] BY <1>0, <2>1
  <2>4. ~written' => \A k \in 1..Len(given) : home'[k] = home[k]
    <3>1. ~written' => ~(i <= Len(given)) BY <2>1
    <3>2. \A k \in 1..Len(given) : k \in 1..Len(home) /\ k <= Len(given) BY <1>0
    <3> QED BY <2>3, <3>1, <3>2
  <2> QED BY <1>0, <2>1, <2>2, <2>4, ChangingInv
<1>2. ASSUME NEW n \in 0..length, Shorten(n) PROVE SortingInv'
  <2>1. length' = n /\ home' = home /\ moved' = moved /\ written' = written /\ Changing
    BY <1>2 DEF Shorten
  <2> QED BY <1>0, <2>1, ChangingInv
<1>3. ASSUME NEW v \in Slot, Push(v) PROVE SortingInv'
  <2>1. /\ length' = length + 1 /\ written' = (written \/ length < Len(given))
        /\ moved' = moved /\ Changing
        /\ home' = IF length < Len(home) THEN [home EXCEPT ![length + 1] = v] ELSE Append(home, v)
    BY <1>3 DEF Push
  <2>3. CASE length < Len(home)
    <3>1. home' = [home EXCEPT ![length + 1] = v] BY <2>1, <2>3
    <3>0. length + 1 \in 1..Len(home) BY <1>0, <2>3
    <3>2. /\ home' \in Seq(Slot) /\ Len(home') = Len(home)
          /\ \A k \in 1..Len(home) : k # length + 1 => home'[k] = home[k]
      BY <1>0, <3>0, <3>1
    <3>3. length' \in 0..Len(home') BY <1>0, <2>1, <2>3, <3>2
    <3>4. ~written' => \A k \in 1..Len(given) : home'[k] = home[k]
      <4>1. ~written' => ~(length < Len(given)) BY <2>1
      <4>2. ~(length < Len(given)) =>
              \A k \in 1..Len(given) : k # length + 1 /\ k \in 1..Len(home)
        BY <1>0
      <4> QED BY <3>2, <4>1, <4>2
    <3> QED BY <1>0, <2>1, <3>2, <3>3, <3>4, ChangingInv
  <2>4. CASE ~(length < Len(home))
    <3>1. home' = Append(home, v) BY <2>1, <2>4
    <3>2. /\ home' \in Seq(Slot) /\ Len(home') = Len(home) + 1
          /\ \A k \in 1..Len(home) : home'[k] = home[k]
      BY <1>0, <3>1
    <3>3. length' \in 0..Len(home') BY <1>0, <2>1, <3>2
    <3>4. \A k \in 1..Len(given) : k \in 1..Len(home) BY <1>0
    <3> QED BY <1>0, <2>1, <3>2, <3>3, <3>4, ChangingInv
  <2> QED BY <2>3, <2>4
<1>4. ASSUME Move PROVE SortingInv'
  <2>1. moved' = TRUE /\ home' = home /\ length' = length /\ written' = written /\ Changing
    BY <1>4 DEF Move
  <2> QED BY <1>0, <2>1, ChangingInv
<1> QED BY <1>1, <1>2, <1>3, <1>4

\* The elements of work, then the holes: as many as there were.
LEMMA CopiedBackKeeps ==
  ASSUME given \in Seq(Slot), home \in Seq(Slot), Len(given) <= Len(home),
         SetAside(Len(given))
  PROVE  /\ CopiedBack \in Seq(Slot) /\ Len(CopiedBack) = Len(home)
         /\ \A x \in Slot : Count(CopiedBack, Len(given), x) = Count(given, Len(given), x)
<1> DEFINE n == Len(given)
           k == Len(work)
           c == CopiedBack
<1>1. n \in Nat /\ k \in Nat /\ work \in Seq(Member) BY DEF SetAside
<1>2. Count(given, n, Gap) \in Nat /\ k + Count(given, n, Gap) = n
  BY <1>1, CountIsNat DEF SetAside
<1>3. k <= n BY <1>1, <1>2
<1>4. ASSUME NEW i \in 1..Len(home)
      PROVE  (IF i <= k THEN work[i] ELSE IF i <= n THEN Gap ELSE home[i]) \in Slot
  BY <1>1, <1>4 DEF Slot
<1>5. c \in Seq(Slot) /\ Len(c) = Len(home) BY <1>4 DEF CopiedBack
<1>6. /\ \A i \in 1..k : c[i] = work[i] /\ c[i] \in Member
      /\ \A i \in (k + 1)..n : c[i] = Gap
  <2>1. \A i \in 1..n : i \in 1..Len(home) BY <1>1
  <2>2. \A i \in 1..n : c[i] = IF i <= k THEN work[i] ELSE Gap BY <1>1, <2>1 DEF CopiedBack
  <2>3. \A i \in 1..k : i \in 1..n /\ i <= k /\ work[i] \in Member BY <1>1, <1>3
  <2>4. \A i \in (k + 1)..n : i \in 1..n /\ ~(i <= k) BY <1>1
  <2> HIDE DEF c, n, k
  <2> QED BY <2>2, <2>3, <2>4
<1> HIDE DEF c, n, k
<1>7. ASSUME NEW x \in Member PROVE Count(c, n, x) = Count(given, n, x)
  <2>1. x # Gap BY SortingAssumption
  <2>2. {i \in 1..n : c[i] = x} = {i \in 1..k : work[i] = x}
    <3>1. \A i \in 1..n : i \in 1..k \/ i \in (k + 1)..n BY <1>1
    <3>2. \A i \in 1..k : i \in 1..n BY <1>1, <1>3
    <3> QED BY <1>6, <2>1, <3>1, <3>2
  <2>3. Count(c, n, x) = Count(work, k, x) BY <2>2 DEF Count
  <2> QED BY <2>3 DEF SetAside, k, n
<1>8. Count(c, n, Gap) = Count(given, n, Gap)
  <2>1. {i \in 1..n : c[i] = Gap} = (k + 1)..n
    <3>1. \A i \in 1..n : i \in 1..k \/ i \in (k + 1)..n BY <1>1
    <3>2. \A i \in (k + 1)..n : i \in 1..n BY <1>1
    <3>3. Gap \notin Member BY SortingAssumption
    <3> QED BY <1>6, <3>1, <3>2, <3>3
  <2>2. k + 1 \in Int /\ n \in Int BY <1>1
  <2>3. Cardinality((k + 1)..n) = IF k + 1 > n THEN 0 ELSE n - (k + 1) + 1 BY <2>2, FS_Interval
  <2>4. Cardinality((k + 1)..n) = n - k BY <1>1, <1>3, <2>3
  <2>5. Count(c, n, Gap) = n - k BY <2>1, <2>4 DEF Count
  <2> QED BY <1>1, <1>2, <2>5
<1> QED BY <1>5, <1>7, <1>8 DEF Slot, c, n

LEMMA EndInv ==
  ASSUME SortingInv, End
  PROVE  SortingInv'
<1>0. /\ stage = "sort" /\ stage' = "done"
      /\ UNCHANGED <<op, given, length, moved, next, work, failed, changes, written>>
      /\ home' = IF op = "sort" /\ HasHoles THEN CopiedBack ELSE home
  BY DEF End
<1>1. /\ given \in Seq(Slot) /\ home \in Seq(Slot) /\ Len(given) <= Len(home)
  BY DEF SortingInv, Typed
<1>2. HasHoles' = HasHoles BY <1>0 DEF HasHoles
<1>3. op = "sort" /\ HasHoles => SetAside(Len(given)) BY <1>0 DEF SortingInv, SortInv
<1>4. /\ home' \in Seq(Slot) /\ Len(home') = Len(home)
      /\ op = "sort" /\ HasHoles =>
           \A x \in Slot : Count(home', Len(given), x) = Count(given, Len(given), x)
  <2>1. CASE op = "sort" /\ HasHoles BY <1>0, <1>1, <1>3, <2>1, CopiedBackKeeps
  <2>2. CASE ~(op = "sort" /\ HasHoles) BY <1>0, <1>1, <2>2
  <2> QED BY <2>1, <2>2
<1>5. Typed' BY <1>0, <1>4 DEF SortingInv, Typed
<1>6. SetAside(Len(given))' <=> SetAside(Len(given)) BY <1>0 DEF SetAside
<1>7. op # "sort" \/ ~HasHoles => home' = home BY <1>0
<1>8. SortInv' BY <1>0, <1>2, <1>3, <1>6, <1>7 DEF SortingInv, SortInv
<1>9. SortKeepsElements' BY <1>0, <1>2, <1>4, <1>8 DEF SortInv, SortKeepsElements
<1> QED BY <1>0, <1>5, <1>8, <1>9 DEF SortingInv, IdleInv, CollectInv

LEMMA ForgetInv ==
  ASSUME Forget
  PROVE  SortingInv'
<1>1. SortInit' BY DEF Forget, SortInit
<1>2. (SortInit => SortingInv)' BY SortingInit, PTL
<1> QED BY <1>1, <1>2

LEMMA StutterInv ==
  ASSUME SortingInv, UNCHANGED sortVars
  PROVE  SortingInv'
<1> USE DEF sortVars
<1>1. Typed' BY DEF SortingInv, Typed
<1>2. IdleInv' /\ CollectInv' BY DEF SortingInv, IdleInv, CollectInv, Untouched, SetAside
<1>3. SortInv' /\ SortKeepsElements'
  BY DEF SortingInv, SortInv, SortKeepsElements, SetAside, HasHoles
<1> QED BY <1>1, <1>2, <1>3 DEF SortingInv

---------------------------------------------------------------------------
\* sort and toSorted neither lose nor repeat an element, for arrays of any length:
\* however the comparator answers, at whatever call it throws, and, while a copy is
\* sorted, whatever it writes to the array.
THEOREM SortedKeepElements == SortSpec => []SortKeepsElements
<1>1. SortInit => SortingInv BY SortingInit
<1>2. ASSUME SortingInv, [SortNext]_sortVars PROVE SortingInv'
  <2> USE <1>2
  <2>1. ASSUME NEW method \in {"sort", "toSorted"}, NEW items \in Inputs, Begin(method, items)
        PROVE  SortingInv'
    BY <2>1, BeginInv
  <2>2. CASE Collect BY <2>2, CollectStep
  <2>3. ASSUME NEW i \in 1..Len(Sorted), NEW j \in 1..Len(Sorted), Call(i, j) PROVE SortingInv'
    BY <2>3, CallingInv
  <2>4. ASSUME NEW i \in 1..Len(Sorted), NEW j \in 1..Len(Sorted), Swap(i, j) PROVE SortingInv'
    BY <2>4, SwapInv
  <2>5. ASSUME NEW throws \in BOOLEAN, Return(throws) PROVE SortingInv'
    BY <2>5, CallingInv
  <2>6. ASSUME \/ \E i \in 1..length, v \in Slot : Store(i, v)
               \/ \E n \in 0..length : Shorten(n)
               \/ \E v \in Slot : Push(v)
               \/ Move
        PROVE  SortingInv'
    BY <2>6, ChangesInv
  <2>7. CASE End BY <2>7, EndInv
  <2>8. CASE Forget BY <2>8, ForgetInv
  <2>9. CASE UNCHANGED sortVars BY <2>9, StutterInv
  <2> QED BY <2>1, <2>2, <2>3, <2>4, <2>5, <2>6, <2>7, <2>8, <2>9 DEF SortNext
<1>3. SortingInv => SortKeepsElements BY DEF SortingInv
<1> QED BY <1>1, <1>2, <1>3, PTL DEF SortSpec
=============================================================================
