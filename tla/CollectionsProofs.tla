------------------------- MODULE CollectionsProofs -------------------------
(* Theorems about Collections: for any keys, values, walks and limit.      *)
EXTENDS Collections, FiniteSetTheorems, TLAPS

\* The operations by their effect on the slots, and the steps of a walk.
Inserts == \E k \in EntryKey, v \in EntryValue : ~Has(k) /\ ~Full /\ Insert(k, v)
Updates == \E k \in EntryKey, v \in EntryValue : Has(k) /\ Update(k, v)
Removes == \E k \in EntryKey : Has(k) /\ Remove(k)

LEMMA StepCases ==
  ASSUME [Step]_collectionVars
  PROVE  \/ Inserts /\ UNCHANGED walks
         \/ Updates /\ UNCHANGED walks
         \/ Removes /\ UNCHANGED walks
         \/ Clear
         \/ UNCHANGED <<slots, walks>>
         \/ \E w \in Walker : (Walk(w) \/ NextEntry(w) \/ Leave(w)) /\ UNCHANGED slots
<1>1. CASE UNCHANGED collectionVars BY <1>1 DEF collectionVars
<1>2. ASSUME NEW k \in EntryKey, Get(k) PROVE UNCHANGED <<slots, walks>>
  BY <1>2 DEF Get
<1>3. ASSUME NEW k \in EntryKey, Delete(k)
      PROVE  UNCHANGED walks /\ (Removes \/ UNCHANGED slots)
  BY <1>3 DEF Delete, Removes
<1>4. ASSUME NEW k \in EntryKey, NEW v \in EntryValue, Set(k, v)
      PROVE  UNCHANGED walks /\ (Inserts \/ Updates \/ UNCHANGED slots)
  BY <1>4 DEF Set, Inserts, Updates
<1>5. ASSUME NEW w \in Walker, Walk(w) \/ NextEntry(w) \/ Leave(w)
      PROVE  UNCHANGED slots
  BY <1>5 DEF Walk, NextEntry, Leave
<1> QED BY <1>1, <1>2, <1>3, <1>4, <1>5 DEF Step, Operation

\* NormKey tells apart what SameValueZero does, NaN included.
LEMMA NormSame ==
  ASSUME NEW a \in EntryKey, NEW b \in EntryKey
  PROVE  /\ NormKey(a) = NormKey(b) <=> a = b \/ {a, b} = {PosZero, NegZero}
         /\ Stored(a) \in EntryKey /\ NormKey(Stored(a)) = NormKey(a)
  BY KeyAssumption DEF NormKey, Stored

LEMMA SeqFunction ==
  ASSUME NEW S, NEW n \in Nat, NEW f \in [1..n -> S]
  PROVE  f \in Seq(S) /\ Len(f) = n /\ DOMAIN f = 1..n
  OBVIOUS

LEMMA Appended ==
  ASSUME NEW S, NEW s \in Seq(S), NEW e \in S
  PROVE  /\ \A i \in 1..Len(s) : Append(s, e)[i] = s[i]
         /\ Append(s, e)[Len(s) + 1] = e
  OBVIOUS

\* Overwriting one element.
LEMMA Overwrite ==
  ASSUME NEW S, NEW s \in Seq(S), NEW x \in S, NEW i
  PROVE  /\ [s EXCEPT ![i] = x] \in Seq(S)
         /\ Len([s EXCEPT ![i] = x]) = Len(s)
         /\ DOMAIN [s EXCEPT ![i] = x] = DOMAIN s
<1>1. Len(s) \in Nat /\ s \in [1..Len(s) -> S] /\ DOMAIN s = 1..Len(s) OBVIOUS
<1>2. [s EXCEPT ![i] = x] \in [1..Len(s) -> S] BY <1>1
<1> QED BY <1>1, <1>2, SeqFunction

---------------------------------------------------------------------------
(* Types.                                                                  *)

SlotsOK ==
  /\ keys \in Seq(EntryKey) /\ vals \in Seq(EntryValue) /\ dead \in Seq(BOOLEAN)
  /\ Len(keys) <= MaxItems /\ Len(vals) = Len(keys) /\ Len(dead) = Len(keys)
  /\ DOMAIN index \subseteq {NormKey(k) : k \in EntryKey}
  /\ \A nk \in DOMAIN index : index[nk] \in DOMAIN keys

WalksOK ==
  /\ kind \in [Walker -> {"none", "iterator", "forEach"}]
  /\ pos \in [Walker -> 1..(MaxItems + 1)]
  /\ mark \in [Walker -> 1..(MaxItems + 1)]
  /\ over \in [Walker -> BOOLEAN]

LEMMA InsertTyped ==
  ASSUME SlotsOK, Inserts
  PROVE  SlotsOK'
<1>1. PICK k \in EntryKey, v \in EntryValue : ~Full /\ Insert(k, v) BY DEF Inserts
<1>2. Stored(k) \in EntryKey BY NormSame
<1>3. /\ keys' \in Seq(EntryKey) /\ vals' \in Seq(EntryValue) /\ dead' \in Seq(BOOLEAN)
      /\ Len(keys') = Len(keys) + 1 /\ Len(vals') = Len(vals) + 1
      /\ Len(dead') = Len(dead) + 1
  BY <1>1, <1>2 DEF Insert, SlotsOK
<1>4. Len(keys') <= MaxItems BY <1>1, <1>3, KeyAssumption DEF Full, SlotsOK
<1>5. DOMAIN index' = DOMAIN index \cup {NormKey(k)} BY <1>1 DEF Insert
<1>6. DOMAIN keys' = 1..(Len(keys) + 1) /\ DOMAIN keys = 1..Len(keys) /\ Len(keys) \in Nat
  BY <1>3 DEF SlotsOK
<1>7. \A nk \in DOMAIN index' : index'[nk] \in DOMAIN keys'
  BY <1>1, <1>5, <1>6 DEF Insert, SlotsOK
<1> QED BY <1>3, <1>4, <1>5, <1>7 DEF SlotsOK

LEMMA UpdateTyped ==
  ASSUME SlotsOK, Updates
  PROVE  SlotsOK'
<1>1. PICK k \in EntryKey, v \in EntryValue : Update(k, v) BY DEF Updates
<1>2. vals' \in Seq(EntryValue) /\ Len(vals') = Len(vals)
  <2>1. vals \in Seq(EntryValue) /\ vals' = [vals EXCEPT ![SlotOf(k)] = v]
    BY <1>1 DEF Update, SlotsOK
  <2> QED BY <2>1, Overwrite
<1> QED BY <1>1, <1>2 DEF Update, SlotsOK

LEMMA RemoveTyped ==
  ASSUME SlotsOK, Removes
  PROVE  SlotsOK'
<1>1. PICK k \in EntryKey : Remove(k) BY DEF Removes
<1>2. UndefinedValue \in EntryKey /\ UndefinedValue \in EntryValue BY KeyAssumption
<1>3. /\ keys' \in Seq(EntryKey) /\ vals' \in Seq(EntryValue) /\ dead' \in Seq(BOOLEAN)
      /\ Len(keys') = Len(keys) /\ Len(vals') = Len(vals) /\ Len(dead') = Len(dead)
      /\ DOMAIN keys' = DOMAIN keys
  <2>1. /\ keys \in Seq(EntryKey) /\ keys' = [keys EXCEPT ![SlotOf(k)] = UndefinedValue]
        /\ vals \in Seq(EntryValue) /\ vals' = [vals EXCEPT ![SlotOf(k)] = UndefinedValue]
        /\ dead \in Seq(BOOLEAN) /\ dead' = [dead EXCEPT ![SlotOf(k)] = TRUE]
    BY <1>1 DEF Remove, SlotsOK
  <2>2. keys' \in Seq(EntryKey) /\ Len(keys') = Len(keys) /\ DOMAIN keys' = DOMAIN keys
    BY <1>2, <2>1, Overwrite
  <2>3. vals' \in Seq(EntryValue) /\ Len(vals') = Len(vals) BY <1>2, <2>1, Overwrite
  <2>4. dead' \in Seq(BOOLEAN) /\ Len(dead') = Len(dead)
    <3>1. TRUE \in BOOLEAN OBVIOUS
    <3> QED BY <2>1, <3>1, Overwrite
  <2> QED BY <2>2, <2>3, <2>4
<1>4. /\ DOMAIN index' \subseteq DOMAIN index
      /\ \A nk \in DOMAIN index' : index'[nk] = index[nk]
  BY <1>1 DEF Remove
<1> QED BY <1>3, <1>4 DEF SlotsOK

LEMMA ClearTyped ==
  ASSUME SlotsOK, Clear
  PROVE  SlotsOK'
<1>1. UndefinedValue \in EntryKey /\ UndefinedValue \in EntryValue BY KeyAssumption
<1>2. /\ keys' \in Seq(EntryKey) /\ vals' \in Seq(EntryValue) /\ dead' \in Seq(BOOLEAN)
      /\ Len(keys') = Len(keys) /\ Len(vals') = Len(vals) /\ Len(dead') = Len(dead)
  <2>1. /\ keys \in Seq(EntryKey) /\ keys' = [i \in DOMAIN keys |-> UndefinedValue]
        /\ vals \in Seq(EntryValue) /\ vals' = [i \in DOMAIN vals |-> UndefinedValue]
        /\ dead \in Seq(BOOLEAN) /\ dead' = [i \in DOMAIN dead |-> TRUE]
    BY DEF Clear, SlotsOK
  <2>2. keys' \in Seq(EntryKey) /\ Len(keys') = Len(keys)
    <3>1. Len(keys) \in Nat /\ keys' \in [1..Len(keys) -> EntryKey] BY <1>1, <2>1
    <3> QED BY <3>1, SeqFunction
  <2>3. vals' \in Seq(EntryValue) /\ Len(vals') = Len(vals)
    <3>1. Len(vals) \in Nat /\ vals' \in [1..Len(vals) -> EntryValue] BY <1>1, <2>1
    <3> QED BY <3>1, SeqFunction
  <2>4. dead' \in Seq(BOOLEAN) /\ Len(dead') = Len(dead)
    <3>1. Len(dead) \in Nat /\ dead' \in [1..Len(dead) -> BOOLEAN] BY <2>1
    <3> QED BY <3>1, SeqFunction
  <2> QED BY <2>2, <2>3, <2>4
<1>3. DOMAIN index' = {} BY DEF Clear
<1> QED BY <1>2, <1>3 DEF SlotsOK

LEMMA WalkerTyped ==
  ASSUME SlotsOK, WalksOK, NEW w \in Walker, Walk(w) \/ NextEntry(w) \/ Leave(w)
  PROVE  WalksOK'
<1>0. Len(keys) \in 0..MaxItems /\ MaxItems \in Nat BY KeyAssumption DEF SlotsOK
<1>1. CASE Walk(w)
  <2>1. 1 \in 1..(MaxItems + 1) BY <1>0
  <2>2. PICK k \in {"iterator", "forEach"} : kind' = [kind EXCEPT ![w] = k]
    BY <1>1 DEF Walk
  <2> QED BY <1>1, <2>1, <2>2 DEF Walk, WalksOK
<1>2. CASE Leave(w) BY <1>2 DEF Leave, WalksOK
<1>3. ASSUME NEW i \in Slot, Yield(w, i) PROVE WalksOK'
  BY <1>0, <1>3 DEF Yield, After, Slot, WalksOK
<1>4. CASE End(w) BY <1>0, <1>4 DEF End, WalksOK
<1> QED BY <1>1, <1>2, <1>3, <1>4 DEF NextEntry

LEMMA CoreTyped ==
  ASSUME SlotsOK, WalksOK, [Step]_collectionVars
  PROVE  SlotsOK' /\ WalksOK'
<1>1. ASSUME UNCHANGED slots PROVE SlotsOK' BY <1>1 DEF slots, SlotsOK
<1>2. ASSUME UNCHANGED walks PROVE WalksOK' BY <1>2 DEF walks, WalksOK
<1>3. CASE Clear BY <1>2, <1>3, ClearTyped DEF Clear
<1> QED BY <1>1, <1>2, <1>3, StepCases, InsertTyped, UpdateTyped, RemoveTyped, WalkerTyped

---------------------------------------------------------------------------
(* The index and the slots.                                                *)

LEMMA LiveFinite ==
  ASSUME SlotsOK
  PROVE  IsFiniteSet(LiveSlots) /\ Cardinality(LiveSlots) \in Nat
<1>1. LiveSlots \in SUBSET (1..Len(keys)) /\ Len(keys) \in Nat BY DEF LiveSlots, SlotsOK
<1>2. IsFiniteSet(1..Len(keys)) BY <1>1, FS_Interval
<1>3. IsFiniteSet(LiveSlots) BY <1>1, <1>2, FS_Subset
<1> QED BY <1>3, FS_CardinalityType

LEMMA InsertExact ==
  ASSUME SlotsOK, IndexExact, Inserts
  PROVE  IndexExact'
<1> DEFINE n == Len(keys)
<1>1. PICK k \in EntryKey, v \in EntryValue : ~Has(k) /\ Insert(k, v) BY DEF Inserts
<1>2. Stored(k) \in EntryKey /\ NormKey(Stored(k)) = NormKey(k) BY NormSame
<1>3. /\ n \in Nat /\ DOMAIN keys = 1..n /\ DOMAIN keys' = 1..(n + 1)
      /\ \A i \in 1..n : keys'[i] = keys[i] /\ vals'[i] = vals[i] /\ dead'[i] = dead[i]
      /\ keys'[n + 1] = Stored(k) /\ ~dead'[n + 1]
  <2>1. /\ keys \in Seq(EntryKey) /\ vals \in Seq(EntryValue) /\ dead \in Seq(BOOLEAN)
        /\ Len(vals) = n /\ Len(dead) = n /\ n \in Nat
        /\ keys' = Append(keys, Stored(k)) /\ vals' = Append(vals, v)
        /\ dead' = Append(dead, FALSE)
    BY <1>1 DEF Insert, SlotsOK
  <2>2. /\ DOMAIN keys = 1..n /\ DOMAIN keys' = 1..(n + 1)
        /\ \A i \in 1..n : keys'[i] = keys[i]
        /\ keys'[n + 1] = Stored(k)
    BY <1>2, <2>1
  <2>3. \A i \in 1..n : vals'[i] = vals[i] BY <2>1
  <2>4. (\A i \in 1..n : dead'[i] = dead[i]) /\ ~dead'[n + 1]
    <3>1. /\ \A i \in 1..Len(dead) : Append(dead, FALSE)[i] = dead[i]
          /\ Append(dead, FALSE)[Len(dead) + 1] = FALSE
      <4>1. FALSE \in BOOLEAN /\ dead \in Seq(BOOLEAN) BY <2>1
      <4> QED BY <4>1, Appended, Zenon
    <3>2. dead' = Append(dead, FALSE) /\ Len(dead) = n BY <2>1
    <3> QED BY <3>1, <3>2, Zenon
  <2> QED BY <2>1, <2>2, <2>3, <2>4
<1>4. /\ index' = [nk \in DOMAIN index \cup {NormKey(k)} |->
                     IF nk = NormKey(k) THEN n + 1 ELSE index[nk]]
      /\ NormKey(k) \notin DOMAIN index /\ live' = live + 1
  BY <1>1 DEF Insert, Has
<1> HIDE DEF n
<1>5. LiveSlots' = LiveSlots \cup {n + 1} /\ n + 1 \notin LiveSlots
  BY <1>3 DEF LiveSlots
<1>6. \A i \in LiveSlots : i \in 1..n /\ keys'[i] = keys[i] /\ NormKey(keys[i]) # NormKey(k)
  BY <1>3, <1>4 DEF LiveSlots, IndexExact
<1>7. DOMAIN index' = {NormKey(keys'[i]) : i \in LiveSlots'}
  <2>1. {NormKey(keys'[i]) : i \in LiveSlots'} =
          {NormKey(keys[i]) : i \in LiveSlots} \cup {NormKey(k)}
    BY <1>2, <1>3, <1>5, <1>6
  <2> QED BY <1>4, <2>1 DEF IndexExact
<1>8. \A nk \in DOMAIN index' : index'[nk] \in LiveSlots' /\ NormKey(keys'[index'[nk]]) = nk
  <2>1. ASSUME NEW nk \in DOMAIN index', nk # NormKey(k)
        PROVE  index'[nk] \in LiveSlots' /\ NormKey(keys'[index'[nk]]) = nk
    <3>1. nk \in DOMAIN index /\ index'[nk] = index[nk] BY <1>4, <2>1
    <3>2. index[nk] \in LiveSlots /\ NormKey(keys[index[nk]]) = nk BY <3>1 DEF IndexExact
    <3> QED BY <1>5, <1>6, <3>1, <3>2
  <2>2. index'[NormKey(k)] = n + 1 BY <1>4
  <2> QED BY <1>2, <1>3, <1>5, <2>1, <2>2
<1>9. \A i \in LiveSlots' : index'[NormKey(keys'[i])] = i
  <2>1. ASSUME NEW i \in LiveSlots PROVE index'[NormKey(keys'[i])] = i
    <3>1. NormKey(keys[i]) \in DOMAIN index /\ index[NormKey(keys[i])] = i
      BY DEF IndexExact
    <3> QED BY <1>4, <1>6, <3>1
  <2>2. index'[NormKey(keys'[n + 1])] = n + 1 BY <1>2, <1>3, <1>4
  <2> QED BY <1>5, <2>1, <2>2
<1>10. live' = Cardinality(LiveSlots')
  BY <1>4, <1>5, LiveFinite, FS_AddElement DEF IndexExact
<1>11. \A i \in DOMAIN keys' \ LiveSlots' : keys'[i] = UndefinedValue /\ vals'[i] = UndefinedValue
  <2>1. ASSUME NEW i \in DOMAIN keys' \ LiveSlots' PROVE i \in DOMAIN keys \ LiveSlots /\ i \in 1..n
    BY <1>3, <1>5
  <2> QED BY <1>3, <2>1 DEF IndexExact
<1> QED BY <1>7, <1>8, <1>9, <1>10, <1>11 DEF IndexExact

LEMMA UpdateExact ==
  ASSUME SlotsOK, IndexExact, Updates
  PROVE  IndexExact'
<1>1. PICK k \in EntryKey, v \in EntryValue : Has(k) /\ Update(k, v) BY DEF Updates
<1>2. SlotOf(k) \in LiveSlots BY <1>1 DEF Has, SlotOf, IndexExact
<1>3. UNCHANGED <<keys, dead, index, live>> /\ LiveSlots' = LiveSlots
  BY <1>1 DEF Update, LiveSlots
<1>4. \A i \in DOMAIN keys \ LiveSlots : vals'[i] = vals[i]
  BY <1>1, <1>2 DEF Update, SlotsOK
<1> QED BY <1>3, <1>4 DEF IndexExact

LEMMA RemoveExact ==
  ASSUME SlotsOK, IndexExact, Removes
  PROVE  IndexExact'
<1>1. PICK k \in EntryKey : Has(k) /\ Remove(k) BY DEF Removes
<1> DEFINE j == SlotOf(k)
<1>2. j \in LiveSlots /\ NormKey(keys[j]) = NormKey(k) /\ j \in DOMAIN keys
  BY <1>1 DEF Has, SlotOf, IndexExact, LiveSlots
<1>3. /\ DOMAIN keys' = DOMAIN keys
      /\ \A i \in DOMAIN keys \ {j} :
           keys'[i] = keys[i] /\ vals'[i] = vals[i] /\ dead'[i] = dead[i]
      /\ keys'[j] = UndefinedValue /\ vals'[j] = UndefinedValue /\ dead'[j]
  BY <1>1, <1>2 DEF Remove, SlotsOK
<1>4. /\ index' = [nk \in DOMAIN index \ {NormKey(k)} |-> index[nk]]
      /\ live' = live - 1
  BY <1>1 DEF Remove
<1> HIDE DEF j
<1>5. LiveSlots' = LiveSlots \ {j} BY <1>2, <1>3 DEF LiveSlots
<1>6. \A i \in LiveSlots \ {j} : keys'[i] = keys[i] /\ NormKey(keys[i]) # NormKey(k)
  <2>1. ASSUME NEW i \in LiveSlots \ {j} PROVE keys'[i] = keys[i]
    BY <1>3 DEF LiveSlots
  <2>2. ASSUME NEW i \in LiveSlots \ {j} PROVE NormKey(keys[i]) # NormKey(keys[j])
    <3>1. index[NormKey(keys[i])] = i /\ index[NormKey(keys[j])] = j
      BY <1>2 DEF IndexExact
    <3> QED BY <3>1
  <2> QED BY <1>2, <2>1, <2>2
<1>7. DOMAIN index' = {NormKey(keys'[i]) : i \in LiveSlots'}
  <2>1. {NormKey(keys'[i]) : i \in LiveSlots'} = {NormKey(keys[i]) : i \in LiveSlots \ {j}}
    BY <1>5, <1>6
  <2>2. {NormKey(keys[i]) : i \in LiveSlots \ {j}} =
          {NormKey(keys[i]) : i \in LiveSlots} \ {NormKey(k)}
    BY <1>2, <1>6
  <2> QED BY <1>4, <2>1, <2>2 DEF IndexExact
<1>8. ASSUME NEW nk \in DOMAIN index'
      PROVE  index'[nk] \in LiveSlots' /\ NormKey(keys'[index'[nk]]) = nk
  <2>1. nk \in DOMAIN index /\ nk # NormKey(k) /\ index'[nk] = index[nk] BY <1>4
  <2>2. index[nk] \in LiveSlots /\ NormKey(keys[index[nk]]) = nk BY <2>1 DEF IndexExact
  <2>3. index[nk] # j BY <1>2, <2>1, <2>2
  <2> QED BY <1>5, <1>6, <2>1, <2>2, <2>3
<1>9. ASSUME NEW i \in LiveSlots' PROVE index'[NormKey(keys'[i])] = i
  <2>1. i \in LiveSlots \ {j} /\ keys'[i] = keys[i] /\ NormKey(keys[i]) # NormKey(k)
    BY <1>5, <1>6
  <2>2. NormKey(keys[i]) \in DOMAIN index /\ index[NormKey(keys[i])] = i
    BY <2>1 DEF IndexExact
  <2> QED BY <1>4, <2>1, <2>2
<1>10. live' = Cardinality(LiveSlots')
  BY <1>2, <1>4, <1>5, LiveFinite, FS_RemoveElement DEF IndexExact
<1>11. \A i \in DOMAIN keys' \ LiveSlots' : keys'[i] = UndefinedValue /\ vals'[i] = UndefinedValue
  BY <1>3, <1>5 DEF IndexExact
<1> QED BY <1>7, <1>8, <1>9, <1>10, <1>11 DEF IndexExact

LEMMA ClearExact ==
  ASSUME SlotsOK, IndexExact, Clear
  PROVE  IndexExact'
<1>1. /\ DOMAIN keys = 1..Len(keys) /\ DOMAIN vals = DOMAIN keys /\ DOMAIN dead = DOMAIN keys
  BY DEF SlotsOK
<1>2. LiveSlots' = {} /\ DOMAIN index' = {} /\ live' = 0
  BY <1>1 DEF Clear, LiveSlots
<1>3. \A i \in DOMAIN keys' : keys'[i] = UndefinedValue /\ vals'[i] = UndefinedValue
  BY <1>1 DEF Clear
<1> QED BY <1>2, <1>3, FS_EmptySet DEF IndexExact

LEMMA ExactStep ==
  ASSUME SlotsOK, IndexExact, [Step]_collectionVars
  PROVE  IndexExact'
<1>1. ASSUME UNCHANGED slots PROVE IndexExact'
  BY <1>1 DEF slots, IndexExact, LiveSlots
<1> QED BY <1>1, StepCases, InsertExact, UpdateExact, RemoveExact, ClearExact

\* The invariant the theorems rest on.
Core == SlotsOK /\ WalksOK /\ IndexExact

LEMMA InitCore == CollectionInit => Core
<1> SUFFICES ASSUME CollectionInit PROVE Core OBVIOUS
<1>1. LiveSlots = {} BY DEF CollectionInit, LiveSlots
<1>2. SlotsOK BY KeyAssumption DEF CollectionInit, SlotsOK
<1>3. WalksOK BY KeyAssumption DEF CollectionInit, WalksOK
<1>4. IndexExact BY <1>1, FS_EmptySet DEF CollectionInit, IndexExact
<1> QED BY <1>2, <1>3, <1>4 DEF Core

THEOREM CoreInvariant == CollectionSpec => []Core
<1>1. Core /\ [Step]_collectionVars => Core' BY CoreTyped, ExactStep DEF Core
<1> QED BY <1>1, InitCore, PTL DEF CollectionSpec

\* Slots, index, size and walks keep their types, whatever is done.
THEOREM TypeCorrect == CollectionSpec => []TypeOK
<1>1. Core => TypeOK
  BY LiveFinite DEF Core, SlotsOK, WalksOK, IndexExact, TypeOK
<1> QED BY <1>1, CoreInvariant, PTL

\* The index and size say exactly what the slots hold.
THEOREM IndexIsExact == CollectionSpec => []IndexExact
<1>1. Core => IndexExact BY DEF Core
<1> QED BY <1>1, CoreInvariant, PTL

---------------------------------------------------------------------------
(* The slots implement the ordered map.                                    *)

\* What a walk has stepped over stays dead, so that the slot it looks at next
\* and the one after its last entry have the same live slots ahead.
WalkInv ==
  \A w \in Walker :
    /\ mark[w] <= pos[w] /\ pos[w] <= Len(keys) + 1
    /\ \A j \in LiveSlots : j < mark[w] \/ j >= pos[w]

LEMMA InitWalk == CollectionInit => WalkInv
  BY DEF CollectionInit, WalkInv, LiveSlots

LEMMA SlotsKeepWalks ==
  ASSUME WalksOK, WalkInv, UNCHANGED walks,
         Len(keys) \in Nat, Len(keys') \in Nat, Len(keys') >= Len(keys),
         \A j \in LiveSlots' : j \in LiveSlots \/ j = Len(keys) + 1
  PROVE  WalkInv'
  BY DEF WalksOK, WalkInv, walks

LEMMA WalkStep ==
  ASSUME Core, WalkInv, [Step]_collectionVars
  PROVE  WalkInv'
<1>0. Len(keys) \in Nat /\ SlotsOK /\ WalksOK /\ IndexExact BY DEF Core, SlotsOK
<1>1. CASE Inserts /\ UNCHANGED walks
  <2>1. PICK k \in EntryKey, v \in EntryValue : Insert(k, v) BY <1>1 DEF Inserts
  <2>2. Stored(k) \in EntryKey BY NormSame
  <2>3. Len(keys') = Len(keys) + 1 BY <1>0, <2>1, <2>2 DEF Insert, SlotsOK
  <2>4. \A j \in LiveSlots' : j \in LiveSlots \/ j = Len(keys) + 1
    <3>1. ASSUME NEW j \in LiveSlots', j # Len(keys) + 1 PROVE j \in LiveSlots
      <4>1. /\ dead \in Seq(BOOLEAN) /\ dead' = Append(dead, FALSE)
            /\ Len(dead) = Len(keys) /\ FALSE \in BOOLEAN
        BY <1>0, <2>1 DEF Insert, SlotsOK
      <4>2. \A i \in 1..Len(dead) : Append(dead, FALSE)[i] = dead[i]
        BY <4>1, Appended, Zenon
      <4>3. j \in 1..Len(keys) /\ ~dead'[j]
        BY <1>0, <2>1, <2>2, <2>3, <3>1 DEF LiveSlots, Insert, SlotsOK
      <4>4. dead'[j] = dead[j] BY <4>1, <4>2, <4>3
      <4> QED BY <1>0, <4>3, <4>4 DEF LiveSlots, SlotsOK
    <3> QED BY <3>1
  <2> QED BY <1>0, <1>1, <2>3, <2>4, SlotsKeepWalks
<1>2. CASE Updates /\ UNCHANGED walks
  <2>1. UNCHANGED <<keys, dead>> BY <1>2 DEF Updates, Update
  <2>2. LiveSlots' = LiveSlots BY <2>1 DEF LiveSlots
  <2> QED BY <1>0, <1>2, <2>1, <2>2, SlotsKeepWalks
<1>3. CASE Removes /\ UNCHANGED walks
  <2>1. PICK k \in EntryKey : Remove(k) BY <1>3 DEF Removes
  <2>2. keys \in Seq(EntryKey) /\ UndefinedValue \in EntryKey /\ keys' = [keys EXCEPT ![SlotOf(k)] = UndefinedValue]
    BY <1>0, <2>1, KeyAssumption DEF Remove, SlotsOK
  <2>3. Len(keys') = Len(keys) /\ DOMAIN keys' = DOMAIN keys BY <2>2, Overwrite
  <2>4. LiveSlots' \subseteq LiveSlots
    BY <1>0, <2>1, <2>3 DEF Remove, LiveSlots, SlotsOK
  <2> QED BY <1>0, <1>3, <2>3, <2>4, SlotsKeepWalks
<1>4. CASE Clear
  <2>1. LiveSlots' = {} /\ UNCHANGED walks
    BY <1>0, <1>4 DEF Clear, LiveSlots, SlotsOK
  <2>2. Len(keys) \in Nat /\ keys' = [i \in 1..Len(keys) |-> UndefinedValue] BY <1>0, <1>4 DEF Clear, SlotsOK
  <2>3. Len(keys') = Len(keys) BY <2>2
  <2> QED BY <1>0, <2>1, <2>3, SlotsKeepWalks
<1>5. CASE UNCHANGED <<slots, walks>>
  BY <1>5 DEF slots, walks, WalkInv, LiveSlots
<1>6. ASSUME NEW w \in Walker, Walk(w) \/ NextEntry(w) \/ Leave(w), UNCHANGED slots
      PROVE  WalkInv'
  <2>1. LiveSlots' = LiveSlots /\ keys' = keys BY <1>6 DEF slots, LiveSlots
  <2>2. CASE Walk(w)
    <3>1. /\ pos' = [pos EXCEPT ![w] = 1] /\ mark' = [mark EXCEPT ![w] = 1]
      BY <2>2 DEF Walk
    <3>2. \A j \in LiveSlots : j \in Nat /\ j >= 1 BY <1>0 DEF LiveSlots, SlotsOK
    <3> QED BY <1>0, <2>1, <3>1, <3>2 DEF WalkInv, WalksOK
  <2>3. CASE Leave(w) BY <2>1, <2>3 DEF Leave, WalkInv
  <2>4. ASSUME NEW i \in Slot, Yield(w, i) PROVE WalkInv'
    <3>1. /\ i \in Nat /\ i <= Len(keys)
          /\ pos' = [pos EXCEPT ![w] = i + 1] /\ mark' = [mark EXCEPT ![w] = i + 1]
      BY <1>0, <2>4 DEF Yield, After, Slot, WalksOK
    <3>2. \A j \in LiveSlots : j \in Nat BY <1>0 DEF LiveSlots, SlotsOK
    <3> QED BY <1>0, <2>1, <3>1, <3>2 DEF WalkInv, WalksOK
  <2>5. CASE End(w)
    <3>1. /\ pos' = [pos EXCEPT ![w] = Len(keys) + 1] /\ mark' = mark
          /\ \A j \in pos[w]..Len(keys) : dead[j]
      BY <2>5 DEF End, Yields
    <3>2. \A j \in LiveSlots : j \in 1..Len(keys) /\ ~dead[j] BY <1>0 DEF LiveSlots, SlotsOK
    <3>3. \A j \in LiveSlots : j < mark[w]
      BY <1>0, <3>1, <3>2 DEF WalkInv, WalksOK
    <3> QED BY <1>0, <2>1, <3>1, <3>2, <3>3 DEF WalkInv, WalksOK
  <2> QED BY <1>6, <2>2, <2>3, <2>4, <2>5 DEF NextEntry
<1> QED BY <1>1, <1>2, <1>3, <1>4, <1>5, <1>6, StepCases

EntryAt(i) == [stamp |-> i, key |-> keys[i], value |-> vals[i]]
Entries == {EntryAt(i) : i \in LiveSlots}

\* The index finds the entry SameValueZero finds.
LEMMA FoundByIndex ==
  ASSUME Core, NEW k \in EntryKey
  PROVE  Ordered!Found(k) = IF Has(k) THEN {EntryAt(SlotOf(k))} ELSE {}
<1>1. \A i \in LiveSlots : keys[i] \in EntryKey BY DEF Core, SlotsOK, LiveSlots
<1>2. ASSUME NEW i \in LiveSlots
      PROVE  Ordered!SameValueZero(keys[i], k) <=> NormKey(keys[i]) = NormKey(k)
  BY <1>1, NormSame DEF Ordered!SameValueZero
<1>3. ASSUME NEW i \in LiveSlots
      PROVE  NormKey(keys[i]) = NormKey(k) <=> Has(k) /\ i = SlotOf(k)
  BY DEF Core, IndexExact, Has, SlotOf
<1>4. Has(k) => SlotOf(k) \in LiveSlots BY DEF Core, IndexExact, Has, SlotOf
<1>5. Ordered!Found(k) = {e \in Entries : Ordered!SameValueZero(e.key, k)}
  BY DEF Ordered!Found, Entries, EntryAt
<1>6. \A i \in LiveSlots : EntryAt(i).key = keys[i] BY DEF EntryAt
<1>7. Ordered!Found(k) = {EntryAt(i) : i \in {j \in LiveSlots : Has(k) /\ j = SlotOf(k)}}
  BY <1>2, <1>3, <1>5, <1>6 DEF Entries
<1> QED BY <1>4, <1>7

LEMMA RefineInit == CollectionInit => Ordered!Init
  BY DEF CollectionInit, Ordered!Init, LiveSlots

LEMMA RefineInsert ==
  ASSUME Core, NEW k \in EntryKey, NEW v \in EntryValue, ~Has(k), ~Full, Insert(k, v),
         answer' = <<"ok">>, UNCHANGED walks
  PROVE  Ordered!Set(k, v)
<1> DEFINE n == Len(keys)
<1>1. Ordered!Found(k) = {} BY FoundByIndex
<1>2. /\ keys \in Seq(EntryKey) /\ vals \in Seq(EntryValue) /\ dead \in Seq(BOOLEAN)
      /\ Len(vals) = n /\ Len(dead) = n /\ n \in Nat
      /\ keys' = Append(keys, Stored(k)) /\ vals' = Append(vals, v)
      /\ dead' = Append(dead, FALSE) /\ Stored(k) \in EntryKey
  BY NormSame DEF Core, SlotsOK, Insert
<1>3. n < MaxItems BY <1>2, KeyAssumption DEF Full
<1>4. /\ Len(keys') = n + 1
      /\ DOMAIN keys' = 1..(n + 1) /\ DOMAIN keys = 1..n
      /\ \A i \in 1..n : keys'[i] = keys[i]
      /\ keys'[n + 1] = Stored(k)
  BY <1>2
<1>5. (\A i \in 1..n : vals'[i] = vals[i]) /\ vals'[n + 1] = v BY <1>2
<1>6. (\A i \in 1..n : dead'[i] = dead[i]) /\ dead'[n + 1] = FALSE
  <2>1. FALSE \in BOOLEAN OBVIOUS
  <2>2. /\ \A i \in 1..Len(dead) : Append(dead, FALSE)[i] = dead[i]
        /\ Append(dead, FALSE)[Len(dead) + 1] = FALSE
    BY <1>2, <2>1, Appended, Zenon
  <2>3. dead' = Append(dead, FALSE) /\ Len(dead) = n BY <1>2
  <2> QED BY <2>2, <2>3, Zenon
<1> HIDE DEF n
<1>7. LiveSlots' = LiveSlots \cup {n + 1} BY <1>2, <1>4, <1>6 DEF LiveSlots
<1>8. {[stamp |-> i, key |-> keys'[i], value |-> vals'[i]] : i \in LiveSlots'} =
        Entries \cup {[stamp |-> n + 1, key |-> Stored(k), value |-> v]}
  <2>1. \A i \in LiveSlots : i \in 1..n BY <1>4 DEF LiveSlots
  <2>2. \A i \in LiveSlots : [stamp |-> i, key |-> keys'[i], value |-> vals'[i]] = EntryAt(i)
    BY <1>4, <1>5, <2>1 DEF EntryAt
  <2> QED BY <1>4, <1>5, <1>7, <2>2 DEF Entries
<1>9. UNCHANGED mark BY DEF walks
<1>10. n = Len(keys) BY DEF n
<1> QED BY <1>1, <1>3, <1>4, <1>8, <1>9, <1>10 DEF Ordered!Set, Entries, EntryAt, Stored

LEMMA RefineUpdate ==
  ASSUME Core, NEW k \in EntryKey, NEW v \in EntryValue, Has(k), Update(k, v),
         answer' = <<"ok">>, UNCHANGED walks
  PROVE  Ordered!Set(k, v)
<1> DEFINE j == SlotOf(k)
<1>1. Ordered!Found(k) = {EntryAt(j)} BY FoundByIndex
<1>2. j \in LiveSlots /\ j \in DOMAIN vals
  BY DEF Core, IndexExact, Has, SlotOf, SlotsOK, LiveSlots
<1>3. /\ UNCHANGED <<keys, dead>> /\ LiveSlots' = LiveSlots
      /\ vals' = [vals EXCEPT ![j] = v]
  BY DEF Update, LiveSlots
<1> HIDE DEF j
<1>4. ASSUME NEW i \in LiveSlots
      PROVE  [stamp |-> i, key |-> keys'[i], value |-> vals'[i]] =
               IF EntryAt(i) \in Ordered!Found(k)
               THEN [EntryAt(i) EXCEPT !.value = v] ELSE EntryAt(i)
  <2>1. i \in DOMAIN vals BY DEF Core, SlotsOK, LiveSlots
  <2>2. EntryAt(i) \in Ordered!Found(k) <=> i = j BY <1>1 DEF EntryAt
  <2> QED BY <1>2, <1>3, <2>1, <2>2 DEF EntryAt
<1>5. {[stamp |-> i, key |-> keys'[i], value |-> vals'[i]] : i \in LiveSlots'} =
        {IF e \in Ordered!Found(k) THEN [e EXCEPT !.value = v] ELSE e : e \in Entries}
  BY <1>3, <1>4 DEF Entries
<1>6. UNCHANGED mark /\ Len(keys') = Len(keys) BY <1>3 DEF walks
<1> QED BY <1>1, <1>5, <1>6 DEF Ordered!Set, Entries, EntryAt

LEMMA RefineDelete ==
  ASSUME Core, NEW k \in EntryKey, Delete(k)
  PROVE  Ordered!Delete(k)
<1>1. CASE ~Has(k)
  <2>1. Ordered!Found(k) = {} BY <1>1, FoundByIndex
  <2>2. UNCHANGED <<keys, vals, dead, mark>> /\ LiveSlots' = LiveSlots /\ answer' = <<"no">>
    BY <1>1 DEF Delete, slots, walks, LiveSlots
  <2> QED BY <2>1, <2>2 DEF Ordered!Delete
<1>2. CASE Has(k)
  <2> DEFINE j == SlotOf(k)
  <2>1. Ordered!Found(k) = {EntryAt(j)} BY <1>2, FoundByIndex
  <2>2. /\ keys' = [keys EXCEPT ![j] = UndefinedValue]
        /\ vals' = [vals EXCEPT ![j] = UndefinedValue]
        /\ dead' = [dead EXCEPT ![j] = TRUE]
        /\ answer' = <<"yes">> /\ mark' = mark
    BY <1>2 DEF Delete, Remove, walks
  <2>3. keys \in Seq(EntryKey) /\ vals \in Seq(EntryValue) /\ dead \in Seq(BOOLEAN)
        /\ Len(vals) = Len(keys) /\ Len(dead) = Len(keys)
        /\ j \in LiveSlots /\ j \in DOMAIN keys
    BY <1>2 DEF Core, SlotsOK, IndexExact, Has, SlotOf, LiveSlots
  <2> HIDE DEF j
  <2>4. Len(keys') = Len(keys) /\ DOMAIN keys' = DOMAIN keys
    <3>1. UndefinedValue \in EntryKey BY KeyAssumption
    <3> QED BY <2>2, <2>3, <3>1, Overwrite
  <2>5. LiveSlots' = LiveSlots \ {j} BY <2>2, <2>3, <2>4 DEF LiveSlots
  <2>6. \A i \in LiveSlots \ {j} :
          [stamp |-> i, key |-> keys'[i], value |-> vals'[i]] = EntryAt(i)
    BY <2>2, <2>3 DEF EntryAt, LiveSlots
  <2>7. {[stamp |-> i, key |-> keys'[i], value |-> vals'[i]] : i \in LiveSlots'} =
          {EntryAt(i) : i \in LiveSlots \ {j}}
    BY <2>5, <2>6
  <2>8. {EntryAt(i) : i \in LiveSlots \ {j}} = Entries \ {EntryAt(j)}
    BY DEF Entries, EntryAt
  <2>9. Ordered!Found(k) # {} BY <2>1
  <2> QED BY <2>1, <2>2, <2>4, <2>7, <2>8, <2>9 DEF Ordered!Delete, Entries, EntryAt
<1> QED BY <1>1, <1>2

LEMMA RefineClear ==
  ASSUME Core, Clear
  PROVE  Ordered!Clear
<1>1. LiveSlots' = {} /\ mark' = mark /\ answer' = <<"ok">>
  BY DEF Core, SlotsOK, Clear, LiveSlots, walks
<1>2. Len(keys) \in Nat /\ keys' = [i \in 1..Len(keys) |-> UndefinedValue] BY DEF Core, SlotsOK, Clear
<1>3. Len(keys') = Len(keys) BY <1>2
<1> QED BY <1>1, <1>3 DEF Ordered!Clear

LEMMA RefineGet ==
  ASSUME Core, NEW k \in EntryKey, Get(k)
  PROVE  Ordered!Get(k)
<1>1. UNCHANGED <<keys, vals, dead, mark>> /\ LiveSlots' = LiveSlots
  BY DEF Get, slots, walks, LiveSlots
<1>2. CASE ~Has(k)
  <2>1. Ordered!Found(k) = {} /\ answer' = <<"no", UndefinedValue>>
    BY <1>2, FoundByIndex DEF Get
  <2> QED BY <1>1, <2>1 DEF Ordered!Get
<1>3. CASE Has(k)
  <2>1. /\ EntryAt(SlotOf(k)) \in Ordered!Found(k)
        /\ EntryAt(SlotOf(k)).value = vals[SlotOf(k)]
    BY <1>3, FoundByIndex DEF EntryAt
  <2>2. answer' = <<"yes", vals[SlotOf(k)]>> BY <1>3 DEF Get
  <2> QED BY <1>1, <2>1, <2>2 DEF Ordered!Get
<1> QED BY <1>2, <1>3

LEMMA RefineNext ==
  ASSUME Core, WalkInv, NEW w \in Walker, NextEntry(w)
  PROVE  Ordered!Next(w)
<1> DEFINE ahead == {e \in Entries : e.stamp >= mark[w]}
<1>1. UNCHANGED <<keys, vals, dead>> /\ LiveSlots' = LiveSlots BY DEF NextEntry, slots, LiveSlots
<1>2. Len(keys) \in Nat /\ mark[w] \in Nat /\ pos[w] \in Nat /\ mark[w] <= pos[w]
  BY DEF Core, SlotsOK, WalksOK, WalkInv
<1>3. \A i \in LiveSlots : i \in 1..Len(keys) /\ ~dead[i] /\ EntryAt(i).stamp = i
  BY DEF Core, SlotsOK, LiveSlots, EntryAt
<1>4. \A i \in LiveSlots : i >= mark[w] <=> i >= pos[w]
  BY <1>2, <1>3 DEF WalkInv
<1>5. ASSUME NEW i \in Slot, Yield(w, i) PROVE Ordered!Next(w)
  <2>1. /\ i \in pos[w]..Len(keys) /\ ~dead[i]
        /\ \A j \in pos[w]..(i - 1) : dead[j]
        /\ mark' = [mark EXCEPT ![w] = i + 1]
        /\ answer' = <<"entry", keys[i], vals[i]>>
    BY <1>5 DEF Yield, Yields, After
  <2>2. i \in LiveSlots
    BY <1>2, <2>1 DEF LiveSlots, Core, SlotsOK, WalksOK
  <2>3. EntryAt(i) \in ahead BY <1>2, <1>3, <1>4, <2>1, <2>2 DEF Entries
  <2>4. \A f \in ahead : i <= f.stamp
    <3>1. ASSUME NEW m \in LiveSlots, m >= mark[w] PROVE i <= m
      BY <1>2, <1>3, <1>4, <2>1, <3>1
    <3> QED BY <1>3, <3>1 DEF Entries
  <2>5. EntryAt(i).stamp = i /\ EntryAt(i).key = keys[i] /\ EntryAt(i).value = vals[i]
    BY DEF EntryAt
  <2> QED BY <1>1, <2>1, <2>3, <2>4, <2>5 DEF Ordered!Next, Entries, EntryAt
<1>6. CASE End(w)
  <2>1. (\A j \in pos[w]..Len(keys) : dead[j]) /\ mark' = mark /\ answer' = <<"done">>
    BY <1>6 DEF End, Yields
  <2>2. \A i \in LiveSlots : ~(i >= mark[w]) BY <1>2, <1>3, <1>4, <2>1
  <2>3. ahead = {} BY <1>3, <2>2 DEF Entries
  <2> QED BY <1>1, <2>1, <2>3 DEF Ordered!Next, Entries, EntryAt
<1> QED BY <1>5, <1>6 DEF NextEntry

LEMMA RefineStep ==
  ASSUME Core, WalkInv, [Step]_collectionVars
  PROVE  [Ordered!Step]_Ordered!vars
<1>1. CASE UNCHANGED collectionVars BY <1>1 DEF collectionVars, slots, walks, Ordered!vars, LiveSlots
<1>2. ASSUME NEW k \in EntryKey, Get(k) \/ Delete(k) PROVE Ordered!Step
  BY <1>2, RefineGet, RefineDelete DEF Ordered!Step
<1>3. ASSUME NEW k \in EntryKey, NEW v \in EntryValue, Set(k, v) PROVE Ordered!Step
  <2>1. CASE ~Has(k) /\ Full /\ UNCHANGED slots /\ answer' = <<"RangeError">>
    <3>1. Ordered!Found(k) = {} BY <2>1, FoundByIndex
    <3>2. ~(Len(keys) < MaxItems) /\ Len(keys) >= MaxItems
      BY <2>1, KeyAssumption DEF Full, Core, SlotsOK
    <3>3. UNCHANGED <<keys, vals, dead, mark>> /\ LiveSlots' = LiveSlots
      BY <1>3, <2>1 DEF Set, slots, walks, LiveSlots
    <3>4. Ordered!Set(k, v) BY <2>1, <3>1, <3>2, <3>3 DEF Ordered!Set
    <3> QED BY <3>4 DEF Ordered!Step
  <2>2. CASE ~(~Has(k) /\ Full /\ UNCHANGED slots /\ answer' = <<"RangeError">>)
    <3>1. Ordered!Set(k, v) BY <1>3, <2>2, RefineInsert, RefineUpdate DEF Set
    <3> QED BY <3>1 DEF Ordered!Step
  <2> QED BY <2>1, <2>2
<1>4. CASE Clear BY <1>4, RefineClear DEF Ordered!Step
<1>5. ASSUME NEW w \in Walker, Walk(w) PROVE Ordered!Step
  <2>1. Ordered!Walk(w) BY <1>5 DEF Walk, Ordered!Walk, slots, LiveSlots
  <2> QED BY <2>1 DEF Ordered!Step
<1>6. ASSUME NEW w \in Walker, NextEntry(w) PROVE Ordered!Step
  BY <1>6, RefineNext DEF Ordered!Step
<1>7. ASSUME NEW w \in Walker, Leave(w) PROVE UNCHANGED Ordered!vars
  BY <1>7 DEF Leave, slots, Ordered!vars, LiveSlots
<1> QED BY <1>1, <1>2, <1>3, <1>4, <1>5, <1>6, <1>7 DEF Step, Operation

\* A script cannot tell a collection with its tombstones from an ordered map,
\* nor a walk over it from one over the map, whatever happens under the walk.
THEOREM ImplementsOrderedMap == CollectionSpec => OrderedSpec
<1>1. CollectionInit => WalkInv BY InitWalk
<1>2. Core /\ WalkInv /\ [Step]_collectionVars => WalkInv' BY WalkStep
<1>3. Core /\ WalkInv /\ [Step]_collectionVars => [Ordered!Step]_Ordered!vars BY RefineStep
<1> QED BY <1>1, <1>2, <1>3, RefineInit, CoreInvariant, PTL DEF CollectionSpec, OrderedSpec, Ordered!Spec

============================================================================
