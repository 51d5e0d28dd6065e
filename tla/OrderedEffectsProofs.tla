------------------------ MODULE OrderedEffectsProofs ------------------------
(* Safety of the single-turn machine of OrderedEffects, for every N.         *)
EXTENDS OrderedEffects, TLAPS

\* Every entry of the trace is that of an item whose turn has come, and the
\* lines at the current turn belong to a finished item.
TraceBehindTurn ==
  \A n \in DOMAIN trace :
    /\ trace[n][2] <= turn
    /\ trace[n][2] = turn /\ trace[n][1] = "line" => turn \in finished

IInv == TypeOK /\ TraceBehindTurn /\ InItemOrder

Entry == {"effect", "line"} \X Item

\* What Append does to the trace: old entries stay, the new one comes last.
LEMMA AppendEntry ==
  ASSUME NEW S, NEW s \in Seq(S), NEW e \in S
  PROVE  /\ Append(s, e) \in Seq(S)
         /\ Len(s) \in Nat
         /\ DOMAIN s = 1..Len(s)
         /\ DOMAIN Append(s, e) = 1..(Len(s) + 1)
         /\ \A n \in 1..Len(s) : Append(s, e)[n] = s[n]
         /\ Append(s, e)[Len(s) + 1] = e
  OBVIOUS

\* The turn is never beyond the batch, and the trace is one of its items.
THEOREM TypeCorrect == ASSUME N \in Nat PROVE Spec => []TypeOK
<1>1. Init => TypeOK
  BY DEF Init, TypeOK
<1>2. ASSUME TypeOK, [Next]_vars PROVE TypeOK'
  <2> USE <1>2 DEF TypeOK, Item
  <2>1. CASE Pass
    BY <2>1 DEF Pass
  <2>2. ASSUME NEW i \in Item, Perform(i) PROVE TypeOK'
    BY <2>2, AppendEntry DEF Perform
  <2>3. ASSUME NEW i \in Item, FinishItem(i) PROVE TypeOK'
    BY <2>3 DEF FinishItem
  <2>4. ASSUME NEW i \in Item, Show(i) PROVE TypeOK'
    BY <2>4, AppendEntry DEF Show
  <2>5. CASE UNCHANGED vars
    BY <2>5 DEF vars
  <2> QED BY <1>2, <2>1, <2>2, <2>3, <2>4, <2>5 DEF Next
<1> QED BY <1>1, <1>2, PTL DEF Spec

\* Appending an entry at the turn keeps the order: everything before it is of
\* this item or an earlier one, and is no line if the new entry is an effect.
LEMMA AppendKeepsOrder ==
  ASSUME N \in Nat, IInv, NEW kind \in {"effect", "line"}, turn \in Item,
         trace' = Append(trace, <<kind, turn>>),
         UNCHANGED <<turn, finished>>,
         kind = "line" <=> turn \in finished
  PROVE  TraceBehindTurn' /\ InItemOrder'
<1> DEFINE e == <<kind, turn>>
           last == Len(trace) + 1
<1>1. trace \in Seq(Entry) /\ e \in Entry BY DEF IInv, TypeOK, Entry
<1>2. /\ Len(trace) \in Nat
      /\ DOMAIN trace = 1..Len(trace)
      /\ DOMAIN trace' = 1..last
      /\ \A n \in DOMAIN trace : trace'[n] = trace[n]
      /\ trace'[last] = e
  BY <1>1, AppendEntry
<1>3. e[1] = kind /\ e[2] = turn OBVIOUS
<1>4. turn \in Int BY DEF Item
<1> HIDE DEF e
<1>5. \A n \in DOMAIN trace' : n \in DOMAIN trace \/ n = last
  BY <1>2
<1>6. TraceBehindTurn'
  BY <1>2, <1>3, <1>4, <1>5 DEF IInv, TraceBehindTurn
<1>7. ASSUME NEW m \in DOMAIN trace', NEW n \in DOMAIN trace', m < n
      PROVE  \/ trace'[m][2] < trace'[n][2]
             \/ /\ trace'[m][2] = trace'[n][2]
                /\ trace'[m][1] = "line" => trace'[n][1] = "line"
  <2>1. m \in DOMAIN trace
    BY <1>2, <1>7
  <2>2. CASE n \in DOMAIN trace
    BY <1>2, <1>7, <2>1, <2>2 DEF IInv, InItemOrder
  <2>3. CASE n = last
    <3>1. trace'[m] = trace[m] /\ trace'[n] = e BY <1>2, <2>1, <2>3
    <3>2. trace[m] \in Entry BY <1>1, <1>2, <2>1
    <3>3. trace[m][2] \in Int BY <3>2 DEF Entry, Item
    <3>4. /\ trace[m][2] <= turn
          /\ trace[m][2] = turn /\ trace[m][1] = "line" => turn \in finished
      BY <2>1 DEF IInv, TraceBehindTurn
    <3> QED BY <1>3, <1>4, <3>1, <3>3, <3>4
  <2> QED BY <1>5, <2>2, <2>3
<1> QED BY <1>6, <1>7 DEF InItemOrder

\* The host sees the ordered effects of the items in input order, each item's
\* calls before its lines.
THEOREM TurnOrder == ASSUME N \in Nat PROVE Spec => []InItemOrder
<1>1. Init => TraceBehindTurn /\ InItemOrder
  BY DEF Init, TraceBehindTurn, InItemOrder
<1>2. ASSUME TypeOK, TraceBehindTurn, InItemOrder, [Next]_vars
      PROVE  TraceBehindTurn' /\ InItemOrder'
  <2> USE <1>2
  <2>1. CASE Pass
    <3>1. turn \in Int BY DEF TypeOK
    <3>2. \A n \in DOMAIN trace : trace[n][2] \in Int
      BY DEF TypeOK, Item
    <3> QED BY <2>1, <3>1, <3>2 DEF Pass, TraceBehindTurn, InItemOrder
  <2>2. ASSUME NEW i \in Item, Perform(i)
        PROVE  TraceBehindTurn' /\ InItemOrder'
    BY <2>2, AppendKeepsOrder DEF Perform, IInv
  <2>3. ASSUME NEW i \in Item, FinishItem(i)
        PROVE  TraceBehindTurn' /\ InItemOrder'
    BY <2>3 DEF FinishItem, TraceBehindTurn, InItemOrder
  <2>4. ASSUME NEW i \in Item, Show(i)
        PROVE  TraceBehindTurn' /\ InItemOrder'
    BY <2>4, AppendKeepsOrder DEF Show, IInv
  <2>5. CASE UNCHANGED vars
    BY <2>5 DEF vars, TraceBehindTurn, InItemOrder
  <2> QED BY <2>1, <2>2, <2>3, <2>4, <2>5 DEF Next
<1> QED BY <1>1, <1>2, TypeCorrect, PTL DEF Spec

=============================================================================
