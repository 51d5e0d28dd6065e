------------------------------ MODULE MCLibrary ------------------------------
(* The values and the library of one rt: an object and its walks, step by     *)
(* step, and each operation on small inputs of the other parts, which share   *)
(* nothing with it.                                                           *)
EXTENDS Objects, Sorting, MCDates

CONSTANTS MaxItems, JsMaxItems, Alphabet, MaxNodes, MaxDepth, MaxJsonDepth

\* The names of objects, in the order of sort.Strings.
MCAlphabet == <<"a", "b", "c">>

\* All the milliseconds of an int64, in days: fewer than there are.
MCCycle == <<1100000000, 0>>

A == INSTANCE MCArrays
J == INSTANCE MCJson
H == INSTANCE MCHostData
T == INSTANCE MCText

ASSUME LibraryAssumption == DatesAssumption

AllInit == Init /\ SortInit /\ DateInit

Operation == A!Next \/ J!Next \/ H!Next \/ T!Next \/ DateNext

\* The caller takes the answer, and the next operation may begin.
Answered ==
  /\ output # <<>>
  /\ input' = <<"none">> /\ output' = <<>>
  /\ UNCHANGED <<vars, sortVars>>

AllNext ==
  \/ input = <<"none">> /\ stage = "idle" /\ Next /\ UNCHANGED <<sortVars, input, output>>
  \/ Init /\ ~errName /\ input = <<"none">> /\ SortNext /\ UNCHANGED <<vars, input, output>>
  \/ Init /\ ~errName /\ stage = "idle" /\ Operation /\ UNCHANGED <<vars, sortVars>>
  \/ Answered

AllSpec == AllInit /\ [][AllNext]_<<vars, sortVars, input, output>>

---------------------------------------------------------------------------
\* The properties of the parts, by their names.

\* Array methods: results, calls, errors and the receiver left behind.
ArraysAsInJavaScript == A!ArraysAsInJavaScript

\* JSON.stringify: text, calls, cycles.
JsonAsInJavaScript == J!JsonAsInJavaScript

\* Exports are the trees that are reached, sharing and cycles included.
ExportsTree == H!ExportsTree

\* What the host gets back of an object the script wrote to.
ExportsWrites == H!ExportsWrites

\* The encoding of Go data, or its failure, whatever the order of its maps.
MarshalAsEncoded == H!MarshalAsEncoded

\* Text, positions, pieces, matches and lastIndex of strings and patterns.
TextAsInJavaScript == T!TextAsInJavaScript

\* Only cycles are left out of a text: arrays joined earlier, or that failed, are not.
JoinsApart == A!JoinsApart
=============================================================================
