------------------------------- MODULE Sorting -------------------------------
(***************************************************************************)
(* sort and toSorted of an array, call by call (builtins.go): what happens *)
(* to the elements while the comparator, a function of the script, changes *)
(* the array that is being sorted.  Arrays says in which order the elements *)
(* come; here sort.Stable is any series of Less and Swap.                  *)
(*                                                                         *)
(* An array is a Go slice, and the methods of the script either write into *)
(* its memory (a[i] = v, fill, delete, reverse; push, if there is room) or *)
(* give it other memory (shift, unshift, splice; push, if there is none).  *)
(* sort works in the memory the array has when it is called, unless there  *)
(* are holes; with holes, and for toSorted, in a copy.                     *)
(***************************************************************************)
EXTENDS Integers, Sequences, FiniteSets

CONSTANTS
  Member,      \* what arrays hold
  Undef,       \* the one that denseItems puts for a hole
  Gap,         \* the marker of an element that does not exist
  MaxLength,   \* bounds: the length of the array that is sorted, and
  MaxChanges   \* how often the comparator changes it

ASSUME SortingAssumption ==
  Undef \in Member /\ Gap \notin Member /\ MaxLength \in Nat /\ MaxChanges \in Nat

VARIABLES
  stage,    \* "idle", "collect", "sort", "call" (in the comparator) or "done"
  op,       \* the method
  given,    \* the elements when it was called
  home,     \* the memory the array had then
  length,   \* the length of the array, as long as that is its memory
  moved,    \* the array has other memory by now
  next,     \* the next element to set aside, or not
  work,     \* dense, or toSorted's copy
  failed,   \* firstErr # nil
  changes,  \* how often the comparator has changed the array
  written   \* it has written where the array was when sort was called

sortVars == <<stage, op, given, home, length, moved, next, work, failed, changes, written>>

Slot == Member \cup {Gap}

SortInit ==
  /\ stage = "idle" /\ op = "none"
  /\ given = <<>> /\ home = <<>> /\ length = 0 /\ moved = FALSE
  /\ next = 1 /\ work = <<>>
  /\ failed = FALSE /\ changes = 0 /\ written = FALSE

---------------------------------------------------------------------------
\* denseItems
Filled(items) == [i \in 1..Len(items) |-> IF items[i] = Gap THEN Undef ELSE items[i]]

HasHoles == \E i \in 1..Len(given) : given[i] = Gap

\* Whether sort.Stable works in `work`, and not in the memory of the array.
Copied == op = "toSorted" \/ HasHoles

\* a.sort(cmp), a.toSorted(cmp)
Begin(method, items) ==
  /\ stage = "idle"
  /\ op' = method /\ given' = items /\ home' = items /\ length' = Len(items)
  /\ IF method = "sort" THEN stage' = "collect" /\ UNCHANGED work
                        ELSE stage' = "sort" /\ work' = Filled(items)
  /\ UNCHANGED <<moved, next, failed, changes, written>>

\* The loop that sets the holes aside.
Collect ==
  /\ stage = "collect"
  /\ IF next <= Len(given)
     THEN /\ work' = IF home[next] = Gap THEN work ELSE Append(work, home[next])
          /\ next' = next + 1
          /\ UNCHANGED stage
     ELSE stage' = "sort" /\ UNCHANGED <<work, next>>
  /\ UNCHANGED <<op, given, home, length, moved, failed, changes, written>>

Sorted == IF Copied THEN work ELSE SubSeq(home, 1, Len(given))

\* Less of two elements that are not undefined; after an error it calls nothing.
Call(i, j) ==
  /\ stage = "sort" /\ ~failed
  /\ i # j /\ Undef \notin {Sorted[i], Sorted[j]}
  /\ stage' = "call"
  /\ UNCHANGED <<op, given, home, length, moved, next, work, failed, changes, written>>

Return(throws) ==
  /\ stage = "call"
  /\ stage' = "sort" /\ failed' = throws
  /\ UNCHANGED <<op, given, home, length, moved, next, work, changes, written>>

Exchange(s, i, j) == [s EXCEPT ![i] = s[j], ![j] = s[i]]

Swap(i, j) ==
  /\ stage = "sort"
  /\ IF Copied THEN work' = Exchange(work, i, j) /\ UNCHANGED home
               ELSE home' = Exchange(home, i, j) /\ UNCHANGED work
  /\ UNCHANGED <<stage, op, given, length, moved, next, failed, changes, written>>

---------------------------------------------------------------------------
\* What the comparator does to the array.
Changing ==
  /\ stage = "call" /\ ~moved /\ changes < MaxChanges
  /\ changes' = changes + 1
  /\ UNCHANGED <<stage, op, given, next, work, failed>>

Store(i, v) ==
  /\ Changing /\ i <= length
  /\ home' = [home EXCEPT ![i] = v]
  /\ written' = (written \/ i <= Len(given))
  /\ UNCHANGED <<length, moved>>

\* a.length = n, pop: the memory stays.
Shorten(n) ==
  /\ Changing /\ n < length
  /\ length' = n
  /\ UNCHANGED <<home, moved, written>>

\* push, or holes up to a new length: into memory that is there, or to spare.
Push(v) ==
  /\ Changing
  /\ length' = length + 1
  /\ home' = IF length < Len(home) THEN [home EXCEPT ![length + 1] = v] ELSE Append(home, v)
  /\ written' = (written \/ length < Len(given))
  /\ UNCHANGED moved

Move ==
  /\ Changing
  /\ moved' = TRUE
  /\ UNCHANGED <<home, length, written>>

---------------------------------------------------------------------------
\* The deferred copy of the elements and the holes, with or without an error.
CopiedBack_NoHoles == [i \in 1..Len(home) |-> IF i <= Len(work) THEN work[i] ELSE home[i]]

CopiedBack ==
  [i \in 1..Len(home) |->
     IF i <= Len(work) THEN work[i] ELSE IF i <= Len(given) THEN Gap ELSE home[i]]

End ==
  /\ stage = "sort"
  /\ stage' = "done"
  /\ home' = IF op = "sort" /\ HasHoles THEN CopiedBack ELSE home
  /\ UNCHANGED <<op, given, length, moved, next, work, failed, changes, written>>

\* The script goes on.
Forget ==
  /\ stage = "done"
  /\ stage' = "idle" /\ op' = "none"
  /\ given' = <<>> /\ home' = <<>> /\ length' = 0 /\ moved' = FALSE
  /\ next' = 1 /\ work' = <<>>
  /\ failed' = FALSE /\ changes' = 0 /\ written' = FALSE

\* The arrays that are sorted.
Inputs == UNION {[1..n -> Slot] : n \in 0..MaxLength}

SortNext ==
  \/ \E method \in {"sort", "toSorted"}, items \in Inputs : Begin(method, items)
  \/ Collect
  \/ \E i, j \in 1..Len(Sorted) : Call(i, j) \/ Swap(i, j)
  \/ \E throws \in BOOLEAN : Return(throws)
  \/ \E i \in 1..length, v \in Slot : Store(i, v)
  \/ \E n \in 0..length : Shorten(n)
  \/ \E v \in Slot : Push(v)
  \/ Move \/ End \/ Forget

SortSpec == SortInit /\ [][SortNext]_sortVars

---------------------------------------------------------------------------
\* How many of the first n elements of s are x.
Count(s, n, x) == Cardinality({i \in 1..n : s[i] = x})

\* builtins.go: sort moves elements and never loses or repeats one, whatever the
\* comparator answers, wherever it throws and wherever else it writes.  While a
\* copy is sorted, it may write anywhere; toSorted leaves the array to it.
SortKeepsElements ==
  stage = "done" =>
    /\ op = "sort" /\ (HasHoles \/ ~written) =>
         \A x \in Slot : Count(home, Len(given), x) = Count(given, Len(given), x)
    /\ op = "toSorted" =>
         \A x \in Slot : Count(work, Len(given), x) = Count(Filled(given), Len(given), x)
    /\ op = "toSorted" /\ changes = 0 => home = given /\ length = Len(given)
=============================================================================
