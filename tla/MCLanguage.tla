------------------------------ MODULE MCLanguage ------------------------------
(* The language: bodies of statements that run one after the other on one rt, *)
(* a collection and its walks, step by step, and each operation on single     *)
(* expressions, small programs with closures, and async programs, against     *)
(* ECMAScript; and which batches may run in parallel.                         *)
EXTENDS MCCompletions, Collections

VARIABLES
  input,   \* what runs, or "none"
  output   \* its answer: none yet, or one

E == INSTANCE MCExpressions
S == INSTANCE MCScopes
B == INSTANCE MCBatches
P == INSTANCE MCAsyncShapes

AllInit == Init /\ CollectionInit /\ input = <<"none">> /\ output = <<>>

Operations == E!Next \/ S!Next \/ B!Next \/ P!Next

\* The caller takes the answer, and the next operation may begin.
Answered ==
  /\ output # <<>>
  /\ input' = <<"none">> /\ output' = <<>>
  /\ UNCHANGED <<vars, collectionVars>>

\* The parts share nothing: while one is away from its start the others rest.
AllNext ==
  \/ CollectionInit /\ input = <<"none">> /\ Next /\ UNCHANGED <<collectionVars, input, output>>
  \/ Init /\ input = <<"none">> /\ Step /\ UNCHANGED <<vars, input, output>>
  \/ Init /\ CollectionInit /\ Operations /\ UNCHANGED <<vars, collectionVars>>
  \/ Answered

allVars == <<vars, collectionVars, input, output>>

\* A loop over the collection asks for its next entry again and again.
AllSpec ==
  /\ AllInit /\ [][AllNext]_allVars
  /\ \A w \in Walker : WF_allVars(NextEntry(w) /\ UNCHANGED <<vars, input, output>>)

---------------------------------------------------------------------------
\* The properties of the parts, by their names.

\* Values, effects and errors of expressions and patterns.
EvaluatesAsJavaScript == E!EvaluatesAsJavaScript

\* Variables of nested scopes, closures and frames.
ScopesAsInJavaScript == S!ScopesAsInJavaScript

\* What runs in parallel: the items of an isolated batch.
IsolatedItemsApart == B!IsolatedItemsApart

\* Promises that no accepted program can tell from their values.
PromisesUnseen == P!PromisesUnseen
=============================================================================
