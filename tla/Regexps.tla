------------------------------- MODULE Regexps -------------------------------
(***************************************************************************)
(* Regular expressions of regexp.go.  The engine that finds a match is not *)
(* modelled; a pattern is a record                                         *)
(*   hits         at each position of the subject, the match that begins    *)
(*                there: <<>> or <<[to |-> end, groups |-> the captures]>>,   *)
(*                a capture being <<>> or <<from, to>>                       *)
(*   names        the names of its groups, "" for none                      *)
(*   global, sticky, contextFree                                           *)
(* A match is [at, to, groups].  st.lastIndex is any value of the script.   *)
(***************************************************************************)
EXTENDS TextValues

Unsupported(st) == [k |-> "unsupported", v |-> Undefined, st |-> st]

\* The Go engine: the first match at or after a position, the matches one after
\* the other; an empty match next to the one before is dropped.
Find(re, from, u) ==
  LET found == {i \in from..Len(u) : re.hits[i] # <<>>}
      at == Least(found)
  IN  IF found = {} THEN <<>> ELSE <<[at |-> at] @@ re.hits[at][1]>>

RECURSIVE FindAllFrom(_, _, _, _)
FindAllFrom(re, pos, previous, u) ==
  IF pos > Len(u) \/ Find(re, pos, u) = <<>> THEN <<>>
  ELSE LET m == Find(re, pos, u)[1]
           rest == FindAllFrom(re, IF m.to = pos THEN pos + 1 ELSE m.to, m.to, u)
       IN  IF m.to = pos /\ m.at = previous THEN rest ELSE <<m>> \o rest

ExecAt(re, start, u, st) ==
  CASE start > Len(u) -> Ok(<<>>, st)
    [] start \in 1..Len(u) /\ ~re.contextFree -> Unsupported(st)
    [] OTHER -> LET m == Find(re, start, u)
                IN  Ok(IF m # <<>> /\ re.sticky /\ m[1].at # start THEN <<>> ELSE m, st)

\* findAll: with sticky, the matches that follow each other from the start.
RECURSIVE Contiguous(_, _)
Contiguous(ms, pos) ==
  IF ms = <<>> \/ ms[1].at # pos THEN <<>> ELSE <<ms[1]>> \o Contiguous(Tail(ms), ms[1].to)
FindAll(re, u) ==
  LET ms == FindAllFrom(re, 0, -1, u) IN IF re.sticky THEN Contiguous(ms, 0) ELSE ms

LastIndexInt(st) == Then(ToInteger(st.lastIndex, st), LAMBDA n, s : Ok(IF n < 0 THEN 0 ELSE n, s))
SetLast(n, st) == [st EXCEPT !.lastIndex = Num(n)]

LastAfter_Found(m, st) == IF m = <<>> THEN st ELSE SetLast(m[1].to, st)
LastAfter(m, st) == SetLast(IF m = <<>> THEN 0 ELSE m[1].to, st)

\* regexpExec, and replace without the global flag, which keeps to sticky.
ExecFrom(re, indexed, u, st) ==
  Then(IF indexed THEN LastIndexInt(st) ELSE Ok(0, st), LAMBDA start, s :
    Then(ExecAt(re, start, u, s), LAMBDA m, t : Ok(m, IF indexed THEN LastAfter(m, t) ELSE t)))
RegexpExec(re, u, st) == ExecFrom(re, re.global \/ re.sticky, u, st)

---------------------------------------------------------------------------
\* Captures as the script sees them: the match, then its groups.
Captured(c, u) == IF c = <<>> THEN Undefined ELSE Str(Cut(u, c[1], c[2]))
Captures(m, u) == <<Str(Cut(u, m.at, m.to))>> \o [i \in DOMAIN m.groups |-> Captured(m.groups[i], u)]

\* The object of the named groups, or undefined.
Named(re) == {i \in DOMAIN re.names : re.names[i] # ""}
GroupsObject(re, captures) ==
  IF Named(re) = {} THEN Undefined
  ELSE <<"groups", [n \in {re.names[i] : i \in Named(re)} |->
                     captures[1 + CHOOSE i \in Named(re) : re.names[i] = n]]>>

MatchArray(re, m, u) ==
  <<"match", Captures(m, u), m.at, GroupsObject(re, Captures(m, u))>>

Test(re, args, st) ==
  Then(ToText(Arg(args, 1), st), LAMBDA u, s :
    Then(RegexpExec(re, u, s), LAMBDA m, t : Ok(Bool(m # <<>>), t)))
Exec(re, args, st) ==
  Then(ToText(Arg(args, 1), st), LAMBDA u, s :
    Then(RegexpExec(re, u, s), LAMBDA m, t : Ok(IF m = <<>> THEN Null ELSE MatchArray(re, m[1], u), t)))

ResetLastIndex(st) == IF st.lastIndex = Num(0) THEN st ELSE SetLast(0, st)

Match(re, u, st) ==
  IF ~re.global
  THEN Then(RegexpExec(re, u, st), LAMBDA m, s : Ok(IF m = <<>> THEN Null ELSE MatchArray(re, m[1], u), s))
  ELSE LET all == FindAll(re, u)
       IN  Ok(IF all = <<>> THEN Null
              ELSE <<"list", [i \in DOMAIN all |-> Str(Cut(u, all[i].at, all[i].to))]>>, ResetLastIndex(st))

\* search neither reads nor writes lastIndex.
Search(re, u, st) ==
  LET m == Find(re, 0, u)
  IN  Ok(Num(IF m = <<>> \/ (re.sticky /\ m[1].at # 0) THEN -1 ELSE m[1].at), st)

---------------------------------------------------------------------------
\* writeSubstitution: the template of a replacement, from its i-th unit on.
Digit(c) == IF c \in {ToString(d) : d \in 0..9} THEN CHOOSE d \in 0..9 : ToString(d) = c ELSE -1
TextOfCapture(c) == IF c = Undefined THEN <<>> ELSE c[2]

\* The group that $n or $nn names, and how many units the name takes.
GroupIndex(repl, i, captures) ==
  LET one == IF i + 1 > Len(repl) THEN -1 ELSE Digit(repl[i + 1])
      two == IF i + 2 > Len(repl) THEN -1 ELSE Digit(repl[i + 2])
      fits(n) == n < Len(captures)
  IN  CASE one = -1 \/ ~fits(one) -> [n |-> 0, width |-> 0]
        [] one # -1 /\ fits(one) /\ two # -1 /\ fits(10 * one + two) -> [n |-> 10 * one + two, width |-> 2]
        [] OTHER -> [n |-> one, width |-> 1]

RECURSIVE Substitution(_, _, _, _, _, _)
Substitution(re, repl, i, m, captures, u) ==
  LET next == repl[i + 1]
      Rest(j) == Substitution(re, repl, j, m, captures, u)
      closing == {j \in (i + 2)..Len(repl) : repl[j] = ">"}
      group == GroupIndex(repl, i, captures)
      ref == SubSeq(repl, i + 2, Least(closing) - 1)
      meant == {g \in Named(re) : <<re.names[g]>> = ref}
  IN  IF i > Len(repl) THEN <<>>
      ELSE IF repl[i] # "$" \/ i = Len(repl) THEN <<repl[i]>> \o Rest(i + 1)
      ELSE CASE next = "$" -> <<"$">> \o Rest(i + 2)
             [] next = "before" -> Cut(u, 0, m.at) \o Rest(i + 2)
             [] next = "after" -> Cut(u, m.to, Len(u)) \o Rest(i + 2)
             [] next = "&" -> captures[1][2] \o Rest(i + 2)
             [] next = "<" /\ closing # {} /\ Named(re) # {} ->
                  (IF meant = {} THEN <<>> ELSE TextOfCapture(captures[1 + Least(meant)])) \o Rest(Least(closing) + 1)
             [] next = "<" /\ (closing = {} \/ Named(re) = {}) -> <<"$", "<">> \o Rest(i + 2)
             [] next \notin {"$", "before", "after", "&", "<"} /\ group.n > 0 ->
                  TextOfCapture(captures[1 + group.n]) \o Rest(i + 1 + group.width)
             [] OTHER -> <<"$", next>> \o Rest(i + 2)

RECURSIVE ReplacedFrom(_, _, _, _, _, _, _)
ReplacedFrom(re, found, repl, last, out, u, st) ==
  IF found = <<>> THEN Ok(Str(out \o Cut(u, last, Len(u))), st)
  ELSE LET m == found[1]
           captures == Captures(m, u)
           groups == GroupsObject(re, captures)
           args == captures \o <<Num(m.at), Str(u)>> \o (IF groups = Undefined THEN <<>> ELSE <<groups>>)
       IN  Then(IF repl[1] = "fun"
                THEN Then(Call(repl, args, st), LAMBDA v, s : ToText(v, s))
                ELSE Ok(Substitution(re, repl[2], 1, m, captures, u), st), LAMBDA text, s :
             ReplacedFrom(re, Tail(found), repl, m.to, out \o Cut(u, last, m.at) \o text, u, s))

ReplaceRegexp(re, repl, all, u, st) ==
  IF all /\ ~re.global THEN Throw(TypeError, st)
  ELSE Then(IF re.global THEN Ok(FindAll(re, u), ResetLastIndex(st)) ELSE ExecFrom(re, re.sticky, u, st),
         LAMBDA found, s :
    IF found = <<>> THEN Ok(Str(u), s)
    ELSE Then(IF repl[1] = "fun" THEN Ok(repl, s) ELSE Then(ToText(repl, s), LAMBDA t, v : Ok(Str(t), v)),
           LAMBDA text, t : ReplacedFrom(re, found, text, 0, <<>>, u, t)))

---------------------------------------------------------------------------
\* stringSplitRegexp: sticky is left aside, lastIndex untouched.
RECURSIVE SplitFrom(_, _, _)
SplitFrom(found, last, u) ==
  IF found = <<>> THEN <<Str(Cut(u, last, Len(u)))>>
  ELSE LET m == found[1]
       IN  IF m.at = m.to /\ m.at \in {0, Len(u)} THEN SplitFrom(Tail(found), last, u)
           ELSE <<Str(Cut(u, last, m.at))>> \o Tail(Captures(m, u)) \o SplitFrom(Tail(found), m.to, u)

SplitRegexp(re, limitValue, u, st) ==
  Then(Limit(limitValue, st), LAMBDA limit, s :
    LET found == FindAllFrom(re, 0, -1, u)
        parts == IF u # <<>> THEN SplitFrom(found, 0, u) ELSE IF found = <<>> THEN <<Str(u)>> ELSE <<>>
    IN  Ok(<<"list", IF limit >= 0 /\ Len(parts) > limit THEN SubSeq(parts, 1, limit) ELSE parts>>, s))

RegexpMethod(m, re, args, u, st) ==
  CASE m = "test" -> Test(re, args, st)
    [] m = "exec" -> Exec(re, args, st)
    [] m = "match" -> Match(re, u, st)
    [] m = "search" -> Search(re, u, st)
    [] m = "replace" -> ReplaceRegexp(re, Arg(args, 1), FALSE, u, st)
    [] m = "replaceAll" -> ReplaceRegexp(re, Arg(args, 1), TRUE, u, st)
    [] m = "split" -> SplitRegexp(re, Arg(args, 1), u, st)
=============================================================================
