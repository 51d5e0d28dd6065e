--------------------------- MODULE MCParallelBatch ---------------------------
(* Instances of ParallelBatch for TLC.  The safety run has three items on two *)
(* workers, with every fault; the other runs have as many workers as items,   *)
(* so that two of them can sleep in wait at once.                             *)
EXTENDS ParallelBatch, TLC

CONSTANTS w1, w2, w3

Workers2 == {w1, w2}
Workers3 == {w1, w2, w3}
Symmetry2 == Permutations(Workers2)

LogHost == <<"log", "host">>
HostLog == <<"host", "log">>
ToolSeq == <<"tool", "seqtool">>
TickThrow == <<"tick", "throw">>
ToolPanic == <<"tool", "panic">>
TickToolOverflow == <<"tick", "tool", "overflow">>
Ticks == <<"tick", "tick", "tick", "tick">>

Batch(settled, a, b, c) ==
  [settled |-> settled, items |-> [i \in Item |-> <<a, b, c>>[i + 1]]]

SafetyBatches ==
  { Batch(s, t[1], t[2], t[3]) :
      s \in BOOLEAN,
      t \in { <<LogHost, ToolSeq, HostLog>>, <<TickThrow, HostLog, LogHost>>,
              <<ToolPanic, ToolSeq, LogHost>>, <<TickToolOverflow, TickThrow, ToolSeq>>,
              <<ToolSeq, ToolSeq, ToolPanic>>, <<Ticks, Ticks, Ticks>>,
              <<HostLog, TickToolOverflow, ToolPanic>>, <<LogHost, TickThrow, TickThrow>> } }

\* Batches of scripts that sleep or print; the item at the head, whose turn the
\* others wait for, also fails and panics.
OrderBatches ==
  { Batch(FALSE, a, b, LogHost) :
      a \in {<<"seqtool">>, LogHost, <<"overflow">>, <<"panic">>},
      b \in {<<"seqtool">>, LogHost} }

ConsoleBatches == [settled : {FALSE}, items : [Item -> {LogHost}]]

FailureBatches == [settled : {FALSE}, items : [Item -> {TickThrow, <<"overflow">>}]]
==============================================================================
