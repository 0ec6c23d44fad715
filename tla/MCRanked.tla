------------------------------ MODULE MCRanked ------------------------------
(* Ranked for TLC: programs, each a graph and the calls that make it.      *)
EXTENDS Ranked

Of(kind, in) == [kind |-> kind, in |-> in]
Sent == <<"v1", "v2", "v3">>

\* l is a stream_loop, tied late to the stream m of sink s; the merge of l and s
\* is coalesced and heard.  The two paths from s to the merge differ in length.
LoopProgram ==
  [op |-> << Of("sink", <<>>), Of("loop", <<>>), Of("merge", <<2, 1>>), Of("coalesce", <<3>>),
             Of("listener", <<4>>), Of("map", <<1>>), Of("tie", <<6, 2>>) >>,
   calls |-> << <<1>>, <<2>>, <<3>>, <<4>>, <<5>>, <<6>>, <<7>> >>,
   setup |-> 4, late |-> 8, txns |-> 2, scopes |-> 1, sends |-> 2,
   throws |-> FALSE]

\* Cell 2 holds the stream of a cell_sink; it is snapshot by sink 3, and its
\* value() is 6, 7, 8, 9; 11 is a cell with 2's value as its lazy initial value.
CellProgram ==
  [op |-> << Of("cellSink", <<>>), Of("hold", <<1>>), Of("sink", <<>>),
             Of("snapshot", <<3, 2>>), Of("listener", <<4>>),
             Of("spark", <<>>), Of("snapshot", <<6, 2>>), Of("merge", <<7, 1>>),
             Of("lastOnly", <<8>>), Of("listener", <<9>>),
             Of("lazy", <<2>>), Of("holdLazy", <<3, 11>>), Of("snapshot", <<1, 12>>) >>,
   calls |-> << <<1, 2>>, <<3>>, <<4>>, <<5>>, <<11, 12, 13>>, <<6, 7, 8, 9, 10>> >>,
   setup |-> 4, late |-> 7, txns |-> 2, scopes |-> 1, sends |-> 2,
   throws |-> FALSE]

\* States, a filter, and listeners that come late, are killed and throw.
StateProgram ==
  [op |-> << Of("sink", <<>>), Of("accum", <<1>>), Of("once", <<1>>), Of("listener", <<2>>),
             Of("map", <<1>>), Of("filter", <<1>>), Of("merge", <<5, 6>>), Of("listener", <<5>>) >>,
   calls |-> << <<1>>, <<2>>, <<3>>, <<4>>, <<5>>, <<6, 7>>, <<8>> >>,
   setup |-> 4, late |-> 5, txns |-> 2, scopes |-> 2, sends |-> 2,
   throws |-> TRUE]

MainPrograms == {LoopProgram, CellProgram, StateProgram}
CellPrograms == {CellProgram}

\* Two paths of unequal length from the loop 2 to the merge 6, made before the
\* loop is tied to a stream of higher rank than it.
DiamondPrograms ==
  {[op |-> << Of("sink", <<>>), Of("loop", <<>>), Of("map", <<2>>), Of("map", <<2>>),
              Of("map", <<4>>), Of("merge", <<5, 3>>), Of("coalesce", <<6>>),
              Of("map", <<1>>), Of("map", <<8>>), Of("tie", <<9, 2>>) >>,
    calls |-> << <<1>>, <<2>>, <<3>>, <<4>>, <<5>>, <<6>>, <<7>>, <<8>>, <<9>>, <<10>> >>,
    setup |-> 10, late |-> 11, txns |-> 1, scopes |-> 1, sends |-> 1,
    throws |-> FALSE]}
=============================================================================
