----------------------------- MODULE MCSwitching ----------------------------
(* Switching for TLC: programs, each a graph and the calls that make it.   *)
EXTENDS Switching

Of(kind, in) == [kind |-> kind, in |-> in]
Names == [x \in {<<"s1">>, <<"s2">>} |-> IF x = <<"s1">> THEN 1 ELSE 2]

\* Switch 5 follows cell 4, which sink 3 tells which of 1 and 2, the latter a
\* loop tied to a snapshot of the former and then, in vain, to 3, to hold.
SwitchProgram ==
  [op |-> << Of("sink", <<>>), Of("loop", <<>>), Of("sink", <<>>), Of("hold", <<3>>),
             Of("switch", <<4>>), Of("listener", <<5>>), Of("hold", <<1>>),
             Of("snapshot", <<1, 7>>), Of("tie", <<8, 2>>), Of("tie", <<3, 2>>) >>,
   calls |-> << <<1, 2, 3, 4, 7>>, <<5>>, <<6>>, <<8, 9>>, <<10>> >>,
   replayMany |-> FALSE, setup |-> 1, name |-> Names, init |-> [c \in {4, 7} |-> IF c = 4 THEN <<"s1">> ELSE <<"i">>],
   input |-> [s \in {1, 3} |-> IF s = 1 THEN {<<"x">>, <<"y">>} ELSE {<<"s1">>, <<"s2">>}],
   txns |-> 3, sends |-> 2]

\* Router 2 of sink 1, and router_loop 3 tied to it and then, in vain, to
\* router 11 of a loop that never fires.
RouterProgram ==
  [op |-> << Of("sink", <<>>), Of("router", <<1>>), Of("router_loop", <<>>), Of("route", <<2, "a">>),
             Of("route", <<3, "a">>), Of("route", <<3, "b">>), Of("tieRouter", <<2, 3>>),
             Of("once", <<5>>), Of("listener", <<6>>), Of("loop", <<>>), Of("router", <<10>>),
             Of("tieRouter", <<11, 3>>) >>,
   calls |-> << <<1, 2, 3, 10, 11>>, <<4>>, <<5>>, <<8>>, <<7>>, <<12>>, <<6, 9>> >>,
   replayMany |-> FALSE, setup |-> 2, name |-> <<>>, init |-> <<>>,
   input |-> [s \in {1} |-> {<<"a">>, <<"b">>}], txns |-> 3, sends |-> 1]

\* Split 2 of the lists of sink 1, held by 3.
SplitProgram ==
  [op |-> << Of("sink", <<>>), Of("split", <<1>>), Of("hold", <<2>>), Of("listener", <<2>>),
             Of("sink", <<>>), Of("snapshot", <<5, 3>>), Of("listener", <<6>>) >>,
   calls |-> << <<1, 2, 3, 5>>, <<4>>, <<6, 7>> >>,
   replayMany |-> FALSE, setup |-> 1, name |-> <<>>, init |-> [c \in {3} |-> <<"i">>],
   input |-> [s \in {1, 5} |-> IF s = 1 THEN {<<"a">>, <<"b", "c">>} ELSE {<<"x">>}],
   txns |-> 3, sends |-> 2]

MainPrograms == {SwitchProgram, RouterProgram, SplitProgram}
SplitPrograms == {SplitProgram}
=============================================================================
