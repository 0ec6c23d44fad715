--------------------------- MODULE MCPropagation ----------------------------
(* Propagation for TLC: the graphs, each as the kinds and links of its     *)
(* nodes.                                                                  *)
EXTENDS Propagation, TLC

None == <<>>

\* Workers are interchangeable, and so are the values of sinks.
Symmetry == Permutations(Workers) \cup Permutations(Values)

\* One of each.  Sinks s and t; h holds s, and i holds t mapped (im); c is the
\* merge of both with a combining function (to drop no value); f filters s; o is
\* t once; a collects t; u applies the cell h to the cell i, for which apply()
\* maps h (hm, held in hj), and g holds what u makes.  The mapped t keeps the two
\* paths to u equally long: of unequal ones the shorter would fire u first.  A
\* listener v of the value of cell h comes and goes.
MixedKind ==
  [s |-> "sink", cs |-> "coalesce", t |-> "sink", ct |-> "coalesce",
   h |-> "hold", im |-> "forward", i |-> "hold",
   r |-> "forward", c |-> "coalesce", lc |-> "listen",
   f |-> "filter", lf |-> "listen", o |-> "once", lo |-> "listen",
   a |-> "collect", la |-> "listen",
   hm |-> "forward", hj |-> "hold", hr |-> "forward", hx |-> "last", uf |-> "applyF",
   ir |-> "forward", ix |-> "last", ua |-> "applyA",
   u |-> "apply", g |-> "hold", lu |-> "listen",
   e |-> "spark", p |-> "snapshot", vr |-> "forward", vx |-> "last", vc |-> "last",
   v |-> "listen"]
MixedLinks ==
  [m \in DOMAIN MixedKind |->
     CASE m = "s" -> <<"cs">> [] m = "cs" -> <<"hm", "f", "r", "h">>
       [] m = "t" -> <<"ct">> [] m = "ct" -> <<"a", "o", "r", "im">>
       [] m = "r" -> <<"c">> [] m = "c" -> <<"lc">>
       [] m = "f" -> <<"lf">> [] m = "o" -> <<"lo">> [] m = "a" -> <<"la">>
       [] m = "hm" -> <<"hr", "hj">> [] m = "hr" -> <<"hx">> [] m = "hx" -> <<"uf">>
       [] m = "im" -> <<"ir", "i">> [] m = "ir" -> <<"ix">> [] m = "ix" -> <<"ua">>
       [] m = "u" -> <<"lu", "g">>
       [] OTHER -> <<>>]
MixedChain ==
  [v |-> <<<<"e", "p">>, <<"p", "vr">>, <<"cs", "vr">>, <<"vr", "vx">>, <<"vx", "vc">>,
           <<"vc", "v">>>>]
MixedCells == [p |-> "h", uf |-> "hj", ua |-> "i"]
MixedApply == [uf |-> "u", ua |-> "u"]
MixedNodes == DOMAIN MixedKind

\* For races: a sink is held in a cell, sampled by two snapshots, and reaches
\* a coalesce by two paths.
RacingKind == [s |-> "sink", cs |-> "coalesce", m |-> "forward", h |-> "hold",
               p |-> "snapshot", q |-> "snapshot", l |-> "listen", k |-> "listen",
               c |-> "coalesce"]
RacingLinks == [s |-> <<"cs">>, cs |-> <<"h", "c", "p", "m">>, m |-> <<"c", "q">>, h |-> <<>>,
                p |-> <<"l">>, q |-> <<"k">>, l |-> <<>>, k |-> <<>>, c |-> <<>>]
RacingCells == [p |-> "h", q |-> "h"]
RacingNodes == DOMAIN RacingKind

\* s.merge(t, f).listen(...).
MergeKind == [s |-> "sink", cs |-> "coalesce", t |-> "sink", ct |-> "coalesce",
              r |-> "forward", c |-> "coalesce", l |-> "listen"]
MergeLinks == [s |-> <<"cs">>, cs |-> <<"r">>, t |-> <<"ct">>, ct |-> <<"r">>,
               r |-> <<"c">>, c |-> <<"l">>, l |-> <<>>]
MergeNodes == DOMAIN MergeKind

\* s.merge(s.map(g).map(i), f).listen(...): the sink has two paths to the node.
PathsKind == [s |-> "sink", cs |-> "coalesce", m |-> "forward", g |-> "forward",
              r |-> "forward", c |-> "coalesce", l |-> "listen"]
PathsLinks == [s |-> <<"cs">>, cs |-> <<"r", "m">>, m |-> <<"g">>, g |-> <<"r">>,
               r |-> <<"c">>, c |-> <<"l">>, l |-> <<>>]
PathsNodes == DOMAIN PathsKind

\* A sink that is held in a cell.
HoldKind == [s |-> "sink", cs |-> "coalesce", h |-> "hold"]
HoldLinks == [s |-> <<"cs">>, cs |-> <<"h">>, h |-> <<>>]
HoldNodes == DOMAIN HoldKind
=============================================================================
