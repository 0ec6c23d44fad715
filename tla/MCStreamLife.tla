---------------------------- MODULE MCStreamLife ----------------------------
(* StreamLife for TLC: a sink s, a stream m made from it, and a listener;   *)
(* or a sink and a listener.                                                *)
EXTENDS StreamLife, TLC

ChainStreams == {"s", "m"}
ChainListeners == {"l"}
ChainSources == [s |-> <<>>, m |-> <<"s">>, l |-> <<"m">>]

PairStreams == {"s"}
PairListeners == {"l"}
PairSources == [s |-> <<>>, l |-> <<"s">>]

(* Bit fields that the program outgrows: two listen_impl() at the same time,  *)
(* a stream with three references.                                         *)
FewBits == [strong |-> 1, stream |-> 2, node |-> 1]

Symmetry == Permutations(Threads)

(* Bound: a transaction of the program's own is open only while its thread     *)
(* is alone: what there is, a sink at least, that thread has made, and the     *)
(* others hold nothing and make no calls.                                      *)
OwnAlone ==
  \A t \in open :
    /\ {maker[o] : o \in Objects} \ {NoThread} = {t}
    /\ \A u \in Threads \ {t} : agenda[u] = <<>> /\ held[u] = {}
=============================================================================
