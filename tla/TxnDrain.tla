------------------------------ MODULE TxnDrain ------------------------------
(***************************************************************************)
(* What closing a transaction promises, with no threads, locks or queue:   *)
(* every entry added to the transaction, by its body or by the handler of  *)
(* another entry, is started once, finishes once, and the transaction is   *)
(* closed only when none is left.  WorkQueue is shown to implement this,   *)
(* and Transaction uses it in place of the worker threads.                 *)
(***************************************************************************)
CONSTANT Entries          (* every prioritized_entry the transaction may see *)

VARIABLES pending,        (* added, no thread has taken it yet               *)
          running,        (* its process() is executing                      *)
          ran,            (* its process() has returned                      *)
          phase           (* "body", "draining" or "closed"                  *)

drainVars == <<pending, running, ran, phase>>

Known == pending \cup running \cup ran

TypeOK ==
  /\ pending \subseteq Entries
  /\ running \subseteq Entries
  /\ ran \subseteq Entries
  /\ phase \in {"body", "draining", "closed"}

Init ==
  /\ pending = {}
  /\ running = {}
  /\ ran = {}
  /\ phase = "body"

\* The transaction body, or a handler that is executing, adds an entry.
Add(e) ==
  /\ e \in Entries \ Known
  /\ phase = "body" \/ running # {}
  /\ pending' = pending \cup {e}
  /\ UNCHANGED <<running, ran, phase>>

CloseBody ==
  /\ phase = "body"
  /\ phase' = "draining"
  /\ UNCHANGED <<pending, running, ran>>

Start(e) ==
  /\ phase = "draining"
  /\ e \in pending
  /\ pending' = pending \ {e}
  /\ running' = running \cup {e}
  /\ UNCHANGED <<ran, phase>>

Finish(e) ==
  /\ e \in running
  /\ running' = running \ {e}
  /\ ran' = ran \cup {e}
  /\ UNCHANGED <<pending, phase>>

Closed ==
  /\ phase = "draining"
  /\ pending = {}
  /\ running = {}
  /\ phase' = "closed"
  /\ UNCHANGED <<pending, running, ran>>

Next ==
  \/ \E e \in Entries : Add(e) \/ Start(e) \/ Finish(e)
  \/ CloseBody
  \/ Closed

Spec == Init /\ [][Next]_drainVars
=============================================================================
