---------------------------- MODULE MCScheduler ----------------------------
(* An instance of Scheduler for TLC: one schedule entry, two subscribers.   *)
EXTENDS Scheduler

CONSTANTS star, job, ok, bad, s1, s2, ev1, i1, c1

MCTypes == {<<job, ok>>, <<job, bad>>}
MCSubSpecs ==
  {[pattern |-> <<job, star>>, max |-> 1, debounce |-> FALSE],
   [pattern |-> <<star, bad>>, max |-> 2, debounce |-> FALSE],
   [pattern |-> <<star>>, max |-> 0, debounce |-> TRUE]}
MCTrigger(i) == ev1
MCTriggerType == <<job, bad>>

Nothing == [i \in Ids |-> NoEntry]
One(kind) == [i \in Ids |-> [on |-> TRUE, kind |-> kind, enabled |-> TRUE]]

\* The bus alone, with and without a file; the scheduler alone, over entries of
\* HTTP or of node.yaml; and both, with an entry triggered by an event.
MCScenarios ==
  [persist : {TRUE}, static : {Nothing},
   left : {[emit |-> 2, sub |-> 1, entry |-> 0, fault |-> 1]}] \cup
  [persist : {FALSE}, static : {Nothing},
   left : {[emit |-> 3, sub |-> 2, entry |-> 0, fault |-> 1]}] \cup
  [persist : {FALSE}, static : {Nothing},
   left : {[emit |-> 0, sub |-> 0, entry |-> 3, fault |-> 0]}] \cup
  [persist : {FALSE}, static : {One("once")},
   left : {[emit |-> 0, sub |-> 0, entry |-> 2, fault |-> 1]}] \cup
  [persist : {FALSE}, static : {One("event")},
   left : {[emit |-> 1, sub |-> 0, entry |-> 2, fault |-> 0],
           [emit |-> 0, sub |-> 1, entry |-> 1, fault |-> 0]}]
=============================================================================
