------------------------------ MODULE MCLoops ------------------------------
(* Loops on small graphs with one Synchronous or Asynchronous cycle each.   *)
EXTENDS Loops

Plain(a, b) == [from |-> a, to |-> b, mode |-> "plain", max |-> 0]
Sync(a, b)  == [from |-> a, to |-> b, mode |-> "sync", max |-> 2]
Async(a, b) == [from |-> a, to |-> b, mode |-> "async", max |-> 2]

\* The graph of examples/pagerank without its output: two replicas at the barrier, the
\* feedback channel declared, and so polled, after the other one.
Supersteps ==
  [pods     |-> [seed |-> <<"seed-0">>, rank |-> <<"rank-0", "rank-1">>],
   inbound  |-> [seed |-> << >>, rank |-> <<"graph", "contrib">>],
   channels |-> [graph |-> Plain("seed", "rank"), contrib |-> Sync("rank", "rank")],
   bound    |-> 2, finite |-> {}, cycle |-> << >>, op |-> << >>]

\* A Synchronous loop and a consumer of its output, which follows the epochs.
SuperstepsAndSink ==
  [pods     |-> [seed |-> <<"seed-0">>, rank |-> <<"rank-0">>, sink |-> <<"sink-0">>],
   inbound  |-> [seed |-> << >>, rank |-> <<"graph", "contrib">>, sink |-> <<"ranks">>],
   channels |-> [graph |-> Plain("seed", "rank"), contrib |-> Sync("rank", "rank"),
                 ranks |-> Plain("rank", "sink")],
   bound    |-> 1, finite |-> {}, cycle |-> << >>, op |-> << >>]

\* An Asynchronous loop over two operations.
AgentLoop ==
  [pods     |-> [seed |-> <<"seed-0">>, agent |-> <<"agent-0">>, tool |-> <<"tool-0">>],
   inbound  |-> [seed |-> << >>, agent |-> <<"tasks", "results">>, tool |-> <<"calls">>],
   channels |-> [tasks |-> Plain("seed", "agent"), calls |-> Plain("agent", "tool"),
                 results |-> Async("tool", "agent")],
   bound    |-> 2, finite |-> {}, cycle |-> << >>, op |-> << >>]

\* The same with two replicas of the agent.
AgentPair == [AgentLoop EXCEPT !.pods.agent = <<"agent-0", "agent-1">>, !.bound = 1]

OneLoopEach == {Supersteps, AgentLoop, AgentPair}
Followed == {SuperstepsAndSink}

ASSUME LoopsAreSingle == SingleLoops
ASSUME EpochsAreFollowed == \A t \in Topologies : EpochsFollow(t)
=============================================================================
