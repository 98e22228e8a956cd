---------------------------- MODULE ExactlyOnce ----------------------------
(***************************************************************************)
(* What docs/checkpoints.md promises of a checkpointed operation, without   *)
(* processes, applications or crashes: every input is taken into the        *)
(* durable state once, its output becomes visible once and not before, and  *)
(* the final answer is given once, of a state that counts every input once. *)
(***************************************************************************)
EXTENDS Naturals

CONSTANT Inputs

VARIABLES
  total,    \* the durable state: how often each input has been taken into it
  visible,  \* how many outputs computed from each input can be consumed
  answer,   \* the state the final answer was computed from, or {}
  answers   \* how many final answers can be consumed

vars == <<total, visible, answer, answers>>

Once  == [i \in Inputs |-> 1]
Never == [i \in Inputs |-> 0]

Init ==
  /\ total = Never /\ visible = Never
  /\ answer = {} /\ answers = 0

\* An input is taken into the state.
Take(i) ==
  /\ total[i] = 0 /\ answer = {}
  /\ total' = [total EXCEPT ![i] = 1]
  /\ UNCHANGED <<visible, answer, answers>>

\* The final answer is decided when every input has been taken.
Decide ==
  /\ total = Once /\ answer = {}
  /\ answer' = {total}
  /\ UNCHANGED <<total, visible, answers>>

\* Outputs of inputs that have been taken, and the decided answer, become visible.
Show ==
  /\ visible' \in [Inputs -> {0, 1}]
  /\ \A i \in Inputs : visible[i] <= visible'[i] /\ visible'[i] <= total[i]
  /\ answers' \in {answers, 1} /\ (answers' = 1 => answer # {})
  /\ UNCHANGED <<total, answer>>

Next == (\E i \in Inputs : Take(i)) \/ Decide \/ Show

Spec == Init /\ [][Next]_vars
=============================================================================
