-------------------------- MODULE MCRunnerProtocol --------------------------
(* Small instances of RunnerProtocol for TLC: every thread is a runner's own *)
(* or both belong to one runner.                                             *)
EXTENDS RunnerProtocol, TLC
CONSTANTS r1, r2, w1, w2
One == 1..1
OneThread == w1 :> r1
OwnRunner == w1 :> r1 @@ w2 :> r2
SameRunner == w1 :> r1 @@ w2 :> r1
\* The two runners with their threads may be swapped.
Swap == {p \in Permutations(Runner \union Worker) :
           \A w \in Worker : p[w] \in Worker /\ RunnerOf[p[w]] = p[RunnerOf[w]]}
=============================================================================
