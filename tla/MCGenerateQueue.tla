---- MODULE MCGenerateQueue ----
(* Small instances of GenerateQueue for TLC. *)
EXTENDS GenerateQueue, TLC

Symmetry == Permutations(Job) \union Permutations(Conn) \union Permutations(ID)

\* Liveness is checked without symmetry, so the run fixes who asks for what:
\* two jobs with the same ID, on two connections, one of each format.
Script == CHOOSE r \in [Job -> Request] :
            \A j, k \in Job : j # k => r[j].conn # r[k].conn /\ r[j].format # r[k].format

LiveInit == Init /\ req = Script

LiveSpec == LiveInit /\ [][Next]_vars /\ Fairness
====
