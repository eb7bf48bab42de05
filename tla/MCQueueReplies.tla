---- MODULE MCQueueReplies ----
(* Small instances of QueueReplies for TLC. *)
EXTENDS QueueReplies, TLC

Symmetry == Permutations(Job) \union Permutations(Conn) \union Permutations(ID)

\* Who asks for what: jobs of either format pipelined on one connection, or
\* one of each format on connections of their own.
SmallInit ==
  /\ RepliesInit
  /\ (\E j, k \in Job : ConnOf(j) # ConnOf(k)) => \E j, k \in Job : IsText(j) /\ ~IsText(k)

SmallSpec == SmallInit /\ [][RepliesNext]_<<vars, replyVars>>
====
