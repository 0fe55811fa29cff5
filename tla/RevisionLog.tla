----------------------------- MODULE RevisionLog -----------------------------
(***************************************************************************)
(* What the workspace promises about the history of a project: revisions   *)
(* are only ever appended, one at a time, each on top of the last one and  *)
(* each written against exactly that one.  Nothing is rewritten, dropped   *)
(* or branched, whatever requests race and wherever the process dies.      *)
(***************************************************************************)
EXTENDS Naturals, Sequences

CONSTANTS Ids, None

VARIABLE history         \* sequence of [id, parent, base]

Tip == IF history = <<>> THEN None ELSE history[Len(history)].id

Init == history = <<>> \/ \E i \in Ids : history = <<[id |-> i, parent |-> None, base |-> None]>>

Grow ==
    \E i \in Ids : history' = Append(history, [id |-> i, parent |-> Tip, base |-> Tip])

Spec == Init /\ [][Grow]_history
=============================================================================
