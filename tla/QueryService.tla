---------------------------- MODULE QueryService ----------------------------
(***************************************************************************)
(* What the accelerator promises its caller: the queries are answered one  *)
(* after the other, in the order given, each with the value the reference  *)
(* evaluation computes for it, and an answer once given does not change.   *)
(***************************************************************************)
EXTENDS Naturals, Sequences

VARIABLES expected,   \* the reference value of every query; it never changes
          answers     \* the answers so far

serviceVars == <<expected, answers>>

Init == answers = <<>>

Answer ==
  /\ Len(answers) < Len(expected)
  /\ answers' = Append(answers, expected[Len(answers) + 1])
  /\ UNCHANGED expected

Spec == Init /\ [][Answer]_serviceVars

=============================================================================
