------------------------------ MODULE Interning ------------------------------
(***************************************************************************)
(* What a unique table promises: every structure in it has one name, which *)
(* is its own and stays the same until the structure is dropped; a name    *)
(* that was given once is never given again.                               *)
(***************************************************************************)
VARIABLES name,     \* from the structures present to their names
          issued    \* the names given so far

interningVars == <<name, issued>>

Init == name = <<>> /\ issued = {}

Intern ==
  \E s \in DOMAIN name' \ DOMAIN name, x \in issued' \ issued :
    /\ name' = [r \in DOMAIN name \cup {s} |-> IF r = s THEN x ELSE name[r]]
    /\ issued' = issued \cup {x}

Drop == /\ DOMAIN name' \subseteq DOMAIN name
        /\ name' = [s \in DOMAIN name' |-> name[s]]
        /\ UNCHANGED issued

Spec == Init /\ [][Intern \/ Drop]_interningVars

=============================================================================
