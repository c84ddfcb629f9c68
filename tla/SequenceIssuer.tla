--------------------------- MODULE SequenceIssuer ---------------------------
(***************************************************************************)
(* What docs/architecture.md "Global Run Sequence" promises of the run     *)
(* counter, whoever asks, fails, crashes or restarts: a number is handed   *)
(* out once, numbers only grow, and a number may be lost. RunStorage       *)
(* implements this with several SQLite connections.                        *)
(***************************************************************************)
EXTENDS Naturals, Sequences

VARIABLES counter,  \* the next number, 0 before there is a counter
          issued    \* the numbers handed out, in the order of their callers' returns

vars == <<counter, issued>>

Init == counter = 0 /\ issued = <<>>

\* A caller gets the number.
Issue ==
    /\ counter > 0
    /\ issued' = Append(issued, counter)
    /\ counter' = counter + 1

\* Numbers are passed over: the seed, a lost number, a backfill.
Skip ==
    /\ counter' \in Nat /\ counter' > counter
    /\ UNCHANGED issued

Next == Issue \/ Skip

Spec == Init /\ [][Next]_vars

---------------------------------------------------------------------------

TypeOK == counter \in Nat /\ issued \in Seq(Nat)

\* No number is handed out twice, and a later caller gets a larger one.
StrictlyIncreasing ==
    \A i, j \in DOMAIN issued : i < j => issued[i] < issued[j]
=============================================================================
