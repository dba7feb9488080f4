---------------------------- MODULE MCAiUsage -----------------------------
(***************************************************************************)
(* Instances of AiUsage for TLC: costs of one to three micro-dollars.       *)
(***************************************************************************)
EXTENDS AiUsage, TLC

\* Passages that cost one unit.
Document == [purpose |-> "document", input_price |-> 0, output_price |-> 0,
             input |-> 1, output |-> 0]

\* An answer that costs one unit, or two when it has output: each is rounded up.
Answered == [purpose |-> "answer", input_price |-> 700000, output_price |-> 700000,
             input |-> 1, output |-> 1]

\* The same bounds under a later price.
Dearer == [Answered EXCEPT !.output_price = 1700000]

Requests == {Document, Answered, Dearer}

Limit(n) == [r \in Run |-> n]
Two == Limit(2)
Four == Limit(4)

Symmetry == Permutations(AttemptId) \cup Permutations(Caller)
=============================================================================
