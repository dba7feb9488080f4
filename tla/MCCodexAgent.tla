----------------------------- MODULE MCCodexAgent -----------------------------
\* Instances of CodexAgent for TLC.
EXTENDS CodexAgent, TLC

TwoPreviews == {[items |-> {0}, invalid |-> {}, gaps |-> "deferred"],
                [items |-> {0}, invalid |-> {0}, gaps |-> "other"]}
OnePreview == {[items |-> {0}, invalid |-> {}, gaps |-> "none"]}

Symmetry == Permutations(Agent) \cup Permutations(Credential)
=============================================================================
