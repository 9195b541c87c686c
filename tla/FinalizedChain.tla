--------------------------- MODULE FinalizedChain ---------------------------
(***************************************************************************)
(* What consensus promises to execution: the blocks it finalizes form one  *)
(* chain that only grows, each block coming right after its parent, and    *)
(* only blocks that execution was given before are finalized.              *)
(***************************************************************************)
EXTENDS Sequences, Integers

CONSTANTS Block, Genesis, parent

VARIABLES
    chain,  \* finalized blocks, oldest first
    given   \* blocks handed to execution so far

Linked(s) == \A i \in 2..Len(s) : parent[s[i]] = s[i - 1]

Init == chain = <<Genesis>> /\ given = {}

Give == given' \in SUBSET Block /\ given \subseteq given'

(* One handler may hand over and finalize several blocks.                  *)
Extend ==
    /\ Len(chain) <= Len(chain')
    /\ SubSeq(chain', 1, Len(chain)) = chain
    /\ Linked(chain')
    /\ \A i \in Len(chain) + 1..Len(chain') : chain'[i] \in given'

Next == Give /\ Extend

Spec == Init /\ [][Next]_<<chain, given>>
=============================================================================
