----------------------------- MODULE MCKeygenTool -----------------------------
(* Two invocations with the same prefix, and a lifetime of sixteen epochs.    *)
EXTENDS KeygenTool, TLC

CONSTANTS a, b

MCInvocation == {a, b}
Symmetric == Permutations(MCInvocation)

MCOneInvocation == {a}
MCEpochs == {7, 16, 17}
MCRuns == {1, 2}

(* Every count up to one more than the lifetime.                              *)
MCAllEpochs == 1..Lifetime + 1
===============================================================================
