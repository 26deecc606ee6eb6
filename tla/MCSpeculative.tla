--------------------------- MODULE MCSpeculative ----------------------------
(* A budget of five tokens and two drafts per step: a step accepts none, one *)
(* or both drafts, and the last step's drafts are cut by the budget.  Two    *)
(* more requests have a budget of one, spent before the loop, and of zero.   *)
EXTENDS Speculative

CONSTANTS a, b, eos

MCRequests == 1 .. 3
MCTokens == {a, b, eos}
MCStopTokens == [r \in MCRequests |-> {eos}]
MCBudget == <<5, 1, 0>>
MCPrompt == <<<<a, b>>, <<a>>, <<b>>>>
MCModels == {<<s, <<a>>, <<>>>> : s \in [1 .. 5 -> MCTokens]}
=============================================================================
