--------------------------- MODULE MCPrefixReuse ----------------------------
(* Calls over a cache of two stored sequences: a first turn, a second turn   *)
(* whose prompt continues it, a prompt that shares part of both, and calls   *)
(* outside the prefix cache, one hosted and one without a budget.            *)
EXTENDS PrefixReuse

CONSTANTS sys, text, more, eos

MCRequests == 1 .. 5
MCTokens == {sys, text, more, eos}
MCStopTokens == <<{eos}, {eos}, {eos}, {}, {}>>
MCBudget == <<2, 2, 1, 2, 0>>
MCHosted == {4}
MCEntry == <<"generate_cached", "generate_cached", "generate_cached",
             "generate_with", "generate_with_cache">>
MCPrompt == <<<<sys, text>>, <<sys, text, text, sys>>, <<sys, text, text>>, <<sys>>, <<sys, text>>>>

(* Only a last token of a full budget is more, which no prompt holds: no     *)
(* prompt reaches past the keys and values of a stored sequence.  A first    *)
(* and a third call that stop leave the same sequence.                       *)
MCModels == {<<a, b, <<eos>>, <<text, more>>, <<>>>> :
               a \in {<<text, eos>>, <<text, more>>},
               b \in {<<eos, more>>, <<text, more>>}}

(* Here the first turn spends its budget on text and the second continues it.*)
MCModelsBudget == {<<<<text, text>>, <<text, eos>>, <<more>>, <<text, more>>, <<>>>>}
MCPromptBudget == <<<<sys, text>>, <<sys, text, text, text, sys>>, <<sys>>, <<sys>>, <<sys, text>>>>
=============================================================================
