--------------------------- MODULE MCBatchDecode ----------------------------
(* Four requests with prompts of three lengths; one has no budget, and the   *)
(* others may stop at any of their tokens.                                   *)
EXTENDS BatchDecode

CONSTANTS text, more, eos

MCTokens == {text, more, eos}
MCStopTokens == <<{eos}, {}, {eos}, {eos}>>
MCBudget == <<3, 0, 2, 2>>
MCModels == {<<a, <<>>, b, c>> : a \in [1 .. 3 -> MCTokens],
              b \in [1 .. 2 -> {text, eos}], c \in [1 .. 2 -> {more, eos}]}
MCPrompt == <<<<text>>, <<more>>, <<more, text, more>>, <<text, more>>>>
=============================================================================
