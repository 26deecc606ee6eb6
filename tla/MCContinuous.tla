---------------------------- MODULE MCContinuous ----------------------------
(* Five requests over two slots: one of budget zero is admitted on the way,  *)
(* one waits at the end of the queue behind one that a first token retires.  *)
EXTENDS Continuous

CONSTANTS text, more, eos

MCTokens == {text, more, eos}
MCStopTokens == <<{eos}, {}, {eos}, {eos}, {}>>
MCBudget == <<2, 0, 3, 1, 0>>
MCModels == {<<a, <<>>, b, c, <<>>>> : a \in [1 .. 2 -> MCTokens],
              b \in [1 .. 3 -> MCTokens], c \in [1 .. 1 -> MCTokens]}
MCPrompt == <<<<text>>, <<more>>, <<more, text>>, <<text, more>>, <<more>>>>
=============================================================================
