---------------------------- MODULE MCChatServer ----------------------------
(***************************************************************************)
(* Instances of ChatServer: markers of two symbols that begin alike, so that*)
(* every stage has something to hold back, and a few texts cut into tokens  *)
(* in every way.                                                            *)
(***************************************************************************)
EXTENDS ChatServer, WholeText

CONSTANT UniLevel  \* 1: symbols of one byte; 4: of up to four

MCWidth == IF UniLevel = 1
           THEN [x |-> 1, y |-> 1, lt |-> 1, T |-> 1, E |-> 1, C |-> 1, D |-> 1, bad |-> 3]
           ELSE [x |-> 1, e |-> 2, euro |-> 3, face |-> 4, lt |-> 1, T |-> 1, E |-> 1, C |-> 1, D |-> 1, bad |-> 3]

Bytes(symbols) ==
  FlattenSeq([n \in DOMAIN symbols |-> [i \in 1 .. MCWidth[symbols[n]] |-> <<symbols[n], i>>]])

MCReplacement == Bytes(<<"bad">>)
MCOpenThink  == Bytes(<<"lt", "T">>)
MCCloseThink == Bytes(<<"lt", "E">>)
MCOpenTool   == Bytes(<<"lt", "C">>)
MCCloseTool  == Bytes(<<"lt", "D">>)

Setup(thinking, primed, tools, stops) ==
  [thinking |-> thinking, primed |-> primed, tools |-> tools, stops |-> stops]

MCSetups ==
  IF UniLevel = 1
  THEN {Setup(FALSE, FALSE, FALSE, {}),
        Setup(FALSE, FALSE, TRUE, {}),
        Setup(TRUE, FALSE, FALSE, {}),
        Setup(TRUE, TRUE, FALSE, {Bytes(<<"x", "y">>)}),
        Setup(TRUE, FALSE, TRUE, {Bytes(<<"x", "y">>), Bytes(<<"y", "lt">>)})}
  ELSE {Setup(FALSE, FALSE, FALSE, {})}

MCTexts ==
  IF UniLevel = 1
  THEN {<<"lt", "T", "x", "lt", "E", "y">>,   \* reasoning, then an answer
        <<"x", "lt", "E", "x", "y">>,         \* reasoning begun by the prompt, then a stop
        <<"x", "lt", "C", "y", "lt", "D">>,   \* an answer, then a tool call
        <<"lt", "C", "y", "lt", "T">>,        \* a block that never closes, a marker in it
        <<"x", "lt", "lt", "T", "y">>,        \* a marker after its own beginning
        <<"y", "x", "x", "y", "lt">>,         \* a stop after its own beginning
        <<"y", "lt">>}                        \* a stop that ends as a marker begins
  ELSE {<<"x", "e", "x">>, <<"euro", "x">>, <<"face">>}

(* All ways to cut a text into pieces: after each of a set of its bytes. *)
Pieces(whole) ==
  {LET ends    == cuts \union {0, Len(whole)}
       Nth(n)  == CHOOSE c \in ends : Cardinality({d \in ends : d < c}) = n
   IN [k \in 1 .. Cardinality(ends) - 1 |-> SubSeq(whole, Nth(k - 1) + 1, Nth(k))] :
   cuts \in SUBSET (1 .. Len(whole) - 1)}

MCSayings ==
  {[pieces |-> p, eos |-> b] : p \in UNION {Pieces(Bytes(t)) : t \in MCTexts}, b \in BOOLEAN}
    \union {[pieces |-> <<>>, eos |-> b] : b \in BOOLEAN}

=============================================================================
