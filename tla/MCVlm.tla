------------------------------- MODULE MCVlm -------------------------------
(***************************************************************************)
(* Small conversations for VlmGenerate: pictures of at most 16 patches,    *)
(* merged two by two, and decoders of two layers.                          *)
(***************************************************************************)
EXTENDS VlmGenerate

Word(w) == <<w, 0>>
MCVocabulary == <<Word("yes"), Word("no"), Word("maybe"), Word("stop")>>
MCStops == {Word("stop")}

MCGeometry ==
    [patch |-> 1, merge |-> 2, temporal |-> 2, min |-> 4, max |-> 16, video_min |-> 8,
     video_max |-> 32, side |-> 4, depth |-> 2, taps |-> <<0, 1>>,
     siglip_layers |-> 1, grid |-> 2, image_seq_length |-> 4]

Words == {"yes", "no", "maybe", "stop", "see", "and", "user", "assistant", "system", "end", "image_pad",
          "video_pad", "vision_start", "vision_end", "joy_image", "joy_start", "joy_end",
          "default_system"}
Router == [t \in {Word(w) : w \in Words} \cup {<<"seconds", n>> : n \in 0 .. 12} |->
             IF t \in {Word("yes"), Word("see"), ImagePad} THEN <<2, 1>> ELSE <<0, 3>>]

MCModels ==
    [qwen3_vl |-> [mixer |-> <<"gqa", "gqa">>, moe |-> <<FALSE, TRUE>>, half |-> 4,
                   section |-> <<2, 1, 1>>, kernel |-> 1, fused |-> 2, softcap |-> FALSE,
                   experts |-> 2, per_tok |-> 1, router |-> Router,
                   norm_topk |-> TRUE, shared_gate |-> TRUE],
     qwen3_5  |-> [mixer |-> <<"delta", "gated">>, moe |-> <<TRUE, FALSE>>, half |-> 3,
                   section |-> <<1, 1, 1>>, kernel |-> 3, fused |-> 2, softcap |-> FALSE,
                   experts |-> 2, per_tok |-> 1, router |-> Router,
                   norm_topk |-> TRUE, shared_gate |-> TRUE],
     deepseek |-> [mixer |-> <<"mla", "mla">>, moe |-> <<FALSE, TRUE>>, half |-> 1,
                   section |-> <<1, 0, 0>>, kernel |-> 1, fused |-> 2, softcap |-> FALSE,
                   experts |-> 2, per_tok |-> 1, router |-> Router,
                   norm_topk |-> FALSE, shared_gate |-> FALSE],
     llama    |-> [mixer |-> <<"gqa", "gqa">>, moe |-> <<FALSE, FALSE>>, half |-> 1,
                   section |-> <<1, 0, 0>>, kernel |-> 1, fused |-> 0, softcap |-> FALSE,
                   experts |-> 0, per_tok |-> 0, router |-> Router,
                   norm_topk |-> FALSE, shared_gate |-> FALSE],
     skewed   |-> [mixer |-> <<"gqa">>, moe |-> <<FALSE>>, half |-> 4,
                   section |-> <<2, 2, 2>>, kernel |-> 1, fused |-> 2, softcap |-> TRUE,
                   experts |-> 0, per_tok |-> 0, router |-> Router,
                   norm_topk |-> FALSE, shared_gate |-> FALSE]]

Picture(id, h, w, len) == [kind |-> "image", id |-> id, height |-> h, width |-> w, len |-> len]
Frames(n, h, w) == [i \in 1 .. n |-> [height |-> h, width |-> w, len |-> h * w]]
Film(id, frames, times) == [kind |-> "video", id |-> id, frames |-> frames, timestamps |-> times]
Text(tokens) == [kind |-> "text", tokens |-> tokens]
Say(role, content) == [role |-> role, content |-> content]

Plain == [params |-> [inv_t |-> 0, repetition_penalty |-> 1, repetition_context |-> 0,
                      top_k |-> 0, top_p |-> <<1, 1>>], mask |-> <<>>]
Shape(inv_t, penalty, top_k, top_p, mask) ==
    [params |-> [inv_t |-> inv_t, repetition_penalty |-> penalty, repetition_context |-> 3,
                 top_k |-> top_k, top_p |-> top_p], mask |-> mask]
Shapes ==
    {Shape(1, 1, 0, <<1, 2>>, <<>>), Shape(1, 2, 0, <<1, 1>>, <<>>), Shape(1, 2, 2, <<3, 4>>, <<>>),
     Shape(2, 1, 2, <<1, 1>>, <<FALSE, TRUE, TRUE, TRUE>>), Shape(0, 2, 0, <<1, 1>>, <<TRUE, TRUE>>),
     Shape(1, 1, 1, <<1, 2>>, <<FALSE, FALSE, FALSE, FALSE>>),
     Shape(1, 2, 3, <<1, 1>>, <<FALSE, TRUE, TRUE>>), Shape(1, 2, 3, <<3, 4>>, <<FALSE, TRUE, TRUE>>)}

Ask(provider, model, messages, shape) ==
    [provider |-> provider, model |-> model, messages |-> messages, shape |-> shape]
User(content) == <<Say("user", content)>>

Small == Picture("small", 2, 2, 4)
Wide == Picture("wide", 2, 4, 8)
Large == Picture("large", 6, 6, 36)
Short == Film("short", Frames(3, 2, 4), <<0, 1, 2>>)

Chats ==
    {User(<<Text(<<Word("see")>>), Wide>>), User(<<Large, Text(<<Word("and")>>), Small>>),
     User(<<Short, Text(<<Word("and")>>), Wide>>),
     <<Say("user", <<Small>>), Say("assistant", <<Text(<<Word("no")>>)>>), Say("user", <<Short>>)>>,
     User(<<Film("still", Frames(1, 4, 4), <<3>>)>>)}
Refusable ==
    {User(<<Wide, Text(<<ImagePad>>)>>), User(<<Picture("torn", 2, 4, 7)>>),
     User(<<Picture("sliver", 1, 201, 201)>>), User(<<Film("none", <<>>, <<>>)>>),
     User(<<Film("late", Frames(3, 2, 4), <<0, 1>>)>>),
     User(<<Film("mixed", <<[height |-> 2, width |-> 4, len |-> 8],
                            [height |-> 4, width |-> 2, len |-> 8]>>, <<0, 1>>)>>)}
Prompt == User(<<Text(<<Word("yes"), Word("see"), Word("no")>>)>>)
Captions ==
    {<<Say("system", <<Text(<<Word("no")>>)>>), Say("user", <<Wide, Text(<<JoyImage, Word("see")>>)>>)>>,
     User(<<Wide>>), User(<<Wide, Small>>), User(<<Text(<<Word("see")>>)>>),
     <<Say("system", <<Text(<<JoyImage>>)>>), Say("user", <<Wide>>)>>}

MCRequests ==
    {Ask("llama", model, chat, Plain) : model \in {"qwen3_vl", "qwen3_5"}, chat \in Chats \cup Refusable}
    \cup {Ask("llama", "skewed", User(<<Wide>>), Plain)}
    \cup {Ask("llama", model, Prompt, Plain) : model \in DOMAIN MCModels}
    \cup {Ask("llama", "llama", Prompt, shape) : shape \in Shapes}
    \cup {Ask("joycaption", "llama", chat, Plain) : chat \in Captions}

MCLogits == {<<4, 0, 0, 1>>, <<0, 1, 3, -4>>, <<2, 2, 2, 2>>}
MCDraws == {<<0, 4>>, <<1, 4>>, <<3, 4>>}
=============================================================================
