----------------------------- MODULE GgufBlocks -----------------------------
(***************************************************************************)
(* Where the numbers of a quantized GGUF tensor are: for each type, which  *)
(* bits of a block every element is computed from                          *)
(* (src/src/gguf/dequant.rs).                                              *)
(*                                                                         *)
(* A layout gives, for element e of a block, the bits of each of its       *)
(* fields, lowest first; bit b of a block is bit b % 8 of its byte b \div 8*)
(* (words are little-endian).  What is then computed of the fields (the    *)
(* offset of a code, a codebook's entry) is left out.                      *)
(***************************************************************************)
EXTENDS Integers, Sequences, FiniteSets, TLC

\* from_tag
FromTag ==
    [tag \in {0, 1, 2, 3, 6, 7, 8, 10, 11, 12, 13, 14, 16, 17, 18, 19, 20, 21, 22, 23, 29, 30} |->
        CASE tag = 0 -> "F32"       [] tag = 1 -> "F16"       [] tag = 2 -> "Q4_0"
          [] tag = 3 -> "Q4_1"      [] tag = 6 -> "Q5_0"      [] tag = 7 -> "Q5_1"
          [] tag = 8 -> "Q8_0"      [] tag = 10 -> "Q2K"      [] tag = 11 -> "Q3K"
          [] tag = 12 -> "Q4K"      [] tag = 13 -> "Q5K"      [] tag = 14 -> "Q6K"
          [] tag = 16 -> "Iq2Xxs"   [] tag = 17 -> "Iq2Xs"    [] tag = 18 -> "Iq3Xxs"
          [] tag = 19 -> "Iq1S"     [] tag = 20 -> "Iq4Nl"    [] tag = 21 -> "Iq3S"
          [] tag = 22 -> "Iq2S"     [] tag = 23 -> "Iq4Xs"    [] tag = 29 -> "Iq1M"
          [] tag = 30 -> "BF16"]

\* block: elements and bytes.
Block ==
    [F32    |-> <<1, 4>>,     F16    |-> <<1, 2>>,     BF16   |-> <<1, 2>>,
     Q4_0   |-> <<32, 18>>,   Q4_1   |-> <<32, 20>>,   Q5_0   |-> <<32, 22>>,
     Q5_1   |-> <<32, 24>>,   Q8_0   |-> <<32, 34>>,   Iq4Nl  |-> <<32, 18>>,
     Q2K    |-> <<256, 84>>,  Q3K    |-> <<256, 110>>, Q4K    |-> <<256, 144>>,
     Q5K    |-> <<256, 176>>, Q6K    |-> <<256, 210>>, Iq4Xs  |-> <<256, 136>>,
     Iq2Xxs |-> <<256, 66>>,  Iq2Xs  |-> <<256, 74>>,  Iq2S   |-> <<256, 82>>,
     Iq3Xxs |-> <<256, 98>>,  Iq3S   |-> <<256, 110>>, Iq1S   |-> <<256, 50>>,
     Iq1M   |-> <<256, 56>>]

-----------------------------------------------------------------------------
\* n bits from one bit on of the byte or word at an offset; an f16; one nibble
\* of 16 bytes, the low ones first.
Bits(byte, first, n) == [k \in 1 .. n |-> 8 * byte + first + k - 1]
Half(byte) == Bits(byte, 0, 16)
Nibble(byte, e) == Bits(byte + (e % 16), 4 * (e \div 16), 4)

\* get_scale_min_k4: 6-bit scale and minimum of sub-block j, out of 12 bytes.
ScaleK4(q, j) ==
    IF j < 4 THEN Bits(q + j, 0, 6) ELSE Bits(q + j + 4, 0, 4) \o Bits(q + j - 4, 6, 2)
\* A minimum whose high bits are taken where the scale's are.
MinK4Swapped(q, j) ==
    IF j < 4 THEN Bits(q + j + 4, 0, 6) ELSE Bits(q + j + 4, 4, 4) \o Bits(q + j - 4, 6, 2)
MinK4(q, j) ==
    IF j < 4 THEN Bits(q + j + 4, 0, 6) ELSE Bits(q + j + 4, 4, 4) \o Bits(q + j, 6, 2)

\* dequant_q4_0 .. dequant_q8_0: 32 elements.
Legacy(type, e) ==
    CASE type = "Q4_0" -> [d |-> Half(0), code |-> Nibble(2, e)]
      [] type = "Q4_1" -> [d |-> Half(0), m |-> Half(2), code |-> Nibble(4, e)]
      [] type = "Q5_0" -> [d |-> Half(0), code |-> Nibble(6, e) \o Bits(2, e, 1)]
      [] type = "Q5_1" -> [d |-> Half(0), m |-> Half(2), code |-> Nibble(8, e) \o Bits(4, e, 1)]
      [] type = "Q8_0" -> [d |-> Half(0), code |-> Bits(2 + e, 0, 8)]

\* dequant_iq4_nl and dequant_iq4_xs: codes of one codebook, with one scale or
\* with one of 6 bits for each 32 elements.
Iq4(type, e) ==
    LET ib == e \div 32
    IN  CASE type = "Iq4Nl" -> [d |-> Half(0), code |-> Nibble(2, e)]
          [] type = "Iq4Xs" ->
               [d |-> Half(0), code |-> Nibble(8 + 16 * ib, e % 32),
                scale |-> Bits(4 + ib \div 2, 4 * (ib % 2), 4) \o Bits(2, 2 * ib, 2)]

\* The codes of a byte are 32 elements apart: four of 2 bits within a half of the
\* block, two of 4 within a quarter.
Crumb(byte, e) == Bits(byte + 32 * (e \div 128) + (e % 32), 2 * ((e % 128) \div 32), 2)
FarNibble(byte, e) == Bits(byte + 32 * (e \div 64) + (e % 32), 4 * ((e \div 32) % 2), 4)

\* dequant_q2_k and dequant_q3_k: 256 elements, a scale for each 16.
Scaled16(type, e) ==
    LET s == e \div 16
    IN  CASE type = "Q2K" ->
               [scale |-> Bits(s, 0, 4), min |-> Bits(s, 4, 4), code |-> Crumb(16, e),
                d |-> Half(80), dmin |-> Half(82)]
          [] type = "Q3K" ->
               [code |-> Crumb(32, e) \o Bits(e % 32, e \div 32, 1), d |-> Half(108),
                scale |-> Bits(96 + (s % 8), 4 * (s \div 8), 4)
                          \o Bits(104 + (s % 4), 2 * (s \div 4), 2)]

\* dequant_q4_k and dequant_q5_k: a scale and a minimum for each 32.
Scaled32(type, e) ==
    LET s == e \div 32
        base == [d |-> Half(0), dmin |-> Half(2), scale |-> ScaleK4(4, s), min |-> MinK4(4, s)]
    IN  CASE type = "Q4K" -> base @@ [code |-> FarNibble(16, e)]
          [] type = "Q5K" -> base @@ [code |-> FarNibble(48, e) \o Bits(16 + (e % 32), s, 1)]

\* dequant_q6_k: the high bits of a code lie as in Q2_K, the low ones of two
\* quarters of a half share their bytes with the other two.
Q6K(e) ==
    [code |-> Bits(64 * (e \div 128) + (e % 64), 4 * ((e % 128) \div 64), 4) \o Crumb(128, e),
     scale |-> Bits(192 + e \div 16, 0, 8), d |-> Half(208)]

-----------------------------------------------------------------------------
(* The IQ types: sub-blocks ib of 32 elements, in each four groups l of    *)
(* eight; an index names a grid point for eight elements, in the IQ3 types *)
(* for four.                                                               *)

\* dequant_iq2_xxs, dequant_iq2_xs, dequant_iq2_s
Grid2(type, e) ==
    LET ib == e \div 32
        l  == (e % 32) \div 8
    IN  CASE type = "Iq2Xxs" ->
               [d |-> Half(0), index |-> Bits(2 + 8 * ib + l, 0, 8),
                sign |-> Bits(6 + 8 * ib, 7 * l, 7), scale |-> Bits(6 + 8 * ib, 28, 4)]
          [] type = "Iq2Xs" ->
               [d |-> Half(0), index |-> Bits(2 + 2 * (4 * ib + l), 0, 9),
                sign |-> Bits(2 + 2 * (4 * ib + l), 9, 7),
                scale |-> Bits(66 + ib, 4 * (l \div 2), 4)]
          [] type = "Iq2S" ->
               [d |-> Half(0), index |-> Bits(2 + 4 * ib + l, 0, 8) \o Bits(66 + ib, 2 * l, 2),
                sign |-> Bits(34 + 4 * ib + l, e % 8, 1),
                scale |-> Bits(74 + ib, 4 * (l \div 2), 4)]

\* dequant_iq3_xxs and dequant_iq3_s
Grid3(type, e) ==
    LET ib   == e \div 32
        l    == (e % 32) \div 8
        four == (e % 32) \div 4
    IN  CASE type = "Iq3Xxs" ->
               [d |-> Half(0), index |-> Bits(2 + 8 * ib + four, 0, 8),
                sign |-> Bits(66 + 4 * ib, 7 * l, 7), scale |-> Bits(66 + 4 * ib, 28, 4)]
          [] type = "Iq3S" ->
               [d |-> Half(0), index |-> Bits(2 + 8 * ib + four, 0, 8) \o Bits(66 + ib, four, 1),
                sign |-> Bits(74 + 4 * ib + l, e % 8, 1),
                scale |-> Bits(106 + ib \div 2, 4 * (ib % 2), 4)]

\* dequant_iq1_s and dequant_iq1_m, whose d is spread over four words.
Grid1(type, e) ==
    LET ib == e \div 32
        l  == (e % 32) \div 8
    IN  CASE type = "Iq1S" ->
               [d |-> Half(0), delta |-> Bits(34 + 2 * ib, 15, 1),
                index |-> Bits(2 + 4 * ib + l, 0, 8) \o Bits(34 + 2 * ib, 3 * l, 3),
                scale |-> Bits(34 + 2 * ib, 12, 3)]
          [] type = "Iq1M" ->
               [d |-> Bits(48, 12, 4) \o Bits(50, 12, 4) \o Bits(52, 12, 4) \o Bits(54, 12, 4),
                scale |-> Bits(48 + 2 * (ib \div 2), 6 * (ib % 2) + 3 * (l \div 2), 3),
                index |-> Bits(4 * ib + l, 0, 8) \o Bits(32 + 2 * ib + l \div 2, 4 * (l % 2), 3),
                delta |-> Bits(32 + 2 * ib + l \div 2, 4 * (l % 2) + 3, 1)]

\* dequantize: the fields of every element of a block.
Layout(type) ==
    [e \in 0 .. Block[type][1] - 1 |->
        CASE type = "F32" -> [code |-> Bits(0, 0, 32)]
          [] type \in {"F16", "BF16"} -> [code |-> Half(0)]
          [] type \in {"Q4_0", "Q4_1", "Q5_0", "Q5_1", "Q8_0"} -> Legacy(type, e)
          [] type \in {"Iq4Nl", "Iq4Xs"} -> Iq4(type, e)
          [] type \in {"Q2K", "Q3K"} -> Scaled16(type, e)
          [] type \in {"Q4K", "Q5K"} -> Scaled32(type, e)
          [] type = "Q6K" -> Q6K(e)
          [] type \in {"Iq2Xxs", "Iq2Xs", "Iq2S"} -> Grid2(type, e)
          [] type \in {"Iq3Xxs", "Iq3S"} -> Grid3(type, e)
          [] OTHER -> Grid1(type, e)]

-----------------------------------------------------------------------------
\* No bit of a block belongs to two fields, or twice to one; the elements that
\* share a field are equally many neighbours; and every bit is some field's.
Sound(type) ==
    \E layout \in {Layout(type)} :
      LET n == Block[type][1]
          fields == DOMAIN layout[0]
          Stored(f) == {layout[e][f] : e \in 0 .. n - 1}
          uses == UNION {UNION {{<<f, bits, k>> : k \in DOMAIN bits} : bits \in Stored(f)} :
                           f \in fields}
      IN  /\ {use[2][use[3]] : use \in uses} = 0 .. 8 * Block[type][2] - 1
          /\ Cardinality(uses) = 8 * Block[type][2]
          /\ \A f \in fields :
               LET share == n \div Cardinality(Stored(f))
               IN  \A e \in 0 .. n - 1 : layout[e][f] = layout[e - (e % share)][f]
=============================================================================
