------------------------------- MODULE Stages -------------------------------
(***************************************************************************)
(* The deterministic stages of fuzz_one on one small input: which mutants  *)
(* of it the target is run on, in which order, and which are left out as   *)
(* the work of an earlier stage (could_be_bitflip, could_be_arith,         *)
(* could_be_interest) or because they change only bytes that the effector  *)
(* map calls ineffective.                                                  *)
(*                                                                         *)
(* Inputs have at most three bytes, so the 32-bit stages do not run.  One  *)
(* step is one turn of a stage's loops: a call of common_fuzz_stuff, or a  *)
(* mutant left out.  Host words are little endian.                         *)
(***************************************************************************)
EXTENDS Integers, Sequences, FiniteSets

CONSTANTS
  Inputs,            \* the buffers to fuzz: sequences of one to three bytes
  ArithMax,          \* ARITH_MAX
  Interesting8,      \* the numbers of interesting_8
  Interesting16,     \* the numbers of interesting_16
  EffChunk,          \* 1 << EFF_MAP_SCALE2, the bytes that share an effector flag
  EffMinLen,         \* EFF_MIN_LEN
  EffMaxPerc         \* EFF_MAX_PERC

Byte == 0 .. 255
NoRepeats(s) == \A i, j \in DOMAIN s : s[i] = s[j] => i = j

ASSUME InputsAssumption == \A b \in Inputs : b \in Seq(Byte) /\ Len(b) \in 1 .. 3
ASSUME ArithAssumption == ArithMax \in 1 .. 127
ASSUME InterestingAssumption ==
  /\ Interesting8 \in Seq(Int) \ {<<>>} /\ NoRepeats(Interesting8)
  /\ \A j \in DOMAIN Interesting8 : -128 <= Interesting8[j] /\ Interesting8[j] <= 127
  /\ Interesting16 \in Seq(Int) \ {<<>>} /\ NoRepeats(Interesting16)
  /\ \A j \in DOMAIN Interesting16 : -32768 <= Interesting16[j] /\ Interesting16[j] <= 32767
ASSUME EffAssumption == EffChunk \in Nat \ {0} /\ EffMinLen \in Nat /\ EffMaxPerc \in Nat

VARIABLES
  buf,                     \* in_buf
  stage, place, variant,   \* the stage and its two loops, both counted from one
  eff_map,
  \* history: the buffers the target was run on, and those it was run on again
  executed, repeated

vars == <<buf, stage, place, variant, eff_map, executed, repeated>>

\* The stages in their order, each with the one that comes after it.
After == [flip1  |-> "flip2",  flip2   |-> "flip4", flip4 |-> "flip8",
          flip8  |-> "flip16", flip16  |-> "arith8",
          arith8 |-> "arith16", arith16 |-> "int8",
          int8   |-> "int16",  int16   |-> "done"]

LastPlace(s) ==
  CASE s = "flip1" -> 8 * Len(buf)
    [] s = "flip2" -> 8 * Len(buf) - 1
    [] s = "flip4" -> 8 * Len(buf) - 3
    [] s \in {"flip8", "arith8", "int8"} -> Len(buf)
    [] s \in {"flip16", "arith16", "int16"} -> Len(buf) - 1

\* What a stage tries in one place.
Variants(s) ==
  CASE s = "arith8"  -> 2 * ArithMax
    [] s = "arith16" -> 4 * ArithMax
    [] s = "int8"    -> Len(Interesting8)
    [] s = "int16"   -> 2 * Len(Interesting16)
    [] OTHER         -> 1

-----------------------------------------------------------------------------
(* Bytes, words and bits.                                                  *)

U8_Int(v) == v             \* mutant: an int that is not cut to a byte
U8(v) == v % 256
U16(v) == v % 65536
Swap16(w) == U8(w) * 256 + w \div 256

Word(i) == buf[i] + 256 * buf[i + 1]
WithByte(i, v) == [buf EXCEPT ![i] = v]
WithWord(i, v) == [buf EXCEPT ![i] = U8(v), ![i + 1] = v \div 256]
WordPlaces == 1 .. Len(buf) - 1

Bit(v, q) == (v \div 2 ^ q) % 2

\* A byte with the bits of S turned over.
Flipped(v, S) ==
  LET d(q) == IF q \in S THEN (1 - 2 * Bit(v, q)) * 2 ^ q ELSE 0
  IN v + d(0) + d(1) + d(2) + d(3) + d(4) + d(5) + d(6) + d(7)

\* FLIP_BIT, which counts bits from the most significant one of the first byte,
\* on n bits from bit k.
FlipBits(k, n) ==
  [i \in DOMAIN buf |-> Flipped(buf[i], {q \in 0 .. 7 : 8 * i - 1 - q \in k .. k + n - 1})]

-----------------------------------------------------------------------------
(* The filters.                                                            *)

\* The bits set in the xor of two bytes or words.
DiffBits(a, b) == {q \in 0 .. 15 : Bit(a, q) # Bit(b, q)}

\* Mutant: runs of 8 and 16 bits are taken for flips wherever they are.
CouldBeBitflip_Unaligned(a, b) ==
  LET D == DiffBits(a, b) IN
    D = {} \/ \E sh \in 0 .. 15, n \in {1, 2, 4, 8, 16} : D = sh .. sh + n - 1

\* Runs of 1, 2 and 4 bits anywhere, of 8 and 16 at a byte's border.
CouldBeBitflip(a, b) ==
  LET D == DiffBits(a, b) IN
    \/ D = {}
    \/ \E sh \in 0 .. 15, n \in {1, 2, 4} : D = sh .. sh + n - 1
    \/ \E sh \in {0, 8}, n \in {8, 16} : D = sh .. sh + n - 1

Near8(a, b) == U8(a - b) <= ArithMax \/ U8(b - a) <= ArithMax
Near16(a, b) == U16(a - b) <= ArithMax \/ U16(b - a) <= ArithMax

\* By an adjustment of one byte, or of the word in either byte order.
CouldBeArith8(old, new) == old = new \/ Near8(old, new)
CouldBeArith16_OneOrder(old, new) ==      \* mutant: one byte order only
  \/ old = new
  \/ U8(old) = U8(new) /\ Near8(old \div 256, new \div 256)
  \/ old \div 256 = new \div 256 /\ Near8(U8(old), U8(new))
  \/ Near16(old, new)
CouldBeArith16(old, new) ==
  \/ old = new
  \/ U8(old) = U8(new) /\ Near8(old \div 256, new \div 256)
  \/ old \div 256 = new \div 256 /\ Near8(U8(old), U8(new))
  \/ Near16(old, new)
  \/ Near16(Swap16(old), Swap16(new))

\* By a byte of interesting_8 in either place, or, asked for the big-endian
\* variant, by a word of interesting_16 in little endian.
CouldBeInterest16(old, new, check_le) ==
  \/ old = new
  \/ \E j \in DOMAIN Interesting8 :
       LET v == U8(Interesting8[j]) IN
         \/ new = (old - U8(old)) + v
         \/ new = U8(old) + 256 * v
  \/ check_le /\ \E j \in DOMAIN Interesting16 : new = U16(Interesting16[j])

-----------------------------------------------------------------------------
(* The stages: the mutant of each place and variant, and whether it is run. *)

Apos(i) == (i - 1) \div EffChunk + 1      \* EFF_APOS
Alen == Apos(Len(buf))                    \* EFF_ALEN
EffByte(i) == eff_map[Apos(i)]
EffWord(i) == EffByte(i) \/ EffByte(i + 1)

\* 1, -1, 2, -2, ...
Delta8(v) == IF v % 2 = 1 THEN (v + 1) \div 2 ELSE -(v \div 2)
Sum8(orig, v) == U8(orig + Delta8(v))

\* Little endian 1 and -1, big endian 1 and -1, little endian 2 and -2, ...
LittleEndian(v) == v % 4 \in {1, 2}
Delta16(v) == IF v % 2 = 1 THEN (v + 3) \div 4 ELSE -((v + 3) \div 4)
Sum16(orig, v) == IF LittleEndian(v) THEN U16(orig + Delta16(v))
                                     ELSE Swap16(U16(Swap16(orig) + Delta16(v)))

\* A word is changed only if the low byte, in the byte order used, carries over.
Carries(orig, v) ==
  U8(IF LittleEndian(v) THEN orig ELSE Swap16(orig)) + Delta16(v) \notin Byte

\* Each number in little endian, then in big endian.
Number16(v) == LET w == U16(Interesting16[(v + 1) \div 2]) IN
                 IF v % 2 = 1 THEN w ELSE Swap16(w)

Mutant(s, p, v) ==
  CASE s = "flip1"   -> FlipBits(p - 1, 1)
    [] s = "flip2"   -> FlipBits(p - 1, 2)
    [] s = "flip4"   -> FlipBits(p - 1, 4)
    [] s = "flip8"   -> FlipBits(8 * (p - 1), 8)
    [] s = "flip16"  -> FlipBits(8 * (p - 1), 16)
    [] s = "arith8"  -> WithByte(p, Sum8(buf[p], v))
    [] s = "arith16" -> WithWord(p, Sum16(Word(p), v))
    [] s = "int8"    -> WithByte(p, U8(Interesting8[v]))
    [] s = "int16"   -> WithWord(p, Number16(v))

New(s, p, v) ==
  CASE s \in {"flip1", "flip2", "flip4", "flip8"} -> TRUE
    [] s = "flip16"  -> EffWord(p)
    [] s = "arith8"  -> EffByte(p) /\ ~CouldBeBitflip(buf[p], Sum8(buf[p], v))
    [] s = "arith16" -> /\ EffWord(p)
                        /\ Carries(Word(p), v)
                        /\ ~CouldBeBitflip(Word(p), Sum16(Word(p), v))
    [] s = "int8"    -> /\ EffByte(p)
                        /\ ~CouldBeBitflip(buf[p], U8(Interesting8[v]))
                        /\ ~CouldBeArith8(buf[p], U8(Interesting8[v]))
    [] s = "int16"   -> /\ EffWord(p)
                        /\ v % 2 = 1 \/ Number16(v) # Swap16(Number16(v))
                        /\ ~CouldBeBitflip(Word(p), Number16(v))
                        /\ ~CouldBeArith16(Word(p), Number16(v))
                        /\ ~CouldBeInterest16(Word(p), Number16(v), v % 2 = 0)

-----------------------------------------------------------------------------
(* Steps.                                                                  *)

TypeOK ==
  /\ buf \in Inputs
  /\ stage \in DOMAIN After \cup {"done", "abandoned"}
  /\ stage \in DOMAIN After => /\ place \in 1 .. LastPlace(stage) + 1
                               /\ variant \in 1 .. Variants(stage)
  /\ eff_map \in [1 .. Alen -> BOOLEAN]
  /\ executed \subseteq [DOMAIN buf -> Byte]
  /\ repeated \subseteq executed

Init ==
  /\ buf \in Inputs
  /\ stage = "flip1" /\ place = 1 /\ variant = 1
  /\ eff_map = [p \in 1 .. Alen |-> p \in {1, Alen}]
  /\ executed = {} /\ repeated = {}

\* Below EFF_MIN_LEN every byte counts as effective; above, a byte whose flip left
\* the trace's checksum alone does not.
Effective(p) == eff_map[p] \/ Len(buf) < EffMinLen

InStage == stage \in DOMAIN After /\ place <= LastPlace(stage)

Advance ==
  IF variant < Variants(stage) THEN variant' = variant + 1 /\ UNCHANGED place
                               ELSE variant' = 1 /\ place' = place + 1

Exec ==
  /\ InStage /\ New(stage, place, variant)
  /\ LET out_buf == Mutant(stage, place, variant) IN
       /\ executed' = executed \cup {out_buf}
       /\ repeated' = IF out_buf \in executed THEN repeated \cup {out_buf} ELSE repeated
  /\ IF stage = "flip8"
       THEN \E changed \in (IF Effective(Apos(place)) THEN {TRUE} ELSE BOOLEAN) :
              eff_map' = [eff_map EXCEPT ![Apos(place)] = changed]
       ELSE UNCHANGED eff_map
  /\ Advance
  /\ UNCHANGED <<buf, stage>>

\* A mutant that is filtered out costs no run: "continue", or "stage_max--".
Skip ==
  /\ InStage /\ ~New(stage, place, variant)
  /\ Advance
  /\ UNCHANGED <<buf, stage, eff_map, executed, repeated>>

\* A map that is almost full is made full.
Dense == (Cardinality({p \in DOMAIN eff_map : eff_map[p]}) * 100) \div Alen > EffMaxPerc

NextStage ==
  /\ stage \in DOMAIN After /\ place > LastPlace(stage)
  /\ stage' = After[stage]
  /\ place' = 1 /\ variant' = 1
  /\ eff_map' = IF stage = "flip8" /\ Dense THEN [p \in DOMAIN eff_map |-> TRUE] ELSE eff_map
  /\ UNCHANGED <<buf, executed, repeated>>

\* common_fuzz_stuff asks for the entry to be abandoned: stop_soon, SIGUSR1, or too
\* many timeouts in a row.
Abandon ==
  /\ InStage /\ New(stage, place, variant)
  /\ stage' = "abandoned"
  /\ UNCHANGED <<buf, place, variant, eff_map, executed, repeated>>

Next == Exec \/ Skip \/ NextStage \/ Abandon

Spec == Init /\ [][Next]_vars

-----------------------------------------------------------------------------
(* Properties.                                                             *)

\* What the stages are to cover: every walking flip, and with any byte or word
\* that is not all ineffective every sum, difference and interesting number.
Changed(m) == {i \in DOMAIN buf : m[i] # buf[i]}
ByteValues(i) == {U8(buf[i] + j) : j \in -ArithMax .. ArithMax}
                   \cup {U8(Interesting8[j]) : j \in DOMAIN Interesting8}
WordValues(i) ==
  LET interesting == {U16(Interesting16[j]) : j \in DOMAIN Interesting16} IN
    {U16(Word(i) + j) : j \in -ArithMax .. ArithMax}
      \cup {Swap16(U16(Swap16(Word(i)) + j)) : j \in -ArithMax .. ArithMax}
      \cup interesting \cup {Swap16(w) : w \in interesting}
Flips == UNION {{FlipBits(k - 1, n) : k \in 1 .. 8 * Len(buf) - n + 1} : n \in {1, 2, 4}}
Inserted == (UNION {{WithByte(i, v) : v \in ByteValues(i)} : i \in DOMAIN buf})
              \cup (UNION {{WithWord(i, v) : v \in WordValues(i)} : i \in WordPlaces})
Wanted == Flips \cup {m \in Inserted : \E i \in Changed(m) : EffByte(i)}

\* The two readings of "2 or 4 bits in a row across the border of two bytes": the
\* filter's, on a little-endian word, and the one of FLIP_BIT.
AcrossBorder == {7 .. 8, 5 .. 8, 6 .. 9, 7 .. 10}
MutantWord(i, m) == m[i] + 256 * m[i + 1]
AcrossInWord(m) == \E i \in WordPlaces :
  Changed(m) = {i, i + 1} /\ DiffBits(Word(i), MutantWord(i, m)) \in AcrossBorder
AcrossInFlip(m) == \E i \in WordPlaces :
  /\ Changed(m) = {i, i + 1}
  /\ DiffBits(Swap16(Word(i)), Swap16(MutantWord(i, m))) \in AcrossBorder

\* The filters lose nothing: when the stages are done, every mutant they are to
\* cover was run, in that stage or in an earlier one ("see if a particular change
\* could be a product of deterministic bit flips with the lengths and stepovers
\* attempted by afl-fuzz").  Not so where could_be_bitflip takes two or four bits
\* across a byte border of the word for a walking flip, which FLIP_BIT does not make.
NothingSkipped ==
  stage = "done" => {m \in Wanted \ {buf} : ~AcrossInWord(m)} \subseteq executed

\* And they leave out what was run before ("used to avoid dupes"): with one or two
\* bytes nothing is run twice, nor the input itself, but for the flips of two and
\* four bits across the byte border, which could_be_bitflip does not recognise.
NoDupes ==
  Len(buf) <= 2 => buf \notin executed /\ \A m \in repeated : AcrossInFlip(m)
=============================================================================
