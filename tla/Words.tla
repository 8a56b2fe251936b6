------------------------------- MODULE Words -------------------------------
(***************************************************************************)
(* Machine words of WordBits bits (uint64_t in the code), as the set of    *)
(* the positions of their one bits: position 0 is the lowest.  | is \cup,  *)
(* & is \cap, ~ is Complement and ^ is Xor.                                *)
(***************************************************************************)
EXTENDS Naturals, FiniteSetsExt

CONSTANT WordBits

ASSUME WordBitsAssumption == WordBits \in Nat \ {0, 1}

Bit == 0 .. WordBits - 1
Word == SUBSET Bit
Zero == {}

Complement(w) == Bit \ w
Xor(v, w) == (v \ w) \cup (w \ v)

\* A shift by WordBits or more is undefined in C++; no caller here makes one.
ShiftL(w, k) == {b \in Bit : b - k \in w}
ShiftR(w, k) == {b \in Bit : b + k \in w}

LowBits(k) == {b \in Bit : b < k}

Value(w) == MapThenSumSet(LAMBDA b : 2 ^ b, w)
ToWord(n) == {b \in Bit : (n \div 2 ^ b) % 2 = 1}

(***************************************************************************)
(* next_power_of_2: the highest one bit of v - 1 is copied into every      *)
(* lower position (each shift doubles the length of the run of ones), and  *)
(* the increments wrap in WordBits bits.                                   *)
(***************************************************************************)
Smear(w, k) == w \cup ShiftR(w, k)

next_power_of_2(v) ==
  LET n == 2 ^ WordBits
      Smeared[k \in {0} \cup {2 ^ b : b \in Bit}] ==
        IF k = 0 THEN ToWord((v + n - 1) % n)
        ELSE Smear(Smeared[k \div 2], k)
      Top == Max({2 ^ b : b \in {c \in Bit : 2 ^ c < WordBits}})
      up == (Value(Smeared[Top]) + 1) % n
  IN IF up = 0 THEN 1 ELSE up
=============================================================================
