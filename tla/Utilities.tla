----------------------------- MODULE Utilities ------------------------------
(***************************************************************************)
(* Calls of the pure functions of common/apsi/util, each on every input of *)
(* the bounded sets given here; call holds its name, then its arguments    *)
(* and its result, which the properties compare with what the function is  *)
(* to compute.                                                             *)
(***************************************************************************)
EXTENDS Numbers, Buffers, Interpolation

CONSTANTS
  MaxNumber,     \* numbers go from 0 to this
  Point,         \* points, roots and values: some of the residues
  MaxPoints,     \* the longest list of them
  Text,          \* strings to split
  Delim,
  Buffer,        \* buffers, all of the same length
  Stream,        \* streams to read from
  LabelText,     \* labels
  Nonce,
  Key,
  Idle

VARIABLE call

Number == 0 .. MaxNumber
Vectors == UNION {[0 .. n - 1 -> Point] : n \in 0 .. MaxPoints}

Init == call = <<Idle>>

Return(fn, a, b, result) ==
  /\ call = <<Idle>>
  /\ call' = <<fn, [a |-> a, b |-> b, result |-> result]>>

CallNumbers ==
  \E a, b \in Number :
    \/ b > 1 /\ Return("conversion_to_digits", a, b, conversion_to_digits(a, b))
    \/ a < 2 ^ WordBits /\ b = 0 /\ Return("next_power_of_2", a, b, next_power_of_2(a))
    \/ b > 0 /\ Return("round_up_to", a, b, round_up_to(a, b, WordBits))
    \/ Return("partition_evenly", a, b, partition_evenly(a, b))
    \/ Return("create_powers_set", a, b, create_powers_set(a, b))
    \/ Return("get_parms_id_for_chain_idx", a, b, get_parms_id_for_chain_idx(a, b))

CallText == \E s \in Text : Return("split", s, Delim, split(s, Delim))

CallBuffers ==
  \E a, b \in Buffer \cup {Null} :
    \/ \E count \in 0 .. Len(CHOOSE c \in Buffer : TRUE) :
         \/ Return("copy_bytes", <<a, b>>, count, copy_bytes(a, count, b))
         \/ Return("compare_bytes", <<a, b>>, count, compare_bytes(a, b, count))
         \/ Null \notin {a, b} /\ Return("xor_buffers", <<a, b>>, count, xor_buffers(a, b, count))

CallStream == \E in \in Stream : Return("read_from_stream", in, 0, read_from_stream(in))

CallLabels ==
  \E label \in LabelText, nonce \in Nonce, key \in Key, n \in 0 .. 3 :
    \/ LET sent == encrypt_label(label, key, n, nonce)
       IN Return("encrypt_label", <<label, nonce>>, n,
                 IF sent = invalid_argument THEN sent ELSE decrypt_label(sent, key, Len(nonce)))
    \/ Return("decrypt_label", <<label, key>>, n, decrypt_label(label, key, n))
    \/ n > 0 /\ Return("get_as", label, n, get_as(label, n))

CallBitstrings ==
  \E data \in LabelText, n \in Number :
    \/ Return("Bitstring", data, n, Bitstring(data, n))
    \/ Return("BitstringView", data, n, BitstringView(data, n))
    \/ Return("to_bitstring", data, n, to_bitstring([i \in DOMAIN data |-> data[i] # Zero], n))

CallPolynomials ==
  \E a \in Vectors :
    \/ Return("polyn_with_roots", a, Zeros(0), polyn_with_roots(a))
    \/ \E b \in Vectors :
         Return("newton_interpolate_polyn", a, b, newton_interpolate_polyn(a, b))

Next ==
  \/ CallNumbers
  \/ CallText
  \/ CallBuffers
  \/ CallStream
  \/ CallLabels
  \/ CallBitstrings
  \/ CallPolynomials

Spec == Init /\ [][Next]_call

(***************************************************************************)
(* What a call is to return.                                               *)
(***************************************************************************)
DigitsOf(n, base, d) ==
  /\ n = MapThenSumSet(LAMBDA i : d[i] * base ^ (i - 1), DOMAIN d)
  /\ \A i \in DOMAIN d : d[i] \in 0 .. base - 1
  /\ d # <<>> => Last(d) # 0

LeastPower(n, p) ==
  \/ n > 2 ^ (WordBits - 1) /\ p = 1        \* it has no room in a word
  \/ n <= 2 ^ (WordBits - 1) /\ \E k \in Bit : p = 2 ^ k /\ n <= p /\ (k > 0 => p < 2 * n)

LeastMultiple(n, step, m) ==
  n + step - 1 < 2 ^ WordBits => m % step = 0 /\ m - step < n /\ n <= m

EvenPartition(count, parts, p) ==
  /\ Len(p) = (IF parts = 0 THEN 0 ELSE Least(count, parts))
  /\ p # <<>> => p[1][1] = 0 /\ p[Len(p)][2] = count
  /\ \A i \in 2 .. Len(p) : p[i][1] = p[i - 1][2]
  /\ \A i, j \in DOMAIN p : p[i][1] < p[i][2] /\ p[i][2] - p[i][1] <= p[j][2] - p[j][1] + 1

\* Every power up to the target is a low power, a high power or their product.
PowersReach(low, target, s) ==
  IF low > target \/ target = 0 THEN s = invalid_argument
  ELSE LET low_powers == 0 .. low
           high_powers == {0} \cup {p \in s : p > low}
       IN /\ s \subseteq 1 .. target
          /\ \A d \in 1 .. target : \E l \in low_powers, h \in high_powers : d = l + h
          /\ low > 0 => Cardinality(s) = low + target \div (low + 1)

Joined(fields, delim) == FlattenSeq([i \in DOMAIN fields |-> Append(fields[i], delim)])

(***************************************************************************)
(* The number and text functions compute what they are named for, also in  *)
(* the cases their comments leave out: what has no room in a word yields   *)
(* 1, a text that does not end with the delimiter keeps its last part.     *)
(***************************************************************************)
NumbersExact ==
  LET a == call[2].a
      b == call[2].b
      r == call[2].result IN
  /\ call[1] = "conversion_to_digits" => DigitsOf(a, b, r)
  /\ call[1] = "next_power_of_2" => LeastPower(a, r)
  /\ call[1] = "round_up_to" => LeastMultiple(a, b, r)
  /\ call[1] = "partition_evenly" => EvenPartition(a, b, r)
  /\ call[1] = "create_powers_set" => PowersReach(a, b, r)
  /\ call[1] = "get_parms_id_for_chain_idx" => r = Least(a, b)
  /\ call[1] = "split" =>
       Joined(r, b) = IF a = <<>> \/ Last(a) = b THEN a ELSE Append(a, b)

(***************************************************************************)
(* Bytes: copied, compared and combined as far as they are to be, a null   *)
(* buffer being refused by compare_bytes, and by copy_bytes when there is  *)
(* something to copy (its comment, utils.h:209-212, says always: the code  *)
(* returns first when count is 0, and nothing is said of that here).  What *)
(* a stream is short of is zeros.  A label comes back from its encryption, *)
(* cut or filled with zeros; whatever decrypt_label returns encrypts to    *)
(* what it was given.  A bit string is the first bytes of its data, and    *)
(* that of an item has a byte for each of the item's first bits.           *)
(***************************************************************************)
Refused(r, expected) == (r = invalid_argument) <=> expected

CopiesExact ==
  LET a == call[2].a
      b == call[2].b
      r == call[2].result IN
  /\ call[1] = "copy_bytes" /\ b > 0 =>
       /\ Refused(r, Null \in {a[1], a[2]})
       /\ r # invalid_argument =>
            SubSeq(r, 1, b) = SubSeq(a[1], 1, b) /\ \A i \in b + 1 .. Len(r) : r[i] = a[2][i]
  /\ call[1] = "compare_bytes" =>
       /\ Refused(r, Null \in {a[1], a[2]})
       /\ r # invalid_argument => (r <=> SubSeq(a[1], 1, b) = SubSeq(a[2], 1, b))
  /\ call[1] = "xor_buffers" =>
       \A i \in DOMAIN r : r[i] = IF i <= b THEN Xor(a[1][i], a[2][i]) ELSE a[1][i]
  /\ call[1] = "read_from_stream" =>
       LET size == IF a = <<>> THEN 0 ELSE Value(a[1])
       IN Len(r) = size + 1 /\ \A i \in 2 .. size + 1 : r[i] = IF i <= Len(a) THEN a[i] ELSE Zero

LabelsExact ==
  LET a == call[2].a
      b == call[2].b
      r == call[2].result IN
  /\ call[1] = "encrypt_label" =>
       /\ Refused(r, Len(a[2]) > MaxNonceBytes)
       /\ r # invalid_argument => r = Fitted(a[1], b)
  /\ call[1] = "decrypt_label" =>
       /\ Refused(r, b > MaxNonceBytes \/ b > Len(a[1]))
       /\ r # invalid_argument => encrypt_label(r, a[2], Len(r), SubSeq(a[1], 1, b)) = a[1]
  /\ call[1] = "get_as" => FlattenSeq(r) = SubSeq(a, 1, Len(a) - (Len(a) % b))
  /\ call[1] \in {"Bitstring", "BitstringView", "to_bitstring"} =>
       /\ Refused(r, b = 0 \/ b > Len(a) * ByteBits)
       /\ r # invalid_argument => Len(r.data) * ByteBits \in b .. b + ByteBits - 1 /\ r.bit_count = b
  /\ call[1] \in {"Bitstring", "BitstringView"} /\ r # invalid_argument => IsPrefix(r.data, a)
  /\ call[1] = "to_bitstring" /\ r # invalid_argument =>
       \A i \in DOMAIN r.data : Value(r.data[i]) = IF a[i] # Zero THEN 1 ELSE 0

BuffersExact == CopiesExact /\ LabelsExact

(***************************************************************************)
(* newton_interpolate_polyn returns the polynomial of least degree through *)
(* the given points, except that values of zero never show that a point    *)
(* was given twice; polyn_with_roots has the given roots and no other.     *)
(***************************************************************************)
PolynomialsExact ==
  LET a == call[2].a
      b == call[2].b
      r == call[2].result IN
  /\ call[1] = "polyn_with_roots" => HasRoots(r, a)
  /\ call[1] = "newton_interpolate_polyn" =>
       CASE r = invalid_argument -> Size(a) # Size(b)
         [] r = logic_error -> Repeated(a)
         [] OTHER -> Interpolates(r, a, b)

(***************************************************************************)
(* All of it: the functions of the library that everything else relies on  *)
(* compute, on all bounded inputs, what they are to compute.               *)
(***************************************************************************)
CallsExact == NumbersExact /\ BuffersExact /\ PolynomialsExact
=============================================================================
