------------------------------ MODULE Buffers -------------------------------
(***************************************************************************)
(* Byte buffers: copying, comparing and combining them (utils.cpp),        *)
(* reading them from a stream, label encryption (label_encryptor.cpp) and  *)
(* the bit strings and labels that hold them (item.h, match_record.h).     *)
(* A byte is a word of module Words; a buffer is a sequence of bytes, or   *)
(* Null.                                                                   *)
(***************************************************************************)
EXTENDS Words, Exceptions, Integers, SequencesExt

CONSTANTS
  Null,
  ChunkBytes,        \* first_to_read of read_from_stream: 1024
  WordBytes,         \* xor_buffers works on uint32_t: 4
  MaxNonceBytes,     \* max_nonce_byte_count: 16
  Mask(_, _, _)      \* byte i of the stream that Blake2xb makes of nonce and key

ByteBits == WordBits

copy_bytes(src, count, dst) ==
  IF count = 0 THEN dst
  ELSE IF Null \in {src, dst} THEN invalid_argument
  ELSE SubSeq(src, 1, count) \o SubSeq(dst, count + 1, Len(dst))

compare_bytes(first, second, count) ==
  IF Null \in {first, second} THEN invalid_argument
  ELSE \A i \in 1 .. count : first[i] = second[i]

(***************************************************************************)
(* xor_buffers: words as long as there is one, then bytes.                 *)
(***************************************************************************)
XorAt(b, c, from, n) == [i \in DOMAIN b |-> IF i \in from + 1 .. from + n THEN Xor(b[i], c[i]) ELSE b[i]]

xor_buffers(buf1, buf2, count) ==
  LET words == count \div WordBytes
      ByWords[k \in Nat] ==
        IF k = 0 THEN buf1 ELSE XorAt(ByWords[k - 1], buf2, WordBytes * (k - 1), WordBytes)
      ByBytes[k \in Nat] ==
        IF k = WordBytes * words THEN ByWords[words] ELSE XorAt(ByBytes[k - 1], buf2, k - 1, 1)
  IN ByBytes[count]

(***************************************************************************)
(* read_from_stream: a length, then that many bytes in chunks that double. *)
(* The code looks at no stream state: where the stream ends, the bytes     *)
(* that resize added stay zero.                                            *)
(***************************************************************************)
Least(a, b) == IF a < b THEN a ELSE b

Taken(in, at, n) ==
  [i \in 1 .. n |-> IF at + i <= Len(in) THEN in[at + i] ELSE Zero]

read_chunks(in, at, byte_count, destination) ==
  LET Read[left \in Nat, to_read \in Nat] ==   \* what is read from here on
        IF left = 0 THEN <<>>
        ELSE Taken(in, at + byte_count - left, to_read)
             \o Read[left - to_read, Least(2 * to_read, left - to_read)]
  IN destination \o Read[byte_count, Least(byte_count, ChunkBytes)]

\* The length takes one byte of the model's stream; it is kept in the result.
read_from_stream(in) ==
  LET size == IF in = <<>> THEN 0 ELSE Value(in[1])
  IN read_chunks(in, 1, size, <<ToWord(size)>>)

(***************************************************************************)
(* Labels: random nonce bytes, then the label, cut or padded to its byte   *)
(* count and masked.                                                       *)
(***************************************************************************)
MaskOf(n, nonce, key) == [i \in 1 .. n |-> Mask(nonce, key, i)]

encrypt_label(label, key, label_byte_count, nonce) ==
  IF Len(nonce) > MaxNonceBytes THEN invalid_argument
  ELSE nonce \o xor_buffers(MaskOf(label_byte_count, nonce, key), label,
                            Least(Len(label), label_byte_count))

decrypt_label(encrypted, key, nonce_byte_count) ==
  IF nonce_byte_count > MaxNonceBytes \/ Len(encrypted) < nonce_byte_count THEN invalid_argument
  ELSE LET n == Len(encrypted) - nonce_byte_count
       IN xor_buffers(MaskOf(n, SubSeq(encrypted, 1, nonce_byte_count), key),
                      SubSeq(encrypted, nonce_byte_count + 1, Len(encrypted)), n)

Fitted(label, n) == [i \in 1 .. n |-> IF i <= Len(label) THEN label[i] ELSE Zero]

(***************************************************************************)
(* Bitstring and BitstringView: a buffer cut to the bytes of bit_count.    *)
(***************************************************************************)
BytesFor(bit_count) == (bit_count + ByteBits - 1) \div ByteBits

Bitstring(data, bit_count) ==
  IF bit_count = 0 \/ Len(data) * ByteBits < bit_count THEN invalid_argument
  ELSE [data |-> SubSeq(data, 1, Least(Len(data), BytesFor(bit_count))), bit_count |-> bit_count]

BitstringView(data, bit_count) ==
  IF bit_count = 0 \/ Len(data) * ByteBits < bit_count THEN invalid_argument
  ELSE [data |-> IF Len(data) = BytesFor(bit_count) THEN data
                 ELSE SubSeq(data, 1, BytesFor(bit_count)),
        bit_count |-> bit_count]

\* Item::to_bitstring makes a byte of each bit of the item.
to_bitstring(bits, item_bit_count) ==
  Bitstring([i \in DOMAIN bits |-> IF bits[i] THEN ToWord(1) ELSE Zero], item_bit_count)

\* LabelData: the label as elements of size bytes; what is left over is dropped.
has_data(label) == label # <<>>

get_as(label, size) ==
  IF ~has_data(label) THEN <<>>
  ELSE [i \in 1 .. Len(label) \div size |-> SubSeq(label, size * (i - 1) + 1, size * i)]
=============================================================================
