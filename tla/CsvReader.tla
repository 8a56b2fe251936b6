----------------------------- MODULE CsvReader ------------------------------
(***************************************************************************)
(* From a file to items: CSVReader (cli/common/csv_reader.cpp) and the     *)
(* Item it assigns each first field to (common/apsi/item.cpp).             *)
(*                                                                         *)
(* A character is its code, a line a sequence of characters.  The bits of  *)
(* an item are what the branching program walks along; its hash chooses    *)
(* the bin, and stands here for the string that was hashed.                *)
(***************************************************************************)
EXTENDS Integers, SequencesExt, FiniteSetsExt

CONSTANTS
  File,        \* the files that are read: sequences of lines
  StrayByte    \* what a read outside of charToByte may yield: bytes

VARIABLES
  lines,       \* the lines that getline has not returned yet
  kind,        \* the alternative that result holds
  result,      \* the items, with their labels
  orig_items,
  skipped,     \* the lines that were left out
  phase        \* "first", "rest" or "done"

vars == <<lines, kind, result, orig_items, skipped, phase>>

Comma == 44
Space == {9, 10, 11, 12, 13, 32}
A == 65

(***************************************************************************)
(* Item::operator=(string) appends to raw_val_ and value_; only the hash   *)
(* is replaced.  charToByte is indexed by the distance from 'A'.           *)
(***************************************************************************)
charToByte ==
  <<203, 64, 16, 96, 77, 150, 63, 27, 186, 126, 50, 132, 29, 206, 184, 213, 251, 173, 41, 22,
    246, 137, 247, 44, 47, 176, 0, 0, 0, 0, 0, 0, 162, 112, 160, 100, 79, 106, 194, 125,
    254, 238, 207, 196, 38, 241, 228, 182, 90, 2, 212, 244, 103, 104, 216, 89, 39, 28, 0, 0>>

ByteOf(c, stray) == IF c - A + 1 \in DOMAIN charToByte THEN charToByte[c - A + 1] ELSE stray

\* the bits of a byte, the lowest first
Weight == <<1, 2, 4, 8, 16, 32, 64, 128>>
Bit(byte, b) == (byte \div Weight[b]) % 2

Bits(str, stray) ==
  [k \in 1 .. 8 * Len(str) |-> Bit(ByteOf(str[(k - 1) \div 8 + 1], stray), ((k - 1) % 8) + 1)]

NewItem == [raw_val |-> <<>>, value |-> <<>>, hashed |-> <<>>]

Assigned(item, str, stray) ==
  [raw_val |-> item.raw_val \o str,
   value |-> item.value \o Bits(str, stray),
   hashed |-> str]

(***************************************************************************)
(* process_line: the item is what precedes the first comma, the label what *)
(* follows it, both without the white space around them.                   *)
(***************************************************************************)
Trimmed(s) ==
  LET Kept == {i \in DOMAIN s : s[i] \notin Space}
  IN IF Kept = {} THEN <<>> ELSE SubSeq(s, Min(Kept), Max(Kept))

FirstComma(line) == Min({i \in DOMAIN line : line[i] = Comma} \cup {Len(line) + 1})

ItemField(line) == Trimmed(SubSeq(line, 1, FirstComma(line) - 1))
LabelField(line) == Trimmed(SubSeq(line, FirstComma(line) + 1, Len(line)))

has_item(line) == ItemField(line) # <<>>
has_label(line) == has_item(line) /\ LabelField(line) # <<>>

(***************************************************************************)
(* read.  The first line decides whether the data is labeled, and ends the *)
(* reading when it holds no item; later lines without an item are skipped. *)
(***************************************************************************)
Init ==
  /\ lines \in File
  /\ kind = "UnlabeledData" /\ result = <<>> /\ orig_items = <<>>
  /\ skipped = 0
  /\ phase = "first"

\* Mutant: one Item for all lines.
PushSameItem(line) ==
  \E stray \in StrayByte :
    LET item == IF result = <<>> THEN NewItem ELSE Last(result).item
    IN /\ result' = Append(result,
            [item |-> Assigned(item, ItemField(line), stray), label |-> LabelField(line)])
       /\ orig_items' = Append(orig_items, ItemField(line))

Push(line) ==
  \E stray \in StrayByte :
    /\ result' = Append(result,
         [item |-> Assigned(NewItem, ItemField(line), stray), label |-> LabelField(line)])
    /\ orig_items' = Append(orig_items, ItemField(line))

NextHasItem == lines # <<>> /\ has_item(Head(lines))

NothingToRead ==
  /\ phase = "first"
  /\ ~NextHasItem
  /\ phase' = "done"
  /\ UNCHANGED <<lines, kind, result, orig_items, skipped>>

FirstLine ==
  /\ phase = "first"
  /\ NextHasItem
  /\ Push(Head(lines))
  /\ kind' = IF has_label(Head(lines)) THEN "LabeledData" ELSE "UnlabeledData"
  /\ lines' = Tail(lines)
  /\ phase' = "rest"
  /\ UNCHANGED skipped

ItemLine ==
  /\ phase = "rest"
  /\ NextHasItem
  /\ Push(Head(lines))
  /\ lines' = Tail(lines)
  /\ UNCHANGED <<kind, skipped, phase>>

SkipLine ==
  /\ phase = "rest"
  /\ lines # <<>> /\ ~NextHasItem
  /\ skipped' = skipped + 1
  /\ lines' = Tail(lines)
  /\ UNCHANGED <<kind, result, orig_items, phase>>

EndOfFile ==
  /\ phase = "rest"
  /\ lines = <<>>
  /\ phase' = "done"
  /\ UNCHANGED <<lines, kind, result, orig_items, skipped>>

Next == NothingToRead \/ FirstLine \/ ItemLine \/ SkipLine \/ EndOfFile

Spec == Init /\ [][Next]_vars

(***************************************************************************)
(* The items stand for the lines: the n-th item has the bits and the hash  *)
(* of the n-th entry of orig_items, by which the caller reports matches;   *)
(* two items of letters have the same bits, on which the match is decided, *)
(* exactly if their strings are the same.                                  *)
(***************************************************************************)
Letter == (65 .. 90) \cup (97 .. 122)
OfLetters(s) == \A i \in DOMAIN s : s[i] \in Letter

ItemsStandForLines ==
  /\ Len(result) = Len(orig_items)
  /\ \A n \in DOMAIN result :
       LET item == result[n].item
       IN /\ item.raw_val = orig_items[n] /\ item.hashed = orig_items[n]
          /\ Len(item.value) = 8 * Len(orig_items[n])
  /\ \A m, n \in DOMAIN result :
       OfLetters(orig_items[m]) /\ OfLetters(orig_items[n]) =>
         (result[m].item.value = result[n].item.value) <=> (orig_items[m] = orig_items[n])
=============================================================================
