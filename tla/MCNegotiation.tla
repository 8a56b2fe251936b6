--------------------------- MODULE MCNegotiation ---------------------------
(***************************************************************************)
(* Instances of Negotiation for TLC.  The files differ from Base in what   *)
(* the checks of the sender and the receiver tell apart, or do not load.   *)
(***************************************************************************)
EXTENDS Negotiation

Seal(id, switching) ==
  [id |-> id, poly_modulus_degree |-> 8192, parameters_set |-> TRUE,
   using_batching |-> TRUE, using_keyswitching |-> switching]

Base ==
  [table_size |-> 16384, max_items_per_bin |-> 100, hash_func_count |-> 3,
   receiver_bins_per_bundle |-> 8192, sender_bins_per_bundle |-> 8192,
   item_bit_count |-> 32, seal_params |-> Seal(1, TRUE)]

MoreBits == [Base EXCEPT !.item_bit_count = 33]
OneBundle == [Base EXCEPT !.table_size = 8192]
OtherSeal == [Base EXCEPT !.seal_params = Seal(2, TRUE)]
NoSwitching == [Base EXCEPT !.seal_params = Seal(3, FALSE)]
CutOff == [Base EXCEPT !.table_size = 8192 + 1]

Files == {Base, MoreBits, OneBundle, OtherSeal, NoSwitching, CutOff}
Versions == {1, 2}
SameVersion == [r \in Receiver |-> 1]
=============================================================================
