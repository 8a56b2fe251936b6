------------------------------ MODULE Numbers -------------------------------
(***************************************************************************)
(* The number and text functions of common/apsi/util/utils.h and utils.cpp *)
(* (next_power_of_2 is in module Words).                                   *)
(***************************************************************************)
EXTENDS Exceptions, Integers, FiniteSetsExt, SequencesExt

\* base 0 divides by zero and base 1 never ends: base is 2 or more.
conversion_to_digits(input, base) ==
  LET D[n \in Nat] == IF n = 0 THEN <<>> ELSE <<n % base>> \o D[n \div base]
  IN D[input]

\* getline yields no field after the last delimiter.
split(s, delim) ==
  LET At == {i \in DOMAIN s : s[i] = delim}
      Before(i) == Max({0} \cup {j \in At : j < i})
      Ends == At \cup (IF s = <<>> \/ Len(s) \in At THEN {} ELSE {Len(s) + 1})
      End == SetToSortSeq(Ends, <)
  IN [k \in DOMAIN End |-> SubSeq(s, Before(End[k]) + 1, End[k] - 1)]

\* val + step - 1 wraps in the bits of T.
round_up_to(val, step, bits) ==
  ((((val + step - 1) % 2 ^ bits) \div step) * step) % 2 ^ bits

\* Mutant: the last part gets all that remains.
partition_unevenly(count, partition_count) ==
  LET n == Min({count, partition_count})
  IN [i \in 1 .. n |-> <<(i - 1) * (count \div n), IF i = n THEN count ELSE i * (count \div n)>>]

partition_evenly(count, partition_count) ==
  IF count = 0 \/ partition_count = 0 THEN <<>>
  ELSE LET n == Min({count, partition_count})
           per_partition == count \div n
           extras_needed == count - per_partition * n
           End[i \in Nat] ==
             IF i = 0 THEN 0
             ELSE End[i - 1] + per_partition + (IF i <= extras_needed THEN 1 ELSE 0)
       IN [i \in 1 .. n |-> <<End[i - 1], End[i]>>]

create_powers_set(ps_low_degree, target_degree) ==
  IF ps_low_degree > target_degree \/ target_degree = 0 THEN invalid_argument
  ELSE IF ps_low_degree = 0 THEN 1 .. target_degree
  ELSE LET high_first == ps_low_degree + 1
           high_last == (target_degree \div high_first) * high_first
       IN 1 .. ps_low_degree \cup {p \in high_first .. high_last : p % high_first = 0}

\* The parameters of a SEAL context form a chain; its data levels are
\* numbered from first down to 0.
get_parms_id_for_chain_idx(first, chain_idx) ==
  LET Walk[level \in Nat] == IF level > chain_idx THEN Walk[level - 1] ELSE level
  IN Walk[first]
=============================================================================
