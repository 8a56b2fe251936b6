--------------------------- MODULE Interpolation ----------------------------
(***************************************************************************)
(* Polynomials over the integers modulo a prime, from interpolate.cpp.     *)
(* A polynomial is a function from 0 .. n-1: p[i] is the coefficient of    *)
(* x^i.  Points and values are such functions too, and reduced.            *)
(***************************************************************************)
EXTENDS Exceptions, Integers, FiniteSets, Functions

CONSTANT Modulus     \* at least 2

Residue == 0 .. Modulus - 1
Size(v) == Cardinality(DOMAIN v)
Zeros(n) == [i \in 0 .. n - 1 |-> 0]

is_prime == \A d \in 2 .. Modulus - 1 : Modulus % d # 0

Sub(a, b) == (a + Modulus - b) % Modulus
negate_uint_mod(a) == (Modulus - a) % Modulus

Power(a) ==
  LET P[n \in Nat] == IF n = 0 THEN 1 % Modulus ELSE (a * P[n - 1]) % Modulus
  IN P

(***************************************************************************)
(* polyn * (x - a), in place: after the vector has grown by a zero, the    *)
(* coefficients are computed from the highest down, each from its own old  *)
(* value and that of its right-hand neighbour, which is still the old one. *)
(***************************************************************************)
polyn_mul_monic_monomial_inplace(polyn, a) ==
  LET n == Size(polyn)
      grown == [i \in 0 .. n |-> IF i < n THEN polyn[i] ELSE 0]
      Below(p, i) == IF i = 0 THEN 0 ELSE p[i - 1]
      \* the vector when the coefficients from i up have been computed
      From[i \in Nat] ==
        IF i > n THEN grown
        ELSE [From[i + 1] EXCEPT
                ![i] = (@ * negate_uint_mod(a) + Below(From[i + 1], i)) % Modulus]
  IN From[0]

polyn_with_roots(roots) ==
  LET P[k \in Nat] ==
        IF k = 0 THEN [i \in {0} |-> 1]
        ELSE polyn_mul_monic_monomial_inplace(P[k - 1], roots[k - 1])
  IN P[Size(roots)]

(***************************************************************************)
(* newton_interpolate_polyn.  DD[i, j] is the divided difference of the    *)
(* values i .. i+j; the polynomial is assembled from the highest           *)
(* difference by Horner's method.  A vector of zeros is answered before    *)
(* the points are looked at.                                               *)
(***************************************************************************)
inv(a) == Power(a)[Modulus - 2]

divided_differences(points, values) ==
  LET DD[i \in Nat, j \in Nat] ==
        IF j = 0 THEN values[i]
        ELSE (Sub(DD[i + 1, j - 1], DD[i, j - 1]) * inv(Sub(points[i + j], points[i]))) % Modulus
  IN DD

AddTo0(p, c) == [p EXCEPT ![0] = (@ + c) % Modulus]

Horner(points, DD, size) ==
  LET H[i \in Nat] ==   \* result when the terms from i up have been taken in
        IF i = size THEN [k \in {0} |-> 0]
        ELSE polyn_mul_monic_monomial_inplace(AddTo0(H[i + 1], DD[0, i]), points[i - 1])
  IN AddTo0(H[1], DD[0, 0])

Repeated(points) == ~IsInjective(points)

newton_interpolate_polyn(points, values) ==
  IF Size(points) # Size(values) \/ ~is_prime THEN invalid_argument
  ELSE IF \A i \in DOMAIN values : values[i] = 0
  THEN Zeros(IF Size(points) = 0 THEN 1 ELSE Size(points))
  ELSE IF Repeated(points) THEN logic_error
  ELSE Horner(points, divided_differences(points, values), Size(points))

(***************************************************************************)
(* What they are to return.                                                *)
(***************************************************************************)
ValueAt(polyn, x) ==
  LET S[k \in Nat] == IF k = 0 THEN 0 ELSE (S[k - 1] + polyn[k - 1] * Power(x)[k - 1]) % Modulus
  IN S[Size(polyn)]

HasRoots(polyn, roots) ==
  /\ Size(polyn) = Size(roots) + 1
  /\ polyn[Size(roots)] = 1
  /\ \A x \in Residue : (ValueAt(polyn, x) = 0) <=> \E i \in DOMAIN roots : roots[i] = x

Interpolates(polyn, points, values) ==
  /\ Size(points) > 0 => Size(polyn) = Size(points)
  /\ \A i \in DOMAIN points : ValueAt(polyn, points[i]) = values[i]
=============================================================================
