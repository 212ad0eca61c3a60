----------------------------- MODULE Polynomial -----------------------------
(***************************************************************************)
(* utils/polynomial.go: polynomials over the field of Prime elements.  The *)
(* code's prime is about 2^256; any prime larger than the number of nodes  *)
(* gives the same algebra, so it is a constant here.  A polynomial is the  *)
(* sequence of its coefficients, that of degree 0 first; a symmetric       *)
(* polynomial in two variables is a matrix, a sequence of such sequences.  *)
(***************************************************************************)
EXTENDS Integers, Sequences, Functions

CONSTANT Prime

ASSUME PrimeAssumption ==
    Prime \in Nat \ {0, 1} /\ \A d \in 2..(Prime - 1) : Prime % d # 0

Field == 0..(Prime - 1)

\* Horner's rule, from the highest coefficient down.
Evaluate(p, x) ==
    LET h[k \in 0..Len(p)] ==
            IF k = 0 THEN 0 ELSE (h[k - 1] * x + p[Len(p) - k + 1]) % Prime
    IN  h[Len(p)]

\* Everything NewRandomSymmetricPolynomial can return: the lower triangle is
\* random but for the secret, and is mirrored.
SymmetricPolynomials(degree, secret) ==
    LET D     == 1..(degree + 1)
        lower == {p \in D \X D : p[2] <= p[1] /\ p[1] > 1}
    IN  {[i \in D |-> [j \in D |-> IF i + j = 2 THEN secret
                                   ELSE IF j <= i THEN c[<<i, j>>] ELSE c[<<j, i>>]]]
            : c \in [lower -> Field]}

\* f_k(y) = F(k, y): the coefficient of y^j is column j of F evaluated at k.
GetUnivariatePolynomial(F, k) ==
    [j \in 1..Len(F) |-> Evaluate([i \in 1..Len(F) |-> F[i][j]], k)]

ModInverse(a) == CHOOSE b \in Field : (a * b) % Prime = 1

\* The field's product of f[x] for x in S.
Product(f, S) == FoldFunctionOnSet(LAMBDA x, y : (x * y) % Prime, 1, f, S)

\* Without the numerators, and with a sum that is not reduced.
InterpolateWithoutNumerators(ys) ==
    LET xs   == DOMAIN ys
        term == [j \in xs |-> ys[j] * ModInverse(Product([m \in xs |-> j - m], xs \ {j}))]
    IN  SumFunctionOnSet(term, xs) % Prime
InterpolateUnreduced(ys) ==
    LET xs   == DOMAIN ys
        term == [j \in xs |-> (ys[j] * Product([m \in xs |-> -m], xs \ {j})
                    * ModInverse(Product([m \in xs |-> j - m], xs \ {j}))) % Prime]
    IN  SumFunctionOnSet(term, xs)

\* Lagrange's formula at 0 for the points (x, ys[x]).
InterpolateAtZero(ys) ==
    LET xs     == DOMAIN ys
        num(j) == Product([m \in xs |-> -m], xs \ {j})
        den(j) == Product([m \in xs |-> j - m], xs \ {j})
        term   == [j \in xs |-> ys[j] * num(j) * ModInverse(den(j))]
    IN  SumFunctionOnSet(term, xs) % Prime
=============================================================================
