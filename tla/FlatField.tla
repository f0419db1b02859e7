----------------------------- MODULE FlatField ------------------------------
(***************************************************************************)
(* The field arithmetic of the Groth16 verifier (vendor/FpFlat.mo, and     *)
(* FrFlat.mo, which has some of its operations on fewer limbs): elements   *)
(* are little-endian limbs at an offset of one arena, every operation      *)
(* writes in place and may be given one offset twice, products are in      *)
(* Montgomery form.  The sizes are parameters; a sum of products must fit  *)
(* in two words, as in the code.                                           *)
(***************************************************************************)
EXTENDS Integers

CONSTANTS LimbCount,   \* N
          Word,        \* 2^32
          FlatModulus  \* P

LimbIndices == 0..(LimbCount - 1)
DoubleWord == Word * Word
R == Word^LimbCount

LimbsOf(x) == [j \in LimbIndices |-> (x \div Word^j) % Word]

\* What the code has as literals.
P_LIMBS == LimbsOf(FlatModulus)
PM2_LIMBS == LimbsOf(FlatModulus - 2)
ONE_MONT_LIMBS == LimbsOf(R % FlatModulus)
RR_LIMBS == LimbsOf((R * R) % FlatModulus)
N0INV == CHOOSE n \in 0..(Word - 1) : (n * FlatModulus + 1) % Word = 0

At(z, zo) == [j \in LimbIndices |-> z[zo + j]]

Write(z, zo, limbs) ==
  [k \in DOMAIN z |-> IF k - zo \in LimbIndices THEN limbs[k - zo] ELSE z[k]]

fromNat(x, z, zo) == Write(z, zo, LimbsOf(x))

toNat(z, zo) ==
  LET v[j \in 0..LimbCount] ==
        IF j = LimbCount THEN 0 ELSE v[j + 1] * Word + z[zo + j]
  IN v[0]

\* Mutant: the modulus itself counts as reduced.
geP_Strict(limbs) ==
  \E j \in LimbIndices :
    limbs[j] > P_LIMBS[j] /\ \A k \in (j + 1)..(LimbCount - 1) : limbs[k] = P_LIMBS[k]

\* The highest limb that differs decides; equal counts as greater.
geP(limbs) ==
  \A j \in LimbIndices :
    limbs[j] < P_LIMBS[j] => \E k \in (j + 1)..(LimbCount - 1) : limbs[k] > P_LIMBS[k]
-----------------------------------------------------------------------------
\* An operand is in the arena or is the modulus.
TheModulus == -1
Limb(z, at, j) == IF at = TheModulus THEN P_LIMBS[j] ELSE z[at + j]

\* z := x + y and z := x - y, limb by limb from the lowest; x and y may be read
\* from z itself while it is being written.
Sum(z, zo, xo, yo) ==
  LET after[j \in 0..LimbCount] ==
        IF j = 0 THEN [z |-> z, carry |-> 0]
        ELSE LET s == after[j - 1]
                 d == Limb(s.z, xo, j - 1) + Limb(s.z, yo, j - 1) + s.carry
             IN [z |-> [s.z EXCEPT ![zo + j - 1] = d % Word], carry |-> d \div Word]
  IN after[LimbCount]

Difference(z, zo, xo, yo) ==
  LET after[j \in 0..LimbCount] ==
        IF j = 0 THEN [z |-> z, borrow |-> 0]
        ELSE LET s == after[j - 1]
                 d == Limb(s.z, xo, j - 1) + Word - Limb(s.z, yo, j - 1) - s.borrow
             IN [z |-> [s.z EXCEPT ![zo + j - 1] = d % Word], borrow |-> 1 - d \div Word]
  IN after[LimbCount]

subP(z, zo) == Difference(z, zo, zo, TheModulus).z

addInto(z, zo, ao, bo) ==
  LET sum == Sum(z, zo, ao, bo)
  IN IF sum.carry # 0 \/ geP(At(sum.z, zo)) THEN subP(sum.z, zo) ELSE sum.z

subInto(z, zo, ao, bo) ==
  LET difference == Difference(z, zo, ao, bo)
  IN IF difference.borrow # 0 THEN Sum(difference.z, zo, zo, TheModulus).z
                              ELSE difference.z

isZero(z, zo) == \A j \in LimbIndices : z[zo + j] = 0

negInto(z, zo, ao) ==
  IF isZero(z, ao) THEN Write(z, zo, LimbsOf(0)) ELSE Difference(z, zo, TheModulus, ao).z
-----------------------------------------------------------------------------
\* t := t + limbs * w in the scratch area of LimbCount + 2 words, up to the
\* word the last carry goes to; each step is one 64-bit multiply-and-add.
AddRow(t, limbs, w) ==
  LET after[j \in 0..LimbCount] ==
        IF j = 0 THEN [t |-> t, carry |-> 0]
        ELSE LET s == after[j - 1]
                 cs == (s.t[j - 1] + limbs[j - 1] * w + s.carry) % DoubleWord
             IN [t |-> [s.t EXCEPT ![j - 1] = cs % Word], carry |-> cs \div Word]
  IN after[LimbCount]

MultiplicationStep(t, limbs, w) ==
  LET row == AddRow(t, limbs, w)
      cs0 == row.t[LimbCount] + row.carry
  IN [row.t EXCEPT ![LimbCount] = cs0 % Word, ![LimbCount + 1] = cs0 \div Word]

\* A multiple of P clears the lowest word, and everything moves down by one.
ReductionStep(t) ==
  LET row == AddRow(t, P_LIMBS, (t[0] * N0INV) % Word)
      cs1 == row.t[LimbCount] + row.carry
  IN [j \in DOMAIN t |-> IF j < LimbCount - 1 THEN row.t[j + 1]
                         ELSE IF j = LimbCount - 1 THEN cs1 % Word
                         ELSE IF j = LimbCount THEN (t[LimbCount + 1] + cs1 \div Word) % Word
                         ELSE t[j]]

\* CIOS; z is written only when both inputs have been consumed.
montMulInto(z, zo, ao, bo) ==
  LET t[i \in 0..LimbCount] ==
        IF i = 0 THEN [k \in 0..(LimbCount + 1) |-> 0]
        ELSE ReductionStep(MultiplicationStep(t[i - 1], At(z, ao), z[bo + i - 1]))
      last == t[LimbCount]
      low == [j \in LimbIndices |-> last[j]]
  IN Write(z, zo, IF last[LimbCount] # 0 \/ geP(low) THEN subP(low, 0) ELSE low)

\* z := a^e, from the lowest bit of e; work is squared at every bit, and z must
\* be neither a nor work.
montPowInto(z, zo, ao, e, wo) ==
  LET bits == 0..(LimbCount * CHOOSE w \in 0..32 : 2^w = Word)
      after[n \in bits] ==
        IF n = 0 THEN Write(Write(z, zo, ONE_MONT_LIMBS), wo, At(z, ao))
        ELSE LET s == after[n - 1]
                 set == (toNat(e, 0) \div 2^(n - 1)) % 2 = 1
                 multiplied == IF set THEN montMulInto(s, zo, zo, wo) ELSE s
             IN montMulInto(multiplied, wo, wo, wo)
  IN after[CHOOSE n \in bits : \A m \in bits : m <= n]

\* Fermat's inverse, of an element that is not zero (zero traps).
montInvInto(z, zo, ao, wo) == montPowInto(z, zo, ao, PM2_LIMBS, wo)

toMontInto(z, zo, ao, ro) == montMulInto(Write(z, ro, RR_LIMBS), zo, ao, ro)
-----------------------------------------------------------------------------
\* An arena of three elements; the operands' places, the same twice included.
Places == {0, LimbCount, 2 * LimbCount}
Residues == 0..(FlatModulus - 1)

Holding(ao, a, bo, b) ==
  fromNat(b, fromNat(a, [k \in 0..(3 * LimbCount - 1) |-> 1], ao), bo)

\* After an operation z is the canonical residue that it should be, and nothing
\* else in the arena has changed.
Puts(after, before, zo, value) ==
  toNat(after, zo) = value /\ after = Write(before, zo, At(after, zo))

binary_operations_exact ==
  \A zo, ao, bo \in Places, a, b \in Residues :
    (ao = bo => a = b) =>
      LET z == Holding(ao, a, bo, b)
          product == montMulInto(z, zo, ao, bo)
      IN /\ Puts(addInto(z, zo, ao, bo), z, zo, (a + b) % FlatModulus)
         /\ Puts(subInto(z, zo, ao, bo), z, zo, (a - b) % FlatModulus)
         /\ Puts(product, z, zo, toNat(product, zo) % FlatModulus)
         /\ (toNat(product, zo) * R - a * b) % FlatModulus = 0

unary_operations_exact ==
  \A a \in Residues :
    LET z == fromNat(a, [k \in 0..(3 * LimbCount - 1) |-> 1], 0)
        mont == toMontInto(z, 0, 0, LimbCount)
        inverse == montInvInto(mont, LimbCount, 0, 2 * LimbCount)
    IN /\ \A zo \in Places : Puts(negInto(z, zo, 0), z, zo, (-a) % FlatModulus)
       /\ toNat(mont, 0) = (a * R) % FlatModulus
       /\ a # 0 => At(montMulInto(inverse, LimbCount, LimbCount, 0), LimbCount)
                     = ONE_MONT_LIMBS

field_exact == binary_operations_exact /\ unary_operations_exact
=============================================================================
