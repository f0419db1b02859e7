--------------------------- MODULE CircuitGadgets ---------------------------
(***************************************************************************)
(* The two gadgets of the title circuit that work on bits: the range check *)
(* and the strict comparison built on it, over the prime field they run    *)
(* in.  A field element is its canonical representative, which is what     *)
(* to_bits_le decomposes; the bits are named by their weights, so that a   *)
(* slice bits[n..] is the quotient by 2^n.                                 *)
(***************************************************************************)
EXTENDS Integers

CONSTANTS FrModulus,   \* the order of the scalar field, 255 bits
          TwoN         \* 2^n for the n = 64 the circuit compares in

ASSUME GadgetAssumption == /\ TwoN \in Nat \ {0}
                           /\ FrModulus \in Nat
                           /\ FrModulus > 2 * TwoN

Fr == 0..(FrModulus - 1)

\* The bit of x whose weight is w.
Bit(x, w) == (x \div w) % 2

\* Every bit of x of weight w or more is FALSE.
enforce_fits_in_bits(x, w) == x \div w = 0

enforce_greater_than(a, b) ==
  LET diff == (TwoN + a - b - 1) % FrModulus
  IN /\ Bit(diff, TwoN) = 1
     /\ enforce_fits_in_bits(diff, 2 * TwoN)

\* Mutant: the timestamp, a public input, is taken to be in range.
not_expired_TrustsTimestamp(license_expiry, current_timestamp) ==
  /\ enforce_fits_in_bits(license_expiry, TwoN)
  /\ enforce_greater_than(license_expiry, current_timestamp)

\* Constraint 3 of the circuit: both sides are range-checked first.
not_expired(license_expiry, current_timestamp) ==
  /\ enforce_fits_in_bits(license_expiry, TwoN)
  /\ enforce_fits_in_bits(current_timestamp, TwoN)
  /\ enforce_greater_than(license_expiry, current_timestamp)
=============================================================================
