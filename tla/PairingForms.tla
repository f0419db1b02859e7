---------------------------- MODULE PairingForms ----------------------------
(***************************************************************************)
(* The two forms of the Groth16 pairing equation that oracle_alphabeta     *)
(* compares: four pairings whose product is one, and three whose product   *)
(* is e(alpha, beta) as computed when the key was prepared.  A group       *)
(* element is its logarithm modulo a small prime: a pairing is a product,  *)
(* a product of pairings a sum.                                            *)
(***************************************************************************)
EXTENDS Integers

CONSTANT PairingOrder

Exponents == 0..(PairingOrder - 1)
Units == 1..(PairingOrder - 1)

\* x / y
Quotient(x, y) == CHOOSE q \in Exponents : (q * y - x) % PairingOrder = 0

old_form_accept(p, vkx, vk) ==
  (p.a * p.b - vkx * vk.gamma - p.c * vk.delta - vk.alpha * vk.beta) % PairingOrder = 0

target(vk) == (vk.alpha * vk.beta) % PairingOrder

new_form_accept(p, vkx, precomputed_target, vk) ==
  (p.a * p.b - vkx * vk.gamma - p.c * vk.delta) % PairingOrder = precomputed_target

VerifyingKeys == [alpha : Units, beta : Units, gamma : Units, delta : Units]

\* A proof of a true statement: c solves the equation.
HonestProof(a, b, vkx, vk) ==
  [a |-> a, b |-> b,
   c |-> Quotient((a * b - vkx * vk.gamma - target(vk)) % PairingOrder, vk.delta)]

Agree(p, vkx, vk) ==
  old_form_accept(p, vkx, vk) <=> new_form_accept(p, vkx, target(vk), vk)

Rejected(p, vkx, vk) == Agree(p, vkx, vk) /\ ~old_form_accept(p, vkx, vk)

\* The oracle's five cases, for every key, input point and honest proof.  That
\* another key rejects (case 5) has exceptions in a group this small.
oracle_alphabeta ==
  \A vk \in VerifyingKeys, abc1 \in Units, vkx \in Exponents, a, b \in Units :
    LET p == HonestProof(a, b, vkx, vk)
    IN /\ Agree(p, vkx, vk) /\ old_form_accept(p, vkx, vk)
       /\ Rejected(p, (vkx + abc1) % PairingOrder, vk)
       /\ Rejected([p EXCEPT !.c = (p.c + 1) % PairingOrder], vkx, vk)
       /\ Rejected([p EXCEPT !.a = (p.a + 1) % PairingOrder], vkx, vk)
       /\ \A vk2 \in VerifyingKeys : Agree(p, vkx, vk2)
=============================================================================
