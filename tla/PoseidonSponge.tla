--------------------------- MODULE PoseidonSponge ---------------------------
(***************************************************************************)
(* The sponge around the Poseidon permutation, three times: arkworks', as  *)
(* the circuit calls it (all inputs in one absorb) and as the prover       *)
(* programs call it (one absorb per input), and the canister's own, which  *)
(* has to permute at the same moments.  The permutation is a free function *)
(* of the state; a slot of the state is the bag of what was added to it,   *)
(* because addition commutes and adding 0 adds nothing.                    *)
(***************************************************************************)
EXTENDS Integers, Sequences, Bags

CONSTANTS RATE, CAPACITY, FieldZero

ASSUME SpongeAssumption == RATE \in Nat \ {0} /\ CAPACITY \in Nat

T == RATE + CAPACITY

ZeroState == [i \in 0..(T - 1) |-> EmptyBag]

permute(state) == [i \in 0..(T - 1) |-> SetToBag({<<"permuted", i, state>>})]

\* state[CAPACITY + start + i] += elements[i], for all of them.
AddedAt(state, start, elements) ==
  [i \in 0..(T - 1) |->
     LET k == i - CAPACITY - start + 1
     IN IF k \in 1..Len(elements) /\ elements[k] # FieldZero
          THEN state[i] (+) SetToBag({<<"added", elements[k]>>}) ELSE state[i]]

Take(s, n) == SubSeq(s, 1, n)
Drop(s, n) == SubSeq(s, n + 1, Len(s))
-----------------------------------------------------------------------------
\* arkworks: while more elements arrive than the rate has room for, it is filled
\* and permuted; a rate that is full at the end is not.
absorb_internal(state, start, elements) ==
  LET after[n \in 0..Len(elements)] ==
        IF n = 0 THEN [state |-> state, next |-> start, rest |-> elements]
        ELSE LET s == after[n - 1]
                 room == RATE - s.next
             IN IF Len(s.rest) <= room THEN s
                ELSE [state |-> permute(AddedAt(s.state, s.next, Take(s.rest, room))),
                      next |-> 0, rest |-> Drop(s.rest, room)]
      last == after[Len(elements)]
  IN [state |-> AddedAt(last.state, last.next, last.rest),
      next |-> last.next + Len(last.rest)]

absorb(sponge, elements) ==
  IF sponge.next = RATE THEN absorb_internal(permute(sponge.state), 0, elements)
                        ELSE absorb_internal(sponge.state, sponge.next, elements)

NewSponge == [state |-> ZeroState, next |-> 0]

squeeze(sponge) == permute(sponge.state)[CAPACITY]

\* The circuit: poseidon_hash(cs, config, inputs), the tag being inputs[0].
poseidon_hash(inputs) == squeeze(absorb(NewSponge, inputs))

\* The prover programs: poseidon(cfg, domain, inputs), element by element.
poseidon(domain, inputs) ==
  LET sponge[n \in 0..Len(inputs)] ==
        IF n = 0 THEN absorb(NewSponge, <<domain>>)
                 ELSE absorb(sponge[n - 1], <<inputs[n]>>)
  IN squeeze(sponge[Len(inputs)])
-----------------------------------------------------------------------------
\* Mutant: a last chunk that is full is permuted as if more were to come.
hash_Eager(domainTag, inputs) ==
  LET all == <<domainTag>> \o inputs
      chunk(k) == SubSeq(all, k * RATE + 1, IF (k + 1) * RATE < Len(all)
                                              THEN (k + 1) * RATE ELSE Len(all))
      after[k \in 0..(Len(all) \div RATE)] ==
        AddedAt(IF k = 0 THEN ZeroState ELSE permute(after[k - 1]), 0, chunk(k))
  IN permute(after[Len(all) \div RATE])[CAPACITY]

\* Mutant: the tag is forgotten.
hash_NoTag(domainTag, inputs) == squeeze(absorb(NewSponge, inputs))

\* The canister: the state after each chunk, permuted between chunks only.
hash(domainTag, inputs) ==
  LET all == <<domainTag>> \o inputs
      lastChunk == (Len(all) - 1) \div RATE
      chunk(k) == SubSeq(all, k * RATE + 1, IF (k + 1) * RATE < Len(all)
                                              THEN (k + 1) * RATE ELSE Len(all))
      after[k \in 0..lastChunk] ==
        AddedAt(IF k = 0 THEN ZeroState ELSE permute(after[k - 1]), 0, chunk(k))
  IN permute(after[lastChunk])[CAPACITY]
=============================================================================
