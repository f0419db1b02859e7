----------------------------- MODULE MCCeremony -----------------------------
(* One or two participants, an outsider, and two rounds.                   *)
EXTENDS Ceremony, TLC

CONSTANTS alice, bob, outsider

MCTwo == {alice, bob}
MCOne == {alice}
MCSymmetry == Permutations(Participants)
MCOutsiders == {outsider}

MCSecrets == (Participants \cup Outsiders) \X (1..MaxRuns)
MCFixedParts == 0..MaxInits
MCNames == Runners \cup Outsiders \cup {NobodyInParticular}

\* What ceremony_verify prints as the final delta is the final delta
\* ("it re-derives every check [...] from the published bytes alone",
\* ceremony_verify.rs:1-5).
ReportedDeltaIsFinal ==
  Verifies => /\ Last(transcript).new_delta_g1 = FinalKey.delta_g1
              /\ Last(transcript).new_delta_g2 = FinalKey.delta_g2
=============================================================================
