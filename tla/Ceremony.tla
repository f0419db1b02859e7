------------------------------ MODULE Ceremony ------------------------------
(***************************************************************************)
(* The ceremony's programs at work on one directory: ceremony_init,        *)
(* ceremony_contribute, and whoever else writes there.  A program reads    *)
(* and writes the files one at a time and can die between any two steps;   *)
(* a file is first truncated and then filled (fs::write).                  *)
(*                                                                         *)
(* Rounds are to be run one after the other (ceremony_contribute.rs:4-5)   *)
(* on top of one ceremony_init.  No program takes a lock or looks whether  *)
(* the files it writes exist; orderly records whether people kept to the   *)
(* procedure so far.                                                       *)
(***************************************************************************)
EXTENDS DeltaChain, FiniteSets, SequencesExt

CONSTANTS Participants, Operator,  \* who runs contribute, who runs init
          Outsiders,               \* who publishes a round made otherwise
          NobodyInParticular,      \* a name an altered record may carry
          MaxInits,                \* bound: runs of ceremony_init
          MaxRuns,                 \* bound: runs, or rounds, of each other one
          MaxRounds,               \* bound: rounds after round 0
          MaxInterventions         \* bound: outside rounds and alterations

Runners == Participants \cup {Operator}

ASSUME CeremonyAssumption ==
  /\ Secrets = (Participants \cup Outsiders) \X (1..MaxRuns)
  /\ FixedParts = 0..MaxInits   \* 0: what an outsider puts there
  /\ Names = Runners \cup Outsiders \cup {NobodyInParticular}
  /\ MaxInits \in Nat

VARIABLES transcript,  \* transcript.json: <<>> when it does not exist
          files,       \* round_<n>.pk.bin, by round
          run,         \* each runner's program
          runs,        \* how often each has started it
          interventions,
          \* observers: what completed runs have written, and whether every
          \* program so far was started alone and on its predecessor's files
          announced, orderly

vars == <<transcript, files, run, runs, interventions, announced, orderly>>

\* A program holds what it has read and what it is going to write.
Idle == [pc |-> "idle"]

At(p, pc) == run[p] # Idle /\ run[p].pc = pc

Goto(p, pc) == run' = [run EXCEPT ![p].pc = pc]

Exits(p) == run' = [run EXCEPT ![p] = Idle]

MayStart(p) == /\ run[p] = Idle
               /\ runs[p] < IF p = Operator THEN MaxInits ELSE MaxRuns

Alone == \A q \in Runners : run[q] = Idle

Readable == transcript # Unreadable

PutFile(round, content) ==
  files' = [r \in DOMAIN files \cup {round} |-> IF r = round THEN content ELSE files[r]]

Init == /\ transcript = <<>>
        /\ files = [r \in {} |-> Unreadable]
        /\ run = [p \in Runners |-> Idle]
        /\ runs = [p \in Runners \cup Outsiders |-> 0]
        /\ interventions = 0
        /\ announced = {}
        /\ orderly = TRUE
-----------------------------------------------------------------------------
\* ceremony_init up to its first write; it does not look at the directory.
InitStarts ==
  /\ MayStart(Operator)
  /\ LET key == GenesisKey(runs[Operator] + 1)
     IN run' = [run EXCEPT ![Operator] =
                  [pc |-> "openKey", key |-> key,
                   rounds |-> <<RoundRecord(0, Operator, key, One, One, NoHash)>>]]
  /\ runs' = [runs EXCEPT ![Operator] = @ + 1]
  /\ orderly' = (orderly /\ Alone /\ transcript = <<>>)
  /\ UNCHANGED <<transcript, files, interventions, announced>>

\* load_transcript: the program exits when there is none, or panics on it.
LoadTranscript(p) ==
  /\ MayStart(p)
  /\ Readable
  /\ transcript # <<>>
  /\ Len(transcript) <= MaxRounds
  /\ run' = [run EXCEPT ![p] = [pc |-> "loaded", rounds |-> transcript]]
  /\ runs' = [runs EXCEPT ![p] = @ + 1]
  /\ orderly' = (orderly /\ Alone)
  /\ UNCHANGED <<transcript, files, interventions, announced>>

\* verify_chain on what was loaded and the files as they are now.
VerifyLoaded(p) ==
  /\ At(p, "loaded")
  /\ IF verify_chain(run[p].rounds, files) THEN Goto(p, "verified") ELSE Exits(p)
  /\ UNCHANGED <<transcript, files, runs, interventions, announced, orderly>>

PreviousRound(p) == Last(run[p].rounds).round

\* Mutants: the new round takes the previous one's number; the new record
\* replaces the previous one.
Contribute_SameNumber(p) ==
  /\ At(p, "verified")
  /\ LET s == <<p, runs[p]>>
         prev == files[PreviousRound(p)]
         key == apply_delta_contribution(prev, s)
     IN IF prev = Unreadable THEN Exits(p)
        ELSE run' = [run EXCEPT ![p] =
               [pc |-> "openKey", key |-> key,
                rounds |-> Append(run[p].rounds,
                             RoundRecord(PreviousRound(p), p, key, By(One, s), By(One, s),
                                         Last(run[p].rounds).entry_hash))]]
  /\ UNCHANGED <<transcript, files, runs, interventions, announced, orderly>>

Contribute_DropsLast(p) ==
  /\ At(p, "verified")
  /\ LET s == <<p, runs[p]>>
         prev == files[PreviousRound(p)]
         key == apply_delta_contribution(prev, s)
     IN IF prev = Unreadable THEN Exits(p)
        ELSE run' = [run EXCEPT ![p] =
               [pc |-> "openKey", key |-> key,
                rounds |-> Append(Front(run[p].rounds),
                             RoundRecord(PreviousRound(p) + 1, p, key, By(One, s), By(One, s),
                                         Last(run[p].rounds).entry_hash))]]
  /\ UNCHANGED <<transcript, files, runs, interventions, announced, orderly>>

\* The previous key is read again, a fresh secret sampled and applied.
Contribute(p) ==
  /\ At(p, "verified")
  /\ LET s == <<p, runs[p]>>
         prev == files[PreviousRound(p)]
         key == apply_delta_contribution(prev, s)
     IN IF prev = Unreadable THEN Exits(p)
        ELSE run' = [run EXCEPT ![p] =
               [pc |-> "openKey", key |-> key,
                rounds |-> Append(run[p].rounds,
                             RoundRecord(PreviousRound(p) + 1, p, key, By(One, s), By(One, s),
                                         Last(run[p].rounds).entry_hash))]]
  /\ UNCHANGED <<transcript, files, runs, interventions, announced, orderly>>
-----------------------------------------------------------------------------
\* save_pk, then save_transcript, of init and of contribute alike.
OpenKey(p) ==
  /\ At(p, "openKey")
  /\ PutFile(Last(run[p].rounds).round, Unreadable)
  /\ Goto(p, "fillKey")
  /\ UNCHANGED <<transcript, runs, interventions, announced, orderly>>

\* Keys of one circuit have one length: of two writers the later one prevails.
FillKey(p) ==
  /\ At(p, "fillKey")
  /\ PutFile(Last(run[p].rounds).round, run[p].key)
  /\ Goto(p, "openTranscript")
  /\ UNCHANGED <<transcript, runs, interventions, announced, orderly>>

OpenTranscript(p) ==
  /\ At(p, "openTranscript")
  /\ transcript' = Unreadable
  /\ Goto(p, "fillTranscript")
  /\ UNCHANGED <<files, runs, interventions, announced, orderly>>

\* Written over another's, of another length, the file may be neither.
FillTranscript(p) ==
  /\ At(p, "fillTranscript")
  /\ \/ transcript' = run[p].rounds
     \/ Readable /\ transcript' = Unreadable
  /\ announced' = announced \cup {[rounds |-> run[p].rounds, key |-> run[p].key]}
  /\ Exits(p)
  /\ UNCHANGED <<files, runs, interventions, orderly>>

\* A program dies, or its machine is switched off; the files stay as they are.
Crash(p) ==
  /\ run[p] # Idle
  /\ Exits(p)
  /\ UNCHANGED <<transcript, files, runs, interventions, announced, orderly>>
-----------------------------------------------------------------------------
\* What another program may get wrong of a round, together.
Mistakes == {{"fixed"}, {"delta_g1"}, {"delta_g2"}, {"delta_g1", "delta_g2"},
             {"l_query"}, {"h_query"}, {"l_query", "h_query"},
             {"contribution_g1"}, {"contribution_g2"}, {"new_delta_g1"}}

\* A round that was published by other means, with up to two mistakes: what is
\* wrong is not the next round's but round 1's of some other ceremony or, for
\* the pair, that of no contribution.
OutsideKey(s, wrong) ==
  LET next == apply_delta_contribution(files[Len(transcript) - 1], s)
      other == apply_delta_contribution(GenesisKey(0), s)
  IN [part \in DOMAIN next |-> IF part \in wrong THEN other[part] ELSE next[part]]

OutsideRecord(p, s, wrong) ==
  LET share(part) == IF part \in wrong THEN One ELSE By(One, s)
      rec == RoundRecord(Len(transcript), p, OutsideKey(s, wrong), share("contribution_g1"),
                         share("contribution_g2"), Last(transcript).entry_hash)
  IN IF "new_delta_g1" \in wrong THEN Hashed([rec EXCEPT !.new_delta_g1 = One]) ELSE rec

OutsideRound(p) ==
  /\ runs[p] < MaxRuns /\ interventions < MaxInterventions
  /\ Readable /\ transcript # <<>> /\ Len(transcript) <= MaxRounds
  /\ Len(transcript) - 1 \in DOMAIN files
  /\ files[Len(transcript) - 1] # Unreadable
  /\ \E wrong \in {{}} \cup {m \cup n : m, n \in Mistakes} :
       LET s == <<p, runs[p] + 1>>
       IN /\ PutFile(Len(transcript), OutsideKey(s, wrong))
          /\ transcript' = Append(transcript, OutsideRecord(p, s, wrong))
  /\ runs' = [runs EXCEPT ![p] = @ + 1]
  /\ interventions' = interventions + 1
  /\ orderly' = FALSE
  /\ UNCHANGED <<run, announced>>

\* A key file or a record is changed after publication; the record's hash, and
\* the next record's link to it, may have been brought up to date.
Alteration ==
  /\ interventions < MaxInterventions
  /\ interventions' = interventions + 1
  /\ orderly' = FALSE
  /\ \/ \E r \in DOMAIN files :
          /\ files[r] # Unreadable
          /\ PutFile(r, [files[r] EXCEPT !.fixed = 0])
          /\ UNCHANGED transcript
     \/ /\ Readable
        /\ \E i \in DOMAIN transcript, rehash, relink \in BOOLEAN :
             LET changed == [transcript[i] EXCEPT !.participant = NobodyInParticular]
                 rec == IF rehash THEN Hashed(changed) ELSE changed
             IN transcript' = [j \in DOMAIN transcript |->
                  IF j = i THEN rec
                  ELSE IF relink /\ j = i + 1
                  THEN [transcript[j] EXCEPT !.prev_entry_hash = rec.entry_hash]
                  ELSE transcript[j]]
        /\ UNCHANGED files
  /\ UNCHANGED <<run, runs, announced>>

Next ==
  \/ InitStarts
  \/ \E p \in Participants : LoadTranscript(p) \/ VerifyLoaded(p) \/ Contribute(p)
  \/ \E p \in Runners : \/ OpenKey(p)
                        \/ FillKey(p)
                        \/ OpenTranscript(p)
                        \/ FillTranscript(p)
                        \/ Crash(p)
  \/ \E p \in Outsiders : OutsideRound(p)
  \/ Alteration

Spec == Init /\ [][Next]_vars
-----------------------------------------------------------------------------
\* What ceremony_verify answers about the directory as it is.
Verifies == Readable /\ verify_chain(transcript, files)

FinalKey == files[Last(transcript).round]

\* A chain that verifies ends in round 0's key rotated by exactly the product
\* of the contributions it publishes, in both groups and in both queries, and
\* in nothing else ("What 'verified' means here, precisely",
\* ceremony_verify.rs:7-15), whoever wrote it and whatever happened to it.
VerifiedIsWhole ==
  Verifies => FinalKey = [fixed |-> files[0].fixed,
                          delta_g1 |-> Contributed(transcript),
                          delta_g2 |-> Contributed(transcript),
                          l_query |-> Times(files[0].l_query, Contributed(transcript)),
                          h_query |-> Times(files[0].h_query, Contributed(transcript))]

\* Every completed round whose record is in a chain that verifies has its
\* secret in the final delta, whatever the rounds before and after it were
\* ("Only one of the N delta-contributors needs to be honest",
\* CEREMONY_SPEC.md:51-53).
OneHonestSuffices ==
  Verifies =>
    \A a \in announced : \A i \in DOMAIN transcript \ {1} :
      Last(a.rounds) = transcript[i] =>
        \A s \in Secrets : HasSecret(transcript[i].contribution_g1, s) =>
          HasSecret(FinalKey.delta_g1, s) /\ HasSecret(FinalKey.delta_g2, s)

\* Who remembers the last entry hash that a run wrote has pinned all of what
\* it wrote: a chain that verifies and ends in that hash is that transcript,
\* record by record, and its key ("tamper-evident metadata", lib.rs:39-42).
AnnouncedIsPinned ==
  Verifies =>
    \A a \in announced :
      Last(transcript).entry_hash = Last(a.rounds).entry_hash =>
        transcript = a.rounds /\ FinalKey = a.key

\* While people keep to the procedure, and unless a crash made the transcript
\* unreadable, no run that completed is ever lost, and the directory verifies at
\* every moment from round 0 on: a run that died half-way leaves nothing that
\* stops the next one.
NoRoundLost ==
  orderly /\ Readable => /\ \A a \in announced : IsPrefix(a.rounds, transcript)
                         /\ transcript # <<>> => Verifies

\* And a copy of the transcript, as any completed run published it, restores
\* the ceremony at every moment, a transcript lost to a crash included: the
\* keys it names are on disk and verify ("Publish ... before the next
\* contributor runs this tool", ceremony_contribute.rs:168-169).
PublishedCopyRestores ==
  orderly => \A a \in announced :
               /\ verify_chain(a.rounds, files)
               /\ files[Last(a.rounds).round] = a.key
=============================================================================
