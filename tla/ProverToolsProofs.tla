-------------------------- MODULE ProverToolsProofs -------------------------
(***************************************************************************)
(* The programs on their directory, for any number of terminals, keys and  *)
(* runs: a clean directory holds two keys of one setup, a check that read  *)
(* its keys undisturbed prints what it says to expect, and exports verify. *)
(* The state is shared and written file by file, so the invariant follows  *)
(* each undisturbed program along: what it has read or written is still    *)
(* what the directory holds, for as long as it has steps to go.            *)
(***************************************************************************)
EXTENDS ProverTools, DataProofs, SequenceTheorems, TLAPS

\* The circuit's own proofs; its tree and its registry play no part here.
Circuit == INSTANCE SparseMerkleTreeProofs
             WITH registryId <- 0, MaxTime <- 0, Properties <- {}, Owners <- {}, Flags <- {},
                  Statuses <- {}, Expiries <- {}, Secrets <- {}, PropertyIds <- {},
                  Purposes <- {}, Nonces <- {}, Timestamps <- {},
                  now <- 0, phase <- "running", records <- {}, leafIndexByProperty <- {},
                  nodes <- {}, currentRoot <- {}, nextLeafIndex <- 0,
                  recordsEntries <- {}, leafIndexEntries <- {}, nodesEntries <- {}

\* A key on file is the number of its setup.
Key == 1..MaxKeys

\* What wire_export, prove_live and prove_live prove2 write when they have read
\* the keys pk and vk.
Wire(pk, vk, steady) ==
  [vk |-> vk, proof |-> demo_proof(pk), inputs |-> demo_inputs,
   forged |-> Forged(demo_inputs), steady |-> steady]

live_inputs == public_inputs(Owner0, first_root(Owner0), Challenge)
live_proof(pk) == Prove(pk, live_inputs, circuit_of(Owner0, first_path, first_bits))

Live(pk, vk, steady) ==
  [vk |-> vk, inputs |-> live_inputs, proof |-> live_proof(pk), steady |-> steady]

Live2(pk, vk, steady) ==
  [vk |-> vk, inputs |-> prove2_inputs, proof |-> prove2_proof(pk), steady |-> steady]

Wires == {Wire(pk, vk, steady) : pk, vk \in Key, steady \in BOOLEAN}

Loadable == Key \cup {Torn} \cup Wires

Fields == {"prog", "read", "written", "opened", "key", "steady"}

Provers == {"prove_live", "prove_live_2"}
PairReaders == {"wire_export", "verify_smoke", "verify_prove2"} \cup Provers

\* The keys on file are numbers of setups, and an export holds what its program
\* makes of two keys, of one setup if it read them undisturbed.
FilesTyped ==
  /\ DOMAIN files = Files
  /\ files[PK] \in Key \cup {Missing, Torn}
  /\ files[VK] \in Key \cup {Missing, Torn}
  /\ keys \in 0..MaxKeys
  /\ Whole(WIRE) => \E pk, vk \in Key, steady \in BOOLEAN :
                      files[WIRE] = Wire(pk, vk, steady) /\ (steady => pk = vk)
  /\ Whole(LIVE) => \E pk \in Key, vk \in Key \cup {Torn}, steady \in BOOLEAN :
                      files[LIVE] = Live(pk, vk, steady) /\ (steady => pk = vk)
  /\ Whole(LIVE2) => \E pk \in Key, vk \in Key \cup {Torn}, steady \in BOOLEAN :
                      files[LIVE2] = Live2(pk, vk, steady) /\ (steady => pk = vk)

\* How far a program can have come, and what it can have read.
RunTyped(r) ==
  /\ DOMAIN r = Fields
  /\ r.prog \in DOMAIN Programs
  /\ r.read \in Seq(Loadable)
  /\ Len(r.read) <= Len(Programs[r.prog].reads)
  /\ r.written \in 0..Len(Programs[r.prog].writes)
  /\ r.opened \in BOOLEAN /\ r.steady \in BOOLEAN
  /\ Reading(r) => r.written = 0
  /\ r.opened => Writing(r)
  /\ r.prog \in KeyMakers => r.key \in Key
  /\ r.prog \in PairReaders \cup {"extract_vk"} /\ Len(r.read) >= 1 => r.read[1] \in Key
  /\ r.prog \in PairReaders /\ Len(r.read) = 2 =>
       r.read[2] \in IF r.prog \in Provers THEN Key \cup {Torn} ELSE Key

RunsTyped == /\ DOMAIN run = Terminals
             /\ \A t \in Terminals : run[t] = Idle \/ RunTyped(run[t])

Writer(t) == run[t] # Idle /\ run[t].prog \in KeyWriters

\* A program that writes keys undisturbed is the only one.
Alone == \A t, u \in Terminals : Writer(t) /\ run[t].steady /\ Writer(u) => t = u

\* What it has written, and what extract_vk has read, is still there.
InPlace(r, dir) ==
  /\ r.prog = "setup" => /\ r.written >= 1 => dir[PK] = r.key
                         /\ r.written = 2 => dir[VK] = r.key
  /\ r.prog = "extract_vk" /\ Len(r.read) = 1 =>
       /\ dir[PK] = r.read[1]
       /\ r.written = 1 => dir[VK] = r.read[1]

\* A program that reads keys undisturbed does so while the directory is clean,
\* and the keys it has read are of one setup.
ReadsAlike(r, dir, quiet) ==
  /\ r.prog \notin KeyWriters /\ Reading(r) => quiet
  /\ r.prog \in PairReaders =>
       /\ Len(r.read) = 1 => r.read[1] = dir[PK]
       /\ Len(r.read) = 2 => r.read[1] = r.read[2]

Undisturbed ==
  \A t \in Terminals : run[t] # Idle /\ run[t].steady =>
    InPlace(run[t], files) /\ ReadsAlike(run[t], files, clean)

\* A clean directory holds two keys of one setup and is not being written.
CleanMatches ==
  clean => /\ \A t \in Terminals : ~Writer(t)
           /\ files[PK] \in Key
           /\ files[VK] = files[PK]

\* What the last check printed is what it makes of the two keys it has read.
PrintedIs ==
  printed # Silent /\ printed.prog \in {"verify_smoke", "verify_prove2"} =>
    /\ printed.read[1] \in Key /\ printed.read[2] \in Key
    /\ printed.steady => printed.read[1] = printed.read[2]
    /\ printed.verdicts = IF printed.prog = "verify_smoke"
                            THEN verify_smoke_verdicts(printed.read[1], printed.read[2])
                            ELSE verify_prove2_verdicts(printed.read[1], printed.read[2])

IInv == /\ clean \in BOOLEAN
        /\ FilesTyped /\ RunsTyped /\ Alone /\ Undisturbed /\ CleanMatches /\ PrintedIs

\* What each program reads and writes, by kind.
LEMMA ProgramSteps ==
  ASSUME NEW prog \in DOMAIN Programs
  PROVE  /\ Programs[prog].reads =
              IF prog \in PairReaders THEN <<PK, VK>>
              ELSE IF prog \in {"extract_vk", "prove"} THEN <<PK>>
              ELSE IF prog = "oracle_pin_fixture" THEN <<WIRE>> ELSE <<>>
         /\ Programs[prog].writes =
              IF prog = "setup" THEN <<PK, VK>>
              ELSE IF prog = "install_key" THEN <<PK>>
              ELSE IF prog = "extract_vk" THEN <<VK>>
              ELSE IF prog = "prove_live" THEN <<LIVE>>
              ELSE IF prog = "prove_live_2" THEN <<LIVE2>>
              ELSE IF prog = "wire_export" THEN <<WIRE>>
              ELSE IF prog = "export_poseidon_params" THEN <<PARAMS>> ELSE <<>>
<1>1. prog \in {"setup", "install_key", "extract_vk", "prove", "prove_live",
                "prove_live_2", "wire_export", "verify_smoke", "verify_prove2",
                "oracle_pin_fixture", "oracle_alphabeta", "oracle_subgroup_jacobian",
                "export_poseidon_params"}
  BY DEF Programs
<1>2. /\ Programs["setup"] = Steps(<<>>, <<PK, VK>>)
      /\ Programs["install_key"] = Steps(<<>>, <<PK>>)
      /\ Programs["extract_vk"] = Steps(<<PK>>, <<VK>>)
      /\ Programs["prove"] = Steps(<<PK>>, <<>>)
      /\ Programs["prove_live"] = Steps(<<PK, VK>>, <<LIVE>>)
      /\ Programs["prove_live_2"] = Steps(<<PK, VK>>, <<LIVE2>>)
      /\ Programs["wire_export"] = Steps(<<PK, VK>>, <<WIRE>>)
      /\ Programs["verify_smoke"] = Steps(<<PK, VK>>, <<>>)
      /\ Programs["verify_prove2"] = Steps(<<PK, VK>>, <<>>)
      /\ Programs["oracle_pin_fixture"] = Steps(<<WIRE>>, <<>>)
      /\ Programs["oracle_alphabeta"] = Steps(<<>>, <<>>)
      /\ Programs["oracle_subgroup_jacobian"] = Steps(<<>>, <<>>)
      /\ Programs["export_poseidon_params"] = Steps(<<>>, <<PARAMS>>)
  BY Zenon DEF Programs, setup, install_key, extract_vk, prove, prove_live, prove_live_2,
         wire_export, verify_smoke, verify_prove2, oracle_pin_fixture,
         oracle_in_memory, export_poseidon_params
<1>3. \A reads, writes : /\ Steps(reads, writes).reads = reads
                         /\ Steps(reads, writes).writes = writes
  BY DEF Steps
<1> QED
  BY <1>1, <1>2, <1>3 DEF PairReaders, Provers

\* The same, as lengths and as what each step reads or writes.
LEMMA StepsOf ==
  ASSUME NEW prog \in DOMAIN Programs
  PROVE  /\ Len(Programs[prog].reads) =
              IF prog \in PairReaders THEN 2
              ELSE IF prog \in {"extract_vk", "prove", "oracle_pin_fixture"} THEN 1 ELSE 0
         /\ prog \in PairReaders => /\ Programs[prog].reads[1] = PK
                                    /\ Programs[prog].reads[2] = VK
         /\ prog \in {"extract_vk", "prove"} => Programs[prog].reads[1] = PK
         /\ prog = "oracle_pin_fixture" => Programs[prog].reads[1] = WIRE
         /\ Len(Programs[prog].writes) =
              IF prog = "setup" THEN 2
              ELSE IF prog \in {"install_key", "extract_vk", "prove_live", "prove_live_2",
                                "wire_export", "export_poseidon_params"} THEN 1 ELSE 0
         /\ prog = "setup" => /\ Programs[prog].writes[1] = PK
                              /\ Programs[prog].writes[2] = VK
         /\ prog = "install_key" => Programs[prog].writes[1] = PK
         /\ prog = "extract_vk" => Programs[prog].writes[1] = VK
         /\ prog = "prove_live" => Programs[prog].writes[1] = LIVE
         /\ prog = "prove_live_2" => Programs[prog].writes[1] = LIVE2
         /\ prog = "wire_export" => Programs[prog].writes[1] = WIRE
         /\ prog = "export_poseidon_params" => Programs[prog].writes[1] = PARAMS
<1> DEFINE reads == Programs[prog].reads
           writes == Programs[prog].writes
<1>1. /\ reads = IF prog \in PairReaders THEN <<PK, VK>>
                 ELSE IF prog \in {"extract_vk", "prove"} THEN <<PK>>
                 ELSE IF prog = "oracle_pin_fixture" THEN <<WIRE>> ELSE <<>>
      /\ writes = IF prog = "setup" THEN <<PK, VK>>
                  ELSE IF prog = "install_key" THEN <<PK>>
                  ELSE IF prog = "extract_vk" THEN <<VK>>
                  ELSE IF prog = "prove_live" THEN <<LIVE>>
                  ELSE IF prog = "prove_live_2" THEN <<LIVE2>>
                  ELSE IF prog = "wire_export" THEN <<WIRE>>
                  ELSE IF prog = "export_poseidon_params" THEN <<PARAMS>> ELSE <<>>
  BY ProgramSteps
<1>2. \A a, b : /\ Len(<<a, b>>) = 2 /\ <<a, b>>[1] = a /\ <<a, b>>[2] = b
                /\ Len(<<a>>) = 1 /\ <<a>>[1] = a
                /\ Len(<<>>) = 0
  OBVIOUS
<1> HIDE DEF reads, writes
<1>3. Len(reads) = IF prog \in PairReaders THEN 2
                   ELSE IF prog \in {"extract_vk", "prove", "oracle_pin_fixture"} THEN 1
                   ELSE 0
  BY <1>1, <1>2 DEF PairReaders, Provers
<1>4. Len(writes) = IF prog = "setup" THEN 2
                    ELSE IF prog \in {"install_key", "extract_vk", "prove_live", "prove_live_2",
                                      "wire_export", "export_poseidon_params"} THEN 1 ELSE 0
  BY <1>1, <1>2
<1>5. /\ prog \in PairReaders => reads[1] = PK /\ reads[2] = VK
      /\ prog \in {"extract_vk", "prove"} => reads[1] = PK
      /\ prog = "oracle_pin_fixture" => reads[1] = WIRE
  BY <1>1, <1>2 DEF PairReaders, Provers
<1>6. /\ prog = "setup" => writes[1] = PK /\ writes[2] = VK
      /\ prog = "install_key" => writes[1] = PK
      /\ prog = "extract_vk" => writes[1] = VK
      /\ prog = "prove_live" => writes[1] = LIVE
      /\ prog = "prove_live_2" => writes[1] = LIVE2
      /\ prog = "wire_export" => writes[1] = WIRE
      /\ prog = "export_poseidon_params" => writes[1] = PARAMS
  BY <1>1, <1>2
<1> QED
  BY <1>3, <1>4, <1>5, <1>6 DEF reads, writes

\* How far a program is, in numbers.
LEMMA ProgressIs ==
  ASSUME NEW r, RunTyped(r)
  PROVE  /\ r.prog \in DOMAIN Programs
         /\ Len(r.read) \in Nat /\ r.written \in Nat
         /\ Reading(r) <=> \/ r.prog \in PairReaders /\ Len(r.read) < 2
                           \/ /\ r.prog \in {"extract_vk", "prove", "oracle_pin_fixture"}
                              /\ Len(r.read) < 1
         /\ Writing(r) <=> /\ ~Reading(r)
                           /\ \/ r.prog = "setup" /\ r.written < 2
                              \/ /\ r.prog \in {"install_key", "extract_vk", "prove_live",
                                                "prove_live_2", "wire_export",
                                                "export_poseidon_params"}
                                 /\ r.written < 1
<1>1. /\ r.prog \in DOMAIN Programs
      /\ Len(r.read) \in Nat
      /\ r.written \in 0..Len(Programs[r.prog].writes)
  BY DEF RunTyped
<1> QED BY <1>1, StepsOf DEF Reading, Writing, PairReaders, Provers
-----------------------------------------------------------------------------
\* Whatever a program's steadiness, what it has read and written is the same.
LEMMA SteadinessApart ==
  ASSUME NEW r, RunTyped(r), NEW steady \in BOOLEAN,
         NEW s, s = [r EXCEPT !.steady = steady]
  PROVE  /\ RunTyped(s)
         /\ s.prog = r.prog /\ s.read = r.read /\ s.written = r.written
         /\ s.opened = r.opened /\ s.key = r.key /\ s.steady = steady
         /\ Reading(s) <=> Reading(r)
<1>1. /\ DOMAIN s = Fields
      /\ s.prog = r.prog /\ s.read = r.read /\ s.written = r.written
      /\ s.opened = r.opened /\ s.key = r.key /\ s.steady = steady
  BY DEF RunTyped, Fields
<1>2. (Reading(s) <=> Reading(r)) /\ (Writing(s) <=> Writing(r))
  BY <1>1 DEF Reading, Writing
<1>3. RunTyped(s)
  BY <1>1, <1>2 DEF RunTyped
<1> QED BY <1>1, <1>2, <1>3

\* A new directory and idle terminals satisfy the invariant.
LEMMA InitIInv == Init => IInv
<1> SUFFICES ASSUME Init PROVE IInv
  OBVIOUS
<1>1. FilesTyped
  BY KeyFileAssumption DEF Init, FilesTyped, Files, Whole
<1> QED
  BY <1>1 DEF Init, IInv, RunsTyped, Alone, Writer, Undisturbed, CleanMatches, PrintedIs

\* A program that starts has read and written nothing yet; if it writes keys, no
\* other program counts as undisturbed that writes keys or still reads them.
LEMMA StartKeepsIInv ==
  ASSUME IInv, NEW t \in Terminals, NEW prog \in DOMAIN Programs, Start(t, prog)
  PROVE  IInv'
<1> DEFINE new == run'[t]
           alone == \A u \in Terminals : run[u] # Idle => run[u].prog \notin KeyWriters
<1>1. /\ files' = files /\ printed' = printed
      /\ run[t] = Idle
      /\ clean' = (clean /\ prog \notin KeyWriters)
  BY DEF Start
<1>2. /\ keys' \in 0..MaxKeys
      /\ prog \in KeyMakers => FreshKey(prog) \in Key
  BY KeyFileAssumption DEF Start, FreshKey, Key, IInv, FilesTyped
<1>3. /\ DOMAIN run' = Terminals
      /\ new = [prog |-> prog, read |-> <<>>, written |-> 0, opened |-> FALSE,
                key |-> FreshKey(prog),
                steady |-> IF prog \in KeyWriters THEN alone ELSE clean]
      /\ \A u \in Terminals \ {t} :
           run'[u] = IF run[u] # Idle
                       THEN [run[u] EXCEPT !.steady = @ /\ ~Disturbs(prog, run[u])]
                       ELSE Idle
  BY DEF Start
<1> HIDE DEF new
<1>4. /\ DOMAIN new = Fields
      /\ new.prog = prog /\ new.read = <<>> /\ new.written = 0 /\ new.opened = FALSE
      /\ new.key = FreshKey(prog)
      /\ new.steady = IF prog \in KeyWriters THEN alone ELSE clean
  BY <1>3 DEF Fields
<1>5. ASSUME NEW u \in Terminals \ {t}, run'[u] # Idle
      PROVE  /\ run[u] # Idle /\ RunTyped(run'[u])
             /\ run'[u].prog = run[u].prog /\ run'[u].read = run[u].read
             /\ run'[u].written = run[u].written /\ run'[u].key = run[u].key
             /\ run'[u].steady => run[u].steady /\ ~Disturbs(prog, run[u])
             /\ Reading(run'[u]) <=> Reading(run[u])
  <2>1. /\ run[u] # Idle /\ RunTyped(run[u])
        /\ run'[u] = [run[u] EXCEPT !.steady = run[u].steady /\ ~Disturbs(prog, run[u])]
    BY <1>3, <1>5 DEF IInv, RunsTyped
  <2> DEFINE steady == run[u].steady /\ ~Disturbs(prog, run[u])
  <2>2. steady \in BOOLEAN
    OBVIOUS
  <2>3. run'[u] = [run[u] EXCEPT !.steady = steady]
    BY <2>1
  <2> HIDE DEF steady
  <2>4. /\ RunTyped(run'[u])
        /\ run'[u].prog = run[u].prog /\ run'[u].read = run[u].read
        /\ run'[u].written = run[u].written /\ run'[u].key = run[u].key
        /\ run'[u].steady = steady
        /\ Reading(run'[u]) <=> Reading(run[u])
    <3> DEFINE r == run[u]
               s == run'[u]
    <3>1. RunTyped(r) /\ s = [r EXCEPT !.steady = steady]
      BY <2>1, <2>3
    <3> HIDE DEF r, s
    <3>2. /\ RunTyped(s)
          /\ s.prog = r.prog /\ s.read = r.read /\ s.written = r.written
          /\ s.opened = r.opened /\ s.key = r.key /\ s.steady = steady
          /\ Reading(s) <=> Reading(r)
      BY ONLY <2>2, <3>1, SteadinessApart, Zenon
    <3> QED BY <3>2 DEF r, s
  <2> QED BY <2>1, <2>4 DEF steady
<1>6. RunTyped(new)
  <2>1. /\ Len(new.read) = 0 /\ new.read \in Seq(Loadable)
        /\ 0 <= Len(Programs[prog].reads) /\ 0 \in 0..Len(Programs[prog].writes)
    BY <1>4, StepsOf
  <2>2. new.steady \in BOOLEAN
    BY <1>4 DEF IInv
  <2>3. /\ new.prog \in DOMAIN Programs /\ new.opened = FALSE
        /\ Len(new.read) <= Len(Programs[new.prog].reads)
        /\ new.written = 0 /\ new.written \in 0..Len(Programs[new.prog].writes)
        /\ new.prog \in KeyMakers => new.key \in Key
        /\ ~(Len(new.read) >= 1) /\ Len(new.read) # 2
    BY <1>2, <1>4, <2>1
  <2> QED BY <1>4, <2>1, <2>2, <2>3 DEF RunTyped
<1>7. FilesTyped'
  BY <1>1, <1>2 DEF IInv, FilesTyped, Whole
<1>8. RunsTyped'
  BY <1>3, <1>5, <1>6 DEF RunsTyped, new
<1>9. Alone'
  <2> SUFFICES ASSUME NEW u \in Terminals, NEW v \in Terminals,
                      Writer(u)', run'[u].steady, Writer(v)'
               PROVE  u = v
    BY DEF Alone
  <2>1. run'[u] # Idle /\ run'[u].prog \in KeyWriters
        /\ run'[v] # Idle /\ run'[v].prog \in KeyWriters
    BY DEF Writer
  <2>2. CASE u = t /\ v # t
    <3>1. run[v] # Idle /\ run[v].prog \in KeyWriters
      BY <1>5, <2>1, <2>2
    <3>2. prog \in KeyWriters /\ new.steady
      BY <1>4, <2>1, <2>2 DEF new
    <3> QED BY <1>4, <3>1, <3>2
  <2>3. CASE u # t /\ v = t
    <3>1. run[u].prog \in KeyWriters /\ ~Disturbs(prog, run[u])
      BY <1>5, <2>1, <2>3
    <3>2. prog \in KeyWriters
      BY <1>4, <2>1, <2>3 DEF new
    <3> QED BY <3>1, <3>2 DEF Disturbs
  <2>4. CASE u # t /\ v # t
    <3>1. Writer(u) /\ run[u].steady /\ Writer(v)
      BY <1>5, <2>1, <2>4 DEF Writer
    <3> QED BY <3>1 DEF IInv, Alone
  <2> QED BY <2>2, <2>3, <2>4
<1>10. Undisturbed'
  <2> SUFFICES ASSUME NEW u \in Terminals, run'[u] # Idle, run'[u].steady
               PROVE  InPlace(run'[u], files') /\ ReadsAlike(run'[u], files', clean')
    BY DEF Undisturbed
  <2>1. CASE u = t
    <3>1. /\ Len(new.read) = 0 /\ new.written = 0
          /\ new.prog \notin KeyWriters => clean'
      BY <1>1, <1>4, <2>1 DEF new
    <3>2. InPlace(new, files') /\ ReadsAlike(new, files', clean')
      BY <3>1 DEF InPlace, ReadsAlike
    <3> QED BY <2>1, <3>2 DEF new
  <2>2. CASE u # t
    <3>1. /\ run[u] # Idle /\ run[u].steady /\ ~Disturbs(prog, run[u])
          /\ run'[u].prog = run[u].prog /\ run'[u].read = run[u].read
          /\ run'[u].written = run[u].written /\ run'[u].key = run[u].key
          /\ Reading(run'[u]) <=> Reading(run[u])
      BY <1>5, <2>2
    <3>2. InPlace(run[u], files) /\ ReadsAlike(run[u], files, clean)
      BY <3>1 DEF IInv, Undisturbed
    <3>3. InPlace(run'[u], files')
      BY <1>1, <3>1, <3>2 DEF InPlace
    <3>4. run[u].prog \notin KeyWriters /\ Reading(run[u]) => clean'
      BY <1>1, <3>1, <3>2 DEF ReadsAlike, Disturbs
    <3>5. ReadsAlike(run'[u], files', clean')
      BY <1>1, <3>1, <3>2, <3>4 DEF ReadsAlike
    <3> QED BY <3>3, <3>5
  <2> QED BY <2>1, <2>2
<1>11. CleanMatches'
  <2> SUFFICES ASSUME clean'
               PROVE  /\ \A u \in Terminals : ~Writer(u)'
                      /\ files[PK] \in Key /\ files[VK] = files[PK]
    BY <1>1 DEF CleanMatches
  <2>1. clean /\ prog \notin KeyWriters
    BY <1>1
  <2>2. ASSUME NEW u \in Terminals, Writer(u)'
        PROVE FALSE
    <3>1. run'[u] # Idle /\ run'[u].prog \in KeyWriters
      BY <2>2 DEF Writer
    <3>2. u # t
      BY <1>4, <2>1, <3>1 DEF new
    <3>3. Writer(u)
      BY <1>5, <3>1, <3>2 DEF Writer
    <3> QED BY <2>1, <3>3 DEF IInv, CleanMatches
  <2> QED BY <2>1, <2>2 DEF IInv, CleanMatches
<1>12. PrintedIs' /\ clean' \in BOOLEAN
  BY <1>1 DEF IInv, PrintedIs
<1> QED
  BY <1>7, <1>8, <1>9, <1>10, <1>11, <1>12 DEF IInv
-----------------------------------------------------------------------------
\* Every other step moves one program on or ends it, and makes none a writer.
LEMMA OneMoves ==
  ASSUME IInv, NEW t \in Terminals, run[t] # Idle, NEW s,
         run' = [run EXCEPT ![t] = s],
         \/ s = Idle
         \/ RunTyped(s) /\ s.prog = run[t].prog /\ s.steady = run[t].steady
  PROVE  /\ RunsTyped' /\ Alone'
         /\ \A u \in Terminals : Writer(u)' => Writer(u)
         /\ run'[t] = s
         /\ \A u \in Terminals \ {t} : run'[u] = run[u]
<1>1. /\ DOMAIN run' = Terminals
      /\ run'[t] = s
      /\ \A u \in Terminals \ {t} : run'[u] = run[u]
  BY DEF IInv, RunsTyped
<1>2. RunsTyped'
  BY <1>1 DEF IInv, RunsTyped
<1>3. ASSUME NEW u \in Terminals, Writer(u)'
      PROVE  Writer(u) /\ run'[u].steady = run[u].steady
  BY <1>1, <1>3 DEF Writer
<1>4. Alone'
  BY <1>3 DEF IInv, Alone
<1> QED BY <1>1, <1>2, <1>3, <1>4

\* The programs that are not moved stay undisturbed as long as neither key
\* file changes, or none of them depends on what it holds.
LEMMA OthersUndisturbed ==
  ASSUME IInv, NEW t \in Terminals, NEW u \in Terminals \ {t}, run[t] # Idle,
         run'[u] = run[u], run[u] # Idle, run[u].steady,
         clean' = clean,
         run[t].prog \notin KeyWriters => files'[PK] = files[PK] /\ files'[VK] = files[VK]
  PROVE  InPlace(run'[u], files') /\ ReadsAlike(run'[u], files', clean')
<1>1. /\ InPlace(run[u], files) /\ ReadsAlike(run[u], files, clean)
      /\ RunTyped(run[u])
  BY DEF IInv, Undisturbed, RunsTyped
<1>2. CASE run[t].prog \notin KeyWriters
  BY <1>1, <1>2 DEF InPlace, ReadsAlike
<1>3. CASE run[t].prog \in KeyWriters
  <2>1. Writer(t) /\ ~clean
    BY <1>3 DEF Writer, IInv, CleanMatches
  <2>2. run[u].prog \notin KeyWriters
    BY <2>1 DEF IInv, Alone, Writer
  <2>3. ~Reading(run[u])
    BY <1>1, <2>1, <2>2 DEF ReadsAlike
  <2>4. run[u].prog \in PairReaders => Len(run[u].read) # 1
    <3>1. run[u].prog \in DOMAIN Programs
      BY <1>1 DEF RunTyped
    <3>2. run[u].prog \in PairReaders => Len(Programs[run[u].prog].reads) = 2
      BY <3>1, StepsOf
    <3>3. ASSUME run[u].prog \in PairReaders, Len(run[u].read) = 1
          PROVE  Reading(run[u])
      <4>1. Len(Programs[run[u].prog].reads) = 2
        BY <3>2, <3>3
      <4> QED BY <3>3, <4>1 DEF Reading
    <3> QED BY <2>3, <3>3
  <2>5. InPlace(run[u], files')
    BY <2>2 DEF InPlace, KeyWriters
  <2> QED BY <1>1, <2>3, <2>4, <2>5 DEF ReadsAlike
<1> QED BY <1>2, <1>3

\* What is there to be read, in the order in which it is read.
LEMMA WhatIsRead ==
  ASSUME IInv, NEW t \in Terminals, run[t] # Idle, Reading(run[t]),
         NEW f, f = NextRead(run[t]),
         files[f] # Missing,
         files[f] = Torn => run[t].prog \in Provers /\ f = VK
  PROVE  /\ files[f] \in Loadable
         /\ run[t].prog \in PairReaders /\ Len(run[t].read) = 0 => f = PK /\ files[f] \in Key
         /\ run[t].prog \in PairReaders /\ Len(run[t].read) = 1 =>
              /\ f = VK
              /\ files[f] \in IF run[t].prog \in Provers THEN Key \cup {Torn} ELSE Key
         /\ run[t].prog \in {"extract_vk", "prove"} => f = PK /\ files[f] \in Key
<1> DEFINE r == run[t]
<1>1. /\ r.prog \in DOMAIN Programs /\ Len(r.read) \in Nat
      /\ \/ r.prog \in PairReaders /\ Len(r.read) < 2
         \/ /\ r.prog \in {"extract_vk", "prove", "oracle_pin_fixture"}
            /\ Len(r.read) < 1
  BY ProgressIs DEF IInv, RunsTyped
<1>2. f = Programs[r.prog].reads[Len(r.read) + 1]
  BY DEF NextRead
<1>3. /\ r.prog \in PairReaders => f = IF Len(r.read) = 0 THEN PK ELSE VK
      /\ r.prog \in {"extract_vk", "prove"} => f = PK
      /\ r.prog = "oracle_pin_fixture" => f = WIRE
  BY <1>1, <1>2, StepsOf DEF PairReaders, Provers
<1>4. PK # VK /\ WIRE # VK
  BY DEF PK, VK, WIRE
<1>5. /\ f = PK => files[f] \in Key
      /\ f = VK => files[f] \in IF r.prog \in Provers THEN Key \cup {Torn} ELSE Key
  BY <1>4 DEF IInv, FilesTyped
<1>6. f = WIRE => files[f] \in Wires
  BY <1>4 DEF IInv, FilesTyped, Whole, Wires
<1> QED
  BY <1>1, <1>3, <1>5, <1>6 DEF Loadable, PairReaders, Provers

\* A program that cannot use what it reads ends; the others notice nothing.
LEMMA ExitKeepsIInv ==
  ASSUME IInv, NEW t \in Terminals, run[t] # Idle, Exits(t),
         UNCHANGED <<files, keys, printed, clean>>
  PROVE  IInv'
<1>1. run' = [run EXCEPT ![t] = Idle]
  BY DEF Exits
<1>2. /\ RunsTyped' /\ Alone'
      /\ \A u \in Terminals : Writer(u)' => Writer(u)
      /\ run'[t] = Idle
      /\ \A u \in Terminals \ {t} : run'[u] = run[u]
  BY <1>1, OneMoves
<1>3. Undisturbed'
  <2> SUFFICES ASSUME NEW u \in Terminals, run'[u] # Idle, run'[u].steady
               PROVE  InPlace(run'[u], files') /\ ReadsAlike(run'[u], files', clean')
    BY DEF Undisturbed
  <2>1. u # t /\ run'[u] = run[u]
    BY <1>2
  <2> QED BY <2>1 DEF IInv, Undisturbed
<1>4. CleanMatches'
  BY <1>2 DEF IInv, CleanMatches
<1>5. FilesTyped' /\ PrintedIs' /\ clean' \in BOOLEAN
  BY DEF IInv, FilesTyped, Whole, PrintedIs
<1> QED BY <1>2, <1>3, <1>4, <1>5 DEF IInv

\* A file is read whole, or, by prove_live, torn; two keys read while nothing
\* writes them are of one setup.
LEMMA ReadKeepsIInv ==
  ASSUME IInv, NEW t \in Terminals, Read(t)
  PROVE  IInv'
<1> DEFINE r == run[t]
           f == NextRead(r)
           s == [r EXCEPT !.read = Append(@, files[f])]
           unusable == \/ files[f] = Missing
                       \/ files[f] = Torn /\ ~(r.prog \in {"prove_live", "prove_live_2"} /\ f = VK)
<1>1. /\ r # Idle /\ Reading(r)
      /\ UNCHANGED <<files, keys, printed, clean>>
      /\ IF unusable THEN Exits(t) ELSE run' = [run EXCEPT ![t].read = Append(@, files[f])]
  BY DEF Read
<1>2. CASE unusable
  <2> HIDE DEF unusable
  <2> QED BY <1>1, <1>2, ExitKeepsIInv
<1>3. CASE ~unusable
  <2>1. RunTyped(r)
    BY <1>1 DEF IInv, RunsTyped
  <2>2. run' = [run EXCEPT ![t] = s]
    <3>1. DOMAIN run = Terminals
      BY DEF IInv, RunsTyped
    <3> QED BY <1>1, <1>3, <3>1
  <2>3. /\ files[f] # Missing
        /\ files[f] = Torn => r.prog \in Provers /\ f = VK
    BY <1>3 DEF Provers
  <2> HIDE DEF unusable, f
  <2>4. /\ files[f] \in Loadable
        /\ r.prog \in PairReaders /\ Len(r.read) = 0 => f = PK /\ files[f] \in Key
        /\ r.prog \in PairReaders /\ Len(r.read) = 1 =>
             f = VK /\ files[f] \in IF r.prog \in Provers THEN Key \cup {Torn} ELSE Key
        /\ r.prog \in {"extract_vk", "prove"} => f = PK /\ files[f] \in Key
    BY <1>1, <2>3, WhatIsRead DEF f
  <2>5. /\ Len(r.read) \in Nat /\ r.read \in Seq(Loadable)
        /\ r.prog \in DOMAIN Programs
        /\ \/ r.prog \in PairReaders /\ Len(r.read) < 2
           \/ /\ r.prog \in {"extract_vk", "prove", "oracle_pin_fixture"}
              /\ Len(r.read) < 1
        /\ r.written = 0 /\ r.opened = FALSE /\ r.steady \in BOOLEAN
    BY <1>1, <2>1, ProgressIs DEF RunTyped, Writing
  <2>6. /\ DOMAIN s = Fields
        /\ s.prog = r.prog /\ s.read = Append(r.read, files[f]) /\ s.written = 0
        /\ s.opened = FALSE /\ s.key = r.key /\ s.steady = r.steady
    BY <2>1, <2>5 DEF RunTyped, Fields
  <2>7. /\ s.read \in Seq(Loadable)
        /\ Len(s.read) = Len(r.read) + 1
        /\ s.read[Len(r.read) + 1] = files[f]
        /\ Len(r.read) = 1 => s.read[1] = r.read[1]
    BY <2>4, <2>5, <2>6
  <2> HIDE DEF s, r
  <2>8. Len(r.read) = 0 \/ Len(r.read) = 1
    <3> DEFINE n == Len(r.read)
    <3>1. n \in Nat /\ n < 2
      BY <2>5
    <3>2. \A m \in Nat : m < 2 => m = 0 \/ m = 1
      OBVIOUS
    <3> QED BY <3>1, <3>2
  <2>9. RunTyped(s)
    <3>1. Len(s.read) <= Len(Programs[s.prog].reads)
      BY <2>5, <2>6, <2>7, StepsOf DEF PairReaders, Provers
    <3>2. s.written \in 0..Len(Programs[s.prog].writes)
      BY <2>5, <2>6, StepsOf
    <3>3. s.prog \in KeyMakers => s.key \in Key
      BY <2>1, <2>6 DEF RunTyped
    <3>4. s.prog \in PairReaders \cup {"extract_vk"} /\ Len(s.read) >= 1 => s.read[1] \in Key
      <4>1. CASE Len(r.read) = 0
        BY <2>4, <2>6, <2>7, <4>1
      <4>2. CASE Len(r.read) = 1
        BY <2>1, <2>5, <2>6, <2>7, <4>2 DEF RunTyped
      <4> QED BY <2>8, <4>1, <4>2
    <3>5. s.prog \in PairReaders /\ Len(s.read) = 2 =>
            s.read[2] \in IF s.prog \in Provers THEN Key \cup {Torn} ELSE Key
      <4>1. CASE Len(r.read) = 0
        BY <2>7, <4>1
      <4>2. CASE Len(r.read) = 1
        BY <2>4, <2>6, <2>7, <4>2
      <4> QED BY <2>8, <4>1, <4>2
    <3> QED BY <2>5, <2>6, <2>7, <3>1, <3>2, <3>3, <3>4, <3>5 DEF RunTyped
  <2>10. /\ RunsTyped' /\ Alone'
        /\ \A u \in Terminals : Writer(u)' => Writer(u)
    BY <1>1, <2>2, <2>6, <2>9, OneMoves DEF r
  <2>11. /\ run'[t] = s
         /\ \A u \in Terminals \ {t} : run'[u] = run[u]
    BY <1>1, <2>2, <2>6, <2>9, OneMoves DEF r
  <2>12. Undisturbed'
    <3> SUFFICES ASSUME NEW u \in Terminals, run'[u] # Idle, run'[u].steady
                 PROVE  InPlace(run'[u], files') /\ ReadsAlike(run'[u], files', clean')
      BY DEF Undisturbed
    <3>1. CASE u # t
      <4>1. run'[u] = run[u]
        BY <2>11, <3>1
      <4>2. InPlace(run[u], files) /\ ReadsAlike(run[u], files, clean)
        BY <4>1 DEF IInv, Undisturbed
      <4> QED BY <1>1, <4>1, <4>2
    <3>2. CASE u = t
      <4>1. r.steady /\ InPlace(r, files) /\ ReadsAlike(r, files, clean)
        <5>1. run'[u] = s /\ r.steady
          BY <2>6, <2>11, <3>2
        <5> QED BY <1>1, <5>1 DEF IInv, Undisturbed, r
      <4>2. r.prog \notin KeyWriters => clean
        BY <1>1, <4>1 DEF ReadsAlike, r
      <4>3. InPlace(s, files')
        <5>1. s.prog # "setup"
          BY <2>5, <2>6 DEF PairReaders, Provers
        <5>2. s.prog = "extract_vk" => files[PK] = s.read[1]
          BY <2>4, <2>5, <2>6, <2>7 DEF PairReaders, Provers
        <5> QED BY <1>1, <2>6, <5>1, <5>2 DEF InPlace
      <4>4. ASSUME s.prog \in PairReaders
            PROVE  /\ Len(s.read) = 1 => s.read[1] = files[PK]
                   /\ Len(s.read) = 2 => s.read[1] = s.read[2]
        <5>1. clean /\ files[VK] = files[PK]
          BY <2>6, <4>2, <4>4 DEF PairReaders, Provers, KeyWriters, IInv, CleanMatches
        <5>2. CASE Len(r.read) = 0
          BY <2>4, <2>6, <2>7, <4>4, <5>2
        <5>3. CASE Len(r.read) = 1
          <6>1. r.read[1] = files[PK]
            BY <2>6, <4>1, <4>4, <5>3 DEF ReadsAlike
          <6> QED BY <2>4, <2>6, <2>7, <4>4, <5>1, <5>3, <6>1
        <5> QED BY <2>8, <5>2, <5>3
      <4>5. ReadsAlike(s, files', clean')
        BY <1>1, <2>6, <4>2, <4>4 DEF ReadsAlike
      <4>6. run'[u] = s
        BY <2>11, <3>2
      <4> QED BY <4>3, <4>5, <4>6
    <3> QED BY <3>1, <3>2
  <2>13. CleanMatches'
    BY <1>1, <2>10 DEF IInv, CleanMatches
  <2>14. FilesTyped' /\ PrintedIs' /\ clean' \in BOOLEAN
    BY <1>1 DEF IInv, FilesTyped, Whole, PrintedIs
  <2> QED BY <2>10, <2>12, <2>13, <2>14 DEF IInv
<1> QED BY <1>2, <1>3
-----------------------------------------------------------------------------
\* The next file to be written, by program.
LEMMA WhatIsWritten ==
  ASSUME NEW r, RunTyped(r), Writing(r), NEW f, f = NextWrite(r)
  PROVE  /\ r.prog \in {"setup", "install_key", "extract_vk", "prove_live",
                        "prove_live_2", "wire_export", "export_poseidon_params"}
         /\ r.prog = "setup" => \/ r.written = 0 /\ f = PK
                                \/ r.written = 1 /\ f = VK
         /\ r.prog # "setup" =>
              /\ r.written = 0
              /\ f = CASE r.prog = "install_key" -> PK
                       [] r.prog = "extract_vk" -> VK
                       [] r.prog = "prove_live" -> LIVE
                       [] r.prog = "prove_live_2" -> LIVE2
                       [] r.prog = "wire_export" -> WIRE
                       [] r.prog = "export_poseidon_params" -> PARAMS
         /\ f \in Files
         /\ r.prog \notin KeyWriters => f # PK /\ f # VK
<1>1. /\ r.prog \in DOMAIN Programs /\ r.written \in Nat
      /\ \/ r.prog = "setup" /\ r.written < 2
         \/ /\ r.prog \in {"install_key", "extract_vk", "prove_live",
                           "prove_live_2", "wire_export", "export_poseidon_params"}
            /\ r.written < 1
  BY ProgressIs
<1>2. f = Programs[r.prog].writes[r.written + 1]
  BY DEF NextWrite
<1>3. CASE r.prog = "setup"
  <2>1. r.written = 0 \/ r.written = 1
    BY <1>1, <1>3
  <2>2. /\ Programs[r.prog].writes[1] = PK
        /\ Programs[r.prog].writes[2] = VK
    BY <1>1, <1>3, StepsOf
  <2> QED BY <1>2, <1>3, <2>1, <2>2 DEF Files, KeyWriters
<1>4. CASE r.prog # "setup"
  <2>1. r.written = 0 /\ f = Programs[r.prog].writes[1]
    BY <1>1, <1>2, <1>4
  <2>2. /\ r.prog = "install_key" => f = PK
        /\ r.prog = "extract_vk" => f = VK
        /\ r.prog = "prove_live" => f = LIVE
        /\ r.prog = "prove_live_2" => f = LIVE2
        /\ r.prog = "wire_export" => f = WIRE
        /\ r.prog = "export_poseidon_params" => f = PARAMS
    BY <1>1, <2>1, StepsOf
  <2>3. /\ \A g \in {LIVE, LIVE2, WIRE, PARAMS} : g # PK /\ g # VK
        /\ {PK, VK, LIVE, LIVE2, WIRE, PARAMS} \subseteq Files
    BY DEF PK, VK, LIVE, LIVE2, WIRE, PARAMS, Files
  <2> QED BY <1>1, <1>4, <2>1, <2>2, <2>3 DEF KeyWriters
<1> QED BY <1>3, <1>4

\* What is written to it.
LEMMA ContentIs ==
  ASSUME NEW r, RunTyped(r), Writing(r), NEW f, f = NextWrite(r)
  PROVE  /\ f = PK => Content(r, f) = r.key /\ r.key \in Key
         /\ f = VK => /\ Content(r, f) = IF r.prog = "setup" THEN r.key ELSE r.read[1]
                      /\ Content(r, f) \in Key
         /\ f \in {WIRE, LIVE, LIVE2} =>
              /\ r.prog \in PairReaders /\ Len(r.read) = 2
              /\ r.read[1] \in Key /\ r.read[2] \in Key \cup {Torn}
         /\ f = WIRE => /\ Content(r, f) = Wire(r.read[1], r.read[2], r.steady)
                        /\ r.read[2] \in Key
         /\ f = LIVE => Content(r, f) = Live(r.read[1], r.read[2], r.steady)
         /\ f = LIVE2 => Content(r, f) = Live2(r.read[1], r.read[2], r.steady)
<1>1. /\ PK # VK /\ PK # WIRE /\ PK # LIVE /\ PK # LIVE2 /\ PK # PARAMS
      /\ VK # WIRE /\ VK # LIVE /\ VK # LIVE2 /\ VK # PARAMS
      /\ WIRE # LIVE /\ WIRE # LIVE2 /\ WIRE # PARAMS
      /\ LIVE # LIVE2 /\ LIVE # PARAMS /\ LIVE2 # PARAMS
  BY DEF PK, VK, LIVE, LIVE2, WIRE, PARAMS
<1>2. /\ f = PK => r.prog \in {"setup", "install_key"}
      /\ f = VK => r.prog \in {"setup", "extract_vk"}
      /\ f = WIRE => r.prog = "wire_export"
      /\ f = LIVE => r.prog = "prove_live"
      /\ f = LIVE2 => r.prog = "prove_live_2"
  BY <1>1, WhatIsWritten
<1>3. /\ r.prog \in DOMAIN Programs /\ Len(r.read) \in Nat /\ ~Reading(r)
      /\ Len(r.read) <= Len(Programs[r.prog].reads)
  BY ProgressIs DEF RunTyped
<1>4. Len(r.read) = Len(Programs[r.prog].reads)
  <2>1. Len(Programs[r.prog].reads) \in {0, 1, 2}
    BY <1>3, StepsOf
  <2> QED BY <1>3, <2>1 DEF Reading
<1>5. /\ r.prog \in {"setup", "install_key"} => r.key \in Key
      /\ r.prog = "extract_vk" => Len(r.read) = 1 /\ r.read[1] \in Key
  <2>1. r.prog = "extract_vk" => Len(r.read) = 1
    BY <1>3, <1>4, StepsOf DEF PairReaders, Provers
  <2> QED BY <2>1 DEF RunTyped, KeyMakers
<1>6. r.prog \in PairReaders =>
        /\ Len(r.read) = 2
        /\ r.read[1] \in Key
        /\ r.read[2] \in IF r.prog \in Provers THEN Key \cup {Torn} ELSE Key
  <2>1. r.prog \in PairReaders => Len(r.read) = 2
    BY <1>3, <1>4, StepsOf
  <2> QED BY <2>1 DEF RunTyped
<1>7. f = PK => Content(r, f) = r.key
  BY <1>1 DEF Content
<1>8. f = VK => Content(r, f) = IF r.prog = "setup" THEN r.key ELSE r.read[1]
  BY <1>1 DEF Content
<1>9. f = WIRE => Content(r, f) = Wire(r.read[1], r.read[2], r.steady)
  BY <1>1 DEF Content, Wire
<1>10. f = LIVE => Content(r, f) = Live(r.read[1], r.read[2], r.steady)
  BY <1>1 DEF Content, Live, live_inputs, live_proof
<1>11. f = LIVE2 => Content(r, f) = Live2(r.read[1], r.read[2], r.steady)
  BY <1>1 DEF Content, Live2
<1>12. /\ f = PK => r.key \in Key
       /\ f = VK => Content(r, f) \in Key
  BY <1>2, <1>5, <1>8
<1>13. f \in {WIRE, LIVE, LIVE2} =>
         /\ r.prog \in PairReaders /\ Len(r.read) = 2
         /\ r.read[1] \in Key /\ r.read[2] \in Key \cup {Torn}
         /\ f = WIRE => r.read[2] \in Key
  BY <1>1, <1>2, <1>6 DEF PairReaders, Provers
<1> QED BY <1>7, <1>8, <1>9, <1>10, <1>11, <1>12, <1>13

\* A file is truncated: no undisturbed program relies on what it held.
LEMMA OpenKeepsIInv ==
  ASSUME IInv, NEW t \in Terminals, Open(t)
  PROVE  IInv'
<1> DEFINE r == run[t]
           f == NextWrite(r)
           s == [r EXCEPT !.opened = TRUE]
<1>1. /\ r # Idle /\ RunTyped(r) /\ Writing(r)
      /\ UNCHANGED <<keys, printed, clean>>
      /\ files' = [files EXCEPT ![f] = Torn]
      /\ run' = [run EXCEPT ![t] = s]
  BY DEF Open, IInv, RunsTyped
<1>2. /\ r.prog = "setup" => \/ r.written = 0 /\ f = PK
                             \/ r.written = 1 /\ f = VK
      /\ r.prog # "setup" => r.written = 0
      /\ r.prog = "extract_vk" => f = VK
      /\ f \in Files
      /\ r.prog \notin KeyWriters => f # PK /\ f # VK
  <2> HIDE DEF r, f
  <2> QED BY <1>1, WhatIsWritten DEF f
<1>3. /\ s.prog = r.prog /\ s.read = r.read /\ s.written = r.written
      /\ s.opened = TRUE /\ s.key = r.key /\ s.steady = r.steady
      /\ DOMAIN s = Fields
  BY <1>1 DEF RunTyped, Fields
<1>4. PK # VK /\ PK \in Files /\ VK \in Files
  BY DEF PK, VK, Files
<1>5. DOMAIN files = Files /\ DOMAIN files' = Files
  BY <1>1 DEF IInv, FilesTyped
<1> HIDE DEF s, f
<1>6. files'[f] = Torn /\ \A g \in Files \ {f} : files'[g] = files[g]
  BY <1>1, <1>2, <1>5
<1>7. RunTyped(s)
  <2>1. (Reading(s) <=> Reading(r)) /\ (Writing(s) <=> Writing(r))
    BY <1>3 DEF Reading, Writing
  <2> QED BY <1>1, <1>3, <2>1 DEF RunTyped
<1>8. RunsTyped' /\ Alone' /\ \A u \in Terminals : Writer(u)' => Writer(u)
  BY <1>1, <1>3, <1>7, OneMoves
<1>9. run'[t] = s /\ \A u \in Terminals \ {t} : run'[u] = run[u]
  BY <1>1, <1>3, <1>7, OneMoves
<1>10. r.prog \notin KeyWriters => files'[PK] = files[PK] /\ files'[VK] = files[VK]
  BY <1>2, <1>4, <1>6
<1>11. Undisturbed'
  <2> SUFFICES ASSUME NEW u \in Terminals, run'[u] # Idle, run'[u].steady
               PROVE  InPlace(run'[u], files') /\ ReadsAlike(run'[u], files', clean')
    BY DEF Undisturbed
  <2>1. CASE u # t
    <3>1. run'[u] = run[u]
      BY <1>9, <2>1
    <3> QED BY <1>1, <1>10, <2>1, <3>1, OthersUndisturbed
  <2>2. CASE u = t
    <3>1. run'[u] = s /\ r.steady
      BY <1>3, <1>9, <2>2
    <3>2. InPlace(r, files) /\ ReadsAlike(r, files, clean)
      BY <1>1, <3>1 DEF IInv, Undisturbed
    <3>3. InPlace(s, files')
      BY <1>2, <1>3, <1>4, <1>6, <3>2 DEF InPlace
    <3>4. ~Reading(s) /\ ~Reading(r)
      BY <1>1, <1>3 DEF Writing, Reading
    <3>5. s.prog \in PairReaders => Len(s.read) # 1
      <4>1. s.prog \in PairReaders => Len(Programs[s.prog].reads) = 2
        BY <1>1, <1>3, StepsOf DEF RunTyped
      <4>2. ASSUME s.prog \in PairReaders, Len(s.read) = 1
            PROVE  Reading(s)
        <5>1. Len(Programs[s.prog].reads) = 2
          BY <4>1, <4>2
        <5> QED BY <4>2, <5>1 DEF Reading
      <4> QED BY <3>4, <4>2
    <3>6. ReadsAlike(s, files', clean')
      BY <1>3, <3>2, <3>4, <3>5 DEF ReadsAlike
    <3> QED BY <3>1, <3>3, <3>6
  <2> QED BY <2>1, <2>2
<1>12. CleanMatches'
  <2> SUFFICES ASSUME clean
               PROVE  /\ \A u \in Terminals : ~Writer(u)'
                      /\ files'[PK] \in Key /\ files'[VK] = files'[PK]
    BY <1>1 DEF CleanMatches
  <2>1. /\ \A u \in Terminals : ~Writer(u)
        /\ files[PK] \in Key /\ files[VK] = files[PK]
    BY DEF IInv, CleanMatches
  <2>2. r.prog \notin KeyWriters
    BY <1>1, <2>1 DEF Writer
  <2> QED BY <1>8, <1>10, <2>1, <2>2
<1>13. FilesTyped'
  <2>1. ASSUME NEW g \in Files, Whole(g)'
        PROVE  files'[g] = files[g] /\ Whole(g)
    BY <1>6, <2>1 DEF Whole
  <2>2. WIRE \in Files /\ LIVE \in Files /\ LIVE2 \in Files
    BY DEF Files
  <2>3. /\ files'[PK] \in Key \cup {Missing, Torn}
        /\ files'[VK] \in Key \cup {Missing, Torn}
    BY <1>4, <1>6 DEF IInv, FilesTyped
  <2> QED BY <1>1, <1>5, <2>1, <2>2, <2>3 DEF IInv, FilesTyped
<1>14. PrintedIs' /\ clean' \in BOOLEAN
  BY <1>1 DEF IInv, PrintedIs
<1> QED BY <1>8, <1>11, <1>12, <1>13, <1>14 DEF IInv

\* What a program writes is what the invariant says its files hold.
LEMMA FillKeepsFiles ==
  ASSUME IInv, NEW t \in Terminals, run[t] # Idle, Writing(run[t]), run[t].opened,
         NEW f, f = NextWrite(run[t]),
         files' = [files EXCEPT ![f] = Content(run[t], f)],
         keys' = keys
  PROVE  FilesTyped'
<1> DEFINE r == run[t]
<1>1. RunTyped(r) /\ Writing(r) /\ f = NextWrite(r)
  BY DEF IInv, RunsTyped
<1>2. f \in Files
  BY <1>1, WhatIsWritten
<1>3. /\ DOMAIN files = Files /\ DOMAIN files' = Files
      /\ files'[f] = Content(r, f)
      /\ \A g \in Files \ {f} : files'[g] = files[g]
  BY <1>2 DEF IInv, FilesTyped
<1>4. /\ f = PK => Content(r, f) = r.key /\ r.key \in Key
      /\ f = VK => Content(r, f) \in Key
      /\ f \in {WIRE, LIVE, LIVE2} =>
           /\ r.prog \in PairReaders /\ Len(r.read) = 2
           /\ r.read[1] \in Key /\ r.read[2] \in Key \cup {Torn}
      /\ f = WIRE => /\ Content(r, f) = Wire(r.read[1], r.read[2], r.steady)
                     /\ r.read[2] \in Key
      /\ f = LIVE => Content(r, f) = Live(r.read[1], r.read[2], r.steady)
      /\ f = LIVE2 => Content(r, f) = Live2(r.read[1], r.read[2], r.steady)
  BY <1>1, ContentIs
<1>5. /\ r.steady \in BOOLEAN
      /\ f \in {WIRE, LIVE, LIVE2} /\ r.steady => r.read[1] = r.read[2]
  BY <1>1, <1>4 DEF IInv, Undisturbed, ReadsAlike, RunTyped
<1> HIDE DEF r
<1>6. {PK, VK, WIRE, LIVE, LIVE2} \subseteq Files
  BY DEF Files
<1>7. ASSUME NEW g \in {WIRE, LIVE, LIVE2}, g # f, Whole(g)'
      PROVE  files'[g] = files[g] /\ Whole(g)
  BY <1>3, <1>6, <1>7 DEF Whole
<1>8. /\ files'[PK] \in Key \cup {Missing, Torn}
      /\ files'[VK] \in Key \cup {Missing, Torn}
  BY <1>3, <1>4, <1>6 DEF IInv, FilesTyped
<1>9. Whole(WIRE)' => \E pk, vk \in Key, steady \in BOOLEAN :
                        files'[WIRE] = Wire(pk, vk, steady) /\ (steady => pk = vk)
  <2>1. CASE f = WIRE
    <3>1. /\ files'[WIRE] = Wire(r.read[1], r.read[2], r.steady)
          /\ r.read[1] \in Key /\ r.read[2] \in Key
          /\ r.steady \in BOOLEAN /\ (r.steady => r.read[1] = r.read[2])
      BY <1>3, <1>4, <1>5, <2>1
    <3> QED BY <3>1
  <2>2. CASE f # WIRE
    BY <1>7, <2>2 DEF IInv, FilesTyped
  <2> QED BY <2>1, <2>2
<1>10. Whole(LIVE)' => \E pk \in Key, vk \in Key \cup {Torn}, steady \in BOOLEAN :
                         files'[LIVE] = Live(pk, vk, steady) /\ (steady => pk = vk)
  <2>1. CASE f = LIVE
    <3>1. /\ files'[LIVE] = Live(r.read[1], r.read[2], r.steady)
          /\ r.read[1] \in Key /\ r.read[2] \in Key \cup {Torn}
          /\ r.steady \in BOOLEAN /\ (r.steady => r.read[1] = r.read[2])
      BY <1>3, <1>4, <1>5, <2>1
    <3> QED BY <3>1
  <2>2. CASE f # LIVE
    BY <1>7, <2>2 DEF IInv, FilesTyped
  <2> QED BY <2>1, <2>2
<1>11. Whole(LIVE2)' => \E pk \in Key, vk \in Key \cup {Torn}, steady \in BOOLEAN :
                          files'[LIVE2] = Live2(pk, vk, steady) /\ (steady => pk = vk)
  <2>1. CASE f = LIVE2
    <3>1. /\ files'[LIVE2] = Live2(r.read[1], r.read[2], r.steady)
          /\ r.read[1] \in Key /\ r.read[2] \in Key \cup {Torn}
          /\ r.steady \in BOOLEAN /\ (r.steady => r.read[1] = r.read[2])
      BY <1>3, <1>4, <1>5, <2>1
    <3> QED BY <3>1
  <2>2. CASE f # LIVE2
    BY <1>7, <2>2 DEF IInv, FilesTyped
  <2> QED BY <2>1, <2>2
<1> QED BY <1>3, <1>8, <1>9, <1>10, <1>11 DEF IInv, FilesTyped

\* A file is filled: setup's first key is in place when its second is, and
\* extract_vk's is that of the proving key, which is still the one it read.
LEMMA FillKeepsIInv ==
  ASSUME IInv, NEW t \in Terminals, Fill(t)
  PROVE  IInv'
<1> DEFINE r == run[t]
           f == NextWrite(r)
           s == [r EXCEPT !.opened = FALSE, !.written = @ + 1]
<1>1. /\ r # Idle /\ RunTyped(r) /\ Writing(r) /\ r.opened
      /\ UNCHANGED <<keys, printed, clean>>
      /\ files' = [files EXCEPT ![f] = Content(r, f)]
      /\ run' = [run EXCEPT ![t] = s]
  BY DEF Fill, IInv, RunsTyped, RunTyped
<1>2. /\ r.prog = "setup" => \/ r.written = 0 /\ f = PK
                             \/ r.written = 1 /\ f = VK
      /\ r.prog # "setup" => r.written = 0
      /\ r.prog = "extract_vk" => f = VK
      /\ f \in Files
      /\ r.prog \notin KeyWriters => f # PK /\ f # VK
  <2> HIDE DEF r, f
  <2> QED BY <1>1, WhatIsWritten DEF f
<1>3. /\ f = PK => Content(r, f) = r.key
      /\ f = VK => Content(r, f) = IF r.prog = "setup" THEN r.key ELSE r.read[1]
  <2> HIDE DEF r, f
  <2> QED BY <1>1, ContentIs DEF f
<1>4. /\ s.prog = r.prog /\ s.read = r.read /\ s.written = r.written + 1
      /\ s.opened = FALSE /\ s.key = r.key /\ s.steady = r.steady
      /\ DOMAIN s = Fields
  BY <1>1 DEF RunTyped, Fields
<1>5. PK # VK /\ PK \in Files /\ VK \in Files
  BY DEF PK, VK, Files
<1>6. DOMAIN files = Files
  BY DEF IInv, FilesTyped
<1> HIDE DEF s, f
<1>7. files'[f] = Content(r, f) /\ \A g \in Files \ {f} : files'[g] = files[g]
  BY <1>1, <1>2, <1>6
<1>8. RunTyped(s)
  <2>1. (Reading(s) <=> Reading(r)) /\ ~Reading(r)
    BY <1>1, <1>4 DEF Reading, Writing
  <2>2. r.written < Len(Programs[r.prog].writes) /\ r.written \in Nat
    BY <1>1 DEF Writing, RunTyped
  <2>3. Len(Programs[r.prog].writes) \in {0, 1, 2}
    BY <1>1, StepsOf DEF RunTyped
  <2>4. s.written \in 0..Len(Programs[s.prog].writes)
    BY <1>4, <2>2, <2>3
  <2> QED BY <1>1, <1>4, <2>1, <2>4 DEF RunTyped
<1>9. RunsTyped' /\ Alone' /\ \A u \in Terminals : Writer(u)' => Writer(u)
  BY <1>1, <1>4, <1>8, OneMoves
<1>10. run'[t] = s /\ \A u \in Terminals \ {t} : run'[u] = run[u]
  BY <1>1, <1>4, <1>8, OneMoves
<1>11. r.prog \notin KeyWriters => files'[PK] = files[PK] /\ files'[VK] = files[VK]
  BY <1>2, <1>5, <1>7
<1>12. Undisturbed'
  <2> SUFFICES ASSUME NEW u \in Terminals, run'[u] # Idle, run'[u].steady
               PROVE  InPlace(run'[u], files') /\ ReadsAlike(run'[u], files', clean')
    BY DEF Undisturbed
  <2>1. CASE u # t
    <3>1. run'[u] = run[u]
      BY <1>10, <2>1
    <3> QED BY <1>1, <1>11, <2>1, <3>1, OthersUndisturbed
  <2>2. CASE u = t
    <3>1. run'[u] = s /\ r.steady
      BY <1>4, <1>10, <2>2
    <3>2. InPlace(r, files) /\ ReadsAlike(r, files, clean)
      BY <1>1, <3>1 DEF IInv, Undisturbed
    <3>3. InPlace(s, files')
      <4>1. ASSUME s.prog = "setup"
            PROVE  /\ s.written >= 1 => files'[PK] = s.key
                   /\ s.written = 2 => files'[VK] = s.key
        <5>1. CASE r.written = 0 /\ f = PK
          BY <1>3, <1>4, <1>7, <4>1, <5>1
        <5>2. CASE r.written = 1 /\ f = VK
          <6>1. files[PK] = r.key
            BY <1>4, <3>2, <4>1, <5>2 DEF InPlace
          <6> QED BY <1>3, <1>4, <1>5, <1>7, <4>1, <5>2, <6>1
        <5> QED BY <1>2, <1>4, <4>1, <5>1, <5>2
      <4>2. ASSUME s.prog = "extract_vk", Len(s.read) = 1
            PROVE  files'[PK] = s.read[1] /\ (s.written = 1 => files'[VK] = s.read[1])
        <5>1. f = VK /\ files'[VK] = r.read[1]
          BY <1>2, <1>3, <1>4, <1>7, <4>2
        <5>2. files[PK] = r.read[1]
          BY <1>4, <3>2, <4>2 DEF InPlace
        <5> QED BY <1>4, <1>5, <1>7, <5>1, <5>2
      <4> QED BY <4>1, <4>2 DEF InPlace
    <3>4. ~Reading(s) /\ ~Reading(r)
      BY <1>1, <1>4 DEF Writing, Reading
    <3>5. s.prog \in PairReaders => Len(s.read) # 1
      <4>1. s.prog \in PairReaders => Len(Programs[s.prog].reads) = 2
        BY <1>1, <1>4, StepsOf DEF RunTyped
      <4>2. ASSUME s.prog \in PairReaders, Len(s.read) = 1
            PROVE  Reading(s)
        <5>1. Len(Programs[s.prog].reads) = 2
          BY <4>1, <4>2
        <5> QED BY <4>2, <5>1 DEF Reading
      <4> QED BY <3>4, <4>2
    <3>6. ReadsAlike(s, files', clean')
      BY <1>4, <3>2, <3>4, <3>5 DEF ReadsAlike
    <3> QED BY <3>1, <3>3, <3>6
  <2> QED BY <2>1, <2>2
<1>13. CleanMatches'
  <2> SUFFICES ASSUME clean
               PROVE  /\ \A u \in Terminals : ~Writer(u)'
                      /\ files'[PK] \in Key /\ files'[VK] = files'[PK]
    BY <1>1 DEF CleanMatches
  <2>1. /\ \A u \in Terminals : ~Writer(u)
        /\ files[PK] \in Key /\ files[VK] = files[PK]
    BY DEF IInv, CleanMatches
  <2>2. r.prog \notin KeyWriters
    BY <1>1, <2>1 DEF Writer
  <2> QED BY <1>9, <1>11, <2>1, <2>2
<1>14. FilesTyped'
  BY <1>1, FillKeepsFiles DEF f
<1>15. PrintedIs' /\ clean' \in BOOLEAN
  BY <1>1 DEF IInv, PrintedIs
<1> QED BY <1>9, <1>12, <1>13, <1>14, <1>15 DEF IInv

\* A program ends: setup and extract_vk leave a clean directory if they were not
\* disturbed, and a check prints what it makes of the keys it has read.
LEMMA FinishKeepsIInv ==
  ASSUME IInv, NEW t \in Terminals, Finish(t)
  PROVE  IInv'
<1> DEFINE r == run[t]
<1>1. /\ r # Idle /\ RunTyped(r) /\ ~Reading(r) /\ ~Writing(r)
      /\ UNCHANGED <<files, keys>>
      /\ run' = [run EXCEPT ![t] = Idle]
      /\ printed' = [prog |-> r.prog, read |-> r.read, steady |-> r.steady,
                     verdicts |-> Verdicts(r)]
      /\ clean' = IF r.prog \in {"setup", "extract_vk"} THEN r.steady ELSE clean
  BY DEF Finish, Exits, IInv, RunsTyped
<1>2. RunsTyped' /\ Alone' /\ \A u \in Terminals : Writer(u)' => Writer(u)
  BY <1>1, OneMoves
<1>3. run'[t] = Idle /\ \A u \in Terminals \ {t} : run'[u] = run[u]
  BY <1>1, OneMoves
<1>4. r.steady => InPlace(r, files) /\ ReadsAlike(r, files, clean)
  BY <1>1 DEF IInv, Undisturbed
<1>5. r.prog \in DOMAIN Programs /\ Len(r.read) \in Nat /\ r.written \in Nat
  BY <1>1, ProgressIs
<1>6. /\ r.prog = "setup" => r.written >= 2
      /\ r.prog = "extract_vk" => Len(r.read) >= 1 /\ r.written >= 1
      /\ r.prog \in PairReaders => Len(r.read) >= 2
  BY <1>1, ProgressIs DEF PairReaders, Provers
<1>7. /\ Len(r.read) <= Len(Programs[r.prog].reads)
      /\ r.written \in 0..Len(Programs[r.prog].writes)
      /\ r.steady \in BOOLEAN
      /\ r.prog = "setup" => r.key \in Key
      /\ r.prog \in PairReaders \cup {"extract_vk"} /\ Len(r.read) >= 1 => r.read[1] \in Key
      /\ r.prog \in PairReaders /\ Len(r.read) = 2 =>
           r.read[2] \in IF r.prog \in Provers THEN Key \cup {Torn} ELSE Key
  BY <1>1 DEF RunTyped, KeyMakers
<1> HIDE DEF r
<1>8. /\ r.prog = "setup" => r.written = 2
      /\ r.prog = "extract_vk" => Len(r.read) = 1 /\ r.written = 1
      /\ r.prog \in PairReaders => Len(r.read) = 2
  <2>1. /\ r.prog = "setup" => Len(Programs[r.prog].writes) = 2
        /\ r.prog = "extract_vk" => /\ Len(Programs[r.prog].reads) = 1
                                    /\ Len(Programs[r.prog].writes) = 1
        /\ r.prog \in PairReaders => Len(Programs[r.prog].reads) = 2
    BY <1>5, StepsOf DEF PairReaders, Provers
  <2>2. /\ Len(r.read) <= Len(Programs[r.prog].reads)
        /\ r.written \in 0..Len(Programs[r.prog].writes)
    BY <1>7
  <2>3. ASSUME r.prog = "setup" PROVE r.written = 2
    <3>1. r.written \in 0..2 /\ r.written >= 2
      BY <1>6, <2>1, <2>2, <2>3
    <3> QED BY <3>1
  <2>4. ASSUME r.prog = "extract_vk" PROVE Len(r.read) = 1 /\ r.written = 1
    <3>1. Len(r.read) <= 1 /\ r.written \in 0..1
      BY <2>1, <2>2, <2>4
    <3>2. Len(r.read) >= 1 /\ r.written >= 1
      BY <1>6, <2>4
    <3>3. \A n \in Nat : n >= 1 /\ n <= 1 => n = 1
      OBVIOUS
    <3>4. Len(r.read) = 1
      BY <1>5, <3>1, <3>2, <3>3, Zenon
    <3>5. r.written = 1
      BY <3>1, <3>2
    <3> QED BY <3>4, <3>5
  <2>5. ASSUME r.prog \in PairReaders PROVE Len(r.read) = 2
    <3>1. Len(r.read) <= 2
      BY <2>1, <2>2, <2>5
    <3>2. Len(r.read) >= 2
      BY <1>6, <2>5
    <3>3. \A n \in Nat : n >= 2 /\ n <= 2 => n = 2
      OBVIOUS
    <3> QED BY <1>5, <3>1, <3>2, <3>3, Zenon
  <2> QED BY <2>3, <2>4, <2>5
<1>9. r.steady /\ r.prog \in {"setup", "extract_vk"} =>
        files[PK] \in Key /\ files[VK] = files[PK]
  BY <1>4, <1>7, <1>8 DEF InPlace
<1>10. r.prog \in KeyWriters => ~clean
  BY <1>1 DEF IInv, CleanMatches, Writer, r
<1>11. CleanMatches'
  <2> SUFFICES ASSUME clean'
               PROVE  /\ \A u \in Terminals : ~Writer(u)'
                      /\ files[PK] \in Key /\ files[VK] = files[PK]
    BY <1>1 DEF CleanMatches
  <2>1. CASE r.prog \in {"setup", "extract_vk"}
    <3>1. r.steady /\ Writer(t)
      BY <1>1, <2>1 DEF Writer, KeyWriters, r
    <3>2. ASSUME NEW u \in Terminals, Writer(u)'
          PROVE  FALSE
      <4>1. Writer(u)
        BY <1>2, <3>2
      <4>2. u = t
        BY <3>1, <4>1 DEF IInv, Alone, r
      <4> QED BY <1>3, <3>2, <4>2 DEF Writer
    <3> QED BY <1>9, <2>1, <3>1, <3>2
  <2>2. CASE r.prog \notin {"setup", "extract_vk"}
    <3>1. clean
      BY <1>1, <2>2 DEF r
    <3> QED BY <1>2, <3>1 DEF IInv, CleanMatches
  <2> QED BY <2>1, <2>2
<1>12. Undisturbed'
  <2> SUFFICES ASSUME NEW u \in Terminals, run'[u] # Idle, run'[u].steady
               PROVE  InPlace(run'[u], files') /\ ReadsAlike(run'[u], files', clean')
    BY DEF Undisturbed
  <2>1. u # t /\ run'[u] = run[u]
    BY <1>3
  <2>2. InPlace(run[u], files) /\ ReadsAlike(run[u], files, clean)
    BY <2>1 DEF IInv, Undisturbed
  <2>3. clean => clean'
    BY <1>1, <1>10 DEF r, KeyWriters
  <2>4. clean \in BOOLEAN
    BY DEF IInv
  <2> QED BY <1>1, <2>1, <2>2, <2>3, <2>4 DEF ReadsAlike
<1>13. PrintedIs'
  <2>1. /\ printed'.prog = r.prog /\ printed'.read = r.read
        /\ printed'.steady = r.steady /\ printed'.verdicts = Verdicts(r)
    BY <1>1 DEF r
  <2> SUFFICES ASSUME r.prog \in {"verify_smoke", "verify_prove2"}
               PROVE  /\ r.read[1] \in Key /\ r.read[2] \in Key
                      /\ r.steady => r.read[1] = r.read[2]
                      /\ Verdicts(r) = IF r.prog = "verify_smoke"
                                         THEN verify_smoke_verdicts(r.read[1], r.read[2])
                                         ELSE verify_prove2_verdicts(r.read[1], r.read[2])
    BY <2>1 DEF PrintedIs
  <2>2. r.prog \in PairReaders /\ r.prog \notin Provers
    BY DEF PairReaders, Provers
  <2>3. r.read[1] \in Key /\ r.read[2] \in Key
    BY <1>7, <1>8, <2>2
  <2>4. r.steady => r.read[1] = r.read[2]
    BY <1>4, <1>8, <2>2 DEF ReadsAlike
  <2>5. Verdicts(r) = IF r.prog = "verify_smoke"
                        THEN verify_smoke_verdicts(r.read[1], r.read[2])
                        ELSE verify_prove2_verdicts(r.read[1], r.read[2])
    BY DEF Verdicts
  <2> QED BY <2>3, <2>4, <2>5
<1>14. FilesTyped' /\ clean' \in BOOLEAN
  BY <1>1, <1>7 DEF IInv, FilesTyped, Whole, r
<1> QED BY <1>2, <1>11, <1>12, <1>13, <1>14 DEF IInv

\* The invariant holds in every reachable state.
LEMMA Invariance == Spec => []IInv
<1>1. ASSUME IInv, [Next]_vars
      PROVE  IInv'
  <2>1. CASE Next
    <3>1. PICK t \in Terminals : \/ \E prog \in DOMAIN Programs : Start(t, prog)
                                 \/ Read(t) \/ Open(t) \/ Fill(t) \/ Finish(t) \/ Crash(t)
      BY <2>1 DEF Next
    <3>2. CASE Crash(t)
      BY <1>1, <3>2, ExitKeepsIInv DEF Crash
    <3> QED
      BY <1>1, <3>1, <3>2, StartKeepsIInv, ReadKeepsIInv, OpenKeepsIInv, FillKeepsIInv,
         FinishKeepsIInv
  <2>2. CASE UNCHANGED vars
    <3>1. FilesTyped' /\ RunsTyped' /\ PrintedIs'
      BY <1>1, <2>2 DEF vars, IInv, FilesTyped, Whole, RunsTyped, PrintedIs
    <3>2. Alone' /\ CleanMatches'
      BY <1>1, <2>2 DEF vars, IInv, Alone, CleanMatches, Writer
    <3>3. Undisturbed' /\ clean' \in BOOLEAN
      BY <1>1, <2>2 DEF vars, IInv, Undisturbed
    <3> QED BY <3>1, <3>2, <3>3 DEF IInv
  <2> QED BY <1>1, <2>1, <2>2
<1> QED BY InitIInv, <1>1, PTL DEF Spec

\* KeysMatchWhenClean, for every directory: whatever overlapped or died before,
\* one undisturbed setup or extract_vk leaves two key files of one setup.
THEOREM KeysMatch == Spec => []KeysMatchWhenClean
<1>1. IInv => KeysMatchWhenClean
  BY KeyFileAssumption DEF IInv, CleanMatches, KeysMatchWhenClean, Whole, Key
<1> QED BY Invariance, <1>1, PTL
-----------------------------------------------------------------------------
\* What the circuit's proofs assume of their constants.
LEMMA CircuitAssumptions ==
  /\ Circuit!MaxTimeAssumption /\ Circuit!TreeAssumption
  /\ Circuit!GadgetAssumption /\ Circuit!CircuitAssumption
<1>1. Circuit!MaxTimeAssumption
  BY DEF Circuit!MaxTimeAssumption
<1>2. Circuit!TreeAssumption
  BY TreeAssumption DEF Circuit!TreeAssumption
<1>3. Circuit!GadgetAssumption
  BY GadgetAssumption DEF Circuit!GadgetAssumption
<1>4. Circuit!CircuitAssumption
  BY DEF Circuit!CircuitAssumption
<1> QED BY <1>1, <1>2, <1>3, <1>4

\* The proof of an owner whose path leads to the root is sound.
LEMMA HonestIsSound ==
  ASSUME NEW owner \in {Owner, Owner0, Owner1}, NEW path, NEW bits,
         NEW root, root = Fold(leaf_of(owner), path, bits)
  PROVE  generate_constraints(public_inputs(owner, root, Challenge),
                              circuit_of(owner, path, bits)) = TRUE
<1> DEFINE inputs == public_inputs(owner, root, Challenge)
           w == circuit_of(owner, path, bits)
           leaf == <<"leaf", inputs[1], ownerCommitment(w.owner_secret, w.property_id),
                     w.encumbrance_flag, w.license_status, w.license_expiry>>
<1>1. /\ inputs[1] = registryId /\ inputs[2] = root /\ inputs[3] = Challenge.purpose
      /\ inputs[4] = Challenge.requestNonce /\ inputs[5] = Challenge.currentTimestamp
      /\ inputs[6] = nullifierHash(owner.secret, owner.id, Challenge.purpose,
                                   Challenge.requestNonce)
  BY DEF public_inputs
<1>2. /\ w.owner_secret = owner.secret /\ w.property_id = owner.id
      /\ w.encumbrance_flag = 0 /\ w.license_status = 1
      /\ w.license_expiry = owner.expiry
      /\ w.merkle_path = path /\ w.merkle_path_bits = bits
  BY DEF circuit_of
<1> HIDE DEF inputs, w
<1>3. leaf = leaf_of(owner)
  BY <1>1, <1>2 DEF leaf_of, leafHash
<1>4. /\ owner.expiry \in Fr /\ Challenge.currentTimestamp \in Fr
      /\ owner.expiry < TwoN /\ Challenge.currentTimestamp < owner.expiry
  BY IdentityAssumption
<1>5. not_expired(w.license_expiry, inputs[5])
  <2>1. Circuit!not_expired(w.license_expiry, inputs[5])
    <3>1. /\ w.license_expiry \in Circuit!Fr /\ inputs[5] \in Circuit!Fr
      BY <1>1, <1>2, <1>4 DEF Circuit!Fr, Fr
    <3>2. /\ w.license_expiry < TwoN /\ inputs[5] < TwoN
          /\ w.license_expiry > inputs[5]
      BY <1>1, <1>2, <1>4, GadgetAssumption DEF Fr
    <3> QED BY <3>1, <3>2, CircuitAssumptions, Circuit!ComparisonIsExact
  <2> QED
    BY <2>1 DEF not_expired, Circuit!not_expired, enforce_fits_in_bits,
       Circuit!enforce_fits_in_bits, enforce_greater_than, Circuit!enforce_greater_than,
       Bit, Circuit!Bit
<1>6. generate_constraints(inputs, w)
  BY <1>1, <1>2, <1>3, <1>5 DEF generate_constraints
<1> QED BY <1>6 DEF inputs, w

\* The root that prove2 computes on its own is the one its path leads to.
LEMMA SecondRootIsFold ==
  second_root(leaf_of(Owner0), leaf_of(Owner1))
    = Fold(leaf_of(Owner1), second_path(Owner0), second_bits)
<1> DEFINE leaf0 == leaf_of(Owner0)
           leaf1 == leaf_of(Owner1)
           Step(g, level) == IF level = 1 THEN nodeHash(leaf0, leaf1)
                                          ELSE nodeHash(g[level - 1], zeroHashes[level - 1])
           cur == CHOOSE g : g = [level \in 1..treeDepth |-> Step(g, level)]
<1>1. treeDepth \in Nat \ {0}
  BY TreeAssumption, DepthAssumption
<1>2. PICK g : /\ g[0] = leaf1
               /\ \A level \in 1..treeDepth :
                    g[level] = IF second_bits[level - 1]
                                 THEN nodeHash(second_path(Owner0)[level - 1], g[level - 1])
                                 ELSE nodeHash(g[level - 1], second_path(Owner0)[level - 1])
               /\ Fold(leaf1, second_path(Owner0), second_bits) = g[treeDepth]
  <2>1. \E g : /\ g[0] = leaf1
               /\ \A level \in 1..treeDepth :
                    g[level] = IF second_bits[level - 1]
                                 THEN Circuit!nodeHash(second_path(Owner0)[level - 1], g[level - 1])
                                 ELSE Circuit!nodeHash(g[level - 1], second_path(Owner0)[level - 1])
               /\ Circuit!Fold(leaf1, second_path(Owner0), second_bits) = g[treeDepth]
    BY CircuitAssumptions, Circuit!FoldSteps
  <2>2. Circuit!Fold(leaf1, second_path(Owner0), second_bits)
          = Fold(leaf1, second_path(Owner0), second_bits)
    BY DEF Fold, Circuit!Fold, nodeHash, Circuit!nodeHash
  <2> QED BY <2>1, <2>2 DEF nodeHash, Circuit!nodeHash
<1> HIDE DEF leaf0, leaf1
<1>3. ASSUME NEW level \in 1..treeDepth
      PROVE  g[level] = Step(g, level)
  <2>1. level - 1 \in Levels
    BY <1>1 DEF Levels
  <2>2. /\ second_bits[level - 1] = (level = 1)
        /\ second_path(Owner0)[level - 1] =
             IF level = 1 THEN leaf0 ELSE zeroHashes[level - 1]
    BY <2>1 DEF second_bits, second_path, leaf0
  <2>3. g[level] = IF level = 1 THEN nodeHash(leaf0, g[level - 1])
                                ELSE nodeHash(g[level - 1], zeroHashes[level - 1])
    BY <1>2, <2>2
  <2>4. level = 1 => g[level - 1] = leaf1
    BY <1>2
  <2> QED BY <2>3, <2>4
<1>4. cur = [level \in 1..treeDepth |-> Step(cur, level)]
  <2> DEFINE h == [level \in 1..treeDepth |-> g[level]]
  <2>1. ASSUME NEW level \in 1..treeDepth
        PROVE  h[level] = Step(h, level)
    <3>1. level # 1 => level - 1 \in 1..treeDepth
      BY <1>1
    <3>2. level # 1 => h[level - 1] = g[level - 1]
      BY <3>1
    <3> QED BY <1>3, <3>2
  <2>2. h = [level \in 1..treeDepth |-> Step(h, level)]
    BY <2>1
  <2> HIDE DEF h
  <2> QED BY <2>2
<1>5. second_root(leaf0, leaf1) = cur[treeDepth]
  BY DEF second_root
<1> HIDE DEF cur
<1> DEFINE S == {n \in 0..(treeDepth - 1) : cur[n + 1] = g[n + 1]}
<1>6. 0 \in S
  BY <1>1, <1>3, <1>4
<1>7. ASSUME NEW n \in 0..((treeDepth - 1) - 1), n \in S
      PROVE  n + 1 \in S
  <2>1. /\ n + 2 \in 1..treeDepth /\ n + 1 \in 0..(treeDepth - 1)
        /\ (n + 2) - 1 = n + 1 /\ n + 2 # 1 /\ (n + 1) + 1 = n + 2
    BY <1>1
  <2>2. cur[n + 2] = nodeHash(cur[n + 1], zeroHashes[n + 1])
    BY <1>4, <2>1
  <2>3. g[n + 2] = nodeHash(g[n + 1], zeroHashes[n + 1])
    BY <1>3, <2>1
  <2> QED BY <1>7, <2>1, <2>2, <2>3
<1>8. treeDepth - 1 \in S
  <2> HIDE DEF S
  <2>1. treeDepth - 1 \in Nat
    BY <1>1
  <2>2. 0..(treeDepth - 1) \subseteq S
    BY <1>6, <1>7, <2>1, BoundedInduction
  <2> QED BY <2>1, <2>2
<1>9. (treeDepth - 1) + 1 = treeDepth
  BY <1>1
<1> QED BY <1>2, <1>5, <1>8, <1>9 DEF leaf0, leaf1

\* The three honest proofs: of the programs' own record, of prove_live's first
\* leaf, and of prove2's second leaf.
LEMMA HonestProofsAreSound ==
  ASSUME NEW pk
  PROVE  /\ demo_proof(pk) = [key |-> pk, inputs |-> demo_inputs, sound |-> TRUE]
         /\ live_proof(pk) = [key |-> pk, inputs |-> live_inputs, sound |-> TRUE]
         /\ prove2_proof(pk) = [key |-> pk, inputs |-> prove2_inputs, sound |-> TRUE]
<1>1. generate_constraints(demo_inputs, circuit_of(Owner, first_path, first_bits)) = TRUE
  <2>1. first_root(Owner) = Fold(leaf_of(Owner), first_path, first_bits)
    BY DEF first_root
  <2> QED BY <2>1, HonestIsSound DEF demo_inputs
<1>2. generate_constraints(live_inputs, circuit_of(Owner0, first_path, first_bits)) = TRUE
  <2>1. first_root(Owner0) = Fold(leaf_of(Owner0), first_path, first_bits)
    BY DEF first_root
  <2> QED BY <2>1, HonestIsSound DEF live_inputs
<1>3. generate_constraints(prove2_inputs,
                           circuit_of(Owner1, second_path(Owner0), second_bits)) = TRUE
  BY SecondRootIsFold, HonestIsSound DEF prove2_inputs
<1> QED
  BY <1>1, <1>2, <1>3 DEF demo_proof, live_proof, prove2_proof, Prove

\* A forged nullifier is never the one that was proved.
LEMMA ForgedDiffers ==
  /\ Forged(demo_inputs) # demo_inputs
  /\ Forged(prove2_inputs) # prove2_inputs
<1>1. ASSUME NEW owner, NEW root
      PROVE  Forged(public_inputs(owner, root, Challenge))
               # public_inputs(owner, root, Challenge)
  <2> DEFINE inputs == public_inputs(owner, root, Challenge)
             nullifier == nullifierHash(owner.secret, owner.id, Challenge.purpose,
                                        Challenge.requestNonce)
  <2>1. inputs[6] = nullifier /\ Forged(inputs)[6] = <<"number", "123456789">>
    BY DEF Forged, public_inputs
  <2>2. nullifier # <<"number", "123456789">>
    BY DEF nullifierHash
  <2> QED BY <2>1, <2>2
<1> QED BY <1>1 DEF demo_inputs, prove2_inputs

\* The witness that verify_smoke tries first satisfies nothing: no nullifier is
\* the empty leaf.
LEMMA InconsistentIsUnsound ==
  ASSUME NEW nought, nought = zeroHashes[0],
         NEW w, NEW inputs, inputs = [demo_inputs EXCEPT ![2] = nought, ![6] = nought]
  PROVE  ~generate_constraints(inputs, w)
<1>1. nought = <<"empty">>
  <2>1. Circuit!zeroHashes = zeroHashes
    BY DEF zeroHashes, Circuit!zeroHashes, nodeHash, Circuit!nodeHash
  <2> QED BY <2>1, CircuitAssumptions, Circuit!ZeroHashes
<1>2. inputs[6] = nought
  BY DEF demo_inputs, public_inputs
<1>3. nought # nullifierHash(w.owner_secret, w.property_id, inputs[3], inputs[4])
  BY <1>1 DEF nullifierHash
<1> QED BY <1>2, <1>3 DEF generate_constraints

\* The verdicts of the two checks, by the two keys they have read.
LEMMA VerdictsAre ==
  ASSUME NEW pk, NEW vk, NEW alike \in BOOLEAN, alike <=> pk = vk
  PROVE  /\ verify_smoke_verdicts(pk, vk) =
              {Verdict("inconsistent", FALSE, FALSE),
               Verdict("consistent", alike, TRUE),
               Verdict("tampered", FALSE, FALSE)}
         /\ verify_prove2_verdicts(pk, vk) =
              {Verdict("prove2", alike, TRUE), Verdict("forged", FALSE, FALSE)}
<1>1. ASSUME NEW inputs, NEW forged, forged # inputs,
             NEW proof, proof = [key |-> pk, inputs |-> inputs, sound |-> TRUE]
      PROVE  /\ Verifies(vk, inputs, proof) = alike
             /\ Verifies(vk, forged, proof) = FALSE
  BY <1>1 DEF Verifies
<1>2. /\ Verifies(vk, demo_inputs, demo_proof(pk)) = alike
      /\ Verifies(vk, Forged(demo_inputs), demo_proof(pk)) = FALSE
  BY <1>1, HonestProofsAreSound, ForgedDiffers
<1>3. /\ Verifies(vk, prove2_inputs, prove2_proof(pk)) = alike
      /\ Verifies(vk, Forged(prove2_inputs), prove2_proof(pk)) = FALSE
  BY <1>1, HonestProofsAreSound, ForgedDiffers
<1> DEFINE nought == zeroHashes[0]
           bad_inputs == [demo_inputs EXCEPT ![2] = nought, ![6] = nought]
           bad_witness == circuit_of(Owner, [level \in Levels |-> nought], first_bits)
<1>4. Verifies(vk, bad_inputs, Prove(pk, bad_inputs, bad_witness)) = FALSE
  <2>1. ~generate_constraints(bad_inputs, bad_witness)
    BY InconsistentIsUnsound
  <2> HIDE DEF bad_inputs, bad_witness
  <2> QED BY <2>1 DEF Verifies, Prove
<1>5. verify_smoke_verdicts(pk, vk) =
        {Verdict("inconsistent",
                 Verifies(vk, bad_inputs, Prove(pk, bad_inputs, bad_witness)), FALSE),
         Verdict("consistent", Verifies(vk, demo_inputs, demo_proof(pk)), TRUE),
         Verdict("tampered", Verifies(vk, Forged(demo_inputs), demo_proof(pk)), FALSE)}
  BY DEF verify_smoke_verdicts
<1> HIDE DEF bad_inputs, bad_witness
<1> QED BY <1>2, <1>3, <1>4, <1>5, Zenon DEF verify_prove2_verdicts

\* ChecksTell, for every directory: what verify_smoke and verify_prove2 print
\* tells whether the two keys they have read are of one setup.
THEOREM ChecksAreTelling == Spec => []ChecksTell
<1>1. ASSUME IInv PROVE ChecksTell
  <2> SUFFICES ASSUME printed # Silent, printed.prog \in {"verify_smoke", "verify_prove2"}
               PROVE  /\ printed.steady => \A v \in printed.verdicts : v.ok = v.expect
                      /\ (\A v \in printed.verdicts : v.ok = v.expect)
                           => printed.read[1] = printed.read[2]
                      /\ \A v \in printed.verdicts : v.ok => v.expect
    BY DEF ChecksTell
  <2>1. PICK pk, vk : pk = printed.read[1] /\ vk = printed.read[2]
    OBVIOUS
  <2>2. PICK alike \in BOOLEAN : alike <=> pk = vk
    OBVIOUS
  <2>3. /\ printed.steady => pk = vk
        /\ printed.verdicts = IF printed.prog = "verify_smoke"
                                THEN verify_smoke_verdicts(pk, vk)
                                ELSE verify_prove2_verdicts(pk, vk)
    BY <1>1, <2>1 DEF IInv, PrintedIs
  <2> DEFINE telling == IF printed.prog = "verify_smoke" THEN "consistent" ELSE "prove2"
  <2>4. /\ Verdict(telling, alike, TRUE) \in printed.verdicts
        /\ \A v \in printed.verdicts : \/ v = Verdict(telling, alike, TRUE)
                                       \/ \E case : v = Verdict(case, FALSE, FALSE)
    <3>1. CASE printed.prog = "verify_smoke"
      <4>1. telling = "consistent" /\ printed.verdicts = verify_smoke_verdicts(pk, vk)
        BY <2>3, <3>1
      <4> HIDE DEF telling
      <4>2. printed.verdicts = {Verdict("inconsistent", FALSE, FALSE),
                                Verdict("consistent", alike, TRUE),
                                Verdict("tampered", FALSE, FALSE)}
        <5>1. verify_smoke_verdicts(pk, vk) = {Verdict("inconsistent", FALSE, FALSE),
                                               Verdict("consistent", alike, TRUE),
                                               Verdict("tampered", FALSE, FALSE)}
          BY <2>2, VerdictsAre
        <5> QED BY <4>1, <5>1
      <4>3. \A x, y, z : y \in {x, y, z} /\ \A v \in {x, y, z} : v = y \/ v = x \/ v = z
        OBVIOUS
      <4> QED BY <4>1, <4>2, <4>3, Zenon
    <3>2. CASE printed.prog = "verify_prove2"
      <4>1. telling = "prove2" /\ printed.verdicts = verify_prove2_verdicts(pk, vk)
        BY <2>3, <3>2
      <4> HIDE DEF telling
      <4>2. printed.verdicts = {Verdict("prove2", alike, TRUE),
                                Verdict("forged", FALSE, FALSE)}
        <5>1. verify_prove2_verdicts(pk, vk) = {Verdict("prove2", alike, TRUE),
                                                Verdict("forged", FALSE, FALSE)}
          BY <2>2, VerdictsAre
        <5> QED BY <4>1, <5>1
      <4>3. \A x, y : x \in {x, y} /\ \A v \in {x, y} : v = x \/ v = y
        OBVIOUS
      <4> QED BY <4>1, <4>2, <4>3, Zenon
    <3> QED BY <3>1, <3>2
  <2> HIDE DEF telling
  <2>5. /\ Verdict(telling, alike, TRUE).ok = alike
        /\ Verdict(telling, alike, TRUE).expect = TRUE
        /\ \A case : /\ Verdict(case, FALSE, FALSE).ok = FALSE
                     /\ Verdict(case, FALSE, FALSE).expect = FALSE
    BY Zenon DEF Verdict
  <2>6. (\A v \in printed.verdicts : v.ok = v.expect) <=> pk = vk
    <3> DEFINE honest == Verdict(telling, alike, TRUE)
    <3>1. honest \in printed.verdicts /\ honest.ok = alike /\ honest.expect = TRUE
      BY <2>4, <2>5
    <3> HIDE DEF honest
    <3>2. ASSUME \A v \in printed.verdicts : v.ok = v.expect PROVE alike
      BY <3>1, <3>2
    <3>3. ASSUME alike, NEW v \in printed.verdicts PROVE v.ok = v.expect
      <4>1. alike = TRUE
        BY <3>3
      <4>2. CASE v = honest
        BY <3>1, <4>1, <4>2
      <4>3. CASE \E case : v = Verdict(case, FALSE, FALSE)
        BY <2>5, <4>3
      <4> QED BY <2>4, <4>2, <4>3 DEF honest
    <3> QED BY <2>2, <3>2, <3>3
  <2>7. \A v \in printed.verdicts : v.ok => v.expect
    BY <2>2, <2>4, <2>5
  <2> QED BY <2>1, <2>3, <2>6, <2>7
<1> QED BY Invariance, <1>1, PTL

\* ExportsVerify, for every directory: an export made of two keys read while
\* nothing wrote them verifies, and its forged variant never does.
THEOREM ExportsDoVerify == Spec => []ExportsVerify
<1>1. ASSUME IInv PROVE ExportsVerify
  <2>1. Whole(WIRE) => /\ files[WIRE].steady =>
                            Verifies(files[WIRE].vk, files[WIRE].inputs, files[WIRE].proof)
                       /\ ~Verifies(files[WIRE].vk, files[WIRE].forged, files[WIRE].proof)
    <3> SUFFICES ASSUME NEW pk \in Key, NEW vk \in Key, NEW steady \in BOOLEAN,
                        files[WIRE] = Wire(pk, vk, steady), steady => pk = vk
                 PROVE  /\ files[WIRE].steady =>
                             Verifies(files[WIRE].vk, files[WIRE].inputs, files[WIRE].proof)
                        /\ ~Verifies(files[WIRE].vk, files[WIRE].forged, files[WIRE].proof)
      BY <1>1 DEF IInv, FilesTyped
    <3>1. /\ files[WIRE].vk = vk /\ files[WIRE].inputs = demo_inputs
          /\ files[WIRE].forged = Forged(demo_inputs)
          /\ files[WIRE].steady = steady
          /\ files[WIRE].proof = [key |-> pk, inputs |-> demo_inputs, sound |-> TRUE]
      BY HonestProofsAreSound DEF Wire
    <3> QED BY <3>1, ForgedDiffers DEF Verifies
  <2>2. Whole(LIVE) /\ files[LIVE].steady =>
          Verifies(files[LIVE].vk, files[LIVE].inputs, files[LIVE].proof)
    <3> SUFFICES ASSUME NEW pk \in Key, NEW vk \in Key \cup {Torn}, NEW steady \in BOOLEAN,
                        files[LIVE] = Live(pk, vk, steady), steady => pk = vk,
                        files[LIVE].steady
                 PROVE  Verifies(files[LIVE].vk, files[LIVE].inputs, files[LIVE].proof)
      BY <1>1 DEF IInv, FilesTyped
    <3>1. /\ files[LIVE].vk = vk /\ files[LIVE].inputs = live_inputs
          /\ files[LIVE].steady = steady
          /\ files[LIVE].proof = [key |-> pk, inputs |-> live_inputs, sound |-> TRUE]
      BY HonestProofsAreSound DEF Live
    <3> QED BY <3>1 DEF Verifies
  <2>3. Whole(LIVE2) /\ files[LIVE2].steady =>
          Verifies(files[LIVE2].vk, files[LIVE2].inputs, files[LIVE2].proof)
    <3> SUFFICES ASSUME NEW pk \in Key, NEW vk \in Key \cup {Torn}, NEW steady \in BOOLEAN,
                        files[LIVE2] = Live2(pk, vk, steady), steady => pk = vk,
                        files[LIVE2].steady
                 PROVE  Verifies(files[LIVE2].vk, files[LIVE2].inputs, files[LIVE2].proof)
      BY <1>1 DEF IInv, FilesTyped
    <3>1. /\ files[LIVE2].vk = vk /\ files[LIVE2].inputs = prove2_inputs
          /\ files[LIVE2].steady = steady
          /\ files[LIVE2].proof = [key |-> pk, inputs |-> prove2_inputs, sound |-> TRUE]
      BY HonestProofsAreSound DEF Live2
    <3> QED BY <3>1 DEF Verifies
  <2> QED BY <2>1, <2>2, <2>3 DEF ExportsVerify
<1> QED BY Invariance, <1>1, PTL
-----------------------------------------------------------------------------
\* A piece of a sequence.
LEMMA PieceIs ==
  ASSUME NEW X, NEW s \in Seq(X), NEW a \in Nat, NEW b \in Nat, a <= b, b <= Len(s)
  PROVE  /\ SubSeq(s, a + 1, b) \in Seq(X)
         /\ Len(SubSeq(s, a + 1, b)) = b - a
         /\ \A i \in 1..(b - a) : SubSeq(s, a + 1, b)[i] = s[a + i]
<1>1. Len(s) \in Nat /\ \A i \in (a + 1)..b : s[i] \in X
  BY ElementOfSeq, LenProperties
<1>2. /\ SubSeq(s, a + 1, b) \in Seq(X)
      /\ Len(SubSeq(s, a + 1, b)) = IF a + 1 <= b THEN b - (a + 1) + 1 ELSE 0
      /\ \A i \in 1..(b - (a + 1) + 1) : SubSeq(s, a + 1, b)[i] = s[a + 1 + i - 1]
  BY <1>1, SubSeqProperties
<1> QED BY <1>2

\* A piece of one element.
LEMMA OnePieceIs ==
  ASSUME NEW X, NEW s \in Seq(X), NEW b \in Nat, b < Len(s)
  PROVE  SubSeq(s, b + 1, b + 1) = <<s[b + 1]>>
<1> DEFINE piece == SubSeq(s, b + 1, b + 1)
           x == s[b + 1]
<1>1. b + 1 \in Nat /\ b <= b + 1 /\ b + 1 <= Len(s) /\ (b + 1) - b = 1 /\ b + 1 \in 1..Len(s)
  BY LenProperties
<1>2. piece \in Seq(X) /\ Len(piece) = 1 /\ \A i \in 1..1 : piece[i] = s[b + i]
  BY <1>1, PieceIs
<1>3. x \in X
  BY <1>1, ElementOfSeq
<1>4. piece[1] = x
  BY <1>2
<1> HIDE DEF piece, x
<1>5. <<x>> \in Seq(X) /\ Len(<<x>>) = 1 /\ <<x>>[1] = x
  BY <1>3
<1>6. \A i \in 1..Len(piece) : piece[i] = <<x>>[i]
  <2>1. \A i \in 1..1 : i = 1
    OBVIOUS
  <2> QED BY <1>2, <1>4, <1>5, <2>1
<1>7. piece = <<x>>
  BY <1>2, <1>5, <1>6, SeqEqual
<1> QED BY <1>7 DEF piece, x

\* What is added is what the elements are, and element by element is as well.
LEMMA AddedOneMore ==
  ASSUME NEW X, NEW s \in Seq(X), NEW a \in Nat, NEW b \in Nat, a <= b, b < Len(s),
         NEW state
  PROVE  AddedAt(AddedAt(state, 0, SubSeq(s, a + 1, b)), b - a, <<s[b + 1]>>)
           = AddedAt(state, 0, SubSeq(s, a + 1, b + 1))
<1> DEFINE xs == SubSeq(s, a + 1, b)
           ys == SubSeq(s, a + 1, b + 1)
           before == AddedAt(state, 0, xs)
           y == <<s[b + 1]>>
<1>1. Len(s) \in Nat /\ b + 1 <= Len(s)
  BY LenProperties
<1>2. Len(xs) = b - a /\ \A i \in 1..(b - a) : xs[i] = s[a + i]
  BY <1>1, PieceIs
<1>3. Len(ys) = b + 1 - a /\ \A i \in 1..(b + 1 - a) : ys[i] = s[a + i]
  BY <1>1, PieceIs
<1>4. Len(y) = 1 /\ y[1] = s[b + 1]
  OBVIOUS
<1> HIDE DEF xs, ys, y
<1>5. ASSUME NEW i \in 0..(T - 1)
      PROVE  AddedAt(before, b - a, y)[i] = AddedAt(state, 0, ys)[i]
  <2> DEFINE k == i - CAPACITY - 0 + 1
             j == i - CAPACITY - (b - a) + 1
  <2>1. k \in Int /\ j \in Int /\ j = k - (b - a)
    BY SpongeAssumption DEF T
  <2>2. AddedAt(before, b - a, y)[i] =
          IF j \in 1..1 /\ y[j] # FieldZero
            THEN before[i] (+) SetToBag({<<"added", y[j]>>}) ELSE before[i]
    BY <1>4 DEF AddedAt
  <2>3. before[i] = IF k \in 1..(b - a) /\ xs[k] # FieldZero
                      THEN state[i] (+) SetToBag({<<"added", xs[k]>>}) ELSE state[i]
    BY <1>2 DEF AddedAt
  <2>4. AddedAt(state, 0, ys)[i] =
          IF k \in 1..(b + 1 - a) /\ ys[k] # FieldZero
            THEN state[i] (+) SetToBag({<<"added", ys[k]>>}) ELSE state[i]
    BY <1>3 DEF AddedAt
  <2> HIDE DEF before, k, j
  <2>5. CASE k \in 1..(b - a)
    <3>1. j \notin 1..1 /\ k \in 1..(b + 1 - a) /\ ys[k] = xs[k]
      BY <1>2, <1>3, <2>1, <2>5
    <3> QED BY <2>2, <2>3, <2>4, <2>5, <3>1
  <2>6. CASE k = b + 1 - a
    <3>1. j = 1 /\ k \notin 1..(b - a) /\ k \in 1..(b + 1 - a)
      BY <2>1, <2>6
    <3>2. ys[k] = s[b + 1] /\ y[j] = s[b + 1]
      BY <1>3, <1>4, <2>6, <3>1
    <3> QED BY <2>2, <2>3, <2>4, <3>1, <3>2
  <2>7. CASE k \notin 1..(b - a) /\ k # b + 1 - a
    <3>1. j \notin 1..1 /\ k \notin 1..(b + 1 - a)
      BY <2>1, <2>7
    <3> QED BY <2>2, <2>3, <2>4, <2>7, <3>1
  <2> QED BY <2>5, <2>6, <2>7
<1>6. /\ AddedAt(before, b - a, y) = [i \in 0..(T - 1) |-> AddedAt(before, b - a, y)[i]]
      /\ AddedAt(state, 0, ys) = [i \in 0..(T - 1) |-> AddedAt(state, 0, ys)[i]]
  BY DEF AddedAt
<1> QED BY <1>5, <1>6 DEF xs, ys, y

\* The states between chunks: each chunk is added to the state before it, and
\* the sum permuted.
IsBase(all, base) ==
  /\ base[0] = ZeroState
  /\ \A k \in 1..Len(all) :
       base[k] = permute(AddedAt(base[k - 1], 0, SubSeq(all, (k - 1) * RATE + 1, k * RATE)))

\* The state when so many elements have been absorbed, and no more permuted
\* than has to be.
Absorbed(all, base, count) ==
  LET k == (count - 1) \div RATE
  IN AddedAt(base[k], 0, SubSeq(all, k * RATE + 1, count))

\* There are such states for every sequence.
LEMMA BaseExists ==
  ASSUME NEW X, NEW all \in Seq(X)
  PROVE  \E base : IsBase(all, base)
<1> DEFINE Up(k, below) == permute(AddedAt(below, 0, SubSeq(all, (k - 1) * RATE + 1, k * RATE)))
           S == {m \in Nat : \E g : g[0] = ZeroState /\ \A k \in 1..m : g[k] = Up(k, g[k - 1])}
<1> HIDE DEF Up
<1>1. 0 \in S
  <2> DEFINE g == [k \in 0..0 |-> ZeroState]
  <2>1. g[0] = ZeroState /\ \A k \in 1..0 : g[k] = Up(k, g[k - 1])
    OBVIOUS
  <2> HIDE DEF g
  <2> QED BY <2>1
<1>2. ASSUME NEW m \in Nat, m \in S
      PROVE  m + 1 \in S
  <2>1. PICK g : g[0] = ZeroState /\ \A k \in 1..m : g[k] = Up(k, g[k - 1])
    BY <1>2
  <2> DEFINE h == [k \in 0..(m + 1) |-> IF k = m + 1 THEN Up(m + 1, g[m]) ELSE g[k]]
  <2>2. ASSUME NEW k \in 1..(m + 1)
        PROVE  h[k] = Up(k, h[k - 1])
    <3>1. h[k - 1] = g[k - 1]
      OBVIOUS
    <3>2. CASE k = m + 1
      BY <3>1, <3>2
    <3>3. CASE k # m + 1
      <4>1. k \in 1..m /\ h[k] = g[k]
        BY <3>3
      <4> QED BY <2>1, <3>1, <4>1
    <3> QED BY <3>2, <3>3
  <2>3. h[0] = ZeroState
    BY <2>1
  <2> HIDE DEF h
  <2> QED BY <2>2, <2>3
<1>3. Len(all) \in S
  <2>1. Len(all) \in Nat
    BY LenProperties
  <2> HIDE DEF S
  <2> QED BY <1>1, <1>2, <2>1, SetInduction
<1> QED BY <1>3 DEF IsBase, Up

\* The last chunk of a sequence, and those before it, which are whole.
LEMMA LastChunk ==
  ASSUME NEW L \in Nat \ {0}, NEW last, last = (L - 1) \div RATE
  PROVE  /\ last \in Nat /\ last < L
         /\ last * RATE \in Nat /\ last * RATE < L /\ L <= last * RATE + RATE
         /\ \A k \in 0..(last - 1) : /\ (k + 1) * RATE \in Nat
                                     /\ (k + 1) * RATE < L
                                     /\ (k + 1) * RATE = k * RATE + RATE
         /\ (last + 1) * RATE = last * RATE + RATE
         /\ (last + 1) * RATE \in Nat /\ ~((last + 1) * RATE < L)
<1> USE SpongeAssumption
<1>1. /\ last \in Nat /\ last * RATE \in Nat /\ last * RATE <= L - 1
      /\ L - 1 < last * RATE + RATE
  BY ChunkOf
<1>2. last <= last * RATE
  BY <1>1
<1>3. ASSUME NEW k \in 0..(last - 1)
      PROVE  /\ (k + 1) * RATE \in Nat /\ (k + 1) * RATE < L
             /\ (k + 1) * RATE = k * RATE + RATE
  <2>1. (k + 1) * RATE \in Nat /\ (k + 1) * RATE = k * RATE + RATE
    OBVIOUS
  <2>2. (k + 1) * RATE <= last * RATE
    BY <1>1
  <2> QED BY <1>1, <2>1, <2>2
<1>4. (last + 1) * RATE = last * RATE + RATE
  BY <1>1
<1> QED BY <1>1, <1>2, <1>3, <1>4

\* The canister's hash squeezes the state that has absorbed everything.
LEMMA HashIs ==
  ASSUME NEW X, NEW domainTag \in X, NEW inputs \in Seq(X),
         NEW all, all = <<domainTag>> \o inputs, NEW base, IsBase(all, base)
  PROVE  hash(domainTag, inputs) = permute(Absorbed(all, base, Len(all)))[CAPACITY]
<1> DEFINE last == (Len(all) - 1) \div RATE
           chunk(k) == SubSeq(all, k * RATE + 1, IF (k + 1) * RATE < Len(all)
                                                   THEN (k + 1) * RATE ELSE Len(all))
           Step(g, k) == AddedAt(IF k = 0 THEN ZeroState ELSE permute(g[k - 1]), 0, chunk(k))
           after == CHOOSE g : g = [k \in 0..last |-> Step(g, k)]
           Value(k) == AddedAt(base[k], 0, chunk(k))
<1>1. hash(domainTag, inputs) = permute(after[last])[CAPACITY]
  BY DEF hash
<1>2. all \in Seq(X) /\ Len(all) \in Nat \ {0}
  <2>1. <<domainTag>> \in Seq(X) /\ Len(<<domainTag>>) = 1 /\ Len(inputs) \in Nat
    BY LenProperties
  <2> QED BY <2>1, ConcatProperties
<1>3. /\ last \in Nat /\ last < Len(all) /\ ~((last + 1) * RATE < Len(all))
      /\ \A k \in 0..(last - 1) : (k + 1) * RATE \in Nat /\ (k + 1) * RATE < Len(all)
  <2> DEFINE L == Len(all)
  <2>1. L \in Nat \ {0} /\ last = (L - 1) \div RATE
    BY <1>2
  <2> HIDE DEF L, last
  <2>2. /\ last \in Nat /\ last < L /\ ~((last + 1) * RATE < L)
        /\ \A k \in 0..(last - 1) : (k + 1) * RATE \in Nat /\ (k + 1) * RATE < L
    BY <2>1, LastChunk
  <2> QED BY <2>2 DEF L
<1>4. chunk(last) = SubSeq(all, last * RATE + 1, Len(all))
  <2> HIDE DEF last
  <2> QED BY <1>3
<1>5. \A k \in 0..(last - 1) : chunk(k) = SubSeq(all, k * RATE + 1, (k + 1) * RATE)
  BY <1>3
<1>6. Value(last) = Absorbed(all, base, Len(all))
  BY <1>4 DEF Absorbed
<1> HIDE DEF chunk, last
<1>7. ASSUME NEW k \in 1..last
      PROVE  base[k] = permute(Value(k - 1))
  <2>1. k \in 1..Len(all) /\ k - 1 \in 0..(last - 1) /\ (k - 1) + 1 = k
    BY <1>2, <1>3
  <2>2. chunk(k - 1) = SubSeq(all, (k - 1) * RATE + 1, k * RATE)
    BY <1>5, <2>1
  <2> QED BY <2>1, <2>2 DEF IsBase
<1>8. base[0] = ZeroState
  BY DEF IsBase
<1> HIDE DEF Value
<1>9. after = [k \in 0..last |-> Step(after, k)]
  <2> DEFINE h == [k \in 0..last |-> Value(k)]
  <2>1. ASSUME NEW k \in 0..last
        PROVE  h[k] = Step(h, k)
    <3>1. k # 0 => k \in 1..last /\ h[k - 1] = Value(k - 1)
      BY <1>3
    <3>2. (IF k = 0 THEN ZeroState ELSE permute(h[k - 1])) = base[k]
      BY <1>7, <1>8, <3>1
    <3> QED BY <3>2 DEF Value
  <2>2. h = [k \in 0..last |-> Step(h, k)]
    BY <2>1
  <2> HIDE DEF h
  <2> QED BY <2>2
<1> HIDE DEF after
<1> DEFINE S == {k \in 0..last : after[k] = Value(k)}
<1>10. 0 \in S
  BY <1>3, <1>8, <1>9 DEF Value
<1>11. ASSUME NEW k \in 0..(last - 1), k \in S
       PROVE  k + 1 \in S
  <2>1. /\ k + 1 \in 1..last /\ k + 1 \in 0..last /\ (k + 1) - 1 = k /\ k + 1 # 0
    BY <1>3
  <2>2. after[k + 1] = AddedAt(permute(after[k]), 0, chunk(k + 1))
    BY <1>9, <2>1
  <2>3. base[k + 1] = permute(after[k])
    BY <1>7, <1>11, <2>1
  <2> QED BY <2>1, <2>2, <2>3 DEF Value
<1>12. last \in S
  <2> HIDE DEF S
  <2>1. last \in Nat
    BY <1>3
  <2>2. 0..last \subseteq S
    BY <1>10, <1>11, <2>1, BoundedInduction
  <2> QED BY <2>1, <2>2
<1> QED BY <1>1, <1>6, <1>12

\* arkworks' one absorb of everything leaves the state that has absorbed
\* everything, with the last chunk in place and not permuted.
LEMMA AbsorbAllIs ==
  ASSUME NEW X, NEW all \in Seq(X), Len(all) # 0, NEW base, IsBase(all, base)
  PROVE  absorb(NewSponge, all).state = Absorbed(all, base, Len(all))
<1> DEFINE L == Len(all)
           last == (L - 1) \div RATE
           Up(s) ==
             LET room == RATE - s.next
             IN IF Len(s.rest) <= room THEN s
                ELSE [state |-> permute(AddedAt(s.state, s.next, Take(s.rest, room))),
                      next |-> 0, rest |-> Drop(s.rest, room)]
           Step(g, n) == IF n = 0 THEN [state |-> ZeroState, next |-> 0, rest |-> all]
                                  ELSE Up(g[n - 1])
           after == CHOOSE g : g = [n \in 0..L |-> Step(g, n)]
           Stage(k) == [state |-> base[k], next |-> 0, rest |-> SubSeq(all, k * RATE + 1, L)]
           Value(n) == IF n < last THEN Stage(n) ELSE Stage(last)
<1>1. absorb(NewSponge, all) = [state |-> AddedAt(after[L].state, after[L].next, after[L].rest),
                                next |-> after[L].next + Len(after[L].rest)]
  <2>1. NewSponge.state = ZeroState /\ NewSponge.next = 0 /\ RATE # 0
    BY SpongeAssumption DEF NewSponge
  <2>2. absorb(NewSponge, all) = absorb_internal(ZeroState, 0, all)
    BY <2>1 DEF absorb
  <2> QED BY <2>2 DEF absorb_internal
<1>2. L \in Nat \ {0}
  BY LenProperties
<1>3. /\ last \in Nat /\ last < L /\ last * RATE \in Nat
      /\ last * RATE < L /\ L <= last * RATE + RATE
      /\ \A k \in 0..(last - 1) : /\ (k + 1) * RATE \in Nat /\ (k + 1) * RATE < L
                                  /\ (k + 1) * RATE = k * RATE + RATE
  <2> HIDE DEF L
  <2>1. \A l \in Nat \ {0} : l = L => last = (l - 1) \div RATE
    OBVIOUS
  <2> HIDE DEF last
  <2> QED BY <1>2, <2>1, LastChunk
<1>4. Absorbed(all, base, L) = AddedAt(base[last], 0, SubSeq(all, last * RATE + 1, L))
  BY DEF Absorbed
<1>5. Stage(0).state = ZeroState /\ Stage(0) = [state |-> ZeroState, next |-> 0, rest |-> all]
  <2>1. SubSeq(all, 0 * RATE + 1, L) = all
    <3>1. 0 * RATE + 1 = 1
      BY SpongeAssumption
    <3> QED BY <3>1, SubSeqFull
  <2> QED BY <2>1 DEF IsBase
<1>6. Len(all) = L
  OBVIOUS
<1> HIDE DEF L, last
<1>7. Up(Stage(last)) = Stage(last)
  <2>1. Len(SubSeq(all, last * RATE + 1, L)) = L - last * RATE
    <3> DEFINE a == last * RATE
    <3>1. a \in Nat /\ L \in Nat /\ a <= L /\ L <= Len(all)
      BY <1>2, <1>3, <1>6
    <3> HIDE DEF a
    <3>2. Len(SubSeq(all, a + 1, L)) = L - a
      BY <3>1, PieceIs
    <3> QED BY <3>2 DEF a
  <2>2. L - last * RATE <= RATE - 0
    BY <1>2, <1>3, SpongeAssumption
  <2> QED BY <2>1, <2>2
<1>8. ASSUME NEW k \in 0..(last - 1)
      PROVE  Up(Stage(k)) = Stage(k + 1)
  <2> DEFINE rest == SubSeq(all, k * RATE + 1, L)
             a == k * RATE
  <2>1. /\ k \in Nat /\ a \in Nat /\ (k + 1) * RATE = a + RATE /\ a + RATE < L
        /\ a + 1 \in 1..L /\ RATE \in 1..(L - (a + 1) + 1)
        /\ 1 \in 1..(L - (a + 1) + 1) /\ RATE + 1 \in 1..(L - (a + 1) + 1)
        /\ L - a \in 1..(L - (a + 1) + 1) /\ L \in 1..L
        /\ RATE \in Nat \ {0} /\ L \in Nat /\ a <= L
    <3>1. k \in Nat /\ RATE \in Nat \ {0}
      BY <1>3, SpongeAssumption
    <3>2. a \in Nat
      BY <3>1
    <3>3. (k + 1) * RATE = a + RATE /\ (k + 1) * RATE < L
      BY <1>3
    <3> HIDE DEF a
    <3> QED BY <1>2, <3>1, <3>2, <3>3
  <2>2. rest = SubSeq(all, a + 1, L)
    OBVIOUS
  <2> HIDE DEF a
  <2>3. Len(rest) = L - a
    BY <1>6, <2>1, <2>2, PieceIs
  <2>4. ~(Len(rest) <= RATE)
    BY <2>1, <2>3
  <2>5. Take(rest, RATE) = SubSeq(all, a + 1, (k + 1) * RATE)
    <3>1. SubSeq(SubSeq(all, a + 1, L), 1, RATE)
            = SubSeq(all, (a + 1) + 1 - 1, (a + 1) + RATE - 1)
      BY <1>6, <2>1, SubSeqOfSubSeq
    <3>2. (a + 1) + 1 - 1 = a + 1 /\ (a + 1) + RATE - 1 = (k + 1) * RATE
      BY <2>1
    <3> QED BY <2>2, <3>1, <3>2 DEF Take
  <2>6. Drop(rest, RATE) = SubSeq(all, (k + 1) * RATE + 1, L)
    <3>1. SubSeq(SubSeq(all, a + 1, L), RATE + 1, L - a)
            = SubSeq(all, (a + 1) + (RATE + 1) - 1, (a + 1) + (L - a) - 1)
      BY <1>6, <2>1, SubSeqOfSubSeq
    <3>2. /\ (a + 1) + (RATE + 1) - 1 = (k + 1) * RATE + 1
          /\ (a + 1) + (L - a) - 1 = L
      BY <2>1
    <3> QED BY <2>2, <2>3, <3>1, <3>2 DEF Drop
  <2>7. base[k + 1] = permute(AddedAt(base[k], 0, SubSeq(all, a + 1, (k + 1) * RATE)))
    <3>1. k + 1 \in 1..Len(all) /\ (k + 1) - 1 = k
      BY <1>2, <1>3, <1>6, <2>1
    <3> QED BY <3>1 DEF IsBase, a
  <2>8. RATE - 0 = RATE
    BY SpongeAssumption
  <2>9. /\ Stage(k).state = base[k] /\ Stage(k).next = 0 /\ Stage(k).rest = rest
    OBVIOUS
  <2> HIDE DEF rest
  <2> QED BY <2>4, <2>5, <2>6, <2>7, <2>8, <2>9
<1> HIDE DEF Stage, Up
<1>9. Value(0) = Stage(0) /\ Value(L) = Stage(last)
  BY <1>2, <1>3
<1>10. ASSUME NEW n \in 0..(L - 1)
       PROVE  Value(n + 1) = Up(Value(n))
  <2>1. CASE n < last
    <3>1. n \in 0..(last - 1) /\ Value(n + 1) = Stage(n + 1) /\ Value(n) = Stage(n)
      BY <1>3, <2>1
    <3> QED BY <1>8, <3>1
  <2>2. CASE ~(n < last)
    <3>1. Value(n + 1) = Stage(last) /\ Value(n) = Stage(last)
      BY <1>3, <2>2
    <3> QED BY <1>7, <3>1
  <2> QED BY <2>1, <2>2
<1> HIDE DEF Value
<1>11. after = [n \in 0..L |-> Step(after, n)]
  <2> DEFINE h == [n \in 0..L |-> Value(n)]
  <2>1. ASSUME NEW n \in 0..L
        PROVE  h[n] = Step(h, n)
    <3>1. n # 0 => n - 1 \in 0..(L - 1) /\ n - 1 \in 0..L /\ (n - 1) + 1 = n
      BY <1>2
    <3>2. n # 0 => h[n] = Up(h[n - 1])
      BY <1>10, <3>1
    <3> QED BY <1>5, <1>9, <3>2
  <2>2. h = [n \in 0..L |-> Step(h, n)]
    BY <2>1
  <2> HIDE DEF h
  <2> QED BY <2>2
<1> HIDE DEF after
<1> DEFINE S == {n \in 0..L : after[n] = Value(n)}
<1>12. 0 \in S
  BY <1>2, <1>5, <1>9, <1>11
<1>13. ASSUME NEW n \in 0..(L - 1), n \in S
       PROVE  n + 1 \in S
  <2>1. n + 1 \in 0..L /\ n + 1 # 0 /\ (n + 1) - 1 = n
    BY <1>2
  <2>2. after[n + 1] = Up(after[n])
    BY <1>11, <2>1
  <2> QED BY <1>10, <1>13, <2>1, <2>2
<1>14. L \in S
  <2> HIDE DEF S
  <2>1. 0..L \subseteq S
    BY <1>2, <1>12, <1>13, BoundedInduction
  <2> QED BY <1>2, <2>1
<1>15. after[L] = Stage(last)
  BY <1>9, <1>14
<1> QED BY <1>1, <1>4, <1>6, <1>15 DEF Stage

\* One element more: a full rate is permuted first.
LEMMA AbsorbOneIs ==
  ASSUME NEW state, NEW next \in 0..RATE, NEW x
  PROVE  absorb([state |-> state, next |-> next], <<x>>) =
           IF next = RATE
             THEN [state |-> AddedAt(permute(state), 0, <<x>>), next |-> 1]
             ELSE [state |-> AddedAt(state, next, <<x>>), next |-> next + 1]
<1>1. ASSUME NEW old, NEW start \in 0..(RATE - 1)
      PROVE  absorb_internal(old, start, <<x>>) =
               [state |-> AddedAt(old, start, <<x>>), next |-> start + 1]
  <2> DEFINE Up(s) ==
               LET room == RATE - s.next
               IN IF Len(s.rest) <= room THEN s
                  ELSE [state |-> permute(AddedAt(s.state, s.next, Take(s.rest, room))),
                        next |-> 0, rest |-> Drop(s.rest, room)]
             first == [state |-> old, next |-> start, rest |-> <<x>>]
             Step(g, n) == IF n = 0 THEN first ELSE Up(g[n - 1])
             after == CHOOSE g : g = [n \in 0..1 |-> Step(g, n)]
  <2>1. Len(<<x>>) = 1
    OBVIOUS
  <2>2. absorb_internal(old, start, <<x>>) =
          [state |-> AddedAt(after[1].state, after[1].next, after[1].rest),
           next |-> after[1].next + Len(after[1].rest)]
    BY <2>1 DEF absorb_internal
  <2>3. first.state = old /\ first.next = start /\ first.rest = <<x>>
    OBVIOUS
  <2>4. Up(first) = first
    <3>1. 1 <= RATE - start
      BY SpongeAssumption
    <3> HIDE DEF first
    <3> QED BY <2>1, <2>3, <3>1
  <2> HIDE DEF first, Up
  <2>5. after = [n \in 0..1 |-> Step(after, n)]
    <3> DEFINE h == [n \in 0..1 |-> first]
    <3>1. ASSUME NEW n \in 0..1 PROVE h[n] = Step(h, n)
      <4>1. h[n] = first /\ (n # 0 => h[n - 1] = first)
        OBVIOUS
      <4> QED BY <2>4, <4>1
    <3>2. h = [n \in 0..1 |-> Step(h, n)]
      BY <3>1
    <3> HIDE DEF h
    <3> QED BY <3>2
  <2> HIDE DEF after
  <2>6. after[1] = first
    <3>1. after[0] = first
      BY <2>5
    <3>2. after[1] = Up(after[1 - 1])
      BY <2>5
    <3>3. 1 - 1 = 0
      OBVIOUS
    <3> QED BY <2>4, <3>1, <3>2, <3>3
  <2> QED BY <2>1, <2>2, <2>3, <2>6
<1> DEFINE sponge == [state |-> state, next |-> next]
<1>2. sponge.state = state /\ sponge.next = next
  OBVIOUS
<1> HIDE DEF sponge
<1>3. CASE next = RATE
  <2>1. absorb(sponge, <<x>>) = absorb_internal(permute(state), 0, <<x>>)
    BY <1>2, <1>3 DEF absorb
  <2>2. 0 \in 0..(RATE - 1) /\ 0 + 1 = 1
    BY SpongeAssumption
  <2> QED BY <1>1, <1>3, <2>1, <2>2 DEF sponge
<1>4. CASE next # RATE
  <2>1. absorb(sponge, <<x>>) = absorb_internal(state, next, <<x>>)
    BY <1>2, <1>4 DEF absorb
  <2>2. next \in 0..(RATE - 1)
    BY <1>4, SpongeAssumption
  <2> QED BY <1>1, <1>4, <2>1, <2>2 DEF sponge
<1> QED BY <1>3, <1>4

\* The programs' absorb element by element leaves the same state.
LEMMA AbsorbOneByOneIs ==
  ASSUME NEW X, NEW domain \in X, NEW inputs \in Seq(X),
         NEW all, all = <<domain>> \o inputs, NEW base, IsBase(all, base)
  PROVE  poseidon(domain, inputs) = permute(Absorbed(all, base, Len(all)))[CAPACITY]
<1> DEFINE N == Len(inputs)
           Step(g, n) == IF n = 0 THEN absorb(NewSponge, <<domain>>)
                                  ELSE absorb(g[n - 1], <<inputs[n]>>)
           sponge == CHOOSE g : g = [n \in 0..N |-> Step(g, n)]
           Chunk(n) == n \div RATE
           Value(n) == [state |-> Absorbed(all, base, n + 1),
                        next |-> n + 1 - Chunk(n) * RATE]
<1>1. poseidon(domain, inputs) = squeeze(sponge[N])
  BY DEF poseidon
<1>2. /\ N \in Nat /\ all \in Seq(X) /\ Len(all) = N + 1
      /\ all[1] = domain /\ \A n \in 1..N : all[n + 1] = inputs[n]
  <2>1. <<domain>> \in Seq(X) /\ Len(<<domain>>) = 1 /\ <<domain>>[1] = domain /\ N \in Nat
    BY LenProperties
  <2>2. /\ all \in Seq(X) /\ Len(all) = 1 + N
        /\ \A i \in 1..(1 + N) : all[i] = IF i <= 1 THEN <<domain>>[i] ELSE inputs[i - 1]
    BY <2>1, ConcatProperties
  <2> HIDE DEF N
  <2>3. all[1] = domain
    BY <2>1, <2>2
  <2>4. ASSUME NEW n \in 1..N PROVE all[n + 1] = inputs[n]
    BY <2>1, <2>2
  <2> QED BY <2>1, <2>2, <2>3, <2>4
<1> HIDE DEF N
<1>3. ASSUME NEW n \in Nat
      PROVE  /\ Absorbed(all, base, n + 1)
                  = AddedAt(base[Chunk(n)], 0, SubSeq(all, Chunk(n) * RATE + 1, n + 1))
             /\ Chunk(n) \in Nat /\ Chunk(n) * RATE \in Nat /\ Chunk(n) * RATE <= n
             /\ n < Chunk(n) * RATE + RATE
             /\ Chunk(n + 1) = IF n + 1 = Chunk(n) * RATE + RATE THEN Chunk(n) + 1 ELSE Chunk(n)
             /\ (Chunk(n) + 1) * RATE = Chunk(n) * RATE + RATE
  <2>1. (n + 1) - 1 = n
    OBVIOUS
  <2>2. /\ Chunk(n) \in Nat /\ Chunk(n) * RATE \in Nat /\ Chunk(n) * RATE <= n
        /\ n < Chunk(n) * RATE + RATE
    BY ChunkOf, SpongeAssumption
  <2>3. Chunk(n + 1) = IF n + 1 = Chunk(n) * RATE + RATE THEN Chunk(n) + 1 ELSE Chunk(n)
    BY NextChunk, SpongeAssumption
  <2>4. (Chunk(n) + 1) * RATE = Chunk(n) * RATE + RATE
    <3>1. \A k, r \in Nat : (k + 1) * r = k * r + r
      OBVIOUS
    <3> HIDE DEF Chunk
    <3> QED BY <2>2, <3>1, SpongeAssumption
  <2> QED BY <2>1, <2>2, <2>3, <2>4 DEF Absorbed
<1>4. Value(0) = absorb(NewSponge, <<domain>>)
  <2>1. Chunk(0) = 0 /\ Chunk(0) * RATE = 0
    BY SpongeAssumption
  <2>2. absorb(NewSponge, <<domain>>) = [state |-> AddedAt(ZeroState, 0, <<domain>>), next |-> 1]
    <3>1. 0 \in 0..RATE /\ 0 # RATE /\ 0 + 1 = 1
      BY SpongeAssumption
    <3> QED BY <3>1, AbsorbOneIs DEF NewSponge
  <2> HIDE DEF Chunk
  <2>3. Absorbed(all, base, 0 + 1) = AddedAt(base[0], 0, SubSeq(all, 0 + 1, 0 + 1))
    BY <1>3, <2>1
  <2>4. SubSeq(all, 0 + 1, 0 + 1) = <<domain>>
    <3>1. 0 < Len(all) /\ all[0 + 1] = domain
      BY <1>2
    <3>2. \A b \in Nat : b < Len(all) => SubSeq(all, b + 1, b + 1) = <<all[b + 1]>>
      BY <1>2, OnePieceIs
    <3>3. SubSeq(all, 0 + 1, 0 + 1) = <<all[0 + 1]>>
      BY <3>1, <3>2
    <3> QED BY <3>1, <3>3
  <2>5. base[0] = ZeroState
    BY DEF IsBase
  <2>6. Value(0).state = AddedAt(ZeroState, 0, <<domain>>)
    BY <2>3, <2>4, <2>5
  <2>7. 0 + 1 - Chunk(0) * RATE = 1
    BY <2>1
  <2> QED BY <2>2, <2>6, <2>7
<1>5. ASSUME NEW n \in 0..(N - 1)
      PROVE  Value(n + 1) = absorb(Value(n), <<inputs[n + 1]>>)
  <2> DEFINE k == Chunk(n)
             a == k * RATE
             x == inputs[n + 1]
  <2>1. /\ n \in Nat /\ n + 1 < Len(all) /\ n + 1 \in Nat /\ all[(n + 1) + 1] = x
    BY <1>2
  <2>2. /\ k \in Nat /\ a \in Nat /\ a <= n /\ n < a + RATE
        /\ Chunk(n + 1) = IF n + 1 = a + RATE THEN k + 1 ELSE k
        /\ (k + 1) * RATE = a + RATE
        /\ Absorbed(all, base, n + 1) = AddedAt(base[k], 0, SubSeq(all, a + 1, n + 1))
    BY <1>3, <2>1
  <2>3. Absorbed(all, base, (n + 1) + 1)
          = AddedAt(base[Chunk(n + 1)], 0,
                    SubSeq(all, Chunk(n + 1) * RATE + 1, (n + 1) + 1))
    BY <1>3, <2>1
  <2> HIDE DEF Chunk, x
  <2>4. CASE n + 1 = a + RATE
    <3>1. absorb(Value(n), <<x>>) =
            [state |-> AddedAt(permute(Absorbed(all, base, n + 1)), 0, <<x>>), next |-> 1]
      <4>1. n + 1 - a = RATE /\ RATE \in 0..RATE
        BY <2>2, <2>4, SpongeAssumption
      <4> HIDE DEF a, k
      <4>2. Value(n) = [state |-> Absorbed(all, base, n + 1), next |-> RATE]
        BY <4>1 DEF a, k
      <4> HIDE DEF Value
      <4> QED BY <4>1, <4>2, AbsorbOneIs
    <3>2. base[k + 1] = permute(Absorbed(all, base, n + 1))
      <4>1. (k + 1) \in 1..Len(all) /\ (k + 1) - 1 = k /\ (k + 1) * RATE = n + 1
        <5>1. k <= a
          BY <2>2, SpongeAssumption
        <5> HIDE DEF a
        <5> QED BY <1>2, <2>1, <2>2, <2>4, <5>1
      <4>2. base[k + 1] = permute(AddedAt(base[k], 0, SubSeq(all, k * RATE + 1, (k + 1) * RATE)))
        BY <4>1 DEF IsBase
      <4> QED BY <2>2, <4>1, <4>2
    <3>3. SubSeq(all, (n + 1) + 1, (n + 1) + 1) = <<x>>
      BY <1>2, <2>1, OnePieceIs
    <3>4. /\ Chunk(n + 1) = k + 1 /\ (k + 1) * RATE = n + 1
          /\ (n + 1) + 1 - Chunk(n + 1) * RATE = 1
      <4>1. Chunk(n + 1) = k + 1 /\ (k + 1) * RATE = n + 1
        BY <2>2, <2>4
      <4> QED BY <2>1, <4>1
    <3>5. Absorbed(all, base, (n + 1) + 1)
            = AddedAt(permute(Absorbed(all, base, n + 1)), 0, <<x>>)
      BY <2>3, <3>2, <3>3, <3>4
    <3> QED BY <3>1, <3>4, <3>5 DEF x
  <2>5. CASE n + 1 # a + RATE
    <3>1. n + 1 - a \in 0..RATE /\ n + 1 - a # RATE
      BY <2>1, <2>2, <2>5, SpongeAssumption
    <3>2. absorb(Value(n), <<x>>) =
            [state |-> AddedAt(Absorbed(all, base, n + 1), n + 1 - a, <<x>>),
             next |-> n + 1 - a + 1]
      <4> DEFINE next == n + 1 - a
      <4>1. Value(n) = [state |-> Absorbed(all, base, n + 1), next |-> next]
        OBVIOUS
      <4> HIDE DEF Value, next
      <4>2. next \in 0..RATE /\ next # RATE
        BY <3>1 DEF next
      <4>3. absorb(Value(n), <<x>>) =
              [state |-> AddedAt(Absorbed(all, base, n + 1), next, <<x>>), next |-> next + 1]
        BY <4>1, <4>2, AbsorbOneIs
      <4> QED BY <4>3 DEF next
    <3>3. /\ Chunk(n + 1) = k
          /\ (n + 1) + 1 - Chunk(n + 1) * RATE = n + 1 - a + 1
      <4>1. Chunk(n + 1) = k
        BY <2>2, <2>5
      <4>2. Chunk(n + 1) * RATE = a
        BY <4>1
      <4> HIDE DEF a
      <4> QED BY <2>1, <2>2, <4>1, <4>2
    <3>4. AddedAt(AddedAt(base[k], 0, SubSeq(all, a + 1, n + 1)), n + 1 - a, <<all[(n + 1) + 1]>>)
            = AddedAt(base[k], 0, SubSeq(all, a + 1, (n + 1) + 1))
      <4>1. a \in Nat /\ n + 1 \in Nat /\ a <= n + 1 /\ n + 1 < Len(all) /\ all \in Seq(X)
        BY <1>2, <2>1, <2>2
      <4> HIDE DEF a, k
      <4>2. \A b \in Nat : a <= b /\ b < Len(all) =>
              AddedAt(AddedAt(base[k], 0, SubSeq(all, a + 1, b)), b - a, <<all[b + 1]>>)
                = AddedAt(base[k], 0, SubSeq(all, a + 1, b + 1))
        BY <4>1, AddedOneMore
      <4> QED BY <4>1, <4>2
    <3>5. Absorbed(all, base, (n + 1) + 1)
            = AddedAt(Absorbed(all, base, n + 1), n + 1 - a, <<x>>)
      <4>1. Absorbed(all, base, (n + 1) + 1)
              = AddedAt(base[k], 0, SubSeq(all, a + 1, (n + 1) + 1))
        BY <2>3, <3>3
      <4>2. all[(n + 1) + 1] = x
        BY <2>1
      <4> HIDE DEF a, k
      <4> QED BY <2>2, <3>4, <4>1, <4>2
    <3> HIDE DEF a
    <3> QED BY <3>2, <3>3, <3>5 DEF x
  <2> QED BY <2>4, <2>5
<1> HIDE DEF Value
<1>6. sponge = [n \in 0..N |-> Step(sponge, n)]
  <2> DEFINE h == [n \in 0..N |-> Value(n)]
  <2>1. ASSUME NEW n \in 0..N
        PROVE  h[n] = Step(h, n)
    <3>1. n # 0 => n - 1 \in 0..(N - 1) /\ n - 1 \in 0..N /\ (n - 1) + 1 = n
      BY <1>2
    <3>2. n # 0 => h[n] = absorb(h[n - 1], <<inputs[n]>>)
      BY <1>5, <3>1
    <3> QED BY <1>4, <3>2
  <2>2. h = [n \in 0..N |-> Step(h, n)]
    BY <2>1
  <2> HIDE DEF h
  <2> QED BY <2>2
<1> HIDE DEF sponge
<1> DEFINE S == {n \in 0..N : sponge[n] = Value(n)}
<1>7. 0 \in S
  BY <1>2, <1>4, <1>6
<1>8. ASSUME NEW n \in 0..(N - 1), n \in S
      PROVE  n + 1 \in S
  <2>1. n + 1 \in 0..N /\ n + 1 # 0 /\ (n + 1) - 1 = n
    BY <1>2
  <2>2. sponge[n + 1] = absorb(sponge[n], <<inputs[n + 1]>>)
    BY <1>6, <2>1
  <2> QED BY <1>5, <1>8, <2>1, <2>2
<1>9. N \in S
  <2> HIDE DEF S
  <2>1. 0..N \subseteq S
    BY <1>2, <1>7, <1>8, BoundedInduction
  <2> QED BY <1>2, <2>1
<1>10. sponge[N].state = Absorbed(all, base, N + 1)
  BY <1>9 DEF Value
<1> QED BY <1>1, <1>2, <1>10 DEF squeeze

\* The canister's hash, the circuit's and the prover programs' are the same, for
\* every rate, every tag and any number of inputs: they permute at the same
\* moments, whether what is absorbed comes at once, in chunks or one by one.
THEOREM HashesAgree ==
  ASSUME NEW X, NEW domainTag \in X, NEW inputs \in Seq(X)
  PROVE  /\ hash(domainTag, inputs) = poseidon_hash(<<domainTag>> \o inputs)
         /\ hash(domainTag, inputs) = poseidon(domainTag, inputs)
<1> DEFINE all == <<domainTag>> \o inputs
<1>1. all \in Seq(X) /\ Len(all) # 0
  <2>1. <<domainTag>> \in Seq(X) /\ Len(<<domainTag>>) = 1 /\ Len(inputs) \in Nat
    BY LenProperties
  <2> QED BY <2>1, ConcatProperties
<1>2. PICK base : IsBase(all, base)
  BY <1>1, BaseExists
<1>3. absorb(NewSponge, all).state = Absorbed(all, base, Len(all))
  BY <1>1, <1>2, AbsorbAllIs
<1>4. poseidon_hash(all) = permute(Absorbed(all, base, Len(all)))[CAPACITY]
  BY <1>3 DEF poseidon_hash, squeeze
<1>5. hash(domainTag, inputs) = permute(Absorbed(all, base, Len(all)))[CAPACITY]
  BY <1>2, HashIs
<1>6. poseidon(domainTag, inputs) = permute(Absorbed(all, base, Len(all)))[CAPACITY]
  BY <1>2, AbsorbOneByOneIs
<1> QED BY <1>4, <1>5, <1>6

\* SpongesAgree, whatever the values, the rate and the capacity.
THEOREM SpongesDoAgree == Spec => []SpongesAgree
<1>1. ASSUME NEW n \in 0..5, NEW inputs \in [1..n -> Values]
      PROVE  /\ hash(1, inputs) = poseidon_hash(<<1>> \o inputs)
             /\ hash(1, inputs) = poseidon(1, inputs)
  <2>1. 1 \in Values \cup {1} /\ inputs \in Seq(Values \cup {1})
    OBVIOUS
  <2> QED BY <2>1, HashesAgree
<1>2. SpongesAgree
  BY <1>1 DEF SpongesAgree, sponges_agree
<1> QED BY <1>2, PTL
=============================================================================
