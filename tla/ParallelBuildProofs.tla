------------------------- MODULE ParallelBuildProofs -------------------------
(***************************************************************************)
(* What holds of ParallelBuild for any number of workers and tuples: the   *)
(* identifiers are gapless, the leader finds every tape finished, and a    *)
(* build that succeeds has loaded every tuple.  The leader knows only      *)
(* nparticipantsdone, so that the invariant ties the counters to the sets  *)
(* of participants that have passed each stage.                            *)
(***************************************************************************)
EXTENDS ParallelBuild, TLAPS, FiniteSetTheorems

Parts == launched \cup {Leader}
Mains == {"serial", "participate", "attach", "wait", "sleep", "takeover1", "takeover2",
          "loaded", "done", "failed"}
Errors == {"none", "equal keys", "worker failed"}

TypeOK ==
  /\ table \in Tables /\ launched \subseteq Workers
  /\ where \in [Participants -> Stages] /\ failed \subseteq Participants
  /\ unscanned \subseteq Tuples /\ spooled \in [Participants -> SUBSET Tuples]
  /\ ident \in [Sorts -> [Participants -> Places]]
  /\ current \in [Sorts -> Nat] /\ finished \in [Sorts -> Nat]
  /\ tape \in [Sorts -> [Places -> SUBSET Tuples]]
  /\ ndone \in Nat /\ havedead \in BOOLEAN /\ indtuples \in Nat
  /\ main \in Mains /\ loaded \in [Sorts -> SUBSET Tuples] /\ cause \in Errors
  /\ \A p \in Participants : where[p] \in {"begin2", "sort2"} => Unique

\* Each counter counts the participants that have passed its stage.
Counters ==
  /\ \A s \in Sorts : /\ current[s] = Cardinality(At(Begun(s)))
                      /\ finished[s] = Cardinality(At(Frozen(s)))
  /\ ndone = Cardinality(At(Recorded))

Identifiers ==
  \A s \in Sorts :
    /\ \A p, q \in At(Begun(s)) : ident[s][p] = ident[s][q] => p = q
    /\ {ident[s][p] : p \in At(Begun(s))} = 0..(current[s] - 1)

\* The tuples are dealt out, each to one participant, and all of them when one
\* participant has left the scan.
Dealt ==
  /\ \A p, q \in Participants : p # q => spooled[p] \cap spooled[q] = {}
  /\ \A p \in Participants : spooled[p] \cap unscanned = {}
  /\ \A p \in Participants : spooled[p] # {} => p \in Parts /\ where[p] \in Begun(1)
  /\ \A t \in Tuples : t \in unscanned \/ \E p \in Parts : t \in spooled[p]
  /\ \A p \in Parts : where[p] \in Frozen(1) => unscanned = {}

\* A finished tape holds the share of its participant.
Taped == \A s \in Sorts : \A p \in At(Frozen(s)) :
           tape[s][ident[s][p]] = Share(s, spooled[p])

CountedTuples == {t \in Tuples : \E p \in At(Recorded) : t \in spooled[p]}
Counted == /\ indtuples = Cardinality(CountedTuples)
           /\ havedead <=> \E p \in At(Recorded) : Share(2, spooled[p]) # {}

Loaded(s) == loaded[s] = Share(s, Tuples)

\* What the leader's main line has come to know.
MainLine ==
  /\ main = "serial" => launched = {}
  /\ launched # {} /\ main \in {"takeover1", "takeover2", "loaded", "done"}
       => ndone = nParticipants
  /\ launched = {} => main \in {"serial", "done", "failed"}
  /\ main \in {"takeover2", "loaded", "done"} => Loaded(1) /\ (Unique => ~Clash(loaded[1]))
  /\ main \notin {"loaded", "done", "failed"} => loaded[2] = {}
  /\ main = "takeover2" => Unique
  /\ main \in {"loaded", "done"} => Loaded(2)

IInv == TypeOK /\ Counters /\ Identifiers /\ Dealt /\ Taped /\ Counted /\ MainLine

-----------------------------------------------------------------------------
(***************************************************************************)
(* Participants and the sets of those at some stages.                      *)
(***************************************************************************)
\* Participants are finite, and as many as nParticipants says.
LEMMA PartsFinite ==
  ASSUME launched \subseteq Workers
  PROVE  /\ IsFiniteSet(Parts) /\ Parts \subseteq Participants
         /\ Cardinality(Parts) = nParticipants
         /\ nParticipants \in Nat \ {0}
         /\ nParticipants <= Cardinality(Workers) + 1
         /\ Cardinality(Workers) \in Nat
         /\ nParticipants - 1 \in Places
<1>1. /\ IsFiniteSet(launched) /\ Cardinality(launched) <= Cardinality(Workers)
      /\ IsFiniteSet(Workers) /\ Leader \notin launched
  BY FS_Subset, BuildAssumption
<1>2. Cardinality(launched) \in Nat /\ Cardinality(Workers) \in Nat
  BY <1>1, FS_CardinalityType
<1>3. IsFiniteSet(Parts) /\ Cardinality(Parts) = Cardinality(launched) + 1
  BY <1>1, FS_AddElement DEF Parts
<1> QED  BY <1>1, <1>2, <1>3 DEF Parts, Participants, nParticipants, Places

\* So are the participants at some stages.
LEMMA AtFinite ==
  ASSUME launched \subseteq Workers, NEW S
  PROVE  /\ IsFiniteSet(At(S)) /\ Cardinality(At(S)) \in Nat /\ At(S) \subseteq Parts
         /\ Cardinality(At(S)) <= nParticipants
         /\ Cardinality(At(S)) = nParticipants => At(S) = Parts
<1>1. At(S) \subseteq Parts
  BY DEF At, Parts
<1> QED  BY <1>1, PartsFinite, FS_Subset, FS_CardinalityType

\* A move within or outside of the stages S changes nothing.
LEMMA Stays ==
  ASSUME NEW p \in Participants, NEW stage, NEW S, where \in [Participants -> Stages],
         launched \subseteq Workers,
         launched' = launched, Goto(p, stage), where[p] \in S <=> stage \in S
  PROVE  At(S)' = At(S)
BY DEF At, Goto, Participants

\* A move into them adds the participant.
LEMMA Enters ==
  ASSUME NEW p \in Parts, NEW stage, NEW S, where \in [Participants -> Stages],
         launched \subseteq Workers,
         launched' = launched, Goto(p, stage), where[p] \notin S, stage \in S
  PROVE  /\ At(S)' = At(S) \cup {p} /\ p \notin At(S)
         /\ Cardinality(At(S)') = Cardinality(At(S)) + 1
         /\ Cardinality(At(S)) < nParticipants
<1>1. At(S)' = At(S) \cup {p} /\ p \notin At(S)
  BY DEF At, Goto, Participants, Parts
<1>2. IsFiniteSet(At(S)) /\ Cardinality(At(S)) \in Nat
  BY AtFinite
<1>3. Cardinality(At(S) \cup {p}) = Cardinality(At(S)) + 1
  BY <1>1, <1>2, FS_AddElement
<1>4. Cardinality(At(S)) # nParticipants
  BY <1>1, AtFinite
<1>5. Cardinality(At(S)) <= nParticipants /\ nParticipants \in Nat
  BY AtFinite, PartsFinite
<1> QED  BY <1>1, <1>2, <1>3, <1>4, <1>5

-----------------------------------------------------------------------------
(***************************************************************************)
(* The invariant: initially, and through the leader's steps.               *)
(***************************************************************************)
\* Before any worker has started nothing is counted, taped or known.
LEMMA Initially == BuildInit => IInv
<1> SUFFICES ASSUME BuildInit PROVE IInv
  OBVIOUS
<1> USE DEF BuildInit, Unstarted
<1>1. launched \subseteq Workers /\ Cardinality({}) = 0 /\ Places # {} /\ 0 \in Places
  BY PartsFinite, FS_EmptySet DEF Places
<1>2. \A s \in Sorts : At(Begun(s)) = {} /\ At(Frozen(s)) = {}
  BY <1>1, BuildAssumption DEF At, Begun, Frozen, Stages, Sorts, Participants
<1>3. At(Recorded) = {}
  BY <1>1, BuildAssumption DEF At, Recorded, Participants
<1>4. TypeOK
  BY <1>1, BuildAssumption DEF TypeOK, Stages, Mains, Errors, Sorts
<1>5. Counters
  BY <1>1, <1>2, <1>3 DEF Counters
<1>6. Identifiers
  BY <1>2 DEF Identifiers
<1>7. Dealt
  BY <1>1, <1>2, BuildAssumption DEF Dealt, Parts, Participants, Frozen, Sorts
<1>8. Taped
  BY <1>2 DEF Taped
<1>9. Counted
  BY <1>1, <1>3 DEF Counted, CountedTuples
<1>10. MainLine
  BY DEF MainLine, Sorts
<1> QED  BY <1>4, <1>5, <1>6, <1>7, <1>8, <1>9, <1>10 DEF IInv

\* The leader's main line changes nothing that the participants share.
LEMMA LeadKeeps ==
  ASSUME IInv, UNCHANGED <<table, launched, where, failed, scan, sorts, stats>>
  PROVE  Counters' /\ Identifiers' /\ Dealt' /\ Taped' /\ Counted'
<1> USE DEF IInv, scan, sorts, stats
<1>1. \A S : At(S)' = At(S)
  BY DEF At
<1>2. \A s \in Sorts : Begun(s)' = Begun(s) /\ Frozen(s)' = Frozen(s)
  BY DEF Begun, Frozen, Unique
<1>3. Counters'
  BY <1>1, <1>2 DEF Counters, Recorded
<1>4. Identifiers'
  BY <1>1, <1>2 DEF Identifiers
<1>5. Dealt'
  BY <1>2 DEF Dealt, Parts, Participants, Sorts
<1>6. Taped'
  BY <1>1, <1>2 DEF Taped, Share, Unique, Dead
<1>7. Counted'
  BY <1>1 DEF Counted, CountedTuples, Share, Unique, Dead, Recorded
<1> QED  BY <1>3, <1>4, <1>5, <1>6, <1>7

\* When every participant has recorded its end, every one has its tape finished in
\* either sort, and the tapes hold all the tuples.
LEMMA TapesComplete ==
  ASSUME IInv, ndone = nParticipants, NEW s \in Sorts, s = 2 => Unique
  PROVE  /\ finished[s] = nParticipants
         /\ UNION {tape[s][i] : i \in 0..(nParticipants - 1)} = Share(s, Tuples)
         /\ At(Recorded) = Parts /\ CountedTuples = Tuples
<1> USE DEF IInv
<1>1. launched \subseteq Workers /\ where \in [Participants -> Stages]
  BY DEF TypeOK
<1>2. At(Recorded) = Parts
  BY <1>1, AtFinite DEF Counters
<1>3. At(Begun(s)) = Parts /\ At(Frozen(s)) = Parts
  <2>1. Recorded \subseteq Begun(s) /\ Recorded \subseteq Frozen(s)
    BY DEF Recorded, Begun, Frozen, Sorts, Stages
  <2> QED  BY <1>2, <2>1 DEF At, Parts
<1>4. finished[s] = nParticipants /\ current[s] = nParticipants
  BY <1>1, <1>3, PartsFinite DEF Counters
<1>5. unscanned = {}
  BY <1>2 DEF Dealt, At, Recorded, Frozen, Parts
<1>6. CountedTuples = Tuples
  BY <1>2, <1>5 DEF CountedTuples, Dealt
<1>7. {ident[s][p] : p \in Parts} = 0..(nParticipants - 1)
  BY <1>3, <1>4 DEF Identifiers
<1>8. \A p \in Parts : tape[s][ident[s][p]] = Share(s, spooled[p])
  BY <1>3 DEF Taped
<1>9. UNION {tape[s][i] : i \in 0..(nParticipants - 1)} = UNION {Share(s, spooled[p]) : p \in Parts}
  BY <1>7, <1>8
<1>10. UNION {Share(s, spooled[p]) : p \in Parts} = Share(s, Tuples)
  <2>1. \A t \in Tuples : \E p \in Parts : t \in spooled[p]
    BY <1>5 DEF Dealt
  <2>2. \A p \in Parts : spooled[p] \subseteq Tuples
    BY <1>1, PartsFinite DEF TypeOK
  <2> QED  BY <2>1, <2>2 DEF Share, Sorts
<1> QED  BY <1>2, <1>4, <1>6, <1>9, <1>10

\* Taking over the tapes of a sort loads all of them, and finds the equal live keys.
LEMMA TakeOverKeeps ==
  ASSUME IInv, NEW s \in Sorts, TakeOver(s)
  PROVE  TypeOK' /\ MainLine'
<1> DEFINE taken == UNION {tape[s][i] : i \in 0..(nParticipants - 1)}
           next == IF s = 1 /\ Unique /\ havedead THEN "takeover2" ELSE "loaded"
<1>1. /\ main = (IF s = 1 THEN "takeover1" ELSE "takeover2")
      /\ UNCHANGED <<table, launched, where, failed, scan, sorts, stats>>
  BY DEF TakeOver, Leading
<1>2. launched # {} /\ ndone = nParticipants /\ (s = 2 => Unique)
  BY <1>1 DEF IInv, MainLine, Sorts
<1>3. finished[s] = nParticipants /\ taken = Share(s, Tuples) /\ At(Recorded) = Parts
      /\ CountedTuples = Tuples
  BY <1>2, TapesComplete
<1>4. /\ Unique' = Unique /\ Dead' = Dead /\ nParticipants' = nParticipants
      /\ \A r \in Sorts : Share(r, Tuples)' = Share(r, Tuples)
  BY <1>1 DEF Unique, Dead, nParticipants, Share
<1>5. Share(s, Tuples) \subseteq Tuples
  BY DEF Share
<1>6. ndone' = ndone /\ launched' = launched
  BY <1>1 DEF stats
<1> HIDE DEF taken
<1>7. CASE Unique /\ s = 1 /\ Clash(taken)
  <2>1. main' = "failed" /\ cause' = "equal keys" /\ loaded' = loaded
    BY <1>3, <1>7 DEF TakeOver, GiveUp, taken
  <2>2. TypeOK'
    BY <2>1, <1>1, <1>4 DEF IInv, TypeOK, Mains, Errors, scan, sorts, stats
  <2>3. MainLine'
    BY <2>1, <1>2, <1>6 DEF MainLine
  <2> QED  BY <2>2, <2>3
<1>8. CASE ~(Unique /\ s = 1 /\ Clash(taken))
  <2>1. loaded' = [loaded EXCEPT ![s] = Share(s, Tuples)] /\ main' = next /\ cause' = cause
    BY <1>3, <1>8 DEF TakeOver, taken
  <2>2. TypeOK'
    BY <2>1, <1>5, <1>1, <1>4 DEF IInv, TypeOK, Mains, scan, sorts, stats
  <2>3. loaded[2] = {} /\ loaded \in [Sorts -> SUBSET Tuples]
    BY <1>1 DEF IInv, MainLine, TypeOK, Sorts
  <2>4. CASE s = 1
    <3>1. loaded'[1] = Share(1, Tuples) /\ loaded'[2] = {}
      BY <2>1, <2>3, <2>4 DEF Sorts
    <3>2. Unique => ~Clash(loaded'[1])
      BY <3>1, <2>4, <1>3, <1>8
    <3>3. main' = "loaded" => Share(2, Tuples) = {}
      <4>1. SUFFICES ASSUME main' = "loaded", Unique PROVE Share(2, Tuples) = {}
        BY DEF Share
      <4>2. ~havedead
        BY <2>1, <2>4, <4>1
      <4>3. \A p \in Parts : Share(2, spooled[p]) = {}
        BY <4>2, <1>3 DEF IInv, Counted
      <4>4. \A t \in Tuples : \E p \in Parts : t \in spooled[p]
        BY <1>3 DEF CountedTuples
      <4> QED  BY <4>1, <4>3, <4>4 DEF Share
    <3>4. main' = "takeover2" => Unique
      BY <2>1
    <3>5. main' \in {"takeover2", "loaded"}
      BY <2>1
    <3> QED
      BY <1>2, <1>4, <1>6, <2>2, <3>1, <3>2, <3>3, <3>4, <3>5 DEF MainLine, Loaded, Clash, Sorts
  <2>5. CASE s = 2
    <3>1. loaded'[2] = Share(2, Tuples) /\ loaded'[1] = loaded[1] /\ main' = "loaded"
      BY <2>1, <2>3, <2>5 DEF Sorts
    <3>2. loaded[1] = Share(1, Tuples) /\ (Unique => ~Clash(loaded[1]))
      BY <1>1, <2>5 DEF IInv, MainLine, Loaded
    <3> QED
      BY <1>2, <1>4, <1>6, <2>2, <3>1, <3>2 DEF MainLine, Loaded, Clash, Sorts
  <2> QED  BY <2>4, <2>5 DEF Sorts
<1> QED  BY <1>7, <1>8

\* Every step of the leader's main line preserves the invariant.
LEMMA LeadInv == ASSUME IInv, Lead PROVE IInv'
<1>1. UNCHANGED <<table, launched, where, failed, scan, sorts, stats>>
  BY DEF Lead, BuildAlone, EndParticipation, WaitForAttach, CheckDone, Wake, TakeOver,
         EndParallel, NoticeFailure, Leading
<1>2. Counters' /\ Identifiers' /\ Dealt' /\ Taped' /\ Counted'
  BY <1>1, LeadKeeps
<1>3. TypeOK' /\ MainLine'
  <2> USE <1>1 DEF IInv, scan, sorts, stats
  <2>0. /\ Unique' = Unique /\ Dead' = Dead /\ nParticipants' = nParticipants
        /\ \A s \in Sorts : Share(s, Tuples)' = Share(s, Tuples)
        /\ \A s \in Sorts : Share(s, Tuples) \subseteq Tuples
    BY DEF Unique, Dead, nParticipants, Share
  <2>1. CASE BuildAlone
    <3>1. CASE Unique /\ Clash(Share(1, Tuples))
      <4>1. main' = "failed" /\ cause' = "equal keys" /\ loaded' = loaded
        BY <2>1, <3>1 DEF BuildAlone, GiveUp
      <4> QED  BY <2>0, <4>1 DEF TypeOK, MainLine, Mains, Errors
    <3>2. CASE ~(Unique /\ Clash(Share(1, Tuples)))
      <4>1. /\ main = "serial" /\ main' = "done" /\ cause' = cause
            /\ loaded' = [s \in Sorts |-> Share(s, Tuples)]
        BY <2>1, <3>2 DEF BuildAlone, Leading
      <4>2. TypeOK'
        BY <2>0, <4>1 DEF TypeOK, Mains
      <4>3. loaded'[1] = Share(1, Tuples) /\ loaded'[2] = Share(2, Tuples)
        BY <4>1 DEF Sorts
      <4> QED  BY <2>0, <3>2, <4>1, <4>2, <4>3 DEF MainLine, Loaded, Clash, Sorts
    <3> QED  BY <3>1, <3>2
  <2>2. CASE EndParticipation
    BY <2>0, <2>2 DEF EndParticipation, Leading, GiveUp, TypeOK, MainLine, Mains, Errors
  <2>3. CASE WaitForAttach
    BY <2>0, <2>3 DEF WaitForAttach, Leading, GiveUp, TypeOK, MainLine, Mains, Errors
  <2>4. CASE CheckDone
    <3>1. main = "wait" /\ loaded' = loaded /\ cause' = cause
      BY <2>4 DEF CheckDone, Leading
    <3>2. main' \in {"wait", "sleep"} \/ (main' = "takeover1" /\ ndone = nParticipants)
      BY <2>4 DEF CheckDone, AllDone, Leading
    <3> QED  BY <2>0, <3>1, <3>2 DEF TypeOK, MainLine, Mains
  <2>5. CASE Wake
    BY <2>0, <2>5 DEF Wake, Leading, TypeOK, MainLine, Mains
  <2>6. ASSUME NEW s \in Sorts, TakeOver(s) PROVE TypeOK' /\ MainLine'
    BY <2>6, TakeOverKeeps
  <2>7. CASE EndParallel
    <3>1. main = "loaded" /\ loaded' = loaded
      BY <2>7 DEF EndParallel, Leading
    <3>2. \/ main' = "failed" /\ cause' = "worker failed"
          \/ main' = "done" /\ cause' = cause
      BY <2>7 DEF EndParallel, GiveUp
    <3> QED  BY <2>0, <3>1, <3>2 DEF TypeOK, MainLine, Mains, Errors, Loaded, Clash, Sorts
  <2>8. CASE NoticeFailure
    <3>1. main' = "failed" /\ cause' = "worker failed" /\ loaded' = loaded
      BY <2>8 DEF NoticeFailure, GiveUp
    <3>2. launched # {}
      BY <2>8 DEF NoticeFailure
    <3> QED  BY <2>0, <3>1, <3>2 DEF TypeOK, MainLine, Mains, Errors
  <2> QED  BY <2>1, <2>2, <2>3, <2>4, <2>5, <2>6, <2>7, <2>8 DEF Lead
<1> QED  BY <1>2, <1>3 DEF IInv

-----------------------------------------------------------------------------
(***************************************************************************)
(* The invariant through a participant's steps.                            *)
(***************************************************************************)
\* Whoever takes a step participates in a build that is neither serial nor failed, and
\* leaves the table and the launched workers alone.
LEMMA ActiveFacts ==
  ASSUME IInv, NEW p \in Participants, Active(p)
  PROVE  /\ p \in Parts /\ launched # {} /\ main # "serial" /\ main # "failed"
         /\ table' = table /\ launched' = launched
         /\ Parts' = Parts /\ Unique' = Unique /\ Dead' = Dead
         /\ nParticipants' = nParticipants
         /\ \A s \in Sorts : Begun(s)' = Begun(s) /\ Frozen(s)' = Frozen(s)
         /\ \A s \in Sorts : \A ts : Share(s, ts)' = Share(s, ts)
         /\ where \in [Participants -> Stages] /\ launched \subseteq Workers
BY DEF Active, Parts, Unique, Dead, nParticipants, Begun, Frozen, Share, IInv, MainLine, TypeOK

\* The main line goes on knowing what it knew.
LEMMA MainLineKeeps ==
  ASSUME IInv, NEW p \in Participants, Active(p), UNCHANGED <<main, loaded>>,
         \/ ndone' = ndone
         \/ where[p] = "record" /\ ndone' = ndone + 1
  PROVE  MainLine'
<1>1. /\ Unique' = Unique /\ Dead' = Dead /\ launched' = launched /\ launched # {}
      /\ nParticipants' = nParticipants /\ \A s \in Sorts : Share(s, Tuples)' = Share(s, Tuples)
  BY ActiveFacts
<1>2. ndone = nParticipants => ndone' = ndone
  <2>1. SUFFICES ASSUME ndone = nParticipants, where[p] = "record" PROVE FALSE
    OBVIOUS
  <2>2. At(Recorded) = Parts
    BY <2>1, AtFinite DEF IInv, TypeOK, Counters
  <2>3. p \in Parts
    BY ActiveFacts
  <2> QED  BY <2>1, <2>2, <2>3 DEF At, Recorded
<1> QED  BY <1>1, <1>2 DEF IInv, MainLine, Loaded, Clash, Sorts

\* The scan is not disturbed by a move that does not come out of it early.
LEMMA DealtKeeps ==
  ASSUME IInv, NEW p \in Participants, Active(p), NEW stage \in Stages, Goto(p, stage),
         UNCHANGED scan,
         where[p] \in Begun(1) => stage \in Begun(1),
         stage \in Frozen(1) => unscanned = {}
  PROVE  Dealt'
<1>1. /\ Parts' = Parts /\ Begun(1)' = Begun(1) /\ Frozen(1)' = Frozen(1)
      /\ where \in [Participants -> Stages] /\ Parts \subseteq Participants
  BY ActiveFacts, PartsFinite DEF Sorts
<1>2. unscanned' = unscanned /\ spooled' = spooled
  BY DEF scan
<1>3. \A q \in Participants : where'[q] = IF q = p THEN stage ELSE where[q]
  BY <1>1 DEF Goto
<1> QED  BY <1>1, <1>2, <1>3 DEF IInv, Dealt

\* Attaching to the shared memory preserves the invariant.
LEMMA AttachInv ==
  ASSUME IInv, NEW p \in Participants, Attach(p)
  PROVE  IInv'
<1>1. /\ Active(p) /\ where[p] = "start" /\ Goto(p, "begin1")
      /\ UNCHANGED <<failed, scan, sorts, stats, leading>>
  BY DEF Attach
<1>2. /\ \A s \in Sorts : At(Begun(s))' = At(Begun(s)) /\ At(Frozen(s))' = At(Frozen(s))
      /\ At(Recorded)' = At(Recorded)
  <2>1. \A s \in Sorts : /\ "start" \notin Begun(s) /\ "begin1" \notin Begun(s)
                         /\ "start" \notin Frozen(s) /\ "begin1" \notin Frozen(s)
    BY DEF Begun, Frozen, Sorts
  <2>2. "start" \notin Recorded /\ "begin1" \notin Recorded
    BY DEF Recorded
  <2> QED  BY <1>1, <2>1, <2>2, Stays, ActiveFacts
<1>3. TypeOK'
  BY <1>1, ActiveFacts DEF IInv, TypeOK, Goto, Stages, scan, sorts, stats, leading
<1>4. Counters' /\ Identifiers'
  BY <1>1, <1>2 DEF IInv, Counters, Identifiers, sorts, stats
<1>5. Dealt'
  BY <1>1, DealtKeeps DEF Stages, Begun, Frozen
<1>6. Taped' /\ Counted'
  BY <1>1, <1>2, ActiveFacts DEF IInv, Taped, Counted, CountedTuples, scan, sorts, stats, Sorts
<1>7. MainLine'
  BY <1>1, MainLineKeeps DEF stats, leading
<1> QED  BY <1>3, <1>4, <1>5, <1>6, <1>7 DEF IInv

\* Beginning a sort, with the identifier of its tape, preserves the invariant.
LEMMA BeginSortInv ==
  ASSUME IInv, NEW s \in Sorts, NEW p \in Participants, BeginSort(s, p)
  PROVE  IInv'
<1> DEFINE stage == IF s = 1 /\ Unique THEN "begin2" ELSE "scan"
<1>1. /\ Active(p) /\ where[p] = BeginOf(s) /\ Goto(p, stage)
      /\ ident' = [ident EXCEPT ![s][p] = current[s]]
      /\ current' = [current EXCEPT ![s] = @ + 1]
      /\ UNCHANGED <<failed, scan, finished, tape, stats, leading>>
  BY DEF BeginSort
<1>2. s = 2 => Unique
  BY <1>1 DEF IInv, TypeOK, BeginOf, Sorts
<1>3. /\ where[p] \notin Begun(s) /\ stage \in Begun(s) /\ stage \in Stages
      /\ \A r \in Sorts : r # s => (where[p] \in Begun(r) <=> stage \in Begun(r))
      /\ \A r \in Sorts : where[p] \notin Frozen(r) /\ stage \notin Frozen(r)
      /\ where[p] \notin Recorded /\ stage \notin Recorded
  BY <1>1, <1>2 DEF Begun, Frozen, Recorded, BeginOf, Sorts, Stages
<1>4. /\ At(Begun(s))' = At(Begun(s)) \cup {p} /\ p \notin At(Begun(s))
      /\ Cardinality(At(Begun(s))') = Cardinality(At(Begun(s))) + 1
      /\ Cardinality(At(Begun(s))) < nParticipants
  <2>1. Begun(s)' = Begun(s)
    BY <1>1, ActiveFacts
  <2> QED  BY <1>1, <1>3, <2>1, Enters, ActiveFacts
<1>5. /\ \A r \in Sorts : r # s => At(Begun(r))' = At(Begun(r))
      /\ \A r \in Sorts : At(Frozen(r))' = At(Frozen(r))
      /\ At(Recorded)' = At(Recorded)
  BY <1>1, <1>3, Stays, ActiveFacts
<1>6. current[s] \in Nat /\ current[s] = Cardinality(At(Begun(s))) /\ current[s] \in Places
  <2>1. current[s] \in Nat /\ current[s] = Cardinality(At(Begun(s)))
    BY DEF IInv, TypeOK, Counters
  <2>2. nParticipants \in Nat /\ Cardinality(Workers) \in Nat
        /\ nParticipants <= Cardinality(Workers) + 1
    BY <1>1, ActiveFacts, PartsFinite
  <2> QED  BY <1>4, <2>1, <2>2 DEF Places
<1>7. /\ ident'[s][p] = current[s] /\ current'[s] = current[s] + 1
      /\ \A q \in Participants : q # p => ident'[s][q] = ident[s][q]
      /\ \A r \in Sorts : r # s => ident'[r] = ident[r] /\ current'[r] = current[r]
  BY <1>1 DEF IInv, TypeOK
<1>8. TypeOK'
  <2>1. ident' \in [Sorts -> [Participants -> Places]] /\ current' \in [Sorts -> Nat]
    BY <1>1, <1>6 DEF IInv, TypeOK
  <2>2. \A q \in Participants : where'[q] \in {"begin2", "sort2"} => Unique
    BY <1>1 DEF IInv, TypeOK, Goto
  <2>3. where' \in [Participants -> Stages]
    BY <1>1, <1>3, ActiveFacts DEF Goto
  <2> QED  BY <1>1, <2>1, <2>2, <2>3, ActiveFacts DEF IInv, TypeOK, scan, stats, leading
<1>9. Counters'
  <2>1. \A r \in Sorts : current'[r] = Cardinality(At(Begun(r))')
    BY <1>4, <1>5, <1>6, <1>7 DEF IInv, Counters
  <2> QED  BY <1>1, <1>5, <2>1 DEF IInv, Counters, stats
<1>10. Identifiers'
  <2>1. ASSUME NEW r \in Sorts, r # s
        PROVE  /\ \A q, u \in At(Begun(r))' : ident'[r][q] = ident'[r][u] => q = u
               /\ {ident'[r][q] : q \in At(Begun(r))'} = 0..(current'[r] - 1)
    BY <2>1, <1>5, <1>7 DEF IInv, Identifiers
  <2>2. \A q \in At(Begun(s)) : ident'[s][q] = ident[s][q] /\ ident[s][q] \in 0..(current[s] - 1)
    <3>1. At(Begun(s)) \subseteq Participants
      BY <1>1, ActiveFacts, PartsFinite, AtFinite
    <3> QED  BY <1>4, <1>7, <3>1 DEF IInv, Identifiers
  <2>3. \A q, u \in At(Begun(s))' : ident'[s][q] = ident'[s][u] => q = u
    BY <1>4, <1>6, <1>7, <2>2 DEF IInv, Identifiers
  <2>4. {ident'[s][q] : q \in At(Begun(s))'}
          = {ident[s][q] : q \in At(Begun(s))} \cup {current[s]}
    BY <1>4, <1>7, <2>2
  <2>5. {ident'[s][q] : q \in At(Begun(s))'} = 0..(current'[s] - 1)
    BY <1>6, <1>7, <2>4 DEF IInv, Identifiers
  <2> QED  BY <2>1, <2>3, <2>5 DEF Identifiers
<1>11. Dealt'
  <2>1. stage \notin Frozen(1) /\ stage \in Begun(1)
    BY DEF Frozen, Begun, Stages
  <2> QED  BY <1>1, <1>3, <2>1, DealtKeeps
<1>12. Taped'
  <2>1. ASSUME NEW r \in Sorts, NEW q \in At(Frozen(r))
        PROVE  ident'[r][q] = ident[r][q]
    <3>1. q # p
      BY <1>3 DEF At
    <3>2. q \in Participants
      BY <1>1, ActiveFacts, PartsFinite, AtFinite
    <3> QED  BY <1>7, <3>1, <3>2
  <2> QED  BY <1>1, <1>5, <2>1, ActiveFacts DEF IInv, Taped, scan
<1>13. Counted'
  BY <1>1, <1>5, ActiveFacts DEF IInv, Counted, CountedTuples, scan, stats, Sorts
<1>14. MainLine'
  BY <1>1, MainLineKeeps DEF stats, leading
<1> QED  BY <1>8, <1>9, <1>10, <1>11, <1>12, <1>13, <1>14 DEF IInv

\* Being dealt a tuple of the scan preserves the invariant.
LEMMA ScanTupleInv ==
  ASSUME IInv, NEW p \in Participants, NEW t \in Tuples, ScanTuple(p, t)
  PROVE  IInv'
<1>1. /\ Active(p) /\ where[p] = "scan" /\ t \in unscanned
      /\ unscanned' = unscanned \ {t}
      /\ spooled' = [spooled EXCEPT ![p] = @ \cup {t}]
      /\ UNCHANGED <<where, failed, sorts, stats, leading>>
  BY DEF ScanTuple
<1>2. \A S : At(S)' = At(S)
  BY <1>1, ActiveFacts DEF At
<1>3. /\ \A q \in Participants : spooled'[q] = IF q = p THEN spooled[p] \cup {t} ELSE spooled[q]
      /\ p \in Parts /\ Parts \subseteq Participants
  BY <1>1, ActiveFacts, PartsFinite DEF IInv, TypeOK
<1>4. p \notin At(Recorded) /\ \A s \in Sorts : p \notin At(Frozen(s))
  BY <1>1 DEF At, Recorded, Frozen, Sorts
<1>5. TypeOK'
  BY <1>1, ActiveFacts DEF IInv, TypeOK, sorts, stats, leading
<1>6. Counters' /\ Identifiers'
  BY <1>1, <1>2, ActiveFacts DEF IInv, Counters, Identifiers, sorts, stats, Recorded
<1>7. Dealt'
  <2>1. Parts' = Parts /\ where' = where /\ Begun(1)' = Begun(1) /\ Frozen(1)' = Frozen(1)
    BY <1>1, ActiveFacts DEF Sorts
  <2>2. where[p] \in Begun(1)
    BY <1>1 DEF Begun, Stages
  <2>3. \A q, u \in Participants : q # u => spooled'[q] \cap spooled'[u] = {}
    BY <1>1, <1>3 DEF IInv, Dealt
  <2>4. \A q \in Participants : /\ spooled'[q] \cap unscanned' = {}
                                /\ spooled'[q] # {} => q \in Parts /\ where[q] \in Begun(1)
    BY <1>1, <1>3, <2>2 DEF IInv, Dealt
  <2>5. \A u \in Tuples : u \in unscanned' \/ \E q \in Parts : u \in spooled'[q]
    BY <1>1, <1>3 DEF IInv, Dealt
  <2>6. \A q \in Parts : where[q] \in Frozen(1) => unscanned' = {}
    BY <1>1 DEF IInv, Dealt
  <2> QED  BY <2>1, <2>3, <2>4, <2>5, <2>6 DEF Dealt
<1>8. Taped'
  <2>1. \A s \in Sorts : \A q \in At(Frozen(s)) : q \in Participants /\ q # p
    BY <1>1, <1>4, ActiveFacts, PartsFinite, AtFinite
  <2> QED  BY <1>1, <1>2, <1>3, <2>1, ActiveFacts DEF IInv, Taped, sorts
<1>9. Counted'
  <2>1. \A q \in At(Recorded) : spooled'[q] = spooled[q]
    BY <1>1, <1>3, <1>4, ActiveFacts, PartsFinite, AtFinite
  <2>2. At(Recorded)' = At(Recorded)
    BY <1>2 DEF Recorded
  <2> QED  BY <1>1, <2>1, <2>2, ActiveFacts DEF IInv, Counted, CountedTuples, stats, Sorts
<1>10. MainLine'
  BY <1>1, MainLineKeeps DEF stats, leading
<1> QED  BY <1>5, <1>6, <1>7, <1>8, <1>9, <1>10 DEF IInv

\* An error of a participant is seen by the leader, not by the others.
LEMMA FailureKeeps ==
  ASSUME IInv, NEW p \in Participants, failed' = failed \cup {p},
         UNCHANGED <<table, launched, where, scan, sorts, stats, main, loaded, cause>>
  PROVE  IInv'
<1>1. Counters' /\ Identifiers' /\ Dealt' /\ Taped' /\ Counted'
  <2>1. \A S : At(S)' = At(S)
    BY DEF At
  <2>2. \A s \in Sorts : Begun(s)' = Begun(s) /\ Frozen(s)' = Frozen(s)
    BY DEF Begun, Frozen, Unique
  <2>3. Counters' /\ Identifiers'
    BY <2>1, <2>2 DEF IInv, Counters, Identifiers, Recorded, sorts, stats
  <2>4. Dealt'
    BY <2>2 DEF IInv, Dealt, Parts, Participants, Sorts, scan
  <2>5. Taped' /\ Counted'
    BY <2>1, <2>2 DEF IInv, Taped, Counted, CountedTuples, Share, Unique, Dead, Recorded,
                      scan, sorts, stats
  <2> QED  BY <2>3, <2>4, <2>5
<1>2. TypeOK'
  BY DEF IInv, TypeOK, Unique, scan, sorts, stats
<1>3. MainLine'
  BY DEF IInv, MainLine, Loaded, Share, Clash, Unique, Dead, nParticipants, Sorts, stats
<1> QED  BY <1>1, <1>2, <1>3 DEF IInv

\* Finishing the tape of a sort preserves the invariant.
LEMMA PerformSortInv ==
  ASSUME IInv, NEW s \in Sorts, NEW p \in Participants, PerformSort(s, p)
  PROVE  IInv'
<1> DEFINE stage == IF s = 1 /\ Unique THEN "sort2" ELSE "record"
<1>1. /\ Active(p) /\ where[p] = SortOf(s) /\ unscanned = {}
      /\ UNCHANGED <<scan, ident, current, stats, leading>>
  BY DEF PerformSort
<1>2. CASE Unique /\ s = 1 /\ Clash(Share(1, spooled[p]))
  <2>1. failed' = failed \cup {p} /\ UNCHANGED <<where, tape, finished>>
    BY <1>2 DEF PerformSort
  <2> QED  BY <1>1, <2>1, ActiveFacts, FailureKeeps DEF sorts, leading
<1>3. CASE ~(Unique /\ s = 1 /\ Clash(Share(1, spooled[p])))
  <2>1. /\ tape' = [tape EXCEPT ![s][ident[s][p]] = Share(s, spooled[p])]
        /\ finished' = [finished EXCEPT ![s] = @ + 1]
        /\ Goto(p, stage) /\ failed' = failed
    BY <1>3 DEF PerformSort
  <2>2. s = 2 => Unique
    BY <1>1 DEF IInv, TypeOK, SortOf, Sorts
  <2>3. /\ where[p] \notin Frozen(s) /\ stage \in Frozen(s) /\ stage \in Stages
        /\ \A r \in Sorts : r # s => (where[p] \in Frozen(r) <=> stage \in Frozen(r))
        /\ \A r \in Sorts : where[p] \in Begun(r) <=> stage \in Begun(r)
        /\ where[p] \in Begun(s)
        /\ where[p] \notin Recorded /\ stage \notin Recorded
    BY <1>1, <2>2 DEF Begun, Frozen, Recorded, SortOf, Sorts, Stages
  <2>4. /\ At(Frozen(s))' = At(Frozen(s)) \cup {p} /\ p \notin At(Frozen(s))
        /\ Cardinality(At(Frozen(s))') = Cardinality(At(Frozen(s))) + 1
    <3>1. Frozen(s)' = Frozen(s)
      BY <1>1, ActiveFacts
    <3> QED  BY <1>1, <2>1, <2>3, <3>1, Enters, ActiveFacts
  <2>5. /\ \A r \in Sorts : r # s => At(Frozen(r))' = At(Frozen(r))
        /\ \A r \in Sorts : At(Begun(r))' = At(Begun(r))
        /\ At(Recorded)' = At(Recorded)
    BY <1>1, <2>1, <2>3, Stays, ActiveFacts
  <2>6. \A r \in Sorts : At(Frozen(r)) \subseteq At(Begun(r)) /\ At(Begun(r)) \subseteq Participants
    <3>1. \A r \in Sorts : Frozen(r) \subseteq Begun(r)
      BY DEF Frozen, Begun, Sorts, Stages
    <3>2. \A r \in Sorts : At(Begun(r)) \subseteq Participants
      BY <1>1, ActiveFacts, PartsFinite, AtFinite
    <3> QED  BY <3>1, <3>2 DEF At
  <2>7. p \in At(Begun(s))
    BY <1>1, <2>3, ActiveFacts DEF At, Parts
  <2>8. /\ finished'[s] = finished[s] + 1 /\ \A r \in Sorts : r # s => finished'[r] = finished[r]
        /\ finished[s] \in Nat /\ finished' \in [Sorts -> Nat]
    BY <2>1 DEF IInv, TypeOK
  <2>9. ident[s][p] \in Places /\ Share(s, spooled[p]) \subseteq Tuples
    BY DEF IInv, TypeOK, Share
  <2>10. TypeOK'
    <3>1. \A q \in Participants : where'[q] \in {"begin2", "sort2"} => Unique
      BY <2>1 DEF IInv, TypeOK, Goto
    <3>2. where' \in [Participants -> Stages]
      BY <1>1, <2>1, <2>3, ActiveFacts DEF Goto
    <3>3. tape' \in [Sorts -> [Places -> SUBSET Tuples]]
      BY <2>1, <2>9 DEF IInv, TypeOK
    <3> QED
      BY <1>1, <2>1, <2>8, <3>1, <3>2, <3>3, ActiveFacts DEF IInv, TypeOK, scan, stats, leading
  <2>11. Counters'
    <3>1. \A r \in Sorts : finished'[r] = Cardinality(At(Frozen(r))')
      BY <2>4, <2>5, <2>8 DEF IInv, Counters
    <3> QED  BY <1>1, <2>5, <3>1 DEF IInv, Counters, stats
  <2>12. Identifiers'
    BY <1>1, <2>5 DEF IInv, Identifiers
  <2>13. Dealt'
    <3>1. stage \in Begun(1)
      BY DEF Begun, Stages
    <3> QED  BY <1>1, <2>1, <2>3, <3>1, DealtKeeps
  <2>14. Taped'
    <3>1. ASSUME NEW r \in Sorts, NEW q \in At(Frozen(r))'
          PROVE  tape'[r][ident[r][q]] = Share(r, spooled[q])
      <4>1. CASE r = s /\ q = p
        BY <2>1, <2>9, <4>1 DEF IInv, TypeOK
      <4>2. CASE r = s /\ q # p
        <5>1. q \in At(Frozen(s)) /\ q \in At(Begun(s)) /\ q \in Participants
          BY <2>4, <2>6, <3>1, <4>2
        <5>2. ident[s][q] # ident[s][p]
          BY <2>7, <4>2, <5>1 DEF IInv, Identifiers
        <5>3. tape'[s][ident[s][q]] = tape[s][ident[s][q]]
          BY <2>1, <2>9, <5>1, <5>2 DEF IInv, TypeOK
        <5> QED  BY <4>2, <5>1, <5>3 DEF IInv, Taped
      <4>3. CASE r # s
        <5>1. tape'[r] = tape[r] /\ q \in At(Frozen(r))
          BY <2>1, <2>5, <4>3 DEF IInv, TypeOK
        <5> QED  BY <5>1 DEF IInv, Taped
      <4> QED  BY <4>1, <4>2, <4>3
    <3>2. spooled' = spooled /\ ident' = ident
      BY <1>1 DEF scan
    <3>3. \A r \in Sorts : \A ts : Share(r, ts)' = Share(r, ts)
      BY <1>1, ActiveFacts
    <3> QED  BY <3>1, <3>2, <3>3 DEF Taped
  <2>15. Counted'
    BY <1>1, <2>5, ActiveFacts DEF IInv, Counted, CountedTuples, scan, stats, Sorts
  <2>16. MainLine'
    BY <1>1, MainLineKeeps DEF stats, leading
  <2> QED  BY <2>10, <2>11, <2>12, <2>13, <2>14, <2>15, <2>16 DEF IInv
<1> QED  BY <1>2, <1>3

\* Recording a participant's end and its statistics preserves the invariant.
LEMMA RecordInv ==
  ASSUME IInv, NEW p \in Participants, Record(p)
  PROVE  IInv'
<1>1. /\ Active(p) /\ where[p] = "record" /\ Goto(p, "signal")
      /\ ndone' = ndone + 1
      /\ havedead' = (havedead \/ Share(2, spooled[p]) # {})
      /\ indtuples' = indtuples + Cardinality(spooled[p])
      /\ UNCHANGED <<failed, scan, sorts, leading>>
  BY DEF Record
<1>2. \A s \in Sorts : At(Begun(s))' = At(Begun(s)) /\ At(Frozen(s))' = At(Frozen(s))
  <2>1. \A s \in Sorts : /\ "record" \in Begun(s) <=> "signal" \in Begun(s)
                         /\ "record" \in Frozen(s) <=> "signal" \in Frozen(s)
    BY DEF Begun, Frozen, Sorts, Stages
  <2> QED  BY <1>1, <2>1, Stays, ActiveFacts
<1>3. /\ At(Recorded)' = At(Recorded) \cup {p} /\ p \notin At(Recorded)
      /\ Cardinality(At(Recorded)') = Cardinality(At(Recorded)) + 1
  <2>1. "record" \notin Recorded /\ "signal" \in Recorded /\ Recorded' = Recorded
    BY DEF Recorded
  <2> QED  BY <1>1, <2>1, Enters, ActiveFacts
<1>4. IsFiniteSet(spooled[p]) /\ Cardinality(spooled[p]) \in Nat /\ spooled[p] \subseteq Tuples
  BY FS_Subset, FS_CardinalityType, BuildAssumption DEF IInv, TypeOK
<1>5. TypeOK'
  <2>1. \A q \in Participants : where'[q] \in {"begin2", "sort2"} => Unique
    BY <1>1 DEF IInv, TypeOK, Goto
  <2>2. where' \in [Participants -> Stages]
    BY <1>1, ActiveFacts DEF Goto, Stages
  <2>3. ndone' \in Nat /\ havedead' \in BOOLEAN /\ indtuples' \in Nat
    BY <1>1, <1>4 DEF IInv, TypeOK
  <2> QED  BY <1>1, <2>1, <2>2, <2>3, ActiveFacts DEF IInv, TypeOK, scan, sorts, leading
<1>6. Counters' /\ Identifiers'
  <2>1. ndone' = Cardinality(At(Recorded)')
    BY <1>1, <1>3 DEF IInv, Counters
  <2> QED  BY <1>1, <1>2, <2>1 DEF IInv, Counters, Identifiers, sorts
<1>7. Dealt'
  <2>1. unscanned = {}
    BY <1>1, ActiveFacts DEF IInv, Dealt, Frozen
  <2>2. "signal" \in Stages /\ "signal" \in Begun(1)
    BY DEF Begun, Stages
  <2> QED  BY <1>1, <2>1, <2>2, DealtKeeps
<1>8. Taped'
  BY <1>1, <1>2, ActiveFacts DEF IInv, Taped, scan, sorts
<1>9. Counted'
  <2>1. spooled' = spooled /\ \A ts : Share(2, ts)' = Share(2, ts)
    BY <1>1, ActiveFacts DEF scan, Sorts
  <2>2. CountedTuples' = CountedTuples \cup spooled[p]
    BY <1>3, <1>4, <2>1 DEF CountedTuples
  <2>3. CountedTuples \cap spooled[p] = {}
    <3>1. At(Recorded) \subseteq Participants
      BY <1>1, ActiveFacts, PartsFinite, AtFinite
    <3> QED  BY <1>3, <3>1 DEF CountedTuples, IInv, Dealt
  <2>4. IsFiniteSet(CountedTuples) /\ Cardinality(CountedTuples) \in Nat
    BY FS_Subset, FS_CardinalityType, BuildAssumption DEF CountedTuples
  <2>5. Cardinality(CountedTuples \cup spooled[p])
          = Cardinality(CountedTuples) + Cardinality(spooled[p])
    BY <1>4, <2>3, <2>4, FS_Union, FS_EmptySet
  <2>6. indtuples' = Cardinality(CountedTuples')
    BY <1>1, <2>2, <2>5 DEF IInv, Counted
  <2>7. havedead' <=> \E q \in At(Recorded)' : Share(2, spooled[q]) # {}
    BY <1>1, <1>3 DEF IInv, Counted
  <2> QED  BY <2>1, <2>6, <2>7 DEF Counted
<1>10. MainLine'
  BY <1>1, MainLineKeeps DEF leading
<1> QED  BY <1>5, <1>6, <1>7, <1>8, <1>9, <1>10 DEF IInv

\* Signalling the leader preserves the invariant.
LEMMA SignalInv ==
  ASSUME IInv, NEW p \in Participants, Signal(p)
  PROVE  IInv'
<1>1. /\ Active(p) /\ where[p] = "signal" /\ Goto(p, "ended")
      /\ UNCHANGED <<failed, scan, sorts, stats, main, loaded, cause>>
  BY DEF Signal
<1>2. /\ \A s \in Sorts : At(Begun(s))' = At(Begun(s)) /\ At(Frozen(s))' = At(Frozen(s))
      /\ At(Recorded)' = At(Recorded)
  <2>1. \A s \in Sorts : /\ "signal" \in Begun(s) <=> "ended" \in Begun(s)
                         /\ "signal" \in Frozen(s) <=> "ended" \in Frozen(s)
    BY DEF Begun, Frozen, Sorts, Stages
  <2>2. "signal" \in Recorded /\ "ended" \in Recorded
    BY DEF Recorded
  <2> QED  BY <1>1, <2>1, <2>2, Stays, ActiveFacts
<1>3. TypeOK'
  BY <1>1, ActiveFacts DEF IInv, TypeOK, Goto, Stages, scan, sorts, stats
<1>4. Counters' /\ Identifiers'
  BY <1>1, <1>2 DEF IInv, Counters, Identifiers, sorts, stats
<1>5. Dealt'
  <2>1. unscanned = {}
    BY <1>1, ActiveFacts DEF IInv, Dealt, Frozen
  <2>2. "ended" \in Stages /\ "ended" \in Begun(1)
    BY DEF Begun, Stages
  <2> QED  BY <1>1, <2>1, <2>2, DealtKeeps
<1>6. Taped' /\ Counted'
  BY <1>1, <1>2, ActiveFacts DEF IInv, Taped, Counted, CountedTuples, scan, sorts, stats, Sorts
<1>7. MainLine'
  BY <1>1, MainLineKeeps DEF stats
<1> QED  BY <1>3, <1>4, <1>5, <1>6, <1>7 DEF IInv

-----------------------------------------------------------------------------
(***************************************************************************)
(* The theorems.                                                           *)
(***************************************************************************)
\* Every step preserves the invariant.
LEMMA NextInv == ASSUME IInv, [BuildNext]_buildVars PROVE IInv'
<1>1. ASSUME NEW p \in Participants, Step(p) PROVE IInv'
  BY <1>1, AttachInv, BeginSortInv, ScanTupleInv, PerformSortInv, RecordInv, SignalInv DEF Step
<1>2. ASSUME NEW p \in Participants, Fail(p) PROVE IInv'
  <2>1. p \in Participants /\ failed' = failed \cup {p}
    BY <1>2 DEF Fail
  <2> QED  BY <1>2, <2>1, FailureKeeps DEF Fail, leading
<1>3. CASE Lead
  BY <1>3, LeadInv
<1>4. CASE UNCHANGED buildVars
  <2>1. UNCHANGED <<table, launched, where, failed, scan, sorts, stats, main, loaded, cause>>
    BY <1>4 DEF buildVars, leading
  <2>2. Counters' /\ Identifiers' /\ Dealt' /\ Taped' /\ Counted'
    BY <2>1, LeadKeeps
  <2>3. TypeOK'
    BY <2>1 DEF IInv, TypeOK, Unique, scan, sorts, stats
  <2>4. MainLine'
    BY <2>1 DEF IInv, MainLine, Loaded, Share, Clash, Unique, Dead, nParticipants, Sorts, stats
  <2> QED  BY <2>2, <2>3, <2>4 DEF IInv
<1> QED  BY <1>1, <1>2, <1>3, <1>4 DEF BuildNext

\* The counters, identifiers, tapes and the leader's knowledge fit together in every
\* state, however many workers are launched and fail.
THEOREM BuildInvariant == BuildSpec => []IInv
<1> QED  BY Initially, NextInv, PTL DEF BuildSpec

\* worker_get_identifier gives out 0, 1, 2 ... one each, and no more than there are
\* tapes.
THEOREM GaplessIdentifiers == BuildSpec => []IdentifiersGapless
<1>1. IInv => IdentifiersGapless
  <2>1. SUFFICES ASSUME IInv, NEW s \in Sorts PROVE current[s] <= Cardinality(Workers) + 1
    BY DEF IInv, Identifiers, IdentifiersGapless
  <2>2. launched \subseteq Workers /\ current[s] = Cardinality(At(Begun(s)))
    BY <2>1 DEF IInv, TypeOK, Counters
  <2> QED  BY <2>2, AtFinite, PartsFinite
<1> QED  BY <1>1, BuildInvariant, PTL

\* The leader never takes over tapes before all workers finish.
THEOREM FinishedTapes == BuildSpec => []TapesFinishedWhenTaken
<1>1. IInv => TapesFinishedWhenTaken
  BY DEF IInv, TypeOK, Errors, TapesFinishedWhenTaken
<1> QED  BY <1>1, BuildInvariant, PTL

\* A build that succeeds has loaded and counted every tuple, and a unique index has
\* no equal live keys.
THEOREM EverythingLoaded == BuildSpec => []EveryTupleLoaded
<1>1. IInv => EveryTupleLoaded
  <2>1. SUFFICES ASSUME IInv, main = "done" PROVE
          /\ \A s \in Sorts : loaded[s] = Share(s, Tuples)
          /\ Unique => ~Clash(Tuples \ Dead)
          /\ launched # {} => indtuples = Cardinality(Tuples)
    BY DEF EveryTupleLoaded
  <2>2. Loaded(1) /\ Loaded(2) /\ (Unique => ~Clash(loaded[1]))
    BY <2>1 DEF IInv, MainLine
  <2>3. Unique => loaded[1] = Tuples \ Dead
    BY <2>2 DEF Loaded, Share
  <2>4. launched # {} => indtuples = Cardinality(Tuples)
    <3>1. SUFFICES ASSUME launched # {} PROVE indtuples = Cardinality(Tuples)
      OBVIOUS
    <3>2. ndone = nParticipants
      BY <2>1, <3>1 DEF IInv, MainLine
    <3>3. CountedTuples = Tuples
      BY <2>1, <3>2, TapesComplete DEF Sorts
    <3> QED  BY <2>1, <3>3 DEF IInv, Counted
  <2> QED  BY <2>2, <2>3, <2>4 DEF Loaded, Sorts
<1> QED  BY <1>1, BuildInvariant, PTL
=============================================================================
