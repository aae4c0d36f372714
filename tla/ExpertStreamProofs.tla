------------------------- MODULE ExpertStreamProofs -------------------------
(***************************************************************************)
(* TLAPS proofs about ExpertStream, for every set of layers, experts,      *)
(* lanes and compute threads.  The argument: Inv is inductive, one lemma   *)
(* per action, and it implies that a compute thread never multiplies a     *)
(* slice that is not its layer's data unless the run is already fatal.     *)
(***************************************************************************)
EXTENDS ExpertStreamInv, FiniteSetTheorems, SequenceTheorems,
        WellFoundedInduction, TLAPS

Inv == TypeOK /\ IInv

USE DEF Inv, IInv, callVars, evalVars, boundVars, cacheVars, batchVars,
        syncVars, laneVars, graphVars
-----------------------------------------------------------------------------

(* Waking the sleeping waiters changes nothing they rely on.               *)
LEMMA WakeType ==
  ASSUME TypeOK, ThreadInv, NEW T
  PROVE  /\ Wake(T) \in [Threads -> ThreadPcs]
         /\ \A t \in Threads : Wake(T)[t] # tpc[t] => tpc[t] = "asleep" /\ Wake(T)[t] = "lock"
  BY DEF TypeOK, Wake, ThreadPcs


(* A set of jobs is finite, and holds one job for each expert and          *)
(* projection it was made of.                                              *)
LEMMA JobsFinite ==
  ASSUME NEW il \in Layers, NEW S \in SUBSET Experts, NEW P \in SUBSET Projs
  PROVE  /\ JobsOf(il, S, P) \subseteq Job
         /\ IsFiniteSet(JobsOf(il, S, P))
         /\ Cardinality(JobsOf(il, S, P)) \in Nat
         /\ \A i \in Layers, e \in Experts, p \in Projs :
              TheJob(i, e, p) \in JobsOf(il, S, P) <=> i = il /\ e \in S /\ p \in P
         /\ \A j \in JobsOf(il, S, P) : j.layer = il /\ j.expert \in S /\ j.proj \in P
  <1> DEFINE f == [x \in S \X P |-> TheJob(il, x[1], x[2])]
  <1>1. IsFiniteSet(S \X P)
    BY ConstantsAssumption, FS_Subset, FS_Product
  <1>2. f \in Surjection(S \X P, JobsOf(il, S, P))
    <2>1. f \in [S \X P -> JobsOf(il, S, P)]
      BY DEF JobsOf, TheJob
    <2>2. ASSUME NEW j \in JobsOf(il, S, P)
          PROVE  \E x \in S \X P : f[x] = j
      <3>1. PICK e \in S, p \in P : j = TheJob(il, e, p)
        BY DEF JobsOf, TheJob
      <3>2. <<e, p>> \in S \X P /\ f[<<e, p>>] = j
        BY <3>1
      <3>3. QED
        BY <3>2
    <2>3. QED
      BY <2>1, <2>2 DEF Surjection
  <1>3. IsFiniteSet(JobsOf(il, S, P))
    BY <1>1, <1>2, FS_Surjection
  <1>4. Cardinality(JobsOf(il, S, P)) \in Nat
    BY <1>3, FS_CardinalityType
  <1>5. JobsOf(il, S, P) \subseteq Job
    BY DEF JobsOf, Job
  <1>6. \A j \in JobsOf(il, S, P) : j.layer = il /\ j.expert \in S /\ j.proj \in P
    BY DEF JobsOf
  <1>7. ASSUME NEW i \in Layers, NEW e \in Experts, NEW p \in Projs
        PROVE  TheJob(i, e, p) \in JobsOf(il, S, P) <=> i = il /\ e \in S /\ p \in P
    <2>1. /\ TheJob(i, e, p).layer = i /\ TheJob(i, e, p).expert = e
          /\ TheJob(i, e, p).proj = p
      BY DEF TheJob
    <2>2. TheJob(i, e, p) \in JobsOf(il, S, P) => i = il /\ e \in S /\ p \in P
      BY <2>1, <1>6
    <2>3. i = il /\ e \in S /\ p \in P => TheJob(i, e, p) \in JobsOf(il, S, P)
      BY DEF JobsOf, TheJob
    <2>4. QED
      BY <2>2, <2>3
  <1>8. QED
    BY <1>3, <1>4, <1>5, <1>6, <1>7

(* Unlinking leaves a list of the same kind.                               *)
LEMMA LruUnlinkType ==
  ASSUME NEW S, NEW s \in Seq(S), NEW id
  PROVE  LruUnlink(s, id) \in Seq(S)
  <1>1. CASE \E i \in DOMAIN s : s[i] = id
    <2> DEFINE i == CHOOSE i \in DOMAIN s : s[i] = id
    <2>1. i \in DOMAIN s /\ Len(s) \in Nat /\ DOMAIN s = 1..Len(s)
      BY <1>1
    <2>2. i \in 1..Len(s)
      BY <2>1
    <2> HIDE DEF i
    <2>3. SubSeq(s, 1, i - 1) \in Seq(S) /\ SubSeq(s, i + 1, Len(s)) \in Seq(S)
      BY <2>1, <2>2
    <2>4. SubSeq(s, 1, i - 1) \o SubSeq(s, i + 1, Len(s)) \in Seq(S)
      BY <2>3, ConcatProperties
    <2>5. QED
      BY <2>4, <1>1 DEF LruUnlink, i
  <1>2. CASE ~ \E i \in DOMAIN s : s[i] = id
    BY <1>2 DEF LruUnlink
  <1>3. QED
    BY <1>1, <1>2

(* With every job counted as done, no lane holds one and none is queued.   *)
LEMMA DrainedMeansIdle ==
  ASSUME Inv, doneCnt = batchNjobs
  PROVE  InFlight = {} /\ queued = {} /\ Held = {} /\ BeingRead = {}
  <1>1. IsFiniteSet(InFlight)
    <2>1. InFlight \in SUBSET Lanes /\ IsFiniteSet(Lanes)
      BY ConstantsAssumption DEF InFlight
    <2>2. QED
      BY <2>1, FS_Subset
  <1>2. Cardinality(InFlight) \in Nat /\ Cardinality(queued) \in Nat
    BY <1>1, FS_CardinalityType DEF CountInv
  <1>3. Cardinality(InFlight) = 0 /\ Cardinality(queued) = 0
    BY <1>2 DEF CountInv, TypeOK
  <1>4. QED
    BY <1>1, <1>3, FS_EmptySet DEF CountInv, Held, BeingRead, Reading, InFlight

(* A lane that waits, wakes, leaves a batch or exits holds no job.         *)
LEMMA LaneIdleInv ==
  ASSUME Inv, NEW l \in Lanes, LaneWake(l) \/ LaneLeave(l)
  PROVE  Inv'
  <1> USE DEF LaneWake, LaneLeave, LaneStep
  <1>0. InFlight' = InFlight /\ Reading' = Reading /\ laneJob' = laneJob
    BY DEF TypeOK, InFlight, Reading
  <1>a. Held' = Held /\ BeingRead' = BeingRead
    BY <1>0 DEF Held, BeingRead
  <1>1. TypeOK'
    BY ZenonT(40) DEF TypeOK, LanePcs
  <1>2. CountInv'
    BY <1>0 DEF CountInv
  <1>3. BatchInv'
    BY <1>0, <1>a DEF BatchInv, Live
  <1>4. StageInv'
    BY DEF StageInv
  <1>5. StampInv'
    BY <1>a DEF StampInv, Live
  <1>6. ValidInv'
    BY <1>a DEF ValidInv, Owed, TheJob
  <1>7. PagesInv'
    BY <1>0 DEF PagesInv, TwoWave, CellOf, Cell
  <1>8. FlagInv'
    BY SMTT(30), <1>0, <1>a DEF FlagInv, TypeOK, Live, CellOf, Cell, TheJob
  <1>9. ThreadInv'
    BY DEF ThreadInv
  <1>10. QED
    BY <1>1, <1>2, <1>3, <1>4, <1>5, <1>6, <1>7, <1>8, <1>9

(* A lane takes a job: what it was owed is now being read.                 *)
LEMMA LaneTakeInv ==
  ASSUME Inv, NEW l \in Lanes, NEW j \in queued, LaneTake(l, j)
  PROVE  Inv'
  <1> USE DEF LaneTake, LaneStep
  <1>0. /\ l \notin InFlight /\ j \in Job
        /\ InFlight' = InFlight \cup {l} /\ Reading' = Reading \cup {l}
        /\ laneJob'[l] = j /\ \A k \in Lanes \ {l} : laneJob'[k] = laneJob[k]
    BY DEF TypeOK, InFlight, Reading
  <1>a. Held' = Held \cup {j} /\ BeingRead' = BeingRead \cup {j}
    BY <1>0 DEF Held, BeingRead, InFlight, Reading
  <1>b. j \notin Held /\ j.layer = curIl /\ BeingRead \subseteq Held
    BY DEF BatchInv, Held, BeingRead, InFlight, Reading
  <1>c. CellOf(j) \in Cells /\ CellOf(j)' = CellOf(j)
    BY <1>0 DEF CellOf, Cell, Cells, Job
  <1>d. \A c \in Cells : mem'[c] = IF c = CellOf(j) /\ mem[c] # "none" THEN "torn" ELSE mem[c]
    BY <1>c DEF TypeOK
  <1>1. TypeOK'
    BY <1>0 DEF TypeOK, LanePcs
  <1>2. CountInv'
    <2>1. IsFiniteSet(InFlight) /\ Cardinality(InFlight) \in Nat
      <3>1. InFlight \in SUBSET Lanes /\ IsFiniteSet(Lanes)
        BY ConstantsAssumption DEF InFlight
      <3>2. QED
        BY <3>1, FS_Subset, FS_CardinalityType
    <2>2. Cardinality(InFlight') = Cardinality(InFlight) + 1
      BY <1>0, <2>1, FS_AddElement
    <2>3. IsFiniteSet(queued') /\ Cardinality(queued') = Cardinality(queued) - 1
      BY FS_RemoveElement DEF CountInv
    <2>4. Cardinality(queued) \in Nat
      BY FS_CardinalityType DEF CountInv
    <2>5. QED
      BY <2>1, <2>2, <2>3, <2>4 DEF CountInv, TypeOK
  <1>3. BatchInv'
    BY <1>0, <1>a, <1>b DEF BatchInv, Live, Held, InFlight
  <1>4. StageInv'
    BY DEF StageInv
  <1>5. StampInv'
    BY <1>a DEF StampInv, Live
  <1>6. ValidInv'
    <2> SUFFICES ASSUME mode.cached, ~fatal, NEW il \in Layers, NEW e \in Experts,
                        NEW p \in Projs, valid[<<il, e>>]
                 PROVE  mem'[<<il, e, p>>] = il \/ Owed(il, e, p)'
      BY DEF ValidInv
    <2>1. CASE TheJob(il, e, p) = j
      BY <2>1, <1>a DEF Owed, TheJob
    <2>2. CASE TheJob(il, e, p) # j
      <3>1. <<il, e, p>> # CellOf(j)
        BY <2>2, <1>0 DEF CellOf, Cell, TheJob, Job
      <3>2. mem'[<<il, e, p>>] = mem[<<il, e, p>>]
        BY <3>1, <1>d DEF Cells
      <3>3. QED
        BY <3>2, <2>2, <1>a DEF ValidInv, Owed, TheJob
    <2>3. QED
      BY <2>1, <2>2
  <1>7. PagesInv'
    <2>1. \A k \in Reading' :
            ~mode.cached \/ valid[<<laneJob'[k].layer, laneJob'[k].expert>>] =>
              mem'[CellOf(laneJob'[k])] = "torn"
      <3> SUFFICES ASSUME NEW k \in Reading',
                          ~mode.cached \/ valid[<<laneJob'[k].layer, laneJob'[k].expert>>]
                   PROVE  mem'[CellOf(laneJob'[k])] = "torn"
        OBVIOUS
      <3>1. CASE k = l
        <4>1. mem[CellOf(j)] # "none"
          <5>0. evalPc # "closed"
            BY DEF BatchInv
          <5>1. CASE mode.cached
            BY <3>1, <5>0, <5>1, <1>0 DEF PagesInv
          <5>2. CASE ~mode.cached
            BY <5>0, <5>2, <1>0 DEF PagesInv, CellOf, Cell, Job
          <5>3. QED
            BY <5>1, <5>2
        <4>2. QED
          BY <3>1, <4>1, <1>c, <1>d, <1>0
      <3>2. CASE k # l
        <4>1. k \in Reading /\ laneJob'[k] = laneJob[k]
          BY <3>2, <1>0 DEF Reading
        <4>2. laneJob[k] \in Job
          BY <4>1 DEF BatchInv, InFlight, Reading
        <4>3. mem[CellOf(laneJob[k])] = "torn" /\ CellOf(laneJob[k]) \in Cells
          BY <4>1, <4>2 DEF PagesInv, CellOf, Cell, Cells, Job
        <4>4. QED
          BY <4>1, <4>3, <1>d
      <3>3. QED
        BY <3>1, <3>2
    <2>2. \A c \in Cells : mem[c] # "none" => mem'[c] # "none"
      BY <1>d
    <2>3. queued \subseteq Job
      BY DEF TypeOK
    <2>4. (mode.cached /\ evalPc # "closed" => \A i \in queued :
             valid[<<i.layer, i.expert>>] => mem[CellOf(i)] # "none")'
      BY <2>2, <2>3 DEF PagesInv, CellOf, Cell, Cells, Job
    <2>5. missing \subseteq Experts /\ (evalPc \in {"touch", "commit"} => curIl \in Layers)
      BY DEF TypeOK, BatchInv, Live
    <2>6. QED
      BY SMTT(30), <2>1, <2>2, <2>4, <2>5 DEF PagesInv, TwoWave, CellOf, Cell, Cells
  <1>8. FlagInv'
    <2>1. \A e \in Experts, p \in Projs :
            (Live \/ evalPc = "touch") /\ ~fatal /\ ready[<<p, e>>] = asyncGen =>
              /\ mem'[Cell(curIl, e, p)] = curIl
              /\ TheJob(curIl, e, p) \notin queued' \cup BeingRead'
      <3> SUFFICES ASSUME NEW e \in Experts, NEW p \in Projs,
                          Live \/ evalPc = "touch", ~fatal, ready[<<p, e>>] = asyncGen
                   PROVE  /\ mem'[Cell(curIl, e, p)] = curIl
                          /\ TheJob(curIl, e, p) \notin queued' \cup BeingRead'
        OBVIOUS
      <3>1. mem[Cell(curIl, e, p)] = curIl /\ TheJob(curIl, e, p) \notin queued \cup BeingRead
        BY DEF FlagInv
      <3>2. TheJob(curIl, e, p) # j
        BY <3>1
      <3>3. Cell(curIl, e, p) # CellOf(j)
        BY <3>2, <1>0, <1>b DEF Cell, CellOf, TheJob, Job
      <3>4. Cell(curIl, e, p) \in Cells
        BY DEF BatchInv, Cell, Cells
      <3>5. QED
        BY <3>1, <3>2, <3>3, <3>4, <1>a, <1>d
    <2>2. \A k \in Lanes : Live /\ ~fatal /\ lanePc'[k] = "flag" =>
            mem'[CellOf(laneJob'[k])] = curIl
      <3> SUFFICES ASSUME NEW k \in Lanes, Live, ~fatal, lanePc'[k] = "flag"
                   PROVE  mem'[CellOf(laneJob'[k])] = curIl
        OBVIOUS
      <3>1. k # l /\ lanePc[k] = "flag" /\ k \in InFlight
        BY DEF TypeOK, InFlight
      <3>2. laneJob'[k] = laneJob[k] /\ laneJob[k] \in Job /\ laneJob[k] # j
            /\ laneJob[k].layer = curIl
        BY <3>1, <1>0, <1>b DEF BatchInv, Held
      <3>3. CellOf(laneJob[k]) # CellOf(j) /\ CellOf(laneJob[k]) \in Cells
        BY <3>2, <1>0, <1>b DEF Cell, CellOf, Job, Cells
      <3>4. QED
        BY <3>1, <3>2, <3>3, <1>d DEF FlagInv
    <2>3. QED
      BY <2>1, <2>2 DEF FlagInv, Live, Cell, CellOf, TheJob
  <1>9. ThreadInv'
    BY DEF ThreadInv
  <1>10. QED
    BY <1>1, <1>2, <1>3, <1>4, <1>5, <1>6, <1>7, <1>8, <1>9

(* A read ends well: the slice holds its layer's data, if it has pages.    *)
LEMMA LaneReadOkInv ==
  ASSUME Inv, NEW l \in Lanes, LaneReadOk(l)
  PROVE  Inv'
  <1> DEFINE j == laneJob[l]
  <1> USE DEF LaneReadOk, LaneStep
  <1>0. /\ l \in InFlight /\ l \in Reading /\ j \in Job
        /\ InFlight' = InFlight /\ Reading' = Reading \ {l} /\ laneJob' = laneJob
        /\ evalPc # "closed"
    BY DEF TypeOK, BatchInv, InFlight, Reading
  <1>a. Held' = Held /\ j \in Held /\ j.layer = curIl /\ j \notin queued
    BY <1>0 DEF Held, BatchInv
  <1>b. BeingRead' = BeingRead \ {j}
    BY <1>0 DEF BeingRead, Reading, InFlight, BatchInv
  <1>c. CellOf(j) \in Cells /\ CellOf(j)' = CellOf(j) /\ j = TheJob(curIl, j.expert, j.proj)
    BY <1>0, <1>a DEF CellOf, Cell, Cells, Job, TheJob
  <1>d. \A c \in Cells : mem'[c] = IF c = CellOf(j) /\ mem[c] = "torn" THEN curIl ELSE mem[c]
    BY <1>c, <1>a DEF TypeOK
  <1>e. curIl \in Layers /\ curIl \notin {"none", "blank", "torn"}
    BY <1>0, <1>a, ConstantsAssumption DEF Job
  <1>f. \A c \in Cells : mem[c] # "none" => mem'[c] # "none"
    BY <1>d, <1>e
  <1>1. TypeOK'
    BY <1>0 DEF TypeOK, LanePcs, Job
  <1>2. CountInv'
    BY <1>0 DEF CountInv
  <1>3. BatchInv'
    BY <1>0, <1>a DEF BatchInv, Live
  <1>4. StageInv'
    BY DEF StageInv
  <1>5. StampInv'
    BY <1>a DEF StampInv, Live
  <1>6. ValidInv'
    <2> SUFFICES ASSUME mode.cached, ~fatal, NEW il \in Layers, NEW e \in Experts,
                        NEW p \in Projs, valid[<<il, e>>]
                 PROVE  mem'[<<il, e, p>>] = il \/ Owed(il, e, p)'
      BY DEF ValidInv
    <2>1. CASE TheJob(il, e, p) = j
      <3>1. CellOf(j) = <<il, e, p>> /\ j.layer = il /\ j.expert = e
        BY <2>1 DEF TheJob, CellOf, Cell
      <3>2. mem[CellOf(j)] = "torn"
        BY <3>1, <1>0 DEF PagesInv
      <3>3. QED
        BY <3>1, <3>2, <1>c, <1>d, <1>a
    <2>2. CASE TheJob(il, e, p) # j
      <3>1. <<il, e, p>> # CellOf(j)
        BY <2>2, <1>0 DEF CellOf, Cell, TheJob, Job
      <3>2. mem'[<<il, e, p>>] = mem[<<il, e, p>>]
        BY <3>1, <1>d DEF Cells
      <3>3. QED
        BY <3>2, <2>2, <1>b DEF ValidInv, Owed, TheJob
    <2>3. QED
      BY <2>1, <2>2
  <1>7. PagesInv'
    <2>1. \A k \in Reading' :
            ~mode.cached \/ valid[<<laneJob'[k].layer, laneJob'[k].expert>>] =>
              mem'[CellOf(laneJob'[k])] = "torn"
      <3> SUFFICES ASSUME NEW k \in Reading',
                          ~mode.cached \/ valid[<<laneJob'[k].layer, laneJob'[k].expert>>]
                   PROVE  mem'[CellOf(laneJob'[k])] = "torn"
        OBVIOUS
      <3>1. k \in Reading /\ k # l /\ laneJob'[k] = laneJob[k]
        BY <1>0
      <3>2. laneJob[k] \in Job /\ laneJob[k] # j /\ laneJob[k].layer = curIl
        BY <3>1, <1>0 DEF BatchInv, InFlight, Reading, Held
      <3>3. mem[CellOf(laneJob[k])] = "torn" /\ CellOf(laneJob[k]) \in Cells
        BY <3>1, <3>2 DEF PagesInv, CellOf, Cell, Cells, Job
      <3>4. CellOf(laneJob[k]) # CellOf(j)
        BY <3>2, <1>a, <1>0 DEF CellOf, Cell, Job
      <3>5. QED
        BY <3>1, <3>3, <3>4, <1>d
    <2>3. queued \subseteq Job
      BY DEF TypeOK
    <2>4. (mode.cached /\ evalPc # "closed" => \A i \in queued :
             valid[<<i.layer, i.expert>>] => mem[CellOf(i)] # "none")'
      BY <1>f, <2>3 DEF PagesInv, CellOf, Cell, Cells, Job
    <2>5. missing \subseteq Experts /\ (evalPc \in {"touch", "commit"} => curIl \in Layers)
      BY DEF TypeOK, BatchInv, Live
    <2>6. QED
      BY <2>1, <1>f, <2>4, <2>5 DEF PagesInv, TwoWave, CellOf, Cell, Cells
  <1>8. FlagInv'
    <2>1. \A e \in Experts, p \in Projs :
            (Live \/ evalPc = "touch") /\ ~fatal /\ ready[<<p, e>>] = asyncGen =>
              /\ mem'[Cell(curIl, e, p)] = curIl
              /\ TheJob(curIl, e, p) \notin queued' \cup BeingRead'
      BY <1>b, <1>d, <1>e DEF FlagInv, Cell, Cells
    <2>2. \A k \in Lanes : Live /\ ~fatal /\ lanePc'[k] = "flag" =>
            mem'[CellOf(laneJob'[k])] = curIl
      <3> SUFFICES ASSUME NEW k \in Lanes, Live, ~fatal, lanePc'[k] = "flag"
                   PROVE  mem'[CellOf(laneJob'[k])] = curIl
        OBVIOUS
      <3>1. CASE k = l
        <4>1. mem[CellOf(j)] = "torn"
          <5>1. mode.cached => valid[<<j.layer, j.expert>>]
            BY <1>a DEF StampInv
          <5>2. QED
            BY <5>1, <1>0 DEF PagesInv
        <4>2. QED
          BY <3>1, <4>1, <1>c, <1>d, <1>0
      <3>2. CASE k # l
        <4>1. lanePc[k] = "flag" /\ k \in InFlight
          BY <3>2 DEF TypeOK, InFlight
        <4>2. laneJob[k] \in Job
          BY <4>1 DEF BatchInv
        <4>3. CellOf(laneJob[k]) \in Cells /\ mem[CellOf(laneJob[k])] = curIl
          BY <4>1, <4>2 DEF FlagInv, CellOf, Cell, Cells, Job
        <4>4. QED
          BY <4>3, <1>d, <1>0
      <3>3. QED
        BY <3>1, <3>2
    <2>3. QED
      BY <2>1, <2>2 DEF FlagInv, Live, Cell, CellOf, TheJob
  <1>9. ThreadInv'
    BY DEF ThreadInv
  <1>10. QED
    BY <1>1, <1>2, <1>3, <1>4, <1>5, <1>6, <1>7, <1>8, <1>9

(* A read fails: the run is fatal, so nothing is promised of the slices.   *)
LEMMA LaneReadFailInv ==
  ASSUME Inv, NEW l \in Lanes, LaneReadFail(l)
  PROVE  Inv'
  <1> USE DEF LaneReadFail, LaneStep, ReadFailure
  <1>0. /\ InFlight' = InFlight /\ Reading' = Reading \ {l} /\ laneJob' = laneJob
        /\ fatal' = TRUE /\ Held' = Held
    BY DEF TypeOK, InFlight, Reading, Held
  <1>1. TypeOK'
    BY DEF TypeOK, LanePcs
  <1>2. CountInv'
    BY <1>0 DEF CountInv
  <1>3. BatchInv'
    BY <1>0 DEF BatchInv, Live, TypeOK, InFlight
  <1>4. StageInv'
    BY DEF StageInv
  <1>5. StampInv'
    BY <1>0 DEF StampInv, Live
  <1>6. ValidInv'
    BY <1>0 DEF ValidInv
  <1>7. PagesInv'
    BY <1>0 DEF PagesInv, TwoWave, CellOf, Cell
  <1>8. FlagInv'
    BY <1>0 DEF FlagInv
  <1>9. ThreadInv'
    BY <1>0 DEF ThreadInv
  <1>10. QED
    BY <1>1, <1>2, <1>3, <1>4, <1>5, <1>6, <1>7, <1>8, <1>9

(* The flag is published after the data, with the generation of the batch. *)
LEMMA LaneFlagInv ==
  ASSUME Inv, NEW l \in Lanes, LaneFlag(l)
  PROVE  Inv'
  <1> DEFINE j == laneJob[l]
  <1> USE DEF LaneFlag, LaneStep, InFlight, Reading, Held, BeingRead
  <1>0. /\ l \in InFlight /\ j \in Job /\ batchFlagGen = asyncGen /\ j.layer = curIl
        /\ InFlight' = InFlight /\ Held' = Held /\ BeingRead' = BeingRead /\ Reading' = Reading
    BY DEF TypeOK, BatchInv
  <1>a. \A p \in Projs, e \in Experts :
          ready'[<<p, e>>] = IF p = j.proj /\ e = j.expert THEN asyncGen ELSE ready[<<p, e>>]
    BY <1>0 DEF TypeOK, Slices, Job
  <1>b. j \in Held /\ j \notin queued /\ j \notin BeingRead
    BY <1>0 DEF BatchInv
  <1>c. Live /\ ~fatal => mem[CellOf(j)] = curIl
    BY DEF FlagInv
  <1>d. j = TheJob(curIl, j.expert, j.proj) /\ CellOf(j) = Cell(curIl, j.expert, j.proj)
    BY <1>0 DEF TheJob, CellOf, Job
  <1>e. asyncGen \in Nat /\ staged \subseteq Experts /\ missing \subseteq Experts
    BY DEF TypeOK
  <1>f. evalPc # "touch" /\ (evalPc = "commit" => j.proj = P0)
    BY <1>0, <1>b DEF BatchInv
  <1>1. TypeOK'
    BY <1>0 DEF TypeOK, LanePcs, Slices, Job
  <1>2. CountInv'
    BY <1>0 DEF CountInv
  <1>3. BatchInv'
    BY <1>0 DEF BatchInv, Live
  <1>4. StageInv'
    BY <1>0, <1>a, <1>e, <1>f DEF StageInv
  <1>5. StampInv'
    BY <1>0, <1>a, <1>b DEF StampInv, BatchInv, Live
  <1>6. ValidInv'
    BY <1>0 DEF ValidInv, Owed, TheJob
  <1>7. PagesInv'
    BY <1>0 DEF PagesInv, TwoWave, CellOf, Cell
  <1>8. FlagInv'
    BY <1>0, <1>a, <1>b, <1>c, <1>d DEF FlagInv, BatchInv, Live, CellOf, Cell
  <1>9. ThreadInv'
    BY <1>0 DEF ThreadInv, TypeOK, Slices, Job
  <1>10. QED
    BY <1>1, <1>2, <1>3, <1>4, <1>5, <1>6, <1>7, <1>8, <1>9

(* A notify_all wakes sleepers, whether or not their slice is ready.        *)
LEMMA LaneNotifyInv ==
  ASSUME Inv, NEW l \in Lanes, LaneNotify(l)
  PROVE  Inv'
  <1> USE DEF LaneNotify, LaneStep
  <1>0. /\ InFlight' = InFlight /\ Reading' = Reading /\ laneJob' = laneJob
        /\ Held' = Held /\ BeingRead' = BeingRead
    BY DEF TypeOK, InFlight, Reading, Held, BeingRead
  <1>t. /\ tpc' \in [Threads -> ThreadPcs]
        /\ \A t \in Threads : tpc'[t] # tpc[t] => tpc[t] = "asleep" /\ tpc'[t] = "lock"
    BY WakeType DEF TypeOK
  <1>1. TypeOK'
    BY <1>t DEF TypeOK, LanePcs
  <1>2. CountInv'
    BY <1>0 DEF CountInv
  <1>3. BatchInv'
    BY <1>0 DEF BatchInv, Live, TypeOK, InFlight
  <1>4. StageInv'
    BY DEF StageInv
  <1>5. StampInv'
    BY <1>0 DEF StampInv, Live
  <1>6. ValidInv'
    BY <1>0 DEF ValidInv, Owed, TheJob
  <1>7. PagesInv'
    BY <1>0 DEF PagesInv, TwoWave, CellOf, Cell
  <1>8. FlagInv'
    BY <1>0 DEF FlagInv, TypeOK, Live, CellOf, Cell, TheJob
  <1>9. ThreadInv'
    BY <1>t DEF ThreadInv
  <1>10. QED
    BY <1>1, <1>2, <1>3, <1>4, <1>5, <1>6, <1>7, <1>8, <1>9

(* A lane counts its job as done and holds nothing any more.               *)
LEMMA LaneCountInv ==
  ASSUME Inv, NEW l \in Lanes, LaneCount(l)
  PROVE  Inv'
  <1> USE DEF LaneCount, LaneStep
  <1>0. /\ l \in InFlight /\ InFlight' = InFlight \ {l} /\ Reading' = Reading
        /\ \A k \in Lanes \ {l} : laneJob'[k] = laneJob[k]
        /\ l \notin Reading
    BY DEF TypeOK, InFlight, Reading
  <1>a. Held' \subseteq Held /\ BeingRead' = BeingRead
    BY <1>0 DEF Held, BeingRead, InFlight, Reading
  <1>b. IsFiniteSet(InFlight) /\ Cardinality(InFlight') = Cardinality(InFlight) - 1
    <2>1. InFlight \in SUBSET Lanes /\ IsFiniteSet(Lanes)
      BY ConstantsAssumption DEF InFlight
    <2>2. QED
      BY <2>1, <1>0, FS_Subset, FS_RemoveElement
  <1>c. Cardinality(InFlight) \in Nat /\ Cardinality(InFlight') \in Nat /\ Cardinality(queued) \in Nat
    BY <1>0, <1>b, FS_RemoveElement, FS_CardinalityType DEF CountInv
  <1>2. CountInv'
    BY <1>b, <1>c DEF CountInv, TypeOK
  <1>1. TypeOK'
    <2>1. doneCnt' \in 0..batchNjobs'
      BY SMTT(30), <1>2, <1>c DEF CountInv, TypeOK
    <2>2. QED
      BY <2>1 DEF TypeOK, LanePcs
  <1>3. BatchInv'
    BY <1>0, <1>a DEF BatchInv, Live, TypeOK, InFlight
  <1>4. StageInv'
    BY DEF StageInv
  <1>5. StampInv'
    BY <1>a DEF StampInv, Live
  <1>6. ValidInv'
    BY <1>a DEF ValidInv, Owed, TheJob
  <1>7. PagesInv'
    <2>1. \A k \in Reading' : k \in Reading /\ laneJob'[k] = laneJob[k]
      BY <1>0 DEF Reading
    <2>2. QED
      BY <2>1 DEF PagesInv, TwoWave, CellOf, Cell
  <1>8. FlagInv'
    <2>1. \A k \in Lanes : lanePc'[k] = "flag" => lanePc[k] = "flag" /\ laneJob'[k] = laneJob[k]
      BY <1>0 DEF TypeOK
    <2>2. QED
      BY <2>1, <1>a DEF FlagInv, Live, CellOf, Cell, TheJob
  <1>9. ThreadInv'
    BY DEF ThreadInv
  <1>10. QED
    BY <1>1, <1>2, <1>3, <1>4, <1>5, <1>6, <1>7, <1>8, <1>9

(* Steps of the compute threads leave everything but ThreadInv and FlagInv *)
(* alone; a thread that finds the wrong layer staged makes the run fatal.  *)
LEMMA ThreadFrame ==
  ASSUME Inv, UNCHANGED threadUnchanged, fatal => fatal'
  PROVE  /\ CountInv' /\ BatchInv' /\ StageInv' /\ StampInv'
         /\ ValidInv' /\ PagesInv' /\ FlagInv'
  <1> USE DEF threadUnchanged
  <1>0. /\ InFlight' = InFlight /\ Reading' = Reading /\ laneJob' = laneJob
        /\ Held' = Held /\ BeingRead' = BeingRead
    BY DEF InFlight, Reading, Held, BeingRead
  <1>2. CountInv'
    BY <1>0 DEF CountInv
  <1>3. BatchInv'
    BY <1>0 DEF BatchInv, Live
  <1>4. StageInv'
    BY DEF StageInv
  <1>5. StampInv'
    BY <1>0 DEF StampInv, Live
  <1>6. ValidInv'
    BY <1>0 DEF ValidInv, Owed, TheJob
  <1>7. PagesInv'
    BY <1>0 DEF PagesInv, TwoWave, CellOf, Cell
  <1>8. FlagInv'
    BY <1>0 DEF FlagInv, Live, CellOf, Cell, TheJob
  <1>10. QED
    BY <1>2, <1>3, <1>4, <1>5, <1>6, <1>7, <1>8

LEMMA EnterReadyInv ==
  ASSUME Inv, NEW t \in Threads, NEW s \in Slices, EnterReady(t, s)
  PROVE  Inv'
  <1> USE DEF EnterReady, threadUnchanged
  <1>0. /\ t \in Threads /\ at' = [at EXCEPT ![t] = s] /\ at'[t] = s
        /\ \A u \in Threads \ {t} : at'[u] = at[u]
        /\ tpc[t] = "run" /\ evalPc = "compute"
    BY DEF TypeOK, ThreadInv
  <1>w. /\ Wake(Threads) \in [Threads -> ThreadPcs]
        /\ \A u \in Threads : Wake(Threads)[u] # tpc[u] => tpc[u] = "asleep" /\ Wake(Threads)[u] = "lock"
    BY WakeType
  <1>f. fatal => fatal'
    BY DEF TypeOK
  <1>t. tpc' \in [Threads -> ThreadPcs]
    BY <1>w DEF TypeOK, ThreadPcs
  <1>1. TypeOK'
    BY <1>t DEF TypeOK, Slices
  <1>9. ThreadInv'
    <2>1. CASE graphIl # curIl
      <3>1. fatal' /\ tpc'[t] = "use"
        BY <2>1, <1>w
      <3>2. \A u \in Threads \ {t} : tpc'[u] # tpc[u] => tpc[u] = "asleep" /\ tpc'[u] = "lock"
        BY <2>1, <1>w
      <3>3. QED
        BY <3>1, <3>2, <1>0 DEF ThreadInv
    <2>2. CASE graphIl = curIl
      <3>1. /\ tpc'[t] \in {"use", "spin"} /\ (tpc'[t] = "use" => ready[s] = asyncGen)
            /\ \A u \in Threads \ {t} : tpc'[u] = tpc[u]
        BY <2>2 DEF TypeOK, SliceReady
      <3>2. fatal' = fatal
        BY <2>2
      <3>3. QED
        BY <2>2, <3>1, <3>2, <1>0 DEF ThreadInv
    <2>3. QED
      BY <2>1, <2>2
  <1>10. QED
    BY <1>1, <1>9, <1>f, ThreadFrame

(* The steps of the wait, from the spin to the use of the slice.           *)
LEMMA ThreadWaitInv ==
  ASSUME Inv, NEW t \in Threads,
         \/ SpinHit(t) \/ Register(t) \/ LastLook(t) \/ LockedLook(t)
         \/ Deregister(t) \/ Use(t)
  PROVE  Inv'
  <1> USE DEF SpinHit, Register, LastLook, LockedLook, Deregister, Use,
              ThreadStep, threadUnchanged, SliceReady, WaitOver
  <1>f. fatal' = fatal
    OBVIOUS
  <1>p. <<P0, 0>> \in Projs \X (Experts \cup {0})
    BY ConstantsAssumption
  <1>1. TypeOK'
    <2>1. tpc' \in [Threads -> ThreadPcs]
      BY ZenonT(40) DEF TypeOK, ThreadPcs
    <2>2. at' \in [Threads -> Projs \X (Experts \cup {0})] /\ todo' = todo
      <3>1. at' = at \/ at' = [at EXCEPT ![t] = <<P0, 0>>]
        OBVIOUS
      <3>2. at \in [Threads -> Projs \X (Experts \cup {0})]
        BY DEF TypeOK
      <3>3. QED
        BY <3>1, <3>2, <1>p
    <2>3. readyWaiters' \in Int
      BY DEF TypeOK
    <2>4. QED
      BY <2>1, <2>2, <2>3, <1>f DEF TypeOK
  <1>9. ThreadInv'
    <2>1. /\ \A u \in Threads \ {t} : tpc'[u] = tpc[u] /\ at'[u] = at[u]
          /\ tpc'[t] # "idle" /\ tpc[t] \notin {"idle", "run"} /\ evalPc = "compute"
      BY DEF TypeOK, ThreadInv
    <2>2. CASE Use(t)
      <3>1. tpc'[t] = "run"
        BY <2>2 DEF TypeOK
      <3>2. QED
        BY <2>1, <3>1 DEF ThreadInv
    <2>3. CASE ~Use(t)
      <3>1. at' = at /\ tpc[t] \in {"spin", "look", "lock", "leave"}
        BY <2>3
      <3>2. tpc'[t] \in {"leave", "use"} /\ ~fatal => ready[at[t]] = asyncGen
        BY <2>3 DEF TypeOK, ThreadInv
      <3>3. QED
        BY <2>1, <3>1, <3>2 DEF ThreadInv
    <2>4. QED
      BY <2>2, <2>3
  <1>10. QED
    BY <1>1, <1>9, <1>f, ThreadFrame

(* A call with no ids makes the run fatal; any other waits for the drain.  *)
LEMMA BeginLoadInv ==
  ASSUME Inv, NEW il \in Layers, NEW ids \in IdLists, BeginLoad(il, ids)
  PROVE  Inv'
  <1> USE DEF BeginLoad
  <1>0. /\ InFlight' = InFlight /\ Reading' = Reading /\ laneJob' = laneJob
        /\ Held' = Held /\ BeingRead' = BeingRead
        /\ evalPc = "idle" /\ evalPc' \in {"idle", "drain"}
        /\ (evalPc' = "drain" => reqLayer' \in Layers)
        /\ (fatal => fatal')
    BY DEF InFlight, Reading, Held, BeingRead, TypeOK
  <1>1. TypeOK'
    <2>1. ids \in Seq(Experts)
      BY DEF IdLists
    <2>2. /\ evalPc' \in EvalPcs /\ loads' \in Nat /\ fatal' \in BOOLEAN
          /\ reqLayer' \in Layers \cup {NoLayer} /\ reqIds' \in Seq(Experts)
          /\ UNCHANGED <<routed, staged, missing, waveTwo>>
      <3>1. CASE ids = << >>
        BY <3>1 DEF TypeOK, EvalPcs
      <3>2. CASE ids # << >>
        BY <3>2, <2>1 DEF TypeOK, EvalPcs
      <3>3. QED
        BY <3>1, <3>2
    <2>3. QED
      BY <2>2 DEF TypeOK
  <1>2. CountInv'
    BY <1>0 DEF CountInv
  <1>3. BatchInv'
    BY <1>0 DEF BatchInv, Live
  <1>4. StageInv'
    BY <1>0 DEF StageInv
  <1>5. StampInv'
    BY <1>0 DEF StampInv, Live
  <1>6. ValidInv'
    BY <1>0 DEF ValidInv, Owed, TheJob
  <1>7. PagesInv'
    BY <1>0 DEF PagesInv, TwoWave, CellOf, Cell
  <1>8. FlagInv'
    BY <1>0 DEF FlagInv, Live
  <1>9. ThreadInv'
    BY <1>0 DEF ThreadInv
  <1>10. QED
    BY <1>1, <1>2, <1>3, <1>4, <1>5, <1>6, <1>7, <1>8, <1>9

(* With every job of the old batch done, a new generation owes nothing and *)
(* no flag carries it.                                                     *)
LEMMA DrainBatchInv ==
  ASSUME Inv, DrainBatch
  PROVE  Inv'
  <1> USE DEF DrainBatch, BatchDrained
  <1>a. InFlight = {} /\ queued = {}
    BY DrainedMeansIdle
  <1>0. /\ InFlight' = InFlight /\ Reading' = Reading /\ laneJob' = laneJob
        /\ Held' = Held /\ BeingRead' = BeingRead
        /\ evalPc = "drain" /\ evalPc' \in {"idle", "touch"} /\ reqLayer \in Layers
    BY DEF InFlight, Reading, Held, BeingRead, BatchInv
  <1>b. Held = {} /\ Reading = {} /\ \A t \in Threads : tpc[t] = "idle"
    BY <1>a, <1>0 DEF Held, Reading, InFlight, ThreadInv
  <1>m. LruMembers(reqIds) \subseteq Experts
    BY DEF TypeOK, LruMembers
  <1>1. TypeOK'
    BY <1>m DEF TypeOK, EvalPcs
  <1>2. CountInv'
    BY <1>0 DEF CountInv
  <1>c. /\ evalPc' = "touch" => /\ asyncGen' = asyncGen + 1 /\ missing' = {} /\ cgen' = cgen + 1
                                /\ curIl' = reqLayer /\ staged' \subseteq Experts
        /\ evalPc' = "idle" => fatal /\ UNCHANGED <<asyncGen, curIl, missing, staged, cgen>>
    BY <1>m
  <1>d. asyncGen \in Nat /\ \A p \in Projs, e \in Experts : ready[<<p, e>>] \in Nat
    BY DEF TypeOK, Slices
  <1>3. BatchInv'
    BY <1>0, <1>a, <1>b, <1>c DEF BatchInv, Live
  <1>4. StageInv'
    BY <1>0, <1>c, <1>d DEF StageInv
  <1>e. evalPc' = "touch" => \A p \in Projs, e \in Experts : ready[<<p, e>>] # asyncGen'
    <2>1. \A p \in Projs, e \in Experts : ready[<<p, e>>] <= asyncGen
      BY DEF StageInv
    <2>2. \A n \in Nat, m \in Nat : n <= m => n # m + 1
      OBVIOUS
    <2>3. \A p \in Projs, e \in Experts : ready[<<p, e>>] # asyncGen + 1
      BY <2>1, <2>2, <1>d
    <2>4. QED
      BY <2>3, <1>c
  <1>5. StampInv'
    BY <1>0, <1>a, <1>b, <1>c, <1>e DEF StampInv, Live
  <1>6. ValidInv'
    BY <1>0, <1>a, <1>b DEF ValidInv, Owed, TheJob, BeingRead
  <1>7. PagesInv'
    BY <1>0, <1>a, <1>b, <1>c DEF PagesInv, TwoWave, CellOf, Cell
  <1>8. FlagInv'
    BY <1>0, <1>c, <1>e DEF FlagInv, Live
  <1>9. ThreadInv'
    BY <1>0, <1>b DEF ThreadInv
  <1>10. QED
    BY <1>1, <1>2, <1>3, <1>4, <1>5, <1>6, <1>7, <1>8, <1>9

(* Staging one expert: a hit is flagged ready, a miss gets its pages and   *)
(* is owed its slices, a failed commit ends the run.                       *)
LEMMA TouchEntryInv ==
  ASSUME Inv, NEW e \in Experts, TouchEntry(e)
  PROVE  Inv'
  <1> DEFINE id == <<reqLayer, e>>
  <1> USE DEF TouchEntry
  <1>0. /\ evalPc = "touch" /\ mode.cached /\ queued = {} /\ InFlight = {}
        /\ curIl = reqLayer /\ curIl \in Layers /\ e \in staged /\ id \in Entries
        /\ staged' = staged \ {e} /\ stamp' = [stamp EXCEPT ![id] = cgen]
        /\ UNCHANGED <<mode, reqLayer, reqIds, routed, waveTwo, boundVars, cacheMax,
                       cgen, batchVars, asyncGen, curIl, readyWaiters, laneVars, graphVars>>
    BY DEF BatchInv, Live, Entries
  <1>a. /\ InFlight' = InFlight /\ Reading' = Reading /\ Held' = {} /\ Held = {}
        /\ BeingRead' = {} /\ BeingRead = {} /\ Reading = {}
    BY <1>0 DEF InFlight, Reading, Held, BeingRead
  <1>b. /\ asyncGen \in Nat /\ cgen \in Nat /\ staged \subseteq Experts /\ missing \subseteq Experts
        /\ e \notin missing
        /\ \A p \in Projs, f \in staged \cup missing : ready[<<p, f>>] < asyncGen
        /\ \A p \in Projs, f \in Experts : ready[<<p, f>>] <= asyncGen
    BY <1>0 DEF TypeOK, StageInv
  <1>s. \A il \in Layers, f \in Experts :
          stamp'[<<il, f>>] = IF il = curIl /\ f = e THEN cgen ELSE stamp[<<il, f>>]
    BY <1>0 DEF TypeOK, Entries
  <1>y. /\ mode' \in Modes /\ reqLayer' \in Layers \cup {NoLayer} /\ reqIds' \in Seq(Experts)
        /\ routed' \subseteq Experts /\ staged' \subseteq Experts /\ waveTwo' \subseteq Slices
        /\ loads' \in Nat /\ resizes' \in Nat /\ stamp' \in [Entries -> Nat]
        /\ cacheMax' \in Budgets /\ cgen' \in Nat /\ queued' \subseteq Job
        /\ batchNjobs' \in Nat /\ doneCnt' \in 0..batchNjobs'
        /\ batchGen' \in Nat /\ batchFlagGen' \in Nat /\ ioStop' \in BOOLEAN
        /\ asyncGen' \in Nat /\ curIl' \in Layers \cup {NoLayer} /\ readyWaiters' \in Int
        /\ lanePc' \in [Lanes -> LanePcs] /\ laneSeen' \in [Lanes -> Nat]
        /\ laneJob' \in [Lanes -> Job \cup {NoJob}]
        /\ graphIl' \in Layers \cup {NoLayer} /\ tpc' \in [Threads -> ThreadPcs]
        /\ todo' \in [Threads -> SUBSET Slices] /\ at' \in [Threads -> Projs \X (Experts \cup {0})]
    BY <1>0 DEF TypeOK
  <1>z. /\ valid \in [Entries -> BOOLEAN] /\ ready \in [Slices -> Nat] /\ fatal \in BOOLEAN
        /\ mem \in [Cells -> Layers \cup {"none", "blank", "torn"}]
        /\ lru \in Seq(Entries) /\ resident \in Int /\ evalPc \in EvalPcs
    BY DEF TypeOK
  <1>2. CountInv'
    BY <1>0, <1>a DEF CountInv
  <1>9. ThreadInv'
    <2>1. \A t \in Threads : tpc[t] = "idle"
      BY <1>0 DEF ThreadInv
    <2>2. evalPc' # "compute"
      BY <1>0
    <2>3. QED
      BY <2>1, <2>2, <1>0 DEF ThreadInv
  <1>5. CASE valid[id] /\ evalPc' = evalPc /\ fatal' = fatal /\ missing' = missing /\ mem' = mem
             /\ valid' = valid /\ lru' = lru /\ resident' = resident
             /\ ready' = [s \in Slices |-> IF s[2] = e THEN asyncGen ELSE ready[s]]
    <2>r. \A p \in Projs, f \in Experts :
            ready'[<<p, f>>] = IF f = e THEN asyncGen ELSE ready[<<p, f>>]
      BY <1>5 DEF Slices
    <2>0. ready' \in [Slices -> Nat]
      BY <1>5, <1>b, <1>z
    <2>1. TypeOK'
      BY <1>5, <1>y, <1>z, <1>b, <2>0 DEF TypeOK
    <2>3. BatchInv'
      BY <1>5, <1>0, <1>a DEF BatchInv, Live
    <2>4. StageInv'
      BY <1>5, <1>0, <1>b, <2>r DEF StageInv
    <2>5. StampInv'
      BY <1>5, <1>0, <1>a, <1>b, <1>s, <2>r DEF StampInv, Live
    <2>6. ValidInv'
      BY <1>5, <1>0, <1>a DEF ValidInv, Owed, TheJob
    <2>7. PagesInv'
      BY <1>5, <1>0, <1>a DEF PagesInv, TwoWave
    <2>8. FlagInv'
      <3>1. ~fatal => \A p \in Projs : mem[<<curIl, e, p>>] = curIl
        BY <1>5, <1>0, <1>a, <1>b DEF ValidInv, Owed
      <3>2. QED
        BY <3>1, <1>5, <1>0, <1>a, <2>r DEF FlagInv, Live, Cell
    <2>10. QED
      BY <2>1, <1>2, <2>3, <2>4, <2>5, <2>6, <2>7, <2>8, <1>9
  <1>6. CASE /\ evalPc' = evalPc /\ fatal' = fatal /\ ready' = ready
             /\ valid' = [valid EXCEPT ![id] = TRUE]
             /\ resident' = resident + EntryBytes[reqLayer]
             /\ lru' = LruPushFront(lru, id)
             /\ missing' = missing \cup {e}
             /\ mem' = Commit(mem, {Cell(reqLayer, e, p) : p \in IF TwoWave THEN {P0} ELSE Projs})
    <2> DEFINE now == IF TwoWave THEN {P0} ELSE Projs
    <2>c. now \subseteq Projs
      BY ConstantsAssumption
    <2>m. \A il \in Layers, f \in Experts, p \in Projs :
            mem'[<<il, f, p>>] = IF il = curIl /\ f = e /\ p \in now /\ mem[<<il, f, p>>] = "none"
                                 THEN "blank" ELSE mem[<<il, f, p>>]
      BY <1>6, <1>0, <2>c DEF Commit, Cell, Cells
    <2>v. \A il \in Layers, f \in Experts :
            (il # curIl \/ f # e) => valid'[<<il, f>>] = valid[<<il, f>>]
      BY <1>6, <1>0, <1>z DEF Entries
    <2>w. valid'[<<curIl, e>>] /\ valid' \in [Entries -> BOOLEAN]
      BY <1>6, <1>0, <1>z
    <2>1. TypeOK'
      <3>1. lru' \in Seq(Entries)
        BY <1>6, <1>0, <1>z, ConcatProperties DEF LruPushFront
      <3>2. resident' \in Int
        BY <1>6, <1>0, <1>z, ConstantsAssumption
      <3>3. mem' \in [Cells -> Layers \cup {"none", "blank", "torn"}]
        BY <1>6, <1>z DEF Commit
      <3>4. QED
        BY <1>6, <1>y, <1>z, <1>b, <2>w, <3>1, <3>2, <3>3 DEF TypeOK
    <2>3. BatchInv'
      BY <1>6, <1>0, <1>a DEF BatchInv, Live
    <2>4. StageInv'
      BY <1>6, <1>0, <1>b DEF StageInv
    <2>5. StampInv'
      <3>1. \A f \in missing' : valid'[<<curIl, f>>] /\ stamp'[<<curIl, f>>] = cgen
        BY <1>6, <1>0, <1>b, <1>s, <2>v, <2>w DEF StampInv
      <3>2. \A p \in Projs, f \in Experts : ready[<<p, f>>] = asyncGen => stamp'[<<curIl, f>>] = cgen
        BY <1>0, <1>s DEF StampInv
      <3>3. QED
        BY <3>1, <3>2, <1>6, <1>0, <1>a DEF StampInv, Live
    <2>6. ValidInv'
      <3> SUFFICES ASSUME mode.cached, ~fatal, NEW il \in Layers, NEW f \in Experts,
                          NEW p \in Projs, valid'[<<il, f>>]
                   PROVE  mem'[<<il, f, p>>] = il \/ Owed(il, f, p)'
        BY <1>6, <1>0 DEF ValidInv
      <3>1. CASE il = curIl /\ f = e
        BY <3>1, <1>6, <1>0 DEF Owed
      <3>2. CASE il # curIl \/ f # e
        <4>1. mem'[<<il, f, p>>] = mem[<<il, f, p>>] /\ valid[<<il, f>>]
          BY <3>2, <2>m, <2>v
        <4>2. Owed(il, f, p) => Owed(il, f, p)'
          BY <1>6, <1>0, <1>a DEF Owed, TheJob
        <4>3. QED
          BY <4>1, <4>2 DEF ValidInv
      <3>3. QED
        BY <3>1, <3>2
    <2>7. PagesInv'
      <3>1. \A f \in missing', p \in Projs : (TwoWave => p = P0) => mem'[<<curIl, f, p>>] # "none"
        BY <2>m, <1>6, <1>0, <1>b DEF PagesInv
      <3>2. TwoWave' = TwoWave
        BY <1>0 DEF TwoWave
      <3>3. QED
        BY <3>1, <3>2, <1>6, <1>0, <1>a DEF PagesInv
    <2>8. FlagInv'
      <3>1. curIl # "none"
        BY <1>0, ConstantsAssumption
      <3>2. QED
        BY <3>1, <2>m, <1>6, <1>0, <1>a DEF FlagInv, Live, Cell
    <2>10. QED
      BY <2>1, <1>2, <2>3, <2>4, <2>5, <2>6, <2>7, <2>8, <1>9
  <1>7. CASE /\ fatal' = TRUE /\ evalPc' = "idle"
             /\ UNCHANGED <<missing, valid, lru, resident, ready, mem>>
    <2>1. TypeOK'
      BY <1>7, <1>y, <1>z, <1>b DEF TypeOK, EvalPcs
    <2>3. BatchInv'
      BY <1>7, <1>0, <1>a DEF BatchInv, Live
    <2>4. StageInv'
      BY <1>7, <1>0, <1>b DEF StageInv
    <2>5. StampInv'
      BY <1>7 DEF StampInv, Live
    <2>6. ValidInv'
      BY <1>7 DEF ValidInv
    <2>7. PagesInv'
      BY <1>7, <1>0, <1>a DEF PagesInv
    <2>8. FlagInv'
      BY <1>7 DEF FlagInv
    <2>10. QED
      BY <2>1, <1>2, <2>3, <2>4, <2>5, <2>6, <2>7, <2>8, <1>9
  <1>10. QED
    BY <1>5, <1>6, <1>7

(* The first jobs of a layer are published: all of it, or the projection   *)
(* consumed first.                                                         *)
LEMMA PublishInv ==
  ASSUME Inv, Publish
  PROVE  Inv'
  <1> DEFINE toRead == IF mode.cached THEN missing ELSE staged
             P == IF mode.cached /\ TwoWave THEN {P0} ELSE Projs
  <1> USE DEF Publish
  <1>0. /\ evalPc = "touch" /\ queued = {} /\ InFlight = {}
        /\ curIl = reqLayer /\ curIl \in Layers /\ reqLayer \in Layers
        /\ (mode.cached => staged = {}) /\ staged' = {}
        /\ queued' = JobsOf(curIl, toRead, P) /\ batchNjobs' = Cardinality(queued')
        /\ doneCnt' = 0 /\ batchFlagGen' = asyncGen /\ batchGen' = batchGen + 1
        /\ UNCHANGED <<mode, reqLayer, reqIds, routed, missing, boundVars, valid, stamp, lru,
                       resident, cacheMax, cgen, ioStop, asyncGen, curIl, ready, fatal,
                       readyWaiters, mem, laneVars, graphVars>>
    BY DEF BatchInv, Live
  <1>w. \/ /\ mode.cached /\ TwoWave /\ evalPc' = "commit"
           /\ waveTwo' = (Projs \ {P0}) \X missing
        \/ /\ ~(mode.cached /\ TwoWave) /\ evalPc' = "promote" /\ waveTwo' = waveTwo
    OBVIOUS
  <1>b. /\ toRead \subseteq Experts /\ P \subseteq Projs /\ P0 \in Projs
        /\ missing \subseteq Experts /\ staged \subseteq Experts
    BY ConstantsAssumption DEF TypeOK
  <1>c. /\ mode.cached => toRead = missing
        /\ toRead \subseteq staged \cup missing
        /\ mode.cached /\ TwoWave => P = {P0}
        /\ ~(mode.cached /\ TwoWave) => P = Projs
    OBVIOUS
  <1> HIDE DEF toRead, P, Publish
  <1>a. /\ InFlight' = {} /\ Reading' = {} /\ Reading = {} /\ Held' = {} /\ Held = {}
        /\ BeingRead' = {} /\ BeingRead = {}
    BY <1>0 DEF InFlight, Reading, Held, BeingRead
  <1>j. /\ queued' \subseteq Job /\ IsFiniteSet(queued') /\ Cardinality(queued') \in Nat
        /\ \A i \in Layers, e \in Experts, p \in Projs :
             TheJob(i, e, p) \in queued' <=> i = curIl /\ e \in toRead /\ p \in P
        /\ \A j \in queued' : j.layer = curIl /\ j.expert \in toRead /\ j.proj \in P
    <2>1. curIl \in Layers /\ toRead \in SUBSET Experts /\ P \in SUBSET Projs
      BY <1>0, <1>b
    <2>2. queued' = JobsOf(curIl, toRead, P)
      BY <1>0
    <2>3. QED
      BY ONLY <2>1, <2>2, JobsFinite
  <1>r. /\ asyncGen \in Nat
        /\ \A p \in Projs, e \in staged \cup missing : ready[<<p, e>>] < asyncGen
        /\ \A p \in Projs, e \in Experts : ready[<<p, e>>] <= asyncGen
        /\ \A p \in Projs, e \in Experts : ready[<<p, e>>] \in Nat
    BY <1>0 DEF TypeOK, StageInv, Slices
  <1>1. TypeOK'
    <2>1. /\ evalPc' \in EvalPcs /\ waveTwo' \subseteq Slices
          /\ batchNjobs' \in Nat /\ doneCnt' \in 0..batchNjobs'
      BY <1>0, <1>w, <1>b, <1>j DEF TypeOK, EvalPcs, Slices
    <2>2. batchGen' \in Nat /\ batchFlagGen' \in Nat
      BY <1>0 DEF TypeOK
    <2>3. QED
      BY <1>0, <1>j, <2>1, <2>2 DEF TypeOK
  <1>2. CountInv'
    <2>1. Cardinality(InFlight') = 0
      BY <1>a, FS_EmptySet
    <2>2. QED
      BY <2>1, <1>0, <1>j DEF CountInv
  <1>3. BatchInv'
    <2>1. evalPc' = "commit" => \A j \in queued' : j.proj = P0
      BY <1>w, <1>j, <1>c
    <2>2. QED
      BY <2>1, <1>0, <1>w, <1>a, <1>j DEF BatchInv, Live
  <1>4. StageInv'
    BY <1>0, <1>w, <1>r, <1>b DEF StageInv
  <1>5. StampInv'
    <2>1. mode.cached => \A j \in queued' : valid[<<j.layer, j.expert>>] /\ stamp[<<j.layer, j.expert>>] = cgen
      <3>1. mode.cached => \A e \in missing : valid[<<curIl, e>>] /\ stamp[<<curIl, e>>] = cgen
        BY <1>0 DEF StampInv
      <3>2. QED
        BY <3>1, <1>j, <1>c
    <2>2. QED
      BY <2>1, <1>0, <1>w, <1>a DEF StampInv, Live
  <1>6. ValidInv'
    <2> SUFFICES ASSUME mode.cached, ~fatal, NEW il \in Layers, NEW e \in Experts,
                        NEW p \in Projs, valid[<<il, e>>]
                 PROVE  mem[<<il, e, p>>] = il \/ Owed(il, e, p)'
      BY <1>0 DEF ValidInv
    <2>1. CASE il = curIl /\ e \in missing /\ p \in P
      BY <2>1, <1>j, <1>c, <1>0 DEF Owed, TheJob
    <2>2. CASE il = curIl /\ e \in missing /\ p \notin P
      BY <2>2, <1>w, <1>c, <1>0 DEF Owed
    <2>3. CASE il # curIl \/ e \notin missing
      BY <2>3, <1>a, <1>0 DEF ValidInv, Owed
    <2>4. QED
      BY <2>1, <2>2, <2>3
  <1>7. PagesInv'
    <2>1. mode.cached => \A j \in queued' : mem[CellOf(j)] # "none"
      <3> SUFFICES ASSUME mode.cached, NEW j \in queued'
                   PROVE  mem[CellOf(j)] # "none"
        OBVIOUS
      <3>1. j.layer = curIl /\ j.expert \in missing /\ j.proj \in P
        BY <1>j, <1>c
      <3>2. j.proj \in Projs /\ (TwoWave => j.proj = P0)
        BY <3>1, <1>b, <1>c
      <3>3. QED
        BY <3>1, <3>2, <1>0 DEF PagesInv, CellOf, Cell
    <2>2. evalPc' = "commit" => \A e \in missing, p \in Projs : p # P0 => <<p, e>> \in waveTwo'
      BY <1>w
    <2>3. QED
      BY <2>1, <2>2, <1>0, <1>a, <1>w DEF PagesInv, CellOf, Cell
  <1>8. FlagInv'
    <2>1. \A e \in Experts, p \in Projs : ready[<<p, e>>] = asyncGen => TheJob(curIl, e, p) \notin queued'
      BY <1>j, <1>r, <1>c, <1>0
    <2>2. \A l \in Lanes : lanePc[l] # "flag"
      BY <1>0 DEF InFlight
    <2>3. QED
      BY <2>1, <2>2, <1>0, <1>a DEF FlagInv, Live, Cell, TheJob
  <1>9. ThreadInv'
    BY <1>0, <1>w DEF ThreadInv
  <1>10. QED
    BY <1>1, <1>2, <1>3, <1>4, <1>5, <1>6, <1>7, <1>8, <1>9

(* Wave two commits one more slice, or fails and ends the run.             *)
LEMMA CommitWaveTwoInv ==
  ASSUME Inv, NEW s \in Slices, CommitWaveTwo(s)
  PROVE  Inv'
  <1> USE DEF CommitWaveTwo
  <1>0. /\ evalPc = "commit" /\ mode.cached /\ s \in waveTwo /\ curIl = reqLayer /\ curIl \in Layers
        /\ UNCHANGED <<mode, reqLayer, reqIds, routed, staged, missing, boundVars, cacheVars,
                       batchVars, asyncGen, curIl, ready, readyWaiters, laneVars,
                       graphIl, todo, at>>
    BY DEF BatchInv, Live
  <1>a. /\ InFlight' = InFlight /\ Reading' = Reading /\ Held' = Held /\ BeingRead' = BeingRead
    BY <1>0 DEF InFlight, Reading, Held, BeingRead
  <1>b. missing \subseteq Experts /\ asyncGen \in Nat /\ waveTwo \subseteq Slices
        /\ mem \in [Cells -> Layers \cup {"none", "blank", "torn"}] /\ fatal \in BOOLEAN
    BY DEF TypeOK
  <1>t. /\ \A t \in Threads : tpc[t] = "idle"
        /\ tpc' = tpc
    <2>1. \A t \in Threads : tpc[t] = "idle"
      BY <1>0 DEF ThreadInv
    <2>2. Wake(Threads) = tpc
      BY <2>1 DEF Wake, TypeOK
    <2>3. QED
      BY <2>1, <2>2
  <1>2. CountInv'
    BY <1>0, <1>a DEF CountInv
  <1>5. CASE /\ mem' = Commit(mem, {Cell(reqLayer, s[2], s[1])})
             /\ waveTwo' = waveTwo \ {s} /\ evalPc' = evalPc /\ fatal' = fatal
    <2>0. Cell(reqLayer, s[2], s[1]) = <<curIl, s[2], s[1]>> /\ s[1] \in Projs /\ s[2] \in Experts
      BY <1>0 DEF Cell, Slices
    <2>m. /\ \A c \in Cells : mem'[c] = mem[c] \/ (mem[c] = "none" /\ mem'[c] = "blank")
          /\ mem'[<<curIl, s[2], s[1]>>] # "none"
      BY <1>5, <1>0, <2>0 DEF Commit, Cells
    <2>n. \A c \in Cells : /\ mem[c] # "none" => mem'[c] = mem[c]
                           /\ mem[c] = curIl => mem'[c] = curIl
      BY <2>m, <1>0, ConstantsAssumption
    <2>1. TypeOK'
      <3>1. mem' \in [Cells -> Layers \cup {"none", "blank", "torn"}]
        BY <1>5, <1>b DEF Commit
      <3>2. waveTwo' \subseteq Slices /\ evalPc' = evalPc /\ fatal' = fatal /\ tpc' = tpc
        BY <1>5, <1>b, <1>t
      <3>3. QED
        BY <3>1, <3>2, <1>0 DEF TypeOK
    <2>3. BatchInv'
      BY <1>5, <1>0, <1>a DEF BatchInv, Live
    <2>4. StageInv'
      BY <1>5, <1>0 DEF StageInv
    <2>5. StampInv'
      BY <1>5, <1>0, <1>a DEF StampInv, Live
    <2>6. ValidInv'
      <3> SUFFICES ASSUME mode.cached, ~fatal, NEW il \in Layers, NEW e \in Experts,
                          NEW p \in Projs, valid[<<il, e>>]
                   PROVE  mem'[<<il, e, p>>] = il \/ Owed(il, e, p)'
        BY <1>0, <1>5 DEF ValidInv
      <3>1. mem[<<il, e, p>>] = il \/ Owed(il, e, p)
        BY DEF ValidInv
      <3>2. Owed(il, e, p)' = Owed(il, e, p)
        BY <1>5, <1>0, <1>a DEF Owed, TheJob
      <3>3. il # "none" /\ <<il, e, p>> \in Cells
        BY ConstantsAssumption DEF Cells
      <3>4. QED
        BY <3>1, <3>2, <3>3, <2>m
    <2>7. PagesInv'
      <3>1. \A l \in Reading : laneJob[l] \in Job
        BY DEF BatchInv, Reading, InFlight
      <3>2. queued \subseteq Job
        BY DEF TypeOK
      <3>3. \A j \in Job : CellOf(j) \in Cells /\ CellOf(j)' = CellOf(j)
        BY <1>0 DEF CellOf, Cell, Cells, Job
      <3>4. \A e \in missing, p \in Projs :
              p # P0 /\ <<p, e>> \notin waveTwo' => mem'[<<curIl, e, p>>] # "none"
        <4> SUFFICES ASSUME NEW e \in missing, NEW p \in Projs, p # P0, <<p, e>> \notin waveTwo'
                     PROVE  mem'[<<curIl, e, p>>] # "none"
          OBVIOUS
        <4>1. CASE <<p, e>> = s
          BY <4>1, <2>m
        <4>2. CASE <<p, e>> # s
          <5>1. mem[<<curIl, e, p>>] # "none"
            BY <4>2, <1>5, <1>0 DEF PagesInv
          <5>2. <<curIl, e, p>> \in Cells
            BY <1>0, <1>b DEF Cells
          <5>3. QED
            BY <5>1, <5>2, <2>n
        <4>3. QED
          BY <4>1, <4>2
      <3>5. \A l \in Reading' :
              ~mode.cached \/ valid[<<laneJob[l].layer, laneJob[l].expert>>] =>
                mem'[CellOf(laneJob[l])] = "torn"
        BY <3>1, <3>3, <2>n, <1>a DEF PagesInv
      <3>6. \A j \in queued : valid[<<j.layer, j.expert>>] => mem'[CellOf(j)] # "none"
        BY <3>2, <3>3, <2>n, <1>0 DEF PagesInv
      <3>7. \A l \in Reading : CellOf(laneJob[l])' = CellOf(laneJob[l])
        BY <1>0 DEF CellOf, Cell
      <3>8. \A j \in queued : CellOf(j)' = CellOf(j)
        BY <3>2, <3>3
      <3>9. QED
        BY <3>4, <3>5, <3>6, <3>7, <3>8, <1>0, <1>5, <1>a DEF PagesInv
    <2>8. FlagInv'
      <3>1. \A e \in Experts, p \in Projs : Cell(curIl, e, p) \in Cells /\ Cell(curIl, e, p)' = Cell(curIl, e, p)
        BY <1>0 DEF Cell, Cells
      <3>2. \A l \in Lanes : lanePc[l] = "flag" =>
              CellOf(laneJob[l]) \in Cells /\ CellOf(laneJob[l])' = CellOf(laneJob[l])
        BY <1>0 DEF CellOf, Cell, Cells, Job, BatchInv, InFlight
      <3>3. ASSUME ~fatal, NEW e \in Experts, NEW p \in Projs, ready[<<p, e>>] = asyncGen
            PROVE  /\ mem'[Cell(curIl, e, p)] = curIl
                   /\ TheJob(curIl, e, p) \notin queued \cup BeingRead
        BY <3>1, <3>3, <2>n, <1>0 DEF FlagInv, Live
      <3>4. ASSUME ~fatal, NEW l \in Lanes, lanePc[l] = "flag"
            PROVE  mem'[CellOf(laneJob[l])] = curIl
        BY <3>2, <3>4, <2>n, <1>0 DEF FlagInv, Live
      <3>5. QED
        BY ZenonT(40), <3>3, <3>4, <1>0, <1>5, <1>a DEF FlagInv, TheJob, Cell, CellOf
    <2>9. ThreadInv'
      BY <1>0, <1>5, <1>t DEF ThreadInv
    <2>10. QED
      BY <2>1, <1>2, <2>3, <2>4, <2>5, <2>6, <2>7, <2>8, <2>9
  <1>6. CASE fatal' = TRUE /\ evalPc' = "idle" /\ waveTwo' = {} /\ mem' = mem
    <2>1. TypeOK'
      BY <1>6, <1>0, <1>t DEF TypeOK, EvalPcs
    <2>3. BatchInv'
      BY <1>6, <1>0, <1>a DEF BatchInv, Live
    <2>4. StageInv'
      BY <1>6, <1>0 DEF StageInv
    <2>5. StampInv'
      BY <1>6 DEF StampInv, Live
    <2>6. ValidInv'
      BY <1>6 DEF ValidInv
    <2>7. PagesInv'
      BY <1>6, <1>0, <1>a DEF PagesInv, CellOf, Cell
    <2>8. FlagInv'
      BY <1>6 DEF FlagInv
    <2>9. ThreadInv'
      BY <1>0, <1>6, <1>t DEF ThreadInv
    <2>10. QED
      BY <2>1, <1>2, <2>3, <2>4, <2>5, <2>6, <2>7, <2>8, <2>9
  <1>7. QED
    BY <1>5, <1>6

(* The rest of the batch is appended to the jobs in flight.                *)
LEMMA PublishWaveTwoInv ==
  ASSUME Inv, PublishWaveTwo
  PROVE  Inv'
  <1> DEFINE Q == SecondWave
             R == Projs \ {P0}
  <1> USE DEF PublishWaveTwo, GrownCount
  <1>0. /\ evalPc = "commit" /\ mode.cached /\ waveTwo = {} /\ curIl = reqLayer /\ curIl \in Layers
        /\ evalPc' = "promote" /\ queued' = queued \cup Q
        /\ batchNjobs' = batchNjobs + Cardinality(Q)
        /\ UNCHANGED <<mode, callVars, boundVars, cacheVars, doneCnt, batchGen,
                       batchFlagGen, ioStop, syncVars, mem, laneVars, graphVars>>
    BY DEF BatchInv, Live
  <1>q. Q = JobsOf(curIl, missing, R)
    BY <1>0 DEF SecondWave
  <1>r. \A p \in Projs : p \in R <=> p # P0
    OBVIOUS
  <1>s. R \in SUBSET Projs
    OBVIOUS
  <1> HIDE DEF Q, R, PublishWaveTwo
  <1>j. /\ Q \subseteq Job /\ IsFiniteSet(Q) /\ Cardinality(Q) \in Nat
        /\ \A i \in Layers, e \in Experts, p \in Projs :
             TheJob(i, e, p) \in Q <=> i = curIl /\ e \in missing /\ p \in R
        /\ \A j \in Q : j.layer = curIl /\ j.expert \in missing /\ j.proj \in R
    <2>1. curIl \in Layers /\ missing \in SUBSET Experts /\ R \in SUBSET Projs
      BY <1>0, <1>s DEF TypeOK
    <2>2. QED
      BY ONLY <2>1, <1>q, JobsFinite
  <1>a. /\ InFlight' = InFlight /\ Reading' = Reading /\ Held' = Held /\ BeingRead' = BeingRead
    BY <1>0 DEF InFlight, Reading, Held, BeingRead
  <1>b. queued \cap Q = {} /\ Held \cap Q = {}
    BY <1>0, <1>j, <1>r, <1>s DEF BatchInv
  <1>c. BeingRead \subseteq Held
    BY DEF BeingRead, Held, Reading, InFlight
  <1>2. CountInv'
    <2>1. IsFiniteSet(queued) /\ Cardinality(queued) \in Nat /\ Cardinality({}) = 0
      BY FS_CardinalityType, FS_EmptySet DEF CountInv
    <2>2. IsFiniteSet(queued') /\ Cardinality(queued') = Cardinality(queued) + Cardinality(Q)
      <3>1. Cardinality(queued \cap Q) = 0
        BY <2>1, <1>b
      <3>2. /\ IsFiniteSet(queued \cup Q)
            /\ Cardinality(queued \cup Q) = Cardinality(queued) + Cardinality(Q) - Cardinality(queued \cap Q)
        BY <2>1, <1>j, FS_Union
      <3>3. QED
        BY <3>1, <3>2, <2>1, <1>j, <1>0
    <2>3. Cardinality(InFlight) \in Nat
      <3>1. InFlight \in SUBSET Lanes /\ IsFiniteSet(Lanes)
        BY ConstantsAssumption DEF InFlight
      <3>2. QED
        BY <3>1, FS_Subset, FS_CardinalityType
    <2>4. QED
      BY <2>1, <2>2, <2>3, <1>j, <1>0, <1>a DEF CountInv, TypeOK
  <1>1. TypeOK'
    <2>1. batchNjobs' \in Nat /\ doneCnt' \in 0..batchNjobs'
      BY <1>0, <1>j DEF TypeOK
    <2>2. QED
      BY <2>1, <1>0, <1>j DEF TypeOK, EvalPcs
  <1>3. BatchInv'
    <2>1. \A l \in InFlight : laneJob[l] \in Job \ queued'
      BY <1>0, <1>b DEF BatchInv, Held
    <2>2. \A j \in queued' \cup Held : j.layer = curIl
      BY <1>0, <1>j DEF BatchInv
    <2>3. queued' \cup Held # {} => batchFlagGen = asyncGen
      BY <1>0, <1>j DEF BatchInv, Live
    <2>4. QED
      BY <2>1, <2>2, <2>3, <1>0, <1>a DEF BatchInv
  <1>4. StageInv'
    BY <1>0 DEF StageInv
  <1>5. StampInv'
    <2>1. \A j \in Q : valid[<<j.layer, j.expert>>] /\ stamp[<<j.layer, j.expert>>] = cgen
      <3>1. \A e \in missing : valid[<<curIl, e>>] /\ stamp[<<curIl, e>>] = cgen
        BY <1>0 DEF StampInv
      <3>2. QED
        BY <3>1, <1>j
    <2>2. QED
      BY <2>1, <1>0, <1>a DEF StampInv, Live
  <1>6. ValidInv'
    <2> SUFFICES ASSUME mode.cached, ~fatal, NEW il \in Layers, NEW e \in Experts,
                        NEW p \in Projs, valid[<<il, e>>]
                 PROVE  mem[<<il, e, p>>] = il \/ Owed(il, e, p)'
      BY <1>0 DEF ValidInv
    <2>1. CASE il = curIl /\ e \in missing /\ p # P0
      BY <2>1, <1>j, <1>r, <1>0 DEF Owed, TheJob
    <2>2. CASE ~(il = curIl /\ e \in missing /\ p # P0)
      BY <2>2, <1>a, <1>0 DEF ValidInv, Owed, TheJob
    <2>4. QED
      BY <2>1, <2>2
  <1>7. PagesInv'
    <2>1. \A j \in Q : mem[CellOf(j)] # "none"
      <3> SUFFICES ASSUME NEW j \in Q
                   PROVE  mem[CellOf(j)] # "none"
        OBVIOUS
      <3>1. j.layer = curIl /\ j.expert \in missing /\ j.proj \in Projs /\ j.proj # P0
        BY <1>j, <1>r, <1>s
      <3>3. QED
        BY <3>1, <1>0 DEF PagesInv, CellOf, Cell
    <2>3. QED
      BY <2>1, <1>0, <1>a DEF PagesInv, CellOf, Cell
  <1>8. FlagInv'
    <2>1. \A e \in Experts, p \in Projs : ready[<<p, e>>] = asyncGen => TheJob(curIl, e, p) \notin Q
      <3>1. asyncGen \in Nat /\ \A p \in Projs \ {P0}, e \in missing : ready[<<p, e>>] < asyncGen
        BY <1>0 DEF StageInv, TypeOK
      <3>2. QED
        BY <3>1, <1>j, <1>r, <1>0
    <2>3. QED
      BY <2>1, <1>0, <1>a DEF FlagInv, Live, Cell, CellOf, TheJob
  <1>9. ThreadInv'
    BY <1>0 DEF ThreadInv
  <1>10. QED
    BY <1>1, <1>2, <1>3, <1>4, <1>5, <1>6, <1>7, <1>8, <1>9

(* Steps of the eval thread that only move on, with the batch in flight.   *)
LEMMA MoveOnFrame ==
  ASSUME Inv, evalPc \notin {"touch", "commit"},
         \/ evalPc' = evalPc
         \/ evalPc = "promote" /\ evalPc' = "evict"
         \/ evalPc = "evict" /\ evalPc' = "compute"
         \/ evalPc \in {"compute", "shrink"} /\ evalPc' = "idle"
         \/ evalPc = "idle" /\ evalPc' = "shrink",
         evalPc' = "drain" => reqLayer' \in Layers,
         Live' => reqLayer' = reqLayer,
         UNCHANGED <<mode, waveTwo, valid, stamp, cgen, queued, batchNjobs, doneCnt, batchFlagGen,
                     asyncGen, curIl, ready, fatal, mem, laneVars>>
  PROVE  /\ CountInv' /\ BatchInv' /\ StageInv' /\ StampInv'
         /\ ValidInv' /\ PagesInv' /\ FlagInv'
  <1>0. /\ InFlight' = InFlight /\ Reading' = Reading /\ laneJob' = laneJob
        /\ Held' = Held /\ BeingRead' = BeingRead
        /\ (Live' => Live) /\ evalPc' \notin {"touch", "commit"} /\ (evalPc' = "drain" => evalPc = "drain")
        /\ (evalPc = "closed" <=> evalPc' = "closed") /\ (evalPc' = "join" => evalPc = "join")
    BY DEF InFlight, Reading, Held, BeingRead, Live
  <1>2. CountInv'
    BY <1>0 DEF CountInv
  <1>3. BatchInv'
    BY <1>0 DEF BatchInv
  <1>4. StageInv'
    BY <1>0 DEF StageInv
  <1>5. StampInv'
    BY <1>0 DEF StampInv
  <1>6. ValidInv'
    BY <1>0 DEF ValidInv, Owed, TheJob
  <1>7. PagesInv'
    BY <1>0 DEF PagesInv, CellOf, Cell
  <1>8. FlagInv'
    BY <1>0 DEF FlagInv, CellOf, Cell, TheJob
  <1>10. QED
    BY <1>2, <1>3, <1>4, <1>5, <1>6, <1>7, <1>8

LEMMA PromoteInv ==
  ASSUME Inv, Promote
  PROVE  Inv'
  <1> USE DEF Promote
  <1>0. evalPc = "promote" /\ evalPc' = evalPc /\ tpc' = tpc
    OBVIOUS
  <1>1. TypeOK'
    <2>1. reqIds \in Seq(Experts) /\ reqIds # << >> /\ lru \in Seq(Entries) /\ reqLayer \in Layers
      BY <1>0 DEF TypeOK, BatchInv, Live
    <2>2. reqIds' \in Seq(Experts) /\ <<reqLayer, Head(reqIds)>> \in Entries
      BY <2>1, HeadTailProperties DEF Entries
    <2>3. lru' \in Seq(Entries)
      <3> DEFINE id == <<reqLayer, Head(reqIds)>>
      <3>1. LruUnlink(lru, id) \in Seq(Entries) /\ <<id>> \in Seq(Entries)
        BY <2>1, <2>2, LruUnlinkType
      <3>2. LruPushFront(LruUnlink(lru, id), id) \in Seq(Entries)
        BY <3>1, ConcatProperties DEF LruPushFront
      <3>3. QED
        BY <3>2, <2>1 DEF Promoted
    <2>4. QED
      BY <2>2, <2>3 DEF TypeOK
  <1>9. ThreadInv'
    BY <1>0 DEF ThreadInv
  <1>10. QED
    BY <1>0, <1>1, <1>9, MoveOnFrame DEF Live

LEMMA EndPromoteInv ==
  ASSUME Inv, EndPromote
  PROVE  Inv'
  <1> USE DEF EndPromote
  <1>1. TypeOK'
    BY DEF TypeOK, EvalPcs
  <1>9. ThreadInv'
    BY DEF ThreadInv
  <1>10. QED
    BY <1>1, <1>9, MoveOnFrame DEF Live

(* The graph goes on with the layer it asks for, staged or not.            *)
LEMMA EndLoadInv ==
  ASSUME Inv, NEW il \in Layers, EndLoad(il)
  PROVE  Inv'
  <1> USE DEF EndLoad
  <1>1. TypeOK'
    <2>1. evalPc' \in EvalPcs /\ graphIl' \in Layers \cup {NoLayer}
      BY DEF EvalPcs
    <2>2. tpc' \in [Threads -> ThreadPcs]
      BY DEF ThreadPcs
    <2>3. todo' \in [Threads -> SUBSET Slices]
      BY DEF TypeOK, Slices
    <2>4. QED
      BY <2>1, <2>2, <2>3 DEF TypeOK
  <1>9. ThreadInv'
    BY DEF ThreadInv
  <1>10. QED
    BY <1>1, <1>9, MoveOnFrame DEF Live

LEMMA EndComputeInv ==
  ASSUME Inv, EndCompute
  PROVE  Inv'
  <1> USE DEF EndCompute
  <1>1. TypeOK'
    BY DEF TypeOK, EvalPcs, ThreadPcs
  <1>9. ThreadInv'
    BY DEF ThreadInv
  <1>10. QED
    BY <1>1, <1>9, MoveOnFrame DEF Live

LEMMA BudgetInv ==
  ASSUME Inv, EndShrink \/ \E b \in Budgets : SetCacheBudget(b)
  PROVE  Inv'
  <1> USE DEF EndShrink, SetCacheBudget
  <1>1. TypeOK'
    <2>1. /\ evalPc' \in EvalPcs /\ resizes' \in Nat /\ cacheMax' \in Budgets
          /\ UNCHANGED <<mode, callVars, loads, valid, stamp, lru, resident, cgen, batchVars,
                         syncVars, mem, laneVars, graphVars>>
      <3>1. CASE EndShrink
        BY <3>1 DEF TypeOK, EvalPcs
      <3>2. ASSUME NEW b \in Budgets, SetCacheBudget(b)
            PROVE  /\ evalPc' \in EvalPcs /\ resizes' \in Nat /\ cacheMax' \in Budgets
                   /\ UNCHANGED <<mode, callVars, loads, valid, stamp, lru, resident, cgen,
                                  batchVars, syncVars, mem, laneVars, graphVars>>
        BY <3>2 DEF TypeOK, EvalPcs
      <3>3. QED
        BY <3>1, <3>2
    <2>2. QED
      BY <2>1 DEF TypeOK
  <1>9. ThreadInv'
    BY DEF ThreadInv
  <1>10. QED
    BY <1>1, <1>9, MoveOnFrame DEF Live

(* The run is fatal from here on, so the flags promise nothing.            *)
LEMMA ShutdownInv ==
  ASSUME Inv, Shutdown
  PROVE  Inv'
  <1> USE DEF Shutdown
  <1>0. /\ InFlight' = InFlight /\ Reading' = Reading /\ laneJob' = laneJob
        /\ Held' = Held /\ BeingRead' = BeingRead
    BY DEF InFlight, Reading, Held, BeingRead
  <1>t. tpc' = tpc
    <2>1. \A t \in Threads : tpc[t] = "idle"
      BY DEF ThreadInv
    <2>2. QED
      BY <2>1 DEF Wake, TypeOK
  <1>1. TypeOK'
    BY <1>t DEF TypeOK, EvalPcs
  <1>2. CountInv'
    BY <1>0 DEF CountInv
  <1>3. BatchInv'
    BY <1>0 DEF BatchInv, Live
  <1>4. StageInv'
    BY DEF StageInv
  <1>5. StampInv'
    BY DEF StampInv, Live
  <1>6. ValidInv'
    BY DEF ValidInv
  <1>7. PagesInv'
    BY <1>0 DEF PagesInv, CellOf, Cell
  <1>8. FlagInv'
    BY DEF FlagInv
  <1>9. ThreadInv'
    BY <1>t DEF ThreadInv
  <1>10. QED
    BY <1>1, <1>2, <1>3, <1>4, <1>5, <1>6, <1>7, <1>8, <1>9

(* The slices go only when no lane is left to read into them.              *)
LEMMA JoinLanesInv ==
  ASSUME Inv, JoinLanes
  PROVE  Inv'
  <1> USE DEF JoinLanes, LanesExited
  <1>0. /\ InFlight' = InFlight /\ Reading' = Reading /\ laneJob' = laneJob
        /\ Held' = Held /\ BeingRead' = BeingRead /\ Reading = {} /\ fatal
    BY DEF InFlight, Reading, Held, BeingRead, BatchInv
  <1>1. TypeOK'
    <2>1. mem' \in [Cells -> Layers \cup {"none", "blank", "torn"}] /\ evalPc' \in EvalPcs
      BY DEF EvalPcs
    <2>2. QED
      BY <2>1 DEF TypeOK
  <1>2. CountInv'
    BY <1>0 DEF CountInv
  <1>3. BatchInv'
    BY <1>0 DEF BatchInv, Live
  <1>4. StageInv'
    BY DEF StageInv
  <1>5. StampInv'
    BY DEF StampInv, Live
  <1>6. ValidInv'
    BY <1>0 DEF ValidInv
  <1>7. PagesInv'
    BY <1>0 DEF PagesInv
  <1>8. FlagInv'
    BY <1>0 DEF FlagInv
  <1>9. ThreadInv'
    BY DEF ThreadInv
  <1>10. QED
    BY <1>1, <1>2, <1>3, <1>4, <1>5, <1>6, <1>7, <1>8, <1>9

(* What a released entry takes away: nothing of another entry.             *)
LEMMA EvictTailEffect ==
  ASSUME TypeOK, NEW id \in Entries, EvictTail(id)
  PROVE  /\ lru' \in Seq(Entries) /\ resident' \in Int /\ valid' \in [Entries -> BOOLEAN]
         /\ mem' \in [Cells -> Layers \cup {"none", "blank", "torn"}]
         /\ ~valid'[id]
         /\ \A i \in Layers, e \in Experts : <<i, e>> # id => valid'[<<i, e>>] = valid[<<i, e>>]
         /\ \A c \in Cells : <<c[1], c[2]>> # id => mem'[c] = mem[c]
  <1> USE DEF EvictTail
  <1>1. lru' \in Seq(Entries)
    BY LruUnlinkType DEF TypeOK
  <1>2. resident' \in Int
    BY ConstantsAssumption DEF TypeOK, Entries
  <1>3. /\ valid' \in [Entries -> BOOLEAN] /\ ~valid'[id]
        /\ \A i \in Layers, e \in Experts : <<i, e>> # id => valid'[<<i, e>>] = valid[<<i, e>>]
    BY DEF TypeOK, Entries
  <1>4. mem' \in [Cells -> Layers \cup {"none", "blank", "torn"}]
    BY DEF TypeOK
  <1>5. \A c \in Cells : <<c[1], c[2]>> # id => mem'[c] = mem[c]
    BY DEF TypeOK, Entries
  <1>6. QED
    BY <1>1, <1>2, <1>3, <1>4, <1>5

(* Eviction beside the reads spares what this generation staged; a shrink  *)
(* spares nothing, but no slice is promised to anyone between decodes.     *)
LEMMA EvictInv ==
  ASSUME Inv, NEW id \in Entries, EvictCold(id) \/ ShrinkEvict(id)
  PROVE  Inv'
  <1>0. /\ EvictTail(id)
        /\ UNCHANGED <<mode, evalVars, boundVars, batchVars, syncVars, laneVars, graphVars,
                       stamp, cacheMax, cgen>>
        /\ \/ evalPc = "shrink"
           \/ evalPc = "evict" /\ mode.cached /\ stamp[id] # cgen
    BY DEF EvictCold, ShrinkEvict, MayEvict, EvictTail
  <1>e. /\ lru' \in Seq(Entries) /\ resident' \in Int /\ valid' \in [Entries -> BOOLEAN]
        /\ mem' \in [Cells -> Layers \cup {"none", "blank", "torn"}]
        /\ ~valid'[id]
        /\ \A i \in Layers, e \in Experts : <<i, e>> # id => valid'[<<i, e>>] = valid[<<i, e>>]
        /\ \A c \in Cells : <<c[1], c[2]>> # id => mem'[c] = mem[c]
    BY <1>0, EvictTailEffect
  <1>v. \A i \in Layers, e \in Experts : valid'[<<i, e>>] => valid[<<i, e>>] /\ <<i, e>> # id
    BY <1>e
  <1>m. /\ \A i \in Layers, e \in Experts, p \in Projs :
             <<i, e>> # id => mem'[<<i, e, p>>] = mem[<<i, e, p>>]
        /\ \A e \in Experts, p \in Projs : mem'[<<Shared, e, p>>] = mem[<<Shared, e, p>>]
    <2>1. ASSUME NEW i \in Layers, NEW e \in Experts, NEW p \in Projs, <<i, e>> # id
          PROVE  mem'[<<i, e, p>>] = mem[<<i, e, p>>]
      <3>1. <<i, e, p>> \in Cells
        BY DEF Cells
      <3>2. QED
        BY <2>1, <3>1, <1>e
    <2>2. ASSUME NEW e \in Experts, NEW p \in Projs
          PROVE  mem'[<<Shared, e, p>>] = mem[<<Shared, e, p>>]
      <3>1. <<Shared, e, p>> \in Cells /\ <<Shared, e>> # id
        BY ConstantsAssumption DEF Cells, Entries
      <3>2. QED
        BY <3>1, <1>e
    <2>3. QED
      BY <2>1, <2>2
  <1>a. /\ InFlight' = InFlight /\ Reading' = Reading /\ laneJob' = laneJob
        /\ Held' = Held /\ BeingRead' = BeingRead
    BY <1>0 DEF InFlight, Reading, Held, BeingRead
  <1>j. /\ \A l \in InFlight : laneJob[l] \in Job
        /\ queued \subseteq Job
    BY DEF BatchInv, TypeOK
  <1>1. TypeOK'
    BY <1>0, <1>e DEF TypeOK
  <1>2. CountInv'
    BY <1>0, <1>a DEF CountInv
  <1>3. BatchInv'
    BY <1>0, <1>a DEF BatchInv, Live
  <1>4. StageInv'
    BY <1>0 DEF StageInv
  <1>5. StampInv'
    <2>1. \A j \in queued \cup Held : j \in Job
      BY <1>j DEF Held
    <2>2. Live /\ mode.cached => \A j \in queued \cup Held :
            valid'[<<j.layer, j.expert>>] /\ stamp[<<j.layer, j.expert>>] = cgen
      BY ZenonT(40), <2>1, <1>0, <1>e DEF StampInv, Live, Job
    <2>3. QED
      BY <2>2, <1>0, <1>a DEF StampInv, Live
  <1>6. ValidInv'
    BY <1>0, <1>a, <1>v, <1>m DEF ValidInv, Owed, TheJob
  <1>c. \A j \in Job : ~mode.cached \/ <<j.layer, j.expert>> # id =>
          CellOf(j)' = CellOf(j) /\ mem'[CellOf(j)] = mem[CellOf(j)]
    BY <1>0, <1>m DEF CellOf, Cell, Job
  <1>7. PagesInv'
    <2>1. ASSUME NEW l \in Reading, ~mode.cached \/ valid'[<<laneJob[l].layer, laneJob[l].expert>>]
          PROVE  mem'[CellOf(laneJob[l])] = "torn"
      <3>1. laneJob[l] \in Job
        BY <1>j DEF InFlight, Reading
      <3>2. ~mode.cached \/ /\ valid[<<laneJob[l].layer, laneJob[l].expert>>]
                            /\ <<laneJob[l].layer, laneJob[l].expert>> # id
        BY <2>1, <3>1, <1>v DEF Job
      <3>3. QED
        BY <3>1, <3>2, <1>c DEF PagesInv
    <2>2. ASSUME mode.cached, NEW j \in queued, valid'[<<j.layer, j.expert>>]
          PROVE  mem'[CellOf(j)] # "none"
      <3>1. valid[<<j.layer, j.expert>>] /\ <<j.layer, j.expert>> # id /\ j \in Job
        BY <2>2, <1>j, <1>v DEF Job
      <3>2. QED
        BY <3>1, <2>2, <1>0, <1>c DEF PagesInv
    <2>3. QED
      BY <2>1, <2>2, <1>0, <1>a, <1>m DEF PagesInv, CellOf, Cell
  <1>8. FlagInv'
    <2> SUFFICES ASSUME ~fatal, evalPc = "evict", mode.cached, stamp[id] # cgen
                 PROVE  FlagInv'
      BY <1>0 DEF FlagInv, Live
    <2>0. curIl \in Layers
      BY DEF BatchInv, Live
    <2>1. \A e \in Experts, p \in Projs : ready[<<p, e>>] = asyncGen =>
            /\ mem'[<<curIl, e, p>>] = curIl
            /\ TheJob(curIl, e, p) \notin queued \cup BeingRead
      <3> SUFFICES ASSUME NEW e \in Experts, NEW p \in Projs, ready[<<p, e>>] = asyncGen
                   PROVE  /\ mem'[<<curIl, e, p>>] = curIl
                          /\ TheJob(curIl, e, p) \notin queued \cup BeingRead
        OBVIOUS
      <3>1. <<curIl, e>> # id
        BY DEF StampInv, Live
      <3>2. mem[<<curIl, e, p>>] = curIl /\ TheJob(curIl, e, p) \notin queued \cup BeingRead
        BY DEF FlagInv, Live, Cell
      <3>3. QED
        BY <3>1, <3>2, <2>0, <1>m
    <2>2. \A l \in Lanes : lanePc[l] = "flag" => mem'[CellOf(laneJob[l])] = curIl
      <3> SUFFICES ASSUME NEW l \in Lanes, lanePc[l] = "flag"
                   PROVE  mem'[CellOf(laneJob[l])] = curIl
        OBVIOUS
      <3>1. l \in InFlight /\ laneJob[l] \in Job /\ laneJob[l] \in Held
        BY <1>j DEF InFlight, Held
      <3>2. <<laneJob[l].layer, laneJob[l].expert>> # id
        BY <3>1 DEF StampInv, Live
      <3>3. QED
        BY <3>1, <3>2, <1>c DEF FlagInv, Live
    <2>3. QED
      BY <2>1, <2>2, <1>0, <1>a DEF FlagInv, Live, Cell, CellOf, TheJob
  <1>9. ThreadInv'
    BY <1>0 DEF ThreadInv
  <1>10. QED
    BY <1>1, <1>2, <1>3, <1>4, <1>5, <1>6, <1>7, <1>8, <1>9
-----------------------------------------------------------------------------
(* The invariant holds initially and along every step.                     *)
LEMMA InitInv == Init => Inv
  <1> SUFFICES ASSUME Init
               PROVE  Inv
    OBVIOUS
  <1> USE DEF Init
  <1>0. InFlight = {} /\ Reading = {} /\ Held = {} /\ BeingRead = {}
    BY DEF InFlight, Reading, Held, BeingRead
  <1>1. TypeOK
    <2>1. <<P0, 0>> \in Projs \X (Experts \cup {0})
      BY ConstantsAssumption
    <2>2. /\ evalPc \in EvalPcs /\ lanePc \in [Lanes -> LanePcs] /\ tpc \in [Threads -> ThreadPcs]
      BY DEF EvalPcs, LanePcs, ThreadPcs
    <2>3. mem \in [Cells -> Layers \cup {"none", "blank", "torn"}]
      OBVIOUS
    <2>4. at \in [Threads -> Projs \X (Experts \cup {0})]
      BY <2>1
    <2>5. doneCnt \in 0..batchNjobs /\ batchNjobs \in Nat
      OBVIOUS
    <2>6. todo \in [Threads -> SUBSET Slices] /\ laneJob \in [Lanes -> Job \cup {NoJob}]
          /\ laneSeen \in [Lanes -> Nat] /\ ready \in [Slices -> Nat]
          /\ valid \in [Entries -> BOOLEAN] /\ stamp \in [Entries -> Nat]
      OBVIOUS
    <2>7. reqIds \in Seq(Experts) /\ lru \in Seq(Entries)
      BY EmptySeq
    <2>8. /\ mode \in Modes /\ cacheMax \in Budgets /\ fatal \in BOOLEAN /\ ioStop \in BOOLEAN
          /\ reqLayer \in Layers \cup {NoLayer} /\ curIl \in Layers \cup {NoLayer}
          /\ graphIl \in Layers \cup {NoLayer}
          /\ routed \subseteq Experts /\ staged \subseteq Experts /\ missing \subseteq Experts
          /\ waveTwo \subseteq Slices /\ queued \subseteq Job
      OBVIOUS
    <2>8a. /\ loads \in Nat /\ resizes \in Nat /\ cgen \in Nat /\ batchGen \in Nat
           /\ batchFlagGen \in Nat /\ asyncGen \in Nat /\ resident \in Int /\ readyWaiters \in Int
      OBVIOUS
    <2>9. QED
      BY <2>2, <2>3, <2>4, <2>5, <2>6, <2>7, <2>8, <2>8a DEF TypeOK
  <1>2. CountInv
    BY <1>0, FS_EmptySet DEF CountInv
  <1>3. BatchInv
    BY <1>0 DEF BatchInv, Live
  <1>4. StageInv
    BY DEF StageInv, Slices
  <1>5. StampInv
    BY DEF StampInv, Live
  <1>6. ValidInv
    BY DEF ValidInv, Entries
  <1>7. PagesInv
    BY <1>0 DEF PagesInv, Cells
  <1>8. FlagInv
    BY DEF FlagInv, Live
  <1>9. ThreadInv
    BY DEF ThreadInv
  <1>10. QED
    BY <1>1, <1>2, <1>3, <1>4, <1>5, <1>6, <1>7, <1>8, <1>9

LEMMA StutterInv ==
  ASSUME Inv, UNCHANGED vars
  PROVE  Inv'
  <1> USE DEF vars
  <1>0. /\ InFlight' = InFlight /\ Reading' = Reading
        /\ Held' = Held /\ BeingRead' = BeingRead
    BY DEF InFlight, Reading, Held, BeingRead
  <1>1. TypeOK'
    BY DEF TypeOK
  <1>2. CountInv'
    BY <1>0 DEF CountInv
  <1>3. BatchInv'
    BY <1>0 DEF BatchInv, Live
  <1>4. StageInv'
    BY DEF StageInv
  <1>5. StampInv'
    BY <1>0 DEF StampInv, Live
  <1>6. ValidInv'
    BY <1>0 DEF ValidInv, Owed, TheJob
  <1>7. PagesInv'
    BY <1>0 DEF PagesInv, TwoWave, CellOf, Cell
  <1>8. FlagInv'
    BY <1>0 DEF FlagInv, Live, CellOf, Cell, TheJob
  <1>9. ThreadInv'
    BY DEF ThreadInv
  <1>10. QED
    BY <1>1, <1>2, <1>3, <1>4, <1>5, <1>6, <1>7, <1>8, <1>9

LEMMA StepInv == Inv /\ [Next]_vars => Inv'
  <1> SUFFICES ASSUME Inv, [Next]_vars
               PROVE  Inv'
    OBVIOUS
  <1> HIDE DEF Inv
  <1>1. ASSUME NEW l \in Lanes, Lane(l)
        PROVE  Inv'
    BY <1>1, LaneIdleInv, LaneTakeInv, LaneReadOkInv, LaneReadFailInv, LaneFlagInv,
       LaneNotifyInv, LaneCountInv DEF Lane
  <1>2. ASSUME NEW t \in Threads, Thread(t)
        PROVE  Inv'
    BY <1>2, EnterReadyInv, ThreadWaitInv DEF Thread
  <1>3. ASSUME EvalStep
        PROVE  Inv'
    BY <1>3, DrainBatchInv, TouchEntryInv, PublishInv, CommitWaveTwoInv, PublishWaveTwoInv,
       PromoteInv, EndPromoteInv, EvictInv, EndLoadInv, EndComputeInv, BudgetInv, JoinLanesInv
       DEF EvalStep
  <1>4. ASSUME Caller
        PROVE  Inv'
    BY <1>4, BeginLoadInv, BudgetInv, ShutdownInv DEF Caller
  <1>5. CASE UNCHANGED vars
    BY <1>5, StutterInv
  <1>6. QED
    BY <1>1, <1>2, <1>3, <1>4, <1>5 DEF Next, Closed

(* What the lanes, the cache and the flags owe each other holds in every   *)
(* reachable state of the demand path.                                     *)
THEOREM Invariance == Spec => []Inv
  <1> HIDE DEF Inv
  <1>1. QED
    BY InitInv, StepInv, PTL DEF Spec

(* Every variable keeps its type in every reachable state.                 *)
THEOREM TypeCorrect == Spec => []TypeOK
  <1>1. Inv => TypeOK
    OBVIOUS
  <1>2. QED
    BY <1>1, Invariance, PTL

(* The promise of on_expert_ready: whatever the number of lanes, layers and *)
(* experts and whatever fails, a thread multiplies the data of its layer or *)
(* the run is fatal.                                                        *)
THEOREM ReadyMeansData == Spec => []UseSeesData
  <1>1. Inv => UseSeesData
    <2> SUFFICES ASSUME Inv, NEW t \in Threads, tpc[t] = "use", ~fatal
                 PROVE  mem[Cell(graphIl, at[t][2], at[t][1])] = graphIl
      BY DEF UseSeesData
    <2>1. evalPc = "compute" /\ graphIl = curIl /\ at[t] \in Slices /\ ready[at[t]] = asyncGen
      BY DEF ThreadInv
    <2>2. at[t] = <<at[t][1], at[t][2]>> /\ at[t][1] \in Projs /\ at[t][2] \in Experts
      BY <2>1 DEF Slices
    <2>3. QED
      BY <2>1, <2>2 DEF FlagInv, Live
  <1>2. QED
    BY <1>1, Invariance, PTL

(* A slice is read by one lane at a time: jobs are handed out once and a    *)
(* batch is drained before the next one reuses its slots.                   *)
THEOREM ReadsDoNotCollide == Spec => []NoCollidingReads
  <1>1. Inv => NoCollidingReads
    <2> SUFFICES ASSUME Inv, NEW k \in Reading, NEW l \in Reading, k # l
                 PROVE  CellOf(laneJob[k]) # CellOf(laneJob[l])
      BY DEF NoCollidingReads
    <2>1. k \in InFlight /\ l \in InFlight
      BY DEF InFlight, Reading
    <2>2. laneJob[k] \in Job /\ laneJob[l] \in Job /\ laneJob[k] # laneJob[l]
          /\ laneJob[k].layer = curIl /\ laneJob[l].layer = curIl
      BY <2>1 DEF BatchInv, Held
    <2>3. QED
      BY <2>2 DEF CellOf, Cell, Job
  <1>2. QED
    BY <1>1, Invariance, PTL

(* When a batch is drained and the run is not fatal, a valid entry is       *)
(* complete: a miss is entered as resident before it is read, and the read  *)
(* is never forgotten.                                                      *)
THEOREM ResidentIsComplete == Spec => []ValidIsComplete
  <1>1. Inv => ValidIsComplete
    <2> SUFFICES ASSUME Inv, mode.cached, evalPc \in {"idle", "drain"}, BatchDrained, ~fatal,
                        NEW id \in Entries, valid[id], NEW p \in Projs
                 PROVE  mem[Cell(id[1], id[2], p)] = id[1]
      BY DEF ValidIsComplete
    <2>1. queued = {} /\ BeingRead = {}
      BY DrainedMeansIdle DEF BatchDrained
    <2>2. QED
      BY <2>1 DEF ValidInv, Owed, Cell, Entries
  <1>2. QED
    BY <1>1, Invariance, PTL
-----------------------------------------------------------------------------
LEMMA HeldStep ==
  ASSUME Inv, Inv', HeldInv, [Next]_vars
  PROVE  HeldInv'
  <1> HIDE DEF Inv
  <1>t. resizes \in Nat
    BY DEF Inv, TypeOK
  <1>c. mode.cached /\ Live => \A j \in queued \cup Held : valid[<<j.layer, j.expert>>]
    BY DEF Inv, StampInv
  <1>d. mode'.cached /\ Live' => \A j \in queued' \cup Held' : valid'[<<j.layer, j.expert>>]
    BY DEF Inv, StampInv
  <1>e. evalPc' = "touch" => queued' = {} /\ Held' = {}
    BY DEF Inv, BatchInv, Held
  <1>l. \A l \in Lanes : lanePc[l] \in LanePcs /\ lanePc \in [Lanes -> LanePcs] /\ laneJob \in [Lanes -> Job \cup {NoJob}]
    BY DEF Inv, TypeOK
  <1> DEFINE Kept == /\ queued' \cup Held' \subseteq queued \cup Held
                     /\ UNCHANGED <<valid, mode, resizes>>
                     /\ evalPc' = "shrink" => evalPc = "shrink"
  <1>k. Kept => HeldInv'
    BY DEF HeldInv
  <1>1. ASSUME NEW l \in Lanes, Lane(l)
        PROVE  Kept
    <2>1. CASE LaneWake(l) \/ LaneLeave(l)
      BY <2>1, <1>l DEF LaneWake, LaneLeave, LaneStep, Held, InFlight
    <2>2. CASE \E j \in queued : LaneTake(l, j)
      BY <2>2, <1>l DEF LaneTake, LaneStep, Held, InFlight
    <2>3. CASE LaneReadOk(l) \/ LaneReadFail(l) \/ LaneFlag(l) \/ LaneNotify(l)
      BY <2>3, <1>l DEF LaneReadOk, LaneReadFail, LaneFlag, LaneNotify, LaneStep, Held, InFlight
    <2>4. CASE LaneCount(l)
      BY <2>4, <1>l DEF LaneCount, LaneStep, Held, InFlight
    <2>5. QED
      BY <1>1, <2>1, <2>2, <2>3, <2>4 DEF Lane
  <1>2. ASSUME NEW t \in Threads, Thread(t)
        PROVE  Kept
    BY <1>2 DEF Thread, EnterReady, SpinHit, Register, LastLook, LockedLook, Deregister, Use,
                threadUnchanged, Held, InFlight
  <1>3. ASSUME EvalStep
        PROVE  HeldInv'
    <2>1. CASE DrainBatch
      BY <2>1, <1>k DEF DrainBatch, Held, InFlight
    <2>2. ASSUME NEW e \in Experts, TouchEntry(e)
          PROVE  HeldInv'
      <3>1. CASE evalPc' = "touch"
        BY <3>1, <1>e DEF HeldInv
      <3>2. CASE evalPc' = "idle" /\ valid' = valid
        BY <2>2, <3>2, <1>k DEF TouchEntry, Held, InFlight
      <3>3. QED
        BY <2>2, <3>1, <3>2 DEF TouchEntry
    <2>3. ASSUME NEW s \in Slices, CommitWaveTwo(s)
          PROVE  HeldInv'
      BY <2>3, <1>k DEF CommitWaveTwo, Held, InFlight
    <2>4. CASE \/ Publish \/ PublishWaveTwo \/ Promote \/ EndPromote
               \/ (\E id \in Entries : EvictCold(id)) \/ (\E il \in Layers : EndLoad(il))
      <3>1. Live' /\ evalPc' # "shrink"
        BY <2>4 DEF Live, Publish, PublishWaveTwo, Promote, EndPromote, EvictCold, EndLoad
      <3>2. QED
        BY <3>1, <1>d DEF HeldInv
    <2>5. ASSUME NEW id \in Entries, ShrinkEvict(id)
          PROVE  HeldInv'
      BY <2>5 DEF ShrinkEvict, HeldInv
    <2>6. CASE EndCompute \/ EndShrink \/ JoinLanes
      BY <2>6, <1>k DEF EndCompute, EndShrink, JoinLanes, Held, InFlight
    <2>7. QED
      BY <1>3, <2>1, <2>2, <2>3, <2>4, <2>5, <2>6 DEF EvalStep
  <1>4. ASSUME Caller
        PROVE  HeldInv'
    <2>1. CASE \E il \in Layers, ids \in IdLists : BeginLoad(il, ids)
      BY <2>1, <1>k DEF BeginLoad, Held, InFlight
    <2>2. CASE \E b \in Budgets : SetCacheBudget(b)
      BY <2>2, <1>t DEF SetCacheBudget, HeldInv
    <2>3. CASE Shutdown
      BY <2>3, <1>k DEF Shutdown, Held, InFlight
    <2>4. QED
      BY <1>4, <2>1, <2>2, <2>3 DEF Caller
  <1>5. CASE UNCHANGED vars
    BY <1>5, <1>k DEF vars, Held, InFlight
  <1>6. QED
    BY <1>k, <1>1, <1>2, <1>3, <1>4, <1>5 DEF Next, Closed

(* The eviction that runs beside the reads is safe: as long as the budget   *)
(* is never changed, no lane reads into pages given back to the system.     *)
THEOREM EvictionSpareReads == Spec => [](resizes = 0 => NoReadIntoReleasedPages)
  <1> HIDE DEF Inv
  <1>1. Init => HeldInv
    BY DEF Init, HeldInv, Held, InFlight
  <1>2. Inv /\ HeldInv => (resizes = 0 => NoReadIntoReleasedPages)
    <2> SUFFICES ASSUME Inv, HeldInv, resizes = 0, NEW l \in Reading
                 PROVE  mem[CellOf(laneJob[l])] # "none"
      BY DEF NoReadIntoReleasedPages
    <2>1. mode.cached => valid[<<laneJob[l].layer, laneJob[l].expert>>]
      BY DEF HeldInv, Held, InFlight, Reading
    <2>2. QED
      BY <2>1 DEF Inv, PagesInv
  <1>3. Inv /\ Inv' /\ HeldInv /\ [Next]_vars => HeldInv'
    BY HeldStep
  <1>4. QED
    BY <1>1, <1>2, <1>3, Invariance, PTL DEF Spec
-----------------------------------------------------------------------------
(***************************************************************************)
(* The recency list and the resident bytes.  EntriesBytes is a sum over a  *)
(* set, defined by recursion over an arbitrary choice, so the proof first  *)
(* shows that the sum exists and that any entry can be taken from it.      *)
(***************************************************************************)

(* A set of numbers that is not empty has a least one.                     *)
LEMMA LeastNumber ==
  ASSUME NEW T, T \subseteq Nat, T # {}
  PROVE  \E x \in T : \A y \in T : x <= y
  <1>1. PICK x \in T : \A y \in T : ~ (<<y, x>> \in OpToRel(<, Nat))
    BY NatLessThanWellFounded, WFMin
  <1>2. ASSUME NEW y \in T
        PROVE  x <= y
    <2>1. ~(y < x) /\ x \in Nat /\ y \in Nat
      BY <1>1 DEF OpToRel
    <2>2. QED
      BY <2>1
  <1>3. QED
    BY <1>2

Weigh(id) == EntryBytes[id[1]]
AnyOf(S) == CHOOSE id \in S : TRUE
UpTo(n) == {S \in SUBSET Entries : Cardinality(S) <= n}
SumsUpTo(f, n) ==
  f = [S \in UpTo(n) |-> IF S = {} THEN 0 ELSE Weigh(AnyOf(S)) + f[S \ {AnyOf(S)}]]

LEMMA EntriesFinite ==
  /\ IsFiniteSet(Entries) /\ Cardinality(Entries) \in Nat
  /\ \A S \in SUBSET Entries : IsFiniteSet(S) /\ Cardinality(S) \in 0..Cardinality(Entries)
  /\ \A S \in SUBSET Entries : \A id \in S : Cardinality(S \ {id}) = Cardinality(S) - 1
  /\ \A S \in SUBSET Entries : S # {} => Cardinality(S) >= 1 /\ AnyOf(S) \in S
  /\ \A id \in Entries : Weigh(id) \in Nat
  <1>1. IsFiniteSet(Entries) /\ Cardinality(Entries) \in Nat
    BY ConstantsAssumption, FS_Product, FS_CardinalityType DEF Entries
  <1>2. ASSUME NEW S \in SUBSET Entries
        PROVE  /\ IsFiniteSet(S) /\ Cardinality(S) \in 0..Cardinality(Entries)
               /\ \A id \in S : Cardinality(S \ {id}) = Cardinality(S) - 1
               /\ S # {} => Cardinality(S) >= 1 /\ AnyOf(S) \in S
    <2>1. IsFiniteSet(S) /\ Cardinality(S) \in Nat /\ Cardinality(S) <= Cardinality(Entries)
      BY <1>1, FS_Subset, FS_CardinalityType
    <2>2. \A id \in S : Cardinality(S \ {id}) = Cardinality(S) - 1
      BY <2>1, FS_RemoveElement
    <2>3. S # {} => Cardinality(S) >= 1
      BY <2>1, FS_EmptySet
    <2>4. S # {} => AnyOf(S) \in S
      BY DEF AnyOf
    <2>5. QED
      BY <1>1, <2>1, <2>2, <2>3, <2>4
  <1>3. \A id \in Entries : Weigh(id) \in Nat
    BY ConstantsAssumption DEF Entries, Weigh
  <1>4. QED
    BY <1>1, <1>2, <1>3

(* The sums exist: were there a least size without them, those below it     *)
(* would give them.                                                         *)
LEMMA SumsExist == \A n \in Nat : \E f \in [UpTo(n) -> Int] : SumsUpTo(f, n)
  <1> DEFINE Bad == {n \in Nat : ~ \E f \in [UpTo(n) -> Int] : SumsUpTo(f, n)}
  <1>1. ASSUME Bad # {}
        PROVE  FALSE
    <2>1. PICK n \in Bad : \A k \in Bad : n <= k
      BY <1>1, LeastNumber
    <2>2. \A S \in UpTo(n) : S \in SUBSET Entries /\ (S # {} => AnyOf(S) \in S)
      BY EntriesFinite DEF UpTo
    <2>3. CASE n = 0
      <3> DEFINE f == [S \in UpTo(0) |-> 0]
      <3>1. \A S \in UpTo(0) : S = {}
        BY EntriesFinite DEF UpTo
      <3>2. f \in [UpTo(0) -> Int] /\ SumsUpTo(f, 0)
        BY <3>1 DEF SumsUpTo
      <3>3. QED
        BY <2>1, <2>3, <3>2
    <2>4. CASE n # 0
      <3>1. n - 1 \in Nat /\ n - 1 \notin Bad
        BY <2>1, <2>4
      <3>2. PICK f \in [UpTo(n - 1) -> Int] : SumsUpTo(f, n - 1)
        BY <3>1
      <3> DEFINE g == [S \in UpTo(n) |-> IF S = {} THEN 0 ELSE Weigh(AnyOf(S)) + f[S \ {AnyOf(S)}]]
      <3>3. \A S \in UpTo(n) : S # {} => S \ {AnyOf(S)} \in UpTo(n - 1)
        BY <2>1, <2>2, EntriesFinite DEF UpTo
      <3>4. \A S \in UpTo(n) : S # {} => Weigh(AnyOf(S)) \in Int
        BY <2>2, EntriesFinite
      <3>5. g \in [UpTo(n) -> Int]
        BY <3>2, <3>3, <3>4
      <3>6. \A S \in UpTo(n - 1) :
              S \in UpTo(n) /\ f[S] = IF S = {} THEN 0 ELSE Weigh(AnyOf(S)) + f[S \ {AnyOf(S)}]
        <4>1. ASSUME NEW S \in UpTo(n - 1)
              PROVE  S \in UpTo(n)
          <5>1. Cardinality(S) \in Nat /\ Cardinality(S) <= n - 1 /\ S \in SUBSET Entries
            BY EntriesFinite DEF UpTo
          <5>2. QED
            BY <2>1, <5>1 DEF UpTo
        <4>2. \A S \in UpTo(n - 1) :
                f[S] = IF S = {} THEN 0 ELSE Weigh(AnyOf(S)) + f[S \ {AnyOf(S)}]
          BY <3>2, Zenon DEF SumsUpTo
        <4>3. QED
          BY <4>1, <4>2
      <3>7. \A S \in UpTo(n - 1) : g[S] = f[S]
        BY <3>6
      <3>8. \A S \in UpTo(n) : S # {} => g[S \ {AnyOf(S)}] = f[S \ {AnyOf(S)}]
        BY <3>3, <3>7
      <3>9. SumsUpTo(g, n)
        BY <3>8 DEF SumsUpTo
      <3> HIDE DEF g
      <3>10. QED
        BY <2>1, <3>5, <3>9
    <2>5. QED
      BY <2>3, <2>4
  <1>2. QED
    BY <1>1

LEMMA EntriesBytesDef ==
  \A S \in SUBSET Entries :
    EntriesBytes[S] = IF S = {} THEN 0 ELSE Weigh(AnyOf(S)) + EntriesBytes[S \ {AnyOf(S)}]
  <1> DEFINE N == Cardinality(Entries)
  <1>1. PICK f \in [UpTo(N) -> Int] : SumsUpTo(f, N)
    BY EntriesFinite, SumsExist
  <1>2. UpTo(N) = SUBSET Entries
    BY EntriesFinite DEF UpTo
  <1>3. f = [S \in SUBSET Entries |->
               IF S = {} THEN 0 ELSE LET id == CHOOSE id \in S : TRUE
                                     IN  EntryBytes[id[1]] + f[S \ {id}]]
    BY <1>1, <1>2 DEF SumsUpTo, Weigh, AnyOf
  <1>4. EntriesBytes = [S \in SUBSET Entries |->
               IF S = {} THEN 0 ELSE LET id == CHOOSE id \in S : TRUE
                                     IN  EntryBytes[id[1]] + EntriesBytes[S \ {id}]]
    BY <1>3 DEF EntriesBytes
  <1>5. QED
    BY <1>4, Zenon DEF Weigh, AnyOf

(* The bytes of a set are a number, and an entry weighs in it what it is:   *)
(* whichever entry the sum takes first, it can be taken last.               *)
LEMMA EntriesBytesInt == \A S \in SUBSET Entries : EntriesBytes[S] \in Int
  <1> DEFINE Bad == {S \in SUBSET Entries : EntriesBytes[S] \notin Int}
             Sizes == {Cardinality(S) : S \in Bad}
  <1>1. ASSUME Bad # {}
        PROVE  FALSE
    <2>1. Sizes \subseteq Nat /\ Sizes # {}
      BY <1>1, EntriesFinite
    <2>2. PICK n \in Sizes : \A k \in Sizes : n <= k
      <3> HIDE DEF Sizes
      <3>1. QED
        BY <2>1, LeastNumber
    <2>3. PICK S \in Bad : Cardinality(S) = n
      BY <2>2
    <2>4. S # {}
      <3>1. EntriesBytes[{}] = 0
        BY EntriesBytesDef
      <3>2. EntriesBytes[S] \notin Int
        BY <2>3
      <3>3. QED
        BY <3>1, <3>2
    <2> DEFINE T == S \ {AnyOf(S)}
    <2>5. T \in SUBSET Entries /\ Cardinality(T) = n - 1 /\ n \in Nat /\ AnyOf(S) \in Entries
      BY <2>1, <2>2, <2>3, <2>4, EntriesFinite
    <2>6. T \notin Bad
      <3>1. T \in Bad => Cardinality(T) \in Sizes
        OBVIOUS
      <3> HIDE DEF Sizes, Bad, T
      <3>2. QED
        BY <2>2, <2>5, <3>1
    <2>7. EntriesBytes[S] = Weigh(AnyOf(S)) + EntriesBytes[T]
      BY <2>3, <2>4, EntriesBytesDef
    <2>8. Weigh(AnyOf(S)) \in Int /\ EntriesBytes[T] \in Int
      BY <2>5, <2>6, EntriesFinite
    <2>9. QED
      BY <2>3, <2>7, <2>8
  <1>2. QED
    BY <1>1

LEMMA EntryWeighs ==
  \A S \in SUBSET Entries : \A id \in S :
    EntriesBytes[S] = Weigh(id) + EntriesBytes[S \ {id}]
  <1> DEFINE Bad == {S \in SUBSET Entries :
                       \E id \in S : EntriesBytes[S] # Weigh(id) + EntriesBytes[S \ {id}]}
             Sizes == {Cardinality(S) : S \in Bad}
  <1>1. ASSUME Bad # {}
        PROVE  FALSE
    <2>1. Sizes \subseteq Nat /\ Sizes # {}
      BY <1>1, EntriesFinite
    <2>2. PICK n \in Sizes : \A k \in Sizes : n <= k
      <3> HIDE DEF Sizes
      <3>1. QED
        BY <2>1, LeastNumber
    <2>3. PICK S \in Bad : Cardinality(S) = n
      BY <2>2
    <2>4. PICK id \in S : EntriesBytes[S] # Weigh(id) + EntriesBytes[S \ {id}]
      BY <2>3
    <2> DEFINE c == AnyOf(S)
               T == S \ {c}
               U == S \ {id}
               V == S \ {c, id}
    <2>5. c \in S /\ S \in SUBSET Entries /\ EntriesBytes[S] = Weigh(c) + EntriesBytes[T]
      BY <2>3, <2>4, EntriesFinite, EntriesBytesDef
    <2> HIDE DEF c
    <2>6. c # id
      BY <2>4, <2>5
    <2>7. /\ T \in SUBSET Entries /\ Cardinality(T) = n - 1
          /\ U \in SUBSET Entries /\ Cardinality(U) = n - 1 /\ n \in Nat
      BY <2>1, <2>3, <2>4, <2>5, EntriesFinite
    <2>8. T \notin Bad /\ U \notin Bad
      <3>1. (T \in Bad => Cardinality(T) \in Sizes) /\ (U \in Bad => Cardinality(U) \in Sizes)
        OBVIOUS
      <3> HIDE DEF Sizes, Bad, T, U
      <3>2. QED
        BY <2>2, <2>7, <3>1
    <2>9. EntriesBytes[T] = Weigh(id) + EntriesBytes[V]
      <3>1. id \in T /\ T \ {id} = V
        BY <2>4, <2>6
      <3>2. QED
        BY <2>7, <2>8, <3>1
    <2>10. EntriesBytes[U] = Weigh(c) + EntriesBytes[V]
      <3>1. c \in U /\ U \ {c} = V
        BY <2>5, <2>6
      <3>2. QED
        BY <2>7, <2>8, <3>1
    <2>11. Weigh(c) \in Int /\ Weigh(id) \in Int /\ EntriesBytes[V] \in Int
      BY <2>5, EntriesFinite, EntriesBytesInt
    <2>12. QED
      BY <2>4, <2>5, <2>9, <2>10, <2>11
  <1>2. QED
    BY <1>1

(***************************************************************************)
(* The recency list: unlinking an entry takes it out, and only it; an entry *)
(* pushed that was not there is there once.                                 *)
(***************************************************************************)
Once(s) == \A i, k \in DOMAIN s : s[i] = s[k] => i = k

LEMMA UnlinkPlaces ==
  ASSUME NEW S, NEW s \in Seq(S), NEW id, id \in LruMembers(s)
  PROVE  \E i \in 1..Len(s) :
           /\ s[i] = id /\ LruUnlink(s, id) \in Seq(S) /\ Len(LruUnlink(s, id)) = Len(s) - 1
           /\ DOMAIN LruUnlink(s, id) = 1..(Len(s) - 1)
           /\ \A k \in 1..(Len(s) - 1) : LruUnlink(s, id)[k] = IF k < i THEN s[k] ELSE s[k + 1]
  <1>1. \E i \in DOMAIN s : s[i] = id
    BY DEF LruMembers
  <1> DEFINE i == CHOOSE i \in DOMAIN s : s[i] = id
             head == SubSeq(s, 1, i - 1)
             tail == SubSeq(s, i + 1, Len(s))
             u == head \o tail
             n == Len(s)
  <1>2. i \in 1..n /\ s[i] = id /\ n \in Nat /\ DOMAIN s = 1..n
    BY <1>1
  <1>3. LruUnlink(s, id) = u
    BY <1>1 DEF LruUnlink
  <1> HIDE DEF i
  <1>4. /\ head \in Seq(S) /\ Len(head) = i - 1 /\ \A k \in 1..(i - 1) : head[k] = s[k]
        /\ tail \in Seq(S) /\ Len(tail) = n - i /\ \A k \in 1..(n - i) : tail[k] = s[i + k]
    <2>1. \A k \in 1..n : s[k] \in S
      BY ElementOfSeq
    <2>2. /\ head \in Seq(S) /\ Len(head) = i - 1 /\ \A k \in 1..(i - 1) : head[k] = s[k]
      <3>1. \A k \in 1..(i - 1) : s[k] \in S
        BY <1>2, <2>1
      <3>2. 1 \in Int /\ i - 1 \in Int
        BY <1>2
      <3>3. /\ head \in Seq(S) /\ Len(head) = IF 1 <= i - 1 THEN i - 1 - 1 + 1 ELSE 0
            /\ \A k \in 1..(i - 1 - 1 + 1) : head[k] = s[1 + k - 1]
        BY <3>1, <3>2, SubSeqProperties
      <3> HIDE DEF head
      <3>4. QED
        BY <1>2, <3>3
    <2>3. /\ tail \in Seq(S) /\ Len(tail) = n - i /\ \A k \in 1..(n - i) : tail[k] = s[i + k]
      <3>1. \A k \in (i + 1)..n : s[k] \in S
        BY <1>2, <2>1
      <3>2. i + 1 \in Int /\ n \in Int
        BY <1>2
      <3>3. /\ tail \in Seq(S) /\ Len(tail) = IF i + 1 <= n THEN n - (i + 1) + 1 ELSE 0
            /\ \A k \in 1..(n - (i + 1) + 1) : tail[k] = s[(i + 1) + k - 1]
        BY <3>1, <3>2, SubSeqProperties
      <3> HIDE DEF tail, n
      <3>4. QED
        BY <1>2, <3>3
    <2>4. QED
      BY <2>2, <2>3
  <1> HIDE DEF head, tail
  <1>5. /\ u \in Seq(S) /\ Len(u) = n - 1 /\ DOMAIN u = 1..(n - 1)
        /\ \A k \in 1..(n - 1) : u[k] = IF k < i THEN s[k] ELSE s[k + 1]
    <2>1. /\ u \in Seq(S) /\ Len(u) = Len(head) + Len(tail)
          /\ \A k \in 1..Len(head) + Len(tail) :
               u[k] = IF k <= Len(head) THEN head[k] ELSE tail[k - Len(head)]
      BY <1>4, ConcatProperties
    <2> HIDE DEF u, n
    <2>2. Len(u) = n - 1 /\ DOMAIN u = 1..(n - 1)
      BY <1>2, <1>4, <2>1
    <2>3. ASSUME NEW k \in 1..(n - 1)
          PROVE  u[k] = IF k < i THEN s[k] ELSE s[k + 1]
      <3>1. u[k] = IF k <= i - 1 THEN head[k] ELSE tail[k - (i - 1)]
        BY <1>2, <1>4, <2>1
      <3>2. CASE k < i
        BY <1>2, <1>4, <3>1, <3>2
      <3>3. CASE ~(k < i)
        <4>1. k - (i - 1) \in 1..(n - i) /\ i + (k - (i - 1)) = k + 1
          BY <1>2, <3>3
        <4>2. QED
          BY <1>2, <1>4, <3>1, <3>3, <4>1
      <3>4. QED
        BY <3>2, <3>3
    <2>4. QED
      BY <2>1, <2>2, <2>3
  <1> HIDE DEF u, n
  <1>6. QED
    BY <1>2, <1>3, <1>5 DEF n

LEMMA UnlinkTakesOut ==
  ASSUME NEW S, NEW s \in Seq(S), Once(s), NEW id, id \in LruMembers(s)
  PROVE  /\ LruUnlink(s, id) \in Seq(S) /\ Once(LruUnlink(s, id))
         /\ LruMembers(LruUnlink(s, id)) = LruMembers(s) \ {id}
  <1> DEFINE u == LruUnlink(s, id)
             n == Len(s)
  <1>1. n \in Nat /\ DOMAIN s = 1..n
    OBVIOUS
  <1>2. PICK i \in 1..n : /\ s[i] = id /\ u \in Seq(S) /\ Len(u) = n - 1 /\ DOMAIN u = 1..(n - 1)
                         /\ \A k \in 1..(n - 1) : u[k] = IF k < i THEN s[k] ELSE s[k + 1]
    BY UnlinkPlaces
  <1> HIDE DEF u, n
  <1>3. Once(u)
    <2> SUFFICES ASSUME NEW k \in 1..(n - 1), NEW m \in 1..(n - 1), u[k] = u[m]
                 PROVE  k = m
      BY <1>1, <1>2 DEF Once
    <2>1. \A a, b \in 1..n : s[a] = s[b] => a = b
      BY <1>1, <1>2 DEF Once
    <2>2. k \in 1..n /\ k + 1 \in 1..n /\ m \in 1..n /\ m + 1 \in 1..n
      BY <1>1, <1>2
    <2>3. QED
      BY <1>1, <1>2, <2>1, <2>2
  <1>4. LruMembers(u) \subseteq LruMembers(s) \ {id}
    <2> SUFFICES ASSUME NEW k \in 1..(n - 1)
                 PROVE  u[k] \in LruMembers(s) \ {id}
      BY <1>1, <1>2 DEF LruMembers
    <2>1. k \in 1..n /\ k + 1 \in 1..n
      BY <1>1, <1>2
    <2>2. PICK m \in 1..n : u[k] = s[m] /\ m # i
      BY <1>1, <1>2, <2>1
    <2>3. s[m] # s[i]
      BY <1>1, <1>2, <2>2 DEF Once
    <2>4. QED
      BY <1>1, <1>2, <2>2, <2>3 DEF LruMembers
  <1>5. LruMembers(s) \ {id} \subseteq LruMembers(u)
    <2>a. LruMembers(s) = {s[m] : m \in 1..n} /\ LruMembers(u) = {u[k] : k \in 1..(n - 1)}
      BY <1>1, <1>2 DEF LruMembers
    <2> SUFFICES ASSUME NEW m \in 1..n, s[m] # id
                 PROVE  \E k \in 1..(n - 1) : u[k] = s[m]
      BY <2>a
    <2>1. CASE m < i
      <3>1. m \in 1..(n - 1)
        BY <1>1, <1>2, <2>1
      <3>2. QED
        BY <1>1, <1>2, <2>1, <3>1
    <2>2. CASE m > i
      <3>1. m - 1 \in 1..(n - 1) /\ ~(m - 1 < i) /\ (m - 1) + 1 = m
        BY <1>1, <1>2, <2>2
      <3>2. u[m - 1] = s[m]
        BY <1>1, <1>2, <3>1
      <3>3. QED
        BY <3>1, <3>2
    <2>3. m # i
      BY <1>1, <1>2
    <2>4. QED
      BY <1>1, <1>2, <2>1, <2>2, <2>3
  <1>6. QED
    BY <1>2, <1>3, <1>4, <1>5 DEF u

LEMMA PushPutsOnce ==
  ASSUME NEW S, NEW s \in Seq(S), Once(s), NEW id \in S, id \notin LruMembers(s)
  PROVE  /\ LruPushFront(s, id) \in Seq(S) /\ Once(LruPushFront(s, id))
         /\ LruMembers(LruPushFront(s, id)) = LruMembers(s) \cup {id}
  <1> DEFINE t == <<id>> \o s
             n == Len(s)
  <1>1. n \in Nat /\ DOMAIN s = 1..n /\ \A k \in 1..n : s[k] # id
    BY DEF LruMembers
  <1>2. /\ t \in Seq(S) /\ Len(t) = n + 1 /\ DOMAIN t = 1..(n + 1)
        /\ t[1] = id /\ \A k \in 1..n : t[k + 1] = s[k]
    BY <1>1
  <1> HIDE DEF t, n
  <1>3. \A k \in 1..(n + 1) : k = 1 \/ (k - 1 \in 1..n /\ t[k] = s[k - 1])
    <2> SUFFICES ASSUME NEW k \in 1..(n + 1), k # 1
                 PROVE  k - 1 \in 1..n /\ t[k] = s[k - 1]
      OBVIOUS
    <2>1. k - 1 \in 1..n /\ (k - 1) + 1 = k
      BY <1>1
    <2>2. QED
      BY <1>2, <2>1
  <1>4. Once(t)
    <2> SUFFICES ASSUME NEW k \in 1..(n + 1), NEW m \in 1..(n + 1), t[k] = t[m]
                 PROVE  k = m
      BY <1>2 DEF Once
    <2>1. k = 1 <=> m = 1
      BY <1>1, <1>2, <1>3
    <2>2. CASE k # 1 /\ m # 1
      <3>1. k - 1 = m - 1
        BY <1>1, <1>3, <2>2 DEF Once
      <3>2. QED
        BY <3>1
    <2>3. QED
      BY <2>1, <2>2
  <1>5. LruMembers(t) = LruMembers(s) \cup {id}
    <2>1. ASSUME NEW k \in 1..(n + 1)
          PROVE  t[k] \in LruMembers(s) \cup {id}
      BY <1>1, <1>2, <1>3 DEF LruMembers
    <2>2. ASSUME NEW k \in 1..n
          PROVE  s[k] \in LruMembers(t)
      <3>1. k + 1 \in 1..(n + 1)
        BY <1>1
      <3>2. QED
        BY <1>2, <3>1 DEF LruMembers
    <2>3. id \in LruMembers(t)
      <3>1. 1 \in 1..(n + 1)
        BY <1>1
      <3>2. QED
        BY <1>2, <3>1 DEF LruMembers
    <2>4. QED
      BY <1>1, <1>2, <2>1, <2>2, <2>3 DEF LruMembers
  <1>6. QED
    BY <1>2, <1>4, <1>5 DEF LruPushFront, t

-----------------------------------------------------------------------------
(* Steps that leave the cache alone keep what the list owes it.             *)
LEMMA CacheUntouched ==
  ASSUME LruIsValidSet, UNCHANGED <<valid, lru, resident>>
  PROVE  LruIsValidSet'
  BY DEF LruIsValidSet, LruMembers

LEMMA TouchKeepsList ==
  ASSUME TypeOK, BatchInv, LruIsValidSet, NEW e \in Experts, TouchEntry(e)
  PROVE  LruIsValidSet'
  <1> DEFINE id == <<reqLayer, e>>
  <1>1. id \in Entries
    BY DEF TouchEntry, BatchInv, Live, Entries
  <1>2. CASE UNCHANGED <<valid, lru, resident>>
    BY <1>2, CacheUntouched
  <1>3. CASE /\ ~valid[id] /\ valid' = [valid EXCEPT ![id] = TRUE]
             /\ resident' = resident + EntryBytes[reqLayer]
             /\ lru' = LruPushFront(lru, id)
    <2> DEFINE M == LruMembers(lru)
    <2>1. lru \in Seq(Entries) /\ valid \in [Entries -> BOOLEAN]
      BY DEF TypeOK
    <2>2. M = {x \in Entries : valid[x]} /\ Once(lru) /\ resident = EntriesBytes[M] /\ id \notin M
      BY <1>3 DEF LruIsValidSet, Once
    <2>3. M \in SUBSET Entries /\ M \cup {id} \in SUBSET Entries
      BY <1>1, <2>2
    <2> HIDE DEF id
    <2>4. Once(lru') /\ LruMembers(lru') = M \cup {id}
      BY <1>1, <1>3, <2>1, <2>2, PushPutsOnce
    <2>5. M \cup {id} = {x \in Entries : valid'[x]}
      BY <1>1, <1>3, <2>1, <2>2
    <2>6. EntriesBytes[M \cup {id}] = Weigh(id) + EntriesBytes[M]
      <3>1. (M \cup {id}) \ {id} = M
        BY <2>2
      <3>2. QED
        BY <2>3, <3>1, EntryWeighs
    <2>7. EntriesBytes[M] \in Int /\ Weigh(id) \in Int /\ Weigh(id) = EntryBytes[reqLayer]
      <3>1. Weigh(id) = EntryBytes[reqLayer]
        BY DEF Weigh, id
      <3>2. QED
        BY <1>1, <2>3, <3>1, EntriesBytesInt, EntriesFinite
    <2>8. resident' = EntriesBytes[M \cup {id}]
      BY <1>3, <2>2, <2>6, <2>7
    <2>9. QED
      BY <2>4, <2>5, <2>8 DEF LruIsValidSet, Once
  <1>4. QED
    BY <1>2, <1>3 DEF TouchEntry

LEMMA PromoteKeepsList ==
  ASSUME TypeOK, BatchInv, LruIsValidSet, Promote
  PROVE  LruIsValidSet'
  <1> DEFINE id == <<reqLayer, Head(reqIds)>>
             u == LruUnlink(lru, id)
             M == LruMembers(lru)
  <1>1. id \in Entries
    BY DEF Promote, BatchInv, Live, Entries, TypeOK
  <1>2. valid' = valid /\ resident' = resident
    BY DEF Promote
  <1>3. CASE lru' = lru
    BY <1>2, <1>3, CacheUntouched
  <1>4. CASE valid[id] /\ lru' = LruPushFront(u, id)
    <2>1. lru \in Seq(Entries)
      BY DEF TypeOK
    <2>2. Once(lru) /\ id \in M
      BY <1>1, <1>4 DEF LruIsValidSet, Once
    <2> HIDE DEF id
    <2>3. u \in Seq(Entries) /\ Once(u) /\ LruMembers(u) = M \ {id}
      BY <2>1, <2>2, UnlinkTakesOut
    <2> HIDE DEF u
    <2>4. Once(lru') /\ LruMembers(lru') = (M \ {id}) \cup {id}
      <3>1. id \notin LruMembers(u)
        BY <2>3
      <3>2. QED
        BY <1>1, <1>4, <2>3, <3>1, PushPutsOnce
    <2>5. LruMembers(lru') = M
      BY <2>2, <2>4
    <2>6. QED
      BY <1>2, <2>4, <2>5 DEF LruIsValidSet, Once
  <1>5. QED
    BY <1>3, <1>4 DEF Promote, Promoted

LEMMA EvictKeepsList ==
  ASSUME TypeOK, LruIsValidSet, NEW id \in Entries, EvictTail(id)
  PROVE  LruIsValidSet'
  <1> DEFINE M == LruMembers(lru)
             u == LruUnlink(lru, id)
  <1>1. /\ lru \in Seq(Entries) /\ valid \in [Entries -> BOOLEAN] /\ id \in M
        /\ lru' = u /\ valid' = [valid EXCEPT ![id] = FALSE]
        /\ resident' = resident - EntryBytes[id[1]]
    <2>1. lru \in Seq(Entries) /\ valid \in [Entries -> BOOLEAN]
      BY DEF TypeOK
    <2>2. Len(lru) \in DOMAIN lru /\ id = lru[Len(lru)]
      BY <2>1, EmptySeq DEF EvictTail
    <2>3. QED
      BY <2>1, <2>2 DEF EvictTail, LruMembers
  <1>2. M = {x \in Entries : valid[x]} /\ Once(lru) /\ resident = EntriesBytes[M]
    BY DEF LruIsValidSet, Once
  <1>3. Once(u) /\ LruMembers(u) = M \ {id}
    BY <1>1, <1>2, UnlinkTakesOut
  <1> HIDE DEF u
  <1>4. M \ {id} = {x \in Entries : valid'[x]}
    BY <1>1, <1>2
  <1>5. EntriesBytes[M] = Weigh(id) + EntriesBytes[M \ {id}]
    BY <1>1, <1>2, EntryWeighs
  <1>6. EntriesBytes[M \ {id}] \in Int /\ Weigh(id) \in Int /\ Weigh(id) = EntryBytes[id[1]]
    BY <1>2, EntriesBytesInt, EntriesFinite DEF Weigh
  <1>7. resident' = EntriesBytes[M \ {id}]
    BY <1>1, <1>2, <1>5, <1>6
  <1>8. QED
    BY <1>1, <1>3, <1>4, <1>7 DEF LruIsValidSet, Once

LEMMA ListStep ==
  ASSUME TypeOK, BatchInv, LruIsValidSet, [Next]_vars
  PROVE  LruIsValidSet'
  <1>1. CASE \E e \in Experts : TouchEntry(e)
    BY <1>1, TouchKeepsList
  <1>2. CASE Promote
    BY <1>2, PromoteKeepsList
  <1>3. CASE \E id \in Entries : EvictCold(id) \/ ShrinkEvict(id)
    BY <1>3, EvictKeepsList DEF EvictCold, ShrinkEvict
  <1>4. CASE UNCHANGED <<valid, lru, resident>>
    BY <1>4, CacheUntouched
  <1>5. ASSUME NEW l \in Lanes, Lane(l)
        PROVE  UNCHANGED <<valid, lru, resident>>
    BY <1>5 DEF Lane, LaneWake, LaneLeave, LaneTake, LaneReadOk, LaneReadFail, LaneFlag,
                LaneNotify, LaneCount
  <1>6. ASSUME NEW t \in Threads, Thread(t)
        PROVE  UNCHANGED <<valid, lru, resident>>
    BY <1>6 DEF Thread, EnterReady, SpinHit, Register, LastLook, LockedLook, Deregister, Use,
                threadUnchanged
  <1>7. ASSUME Caller
        PROVE  UNCHANGED <<valid, lru, resident>>
    BY <1>7 DEF Caller, BeginLoad, SetCacheBudget, Shutdown
  <1>8. ASSUME \/ DrainBatch \/ Publish \/ (\E s \in Slices : CommitWaveTwo(s))
               \/ PublishWaveTwo \/ EndPromote \/ (\E il \in Layers : EndLoad(il))
               \/ EndCompute \/ EndShrink \/ JoinLanes \/ UNCHANGED vars
        PROVE  UNCHANGED <<valid, lru, resident>>
    BY <1>8 DEF DrainBatch, Publish, CommitWaveTwo, PublishWaveTwo, EndPromote, EndLoad,
                EndCompute, EndShrink, JoinLanes, vars
  <1>9. QED
    BY <1>1, <1>2, <1>3, <1>4, <1>5, <1>6, <1>7, <1>8 DEF Next, EvalStep, Closed

-----------------------------------------------------------------------------
(***************************************************************************)
(* The order of the list: what a load staged gets in front of the rest.     *)
(***************************************************************************)
\* Every entry of the list up to x belongs to C.
InFront(s, C, x) == \A k \in DOMAIN s : s[k] = x => \A i \in 1..k : s[i] \in C

LEMMA UnlinkKeepsFront ==
  ASSUME NEW S, NEW s \in Seq(S), NEW id, id \in LruMembers(s), NEW C,
         NEW x, x # id, InFront(s, C, x)
  PROVE  InFront(LruUnlink(s, id), C, x)
  <1> DEFINE u == LruUnlink(s, id)
             n == Len(s)
  <1>1. n \in Nat /\ DOMAIN s = 1..n
    OBVIOUS
  <1>2. PICK j \in 1..n : /\ s[j] = id /\ u \in Seq(S) /\ Len(u) = n - 1 /\ DOMAIN u = 1..(n - 1)
                         /\ \A k \in 1..(n - 1) : u[k] = IF k < j THEN s[k] ELSE s[k + 1]
    BY UnlinkPlaces
  <1> HIDE DEF u, n
  <1>3. SUFFICES ASSUME NEW k \in 1..(n - 1), u[k] = x, NEW i \in 1..k
                 PROVE  u[i] \in C
    BY <1>2 DEF InFront, u
  <1>4. i \in 1..(n - 1)
    BY <1>1
  <1>5. CASE k < j
    <2>1. k \in DOMAIN s /\ s[k] = x /\ u[i] = s[i]
      BY <1>1, <1>2, <1>3, <1>4, <1>5
    <2>2. QED
      BY <2>1 DEF InFront
  <1>6. CASE ~(k < j)
    <2>1. k + 1 \in DOMAIN s /\ s[k + 1] = x
      BY <1>1, <1>2, <1>3, <1>6
    <2>2. i \in 1..(k + 1) /\ i + 1 \in 1..(k + 1)
      BY <1>1
    <2>3. s[i] \in C /\ s[i + 1] \in C
      BY <2>1, <2>2 DEF InFront
    <2>4. QED
      BY <1>2, <1>4, <2>3
  <1>7. QED
    BY <1>5, <1>6

LEMMA PushKeepsFront ==
  ASSUME NEW S, NEW s \in Seq(S), NEW C, NEW id \in S, id \in C, id \notin LruMembers(s)
  PROVE  /\ InFront(LruPushFront(s, id), C, id)
         /\ \A x : InFront(s, C, x) => InFront(LruPushFront(s, id), C, x)
  <1> DEFINE t == <<id>> \o s
             n == Len(s)
  <1>1. n \in Nat /\ DOMAIN s = 1..n /\ \A k \in 1..n : s[k] # id
    BY DEF LruMembers
  <1>2. Len(t) = n + 1 /\ DOMAIN t = 1..(n + 1) /\ t[1] = id /\ \A k \in 1..n : t[k + 1] = s[k]
    BY <1>1
  <1> HIDE DEF t, n
  <1>3. \A k \in 1..(n + 1) : k = 1 \/ (k - 1 \in 1..n /\ t[k] = s[k - 1])
    <2> SUFFICES ASSUME NEW k \in 1..(n + 1), k # 1
                 PROVE  k - 1 \in 1..n /\ t[k] = s[k - 1]
      OBVIOUS
    <2>1. k - 1 \in 1..n /\ (k - 1) + 1 = k
      BY <1>1
    <2>2. QED
      BY <1>2, <2>1
  <1>4. InFront(t, C, id)
    <2> SUFFICES ASSUME NEW k \in 1..(n + 1), t[k] = id, NEW i \in 1..k
                 PROVE  t[i] \in C
      BY <1>2 DEF InFront
    <2>1. k = 1
      BY <1>1, <1>3
    <2>2. QED
      BY <1>2, <2>1
  <1>5. ASSUME NEW x, InFront(s, C, x)
        PROVE  InFront(t, C, x)
    <2> SUFFICES ASSUME NEW k \in 1..(n + 1), t[k] = x, NEW i \in 1..k
                 PROVE  t[i] \in C
      BY <1>2 DEF InFront
    <2>1. i = 1 => t[i] \in C
      BY <1>2
    <2>2. ASSUME i # 1
          PROVE  t[i] \in C
      <3>1. k # 1 /\ i \in 1..(n + 1)
        BY <1>1, <2>2
      <3>2. k - 1 \in DOMAIN s /\ s[k - 1] = x /\ i - 1 \in 1..(k - 1) /\ t[i] = s[i - 1]
        BY <1>1, <1>3, <2>2, <3>1
      <3>3. QED
        BY <1>5, <3>2 DEF InFront
    <2>3. QED
      BY <2>1, <2>2
  <1>6. QED
    BY <1>4, <1>5 DEF LruPushFront, t

\* What carries the stamp of this load is routed, and once its id was promoted
\* nothing older is in front of it.
Fresh == {id \in Entries : stamp[id] = cgen}
Unpromoted == {<<reqLayer, e>> : e \in LruMembers(reqIds)}
Loading == /\ mode.cached /\ ~mode.loadAll
           /\ evalPc \in {"touch", "commit", "promote", "evict", "compute"}
OrderInv ==
  /\ \A id \in Entries : stamp[id] <= cgen
  /\ evalPc \in {"evict", "compute"} => reqIds = << >>
  /\ Loading =>
       /\ staged \subseteq LruMembers(reqIds) /\ LruMembers(reqIds) \subseteq routed
       /\ evalPc # "touch" => staged = {}
       /\ \A e \in routed \ staged : <<reqLayer, e>> \in Fresh
       /\ \A id \in Fresh : id[1] = reqLayer /\ id[2] \in routed
       /\ \A x \in LruMembers(lru) \cap Fresh : x \in Unpromoted \/ InFront(lru, Fresh, x)

LEMMA TouchKeepsOrder ==
  ASSUME TypeOK, BatchInv, LruIsValidSet, OrderInv, NEW e \in Experts, TouchEntry(e)
  PROVE  OrderInv'
  <1> DEFINE id == <<reqLayer, e>>
  <1>1. /\ id \in Entries /\ evalPc = "touch" /\ e \in staged
        /\ stamp' = [stamp EXCEPT ![id] = cgen] /\ cgen' = cgen /\ cgen \in Nat
        /\ stamp \in [Entries -> Nat] /\ lru \in Seq(Entries) /\ valid \in [Entries -> BOOLEAN]
    BY DEF TouchEntry, BatchInv, Live, Entries, TypeOK
  <1>2. /\ UNCHANGED <<mode, reqLayer, reqIds, routed>> /\ staged' = staged \ {e}
        /\ evalPc' \in {"touch", "idle"}
    BY <1>1 DEF TouchEntry
  <1> HIDE DEF id
  <1>3. Fresh' = Fresh \cup {id}
    BY <1>1 DEF Fresh
  <1>4. \A x \in Entries : stamp'[x] <= cgen'
    BY <1>1 DEF OrderInv
  <1>5. ASSUME Loading'
        PROVE  /\ \A x \in Fresh' : x[1] = reqLayer /\ x[2] \in routed
               /\ id \in Unpromoted' /\ Unpromoted' = Unpromoted /\ Loading
               /\ \A f \in routed' \ staged' : <<reqLayer', f>> \in Fresh'
    <2>1. Loading /\ Unpromoted' = Unpromoted
      BY <1>1, <1>2, <1>5 DEF Loading, Unpromoted
    <2>2. e \in routed /\ e \in LruMembers(reqIds)
      BY <1>1, <2>1 DEF OrderInv, Loading
    <2>3. id[1] = reqLayer /\ id[2] \in routed /\ id \in Unpromoted
      BY <2>2 DEF id, Unpromoted
    <2>4. ASSUME NEW f \in routed' \ staged'
          PROVE  <<reqLayer', f>> \in Fresh'
      <3>1. f = e => <<reqLayer', f>> = id
        BY <1>2 DEF id
      <3>2. f # e => <<reqLayer, f>> \in Fresh
        BY <1>2, <2>1 DEF OrderInv
      <3>3. QED
        BY <1>2, <1>3, <3>1, <3>2
    <2>5. QED
      BY <1>3, <2>1, <2>3, <2>4 DEF OrderInv
  <1>6. ASSUME Loading', NEW x \in LruMembers(lru') \cap Fresh'
        PROVE  x \in Unpromoted' \/ InFront(lru', Fresh', x)
    <2>1. CASE x = id
      BY <1>5, <1>6, <2>1
    <2>2. CASE x # id /\ lru' = lru
      <3>1. x \in LruMembers(lru) \cap Fresh
        BY <1>3, <1>6, <2>2
      <3>2. x \in Unpromoted \/ InFront(lru, Fresh, x)
        BY <1>5, <1>6, <3>1 DEF OrderInv
      <3>3. InFront(lru, Fresh, x) => InFront(lru, Fresh', x)
        BY <1>3 DEF InFront
      <3>4. QED
        BY <1>5, <1>6, <2>2, <3>2, <3>3
    <2>3. CASE x # id /\ ~valid[id] /\ lru' = LruPushFront(lru, id)
      <3>1. id \notin LruMembers(lru)
        BY <1>1, <2>3 DEF LruIsValidSet
      <3>2. Once(lru)
        BY DEF LruIsValidSet, Once
      <3>3. LruMembers(lru') = LruMembers(lru) \cup {id}
        BY <1>1, <2>3, <3>1, <3>2, PushPutsOnce
      <3>4. x \in LruMembers(lru) \cap Fresh
        BY <1>3, <1>6, <2>3, <3>3
      <3>5. x \in Unpromoted \/ InFront(lru, Fresh, x)
        BY <1>5, <1>6, <3>4 DEF OrderInv
      <3>6. InFront(lru, Fresh, x) => InFront(lru, Fresh', x)
        BY <1>3 DEF InFront
      <3>7. InFront(lru, Fresh', x) => InFront(lru', Fresh', x)
        BY <1>1, <1>3, <2>3, <3>1, PushKeepsFront
      <3>8. QED
        BY <1>5, <1>6, <3>5, <3>6, <3>7
    <2>4. QED
      BY <2>1, <2>2, <2>3 DEF TouchEntry, id
  <1>7. Loading' => staged' \subseteq LruMembers(reqIds') /\ LruMembers(reqIds') \subseteq routed'
    BY <1>2, <1>5 DEF OrderInv
  <1>8. Loading' => evalPc' = "touch" /\ evalPc' \notin {"evict", "compute"}
    BY <1>2 DEF Loading
  <1>9. evalPc' \notin {"evict", "compute"}
    BY <1>2
  <1>10. QED
    BY <1>2, <1>4, <1>5, <1>6, <1>7, <1>8, <1>9 DEF OrderInv

LEMMA PromoteKeepsOrder ==
  ASSUME TypeOK, BatchInv, LruIsValidSet, OrderInv, Promote
  PROVE  OrderInv'
  <1> DEFINE id == <<reqLayer, Head(reqIds)>>
             u == LruUnlink(lru, id)
  <1>1. /\ UNCHANGED <<mode, evalPc, reqLayer, routed, staged, valid, stamp, cgen>>
        /\ evalPc = "promote" /\ reqIds' = Tail(reqIds) /\ reqIds # << >>
    BY DEF Promote
  <1>2. /\ id \in Entries /\ lru \in Seq(Entries) /\ valid \in [Entries -> BOOLEAN]
        /\ reqIds \in Seq(Experts)
    BY DEF Promote, BatchInv, Live, Entries, TypeOK
  <1>3. Fresh' = Fresh
    BY <1>1 DEF Fresh
  <1>4. \A x \in Unpromoted : x = id \/ x \in Unpromoted'
    <2>1. \A k \in DOMAIN reqIds : k = 1 \/ (k - 1 \in DOMAIN Tail(reqIds) /\ Tail(reqIds)[k - 1] = reqIds[k])
      BY <1>1, <1>2
    <2>2. Head(reqIds) = reqIds[1]
      BY <1>1, <1>2
    <2>3. \A e \in LruMembers(reqIds) : e = Head(reqIds) \/ e \in LruMembers(reqIds')
      BY <1>1, <2>1, <2>2 DEF LruMembers
    <2>4. QED
      BY <1>1, <2>3 DEF Unpromoted
  <1> HIDE DEF id
  <1>5. ASSUME Loading', NEW x \in LruMembers(lru') \cap Fresh'
        PROVE  x \in Unpromoted' \/ InFront(lru', Fresh', x)
    <2>1. Loading /\ mode.cached /\ ~mode.loadAll
      BY <1>1, <1>5 DEF Loading
    <2>2. CASE ~valid[id]
      <3>1. lru' = lru /\ x # id
        <4>1. lru' = lru
          BY <2>2 DEF Promote, id
        <4>2. QED
          BY <1>5, <2>2, <4>1 DEF LruIsValidSet
      <3>2. QED
        BY <1>3, <1>4, <1>5, <2>1, <3>1 DEF OrderInv
    <2>3. CASE valid[id]
      <3>0. id \in Fresh
        <4>1. Head(reqIds) \in LruMembers(reqIds)
          BY <1>1, <1>2 DEF LruMembers
        <4>2. QED
          BY <1>1, <2>1, <4>1 DEF OrderInv, id
      <3>1. lru' = LruPushFront(u, id)
        BY <2>1, <2>3 DEF Promote, Promoted, id
      <3>2. Once(lru) /\ id \in LruMembers(lru)
        BY <1>2, <2>3 DEF LruIsValidSet, Once
      <3>3. u \in Seq(Entries) /\ Once(u) /\ LruMembers(u) = LruMembers(lru) \ {id}
        BY <1>2, <3>2, UnlinkTakesOut
      <3>4. id \notin LruMembers(u) /\ LruMembers(lru') = LruMembers(lru)
        <4>1. LruMembers(lru') = LruMembers(u) \cup {id}
          BY <1>2, <3>1, <3>3, PushPutsOnce
        <4>2. QED
          BY <3>2, <3>3, <4>1
      <3>5. InFront(lru', Fresh, id) /\ (InFront(u, Fresh, x) => InFront(lru', Fresh, x))
        <4> HIDE DEF u
        <4>1. QED
          BY <1>2, <3>0, <3>1, <3>3, <3>4, PushKeepsFront
      <3>6. x # id => x \in Unpromoted' \/ InFront(u, Fresh, x)
        <4>1. x \in LruMembers(lru) \cap Fresh
          BY <1>3, <1>5, <3>4
        <4>2. x \in Unpromoted \/ InFront(lru, Fresh, x)
          BY <2>1, <4>1 DEF OrderInv
        <4>3. x # id /\ InFront(lru, Fresh, x) => InFront(u, Fresh, x)
          BY <1>2, <3>2, UnlinkKeepsFront
        <4>4. QED
          BY <1>4, <4>2, <4>3
      <3>7. QED
        BY <1>3, <3>5, <3>6
    <2>4. QED
      BY <2>2, <2>3
  <1>6. LruMembers(reqIds') \subseteq LruMembers(reqIds)
    <2>1. \A k \in DOMAIN Tail(reqIds) : k + 1 \in DOMAIN reqIds /\ Tail(reqIds)[k] = reqIds[k + 1]
      BY <1>1, <1>2
    <2>2. QED
      BY <1>1, <2>1 DEF LruMembers
  <1>7. Loading' => Loading /\ staged' = {}
    BY <1>1 DEF Loading, OrderInv
  <1>8. QED
    BY <1>1, <1>3, <1>5, <1>6, <1>7 DEF OrderInv

LEMMA EvictKeepsOrder ==
  ASSUME TypeOK, LruIsValidSet, OrderInv, NEW id \in Entries, EvictTail(id),
         UNCHANGED <<mode, evalVars>>
  PROVE  OrderInv'
  <1>1. /\ UNCHANGED <<mode, evalPc, reqLayer, reqIds, routed, staged, stamp, cgen>>
        /\ lru' = LruUnlink(lru, id)
    BY DEF EvictTail, evalVars, callVars
  <1>2. lru \in Seq(Entries) /\ Once(lru) /\ id \in LruMembers(lru)
    <2>1. lru \in Seq(Entries) /\ Once(lru)
      BY DEF TypeOK, LruIsValidSet, Once
    <2>2. Len(lru) \in DOMAIN lru /\ id = lru[Len(lru)]
      BY <2>1, EmptySeq DEF EvictTail
    <2>3. QED
      BY <2>1, <2>2 DEF LruMembers
  <1>3. Fresh' = Fresh /\ Unpromoted' = Unpromoted /\ Loading' = Loading
    BY <1>1 DEF Fresh, Unpromoted, Loading
  <1>4. LruMembers(lru') = LruMembers(lru) \ {id}
    BY <1>1, <1>2, UnlinkTakesOut
  <1>5. ASSUME NEW x \in LruMembers(lru) \ {id}, InFront(lru, Fresh, x)
        PROVE  InFront(lru', Fresh, x)
    BY <1>1, <1>2, <1>5, UnlinkKeepsFront
  <1>6. QED
    BY <1>1, <1>3, <1>4, <1>5 DEF OrderInv

LEMMA DrainKeepsOrder ==
  ASSUME TypeOK, OrderInv, DrainBatch
  PROVE  OrderInv'
  <1>1. UNCHANGED <<mode, reqLayer, reqIds, stamp, lru>> /\ evalPc' \in {"idle", "touch"}
    BY DEF DrainBatch
  <1>2. stamp \in [Entries -> Nat] /\ cgen \in Nat
    BY DEF TypeOK
  <1>3. CASE evalPc' = "idle"
    <2>1. cgen' = cgen
      BY <1>3 DEF DrainBatch
    <2>2. QED
      BY <1>1, <1>3, <2>1 DEF OrderInv, Loading
  <1>4. CASE evalPc' = "touch"
    <2>1. /\ cgen' = cgen + 1 /\ routed' = LruMembers(reqIds)
          /\ ~mode.loadAll => staged' = LruMembers(reqIds)
      BY <1>4 DEF DrainBatch
    <2>2. Fresh' = {} /\ \A id \in Entries : stamp'[id] <= cgen'
      BY <1>1, <1>2, <2>1 DEF OrderInv, Fresh
    <2>3. QED
      BY <1>1, <1>4, <2>1, <2>2 DEF OrderInv, Loading
  <1>5. QED
    BY <1>1, <1>3, <1>4

\* A step of the load that moves on without touching the cache, or a step of
\* anyone else.
MovesOn ==
  /\ UNCHANGED <<mode, stamp, lru, cgen>>
  /\ evalPc' \in {"evict", "compute"} => reqIds' = << >>
  /\ Loading' => /\ Loading
                 /\ UNCHANGED <<reqLayer, reqIds, routed, staged>>
                 /\ evalPc' = evalPc \/ staged = {}

LEMMA MovingOnKeepsOrder ==
  ASSUME OrderInv, MovesOn
  PROVE  OrderInv'
  <1>1. Fresh' = Fresh
    BY DEF MovesOn, Fresh
  <1>2. Loading' => Unpromoted' = Unpromoted
    BY DEF MovesOn, Unpromoted
  <1>3. QED
    BY <1>1, <1>2 DEF OrderInv, MovesOn

LEMMA OrderStep ==
  ASSUME TypeOK, BatchInv, LruIsValidSet, OrderInv, [Next]_vars
  PROVE  OrderInv'
  <1>1. CASE \E e \in Experts : TouchEntry(e)
    BY <1>1, TouchKeepsOrder
  <1>2. CASE Promote
    BY <1>2, PromoteKeepsOrder
  <1>3. CASE \E id \in Entries : EvictCold(id) \/ ShrinkEvict(id)
    BY <1>3, EvictKeepsOrder DEF EvictCold, ShrinkEvict
  <1>4. CASE DrainBatch
    BY <1>4, DrainKeepsOrder
  <1>5. CASE MovesOn
    BY <1>5, MovingOnKeepsOrder
  <1>6. ASSUME UNCHANGED <<mode, evalPc, callVars, stamp, lru, cgen>>
        PROVE  MovesOn
    BY <1>6 DEF MovesOn, callVars, OrderInv, Loading
  <1>7. ASSUME NEW l \in Lanes, Lane(l)
        PROVE  MovesOn
    BY <1>6, <1>7 DEF Lane, LaneWake, LaneLeave, LaneTake, LaneReadOk, LaneReadFail, LaneFlag,
                      LaneNotify, LaneCount, evalVars, cacheVars
  <1>8. ASSUME NEW t \in Threads, Thread(t)
        PROVE  MovesOn
    BY <1>6, <1>8 DEF Thread, EnterReady, SpinHit, Register, LastLook, LockedLook, Deregister,
                      Use, threadUnchanged, evalVars, cacheVars
  <1>9. ASSUME Caller
        PROVE  MovesOn
    <2>1. CASE \E il \in Layers, ids \in IdLists : BeginLoad(il, ids)
      BY <1>6, <2>1 DEF BeginLoad, MovesOn, Loading, evalVars, cacheVars
    <2>2. CASE \E b \in Budgets : SetCacheBudget(b)
      BY <2>2 DEF SetCacheBudget, MovesOn, Loading
    <2>3. CASE Shutdown
      BY <2>3 DEF Shutdown, MovesOn, Loading, cacheVars
    <2>4. QED
      BY <1>9, <2>1, <2>2, <2>3 DEF Caller
  <1>10. ASSUME \/ Publish \/ (\E s \in Slices : CommitWaveTwo(s)) \/ PublishWaveTwo
               \/ EndPromote \/ (\E il \in Layers : EndLoad(il)) \/ EndCompute \/ EndShrink
               \/ JoinLanes
         PROVE  MovesOn
    <2>1. CASE Publish
      BY <2>1 DEF Publish, MovesOn, Loading, cacheVars
    <2>2. CASE (\E s \in Slices : CommitWaveTwo(s)) \/ PublishWaveTwo
      BY <2>2 DEF CommitWaveTwo, PublishWaveTwo, OrderInv, MovesOn, Loading, callVars, cacheVars
    <2>3. CASE EndPromote \/ (\E il \in Layers : EndLoad(il))
      BY <2>3 DEF EndPromote, EndLoad, OrderInv, MovesOn, Loading, callVars, cacheVars
    <2>4. CASE EndCompute \/ EndShrink \/ JoinLanes
      BY <2>4 DEF EndCompute, EndShrink, JoinLanes, MovesOn, Loading, cacheVars
    <2>5. QED
      BY <1>10, <2>1, <2>2, <2>3, <2>4
  <1>11. ASSUME UNCHANGED vars
         PROVE  MovesOn
    BY <1>6, <1>11 DEF vars, evalVars, cacheVars
  <1>12. QED
    BY <1>1, <1>2, <1>3, <1>4, <1>5, <1>7, <1>8, <1>9, <1>10, <1>11 DEF Next, EvalStep, Closed

\* The load ends with what it staged in front and no older tail left to evict.
LEMMA ExcessAtTheEnd ==
  ASSUME TypeOK, BatchInv, LruIsValidSet, OrderInv, NEW il \in Layers, EndLoad(il)
  PROVE  ExcessIsInUse'
  <1>1. UNCHANGED <<mode, reqLayer, reqIds, routed, valid, stamp, lru, resident, cacheMax, cgen>>
    BY DEF EndLoad, callVars, cacheVars
  <1>2. SUFFICES ASSUME mode.cached, ~mode.loadAll, resident > cacheMax, NEW id \in Entries, valid[id]
                 PROVE  id[1] = reqLayer /\ id[2] \in routed
    BY <1>1 DEF ExcessIsInUse
  <1>3. lru \in Seq(Entries) /\ id \in LruMembers(lru)
    BY <1>2 DEF TypeOK, LruIsValidSet
  <1>4. PICK i \in 1..Len(lru) : lru[i] = id
    BY <1>3 DEF LruMembers
  <1> DEFINE n == Len(lru)
             last == lru[n]
  <1>5. n \in 1..n /\ lru # << >> /\ last \in Entries /\ last \in LruMembers(lru)
    BY <1>3, <1>4 DEF LruMembers
  <1>6. last \in Fresh
    BY <1>2, <1>5 DEF EndLoad, MayEvict, OverBudget, Fresh
  <1>7. Loading /\ reqIds = << >>
    BY <1>2 DEF EndLoad, Loading, OrderInv
  <1>8. Unpromoted = {}
    BY <1>7 DEF Unpromoted, LruMembers
  <1>9. InFront(lru, Fresh, last)
    BY <1>5, <1>6, <1>7, <1>8 DEF OrderInv
  <1>10. lru[i] \in Fresh
    BY <1>3, <1>4, <1>5, <1>9 DEF InFront
  <1>11. QED
    BY <1>4, <1>7, <1>10 DEF OrderInv

LEMMA ExcessStep ==
  ASSUME TypeOK, BatchInv, LruIsValidSet, OrderInv, ExcessIsInUse, [Next]_vars
  PROVE  ExcessIsInUse'
  <1> DEFINE Kept == evalPc' = "compute" =>
                       evalPc = "compute" /\ UNCHANGED <<mode, reqLayer, routed, cacheVars>>
  <1>1. Kept => ExcessIsInUse'
    BY DEF ExcessIsInUse, cacheVars
  <1>2. CASE \E il \in Layers : EndLoad(il)
    BY <1>2, ExcessAtTheEnd
  <1>3. ASSUME NEW l \in Lanes, Lane(l)
        PROVE  Kept
    BY <1>3 DEF Lane, LaneWake, LaneLeave, LaneTake, LaneReadOk, LaneReadFail, LaneFlag,
                LaneNotify, LaneCount, evalVars, callVars
  <1>4. ASSUME NEW t \in Threads, Thread(t)
        PROVE  Kept
    BY <1>4 DEF Thread, EnterReady, SpinHit, Register, LastLook, LockedLook, Deregister, Use,
                threadUnchanged, evalVars, callVars
  <1>5. ASSUME Caller
        PROVE  Kept
    BY <1>5 DEF Caller, BeginLoad, SetCacheBudget, Shutdown, evalVars, callVars
  <1>6. ASSUME \/ DrainBatch \/ (\E e \in Experts : TouchEntry(e)) \/ Publish
               \/ (\E s \in Slices : CommitWaveTwo(s)) \/ PublishWaveTwo \/ Promote \/ EndPromote
               \/ (\E id \in Entries : EvictCold(id) \/ ShrinkEvict(id))
               \/ EndCompute \/ EndShrink \/ JoinLanes \/ UNCHANGED vars
        PROVE  Kept
    BY <1>6 DEF DrainBatch, TouchEntry, Publish, CommitWaveTwo, PublishWaveTwo, Promote,
                EndPromote, EvictCold, ShrinkEvict, EndCompute, EndShrink, JoinLanes, vars,
                evalVars, callVars
  <1>7. QED
    BY <1>1, <1>2, <1>3, <1>4, <1>5, <1>6 DEF Next, EvalStep, Closed

(* The intrusive recency list never loses or repeats an entry and the       *)
(* resident bytes are always their sum: hits, misses, promotions and both   *)
(* evictions included, for every number of layers, experts and budgets.     *)
THEOREM ListMirrorsCache == Spec => []LruIsValidSet
  <1>1. Init => LruIsValidSet
    <2>1. EntriesBytes[{}] = 0
      BY EntriesBytesDef
    <2>2. Init => LruMembers(lru) = {}
      BY DEF Init, LruMembers
    <2>3. Init => {id \in Entries : valid[id]} = {}
      BY DEF Init
    <2>4. Init => lru = << >> /\ resident = 0
      BY DEF Init
    <2>5. Init => DOMAIN lru = {}
      BY <2>4
    <2>6. QED
      BY <2>1, <2>2, <2>3, <2>4, <2>5, Zenon DEF LruIsValidSet
  <1>2. Inv => TypeOK /\ BatchInv
    OBVIOUS
  <1> HIDE DEF Inv
  <1>3. QED
    BY <1>1, <1>2, Invariance, ListStep, PTL DEF Spec

(* While a graph computes, a cache over its budget holds nothing but the    *)
(* experts that graph reads: the tail at which eviction stops is the coldest *)
(* entry, because hits and misses of the load were all moved to the front.   *)
THEOREM ExcessServesTheGraph == Spec => []ExcessIsInUse
  <1>1. Init => OrderInv /\ ExcessIsInUse
    BY DEF Init, OrderInv, Loading, ExcessIsInUse
  <1>2. Inv => TypeOK /\ BatchInv
    OBVIOUS
  <1> HIDE DEF Inv
  <1>3. Spec => []OrderInv
    BY <1>1, <1>2, Invariance, ListMirrorsCache, OrderStep, PTL DEF Spec
  <1>4. QED
    BY <1>1, <1>2, <1>3, Invariance, ListMirrorsCache, ExcessStep, PTL DEF Spec
=============================================================================
