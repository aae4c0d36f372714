-------------------------- MODULE ExpertStreamInv ---------------------------
(***************************************************************************)
(* The inductive invariant behind UseSeesData: what the lanes, the cache   *)
(* and the readiness flags owe each other while a batch is in flight.      *)
(***************************************************************************)
EXTENDS ExpertStream

Live == evalPc \in {"commit", "promote", "evict", "compute"}
TheJob(il, e, p) == [layer |-> il, expert |-> e, proj |-> p]
Held == {laneJob[l] : l \in InFlight}
BeingRead == {laneJob[l] : l \in Reading}

\* done_cnt_, next_idx_ and the lanes account for every job of the batch.
CountInv ==
  /\ IsFiniteSet(queued)
  /\ batchNjobs = doneCnt + Cardinality(InFlight) + Cardinality(queued)

\* One batch at a time, all of one layer, each job held at most once.
BatchInv ==
  /\ \A l \in InFlight : laneJob[l] \in Job \ queued
  /\ \A k, l \in InFlight : k # l => laneJob[k] # laneJob[l]
  /\ \A j \in queued \cup Held : j.layer = curIl
  /\ evalPc = "commit" \/ queued \cup Held # {} => batchFlagGen = asyncGen
  /\ evalPc = "touch" => queued = {} /\ InFlight = {}
  /\ evalPc = "commit" => \A j \in queued \cup Held : j.proj = P0
  /\ Live \/ evalPc = "touch" => curIl \in Layers /\ reqLayer = curIl
  /\ evalPc = "drain" => reqLayer \in Layers
  /\ evalPc = "commit" => mode.cached
  /\ evalPc = "closed" => \A l \in Lanes : lanePc[l] = "exit"
  /\ evalPc \in {"join", "closed"} => fatal

\* Staged experts that are not resolved carry no flag of this generation.
StageInv ==
  /\ \A p \in Projs, e \in Experts : ready[<<p, e>>] <= asyncGen
  /\ evalPc = "touch" =>
       \A p \in Projs, e \in staged \cup missing : ready[<<p, e>>] < asyncGen
  /\ evalPc = "commit" =>
       \A p \in Projs \ {P0}, e \in missing : ready[<<p, e>>] < asyncGen
  /\ evalPc = "touch" => staged \cap missing = {}
  /\ evalPc = "commit" => waveTwo \subseteq (Projs \ {P0}) \X missing

\* What is staged in this generation is resident and keeps its stamp, so the
\* eviction that runs beside the reads never chooses it.
StampInv ==
  mode.cached =>
    /\ Live => \A j \in queued \cup Held :
                 valid[<<j.layer, j.expert>>] /\ stamp[<<j.layer, j.expert>>] = cgen
    /\ evalPc \in {"touch", "commit"} =>
         \A e \in missing : valid[<<curIl, e>>] /\ stamp[<<curIl, e>>] = cgen
    /\ Live \/ evalPc = "touch" =>
         \A p \in Projs, e \in Experts :
           ready[<<p, e>>] = asyncGen => stamp[<<curIl, e>>] = cgen

\* The slices of a valid entry hold its data or are still owed a read.
Owed(il, e, p) ==
  \/ TheJob(il, e, p) \in queued \cup BeingRead
  \/ il = curIl /\ e \in missing /\ (evalPc = "touch" \/ (evalPc = "commit" /\ p # P0))

ValidInv ==
  mode.cached /\ ~fatal =>
    \A il \in Layers, e \in Experts, p \in Projs :
      valid[<<il, e>>] => mem[<<il, e, p>>] = il \/ Owed(il, e, p)

\* The pages a read goes to are there before the lane gets the job.
PagesInv ==
  /\ \A l \in Reading :
       ~mode.cached \/ valid[<<laneJob[l].layer, laneJob[l].expert>>] =>
         mem[CellOf(laneJob[l])] = "torn"
  /\ mode.cached /\ evalPc # "closed" => \A j \in queued :
       valid[<<j.layer, j.expert>>] => mem[CellOf(j)] # "none"
  /\ ~mode.cached /\ evalPc # "closed" =>
       \A e \in Experts, p \in Projs : mem[<<Shared, e, p>>] # "none"
  /\ mode.cached /\ evalPc = "touch" =>
       \A e \in missing, p \in Projs :
         (TwoWave => p = P0) => mem[<<curIl, e, p>>] # "none"
  /\ mode.cached /\ evalPc = "commit" =>
       \A e \in missing, p \in Projs :
         p # P0 /\ <<p, e>> \notin waveTwo => mem[<<curIl, e, p>>] # "none"

\* A flag of this generation means data, and a read that has landed is data.
FlagInv ==
  ~fatal =>
    /\ Live \/ evalPc = "touch" =>
         \A e \in Experts, p \in Projs :
           ready[<<p, e>>] = asyncGen =>
             /\ mem[Cell(curIl, e, p)] = curIl
             /\ TheJob(curIl, e, p) \notin queued \cup BeingRead
    /\ Live => \A l \in Lanes :
                 lanePc[l] = "flag" => mem[CellOf(laneJob[l])] = curIl

\* The compute threads run only while the eval thread is out of the callback.
ThreadInv ==
  /\ evalPc = "compute" => graphIl \in Layers
  /\ \A t \in Threads :
       /\ tpc[t] # "idle" => evalPc = "compute"
       /\ tpc[t] \notin {"idle", "run"} => at[t] \in Slices
       /\ tpc[t] \in {"spin", "look", "lock", "asleep", "leave"} => graphIl = curIl
       /\ tpc[t] \in {"leave", "use"} /\ ~fatal =>
            graphIl = curIl /\ ready[at[t]] = asyncGen

\* Until the budget is changed, an entry with a read queued or in flight is
\* resident: the loads themselves never evict it.
HeldInv ==
  /\ evalPc = "shrink" => resizes # 0
  /\ resizes = 0 /\ mode.cached =>
       \A j \in queued \cup Held : valid[<<j.layer, j.expert>>]

\* Inductive together with TypeOK; HeldInv is inductive relative to it.
IInv == /\ CountInv /\ BatchInv /\ StageInv /\ StampInv
        /\ ValidInv /\ PagesInv /\ FlagInv /\ ThreadInv
=============================================================================
