---------------------------- MODULE ExpertStream ----------------------------
(***************************************************************************)
(* The overlapped demand path of the expert stream source: the eval thread *)
(* stages one MoE layer at a time (load_layer_async), a pool of I/O lanes  *)
(* reads the slices of the experts that missed the cache, and the compute  *)
(* threads of the graph block in on_expert_ready until the slice they are  *)
(* about to multiply has landed.                                           *)
(*                                                                         *)
(* A slice is one projection of one expert.  With the LRU cache on, every  *)
(* (layer, expert, projection) has its own address range; with it off all  *)
(* layers share one slot per (expert, projection).  Slice contents are     *)
(* abstracted to what a reader could tell apart: no pages, pages without   *)
(* data, a read that has not finished, or the data of one layer.           *)
(*                                                                         *)
(* Speculative prefetch is a module of its own; here its queue is empty.   *)
(***************************************************************************)
EXTENDS Integers, Sequences, FiniteSets

CONSTANTS
  Layers,          (* bound MoE layers                                      *)
  Experts,         (* expert numbers, ordered as the kernel visits them     *)
  Projs,           (* present projections, in the order of consumption      *)
  P0,              (* the first of them                                     *)
  Lanes,           (* I/O lane threads                                      *)
  Threads,         (* compute threads of the graph                          *)
  EntryBytes,      (* bytes of one expert of a layer, all projections       *)
  Budgets,         (* cache budgets asked for, none above the total bytes   *)
  Modes,           (* configurations and callers, below                     *)
  TopK,            (* bound on the experts routed per layer                 *)
  MaxLoads,        (* bound on the layers loaded in one behaviour           *)
  MaxResizes,      (* bound on the changes of the budget                    *)
  ReadsMayFail,    (* a flash read may fail                                 *)
  CommitsMayFail,  (* a page commit may fail (Windows)                      *)
  MayStray         (* the graph may ask for a layer that was not staged     *)

Shared == "slot"                      \* the address space of the shared slots
NoLayer == "no layer"

\* cached, two-wave publish, load-all; and what the engine around it does:
\* aborts, a decode may be cancelled between two graph nodes; resizes, the
\* budget is changed between decodes.
Mode == [cached : BOOLEAN, twoWave : BOOLEAN, loadAll : BOOLEAN,
         aborts : BOOLEAN, resizes : BOOLEAN]

ASSUME ConstantsAssumption ==
  /\ IsFiniteSet(Experts) /\ Experts # {} /\ Experts \subseteq Nat
  /\ IsFiniteSet(Projs) /\ Projs \subseteq Nat
  /\ P0 \in Projs /\ \A p \in Projs : P0 <= p
  /\ IsFiniteSet(Lanes) /\ Lanes # {}
  /\ Threads # {}
  /\ IsFiniteSet(Layers) /\ Layers # {}
  /\ Layers \cap {Shared, NoLayer, "none", "blank", "torn"} = {}
  /\ EntryBytes \in [Layers -> Nat \ {0}]
  /\ Budgets \subseteq Nat \ {0} /\ Budgets # {}
  /\ Modes \subseteq Mode
  /\ TopK \in Nat /\ MaxLoads \in Nat /\ MaxResizes \in Nat

VARIABLES
  mode,            (* the configuration, fixed at init                      *)
  (* the eval thread *)
  evalPc,          (* where it is inside load_layer_async                   *)
  reqLayer,        (* il of the call                                        *)
  reqIds,          (* ids still to promote, in the order given              *)
  routed,          (* the experts the graph will multiply                   *)
  staged,          (* staged experts not yet touched                        *)
  missing,         (* seen_ as a miss marker: staged experts to read        *)
  waveTwo,         (* slices whose pages the second wave still commits      *)
  loads, resizes,  (* bounds of the model                                   *)
  (* the cache, written by the eval thread alone *)
  valid, stamp, lru, resident, cacheMax, cgen,
  (* the batch, under io_mtx_ *)
  queued,          (* the suffix of jobs_ from next_idx_ on                 *)
  batchNjobs, doneCnt, batchGen, batchFlagGen, ioStop,
  (* readiness, atomics *)
  asyncGen, curIl, ready, fatal, readyWaiters,
  (* the slices *)
  mem,
  (* the lanes *)
  lanePc, laneSeen, laneJob,
  (* the graph and its compute threads *)
  graphIl, tpc, todo, at

callVars == <<reqLayer, reqIds, routed, staged, missing, waveTwo>>
evalVars == <<evalPc, callVars>>
boundVars == <<loads, resizes>>
cacheVars == <<valid, stamp, lru, resident, cacheMax, cgen>>
batchVars == <<queued, batchNjobs, doneCnt, batchGen, batchFlagGen, ioStop>>
syncVars == <<asyncGen, curIl, ready, fatal, readyWaiters>>
laneVars == <<lanePc, laneSeen, laneJob>>
graphVars == <<graphIl, tpc, todo, at>>
vars == <<mode, evalVars, boundVars, cacheVars, batchVars, syncVars, mem,
          laneVars, graphVars>>
-----------------------------------------------------------------------------
(* Addresses, jobs and the recency list.                                   *)

Entries == Layers \X Experts
Slices == Projs \X Experts
Cells == (Layers \cup {Shared}) \X Experts \X Projs
Job == [layer : Layers, expert : Experts, proj : Projs]
NoJob == [layer |-> NoLayer, expert |-> 0, proj |-> 0]

\* The address range a slice of layer il is read into.
Cell(il, e, p) == <<IF mode.cached THEN il ELSE Shared, e, p>>
CellOf(j) == Cell(j.layer, j.expert, j.proj)

\* Jobs of a set of experts, one per projection of a set of projections.
JobsOf(il, S, P) == {[layer |-> il, expert |-> e, proj |-> p] : e \in S, p \in P}

\* Projection-major order, experts ascending: the order jobs_ is emitted in.
Before(j, k) == \/ j.proj < k.proj
                \/ j.proj = k.proj /\ j.expert < k.expert

\* The lists of ids a routing can ask for.  A repeated id only matters by its
\* last occurrence, so lists without repetition stand for all of them.
IdLists == {s \in UNION {[1..n -> Experts] : n \in 0..TopK} :
              \A i, k \in DOMAIN s : s[i] = s[k] => i = k}

LruMembers(s) == {s[i] : i \in DOMAIN s}
LruPushFront(s, id) == <<id>> \o s

\* Unlinking a node that is not in the list rewrites both ends to -1.
KeepNode(s, id) == s
LruUnlink(s, id) ==
  IF \E i \in DOMAIN s : s[i] = id
  THEN LET i == CHOOSE i \in DOMAIN s : s[i] = id
       IN  SubSeq(s, 1, i - 1) \o SubSeq(s, i + 1, Len(s))
  ELSE << >>
-----------------------------------------------------------------------------
Init ==
  /\ mode \in Modes
  /\ evalPc = "idle"
  /\ reqLayer = NoLayer /\ reqIds = << >>
  /\ routed = {} /\ staged = {} /\ missing = {} /\ waveTwo = {}
  /\ loads = 0 /\ resizes = 0
  /\ valid = [id \in Entries |-> FALSE]
  /\ stamp = [id \in Entries |-> 0]
  /\ lru = << >> /\ resident = 0 /\ cgen = 0
  /\ cacheMax \in Budgets
  /\ queued = {} /\ batchNjobs = 0 /\ doneCnt = 0
  /\ batchGen = 0 /\ batchFlagGen = 0 /\ ioStop = FALSE
  /\ asyncGen = 0 /\ curIl = NoLayer
  /\ ready = [s \in Slices |-> 0]
  /\ fatal = FALSE /\ readyWaiters = 0
  /\ mem = [c \in Cells |-> IF c[1] = Shared THEN "blank" ELSE "none"]
  /\ lanePc = [l \in Lanes |-> "wait"]
  /\ laneSeen = [l \in Lanes |-> 0]
  /\ laneJob = [l \in Lanes |-> NoJob]
  /\ graphIl = NoLayer
  /\ tpc = [t \in Threads |-> "idle"]
  /\ todo = [t \in Threads |-> {}]
  /\ at = [t \in Threads |-> <<P0, 0>>]
-----------------------------------------------------------------------------
(* The eval thread: load_layer_async.                                      *)

\* load_layer is entered by the router hook.  A request without ids fails.
BeginLoad(il, ids) ==
  /\ evalPc = "idle" /\ loads < MaxLoads
  /\ loads' = loads + 1
  /\ IF ids = << >>
       THEN /\ fatal' = TRUE
            /\ UNCHANGED evalVars
       ELSE /\ evalPc' = "drain"
            /\ reqLayer' = il
            /\ reqIds' = ids
            /\ UNCHANGED <<routed, staged, missing, waveTwo, fatal>>
  /\ UNCHANGED <<mode, resizes, cacheVars, batchVars, asyncGen, curIl, ready,
                 readyWaiters, mem, laneVars, graphVars>>

\* Step 1: the previous batch is drained before anything of it is reused.
NoDrain == TRUE
BatchDrained == doneCnt = batchNjobs

DrainBatch ==
  /\ evalPc = "drain"
  /\ BatchDrained
  /\ IF fatal
       THEN /\ evalPc' = "idle"
            /\ UNCHANGED <<routed, staged, missing, cgen, asyncGen, curIl>>
       ELSE \* steps 2 and 3a: a new generation, ids deduplicated
            /\ evalPc' = "touch"
            /\ asyncGen' = asyncGen + 1
            /\ curIl' = reqLayer
            /\ cgen' = cgen + 1
            /\ routed' = LruMembers(reqIds)
            /\ staged' = IF mode.loadAll THEN Experts ELSE LruMembers(reqIds)
            /\ missing' = {}
  /\ UNCHANGED <<mode, reqLayer, reqIds, waveTwo, boundVars, valid, stamp,
                 lru, resident, cacheMax, batchVars, ready, fatal,
                 readyWaiters, mem, laneVars, graphVars>>

Commit(m, C) == [c \in Cells |-> IF c \in C /\ m[c] = "none" THEN "blank" ELSE m[c]]

TwoWave == mode.twoWave /\ ~mode.loadAll

\* touch_entry of the next staged expert, with the cache on.
TouchEntry(e) ==
  LET id == <<reqLayer, e>>
      now == IF TwoWave THEN {P0} ELSE Projs
  IN
  /\ evalPc = "touch" /\ mode.cached
  /\ e \in staged /\ \A f \in staged : e <= f
  /\ staged' = staged \ {e}
  /\ stamp' = [stamp EXCEPT ![id] = cgen]
  /\ \/ /\ valid[id]                                                  \* a hit
        /\ ready' = [s \in Slices |-> IF s[2] = e THEN asyncGen ELSE ready[s]]
        /\ UNCHANGED <<evalPc, missing, valid, lru, resident, fatal, mem>>
     \/ /\ ~valid[id]                                                \* a miss
        /\ valid' = [valid EXCEPT ![id] = TRUE]
        /\ resident' = resident + EntryBytes[reqLayer]
        /\ lru' = LruPushFront(lru, id)
        /\ missing' = missing \cup {e}
        /\ mem' = Commit(mem, {Cell(reqLayer, e, p) : p \in now})
        /\ UNCHANGED <<evalPc, ready, fatal>>
     \/ /\ ~valid[id] /\ CommitsMayFail      \* no pages: the graph is aborted
        /\ fatal' = TRUE
        /\ evalPc' = "idle"
        /\ UNCHANGED <<missing, valid, lru, resident, ready, mem>>
  /\ UNCHANGED <<mode, reqLayer, reqIds, routed, waveTwo, boundVars,
                 cacheMax, cgen, batchVars, asyncGen, curIl, readyWaiters,
                 laneVars, graphVars>>

\* The batch counters are reset and the first jobs published, under io_mtx_.
\* With the cache off every staged expert is read; with two waves only the
\* first projection is published here.
Publish ==
  LET toRead == IF mode.cached THEN missing ELSE staged
      first == JobsOf(reqLayer, toRead, IF mode.cached /\ TwoWave THEN {P0} ELSE Projs)
  IN
  /\ evalPc = "touch"
  /\ mode.cached => staged = {}
  /\ staged' = {}
  /\ queued' = first
  /\ batchNjobs' = Cardinality(first)
  /\ doneCnt' = 0
  /\ batchFlagGen' = asyncGen
  /\ batchGen' = batchGen + 1
  /\ IF mode.cached /\ TwoWave
       THEN /\ evalPc' = "commit"
            /\ waveTwo' = (Projs \ {P0}) \X missing
       ELSE /\ evalPc' = "promote"
            /\ UNCHANGED waveTwo
  /\ UNCHANGED <<mode, reqLayer, reqIds, routed, missing, boundVars,
                 cacheVars, ioStop, syncVars, mem, laneVars, graphVars>>

Wake(T) == [t \in Threads |-> IF t \in T /\ tpc[t] = "asleep" THEN "lock" ELSE tpc[t]]

\* Wave two commits the pages of one more slice while lanes read wave one.
\* A failure goes fatal and wakes every waiter.
CommitWaveTwo(s) ==
  /\ evalPc = "commit" /\ s \in waveTwo
  /\ \A r \in waveTwo : \/ s[2] < r[2]
                        \/ s[2] = r[2] /\ s[1] <= r[1]
  /\ \/ /\ mem' = Commit(mem, {Cell(reqLayer, s[2], s[1])})
        /\ waveTwo' = waveTwo \ {s}
        /\ UNCHANGED <<evalPc, fatal, tpc>>
     \/ /\ CommitsMayFail
        /\ fatal' = TRUE
        /\ tpc' = Wake(Threads)
        /\ evalPc' = "idle"
        /\ waveTwo' = {}
        /\ UNCHANGED mem
  /\ UNCHANGED <<mode, reqLayer, reqIds, routed, staged, missing, boundVars,
                 cacheVars, batchVars, asyncGen, curIl, ready, readyWaiters,
                 laneVars, graphIl, todo, at>>

\* The rest of the jobs is appended to the batch in flight, same generation.
DropWaveTwo == {}
SecondWave == JobsOf(reqLayer, missing, Projs \ {P0})

KeepCount(n) == batchNjobs
GrownCount(n) == batchNjobs + n

PublishWaveTwo ==
  /\ evalPc = "commit" /\ waveTwo = {}
  /\ queued' = queued \cup SecondWave
  /\ batchNjobs' = GrownCount(Cardinality(SecondWave))
  /\ evalPc' = "promote"
  /\ UNCHANGED <<mode, callVars, boundVars, cacheVars, doneCnt, batchGen,
                 batchFlagGen, ioStop, syncVars, mem, laneVars, graphVars>>

\* Every touched expert is promoted in the order the ids came in.  The guard
\* skips an expert that is not resident: it has no node to unlink.
InPlace(s, id) == s
Promoted(s, id) == LruPushFront(LruUnlink(s, id), id)
Promote ==
  LET id == <<reqLayer, Head(reqIds)>>
  IN
  /\ evalPc = "promote" /\ reqIds # << >>
  /\ reqIds' = Tail(reqIds)
  /\ lru' = IF mode.cached /\ ~mode.loadAll /\ valid[id]
              THEN Promoted(lru, id) ELSE lru
  /\ UNCHANGED <<mode, evalPc, reqLayer, routed, staged, missing, waveTwo,
                 boundVars, valid, stamp, resident, cacheMax, cgen,
                 batchVars, syncVars, mem, laneVars, graphVars>>

EndPromote ==
  /\ evalPc = "promote" /\ reqIds = << >>
  /\ evalPc' = "evict"
  /\ UNCHANGED <<mode, callVars, boundVars, cacheVars, batchVars, syncVars,
                 mem, laneVars, graphVars>>

\* evict_tail: the pages of the coldest entry go back to the system.
EvictTail(id) ==
  /\ lru # << >> /\ id = lru[Len(lru)]
  /\ valid' = [valid EXCEPT ![id] = FALSE]
  /\ resident' = resident - EntryBytes[id[1]]
  /\ lru' = LruUnlink(lru, id)
  /\ mem' = [c \in Cells |-> IF c[1] = id[1] /\ c[2] = id[2] THEN "none" ELSE mem[c]]
  /\ UNCHANGED <<stamp, cacheMax, cgen>>

OverBudget == resident > cacheMax /\ lru # << >>

\* Step 5: evict to budget, never an entry of the current generation, while
\* the lanes read this batch.
MayEvictAny == mode.cached /\ OverBudget
MayEvict == mode.cached /\ OverBudget /\ stamp[lru[Len(lru)]] # cgen

EvictCold(id) ==
  /\ evalPc = "evict" /\ MayEvict
  /\ EvictTail(id)
  /\ UNCHANGED <<mode, evalVars, boundVars, batchVars, syncVars, laneVars,
                 graphVars>>

\* load_layer_async returns and the graph goes on: each compute thread will
\* visit every routed slice.  A stray graph asks for another layer.
EndLoad(il) ==
  /\ evalPc = "evict" /\ ~MayEvict
  /\ il = reqLayer \/ MayStray
  /\ evalPc' = "compute"
  /\ graphIl' = il
  /\ tpc' = [t \in Threads |-> "run"]
  /\ todo' = [t \in Threads |-> Projs \X routed]
  /\ UNCHANGED <<mode, callVars, boundVars, cacheVars, batchVars, syncVars,
                 mem, laneVars, at>>

\* The layer's nodes are done, or the decode was cancelled between two of
\* them, and the eval thread is back in the callback.
EndCompute ==
  /\ evalPc = "compute"
  /\ \A t \in Threads : tpc[t] = "run" /\ (todo[t] = {} \/ mode.aborts)
  /\ evalPc' = "idle"
  /\ tpc' = [t \in Threads |-> "idle"]
  /\ todo' = [t \in Threads |-> {}]
  /\ graphIl' = NoLayer /\ reqLayer' = NoLayer
  /\ routed' = {} /\ missing' = {}
  /\ UNCHANGED <<mode, reqIds, staged, waveTwo, boundVars, cacheVars,
                 batchVars, syncVars, mem, laneVars, at>>

\* set_cache_budget, between two decodes.  Growing evicts nothing; shrinking
\* evicts until the budget holds, whatever the stamps.
SetCacheBudget(b) ==
  /\ evalPc = "idle" /\ mode.cached /\ b # cacheMax
  /\ mode.resizes /\ resizes < MaxResizes
  /\ resizes' = resizes + 1
  /\ cacheMax' = b
  /\ evalPc' = IF b < cacheMax THEN "shrink" ELSE "idle"
  /\ UNCHANGED <<mode, callVars, loads, valid, stamp, lru, resident, cgen,
                 batchVars, syncVars, mem, laneVars, graphVars>>

ShrinkEvict(id) ==
  /\ evalPc = "shrink" /\ OverBudget
  /\ EvictTail(id)
  /\ UNCHANGED <<mode, evalVars, boundVars, batchVars, syncVars, laneVars,
                 graphVars>>

EndShrink ==
  /\ evalPc = "shrink" /\ ~OverBudget
  /\ evalPc' = "idle"
  /\ UNCHANGED <<mode, callVars, boundVars, cacheVars, batchVars, syncVars,
                 mem, laneVars, graphVars>>

\* shutdown: go fatal, wake the stragglers, stop the lanes and join them; the
\* buffers are released only after the join.
Shutdown ==
  /\ evalPc = "idle"
  /\ fatal' = TRUE
  /\ ioStop' = TRUE
  /\ tpc' = Wake(Threads)
  /\ evalPc' = "join"
  /\ UNCHANGED <<mode, callVars, boundVars, cacheVars, queued, batchNjobs,
                 doneCnt, batchGen, batchFlagGen, asyncGen, curIl, ready,
                 readyWaiters, mem, laneVars, graphIl, todo, at>>

NoJoin == TRUE
LanesExited == \A l \in Lanes : lanePc[l] = "exit"

JoinLanes ==
  /\ evalPc = "join"
  /\ LanesExited
  /\ evalPc' = "closed"
  /\ mem' = [c \in Cells |-> "none"]
  /\ UNCHANGED <<mode, callVars, boundVars, cacheVars, batchVars, syncVars,
                 laneVars, graphVars>>
-----------------------------------------------------------------------------
(* An I/O lane: io_worker and io_drain.                                    *)

LaneStep(l, from, to) ==
  /\ lanePc[l] = from
  /\ lanePc' = [lanePc EXCEPT ![l] = to]

\* The wait of io_worker: a newer batch, or a batch that grew.
WakeNoGrowth(l) == ioStop \/ batchGen > laneSeen[l]
WakeNoStop(l) == batchGen > laneSeen[l] \/ queued # {}
WakeLane(l) == ioStop \/ batchGen > laneSeen[l] \/ queued # {}

LaneWake(l) ==
  /\ WakeLane(l)
  /\ IF ioStop
       THEN LaneStep(l, "wait", "exit") /\ UNCHANGED laneSeen
       ELSE /\ LaneStep(l, "wait", "drain")
            /\ laneSeen' = [laneSeen EXCEPT ![l] = batchGen]
  /\ UNCHANGED <<mode, evalVars, boundVars, cacheVars, batchVars, syncVars,
                 mem, laneJob, graphVars>>

\* The next job of the batch this lane saw; otherwise back to the wait.
LaneLeave(l) ==
  /\ batchGen # laneSeen[l] \/ queued = {}
  /\ LaneStep(l, "drain", "wait")
  /\ UNCHANGED <<mode, evalVars, boundVars, cacheVars, batchVars, syncVars,
                 mem, laneSeen, laneJob, graphVars>>

LaneTake(l, j) ==
  /\ LaneStep(l, "drain", "read")
  /\ batchGen = laneSeen[l]
  /\ j \in queued /\ \A k \in queued : ~Before(k, j)
  /\ queued' = queued \ {j}
  /\ laneJob' = [laneJob EXCEPT ![l] = j]
  /\ mem' = [mem EXCEPT ![CellOf(j)] = IF @ = "none" THEN @ ELSE "torn"]
  /\ UNCHANGED <<mode, evalVars, boundVars, cacheVars, batchNjobs, doneCnt,
                 batchGen, batchFlagGen, ioStop, syncVars, laneSeen,
                 graphVars>>

\* The read ends.  Pages taken away meanwhile hold no complete slice.
LaneReadOk(l) ==
  LET j == laneJob[l]
  IN
  /\ LaneStep(l, "read", "flag")
  /\ mem' = [mem EXCEPT ![CellOf(j)] = IF @ = "torn" THEN j.layer ELSE @]
  /\ UNCHANGED <<mode, evalVars, boundVars, cacheVars, batchVars, syncVars,
                 laneSeen, laneJob, graphVars>>

\* The read fails: the run is fatal before the readiness is published.
NotFatal == fatal
ReadFailure == TRUE

LaneReadFail(l) ==
  /\ ReadsMayFail
  /\ LaneStep(l, "read", "flag")
  /\ fatal' = ReadFailure
  /\ UNCHANGED <<mode, evalVars, boundVars, cacheVars, batchVars, asyncGen,
                 curIl, ready, readyWaiters, mem, laneSeen, laneJob,
                 graphVars>>

LaneFlag(l) ==
  LET j == laneJob[l]
  IN
  /\ LaneStep(l, "flag", "notify")
  /\ ready' = [ready EXCEPT ![<<j.proj, j.expert>>] = batchFlagGen]
  /\ UNCHANGED <<mode, evalVars, boundVars, cacheVars, batchVars, asyncGen,
                 curIl, fatal, readyWaiters, mem, laneSeen, laneJob,
                 graphVars>>

\* Only a counted waiter costs the publisher the mutex and the notify_all.
LaneNotify(l) ==
  /\ LaneStep(l, "notify", "count")
  /\ tpc' = IF readyWaiters # 0 THEN Wake(Threads) ELSE tpc
  /\ UNCHANGED <<mode, evalVars, boundVars, cacheVars, batchVars, syncVars,
                 mem, laneSeen, laneJob, graphIl, todo, at>>

LaneCount(l) ==
  /\ LaneStep(l, "count", "drain")
  /\ doneCnt' = doneCnt + 1
  /\ laneJob' = [laneJob EXCEPT ![l] = NoJob]
  /\ UNCHANGED <<mode, evalVars, boundVars, cacheVars, queued, batchNjobs,
                 batchGen, batchFlagGen, ioStop, syncVars, mem, laneSeen,
                 graphVars>>
-----------------------------------------------------------------------------
(* A compute thread: on_expert_ready before each slice it multiplies.      *)

ThreadStep(t, from, to) ==
  /\ tpc[t] = from
  /\ tpc' = [tpc EXCEPT ![t] = to]

SliceReady(s) == ready[s] = asyncGen

threadUnchanged == <<mode, evalVars, boundVars, cacheVars, batchVars, asyncGen,
                     curIl, ready, mem, laneVars, graphIl>>

\* The next slice, projection-major.  A layer that is not the staged one is
\* refused at once: the run goes fatal and every waiter is woken.
EnterReady(t, s) ==
  /\ tpc[t] = "run"
  /\ s \in todo[t]
  /\ \A r \in todo[t] : \/ s[1] < r[1]
                        \/ s[1] = r[1] /\ s[2] <= r[2]
  /\ at' = [at EXCEPT ![t] = s]
  /\ todo' = [todo EXCEPT ![t] = @ \ {s}]
  /\ IF graphIl # curIl
       THEN /\ fatal' = TRUE
            /\ tpc' = [Wake(Threads) EXCEPT ![t] = "use"]
       ELSE /\ tpc' = [tpc EXCEPT ![t] = IF SliceReady(s) THEN "use" ELSE "spin"]
            /\ UNCHANGED fatal
  /\ UNCHANGED <<threadUnchanged, readyWaiters>>

\* The spin sees the flag or the failure ...
SpinHit(t) ==
  /\ ThreadStep(t, "spin", "use")
  /\ SliceReady(at[t]) \/ fatal
  /\ UNCHANGED <<threadUnchanged, fatal, readyWaiters, todo, at>>

\* ... or runs out, and the thread counts itself as a waiter.
Register(t) ==
  /\ ThreadStep(t, "spin", "look")
  /\ readyWaiters' = readyWaiters + 1
  /\ UNCHANGED <<threadUnchanged, fatal, todo, at>>

\* The last look at the flag before the mutex.
LastLook(t) ==
  /\ ThreadStep(t, "look", IF SliceReady(at[t]) \/ fatal THEN "leave" ELSE "lock")
  /\ UNCHANGED <<threadUnchanged, fatal, readyWaiters, todo, at>>

\* Under ready_mtx_: the predicate once more, then sleep.
NoPredicate(t) == FALSE
WaitOver(t) == SliceReady(at[t]) \/ fatal

LockedLook(t) ==
  /\ ThreadStep(t, "lock", IF WaitOver(t) THEN "leave" ELSE "asleep")
  /\ UNCHANGED <<threadUnchanged, fatal, readyWaiters, todo, at>>

Deregister(t) ==
  /\ ThreadStep(t, "leave", "use")
  /\ readyWaiters' = readyWaiters - 1
  /\ UNCHANGED <<threadUnchanged, fatal, todo, at>>

\* The kernel has multiplied the slice.
Use(t) ==
  /\ ThreadStep(t, "use", "run")
  /\ at' = [at EXCEPT ![t] = <<P0, 0>>]
  /\ UNCHANGED <<threadUnchanged, fatal, readyWaiters, todo>>
-----------------------------------------------------------------------------
Closed == evalPc = "closed" /\ UNCHANGED vars

EvalStep ==
  \/ DrainBatch
  \/ \E e \in Experts : TouchEntry(e)
  \/ Publish
  \/ \E s \in Slices : CommitWaveTwo(s)
  \/ PublishWaveTwo
  \/ Promote
  \/ EndPromote
  \/ \E id \in Entries : EvictCold(id) \/ ShrinkEvict(id)
  \/ \E il \in Layers : EndLoad(il)
  \/ EndCompute
  \/ EndShrink
  \/ JoinLanes

\* What the program around the source decides.
Caller ==
  \/ \E il \in Layers, ids \in IdLists : BeginLoad(il, ids)
  \/ \E b \in Budgets : SetCacheBudget(b)
  \/ Shutdown

Lane(l) ==
  \/ LaneWake(l) \/ LaneLeave(l)
  \/ \E j \in queued : LaneTake(l, j)
  \/ LaneReadOk(l) \/ LaneReadFail(l)
  \/ LaneFlag(l) \/ LaneNotify(l) \/ LaneCount(l)

Thread(t) ==
  \/ \E s \in Slices : EnterReady(t, s)
  \/ SpinHit(t) \/ Register(t) \/ LastLook(t) \/ LockedLook(t)
  \/ Deregister(t) \/ Use(t)

Next ==
  \/ EvalStep
  \/ Caller
  \/ \E l \in Lanes : Lane(l)
  \/ \E t \in Threads : Thread(t)
  \/ Closed

Spec == Init /\ [][Next]_vars

\* Every thread of the process keeps being scheduled and a read returns.  The
\* caller is free to stop calling.
Fairness ==
  /\ WF_vars(EvalStep)
  /\ \A l \in Lanes : WF_vars(Lane(l))
  /\ \A t \in Threads : WF_vars(Thread(t))

FairSpec == Spec /\ Fairness
-----------------------------------------------------------------------------
(* Properties.                                                             *)

InFlight == {l \in Lanes : lanePc[l] \in {"read", "flag", "notify", "count"}}
Reading == {l \in Lanes : lanePc[l] = "read"}

EvalPcs == {"idle", "drain", "touch", "commit", "promote", "evict", "compute",
            "shrink", "join", "closed"}
LanePcs == {"wait", "drain", "read", "flag", "notify", "count", "exit"}
ThreadPcs == {"idle", "run", "spin", "look", "lock", "asleep", "leave", "use"}

\* Every variable has its type, and no more jobs are counted as done than the
\* batch has (done_cnt_ against batch_njobs_ in io_drain).
TypeOK ==
  /\ mode \in Modes
  /\ evalPc \in EvalPcs
  /\ reqLayer \in Layers \cup {NoLayer} /\ reqIds \in Seq(Experts)
  /\ routed \subseteq Experts /\ staged \subseteq Experts /\ missing \subseteq Experts
  /\ waveTwo \subseteq Slices
  /\ loads \in Nat /\ resizes \in Nat
  /\ valid \in [Entries -> BOOLEAN] /\ stamp \in [Entries -> Nat]
  /\ lru \in Seq(Entries) /\ resident \in Int /\ cacheMax \in Budgets /\ cgen \in Nat
  /\ queued \subseteq Job
  /\ batchNjobs \in Nat /\ doneCnt \in 0..batchNjobs
  /\ batchGen \in Nat /\ batchFlagGen \in Nat /\ ioStop \in BOOLEAN
  /\ asyncGen \in Nat /\ curIl \in Layers \cup {NoLayer}
  /\ ready \in [Slices -> Nat] /\ fatal \in BOOLEAN /\ readyWaiters \in Int
  /\ mem \in [Cells -> Layers \cup {"none", "blank", "torn"}]
  /\ lanePc \in [Lanes -> LanePcs] /\ laneSeen \in [Lanes -> Nat]
  /\ laneJob \in [Lanes -> Job \cup {NoJob}]
  /\ graphIl \in Layers \cup {NoLayer}
  /\ tpc \in [Threads -> ThreadPcs]
  /\ todo \in [Threads -> SUBSET Slices]
  /\ at \in [Threads -> Projs \X (Experts \cup {0})]

\* A compute thread never multiplies a slice that does not hold its layer's
\* data, unless the run is already fatal and its result discarded: the promise
\* of on_expert_ready to the kernel.
UseSeesData ==
  \A t \in Threads :
    tpc[t] = "use" /\ ~fatal =>
      mem[Cell(graphIl, at[t][2], at[t][1])] = graphIl

\* No lane is mid-read into pages that were given back to the system, by
\* eviction, by a smaller budget or by shutdown: the eviction safety that
\* steps 1 and 5 of load_layer_async argue for.
NoReadIntoReleasedPages ==
  \A l \in Reading : mem[CellOf(laneJob[l])] # "none"

\* Two lanes never read into the same slice.
NoCollidingReads ==
  \A k, l \in Reading : k # l => CellOf(laneJob[k]) # CellOf(laneJob[l])

\* Between two batches every cache entry marked valid is complete: a miss is
\* entered as resident before its bytes are read, and a run that is not fatal
\* owes it every slice, both waves of a two-wave publish included.
ValidIsComplete ==
  mode.cached /\ evalPc \in {"idle", "drain"} /\ BatchDrained /\ ~fatal =>
    \A id \in Entries : valid[id] =>
      \A p \in Projs : mem[Cell(id[1], id[2], p)] = id[1]

EntriesBytes[S \in SUBSET Entries] ==
  IF S = {} THEN 0
  ELSE LET id == CHOOSE id \in S : TRUE
       IN  EntryBytes[id[1]] + EntriesBytes[S \ {id}]

\* The recency list holds each valid entry exactly once and cresident_ is the
\* sum of their bytes, at every step of the eval thread.
LruIsValidSet ==
  /\ LruMembers(lru) = {id \in Entries : valid[id]}
  /\ \A i, k \in DOMAIN lru : lru[i] = lru[k] => i = k
  /\ resident = EntriesBytes[LruMembers(lru)]

\* What a cache keeps beyond its budget while a graph computes is what that
\* graph reads: eviction stops at the first tail of this load, which is the
\* coldest entry only if the hits were moved to the front as well. (A full
\* sweep moves no hit and may stop earlier.)
ExcessIsInUse ==
  evalPc = "compute" /\ mode.cached /\ ~mode.loadAll /\ resident > cacheMax =>
    \A id \in Entries : valid[id] => id[1] = reqLayer /\ id[2] \in routed

\* A compute thread blocked on a slice, or spinning, is always released: the
\* layer's computation ends whatever the order of reads, flags and wakeups.
ComputeEnds == evalPc = "compute" ~> evalPc # "compute"

\* The drain at the head of load_layer_async ends, also after a cancelled
\* decode or a load-all layer whose surplus reads nobody waited for.
DrainEnds == evalPc = "drain" ~> evalPc # "drain"

\* shutdown joins every lane, wherever the lanes were when it was called.
ShutdownEnds == evalPc = "join" ~> evalPc = "closed"
=============================================================================
