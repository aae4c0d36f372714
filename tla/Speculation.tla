------------------------------ MODULE Speculation ------------------------------
(***************************************************************************)
(* Speculative expert reads of the streaming source: queued by prefetch,    *)
(* read by idle lanes (drain_spec), and settled by the eval thread before   *)
(* it stages a layer.  Under a guessing predictor the queue is bets, and    *)
(* quiesce_spec cancels it, waits out the reads in flight and releases what *)
(* never finished.  Under route-ahead (adopt) it is reads some layer has    *)
(* committed to: the loading layer finishes its own and keeps the rest.     *)
(*                                                                         *)
(* The demand reads of a layer are one step with its staging: ExpertStream  *)
(* models them.  Entries are whole experts, all of one size.                *)
(***************************************************************************)
EXTENDS Integers, Sequences, FiniteSets, SequencesExt, Functions

CONSTANTS
  NLayers, Experts,
  Projs,           (* the projections of an expert, one slice each          *)
  Lanes,           (* the I/O worker lanes                                  *)
  Eval,            (* the eval thread, when it reads as lane 0              *)
  Modes,           (* configurations: adopt, overlap, readsFail             *)
  Budgets,         (* budgets asked for, in entries                         *)
  CommitsMayFail,  (* vm_commit may fail when a prefetch is staged          *)
  Reissues,        (* a layer may be issued again before it was loaded      *)
  MaxIds,          (* bound on the ids of one call                          *)
  MaxLoads, MaxIssues, MaxResizes     (* bounds on the calls of each kind   *)

Layers == 0..(NLayers - 1)
Entry == Layers \X Experts
Total == Cardinality(Entry)      \* total_expert_bytes_
Readers == Lanes \cup {Eval}
Job == [entry : Entry, proj : Projs]
NoJob == [entry |-> <<0, CHOOSE e \in Experts : TRUE>>, proj |-> "none", live |-> FALSE]
Read == [entry : Entry, proj : Projs, live : BOOLEAN]

ASSUME SpeculationAssumption ==
  /\ NLayers \in Nat \ {0} /\ Experts # {} /\ IsFiniteSet(Experts)
  /\ Projs # {} /\ IsFiniteSet(Projs) /\ "none" \notin Projs
  /\ Eval \notin Lanes /\ IsFiniteSet(Lanes)
  /\ Modes \subseteq [adopt : BOOLEAN, overlap : BOOLEAN, readsFail : BOOLEAN]
  /\ Budgets \subseteq Nat /\ MaxIds \in Nat

VARIABLES
  mode,
  (* the cache *)
  valid,           (* cvalid_: the resident entries                         *)
  current,         (* the entries stamped with the generation of the load   *)
  lru,             (* the recency list, the most recent first               *)
  resident,        (* cresident_, in entries                                *)
  cacheMax,
  committed,       (* the entries whose pages are committed                 *)
  filled,          (* the slices that hold the file's data                  *)
  (* speculation, under io_mtx_ *)
  remaining,       (* spec_remaining_: slices still to read, by entry       *)
  done,            (* spec_done_                                            *)
  touched,         (* spec_touched_                                         *)
  jobs,            (* spec_jobs_ from spec_next_ on                         *)
  reading,         (* the read in flight, by reader; live when its          *)
                   (* generation is still spec_gen_                         *)
  (* the eval thread *)
  pc, call,        (* the call being served                                 *)
  adopted,         (* the entries the loading layer waits for               *)
  asleep,          (* parked on io_cv_done_                                 *)
  cur,             (* the last layer loaded in this graph, -1 before it     *)
  issued,          (* layers issued in this graph and not loaded since; -1  *)
                   (* when no ranking of the one before is still to come    *)
  loads, issues, resizes

cacheVars == <<valid, current, lru, resident, cacheMax>>
pageVars == <<committed, filled>>
specVars == <<remaining, done, touched, jobs, reading>>
evalVars == <<pc, call, adopted, asleep>>
driverVars == <<cur, issued, loads, issues, resizes>>
vars == <<mode, cacheVars, pageVars, specVars, evalVars, driverVars>>

\* The sequence s without the members of S: its k-th member is the one with
\* k - 1 of the members kept before it.
Before(kept, i) == Cardinality({j \in kept : j < i})
Without(s, S) ==
  LET kept == {i \in DOMAIN s : s[i] \notin S}
  IN  [k \in 1..Cardinality(kept) |-> s[CHOOSE i \in kept : Before(kept, i) = k - 1]]

LruPushFront(s, ids) == Reverse(ids) \o s
LruPushBack(s, ids) == s \o ids
StillLinked(s, ids) == s
LruUnlink(s, ids) == Without(s, ToSet(ids))
Of(il, S) == {e \in S : e[1] = il}
OfLayer(il, s) == Without(s, {j \in Job : j.entry[1] # il})
NotOfLayer(il, s) == Without(s, {j \in Job : j.entry[1] = il})
Slices(S) == S \X Projs
Inflight == {r \in Readers : reading[r] # NoJob}
IdLists(il) ==
  UNION {{s \in [1..n -> Of(il, Entry)] : IsInjective(s)} : n \in 1..MaxIds}
NoCall == [op |-> "none", il |-> 0, ids |-> << >>, budget |-> 0]

Init ==
  /\ mode \in Modes
  /\ valid = {} /\ current = {} /\ lru = << >> /\ resident = 0
  /\ cacheMax \in Budgets \cap 1..Total
  /\ committed = {} /\ filled = {}
  /\ remaining = [e \in Entry |-> 0]
  /\ done = << >> /\ touched = {} /\ jobs = << >>
  /\ reading = [r \in Readers |-> NoJob]
  /\ pc = "idle" /\ call = NoCall /\ adopted = {} /\ asleep = FALSE
  /\ cur = -1 /\ issued = {} /\ loads = 0 /\ issues = 0 /\ resizes = 0
-----------------------------------------------------------------------------
(* The calls of the eval thread.                                           *)

\* quiesce_spec(il) under adoption, first critical section: the layer's jobs
\* move to the front, the entries it must wait for are noted, and settled
\* entries leave spec_touched_.
AdoptStart(il) ==
  /\ jobs' = OfLayer(il, jobs) \o NotOfLayer(il, jobs)
  /\ adopted' = {e \in Of(il, touched) : remaining[e] # 0}
  /\ touched' = {e \in touched : remaining[e] # 0}
  /\ pc' = "adopt"
  /\ UNCHANGED reading

\* quiesce_spec otherwise: the queue is cancelled and the reads in flight
\* are disowned.
QuiesceStart ==
  /\ jobs' = << >>
  /\ reading' = [r \in Readers |-> [reading[r] EXCEPT !.live = FALSE]]
  /\ pc' = "quiesce"
  /\ UNCHANGED <<adopted, touched>>

Serve(c) ==
  /\ call' = c
  /\ IF mode.adopt /\ c.op = "load" THEN AdoptStart(c.il) ELSE QuiesceStart
  /\ UNCHANGED <<mode, cacheVars, pageVars, remaining, done, asleep>>

\* A graph starts; one that was aborted may have loaded only some layers,
\* and the layers issued for it are issued for this one again.
BeginGraph ==
  /\ pc = "idle" /\ cur # -1
  /\ cur' = -1
  /\ issued' = IF ~Reissues THEN issued
                ELSE IF NLayers - 1 \in issued THEN {-1} ELSE {}
  /\ UNCHANGED <<mode, cacheVars, pageVars, specVars, evalVars,
                 loads, issues, resizes>>

\* load_layer, load_layer_async: the layers of a graph in order.
LoadLayer(ids) ==
  /\ pc = "idle" /\ loads < MaxLoads
  /\ cur + 1 \in Layers
  /\ ids \in IdLists(cur + 1)
  /\ Serve([op |-> "load", il |-> cur + 1, ids |-> ids, budget |-> 0])
  /\ cur' = cur + 1
  /\ issued' = IF mode.adopt THEN issued \ {cur + 1} ELSE {}
  /\ loads' = loads + 1
  /\ UNCHANGED <<issues, resizes>>

\* settle_spec before a residency query, or before a layer is issued under
\* route-ahead.  With nothing done, adoption settles nothing.
Settle ==
  /\ pc = "idle"
  /\ IF mode.adopt
       THEN /\ done # << >>
            /\ pc' = "integrate"
            /\ call' = [NoCall EXCEPT !.op = "settle"]
            /\ UNCHANGED <<mode, cacheVars, pageVars, specVars, adopted, asleep, issued>>
       ELSE /\ jobs # << >> \/ done # << >> \/ Inflight # {}
            /\ Serve([NoCall EXCEPT !.op = "settle"])
            /\ issued' = {}
  /\ UNCHANGED <<cur, loads, issues, resizes>>

\* route_ahead_issue_for, predict_after_load, the temporal hint: reads for a
\* layer ahead.  Route-ahead settles first; the others were settled by the
\* load they follow.  Each layer ahead has one ranking in a graph, but the
\* last one of a graph may come when the next has begun.  The count the
\* settle looks at is read without the lock and may miss a completion.
ForThisGraph(nl) == cur # -1 /\ nl > cur /\ nl \notin issued
LateRanking(nl) ==
  /\ mode.adopt /\ Reissues
  /\ cur = -1 /\ loads > 0 /\ nl = NLayers - 1 /\ -1 \notin issued

Issue(nl, ids) ==
  /\ pc = "idle" /\ issues < MaxIssues
  /\ ids \in IdLists(nl)
  /\ ForThisGraph(nl) \/ LateRanking(nl)
  /\ call' = [op |-> "issue", il |-> nl, ids |-> ids, budget |-> 0]
  /\ pc' \in {"prefetch"} \cup (IF mode.adopt /\ done # << >> THEN {"integrate"} ELSE {})
  /\ issued' = issued \cup {IF cur = -1 THEN -1 ELSE nl}
  /\ issues' = issues + 1
  /\ UNCHANGED <<mode, cacheVars, pageVars, specVars, adopted, asleep,
                 cur, loads, resizes>>

\* set_cache_budget, with no decode running: growing cancels nothing, and
\* shrinking goes towards zero, never to it.
AsAsked(b) == b
Positive(b) == IF b = 0 THEN 1 ELSE b
SetCacheBudget(b) ==
  /\ pc = "idle" /\ resizes < MaxResizes /\ b # cacheMax
  /\ cur' = -1
  /\ resizes' = resizes + 1
  /\ IF b > cacheMax
       THEN /\ cacheMax' = IF b > Total THEN Total ELSE b
            /\ UNCHANGED <<mode, valid, current, lru, resident, pageVars, specVars,
                           evalVars, issued>>
       ELSE /\ Serve([NoCall EXCEPT !.op = "shrink", !.budget = Positive(b)])
            /\ issued' = {}
  /\ UNCHANGED <<loads, issues>>
-----------------------------------------------------------------------------
(* Adoption.                                                               *)

OwnJobQueued == jobs # << >> /\ Head(jobs).entry[1] = call.il

\* Serially the eval thread reads the loading layer's jobs itself.
DrainAdopted ==
  /\ pc = "adopt" /\ ~mode.overlap /\ adopted # {}
  /\ reading[Eval] = NoJob
  /\ OwnJobQueued
  /\ reading' = [reading EXCEPT ![Eval] = [entry |-> Head(jobs).entry,
                                           proj |-> Head(jobs).proj, live |-> TRUE]]
  /\ jobs' = Tail(jobs)
  /\ UNCHANGED <<mode, cacheVars, pageVars, remaining, done, touched, evalVars, driverVars>>

Drained ==
  mode.overlap \/ adopted = {} \/ (reading[Eval] = NoJob /\ ~OwnJobQueued)

\* Then it waits until every adopted entry is read or forgotten.
QueueEmpty == ~OwnJobQueued
AllRead == \A e \in adopted : remaining[e] = 0
AdoptWait ==
  /\ pc = "adopt" /\ ~asleep /\ Drained
  /\ IF AllRead
       THEN pc' = "integrate" /\ UNCHANGED asleep
       ELSE asleep' = TRUE /\ UNCHANGED pc
  /\ UNCHANGED <<mode, cacheVars, pageVars, specVars, call, adopted, driverVars>>

\* spec_integrate_done: a completed entry that was not staged again enters
\* the cache, hot.
Completed(s) == Without(s, valid \cup {e \in Entry : remaining[e] # 0})
IntegrateDone ==
  /\ pc = "integrate"
  /\ LET new == Completed(done)
     IN  /\ valid' = valid \cup ToSet(new)
         /\ current' = current \ ToSet(new)
         /\ lru' = LruPushFront(lru, new)
         /\ resident' = resident + Len(new)
  /\ done' = << >>
  /\ pc' = CASE call.op = "load" -> "stage"
             [] call.op = "issue" -> "prefetch"
             [] OTHER -> "idle"
  /\ UNCHANGED <<mode, cacheMax, pageVars, remaining, touched, jobs, reading,
                 call, adopted, asleep, driverVars>>
-----------------------------------------------------------------------------
(* The destructive quiesce.                                                *)

AnyTime == TRUE
ReadsWaitedOut == Inflight = {}

Untracked == {}
Unfinished == {e \in touched : e \notin ToSet(done) /\ remaining[e] # 0}

\* The entries a predictor got right enter the cache at the cold end, the
\* pages of those that never finished are given back.
QuiesceEnd ==
  LET new == Completed(done)
      undone == Unfinished
  IN
  /\ pc = "quiesce" /\ ReadsWaitedOut
  /\ valid' = valid \cup ToSet(new)
  /\ current' = current \ ToSet(new)
  /\ lru' = LruPushBack(lru, new)
  /\ resident' = resident + Len(new)
  /\ committed' = committed \ undone
  /\ filled' = filled \ Slices(undone)
  /\ remaining' = [e \in Entry |-> IF e \in undone \cup ToSet(done) THEN 0 ELSE remaining[e]]
  /\ done' = << >> /\ touched' = {}
  /\ cacheMax' = IF call.op = "shrink" THEN call.budget ELSE cacheMax
  /\ pc' = CASE call.op = "load" -> "stage"
             [] call.op = "shrink" -> "evict"
             [] OTHER -> "idle"
  /\ UNCHANGED <<mode, jobs, reading, call, adopted, asleep, driverVars>>
-----------------------------------------------------------------------------
(* Staging, eviction and prefetch.                                         *)

\* load_layer stages the ids one after the other (touch_entry): a hit is
\* promoted, a miss commits its pages and is resident before its reads.  A
\* repeated id is promoted to its last place, as a list without repeats would
\* leave it.  A failed commit ends the run with the ids before it staged.
Staged(n) == SubSeq(call.ids, 1, n)
Stage ==
  /\ pc = "stage"
  /\ \E n \in 0..Len(call.ids) :
       LET misses == Without(Staged(n), valid)
       IN
       /\ n < Len(call.ids) => CommitsMayFail /\ call.ids[n + 1] \notin valid
       /\ current' = ToSet(SubSeq(call.ids, 1, IF n < Len(call.ids) THEN n + 1 ELSE n))
       /\ valid' = valid \cup ToSet(misses)
       /\ lru' = LruPushFront(LruUnlink(lru, Staged(n)), Staged(n))
       /\ resident' = resident + Len(misses)
       /\ committed' = committed \cup ToSet(misses)
       /\ call' = [call EXCEPT !.ids = misses]
       /\ pc' = IF n < Len(call.ids) THEN "fatal" ELSE "read"
  /\ UNCHANGED <<mode, cacheMax, filled, specVars, adopted, asleep, driverVars>>

\* The batch of the misses' slices is read and waited for; a failed read ends
\* the run.
ReadBatch ==
  /\ pc = "read"
  /\ \/ /\ filled' = filled \cup Slices(ToSet(call.ids)) /\ pc' = "evict"
     \/ /\ mode.readsFail /\ call.ids # << >>
        /\ pc' = "fatal" /\ UNCHANGED filled
  /\ UNCHANGED <<mode, cacheVars, committed, specVars, call, adopted, asleep, driverVars>>

\* evict_tail, until the budget holds or the tail belongs to the layer just
\* staged; a shrink has staged nothing.
Spares(e) == call.op = "load" /\ e \in current
EvictToBudget ==
  LET StopAt(n) == \/ resident - n <= cacheMax
                   \/ n = Len(lru)
                   \/ Spares(lru[Len(lru) - n])
      n == CHOOSE n \in 0..Len(lru) : StopAt(n) /\ \A k \in 0..(n - 1) : ~StopAt(k)
      out == ToSet(SubSeq(lru, Len(lru) - n + 1, Len(lru)))
  IN
  /\ pc = "evict"
  /\ valid' = valid \ out
  /\ lru' = SubSeq(lru, 1, Len(lru) - n)
  /\ resident' = resident - n
  /\ committed' = committed \ out
  /\ filled' = filled \ Slices(out)
  /\ pc' = "idle" /\ call' = NoCall /\ adopted' = {}
  /\ UNCHANGED <<mode, current, cacheMax, specVars, asleep, driverVars>>

\* An expert already resident, queued or in flight is not queued again.
Absent(e) == e \notin valid /\ remaining[e] = 0

\* The slices of each, in the order of the projections.
JobsOf(s) ==
  LET n == Cardinality(Projs)
  IN  [k \in 1..(Len(s) * n) |-> [entry |-> s[((k - 1) \div n) + 1],
                                  proj |-> SetToSeq(Projs)[((k - 1) % n) + 1]]]

\* The experts queued when the commits stop after n of them.
AsBuilt(cand, n) == SubSeq(cand, 1, IF n < Len(cand) THEN n + 1 ELSE n)
Whole(cand, n) == SubSeq(cand, 1, n)

\* retain: the residents of a list move to the hot end.
Retained(keep) ==
  LET kept == Without(keep, Entry \ valid)
  IN  LruPushFront(LruUnlink(lru, kept), kept)

\* retain, then prefetch: route-ahead hands over the residents query_residency
\* found; each other entry is committed whole or not queued, and a failed
\* commit ends the call.
Prefetch ==
  LET cand == Without(call.ids, {e \in Entry : ~Absent(e)})
  IN
  /\ pc = "prefetch"
  /\ \E keep \in {call.ids} \cup (IF mode.adopt THEN {} ELSE {<< >>}) : lru' = Retained(keep)
  /\ \E n \in 0..Len(cand) :
       /\ n < Len(cand) => CommitsMayFail
       /\ LET queued == Whole(cand, n)
              lost == IF n < Len(cand) THEN {cand[n + 1]} ELSE {}
          IN  /\ committed' = (committed \cup ToSet(queued)) \ lost
              /\ filled' = filled \ Slices(lost)
              /\ remaining' = [e \in Entry |-> IF e \in ToSet(queued)
                                                 THEN Cardinality(Projs) ELSE remaining[e]]
              /\ touched' = touched \cup ToSet(queued)
              /\ jobs' = jobs \o JobsOf(queued)
  /\ pc' = "idle" /\ call' = NoCall
  /\ UNCHANGED <<mode, valid, current, resident, cacheMax, done, reading,
                 adopted, asleep, driverVars>>
-----------------------------------------------------------------------------
(* The lanes: drain_spec.                                                  *)

Take(l) ==
  /\ reading[l] = NoJob /\ jobs # << >>
  /\ reading' = [reading EXCEPT ![l] = [entry |-> Head(jobs).entry,
                                        proj |-> Head(jobs).proj, live |-> TRUE]]
  /\ jobs' = Tail(jobs)
  /\ UNCHANGED <<mode, cacheVars, pageVars, remaining, done, touched, evalVars, driverVars>>

\* notify_all of io_cv_done_: the last read of an entry, or of the queue.
NoNotify(r, last) == FALSE
Notifies(r, last) == (last /\ r # Eval) \/ Inflight = {r}

Land(r) ==
  filled' = IF reading[r].entry \in committed
              THEN filled \cup {<<reading[r].entry, reading[r].proj>>} ELSE filled

\* A read of a cancelled round is not counted.
Counts(r) == reading[r].live /\ remaining[reading[r].entry] > 0

ReadDone(r) ==
  LET e == reading[r].entry
      last == Counts(r) /\ remaining[e] = 1
  IN
  /\ reading[r] # NoJob
  /\ Land(r)
  /\ remaining' = IF Counts(r) THEN [remaining EXCEPT ![e] = @ - 1] ELSE remaining
  /\ done' = IF last THEN Append(done, e) ELSE done
  /\ asleep' = (asleep /\ ~Notifies(r, last))
  /\ reading' = [reading EXCEPT ![r] = NoJob]
  /\ UNCHANGED <<mode, cacheVars, committed, touched, jobs, pc, call, adopted, driverVars>>

\* A failed slice is not counted, so its entry cannot complete; under
\* adoption the entry is forgotten.
CountedAnyway(r) ==
  [remaining EXCEPT ![reading[r].entry] = IF @ > 0 THEN @ - 1 ELSE 0]
AfterFailure(r) ==
  IF mode.adopt THEN [remaining EXCEPT ![reading[r].entry] = 0] ELSE remaining

ReadFailed(r) ==
  /\ reading[r] # NoJob /\ mode.readsFail
  /\ remaining' = AfterFailure(r)
  /\ asleep' = (asleep /\ ~Notifies(r, mode.adopt))
  /\ reading' = [reading EXCEPT ![r] = NoJob]
  /\ UNCHANGED <<mode, cacheVars, pageVars, done, touched, jobs, pc, call, adopted, driverVars>>
-----------------------------------------------------------------------------
EvalStep ==
  \/ DrainAdopted \/ AdoptWait \/ IntegrateDone \/ QuiesceEnd
  \/ Stage \/ ReadBatch \/ EvictToBudget \/ Prefetch
  \/ ReadDone(Eval) \/ ReadFailed(Eval)

LaneStep(l) == Take(l) \/ ReadDone(l) \/ ReadFailed(l)

Next ==
  \/ BeginGraph
  \/ \E il \in Layers : \E ids \in IdLists(il) : LoadLayer(ids)
  \/ Settle
  \/ \E nl \in Layers : \E ids \in IdLists(nl) : Issue(nl, ids)
  \/ \E b \in Budgets : SetCacheBudget(b)
  \/ EvalStep
  \/ \E l \in Lanes : LaneStep(l)

Spec == Init /\ [][Next]_vars
\* The eval thread runs, and a lane reads what it took and goes on taking.
Fairness == WF_vars(EvalStep) /\ \A l \in Lanes : WF_vars(LaneStep(l))
FairSpec == Spec /\ Fairness
-----------------------------------------------------------------------------
(* Properties.                                                             *)

\* Every variable has its type.
TypeOK ==
  /\ mode \in Modes
  /\ valid \subseteq Entry /\ current \subseteq Entry /\ lru \in Seq(Entry)
  /\ resident \in Nat /\ cacheMax \in 1..Total
  /\ committed \subseteq Entry /\ filled \subseteq Entry \X Projs
  /\ remaining \in [Entry -> 0..Cardinality(Projs)]
  /\ done \in Seq(Entry) /\ touched \subseteq Entry /\ jobs \in Seq(Job)
  /\ reading \in [Readers -> Read \cup {NoJob}]
  /\ pc \in {"idle", "adopt", "integrate", "quiesce", "stage", "read", "evict",
            "prefetch", "fatal"}
  /\ call.op \in {"none", "load", "settle", "issue", "shrink"}
  /\ adopted \subseteq Entry /\ asleep \in BOOLEAN
  /\ cur \in -1..(NLayers - 1) /\ issued \subseteq -1..(NLayers - 1)

\* The recency list holds the resident entries, once each, and cresident_
\* counts them: an entry is integrated once however its reads completed.
LruIsValidSet ==
  /\ ToSet(lru) = valid /\ IsInjective(lru)
  /\ resident = Cardinality(valid)

\* A resident entry has no read queued or in flight.  Otherwise its eviction
\* gives back pages a lane is about to write.
ResidentHasNoLiveJobs ==
  /\ \A i \in DOMAIN jobs : jobs[i].entry \notin valid
  /\ \A r \in Inflight : reading[r].entry \notin valid

\* No lane reads into pages that were given back, cancelled or not.
NoReadIntoReleasedPages ==
  /\ \A i \in DOMAIN jobs : jobs[i].entry \in committed
  /\ \A r \in Inflight : reading[r].entry \in committed

\* A resident entry holds its data, whichever reads brought it in, but those
\* the load in progress is reading; a failed load ends the run.
ResidentComplete ==
  pc # "fatal" => Slices(valid \ (IF pc = "read" THEN ToSet(call.ids) ELSE {})) \subseteq filled

\* Committed pages belong to a resident entry, to one read and not integrated
\* yet, or to one the next quiesce releases unless it is read by then; and no
\* other entry counts slices to read, which would bar it from speculation.
PagesAccounted ==
  pc = "idle" =>
    LET unread == {e \in Entry : remaining[e] # 0}
    IN  committed \subseteq valid \cup ToSet(done) \cup unread /\ unread \subseteq touched

\* What a layer adopted is resident when it stages: with no read failing,
\* no byte of an adopted entry is read twice.
AdoptedIsResident ==
  pc = "stage" /\ mode.adopt /\ ~mode.readsFail => adopted \subseteq valid

\* Every call returns, or ends the run: no wait of the eval thread misses its
\* wakeup.
CallsReturn == pc # "idle" ~> pc \in {"idle", "fatal"}
=============================================================================
