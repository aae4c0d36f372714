--------------------------------- MODULE Router ---------------------------------
(***************************************************************************)
(* The eval callback of the engine over the graphs llama.cpp runs: at the   *)
(* topk node of a layer the selection is substituted, or committed from a   *)
(* ranking made layers ago, and its load is made there or deferred to the   *)
(* node that ends the layer's weight chain, where cold experts are dropped. *)
(* A worker thread ranks experts for layers ahead through a mailbox of one  *)
(* job and one result.                                                      *)
(*                                                                         *)
(* The expert source is external here: a residency query may answer any     *)
(* set, and what a load was given is resident until the layer has run       *)
(* (ExpertStream and Speculation model it).  A prediction is the number of  *)
(* the graph whose hidden state it was made from.                           *)
(***************************************************************************)
EXTENDS Ranking, SequencesExt, FiniteSetsExt

CONSTANTS
  NLayers,
  Experts,         (* expert ids                                            *)
  NUsed,           (* n_expert_used, the width of a routing                 *)
  Modes,           (* configurations, before validation                     *)
  Chains,          (* the weight nodes a graph may emit per layer, in order *)
  Scores,          (* the router scores substitution looks at               *)
  MaxGraphs        (* bound on the graphs                                   *)

Layers == 0..(NLayers - 1)
NoVariant == -1
Variants == 0..3                 \* weights, softmax, norm, scaled
MaxRows == 2
Slots == 1..NUsed
Cells(n) == (1..n) \X Slots
RouteAheadMax == 4
Types == {"F32", "F16", "BF16"}  \* of the gate input and of the gate matrix
Mode == [drop : BOOLEAN, prefill : BOOLEAN, lambda : 0..2, ahead : 0..(RouteAheadMax + 1),
         predict : BOOLEAN, probe : BOOLEAN, hint : BOOLEAN, trace : BOOLEAN,
         draft : BOOLEAN, row : Types, weight : Types]
Job == [seq : Nat, nl : Layers, tok : Nat, commit : BOOLEAN]
NoJob == [seq |-> 0, nl |-> 0, tok |-> 0, commit |-> FALSE]

ASSUME RouterAssumption ==
  /\ NLayers \in Nat \ {0}
  /\ Experts \subseteq Nat /\ IsFiniteSet(Experts)
  /\ NUsed \in 1..Cardinality(Experts)
  /\ Modes \subseteq Mode
  /\ \A m \in Modes : m.draft => NLayers > 1    \* a draft head follows a trunk
  /\ Chains \subseteq Seq(Variants) /\ << >> \notin Chains
  /\ Scores \subseteq [Experts -> Nat]
  /\ MaxGraphs \in Nat

VARIABLES
  mode,
  (* the graph *)
  tok,             (* its number                                            *)
  phase,           (* batch_phase_: 0 prefill, 1 decode                     *)
  rows,            (* the tokens of the batch                               *)
  chain,           (* the weight nodes each of its layers emits             *)
  left,            (* the layers still to route                             *)
  il, at, wpos,    (* the layer, and the node it has come to                *)
  ids, zeroed,     (* the topk node; the weights set to zero                *)
  (* the hook *)
  term,            (* term_variant_                                         *)
  drop,            (* drop_: the layer of the last topk, deferred           *)
  chainLast,       (* chain_last_                                           *)
  pending,         (* pending_: the trace record being built                *)
  fatal,
  (* prediction *)
  gate,            (* the layers whose gate matrix is known: gate_w_        *)
  stale, stale2, self, prev,     (* the probe's four predictions, by layer  *)
  slot,            (* ra_pred_                                              *)
  seq,             (* pred_seq_                                             *)
  job, working, result,          (* the mailbox; NoJob is absent            *)
  tripped,         (* the watchdog disarmed the prediction                  *)
  (* history *)
  routed,          (* the router's own ids, and those the policies left     *)
  loaded,          (* what was loaded for the layer                         *)
  committed,       (* the prediction the layer was routed by, 0 if none     *)
  scored,          (* the predictions the probe graded at the last topk     *)
  misread,         (* the watchdog compared with ids that are not the router's *)
  faults,          (* matmuls run on experts nothing loaded, by layer       *)
  moves            (* graphs whose weight chain differs from the one before *)

graphVars == <<tok, phase, rows, chain, left, il, at, wpos>>
nodeVars == <<ids, zeroed>>
dropVars == <<term, drop, chainLast>>
probeVars == <<stale, stale2, self, prev>>
mailVars == <<seq, job, working, result>>
aheadVars == <<slot, tripped>>
historyVars == <<routed, loaded, committed, scored, misread, faults, moves>>
vars == <<mode, graphVars, nodeVars, dropVars, pending, fatal, gate, probeVars,
          mailVars, aheadVars, historyVars>>

\* validate(): the combinations of policies a run may have.
Valid(m) ==
  /\ m.ahead \in 0..RouteAheadMax
  /\ ~(m.predict /\ m.hint)
  /\ m.ahead > 0 => ~m.probe /\ ~m.predict /\ ~m.hint /\ ~m.draft

NoDrop == [layer |-> -1, deferred |-> FALSE]
NoRecord == [layer |-> -1, dropped |-> {}]
NoScore == [stale |-> 0, stale2 |-> 0, self |-> 0, prev |-> 0]
NoneYet == [l \in Layers |-> 0]

Init ==
  /\ mode \in {m \in Modes : Valid(m)}
  /\ tok = 0 /\ phase = 1 /\ rows = 1 /\ chain = << >> /\ left = << >>
  /\ il = 0 /\ at = "idle" /\ wpos = 1
  /\ ids = << >> /\ zeroed = {}
  /\ term = [l \in Layers |-> NoVariant] /\ drop = NoDrop /\ chainLast = NoVariant
  /\ pending = NoRecord /\ fatal = FALSE
  /\ gate = {}
  /\ stale = NoneYet /\ stale2 = NoneYet /\ self = NoneYet /\ prev = NoneYet
  /\ slot = NoneYet /\ seq = 0
  /\ job = NoJob /\ working = NoJob /\ result = NoJob /\ tripped = FALSE
  /\ routed = [router |-> << >>, run |-> << >>] /\ loaded = {}
  /\ committed = 0 /\ scored = NoScore /\ misread = FALSE
  /\ faults = [l \in Layers |-> 0] /\ moves = 0
-----------------------------------------------------------------------------
(* Which policy is live in this batch.                                     *)

SubstituteArmed == mode.lambda > 0 /\ phase = 1
DropArmed == mode.drop /\ (phase = 1 \/ mode.prefill)
AheadOn == mode.ahead > 0 /\ phase = 1
Predicting == (mode.predict \/ mode.probe \/ mode.ahead > 0) /\ phase = 1

TopK(s) == RankTopK(s, NUsed)

\* Residents are raised by lambda times the range of the token's scores.
\* Scores are doubled, so that lambda 1 stands for a half.
Raised(s, resident) ==
  LET range == Max({s[e] : e \in Experts}) - Min({s[e] : e \in Experts})
  IN  [e \in Experts |-> 2 * s[e] + (IF e \in resident THEN mode.lambda * range ELSE 0)]

\* A routing is rewritten only when the set of its experts moved.
Reranked(s, resident) ==
  LET router == TopK(s)
      pick == TopK(Raised(s, resident))
  IN  [router |-> router,
       run |-> IF ToSet(pick) = ToSet(router) THEN router ELSE pick]

\* What the router selects for a row and what substitution leaves of it.
\* No handler looks at ids that neither policy edits: one selection stands
\* for them all.  The order of the slots is left to the weights.
AnySelection ==
  {s \in [Slots -> Experts] : \A j, k \in Slots : j < k => s[j] < s[k]}
Routings ==
  IF SubstituteArmed THEN {Reranked(s, r) : s \in Scores, r \in SUBSET Experts}
  ELSE {[router |-> s, run |-> s] :
          s \in IF DropArmed THEN AnySelection ELSE {TopK(CHOOSE t \in Scores : TRUE)}}
-----------------------------------------------------------------------------
(* Graphs.                                                                 *)

\* llama_decode: a draft session's head is a graph of its own on the last
\* layer.  set_batch_phase, begin_trace_batch.
Bodies ==
  IF mode.draft THEN {[i \in 1..(NLayers - 1) |-> i - 1], <<NLayers - 1>>}
  ELSE {[i \in 1..NLayers |-> i - 1]}

BeginGraph(p, n, c, body) ==
  /\ at = "idle" /\ tok < MaxGraphs /\ ~fatal
  /\ tok' = tok + 1
  /\ phase' = p /\ rows' = n /\ chain' = c
  /\ moves' = moves + (IF tok > 0 /\ c # chain THEN 1 ELSE 0)
  /\ il' = Head(body) /\ left' = Tail(body)
  /\ at' = "logits" /\ wpos' = 1
  /\ pending' = NoRecord
  /\ UNCHANGED <<mode, nodeVars, dropVars, fatal, gate, probeVars, mailVars, aheadVars,
                 routed, loaded, committed, scored, misread, faults>>

\* The gate matmul: its matrix is learned in the ask pass; the probe, which
\* isolates the node, ranks the layer and the two after it from the matrices
\* it knows, when row_to_float and gate_scores read their types.
Scorable == Readable(mode.row) /\ Readable(mode.weight)
Logits ==
  LET seen == IF Predicting THEN gate \cup {il} ELSE gate
      made(l) == IF l \in seen /\ Scorable THEN tok ELSE 0
      Made(f, l) == IF l \in Layers THEN [f EXCEPT ![l] = made(l)] ELSE f
  IN
  /\ at = "logits"
  /\ gate' = seen
  /\ IF mode.probe /\ phase = 1
       THEN /\ self' = Made(self, il)
            /\ stale' = Made(stale, il + 1)
            /\ stale2' = Made(stale2, il + 2)
       ELSE UNCHANGED <<self, stale, stale2>>
  /\ at' = "topk"
  /\ UNCHANGED <<mode, tok, phase, rows, chain, left, il, wpos, nodeVars, dropVars,
                 pending, fatal, prev, mailVars, aheadVars, historyVars>>
-----------------------------------------------------------------------------
(* The topk node.                                                          *)

\* close_drop_layer: what ended the last layer's chain is learned; a deferral
\* that was not honoured is loaded for now, and its terminal forgotten.
KeepsTerminal ==
  IF drop.layer < 0 \/ term[drop.layer] # NoVariant THEN term
  ELSE [term EXCEPT ![drop.layer] = chainLast]
Learned ==
  LET l == drop.layer
  IN  IF l < 0 THEN term
      ELSE IF drop.deferred THEN [term EXCEPT ![l] = NoVariant]
      ELSE IF term[l] = NoVariant THEN [term EXCEPT ![l] = chainLast]
      ELSE term

\* route_ahead_collect: only the ranking of the last job submitted.
Collectable ==
  AheadOn /\ ~tripped /\ result # NoJob /\ result.commit /\ result.seq = seq
Collected == IF Collectable THEN [slot EXCEPT ![result.nl] = result.tok] ELSE slot
AfterCollect == IF Collectable THEN NoJob ELSE result

\* predict_after_load: a result for the layer after the one just loaded.
Hinted ==
  /\ mode.predict /\ ~tripped /\ phase = 1
  /\ result # NoJob /\ result.nl = il + 1
AfterLoad == IF Hinted THEN NoJob ELSE AfterCollect

\* The slot of the target layer is cleared before anything can decline.
NotCleared(s, target) == s
Cleared(s, target) == IF target \in Layers THEN [s EXCEPT ![target] = 0] ELSE s

\* The next two submit a job for the layer they look ahead to, made of this
\* layer's input, unless the watchdog has disarmed the prediction, the matrix
\* of that layer is not known yet or the row is of a type not read.
Sends(target, trips) == ~tripped /\ ~trips /\ target \in gate /\ Readable(mode.row)
SubmitsAhead(trips) == AheadOn /\ Sends(il + mode.ahead, trips)
AheadJob == [seq |-> seq + 1, nl |-> il + mode.ahead, tok |-> tok, commit |-> TRUE]
SubmitsHint(trips) == mode.predict /\ Predicting /\ Sends(il + 2, trips)
HintJob == [seq |-> seq + 1, nl |-> il + 2, tok |-> tok, commit |-> FALSE]

\* A sample of the watchdog ranks the layer's own matrix: it compares what it
\* can score, and may disarm the prediction.
Sampled(sample, trips, seen, router) ==
  /\ sample => (AheadOn \/ (mode.predict /\ Predicting)) /\ ~tripped /\ Scorable
  /\ trips => sample
  /\ tripped' = (tripped \/ trips)
  /\ misread' = (misread \/ (sample /\ seen # router))

Submit(trips) ==
  IF SubmitsAhead(trips) \/ SubmitsHint(trips)
    THEN seq' = seq + 1 /\ job' = IF AheadOn THEN AheadJob ELSE HintJob
    ELSE UNCHANGED <<seq, job>>

\* apply_route_ahead: a single row is routed by the slot of its layer.
Commits(s, trips) ==
  /\ AheadOn /\ ~tripped /\ ~trips /\ il >= mode.ahead
  /\ rows = 1 /\ s[il] # 0
AfterApply(s, trips) ==
  IF AheadOn /\ ~tripped /\ ~trips /\ il >= mode.ahead THEN [s EXCEPT ![il] = 0] ELSE s

Deferred == DropArmed /\ Learned[il] # NoVariant

\* score_layer, then the record of this routing for the next token.
RecordFirst ==
  /\ scored' = [NoScore EXCEPT !.prev = IF mode.probe THEN tok ELSE 0]
  /\ prev' = IF mode.hint \/ mode.probe THEN [prev EXCEPT ![il] = tok] ELSE prev
  /\ UNCHANGED <<stale, stale2, self>>
Score ==
  /\ IF mode.probe /\ phase = 1
       THEN /\ scored' = [stale |-> stale[il], stale2 |-> stale2[il],
                          self |-> self[il], prev |-> prev[il]]
            /\ stale' = [stale EXCEPT ![il] = 0]
            /\ stale2' = [stale2 EXCEPT ![il] = 0]
            /\ self' = [self EXCEPT ![il] = 0]
       ELSE UNCHANGED <<scored, stale, stale2, self>>
  /\ prev' = IF mode.hint \/ mode.probe THEN [prev EXCEPT ![il] = tok] ELSE prev

Topk(pick, commit, sample, trips, closed) ==
  LET router == [j \in 1..rows |-> pick[j].router]
      policy == [j \in 1..rows |-> pick[j].run]
      open == IF AheadOn /\ ~tripped THEN Cleared(Collected, il + mode.ahead) ELSE slot
      final == IF Commits(open, trips) THEN <<commit>> ELSE policy
  IN
  /\ at = "topk"
  /\ ~closed => drop.deferred
  /\ Sampled(sample, trips, policy[rows], router[rows]) /\ Submit(trips)
  /\ result' = AfterCollect
  /\ slot' = AfterApply(open, trips)
  /\ committed' = IF Commits(open, trips) THEN open[il] ELSE 0
  /\ ids' = final /\ zeroed' = {}
  /\ routed' = [router |-> router, run |-> final]
  /\ loaded' = {}
  /\ pending' = IF mode.trace THEN [layer |-> il, dropped |-> {}] ELSE NoRecord
  /\ term' = Learned
  /\ drop' = [layer |-> il, deferred |-> Deferred] /\ chainLast' = NoVariant
  /\ Score
  /\ fatal' = (fatal \/ ~closed)
  /\ at' = IF Deferred THEN "chain" ELSE "load"
  /\ UNCHANGED <<mode, tok, phase, rows, chain, left, il, wpos, gate, working,
                 faults, moves>>

\* load_layer at the topk node, then what the load was waited for.
Load(ok) ==
  /\ at = "load"
  /\ loaded' = IF ok THEN UNION {ToSet(ids[j]) : j \in 1..rows} ELSE {}
  /\ fatal' = (fatal \/ ~ok)
  /\ result' = AfterLoad /\ slot' = Collected
  /\ at' = "chain"
  /\ UNCHANGED <<mode, tok, phase, rows, chain, left, il, wpos, nodeVars, dropVars,
                 pending, gate, probeVars, seq, job, working, tripped,
                 routed, committed, scored, misread, faults, moves>>
-----------------------------------------------------------------------------
(* The weight chain.                                                       *)

\* The weight nodes the hook sees: all of a layer's until its terminal is
\* known, then only that one.
Isolated(v) == (mode.trace \/ DropArmed) /\ term[il] \in {NoVariant, v}

NodeSkipped ==
  /\ at = "chain" /\ wpos <= Len(chain) /\ ~Isolated(chain[wpos])
  /\ wpos' = wpos + 1
  /\ UNCHANGED <<mode, tok, phase, rows, chain, left, il, at, nodeVars, dropVars, pending,
                 fatal, gate, probeVars, mailVars, aheadVars, historyVars>>

Decides(v) == drop.layer = il /\ drop.deferred /\ term[il] = v

NodeObserved ==
  /\ at = "chain" /\ wpos <= Len(chain) /\ Isolated(chain[wpos])
  /\ ~Decides(chain[wpos])
  /\ wpos' = wpos + 1
  /\ chainLast' = IF drop.layer = il THEN chain[wpos] ELSE chainLast
  /\ UNCHANGED <<mode, tok, phase, rows, chain, left, il, at, nodeVars, term, drop,
                 pending, fatal, gate, probeVars, mailVars, aheadVars, historyVars>>

\* A light cold slot is dropped, the heaviest of its row never.
Pinned(best) == {<<j, best[j]>> : j \in 1..rows}
Dropped(best, light, resident) ==
  {c \in light : c \notin Pinned(best) /\ ids[c[1]][c[2]] \notin resident}
FirstRowsBest(best, out) ==
  [j \in 1..rows |-> [k \in Slots |->
     IF <<j, k>> \in out THEN ids[1][best[1]] ELSE ids[j][k]]]
Repointed(best, out) ==
  [j \in 1..rows |-> [k \in Slots |->
     IF <<j, k>> \in out THEN ids[j][best[j]] ELSE ids[j][k]]]

\* apply_drop, at the node that ends the chain: the dropped slots weigh
\* nothing and point at the heaviest expert of their row; the rest is loaded.
ApplyDrop(best, light, resident, ok) ==
  LET out == Dropped(best, light, resident)
      kept == Repointed(best, out)
  IN
  /\ at = "chain" /\ wpos <= Len(chain) /\ Isolated(chain[wpos])
  /\ Decides(chain[wpos])
  /\ wpos' = wpos + 1 /\ chainLast' = chain[wpos]
  /\ ids' = kept /\ zeroed' = out
  /\ pending' = IF pending.layer = il THEN [pending EXCEPT !.dropped = out] ELSE pending
  /\ loaded' = IF ok THEN UNION {ToSet(kept[j]) : j \in 1..rows} ELSE {}
  /\ fatal' = (fatal \/ ~ok)
  /\ drop' = [drop EXCEPT !.deferred = FALSE]
  /\ result' = AfterLoad /\ slot' = Collected
  /\ UNCHANGED <<mode, tok, phase, rows, chain, left, il, at, term, gate, probeVars, seq,
                 job, working, tripped, routed, committed, scored, misread,
                 faults, moves>>

\* The experts of the layer are multiplied.
Matmul ==
  /\ at = "chain" /\ wpos > Len(chain) /\ ~fatal
  /\ faults' = IF UNION {ToSet(ids[j]) : j \in 1..rows} \subseteq loaded THEN faults
               ELSE [faults EXCEPT ![il] = @ + 1]
  /\ at' = "ran"
  /\ UNCHANGED <<mode, tok, phase, rows, chain, left, il, wpos, nodeVars, dropVars, pending,
                 fatal, gate, probeVars, mailVars, aheadVars,
                 routed, loaded, committed, scored, misread, moves>>

Rest == /\ ids' = << >> /\ zeroed' = {} /\ loaded' = {}
        /\ routed' = [router |-> << >>, run |-> << >>]
        /\ committed' = 0 /\ scored' = NoScore

NextLayer ==
  /\ at = "ran"
  /\ IF left = << >> THEN at' = "idle" /\ UNCHANGED <<il, left>>
                     ELSE at' = "logits" /\ il' = Head(left) /\ left' = Tail(left)
  /\ wpos' = 1
  /\ pending' = IF left = << >> THEN NoRecord ELSE pending
  /\ Rest
  /\ UNCHANGED <<mode, tok, phase, rows, chain, dropVars, fatal, gate, probeVars,
                 mailVars, aheadVars, misread, faults, moves>>

\* A cancel or a failed read ends the graph between two nodes.
Abort ==
  /\ at \in {"logits", "topk", "chain"}
  /\ at' = "idle" /\ left' = << >> /\ pending' = NoRecord
  /\ Rest
  /\ UNCHANGED <<mode, tok, phase, rows, chain, il, wpos, dropVars, fatal, gate, probeVars,
                 mailVars, aheadVars, misread, faults, moves>>
-----------------------------------------------------------------------------
(* The prediction worker.                                                  *)

Take ==
  /\ job # NoJob /\ working = NoJob
  /\ working' = job /\ job' = NoJob
  /\ UNCHANGED <<mode, graphVars, nodeVars, dropVars, pending, fatal, gate, probeVars,
                 seq, result, aheadVars, historyVars>>

\* A job whose matrix gate_scores does not read leaves no result.
Post ==
  /\ working # NoJob
  /\ result' = (IF Readable(mode.weight) THEN working ELSE result)
  /\ working' = NoJob
  /\ UNCHANGED <<mode, graphVars, nodeVars, dropVars, pending, fatal, gate, probeVars,
                 seq, job, aheadVars, historyVars>>
-----------------------------------------------------------------------------
Widths(p) == IF p = 0 \/ mode.draft THEN 1..MaxRows ELSE {1}

Next ==
  \/ \E p \in 0..1, c \in Chains, body \in Bodies : \E n \in Widths(p) :
       BeginGraph(p, n, c, body)
  \/ Logits
  \/ \E sample, trips, closed \in BOOLEAN : \E pick \in [1..rows -> Routings] :
       Topk(pick, TopK(CHOOSE s \in Scores : TRUE), sample, trips, closed)
  \/ \E ok \in BOOLEAN : Load(ok)
  \/ NodeSkipped \/ NodeObserved
  \/ \E best \in [1..rows -> Slots], light \in SUBSET Cells(rows),
        resident \in SUBSET Experts, ok \in BOOLEAN : ApplyDrop(best, light, resident, ok)
  \/ Matmul \/ NextLayer \/ Abort
  \/ Take \/ Post

Spec == Init /\ [][Next]_vars
-----------------------------------------------------------------------------
(* Properties.                                                             *)

\* Every variable has its type.
TypeOK ==
  /\ mode \in Mode /\ tok \in 0..MaxGraphs /\ phase \in 0..1 /\ rows \in 1..MaxRows
  /\ chain \in Chains \cup {<< >>} /\ il \in Layers
  /\ at \in {"idle", "logits", "topk", "load", "chain", "ran"}
  /\ \A j \in DOMAIN ids : ids[j] \in [Slots -> Experts]
  /\ zeroed \subseteq Cells(MaxRows)
  /\ term \in [Layers -> Variants \cup {NoVariant}]
  /\ drop \in [layer : Layers \cup {-1}, deferred : BOOLEAN]
  /\ gate \subseteq Layers
  /\ \A f \in {stale, stale2, self, prev, slot} : f \in [Layers -> 0..MaxGraphs]
  /\ {job, working, result} \subseteq Job

\* The matmul of a layer reads only what was loaded for it, but once after
\* the graph moved under the terminal node the hook had learned.
UnloadedOnlyAfterMove == \A l \in Layers : faults[l] <= moves

\* What a slot computes is what the policies selected for it, unless it was
\* dropped: then it weighs nothing, and repeats a live expert of its row.
\* A row always keeps a live slot, and the trace tells which were dropped.
SlotsSelectedOrDead ==
  at = "ran" =>
    /\ \A j \in 1..rows : \A k \in Slots :
         IF <<j, k>> \in zeroed
           THEN \E q \in Slots : <<j, q>> \notin zeroed /\ ids[j][k] = routed.run[j][q]
           ELSE ids[j][k] = routed.run[j][k]
    /\ mode.trace => pending = [layer |-> il, dropped |-> zeroed]

\* A layer is routed by a prediction of this graph's own hidden state, never
\* by one another token left in its slot or in the mailbox.
CommitFromThisToken == committed \in {0, tok}

\* The probe grades predictions of this token, and for the previous-token
\* predictor a routing of an earlier one.
GradesWhatWasPredicted ==
  scored # NoScore =>
    /\ {scored.stale, scored.stale2, scored.self} \subseteq {0, tok}
    /\ scored.prev < tok

\* The watchdog compares its control with the ids the router chose.
WatchdogSeesRouter == ~misread
=============================================================================
