------------------------------ MODULE SessionTurn ------------------------------
(***************************************************************************)
(* A chat session over its turns (Session::generate).  The session keeps    *)
(* the conversation (chat_history), the tokens it believes the context's KV *)
(* holds (kv_tokens), and through llama.cpp the KV itself, the KV of an MTP  *)
(* draft context and the state of the sampler.  A turn renders the          *)
(* conversation, reuses the KV's common prefix, prefills the rest and       *)
(* generates, speculatively or not; it may be cancelled, fail at any        *)
(* decode, or have its context grown or compacted under it.                 *)
(*                                                                         *)
(* Tokens are abstract.  A token of reasoning is generated like another and *)
(* stripped from the message the turn commits, so the next prompt may       *)
(* diverge from what the KV holds; under a budget, reasoning is free of      *)
(* charge up to an allowance, sampled apart and never drafted.  Between two  *)
(* turns a text may be scored, which ends the conversation.  Turns are of    *)
(* text and go through a chat template: media and raw prompts are left out.  *)
(***************************************************************************)
EXTENDS Integers, Sequences, FiniteSets, SequencesExt, NgramDraft

CONSTANTS
  Modes,           (* configurations of the session, below                  *)
  Prompts,         (* user messages, one token each                         *)
  NPredict,        (* n_predict of a request                                *)
  DraftMax,        (* spec.draft_max, and n_rs_seq                          *)
  MinMatch, MaxMatch,  (* spec.ngram_min_match, spec.ngram_max_match        *)
  Slack,           (* the positions kept free, 8 in the code                *)
  MaxCtx,          (* context.max_ctx                                       *)
  Texts,           (* lengths of a text to score                            *)
  Skip,            (* the positions of it that are not scored               *)
  MaxTurns         (* bound on the turns of a session                       *)

Asst == "asst"       \* the generation prompt, and the header of a reply
Eog == "eog"
Reasoning == "think"
Summary == "sum"
Scored == "text"
Wrong == "?"         \* a position restored from a snapshot of another one
Out == {"word", Reasoning}
Token == Prompts \cup Out \cup {Asst, Eog, Summary, Scored, Wrong}

\* memory: what llama_memory_seq_rm can take back; batch: n_batch, the
\* tokens of a decode; ubatch: n_ubatch, the part computed at once; grow,
\* trim, summarize: the context policy, auto when it reserves the output in
\* advance.  budgets: the reasoning budgets of its requests, -1 for none.
ModeType ==
  [memory : {"attention", "recurrent", "snapshots"}, spec : {"off", "ngram", "mtp"},
   grow : BOOLEAN, trim : BOOLEAN, summarize : BOOLEAN, auto : BOOLEAN,
   budgets : SUBSET (-1..MaxCtx),
   ctx : 1..MaxCtx, batch : 1..MaxCtx, ubatch : 1..MaxCtx]

\* What validate() and the opening of the session let through: a verify batch
\* is computed at once, and drafts need a memory that takes positions back.
ValidMode(m) ==
  /\ m.ubatch <= m.batch /\ m.batch <= m.ctx
  /\ m.spec # "off" => m.ubatch >= DraftMax + 1 /\ m.memory # "recurrent"
  /\ m.memory = "snapshots" => m.spec # "off"

ASSUME SessionTurnAssumption ==
  /\ Modes \subseteq ModeType
  /\ \A m \in Modes : ValidMode(m) /\ m.budgets # {}
  /\ Texts \subseteq Nat /\ Skip \in Nat
  /\ NPredict \in Nat \ {0} /\ DraftMax \in Nat \ {0} /\ Slack \in Nat
  /\ MinMatch \in 1..MaxMatch /\ MaxMatch \in Nat /\ MaxCtx \in Nat

VARIABLES
  mode,
  ctxSize,         (* cfg.n_ctx                                             *)
  kv,              (* the tokens the target's KV holds, by position         *)
  lastDecode,      (* how many of them the last ubatch decoded              *)
  draftKv,         (* the KV of the MTP draft context                       *)
  kvTokens,        (* kv_tokens                                             *)
  history,         (* chat_history                                          *)
  rng,             (* samples drawn from the session sampler                *)
  cancel,          (* cancel_requested                                      *)
  pc, turn,        (* the turn being served                                 *)
  before,          (* what its rollback goes back to                        *)
  outcome,         (* how the last turn ended                               *)
  turns

memVars == <<kv, lastDecode, draftKv, kvTokens>>
vars == <<mode, ctxSize, memVars, history, rng, cancel, pc, turn, before, outcome, turns>>

Take(s, n) == SubSeq(s, 1, IF n < Len(s) THEN n ELSE Len(s))
CommonPrefix(s, t, most) ==
  CHOOSE n \in 0..Len(s) :
    /\ n <= most /\ Take(s, n) = Take(t, n)
    /\ \A k \in (n + 1)..Len(s) : k > most \/ Take(s, k) # Take(t, k)

Least(a, b) == IF a < b THEN a ELSE b
Larger(a, b) == IF a > b THEN a ELSE b

\* The chat template over a conversation, with the generation prompt.
RenderMessage(m) == IF m.role = "user" THEN m.content ELSE <<Asst>> \o m.content
Render(h) == FlattenSeq([i \in DOMAIN h |-> RenderMessage(h[i])]) \o <<Asst>>
User(u) == [role |-> "user", content |-> <<u>>]
Shown(t) == IF t = Reasoning THEN << >> ELSE <<t>>
Reply(s) == [role |-> "assistant", content |-> FlattenSeq([i \in DOMAIN s |-> Shown(s[i])])]

PolicyOn == mode.grow \/ mode.trim \/ mode.summarize
Mtp == mode.spec = "mtp"
Budgeted == turn.budget >= 0
SpecOn == mode.spec # "off" /\ ~Budgeted

NoTurn == [budget |-> -1, tokens |-> << >>, common |-> 0, i |-> 0, emitted |-> << >>,
           tok |-> Eog, nPast |-> 0, changed |-> FALSE, tried |-> FALSE]
NotBegun == [history |-> << >>, rng |-> 0, pushed |-> FALSE]

Init ==
  /\ mode \in Modes /\ ctxSize = mode.ctx
  /\ kv = << >> /\ lastDecode = 0 /\ draftKv = << >> /\ kvTokens = << >>
  /\ history = << >> /\ rng = 0 /\ cancel = FALSE
  /\ pc = "idle" /\ turn = NoTurn /\ before = NotBegun /\ outcome = "none" /\ turns = 0
-----------------------------------------------------------------------------
(* Reasoning.  A span runs from a token of reasoning to the one that closes *)
(* it, which the budget's sampler forces when the budget is spent; tokens    *)
(* of a span are not charged up to the allowance, the closing tag included.  *)

EndTag == 1
Allowance == IF Budgeted THEN turn.budget + EndTag ELSE 0
InSpan(s) == {k \in DOMAIN s : s[k] = Reasoning \/ (k > 1 /\ s[k - 1] = Reasoning)}
Charged(s) == Len(s) - Least(Allowance, Cardinality(InSpan(s)))

\* What may be sampled after s, and the draws of the session's sampler: a
\* budgeted turn has a sampler of its own.
OpenSpan(s) == s # << >> /\ Last(s) = Reasoning
Sampled(s) ==
  IF Budgeted /\ OpenSpan(s) /\ Cardinality(InSpan(s)) >= turn.budget
    THEN Out \ {Reasoning} ELSE Out \cup {Eog}
Drawn == IF Budgeted THEN rng ELSE rng + 1
-----------------------------------------------------------------------------
(* The KV and its records.                                                 *)

Mem == [kv |-> kv, last |-> lastDecode, draft |-> draftKv, tokens |-> kvTokens]
Cleared == [kv |-> << >>, last |-> 0, draft |-> << >>, tokens |-> << >>]
SetMem(m) ==
  kv' = m.kv /\ lastDecode' = m.last /\ draftKv' = m.draft /\ kvTokens' = m.tokens

\* kv_remove_tail: whether the memory takes back the positions from keep on,
\* and what it then holds.  A snapshot covers the last ubatch only, and
\* llama.cpp restores one without looking which.
Removes(m, keep) ==
  \/ Len(m.kv) <= keep \/ keep = 0 \/ mode.memory = "attention"
  \/ mode.memory = "snapshots" /\ Len(m.kv) - keep <= DraftMax
Kept(m, keep) ==
  LET n == Len(m.kv) - keep
  IN  IF n <= 0 THEN m
      ELSE [m EXCEPT !.kv = IF mode.memory = "snapshots" /\ keep > 0 /\ n >= m.last
                              THEN [i \in 1..keep |-> Wrong] ELSE Take(m.kv, keep),
                     !.last = IF n < @ THEN @ - n ELSE 0]

\* truncate_kv: target, draft and records together, or nothing is kept.
AnySnapshot(m, keep, inLastDecode) == FALSE
SnapshotUnsafe(m, keep, inLastDecode) ==
  mode.memory = "snapshots" /\ Len(m.kv) > keep /\ ~inLastDecode
Truncates(m, keep, inLastDecode) ==
  ~SnapshotUnsafe(m, keep, inLastDecode) /\ Removes(m, keep)
Truncated(m, keep, keepTokens, inLastDecode) ==
  IF Truncates(m, keep, inLastDecode)
    THEN [Kept(m, keep) EXCEPT !.draft = Take(@, keep), !.tokens = Take(@, keepTokens)]
    ELSE Cleared

\* A batch decoded in whole; a batch whose decode failed leaves the ubatches
\* computed before, one the draft context could not process stays in the
\* target alone.
LastUbatch(n) == IF n % mode.ubatch = 0 THEN mode.ubatch ELSE n % mode.ubatch
Decoded(m, batch) ==
  [m EXCEPT !.kv = @ \o batch,
            !.last = IF Len(batch) < mode.ubatch THEN Len(batch) ELSE LastUbatch(Len(batch))]
PartOf(batch) == {Take(batch, k * mode.ubatch) : k \in 0..((Len(batch) - 1) \div mode.ubatch)}
LeftBy(m, part) == IF part = << >> THEN m ELSE Decoded(m, part)
Undrafted(m, batch) == {d \in {Decoded(m, batch)} : Mtp}
Unfinished(m, batch) == {LeftBy(m, part) : part \in PartOf(batch)}
Processed(m, batch) == IF Mtp THEN [m EXCEPT !.draft = @ \o batch] ELSE m
-----------------------------------------------------------------------------
(* The end of a turn.                                                      *)

\* rollback_history: with a policy the whole conversation is put back.
PopOnly == IF before.pushed THEN Front(history) ELSE before.history
PriorHistory == IF PolicyOn THEN before.history ELSE PopOnly

EndTurn(how) ==
  /\ outcome' = how /\ pc' = "idle" /\ turn' = NoTurn /\ before' = NotBegun
  /\ UNCHANGED <<mode, cancel, turns>>

\* rollback_turn: the KV back to the prefix it had in common, the user
\* message and the samples forgotten.
RolledBack(m) == Truncated(m, turn.common, turn.common, FALSE)
PriorSampler == before.rng
Rollback(m, how) ==
  /\ SetMem(RolledBack(m))
  /\ history' = PriorHistory /\ rng' = PriorSampler
  /\ EndTurn(how)

\* A decode that fails with a cancel pending is a cancelled turn.
Failure == IF cancel THEN "cancelled" ELSE "failed"
-----------------------------------------------------------------------------
(* A turn begins.                                                          *)

\* What a request may hand over: a prompt to append, or a transcript that
\* replaces the conversation, continued, edited or new.
Edited(h) ==
  [i \in DOMAIN h |-> IF h[i].role = "assistant" THEN [h[i] EXCEPT !.content = << >>] ELSE h[i]]
Transcripts(h, u) == {Append(h, User(u)), Append(Edited(h), User(u)), <<User(u)>>}

Generate(u, clear) ==
  /\ pc = "idle" /\ turns < MaxTurns
  /\ turns' = turns + 1
  /\ cancel' = FALSE
  /\ IF clear THEN SetMem(Cleared) ELSE UNCHANGED memVars
  /\ rng' = IF clear THEN 0 ELSE rng
  /\ LET h == IF clear THEN << >> ELSE history
     IN  \/ /\ history' = Append(h, User(u))
            /\ before' = [history |-> h, rng |-> rng', pushed |-> TRUE]
         \/ /\ history' \in Transcripts(h, u)
            /\ before' = [history |-> h, rng |-> rng', pushed |-> FALSE]
  /\ \E b \in mode.budgets : turn' = [NoTurn EXCEPT !.budget = b]
  /\ pc' = "room" /\ outcome' = "none"
  /\ UNCHANGED <<mode, ctxSize>>
-----------------------------------------------------------------------------
(* make_context_room, before the prefill and again when a context filled    *)
(* during generation (regrow).                                             *)

Making == pc \in {"room", "regrow"}
Reserve == IF pc = "regrow" THEN Len(turn.emitted) + Slack + 1
           ELSE IF mode.auto THEN NPredict + Larger(0, turn.budget) + Slack ELSE Slack + 1
Need == Len(Render(history)) + Reserve
Crowded == PolicyOn /\ Need > ctxSize

Uncapped(need) == Larger(need, 2 * ctxSize)
Grown(need) == IF Uncapped(need) > MaxCtx THEN MaxCtx ELSE Uncapped(need)

\* resize_context: new contexts, with an empty KV.
Resize(size) == ctxSize' = size /\ SetMem(Cleared)

MayGrow == mode.grow /\ ctxSize < MaxCtx
RoomGrow ==
  /\ Making /\ Crowded /\ MayGrow
  /\ Resize(Grown(Need))
  /\ turn' = [turn EXCEPT !.changed = TRUE]
  /\ UNCHANGED <<mode, history, rng, cancel, pc, outcome, before, turns>>

\* oldest_complete_turn: the messages from the first user message to the
\* second; the newest turn is protected.
Users == {i \in DOMAIN history : history[i].role = "user"}
OldTurn == Cardinality(Users) > 1
OldStart == CHOOSE i \in Users : \A j \in Users : i <= j
OldEnd == CHOOSE i \in Users \ {OldStart} : \A j \in Users \ {OldStart} : i <= j
Without(note) == Take(history, OldStart - 1) \o note \o SubSeq(history, OldEnd, Len(history))

\* A summary is taken once in a call, in a context of its own that leaves
\* the session's alone, if the old turn fits there and comes out shorter; a
\* summary that fails, and a growth that cannot allocate, fall through to
\* the trim.
SummaryLimit == Least(256, ctxSize \div 4)
SummarySource == <<Summary>> \o Render(SubSeq(history, OldStart, OldEnd - 1))
SummaryFits == SummaryLimit > 0 /\ Len(SummarySource) + SummaryLimit + Slack <= ctxSize
RoomSummarize ==
  /\ Making /\ Crowded /\ OldTurn
  /\ mode.summarize /\ ~turn.tried /\ ~cancel /\ SummaryFits
  /\ OldEnd - OldStart > 1
  /\ history' = Without(<<User(Summary)>>)
  /\ turn' = [turn EXCEPT !.changed = TRUE, !.tried = TRUE]
  /\ UNCHANGED <<mode, ctxSize, memVars, rng, cancel, pc, outcome, before, turns>>

RoomTrim ==
  /\ Making /\ Crowded /\ OldTurn /\ mode.trim
  /\ history' = Without(<< >>)
  /\ turn' = [turn EXCEPT !.changed = TRUE, !.tried = TRUE]
  /\ UNCHANGED <<mode, ctxSize, memVars, rng, cancel, pc, outcome, before, turns>>

\* The template does not take the conversation, or the model has no reasoning
\* that a budget could bound: nothing was decoded, but the history may have
\* been compacted by now.
Refuse ==
  /\ pc = "room"
  /\ history' = PriorHistory
  /\ EndTurn("rejected")
  /\ UNCHANGED <<ctxSize, memVars, rng>>

RoomMade == Making /\ (Crowded => ~(OldTurn /\ mode.trim))
-----------------------------------------------------------------------------
(* Admission: the KV's prefix is reused, and the request must fit.         *)

Admit ==
  LET tokens == Render(history)
      reuse == kvTokens # << >>
      n == CommonPrefix(kvTokens, tokens, Len(tokens) - 1)
      trims == reuse /\ (n < Len(kvTokens) \/ Mtp)
      m == IF trims THEN Truncated(Mem, n, n, FALSE) ELSE Mem
      common == IF ~reuse \/ (trims /\ ~Truncates(Mem, n, FALSE)) THEN 0 ELSE n
      reserve == IF ~PolicyOn \/ mode.auto THEN NPredict + Allowance ELSE 1
  IN
  /\ pc = "room" /\ RoomMade
  /\ SetMem(m)
  /\ IF Len(tokens) + reserve + Slack > ctxSize
       THEN /\ history' = PriorHistory
            /\ EndTurn("rejected")
       ELSE /\ turn' = [turn EXCEPT !.tokens = tokens, !.common = common, !.i = common]
            /\ pc' = "prefill"
            /\ UNCHANGED <<mode, history, cancel, outcome, before, turns>>
  /\ UNCHANGED <<ctxSize, rng>>
-----------------------------------------------------------------------------
(* Prefill, by chunks of n_batch.                                          *)

Chunk(s) == SubSeq(s, turn.i + 1, IF turn.i + mode.batch < Len(s) THEN turn.i + mode.batch ELSE Len(s))
\* Only an MTP batch states its position; the others follow the KV.
InPlace(pos) == Mtp => Len(kv) = pos /\ Len(draftKv) = pos

Prefill ==
  LET chunk == Chunk(turn.tokens)
      m == Processed(Decoded(Mem, chunk), chunk)
      more == turn.i + Len(chunk) < Len(turn.tokens)
  IN
  /\ pc = "prefill" /\ ~cancel
  /\ InPlace(turn.i) /\ Len(kv) + Len(chunk) <= ctxSize
  /\ IF more
       THEN /\ SetMem(m)
            /\ turn' = [turn EXCEPT !.i = @ + Len(chunk)]
            /\ UNCHANGED <<rng, pc>>
       ELSE /\ SetMem([m EXCEPT !.tokens = @ \o SubSeq(turn.tokens, turn.common + 1, Len(turn.tokens))])
            /\ \E t \in Sampled(<< >>) :
                 turn' = [turn EXCEPT !.tok = t, !.i = 0, !.nPast = Len(turn.tokens)]
            /\ rng' = Drawn
            /\ pc' = "gen"
  /\ UNCHANGED <<mode, ctxSize, history, cancel, outcome, before, turns>>

PrefillFails ==
  /\ pc = "prefill"
  /\ \/ \E m \in Unfinished(Mem, Chunk(turn.tokens)) : Rollback(m, Failure)
     \/ \E m \in Undrafted(Mem, Chunk(turn.tokens)) : Rollback(m, "failed")
  /\ UNCHANGED ctxSize
-----------------------------------------------------------------------------
(* Generation: draft, verify, accept, emit.                                *)

Ended == Charged(turn.emitted) >= NPredict \/ turn.tok = Eog
Full == turn.nPast + 1 >= ctxSize
Decoding == pc = "decode" \/ (pc = "gen" /\ ~Ended /\ ~Full)

DraftRoom ==
  IF ~SpecOn THEN 0
  ELSE Larger(0, Least(DraftMax, Least(NPredict - Charged(turn.emitted) - 1, ctxSize - turn.nPast - 2)))

\* What the source drafts: the n-gram source reads the prompt and what was
\* emitted since, the head may say anything.
Drafts ==
  IF SpecOn /\ mode.spec = "ngram"
    THEN {NgramDraft(turn.tokens \o turn.emitted, turn.tok, DraftRoom, MinMatch, MaxMatch)}
    ELSE UNION {[1..n -> Out \cup {Eog}] : n \in 0..DraftRoom}

\* The drafts the target confirms: a prefix, that stops at the end of
\* generation, which is never emitted.
Accepted(drafts) ==
  {acc \in {Take(drafts, k) : k \in 0..Len(drafts)} : Eog \notin ToSet(Take(acc, Len(acc) - 1))}
EndsIn(s, t) == s # << >> /\ Last(s) = t
Emits(acc) == <<turn.tok>> \o (IF EndsIn(acc, Eog) THEN Front(acc) ELSE acc)

Decode ==
  /\ Decoding /\ ~cancel
  /\ \E drafts \in Drafts : \E acc \in Accepted(drafts) :
       LET n == Len(drafts)
           verified == Decoded(Mem, <<turn.tok>> \o drafts)
           kept == Kept(verified, turn.nPast + 1 + Len(acc))
           caughtUp == Processed(kept, <<turn.tok>> \o acc)
           out == Take(Emits(acc), NPredict - Charged(turn.emitted))
       IN
       /\ n > 0 => Len(kv) = turn.nPast
       /\ Mtp => Len(draftKv) = turn.nPast
       /\ Len(kv) + 1 + n <= ctxSize
       /\ Removes(verified, turn.nPast + 1 + Len(acc))
       /\ SetMem([caughtUp EXCEPT !.tokens = @ \o out])
       /\ IF EndsIn(acc, Eog)
            THEN /\ turn' = [turn EXCEPT !.emitted = @ \o out]
                 /\ pc' = "finish" /\ outcome' = "ok" /\ UNCHANGED rng
            ELSE /\ \E t \in Sampled(turn.emitted \o out) :
                      turn' = [turn EXCEPT !.emitted = @ \o out, !.tok = t,
                                           !.nPast = @ + 1 + Len(acc)]
                 /\ pc' = "gen" /\ rng' = Drawn /\ UNCHANGED outcome
  /\ UNCHANGED <<mode, ctxSize, history, cancel, before, turns>>

\* A cancel ends the loop, any other failure the turn.
DecodeFails ==
  /\ Decoding
  /\ IF cancel
       THEN /\ outcome' = "cancelled" /\ pc' = "finish"
            /\ UNCHANGED <<mode, memVars, history, rng, cancel, turn, before, turns>>
       ELSE Rollback(Mem, "failed")
  /\ UNCHANGED ctxSize

\* The draft context fails on a batch the target verified.
DraftFails ==
  /\ Decoding /\ ~cancel
  /\ \E drafts \in Drafts :
       \E m \in Undrafted(Mem, <<turn.tok>> \o drafts) : Rollback(m, "failed")
  /\ UNCHANGED ctxSize

GenerateEnds ==
  /\ pc = "gen" /\ Ended
  /\ pc' = "finish" /\ outcome' = "ok"
  /\ UNCHANGED <<mode, ctxSize, memVars, history, rng, cancel, turn, before, turns>>
-----------------------------------------------------------------------------
(* A full context: grow, or compact and rebuild, then replay the turn.      *)

ContextGrows ==
  /\ pc = "gen" /\ ~Ended /\ Full /\ MayGrow
  /\ Resize(Grown(0))
  /\ turn' = [turn EXCEPT !.i = 0]
  /\ pc' = "replay"
  /\ UNCHANGED <<mode, history, rng, cancel, outcome, before, turns>>

ContextFills ==
  /\ pc = "gen" /\ ~Ended /\ Full
  /\ turn' = [turn EXCEPT !.changed = FALSE, !.tried = FALSE]
  /\ pc' = "regrow"
  /\ UNCHANGED <<mode, ctxSize, memVars, history, rng, cancel, outcome, before, turns>>

\* The context is rebuilt at its size over the compacted conversation.
ContextRebuilt ==
  /\ pc = "regrow" /\ RoomMade /\ turn.changed
  /\ Resize(ctxSize)
  /\ turn' = [turn EXCEPT !.i = 0, !.tokens = Render(history)]
  /\ pc' = "replay"
  /\ UNCHANGED <<mode, history, rng, cancel, outcome, before, turns>>

ContextExhausted ==
  /\ pc = "regrow" /\ RoomMade
  /\ outcome' = "exhausted" /\ pc' = "finish"
  /\ UNCHANGED <<mode, ctxSize, memVars, history, rng, cancel, turn, before, turns>>

ReplayOf == turn.tokens \o turn.emitted
Replay ==
  LET chunk == Chunk(ReplayOf)
      m == Processed(Decoded(Mem, chunk), chunk)
      more == turn.i + Len(chunk) < Len(ReplayOf)
  IN
  /\ pc = "replay" /\ ~cancel
  /\ Len(kv) + Len(chunk) <= ctxSize
  /\ SetMem(IF more THEN m ELSE [m EXCEPT !.tokens = ReplayOf])
  /\ turn' = [turn EXCEPT !.i = IF more THEN @ + Len(chunk) ELSE 0,
                          !.nPast = IF more THEN @ ELSE Len(ReplayOf)]
  /\ pc' = IF more THEN "replay" ELSE "decode"
  /\ UNCHANGED <<mode, ctxSize, history, rng, cancel, outcome, before, turns>>

\* A replay that fails or is cancelled rolls the turn back.
ReplayFails ==
  /\ pc = "replay"
  /\ \E m \in Unfinished(Mem, Chunk(ReplayOf)) \cup Undrafted(Mem, Chunk(ReplayOf)) :
       Rollback(m, "failed")
  /\ UNCHANGED ctxSize
-----------------------------------------------------------------------------
\* The KV is trimmed to what was emitted; then the turn is undone or its
\* reply committed.
EmittedEnd == Len(turn.tokens) + Len(turn.emitted)
Untrimmed == Mem
Trimmed == IF SpecOn THEN Truncated(Mem, EmittedEnd, Len(kvTokens), TRUE) ELSE Mem

Finish ==
  /\ pc = "finish"
  /\ CASE outcome = "exhausted" ->
            /\ SetMem(Cleared)
            /\ history' = PriorHistory /\ rng' = PriorSampler
            /\ EndTurn("exhausted")
       [] outcome = "cancelled" -> Rollback(Trimmed, "cancelled")
       [] OTHER ->
            /\ SetMem(Trimmed)
            /\ history' = Append(history, Reply(turn.emitted)) /\ UNCHANGED rng
            /\ EndTurn("ok")
  /\ UNCHANGED ctxSize

-----------------------------------------------------------------------------
(* Session::perplexity: a text scored in the live context.                 *)

\* The conversation ends as the scoring begins, and its end leaves nothing
\* of the text, however it ended; a text that is refused changes nothing.
Forgotten ==
  /\ SetMem(Cleared)
  /\ history' = << >> /\ rng' = 0
Perplexity(n) ==
  /\ pc = "idle" /\ turns < MaxTurns
  /\ cancel' = FALSE
  /\ IF n < 2 \/ n > ctxSize
       THEN UNCHANGED <<memVars, history, rng, pc, turn, turns>>
       ELSE /\ Forgotten /\ turns' = turns + 1
            /\ turn' = [NoTurn EXCEPT !.tokens = [i \in 1..n |-> Scored]]
            /\ pc' = "score"
  /\ UNCHANGED <<mode, ctxSize, before, outcome>>

\* By chunks of n_batch or, in the decode regime, a prefix and then tokens
\* one by one.  Only the target decodes, and nothing is recorded.
Prefix == Larger(1, Least(Skip, Len(turn.tokens) - 1))
ScoreChunks ==
  {Chunk(turn.tokens), SubSeq(turn.tokens, 1, IF turn.i = 0 THEN Prefix ELSE 1)}
Score ==
  /\ pc = "score" /\ turn.i < Len(turn.tokens) /\ ~cancel
  /\ \E chunk \in ScoreChunks :
       /\ SetMem(Decoded(Mem, chunk))
       /\ turn' = [turn EXCEPT !.i = @ + Len(chunk)]
  /\ UNCHANGED <<mode, ctxSize, history, rng, cancel, pc, outcome, before, turns>>

\* The text is scored, or a decode, a logits row or a choice failed.
ScoreEnds ==
  /\ pc = "score"
  /\ Forgotten
  /\ pc' = "idle" /\ turn' = NoTurn
  /\ UNCHANGED <<mode, ctxSize, cancel, outcome, before, turns>>
-----------------------------------------------------------------------------
\* Session::cancel, from another thread or the token callback.
Cancel ==
  /\ ~cancel /\ pc # "idle" /\ cancel' = TRUE
  /\ UNCHANGED <<mode, ctxSize, memVars, history, rng, pc, turn, outcome, before, turns>>

Serve ==
  \/ RoomGrow \/ RoomSummarize \/ RoomTrim \/ Refuse \/ Admit
  \/ Prefill \/ PrefillFails \/ Decode \/ DecodeFails \/ DraftFails \/ GenerateEnds
  \/ ContextGrows \/ ContextFills \/ ContextRebuilt \/ ContextExhausted
  \/ Replay \/ ReplayFails \/ Finish
  \/ Score \/ ScoreEnds

Next ==
  \/ \E u \in Prompts, clear \in BOOLEAN : Generate(u, clear)
  \/ \E n \in Texts : Perplexity(n)
  \/ Serve
  \/ Cancel

Spec == Init /\ [][Next]_vars
\* generate() runs on its caller's thread.
FairSpec == Spec /\ WF_vars(Serve)
-----------------------------------------------------------------------------
(* Properties.                                                             *)

\* Every variable has its type.
TypeOK ==
  /\ mode \in Modes /\ ctxSize \in 1..MaxCtx
  /\ kv \in Seq(Token) /\ draftKv \in Seq(Token) /\ kvTokens \in Seq(Token)
  /\ lastDecode \in 0..MaxCtx
  /\ rng \in Nat /\ cancel \in BOOLEAN /\ turns \in 0..MaxTurns
  /\ pc \in {"idle", "room", "regrow", "prefill", "gen", "decode", "replay", "finish", "score"}
  /\ outcome \in {"none", "ok", "cancelled", "failed", "rejected", "exhausted"}

\* The physical KV and its records never disagree between two turns, nor
\* between two decodes, and the draft context holds what the target holds:
\* a refused removal, a cancel or a resize leaves both or neither.
KvMirrorsRecords ==
  pc \in {"idle", "gen", "decode"} =>
    /\ kv = kvTokens
    /\ Mtp => draftKv = kv

\* What a turn samples from is the conversation: the KV holds its rendered
\* prompt and the tokens emitted since, whatever prefix was reused.
GeneratesFromConversation ==
  pc \in {"gen", "decode"} => kv = Render(history) \o turn.emitted

\* A turn is all or nothing: seen from outside, a session is a conversation
\* that a turn which ends ok extends by its prompt, made shorter at most, and
\* its reply, and that any other turn leaves as it was, the sampler with it.
\* Scoring a text makes it a new conversation.
Quiet == pc \in {"idle", "score"}
Conv == INSTANCE Conversation WITH
  talk <- IF Quiet THEN history ELSE before.history,
  pending <- IF Quiet THEN << >> ELSE history,
  busy <- ~Quiet,
  draws <- IF Quiet THEN rng ELSE before.rng,
  outcome <- IF Quiet THEN outcome ELSE "none"
ImplementsConversation == Conv!CSpec

\* Every turn ends: making room neither grows nor compacts for ever.
TurnsEnd == pc # "idle" ~> pc = "idle"
=============================================================================
