---------------------------- MODULE MCSessionTurn ----------------------------
EXTENDS SessionTurn

NoPolicy == [memory |-> "attention", spec |-> "off", grow |-> FALSE, trim |-> FALSE,
             summarize |-> FALSE, auto |-> FALSE, budgets |-> {-1}, ctx |-> 9, batch |-> 4, ubatch |-> 2]
Growing == [NoPolicy EXCEPT !.grow = TRUE, !.ctx = 7, !.batch = 7, !.ubatch = 7]
Compacting == [NoPolicy EXCEPT !.ctx = 6, !.batch = 6, !.ubatch = 6]

\* Every memory and draft source at a fixed size; each context policy, with a
\* replay that is one ubatch.
SoundModes ==
  {NoPolicy,
   [NoPolicy EXCEPT !.memory = "recurrent"],
   [NoPolicy EXCEPT !.spec = "ngram"],
   [NoPolicy EXCEPT !.memory = "snapshots", !.spec = "mtp"],
   [NoPolicy EXCEPT !.spec = "mtp", !.budgets = {-1, 1}],
   Growing,
   [Compacting EXCEPT !.spec = "ngram", !.trim = TRUE],
   [Compacting EXCEPT !.summarize = TRUE],
   [Compacting EXCEPT !.summarize = TRUE, !.trim = TRUE, !.auto = TRUE]}

\* A context compacted around the head's drafts: a rebuilt context may be
\* shorter than the prefix its turn rolls back to.
CompactingDrafts == {[NoPolicy EXCEPT !.spec = "mtp", !.trim = TRUE, !.batch = 9, !.ubatch = 9]}

\* A context that grows, computed in small parts.
GrowingInParts == {[Growing EXCEPT !.batch = 2, !.ubatch = 2]}
=============================================================================
