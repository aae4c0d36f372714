------------------------------- MODULE ModelFile -------------------------------
(***************************************************************************)
(* Where an expert is read from: the offsets taken from a model of one file  *)
(* or of several shards (gguf_offsets.cpp), the layout of its expert tensors  *)
(* (arch_registry.cpp), and the check of what the graph was captured with      *)
(* against them before anything is streamed (bind_layer_offsets).             *)
(*                                                                         *)
(* "files" is what can be parsed: for a path, where its data starts, what each *)
(* of its tensors' offset and size in it are, and how long it is.  A path is    *)
(* split when its name is of the form <stem>-<no>-of-<count>.gguf.             *)
(***************************************************************************)
EXTENDS FileBytes

SplitCount(path) ==
  IF ~path.split \/ path.count <= 1 THEN 0 ELSE IF path.no = 1 THEN path.count ELSE -1
Shards(path) == IF SplitCount(path) = 0 THEN 1 ELSE SplitCount(path)
ShardPath(path, no) ==
  IF no = 1 THEN path ELSE [stem |-> path.stem, split |-> TRUE, no |-> no, count |-> path.count]

\* One shard that is missing fails all.
Parses(path, files) ==
  /\ SplitCount(path) >= 0
  /\ \A no \in 1..Shards(path) : ShardPath(path, no) \in DOMAIN files

\* A name's entry is that of the last shard which has it. Shards are counted from
\* zero, as the readers are.
Holding(path, files, name) == {no \in 1..Shards(path) : name \in DOMAIN files[ShardPath(path, no)].at}
Place(path, files, name) ==
  LET held == Holding(path, files, name)
      last == CHOOSE no \in held : \A other \in held : other <= no
      f    == files[ShardPath(path, last)]
  IN  [file |-> last - 1, from |-> f.data + f.at[name], size |-> f.size[name]]
Offsets(path, files) ==
  [name \in UNION {DOMAIN files[ShardPath(path, no)].at : no \in 1..Shards(path)} |->
     Place(path, files, name)]

------------------------------------------------------------------------------
(* The layout. An architecture names the suffixes of its expert tensors; some   *)
(* may have the first two fused, in all their layers or in none. A layer's       *)
(* tensor is named by the layer and its suffix.                                *)
SplitGate == "ffn_gate_exps"
FusedGate == "ffn_gate_up_exps"
Has(names, n, suffix) == \E il \in 0..(n - 1) : <<il, suffix>> \in names

Resolves(recipe, n, names) ==
  recipe.fused_gate_up_alt => ~(Has(names, n, FusedGate) /\ Has(names, n, SplitGate))
Resolved(recipe, n, names) ==
  IF recipe.fused_gate_up_alt /\ Has(names, n, FusedGate) THEN {FusedGate, "ffn_down_exps"}
  ELSE recipe.exps

------------------------------------------------------------------------------
(* A captured layer has a tensor for some of the suffixes, with the number of    *)
(* its experts and the bytes of each: as the graph shows them.  Integers of the  *)
(* code are below "word" here, and int below its own maximum.                    *)
IntMax == 2147483647

Bound(layers) == {il \in DOMAIN layers : layers[il].bound}
ExpertTensors(layers) ==
  UNION {{layers[il].proj[s] : s \in DOMAIN layers[il].proj} : il \in Bound(layers)}
ExpertNames(layers) == {t.name : t \in ExpertTensors(layers)}

Complete(exps, layers) == \A il \in Bound(layers) : exps \subseteq DOMAIN layers[il].proj
LayoutMatches(t, size, word) ==
  /\ 0 < t.ne2 /\ t.ne2 <= IntMax
  /\ t.nb2 <= (word - 1) \div t.ne2
  /\ (t.nb2 * t.ne2) % word = size

Binds(exps, offs, layers, word) ==
  /\ Bound(layers) # {}
  /\ Complete(exps, layers)
  /\ \A t \in ExpertTensors(layers) :
       t.name \in DOMAIN offs /\ LayoutMatches(t, offs[t.name].size, word)
  /\ \A t, u \in ExpertTensors(layers) : t.ne2 = u.ne2

\* What is read for expert e of a tensor, what the dense policy leaves out for
\* it of its shard, and the captured tensors that policy is given.
InFile(offs, name) == [from |-> offs[name].from, to |-> offs[name].from + offs[name].size]
ReadOf(offs, t, e) ==
  [from |-> offs[t.name].from + e * t.nb2, to |-> offs[t.name].from + e * t.nb2 + t.nb2]
LeftOut(offs, t, n_expert) ==
  [from |-> offs[t.name].from, to |-> offs[t.name].from + t.nb2 * n_expert]
DenseNames(offs, layers, captured) == (captured \cap DOMAIN offs) \ ExpertNames(layers)
=============================================================================
