----------------------------- MODULE SessionOpen -----------------------------
(***************************************************************************)
(* Opening and closing sessions of one process, from several threads: where *)
(* the data of each weight is from the load of the model to the teardown,    *)
(* who owns the process-wide CPU hook of the overlap, and which address       *)
(* ranges belong to whom (Session::open, ExpertStreamSource::init and         *)
(* shutdown, DenseWeights::init, release_model_mapping, ~Impl).               *)
(***************************************************************************)
EXTENDS Integers, FiniteSets

CONSTANTS
  Sessions,    (* sessions, each opened, used and closed by its own thread   *)
  Addresses,   (* address ranges a model file can be mapped at                *)
  Modes,       (* configurations a session may be opened with                 *)
  Avail,       (* what the kernel may say is available; 0: it does not say    *)
  ExpertBytes, (* all experts of the model                                    *)
  DenseBytes,  (* bytes of each dense range of the file                       *)
  MinCache,    (* MoeStreamConfig::cache_min_mb                               *)
  RowWindow,   (* the row tables' window                                      *)
  Perils       (* what the release of a mapping is not prepared for: "shared", *)
               (* another session on a file of that name; "gap", a mapping     *)
               (* that lands between its munmap and its mmap; "unplugged", one *)
               (* that lands where its mmap failed; "blind", a list of         *)
               (* mappings that cannot be read when it looks for weights;      *)
               (* "fallback", a row table that needs its mapping back;         *)
               (* "reopen", a file that does not open again                    *)

\* Tensor objects of a model: the experts, a dense weight and the tied object
\* over the same range, a table whose rows are gathered, a table that may be
\* larger than the memory, and one no captured graph has read.
Weights == {"expert", "dense", "tied", "table", "huge", "unseen"}
Ranges == {"dense", "table", "huge"}
RangeOf(w) == IF w = "tied" THEN "dense" ELSE w

\* validate: what the options of a session may be together. Those it may want
\* besides: most put what they read ahead, or look at, in the layers' buffers.
NeedCache == {"prefetch_layers", "predict_prefetch", "two_wave", "drop_cold", "substitute"}
Predicts == {"predict_log", "predict_prefetch", "route_ahead"}
CacheOn(m) == m.cacheAuto \/ m.cache > 0
Streamed(m) ==
  /\ ~(m.cacheAuto /\ m.cache > 0) /\ m.cache \in 1..MinCache - 1 => "force" \in m.wants
  /\ m.wants \cap NeedCache # {} => CacheOn(m)
  /\ "two_wave" \in m.wants => m.overlap
  /\ ~({"predict_prefetch", "prefetch_layers"} \subseteq m.wants)
  /\ "route_ahead" \in m.wants => ~m.mtp /\ m.wants \cap {"predict_log", "predict_prefetch", "prefetch_layers"} = {}
Valid(m) ==
  IF m.stream THEN Streamed(m)
  ELSE ~m.overlap /\ ~m.rows /\ m.dense = "anon" /\ m.wants \cap Predicts = {}

Mode ==
  [stream : BOOLEAN, overlap : BOOLEAN, dense : {"mmap", "warmed", "anon", "pinned"}, rows : BOOLEAN,
   release : BOOLEAN, mtp : BOOLEAN, cacheAuto : BOOLEAN, cache : Nat, floor : Nat, ceil : Nat,
   wants : SUBSET (NeedCache \cup Predicts \cup {"force"}), name : STRING]

ASSUME SizesAssumption ==
  /\ Modes \subseteq Mode /\ {"none"} \cap (Sessions \cup Addresses) = {}
  /\ ExpertBytes \in Nat \ {0} /\ MinCache \in Nat \ {0} /\ RowWindow \in Nat /\ Avail \subseteq Nat
  /\ DenseBytes \in [Ranges -> Nat \ {0}]
  /\ \A m \in Modes : Valid(m)

VARIABLES
  phase,       (* how far each session is                                     *)
  cfg,         (* its configuration                                           *)
  addr,        (* where llama.cpp mapped its file                             *)
  data,        (* where each of its tensors' data points                      *)
  held,        (* what it has to give back                                    *)
  avail,       (* the memory it found available for an automatic cache        *)
  found,       (* the memory it found when it placed its dense weights        *)
  cache,       (* cache_max_                                                  *)
  regions,     (* mappings its release still has to replace                   *)
  views,       (* mappings it has unmapped: MappingReleaseReport              *)
  mem,         (* what is mapped at each address range                        *)
  owner,       (* overlap_hook_owner                                          *)
  hook         (* the session ggml's CPU hook calls                           *)

vars == <<phase, cfg, addr, data, held, avail, found, cache, regions, views, mem, owner, hook>>

None == "none"
Free == [kind |-> "free", of |-> None]
File(s) == [kind |-> "file", of |-> s]
Placeholder(s) == [kind |-> "placeholder", of |-> s]

Closed == [stream |-> FALSE, overlap |-> FALSE, dense |-> "anon", rows |-> FALSE, release |-> FALSE,
           mtp |-> FALSE, cacheAuto |-> FALSE, cache |-> 0, floor |-> 0, ceil |-> 0, wants |-> {}, name |-> None]

Init ==
  /\ phase = [s \in Sessions |-> "none"] /\ cfg = [s \in Sessions |-> Closed]
  /\ addr = [s \in Sessions |-> None] /\ data = [s \in Sessions |-> [w \in Weights |-> None]]
  /\ held = [s \in Sessions |-> {}]
  /\ avail = [s \in Sessions |-> 0] /\ found = [s \in Sessions |-> 0]
  /\ cache = [s \in Sessions |-> 0]
  /\ regions = [s \in Sessions |-> {}] /\ views = [s \in Sessions |-> {}]
  /\ mem = [a \in Addresses |-> Free]
  /\ owner = None /\ hook = None

Goes(s, from, to) == phase[s] = from /\ phase' = [phase EXCEPT ![s] = to]
Points(s, ws, where) == data' = [data EXCEPT ![s] = [w \in Weights |-> IF w \in ws THEN where ELSE @[w]]]
Gets(s, what) == held' = [held EXCEPT ![s] = @ \cup what]
GivesBack(s, what) == held' = [held EXCEPT ![s] = @ \ what]

------------------------------------------------------------------------------
(* Opening.                                                                  *)

\* Two sessions on one file, one of which releases its mapping, are a peril.
Live == {s \in Sessions : phase[s] # "none"}
Shares(m) == \E t \in Live : cfg[t].name = m.name /\ (m.release \/ cfg[t].release)

Start(s) ==
  /\ Goes(s, "none", "started")
  /\ \E m \in Modes : ("shared" \in Perils \/ ~Shares(m)) /\ cfg' = [cfg EXCEPT ![s] = m]
  /\ Gets(s, {"backend"})
  /\ UNCHANGED <<addr, data, avail, found, cache, regions, views, mem, owner, hook>>

\* The kernel maps the file where there is room: also, if that is a peril, in
\* a free range that some model still takes for its mapping.
Gap(a) ==
  \E t \in Sessions :
    "model" \in held[t] /\ addr[t] = a /\ (IF phase[t] = "plugging" THEN "gap" ELSE "unplugged") \notin Perils
LoadModel(s) ==
  /\ Goes(s, "started", "loaded")
  /\ \E a \in Addresses :
       /\ mem[a] = Free /\ ~Gap(a)
       /\ addr' = [addr EXCEPT ![s] = a] /\ mem' = [mem EXCEPT ![a] = File(s)]
  /\ Points(s, Weights, "map") /\ Gets(s, {"model"})
  /\ UNCHANGED <<cfg, avail, found, cache, regions, views, owner, hook>>

\* Templates, the router hook and the contexts; without streaming that is all.
CreateContexts(s) ==
  /\ Goes(s, "loaded", IF cfg[s].stream THEN "capturing" ELSE "open")
  /\ Gets(s, {"hook", "context"})
  /\ UNCHANGED <<cfg, addr, data, avail, found, cache, regions, views, mem, owner, hook>>

\* One decode of the mapped model finds the tensors, those that only rows of
\* are gathered included.
Capture(s) ==
  /\ Goes(s, "capturing", "captured")
  /\ UNCHANGED <<cfg, addr, data, held, avail, found, cache, regions, views, mem, owner, hook>>
Captured == Weights \ {"unseen"}
RowTables(m) == IF m.rows THEN {"table"} ELSE {}

\* The automatic cache: what is free less what must stay free, once the dense
\* weights have moved, at least the minimum and at most the experts.
Least(a, b) == IF a < b THEN a ELSE b
Most(a, b) == IF a > b THEN a ELSE b
Below(a, b) == Most(a - b, 0)
HardCap(m) == IF m.ceil > 0 THEN Least(m.ceil, ExpertBytes) ELSE ExpertBytes
Moves(m) == m.dense \in {"anon", "pinned"}
Resident(m, a) == {r \in Ranges \ RowTables(m) : DenseBytes[r] <= a}
BytesIn(r, S) == IF r \in S THEN DenseBytes[r] ELSE 0
DenseSum(S) == BytesIn("dense", S) + BytesIn("table", S) + BytesIn("huge", S)
PendingAsMapped(m, a) == 0
Pending(m, a) ==
  IF Moves(m) THEN DenseSum(Resident(m, a)) + (IF RowTables(m) # {} THEN RowWindow ELSE 0)
  ELSE 0
AutoCache(m, a) ==
  Least(HardCap(m), Most(Least(MinCache, HardCap(m)), Below(Below(a, Pending(m, a)), m.floor)))
CacheOf(m, a) == IF m.cacheAuto THEN AutoCache(m, a) ELSE m.cache

\* ExpertStreamSource::init up to its readers: one shared slot, or a reserved
\* buffer for each layer, and the experts rebound to it.
TakeExperts(s) ==
  /\ Goes(s, "captured", "bound")
  /\ \E a \in IF cfg[s].cacheAuto THEN Avail ELSE {0} :
       /\ avail' = [avail EXCEPT ![s] = a]
       /\ cache' = [cache EXCEPT ![s] = CacheOf(cfg[s], a)]
  /\ LET where == IF cache'[s] = 0 THEN "slots" ELSE "layers"
     IN  Points(s, {"expert"}, where) /\ Gets(s, {where, "readers"})
  /\ UNCHANGED <<cfg, addr, found, regions, views, mem, owner, hook>>

\* DenseWeights::init: the rows' window takes its tables over unless it cannot
\* be set up, what is larger than the memory stays mapped, and the rest moves.
\* The memory is looked at again: more or less of it may be available than when
\* the cache was planned.
HeldBack(a, r) == a > 0 /\ DenseBytes[r] > a
Moved(m, a, taken) ==
  IF Moves(m) THEN {w \in Captured \ ({"expert"} \cup taken) : ~HeldBack(a, RangeOf(w))} ELSE {}
Placed(s, taken, moved) ==
  data' = [data EXCEPT ![s] = [w \in Weights |-> IF w \in taken THEN "rows" ELSE IF w \in moved THEN "buf" ELSE @[w]]]
Buffers(taken, moved) == (IF taken # {} THEN {"rows"} ELSE {}) \cup (IF moved # {} THEN {"bufs"} ELSE {})

PlaceDense(s) ==
  /\ Goes(s, "bound", "placed")
  /\ \E a \in Avail : \E taken \in {RowTables(cfg[s]), {}} :
       LET moved == Moved(cfg[s], a, taken)
       IN  /\ found' = [found EXCEPT ![s] = a]
           /\ Placed(s, taken, moved)
           /\ Gets(s, Buffers(taken, moved) \cup {"lanes"})
  /\ UNCHANGED <<cfg, addr, avail, cache, regions, views, mem, owner, hook>>

\* A reader, a buffer or a read fails after some of it has moved.
PlaceDenseFails(s) ==
  /\ Goes(s, "bound", "unhook")
  /\ \E a \in Avail : \E taken \in {RowTables(cfg[s]), {}} : \E before \in SUBSET Ranges :
       LET all == Moved(cfg[s], a, taken)
           moved == {w \in all : RangeOf(w) \in before}
       IN  /\ moved # all
           /\ found' = [found EXCEPT ![s] = a]
           /\ Placed(s, taken, moved)
           /\ \E upTo \in {moved, all} : Gets(s, Buffers(taken, upTo))
  /\ UNCHANGED <<cfg, addr, avail, cache, regions, views, mem, owner, hook>>

------------------------------------------------------------------------------
(* The release of the mapping.                                               *)
InMapping(s, w) == data[s][w] = "map" /\ mem[addr[s]].kind = "file"
Blocked(s) == cfg[s].mtp \/ \E w \in Captured : InMapping(s, w)

\* Every mapping of a file of that name, whoever mapped it.
SameFile(s) == {a \in Addresses : mem[a].kind = "file" /\ cfg[mem[a].of].name = cfg[s].name}

Keeps(s) ==
  /\ Goes(s, "placed", "released")
  /\ ~cfg[s].release \/ Blocked(s)
  /\ UNCHANGED <<cfg, addr, data, held, avail, found, cache, regions, views, mem, owner, hook>>

\* The list of mappings is read twice, to look for weights and for what there
\* is to release. A list that cannot be read names nothing.
Blind(s) == "blind" \in Perils /\ ~cfg[s].mtp
Releases(s) ==
  /\ Goes(s, "placed", "unmapping")
  /\ cfg[s].release /\ (~Blocked(s) \/ Blind(s))
  /\ \E listed \in {SameFile(s), {}} : regions' = [regions EXCEPT ![s] = listed]
  /\ UNCHANGED <<cfg, addr, data, held, avail, found, cache, views, mem, owner, hook>>

\* munmap, and then a placeholder over whatever is there. Each may fail, and
\* the release goes on to the next mapping: what is not unmapped stays, what is
\* not covered stays free.
Listed(s) == CHOOSE a \in regions[s] : TRUE
Unmap(s) ==
  /\ Goes(s, "unmapping", "plugging") /\ regions[s] # {}
  /\ mem' = [mem EXCEPT ![Listed(s)] = Free]
  /\ views' = [views EXCEPT ![s] = @ \cup {Listed(s)}]
  /\ UNCHANGED <<cfg, addr, data, held, avail, found, cache, regions, owner, hook>>

UnmapFails(s) ==
  /\ phase[s] = "unmapping" /\ regions[s] # {}
  /\ regions' = [regions EXCEPT ![s] = @ \ {Listed(s)}]
  /\ UNCHANGED <<phase, cfg, addr, data, held, avail, found, cache, views, mem, owner, hook>>

Plug(s) ==
  /\ Goes(s, "plugging", "unmapping")
  /\ mem' = [mem EXCEPT ![Listed(s)] = Placeholder(s)]
  /\ regions' = [regions EXCEPT ![s] = @ \ {Listed(s)}]
  /\ Gets(s, {"placeholders"})
  /\ UNCHANGED <<cfg, addr, data, avail, found, cache, views, owner, hook>>

PlugFails(s) ==
  /\ Goes(s, "plugging", "unmapping")
  /\ regions' = [regions EXCEPT ![s] = @ \ {Listed(s)}]
  /\ UNCHANGED <<cfg, addr, data, held, avail, found, cache, views, mem, owner, hook>>

\* If anything was unmapped the readers are closed and opened again, which the
\* file's section had serialised. The session goes on with those that stay closed.
StayClosed == IF "reopen" \in Perils THEN {{}, {"readers"}} ELSE {{}}
Reopen(s) ==
  /\ Goes(s, "unmapping", "released") /\ regions[s] = {}
  /\ \E some \in IF views[s] = {} THEN {{}} ELSE StayClosed : GivesBack(s, some)
  /\ UNCHANGED <<cfg, addr, data, avail, found, cache, regions, views, mem, owner, hook>>

------------------------------------------------------------------------------
(* The process-wide hook, and the end of the opening.                         *)
Claim(s) ==
  /\ Goes(s, "released", IF owner = None THEN "claimed" ELSE "unhook")
  /\ cfg[s].overlap
  /\ owner' = IF owner = None THEN s ELSE owner
  /\ UNCHANGED <<cfg, addr, data, held, avail, found, cache, regions, views, mem, hook>>

Register(s) ==
  /\ Goes(s, "claimed", "open")
  /\ hook' = s /\ Gets(s, {"cpuhook"})
  /\ UNCHANGED <<cfg, addr, data, avail, found, cache, regions, views, mem, owner>>

Opened(s) ==
  /\ Goes(s, "released", "open") /\ ~cfg[s].overlap
  /\ UNCHANGED <<cfg, addr, data, held, avail, found, cache, regions, views, mem, owner, hook>>

\* RowStream::materialize: a graph that capture did not see uses the table, which
\* goes back to its mapping.
Materialize(s) ==
  /\ phase[s] = "open" /\ data[s]["table"] = "rows"
  /\ "fallback" \in Perils \/ mem[addr[s]] = File(s)
  /\ Points(s, {"table"}, "map")
  /\ UNCHANGED <<phase, cfg, addr, held, avail, found, cache, regions, views, mem, owner, hook>>

------------------------------------------------------------------------------
(* Closing, and an opening that fails, which the same destructor cleans up.   *)
Partly(s) == CASE phase[s] = "loaded" -> {{}, {"hook"}}
               [] phase[s] = "captured" -> {{}, {"slots"}, {"layers", "readers"}}
               [] OTHER -> {{}}
Fails(s) ==
  /\ phase[s] \in {"started", "loaded", "capturing", "captured"}
  /\ phase' = [phase EXCEPT ![s] = "unhook"]
  /\ \E some \in Partly(s) : Gets(s, some)
  /\ UNCHANGED <<cfg, addr, data, avail, found, cache, regions, views, mem, owner, hook>>

Close(s) ==
  /\ Goes(s, "open", "unhook")
  /\ UNCHANGED <<cfg, addr, data, held, avail, found, cache, regions, views, mem, owner, hook>>

UnhooksAlways(s) == TRUE
Unhooks(s) == "cpuhook" \in held[s]
Unregister(s) ==
  /\ Goes(s, "unhook", IF Unhooks(s) THEN "disown" ELSE "stop")
  /\ hook' = IF Unhooks(s) THEN None ELSE hook
  /\ UNCHANGED <<cfg, addr, data, held, avail, found, cache, regions, views, mem, owner>>

Disown(s) ==
  /\ Goes(s, "disown", "stop")
  /\ owner' = None /\ GivesBack(s, {"cpuhook"})
  /\ UNCHANGED <<cfg, addr, data, avail, found, cache, regions, views, mem, hook>>

\* shutdown: the lanes join and every buffer goes; the tables, though not the
\* experts and the moved weights, point at the mapping again.
DenseBuffers == {"rows", "bufs"}
OwnedIfActive(s) == IF "lanes" \in held[s] THEN {"lanes", "slots", "layers", "readers"} \cup DenseBuffers ELSE {"readers"}
Owned(s) == {"lanes", "slots", "layers", "readers"} \cup DenseBuffers
Stop(s) ==
  /\ Goes(s, "stop", "stopped")
  /\ GivesBack(s, Owned(s))
  /\ Points(s, {w \in Weights : data[s][w] = "rows"}, "map")
  /\ UNCHANGED <<cfg, addr, avail, found, cache, regions, views, mem, owner, hook>>

FreeContexts(s) ==
  /\ Goes(s, "stopped", "unloading")
  /\ GivesBack(s, {"context", "hook"})
  /\ UNCHANGED <<cfg, addr, data, avail, found, cache, regions, views, mem, owner, hook>>

\* llama.cpp unmaps the range it mapped, whatever is there by now.
FreeModel(s) ==
  /\ Goes(s, "unloading", "unloaded")
  /\ mem' = IF "model" \in held[s] THEN [mem EXCEPT ![addr[s]] = Free] ELSE mem
  /\ GivesBack(s, {"model"})
  /\ UNCHANGED <<cfg, addr, data, avail, found, cache, regions, views, owner, hook>>

\* The placeholders are only forgotten: the range may be another's by now.
UnmapsReserved(s) == IF "placeholders" \in held[s] THEN {addr[s]} ELSE {}
UnmapsAgain(s) == {}
Forget(s) ==
  /\ Goes(s, "unloaded", "none")
  /\ mem' = [a \in Addresses |-> IF a \in UnmapsAgain(s) THEN Free ELSE mem[a]]
  /\ GivesBack(s, {"placeholders", "backend"})
  /\ cfg' = [cfg EXCEPT ![s] = Closed] /\ addr' = [addr EXCEPT ![s] = None] /\ Points(s, Weights, None)
  /\ avail' = [avail EXCEPT ![s] = 0] /\ found' = [found EXCEPT ![s] = 0] /\ cache' = [cache EXCEPT ![s] = 0]
  /\ views' = [views EXCEPT ![s] = {}]
  /\ UNCHANGED <<regions, owner, hook>>

Next ==
  \E s \in Sessions :
    \/ Start(s) \/ LoadModel(s) \/ CreateContexts(s) \/ Capture(s) \/ TakeExperts(s)
    \/ PlaceDense(s) \/ PlaceDenseFails(s) \/ Keeps(s) \/ Releases(s)
    \/ Unmap(s) \/ UnmapFails(s) \/ Plug(s) \/ PlugFails(s) \/ Reopen(s)
    \/ Claim(s) \/ Register(s) \/ Opened(s) \/ Materialize(s)
    \/ Fails(s) \/ Close(s) \/ Unregister(s) \/ Disown(s) \/ Stop(s)
    \/ FreeContexts(s) \/ FreeModel(s) \/ Forget(s)
Spec == Init /\ [][Next]_vars

------------------------------------------------------------------------------
(* Properties.                                                               *)

\* Whatever a session computes with is there: in its own mapping, which nobody
\* has unmapped or replaced, or in memory of its own that it still holds, and
\* for the experts that have to be read first, with the readers open.
Reads(s) == IF cfg[s].mtp THEN Weights ELSE Captured
Readable(s, w) ==
  CASE data[s][w] = "map" -> mem[addr[s]] = File(s)
    [] data[s][w] = "buf" -> "bufs" \in held[s]
    [] OTHER -> data[s][w] \in held[s] /\ (w = "expert" => "readers" \in held[s])
WeightsReadable ==
  \A s \in Sessions : phase[s] \in {"capturing", "open"} => \A w \in Reads(s) : Readable(s, w)

\* The hook calls nobody who is about to free what it reads, and an overlap
\* session that is open is called, whoever else opens, is refused or closes.
HookServesItsSession ==
  \A s \in Sessions :
    /\ hook = s => owner = s /\ cfg[s].overlap /\ phase[s] \in {"open", "unhook"}
    /\ phase[s] = "open" /\ cfg[s].overlap => hook = s

\* A session that is closed, or whose opening failed at any point, has left
\* nothing behind: no memory, no lane, no address range, no hook.
NothingLeft ==
  \A s \in Sessions : phase[s] = "none" =>
    held[s] = {} /\ owner # s /\ hook # s /\ \A a \in Addresses : mem[a].of # s

\* The automatic cache is what the device had left when it was planned, less
\* the floor and every dense weight that was to move and did: all of it unless
\* less memory was found later and a weight stayed mapped after all, and never
\* more. What a validated option needs is there. (Not in it: a weight larger than
\* the memory of the plan that fits the memory found later, and a row table
\* whose takeover was declined.)
Spent(S, rows) == DenseSum(S) + (IF rows THEN RowWindow ELSE 0)
InBuffers(s) == {RangeOf(w) : w \in {v \in Weights : data[s][v] = "buf"}}
LeavesTheFloor(s) ==
  LET planned == {r \in InBuffers(s) : DenseBytes[r] <= avail[s]}
      left == avail[s] - Spent(planned, "rows" \in held[s]) - cfg[s].floor
      most == Least(HardCap(cfg[s]), Most(left, Least(MinCache, HardCap(cfg[s]))))
  IN  /\ cache[s] <= most
      /\ found[s] = 0 \/ found[s] >= avail[s] => cache[s] = most
BudgetAsPlanned ==
  \A s \in Sessions : phase[s] = "open" /\ cfg[s].stream =>
    /\ cfg[s].cacheAuto /\ avail[s] > 0 /\ Moves(cfg[s]) /\ (cfg[s].rows => "rows" \in held[s]) => LeavesTheFloor(s)
    /\ cfg[s].wants \cap NeedCache # {} => data[s]["expert"] = "layers"

\* What the comment at the deduction says of it, "as if the conversion had
\* already happened": an automatic cache above its minimum fits beside all that
\* was converted and the floor. It does not when the takeover of the row tables
\* fails: no run checks this, and RowBudgetModes of MCSessionOpen violates it.
FitsBesideDense ==
  \A s \in Sessions : phase[s] = "open" /\ cfg[s].stream /\ cfg[s].cacheAuto /\ cache[s] > MinCache =>
    cache[s] + Spent(InBuffers(s), "rows" \in held[s]) + cfg[s].floor <= avail[s]
=============================================================================
