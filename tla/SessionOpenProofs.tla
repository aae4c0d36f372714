-------------------------- MODULE SessionOpenProofs --------------------------
(***************************************************************************)
(* TLAPS proofs about SessionOpen, for any number of sessions, address        *)
(* ranges and valid configurations. HookInv is inductive as it stands;        *)
(* PlaceInv, which follows every mapping and every buffer, is inductive when  *)
(* the release of a mapping meets none of its perils.                         *)
(***************************************************************************)
EXTENDS SessionOpen, TLAPS

Phases == {"none", "started", "loaded", "capturing", "captured", "bound", "placed", "unmapping",
           "plugging", "released", "claimed", "open", "unhook", "disown", "stop", "stopped",
           "unloading", "unloaded"}
Mapped == {"loaded", "capturing", "captured"}
Served == {"bound", "placed", "unmapping", "plugging", "released", "claimed", "open"}
Untouched == {"none", "started"} \cup Mapped \cup {"bound", "placed"}
Things == {"backend", "model", "hook", "context", "readers", "lanes", "slots", "layers", "rows",
           "bufs", "placeholders", "cpuhook"}

TypeInv ==
  /\ phase \in [Sessions -> Phases] /\ cfg \in [Sessions -> Modes \cup {Closed}]
  /\ addr \in [Sessions -> Addresses \cup {None}]
  /\ data \in [Sessions -> [Weights -> {None, "map", "slots", "layers", "rows", "buf"}]]
  /\ held \in [Sessions -> SUBSET Things]
  /\ avail \in [Sessions -> Nat] /\ found \in [Sessions -> Nat] /\ cache \in [Sessions -> Nat]
  /\ regions \in [Sessions -> SUBSET Addresses] /\ views \in [Sessions -> SUBSET Addresses]
  /\ mem \in [Addresses -> [kind : {"free", "file", "placeholder"}, of : Sessions \cup {None}]]
  /\ owner \in Sessions \cup {None} /\ hook \in Sessions \cup {None}

\* What a session has to give back, by how far its teardown is.
Config(s) == phase[s] # "none" => cfg[s] \in Modes
Given(s) ==
  /\ phase[s] \in {"none", "started"} => held[s] \subseteq {"backend"}
  /\ phase[s] = "none" => held[s] = {}
  /\ phase[s] \in {"stop", "stopped", "unloading", "unloaded"} => "cpuhook" \notin held[s]
  /\ phase[s] \in {"stopped", "unloading", "unloaded"} => held[s] \cap Owned(s) = {}
  /\ phase[s] \in {"unloading", "unloaded"} => held[s] \cap {"context", "hook"} = {}
  /\ phase[s] = "unloaded" => "model" \notin held[s]
  /\ phase[s] \in {"capturing", "captured"} \cup (Served \ {"open"}) => cfg[s].stream

\* What its address range shows, and what its release still has to replace: the
\* file until it was unmapped, and then a placeholder unless that failed.
Place(s) ==
  /\ "model" \in held[s] =>
       /\ addr[s] \in Addresses /\ views[s] \subseteq {addr[s]}
       /\ mem[addr[s]] = IF views[s] = {} THEN File(s)
                         ELSE IF "placeholders" \in held[s] THEN Placeholder(s) ELSE Free
  /\ "placeholders" \in held[s] => views[s] # {}
  /\ phase[s] \in Mapped \cup Served => "model" \in held[s]
  /\ phase[s] = "plugging" => regions[s] = {addr[s]} /\ views[s] = {addr[s]} /\ "placeholders" \notin held[s]
  /\ phase[s] = "unmapping" => regions[s] = {} \/ (regions[s] = {addr[s]} /\ views[s] = {})
  /\ phase[s] \notin {"plugging", "unmapping"} => regions[s] = {}
  /\ phase[s] \in {"unmapping", "plugging"} => cfg[s].release
  /\ phase[s] \in Untouched => views[s] = {}
\* A range belongs to one session; who releases a file is alone with it.
Whole ==
  /\ \A a \in Addresses, s \in Sessions : mem[a].of = s => "model" \in held[s] /\ addr[s] = a
  /\ \A a \in Addresses : mem[a].of = None => mem[a] = Free
  /\ \A s, t \in Sessions : "model" \in held[s] /\ "model" \in held[t] /\ addr[s] = addr[t] => s = t
  /\ \A s, t \in Live : s # t /\ cfg[s].name = cfg[t].name => ~cfg[s].release /\ ~cfg[t].release

\* Where the tensors' data is, and that what holds it is held.
Dense == Weights \ {"expert"}
Data(s) ==
  /\ phase[s] \in Mapped \/ (phase[s] = "open" /\ ~cfg[s].stream) =>
       \A w \in Weights : data[s][w] = "map"
  /\ phase[s] \in Served /\ cfg[s].stream =>
       /\ data[s]["expert"] = IF cache[s] = 0 THEN "slots" ELSE "layers"
       /\ data[s]["expert"] \in held[s] /\ "readers" \in held[s]
       /\ cache[s] = CacheOf(cfg[s], avail[s])
       /\ \A w \in Dense : \/ data[s][w] = "map"
                           \/ data[s][w] = "rows" /\ "rows" \in held[s]
                           \/ data[s][w] = "buf" /\ "bufs" \in held[s]
       /\ phase[s] # "bound" =>
            \E taken \in {RowTables(cfg[s]), {}} :
              /\ "rows" \in held[s] <=> taken # {}
              /\ {w \in Weights : data[s][w] = "buf"} = Moved(cfg[s], found[s], taken)
  /\ phase[s] \in Mapped \cup {"bound"} => "rows" \notin held[s]
  /\ phase[s] = "bound" => \A w \in Dense : data[s][w] = "map"
  /\ phase[s] \in Served /\ (views[s] # {} \/ phase[s] \in {"unmapping", "plugging"}) =>
       ~cfg[s].mtp /\ \A w \in Captured : data[s][w] # "map"
\* Owner and hook change one after the other, on the way in and out.
Hooked(s) ==
  /\ owner = s => phase[s] \in {"claimed", "open", "unhook", "disown"}
  /\ owner = s /\ phase[s] # "claimed" => "cpuhook" \in held[s]
  /\ owner = s => cfg[s].overlap
  /\ hook = s <=> "cpuhook" \in held[s] /\ phase[s] # "disown"
  /\ "cpuhook" \in held[s] => owner = s
  /\ phase[s] \in {"claimed", "disown"} => owner = s
  /\ phase[s] = "open" /\ cfg[s].overlap => "cpuhook" \in held[s]
  /\ phase[s] = "claimed" => "cpuhook" \notin held[s]
HookInv == TypeInv /\ \A s \in Sessions : Config(s) /\ Given(s) /\ Hooked(s)
PlaceInv == Whole /\ \A s \in Sessions : Place(s) /\ Data(s)
-----------------------------------------------------------------------------
Step(s) ==
    \/ Start(s) \/ LoadModel(s) \/ CreateContexts(s) \/ Capture(s) \/ TakeExperts(s)
    \/ PlaceDense(s) \/ PlaceDenseFails(s) \/ Keeps(s) \/ Releases(s)
    \/ Unmap(s) \/ UnmapFails(s) \/ Plug(s) \/ PlugFails(s) \/ Reopen(s)
    \/ Claim(s) \/ Register(s) \/ Opened(s) \/ Materialize(s)
    \/ Fails(s) \/ Close(s) \/ Unregister(s) \/ Disown(s) \/ Stop(s)
    \/ FreeContexts(s) \/ FreeModel(s) \/ Forget(s)

(* A process starts with no session.                                        *)
LEMMA HookInvInit == Init => HookInv
  BY SizesAssumption DEF Init, HookInv, TypeInv, Config, Given, Hooked, Phases, Things, Free, None, Served, Closed

(* The cache of a session is a number of bytes, and nothing is worth less    *)
(* than no bytes.                                                           *)
LEMMA CacheNat ==
  ASSUME NEW m \in Modes, NEW a \in Nat
  PROVE  /\ m \in Mode /\ Valid(m)
         /\ \A S : DenseSum(S) \in Nat
         /\ Pending(m, a) \in Nat /\ HardCap(m) \in Nat \ {0} /\ CacheOf(m, a) \in Nat
  <1>1. m \in Mode /\ Valid(m)
    BY SizesAssumption
  <1>2. \A S : DenseSum(S) \in Nat
    <2>1. \A r \in Ranges : \A S : BytesIn(r, S) \in Nat
      BY SizesAssumption DEF BytesIn
    <2>2. QED
      BY <2>1 DEF DenseSum, Ranges
  <1>3. Pending(m, a) \in Nat
    BY <1>2, SizesAssumption DEF Pending
  <1>4. HardCap(m) \in Nat \ {0}
    BY <1>1, SizesAssumption DEF HardCap, Least, Mode
  <1>5. m.floor \in Nat /\ m.cache \in Nat
    BY <1>1 DEF Mode
  <1>6. CacheOf(m, a) \in Nat
    BY <1>3, <1>4, <1>5, SizesAssumption DEF CacheOf, AutoCache, Least, Most, Below
  <1>7. QED
    BY <1>1, <1>2, <1>3, <1>4, <1>6

(* Types, what is held and who is hooked: one step per action.              *)
LEMMA HookStep ==
  ASSUME HookInv, NEW s \in Sessions, Step(s)
  PROVE  HookInv'
  <1> USE SizesAssumption DEF HookInv, Goes, Points, Gets, GivesBack
  <1>1. CASE Start(s)
    <2> USE <1>1 DEF Start
    <2>1. TypeInv'
      BY DEF TypeInv, Phases, Things, Free, File, Placeholder, None
    <2>2. \A t \in Sessions : Config(t)' /\ Given(t)'
      BY DEF TypeInv, Config, Given, Phases, Things, Owned, Served
    <2>3. \A t \in Sessions : Hooked(t)'
      BY DEF TypeInv, Config, Given, Hooked, Phases, Things, Owned, Served, None
    <2>4. QED
      BY <2>1, <2>2, <2>3
  <1>2. CASE LoadModel(s)
    <2> USE <1>2 DEF LoadModel
    <2>1. TypeInv'
      BY DEF TypeInv, Phases, Things, Free, File, Placeholder, None
    <2>2. \A t \in Sessions : Config(t)' /\ Given(t)'
      BY DEF TypeInv, Config, Given, Phases, Things, Owned, Served
    <2>3. \A t \in Sessions : Hooked(t)'
      BY DEF TypeInv, Config, Given, Hooked, Phases, Things, Owned, Served, None
    <2>4. QED
      BY <2>1, <2>2, <2>3
  <1>3. CASE CreateContexts(s)
    <2> USE <1>3 DEF CreateContexts
    <2>1. TypeInv'
      BY DEF TypeInv, Phases, Things, Free, File, Placeholder, None
    <2>2. \A t \in Sessions : Config(t)' /\ Given(t)'
      BY DEF TypeInv, Config, Given, Phases, Things, Owned, Served
    <2>3. \A t \in Sessions : Hooked(t)'
      <3>1. phase'[s] = "open" => ~cfg[s].overlap
        <4>1. cfg[s] \in Modes
          BY DEF Config
        <4>2. QED
          BY <4>1, CacheNat DEF Valid, TypeInv
      <3>2. QED
        BY <3>1 DEF TypeInv, Config, Given, Hooked, Phases, Things, Owned, Served, None
    <2>4. QED
      BY <2>1, <2>2, <2>3
  <1>4. CASE Capture(s)
    <2> USE <1>4 DEF Capture
    <2>1. TypeInv'
      BY DEF TypeInv, Phases, Things, Free, File, Placeholder, None
    <2>2. \A t \in Sessions : Config(t)' /\ Given(t)'
      BY DEF TypeInv, Config, Given, Phases, Things, Owned, Served
    <2>3. \A t \in Sessions : Hooked(t)'
      BY DEF TypeInv, Config, Given, Hooked, Phases, Things, Owned, Served, None
    <2>4. QED
      BY <2>1, <2>2, <2>3
  <1>5. CASE TakeExperts(s)
    <2> USE <1>5 DEF TakeExperts
    <2>1. TypeInv'
      <3>1. PICK a \in IF cfg[s].cacheAuto THEN Avail ELSE {0} :
              avail' = [avail EXCEPT ![s] = a] /\ cache' = [cache EXCEPT ![s] = CacheOf(cfg[s], a)]
        OBVIOUS
      <3>2. a \in Nat /\ cfg[s] \in Modes
        BY DEF Config
      <3>3. CacheOf(cfg[s], a) \in Nat
        BY ONLY <3>2, CacheNat
      <3>4. QED
        BY <3>1, <3>2, <3>3 DEF TypeInv, Phases, Things
    <2>2. \A t \in Sessions : Config(t)' /\ Given(t)'
      BY DEF TypeInv, Config, Given, Phases, Things, Owned, Served
    <2>3. \A t \in Sessions : Hooked(t)'
      BY DEF TypeInv, Config, Given, Hooked, Phases, Things, Owned, Served, None
    <2>4. QED
      BY <2>1, <2>2, <2>3
  <1>6. CASE PlaceDense(s)
    <2> USE <1>6 DEF PlaceDense
    <2>1. TypeInv'
      BY DEF TypeInv, Phases, Things, Placed, Buffers
    <2>2. \A t \in Sessions : Config(t)' /\ Given(t)'
      BY DEF TypeInv, Config, Given, Phases, Things, Owned, Served
    <2>3. \A t \in Sessions : Hooked(t)'
      BY DEF TypeInv, Config, Given, Hooked, Phases, Things, Served, Buffers
    <2>4. QED
      BY <2>1, <2>2, <2>3
  <1>7. CASE PlaceDenseFails(s)
    <2> USE <1>7 DEF PlaceDenseFails
    <2>1. TypeInv'
      BY DEF TypeInv, Phases, Things, Placed, Buffers
    <2>2. \A t \in Sessions : Config(t)' /\ Given(t)'
      BY DEF TypeInv, Config, Given, Phases, Things, Owned, Served
    <2>3. \A t \in Sessions : Hooked(t)'
      BY DEF TypeInv, Config, Given, Hooked, Phases, Things, Served, Buffers
    <2>4. QED
      BY <2>1, <2>2, <2>3
  <1>8. CASE Keeps(s)
    <2> USE <1>8 DEF Keeps
    <2>1. TypeInv'
      BY DEF TypeInv, Phases, Things, Free, File, Placeholder, None
    <2>2. \A t \in Sessions : Config(t)' /\ Given(t)'
      BY DEF TypeInv, Config, Given, Phases, Things, Owned, Served
    <2>3. \A t \in Sessions : Hooked(t)'
      BY DEF TypeInv, Config, Given, Hooked, Phases, Things, Owned, Served, None
    <2>4. QED
      BY <2>1, <2>2, <2>3
  <1>9. CASE Releases(s)
    <2> USE <1>9 DEF Releases
    <2>1. TypeInv'
      BY DEF TypeInv, Phases, SameFile
    <2>2. \A t \in Sessions : Config(t)' /\ Given(t)'
      BY DEF TypeInv, Config, Given, Phases, Things, Owned, Served
    <2>3. \A t \in Sessions : Hooked(t)'
      BY DEF TypeInv, Config, Given, Hooked, Phases, Things, Owned, Served, None
    <2>4. QED
      BY <2>1, <2>2, <2>3
  <1>10. CASE Unmap(s)
    <2> USE <1>10 DEF Unmap
    <2>1. TypeInv'
      BY DEF TypeInv, Phases, Listed, Free, None
    <2>2. \A t \in Sessions : Config(t)' /\ Given(t)'
      BY DEF TypeInv, Config, Given, Phases, Things, Owned, Served
    <2>3. \A t \in Sessions : Hooked(t)'
      BY DEF TypeInv, Config, Given, Hooked, Phases, Things, Owned, Served, None
    <2>4. QED
      BY <2>1, <2>2, <2>3
  <1>11. CASE Plug(s)
    <2> USE <1>11 DEF Plug
    <2>1. TypeInv'
      BY DEF TypeInv, Phases, Things, Free, File, Placeholder, None
    <2>2. \A t \in Sessions : Config(t)' /\ Given(t)'
      BY DEF TypeInv, Config, Given, Phases, Things, Owned, Served
    <2>3. \A t \in Sessions : Hooked(t)'
      BY DEF TypeInv, Config, Given, Hooked, Phases, Things, Owned, Served, None
    <2>4. QED
      BY <2>1, <2>2, <2>3
  <1>12. CASE Reopen(s)
    <2> USE <1>12 DEF Reopen
    <2>1. TypeInv'
      BY DEF TypeInv, Phases, Things, Free, File, Placeholder, None
    <2>2. \A t \in Sessions : Config(t)' /\ Given(t)'
      BY DEF TypeInv, Config, Given, Phases, Things, Owned, Served
    <2>3. \A t \in Sessions : Hooked(t)'
      BY DEF TypeInv, Config, Given, Hooked, Phases, Things, Owned, Served, None
    <2>4. QED
      BY <2>1, <2>2, <2>3
  <1>13. CASE Claim(s)
    <2> USE <1>13 DEF Claim
    <2>1. TypeInv'
      BY DEF TypeInv, Phases, Things, Free, File, Placeholder, None
    <2>2. \A t \in Sessions : Config(t)' /\ Given(t)'
      BY DEF TypeInv, Config, Given, Phases, Things, Owned, Served
    <2>3. \A t \in Sessions : Hooked(t)'
      BY DEF TypeInv, Config, Given, Hooked, Phases, Things, Owned, Served, None
    <2>4. QED
      BY <2>1, <2>2, <2>3
  <1>14. CASE Register(s)
    <2> USE <1>14 DEF Register
    <2>1. TypeInv'
      BY DEF TypeInv, Phases, Things, Free, File, Placeholder, None
    <2>2. \A t \in Sessions : Config(t)' /\ Given(t)'
      BY DEF TypeInv, Config, Given, Phases, Things, Owned, Served
    <2>3. \A t \in Sessions : Hooked(t)'
      BY DEF TypeInv, Config, Given, Hooked, Phases, Things, Owned, Served, None
    <2>4. QED
      BY <2>1, <2>2, <2>3
  <1>15. CASE Opened(s)
    <2> USE <1>15 DEF Opened
    <2>1. TypeInv'
      BY DEF TypeInv, Phases, Things, Free, File, Placeholder, None
    <2>2. \A t \in Sessions : Config(t)' /\ Given(t)'
      BY DEF TypeInv, Config, Given, Phases, Things, Owned, Served
    <2>3. \A t \in Sessions : Hooked(t)'
      BY DEF TypeInv, Config, Given, Hooked, Phases, Things, Owned, Served, None
    <2>4. QED
      BY <2>1, <2>2, <2>3
  <1>16. CASE Materialize(s)
    <2> USE <1>16 DEF Materialize
    <2>1. TypeInv'
      BY DEF TypeInv, Phases, Things, Free, File, Placeholder, None
    <2>2. \A t \in Sessions : Config(t)' /\ Given(t)'
      BY DEF TypeInv, Config, Given, Phases, Things, Owned, Served
    <2>3. \A t \in Sessions : Hooked(t)'
      BY DEF TypeInv, Config, Given, Hooked, Phases, Things, Owned, Served, None
    <2>4. QED
      BY <2>1, <2>2, <2>3
  <1>17. CASE Fails(s)
    <2> USE <1>17 DEF Fails
    <2>1. TypeInv'
      BY DEF TypeInv, Phases, Things, Partly
    <2>2. \A t \in Sessions : Config(t)' /\ Given(t)'
      BY DEF TypeInv, Config, Given, Phases, Things, Owned, Served
    <2>3. \A t \in Sessions : Hooked(t)'
      BY DEF TypeInv, Config, Given, Hooked, Phases, Things, Served, Partly
    <2>4. QED
      BY <2>1, <2>2, <2>3
  <1>18. CASE Close(s)
    <2> USE <1>18 DEF Close
    <2>1. TypeInv'
      BY DEF TypeInv, Phases, Things, Free, File, Placeholder, None
    <2>2. \A t \in Sessions : Config(t)' /\ Given(t)'
      BY DEF TypeInv, Config, Given, Phases, Things, Owned, Served
    <2>3. \A t \in Sessions : Hooked(t)'
      BY DEF TypeInv, Config, Given, Hooked, Phases, Things, Owned, Served, None
    <2>4. QED
      BY <2>1, <2>2, <2>3
  <1>19. CASE Unregister(s)
    <2> USE <1>19 DEF Unregister
    <2>1. TypeInv'
      BY DEF TypeInv, Phases, Things, Free, File, Placeholder, None
    <2>2. \A t \in Sessions : Config(t)' /\ Given(t)'
      BY DEF TypeInv, Config, Given, Phases, Things, Owned, Served, Unhooks
    <2>3. \A t \in Sessions : Hooked(t)'
      BY DEF TypeInv, Config, Given, Hooked, Phases, Things, Owned, Served, Unhooks, None
    <2>4. QED
      BY <2>1, <2>2, <2>3
  <1>20. CASE Disown(s)
    <2> USE <1>20 DEF Disown
    <2>1. TypeInv'
      BY DEF TypeInv, Phases, Things, Free, File, Placeholder, None
    <2>2. \A t \in Sessions : Config(t)' /\ Given(t)'
      BY DEF TypeInv, Config, Given, Phases, Things, Owned, Served
    <2>3. \A t \in Sessions : Hooked(t)'
      BY DEF TypeInv, Config, Given, Hooked, Phases, Things, Owned, Served, None
    <2>4. QED
      BY <2>1, <2>2, <2>3
  <1>21. CASE Stop(s)
    <2> USE <1>21 DEF Stop
    <2>1. TypeInv'
      BY DEF TypeInv, Phases, Things, Free, File, Placeholder, None
    <2>2. \A t \in Sessions : Config(t)' /\ Given(t)'
      BY DEF TypeInv, Config, Given, Phases, Things, Owned, Served
    <2>3. \A t \in Sessions : Hooked(t)'
      BY DEF TypeInv, Config, Given, Hooked, Phases, Things, Owned, Served, None
    <2>4. QED
      BY <2>1, <2>2, <2>3
  <1>22. CASE FreeContexts(s)
    <2> USE <1>22 DEF FreeContexts
    <2>1. TypeInv'
      BY DEF TypeInv, Phases, Things, Free, File, Placeholder, None
    <2>2. \A t \in Sessions : Config(t)' /\ Given(t)'
      BY DEF TypeInv, Config, Given, Phases, Things, Owned, Served
    <2>3. \A t \in Sessions : Hooked(t)'
      BY DEF TypeInv, Config, Given, Hooked, Phases, Things, Owned, Served, None
    <2>4. QED
      BY <2>1, <2>2, <2>3
  <1>23. CASE FreeModel(s)
    <2> USE <1>23 DEF FreeModel
    <2>1. TypeInv'
      BY DEF TypeInv, Phases, Things, Free, File, Placeholder, None
    <2>2. \A t \in Sessions : Config(t)' /\ Given(t)'
      BY DEF TypeInv, Config, Given, Phases, Things, Owned, Served
    <2>3. \A t \in Sessions : Hooked(t)'
      BY DEF TypeInv, Config, Given, Hooked, Phases, Things, Owned, Served, None
    <2>4. QED
      BY <2>1, <2>2, <2>3
  <1>24. CASE Forget(s)
    <2> USE <1>24 DEF Forget
    <2>1. TypeInv'
      BY DEF TypeInv, Phases, Things, Free, File, Placeholder, None
    <2>2. \A t \in Sessions : Config(t)' /\ Given(t)'
      <3>1. held'[s] = {}
        <4>1. held'[s] = held[s] \ {"placeholders", "backend"} /\ phase[s] = "unloaded"
          BY DEF TypeInv
        <4>2. held[s] \subseteq Things /\ Given(s)
          BY DEF TypeInv
        <4>3. \A x \in held[s] : x \in {"placeholders", "backend"}
          BY ONLY <4>1, <4>2 DEF Given, Things, Owned, DenseBuffers
        <4>4. QED
          BY ONLY <4>1, <4>3
      <3>2. phase'[s] = "none" /\ \A t \in Sessions \ {s} :
               phase'[t] = phase[t] /\ held'[t] = held[t] /\ cfg'[t] = cfg[t]
        BY DEF TypeInv
      <3>3. \A t \in Sessions : Config(t) /\ Given(t)
        OBVIOUS
      <3>4. QED
        BY ONLY <3>1, <3>2, <3>3 DEF Config, Given, Served, Owned
    <2>3. \A t \in Sessions : Hooked(t)'
      BY DEF TypeInv, Config, Given, Hooked, Phases, Things, Owned, Served, None
    <2>4. QED
      BY <2>1, <2>2, <2>3
  <1>25. CASE UnmapFails(s)
    <2> USE <1>25 DEF UnmapFails
    <2>1. TypeInv'
      BY DEF TypeInv, Phases, Things, Free, File, Placeholder, None
    <2>2. \A t \in Sessions : Config(t)' /\ Given(t)'
      BY DEF TypeInv, Config, Given, Phases, Things, Owned, Served
    <2>3. \A t \in Sessions : Hooked(t)'
      BY DEF TypeInv, Config, Given, Hooked, Phases, Things, Owned, Served, None
    <2>4. QED
      BY <2>1, <2>2, <2>3
  <1>26. CASE PlugFails(s)
    <2> USE <1>26 DEF PlugFails
    <2>1. TypeInv'
      BY DEF TypeInv, Phases, Things, Free, File, Placeholder, None
    <2>2. \A t \in Sessions : Config(t)' /\ Given(t)'
      BY DEF TypeInv, Config, Given, Phases, Things, Owned, Served
    <2>3. \A t \in Sessions : Hooked(t)'
      BY DEF TypeInv, Config, Given, Hooked, Phases, Things, Owned, Served, None
    <2>4. QED
      BY <2>1, <2>2, <2>3
  <1>27. QED
    BY <1>1, <1>2, <1>3, <1>4, <1>5, <1>6, <1>7, <1>8, <1>9, <1>10, <1>11, <1>12, <1>13, <1>14, <1>15, <1>16, <1>17, <1>18, <1>19, <1>20, <1>21, <1>22, <1>23, <1>24, <1>25, <1>26 DEF Step

(* The hook is never left with a session that is being freed, however the    *)
(* sessions of the process interleave: owner and hook change in two steps.   *)
THEOREM HookServes == Spec => []HookServesItsSession
  <1>1. HookInv => HookServesItsSession
    BY DEF HookInv, Hooked, HookServesItsSession
  <1>2. HookInv /\ [Next]_vars => HookInv'
    <2>1. CASE Next
      BY <2>1, HookStep DEF Next, Step
    <2>2. CASE UNCHANGED vars
      BY <2>2 DEF vars, HookInv, TypeInv, Config, Given, Hooked, Owned
    <2>3. QED
      BY <2>1, <2>2
  <1>3. QED
    BY <1>1, <1>2, HookInvInit, PTL DEF Spec

(* What a session's own address range shows changes only with its own       *)
(* steps, and with few of them.                                             *)
Plain(t) ==
  /\ addr'[t] = addr[t] /\ cfg'[t] = cfg[t] /\ regions'[t] = regions[t] /\ views'[t] = views[t]
  /\ "model" \in held[t] => mem'[addr[t]] = mem[addr[t]]
  /\ "model" \in held'[t] <=> "model" \in held[t]
  /\ "placeholders" \in held'[t] <=> "placeholders" \in held[t]
  /\ \/ phase'[t] = phase[t]
     \/ /\ phase[t] \notin {"plugging", "unmapping"} /\ phase'[t] \notin {"plugging", "unmapping"}
        /\ phase'[t] \in Untouched => phase[t] \in Untouched
        /\ phase'[t] \in Mapped \cup Served => phase[t] \in Mapped \cup Served
(* A step that is plain for a session keeps what its range shows.           *)
LEMMA PlainPlace == ASSUME NEW t, Plain(t), Place(t) PROVE Place(t)'
  BY DEF Plain, Place, Untouched, Mapped, Served, Free, File, Placeholder

(* One step per action: mappings and placeholders.                          *)
LEMMA PlaceStep ==
  ASSUME Perils = {}, HookInv, PlaceInv, NEW s \in Sessions, Step(s)
  PROVE  /\ Whole' /\ \A t \in Sessions : Place(t)'
  <1> USE SizesAssumption DEF Goes, Points, Gets, GivesBack, Served, Mapped
  <1>0. TypeInv /\ Given(s) /\ Whole /\ Place(s) /\ Config(s) /\ \A t \in Sessions : Place(t)
    BY DEF HookInv, PlaceInv
  <1>1. CASE Start(s)
    <2> USE <1>1 DEF Start
    <2>1. Whole'
      BY <1>0 DEF TypeInv, Whole, Place, Config, Given, Live, Free, File, Placeholder, None, Partly, Owned, DenseBuffers, UnmapsAgain, Gap, Shares
    <2>3. \A t \in Sessions \ {s} : Plain(t)
      BY <1>0 DEF TypeInv, Whole, Place, Plain, Gap, Free, UnmapsAgain
    <2>4. Place(s)'
      BY <1>0 DEF TypeInv, Place, Untouched, Given, Free, File, Placeholder, None, Closed
    <2>5. QED
      BY <1>0, <2>1, <2>3, <2>4, PlainPlace
  <1>2. CASE LoadModel(s)
    <2> USE <1>2 DEF LoadModel
    <2>1. Whole'
      <3>1. PICK a \in Addresses : /\ mem[a] = Free /\ ~Gap(a)
                                 /\ addr' = [addr EXCEPT ![s] = a] /\ mem' = [mem EXCEPT ![a] = File(s)]
        BY <1>0
      <3>2. \A t \in Sessions : "model" \in held[t] => addr[t] # a
        BY <3>1 DEF Gap
      <3>3. held'[s] = held[s] \cup {"model"} /\ \A t \in Sessions \ {s} : held'[t] = held[t]
        BY <1>0 DEF TypeInv
      <3>4. /\ \A b \in Addresses, t \in Sessions : mem'[b].of = t => "model" \in held'[t] /\ addr'[t] = b
            /\ \A b \in Addresses : mem'[b].of = None => mem'[b] = Free
        <4>1. /\ \A b \in Addresses \ {a} : mem'[b] = mem[b] /\ mem'[a] = File(s)
              /\ addr'[s] = a /\ \A t \in Sessions \ {s} : addr'[t] = addr[t]
          BY <1>0, <3>1 DEF TypeInv
        <4>2. \A b \in Addresses : mem[b].of # s
          BY <1>0 DEF Whole, Given
        <4>3. File(s).of = s /\ s # None
          BY DEF File, None
        <4>4. QED
          BY <1>0, <3>3, <4>1, <4>2, <4>3 DEF Whole
      <3>5. \A t, u \in Sessions : "model" \in held'[t] /\ "model" \in held'[u] /\ addr'[t] = addr'[u] => t = u
        BY <1>0, <3>1, <3>2, <3>3 DEF TypeInv, Whole
      <3>6. \A t, u \in Live' : t # u /\ cfg'[t].name = cfg'[u].name => ~cfg'[t].release /\ ~cfg'[u].release
        BY <1>0 DEF TypeInv, Whole, Live
      <3>7. QED
        BY <3>4, <3>5, <3>6 DEF Whole
    <2>3. \A t \in Sessions \ {s} : Plain(t)
      <3>1. PICK a \in Addresses : mem[a] = Free /\ ~Gap(a) /\ addr' = [addr EXCEPT ![s] = a] /\ mem' = [mem EXCEPT ![a] = File(s)]
        BY <1>0
      <3>2. \A t \in Sessions \ {s} : "model" \in held[t] => addr[t] # a
        BY <3>1 DEF Gap
      <3>3. \A t \in Sessions \ {s} : "model" \in held[t] => mem'[addr[t]] = mem[addr[t]]
        BY <1>0, <3>1, <3>2 DEF Place, TypeInv
      <3>4. QED
        BY <1>0, <3>1, <3>3 DEF TypeInv, Plain
    <2>4. Place(s)'
      BY <1>0 DEF TypeInv, Place, Untouched, Given, Free, File, Placeholder, None, Closed
    <2>5. QED
      BY <1>0, <2>1, <2>3, <2>4, PlainPlace
  <1>3. CASE CreateContexts(s)
    <2> USE <1>3 DEF CreateContexts
    <2>1. Whole'
      BY <1>0 DEF TypeInv, Whole, Place, Config, Given, Live, Free, File, Placeholder, None, Partly, Owned, DenseBuffers, UnmapsAgain, Gap, Shares
    <2>3. \A t \in Sessions : Plain(t)
      BY <1>0 DEF TypeInv, Plain, Untouched, Buffers, Partly, Owned, DenseBuffers
    <2>5. QED
      BY <1>0, <2>1, <2>3, PlainPlace
  <1>4. CASE Capture(s)
    <2> USE <1>4 DEF Capture
    <2>1. Whole'
      BY <1>0 DEF TypeInv, Whole, Place, Config, Given, Live, Free, File, Placeholder, None, Partly, Owned, DenseBuffers, UnmapsAgain, Gap, Shares
    <2>3. \A t \in Sessions : Plain(t)
      BY <1>0 DEF TypeInv, Plain, Untouched, Buffers, Partly, Owned, DenseBuffers
    <2>5. QED
      BY <1>0, <2>1, <2>3, PlainPlace
  <1>5. CASE TakeExperts(s)
    <2> USE <1>5 DEF TakeExperts
    <2>1. Whole'
      BY <1>0 DEF TypeInv, Whole, Place, Config, Given, Live, Free, File, Placeholder, None, Partly, Owned, DenseBuffers, UnmapsAgain, Gap, Shares
    <2>3. \A t \in Sessions : Plain(t)
      BY <1>0 DEF TypeInv, Plain, Untouched, Buffers, Partly, Owned, DenseBuffers
    <2>5. QED
      BY <1>0, <2>1, <2>3, PlainPlace
  <1>6. CASE PlaceDense(s)
    <2> USE <1>6 DEF PlaceDense
    <2>1. Whole'
      BY <1>0 DEF TypeInv, Whole, Place, Config, Given, Live, Free, File, Placeholder, None, Partly, Owned, DenseBuffers, UnmapsAgain, Gap, Shares
    <2>3. \A t \in Sessions : Plain(t)
      BY <1>0 DEF TypeInv, Plain, Untouched, Buffers, Partly, Owned, DenseBuffers
    <2>5. QED
      BY <1>0, <2>1, <2>3, PlainPlace
  <1>7. CASE PlaceDenseFails(s)
    <2> USE <1>7 DEF PlaceDenseFails
    <2>1. Whole'
      BY <1>0 DEF TypeInv, Whole, Place, Config, Given, Live, Free, File, Placeholder, None, Partly, Owned, DenseBuffers, UnmapsAgain, Gap, Shares
    <2>3. \A t \in Sessions : Plain(t)
      BY <1>0 DEF TypeInv, Plain, Untouched, Buffers, Partly, Owned, DenseBuffers
    <2>5. QED
      BY <1>0, <2>1, <2>3, PlainPlace
  <1>8. CASE Keeps(s)
    <2> USE <1>8 DEF Keeps
    <2>1. Whole'
      BY <1>0 DEF TypeInv, Whole, Place, Config, Given, Live, Free, File, Placeholder, None, Partly, Owned, DenseBuffers, UnmapsAgain, Gap, Shares
    <2>3. \A t \in Sessions : Plain(t)
      BY <1>0 DEF TypeInv, Plain, Untouched, Buffers, Partly, Owned, DenseBuffers
    <2>5. QED
      BY <1>0, <2>1, <2>3, PlainPlace
  <1>9. CASE Releases(s)
    <2> USE <1>9 DEF Releases
    <2>1. Whole'
      BY <1>0 DEF TypeInv, Whole, Place, Config, Given, Live, Free, File, Placeholder, None, Partly, Owned, DenseBuffers, UnmapsAgain, Gap, Shares
    <2>3. \A t \in Sessions \ {s} : Plain(t)
      BY <1>0 DEF TypeInv, Whole, Place, Plain, Gap, Free, UnmapsAgain
    <2>4. Place(s)'
      <3>1. mem[addr[s]] = File(s) /\ addr[s] \in Addresses /\ views[s] = {}
        BY <1>0 DEF Place, Untouched
      <3>2. ASSUME NEW a \in SameFile(s)
            PROVE  a = addr[s]
        <4> DEFINE t == mem[a].of
        <4>1. a \in Addresses /\ mem[a].kind = "file" /\ cfg[t].name = cfg[s].name
          BY DEF SameFile
        <4>2. t \in Sessions /\ "model" \in held[t] /\ addr[t] = a
          BY <1>0, <4>1 DEF TypeInv, Whole, Free
        <4> HIDE DEF t
        <4>3. t \in Live /\ s \in Live
          BY <4>2, HookInv DEF HookInv, Given, Live
        <4>4. t = s
          BY <1>0, <4>1, <4>3 DEF Whole
        <4>5. QED
          BY <4>2, <4>4
      <3>3. addr[s] \in SameFile(s)
        BY <3>1 DEF SameFile, File
      <3>4. regions'[s] \in {{addr[s]}, {}} /\ phase'[s] = "unmapping"
        BY <1>0, <3>2, <3>3 DEF TypeInv
      <3>5. QED
        BY <1>0, <3>1, <3>4 DEF Place, Untouched
    <2>5. QED
      BY <1>0, <2>1, <2>3, <2>4, PlainPlace
  <1>10. CASE Unmap(s)
    <2> USE <1>10 DEF Unmap
    <2>1. Listed(s) = addr[s] /\ addr[s] \in Addresses /\ "model" \in held[s] /\ regions[s] = {addr[s]} /\ views[s] = {}
      BY <1>0 DEF Place, Listed
    <2>2. Whole'
      BY <1>0, <2>1 DEF TypeInv, Whole, Live, Free, None
    <2>3. \A t \in Sessions \ {s} : Plain(t)
      BY <1>0, <2>1 DEF TypeInv, Whole, Place, Plain
    <2>4. Place(s)'
      BY <1>0, <2>1 DEF TypeInv, Place, Untouched
    <2>5. QED
      BY <1>0, <2>2, <2>3, <2>4, PlainPlace
  <1>11. CASE Plug(s)
    <2> USE <1>11 DEF Plug
    <2>1. /\ Listed(s) = addr[s] /\ addr[s] \in Addresses /\ "model" \in held[s]
          /\ regions[s] = {addr[s]} /\ views[s] = {addr[s]}
      BY <1>0 DEF Place, Listed
    <2>2. Whole'
      <3>1. \A t \in Sessions : "model" \in held'[t] <=> "model" \in held[t]
        BY <1>0 DEF TypeInv
      <3>2. QED
        BY <1>0, <2>1, <3>1 DEF TypeInv, Whole, Live, Placeholder, Free, None
    <2>3. \A t \in Sessions \ {s} : Plain(t)
      BY <1>0, <2>1 DEF TypeInv, Whole, Place, Plain
    <2>4. Place(s)'
      BY <1>0, <2>1 DEF TypeInv, Place, Untouched
    <2>5. QED
      BY <1>0, <2>2, <2>3, <2>4, PlainPlace
  <1>12. CASE Reopen(s)
    <2> USE <1>12 DEF Reopen
    <2>1. Whole'
      <3>1. held' = held
        BY <1>0 DEF TypeInv, StayClosed
      <3>2. QED
        BY <1>0, <3>1 DEF TypeInv, Whole, Live, Place, Config, Given, Free, File, Placeholder, None
    <2>3. \A t \in Sessions \ {s} : Plain(t)
      BY <1>0 DEF TypeInv, Whole, Place, Plain, Gap, Free, UnmapsAgain
    <2>4. Place(s)'
      <3>1. held' = held
        BY <1>0 DEF TypeInv, StayClosed
      <3>2. QED
        BY <1>0, <3>1 DEF TypeInv, Place, Untouched
    <2>5. QED
      BY <1>0, <2>1, <2>3, <2>4, PlainPlace
  <1>13. CASE Claim(s)
    <2> USE <1>13 DEF Claim
    <2>1. Whole'
      BY <1>0 DEF TypeInv, Whole, Place, Config, Given, Live, Free, File, Placeholder, None, Partly, Owned, DenseBuffers, UnmapsAgain, Gap, Shares
    <2>3. \A t \in Sessions : Plain(t)
      BY <1>0 DEF TypeInv, Plain, Untouched, Buffers, Partly, Owned, DenseBuffers
    <2>5. QED
      BY <1>0, <2>1, <2>3, PlainPlace
  <1>14. CASE Register(s)
    <2> USE <1>14 DEF Register
    <2>1. Whole'
      BY <1>0 DEF TypeInv, Whole, Place, Config, Given, Live, Free, File, Placeholder, None, Partly, Owned, DenseBuffers, UnmapsAgain, Gap, Shares
    <2>3. \A t \in Sessions : Plain(t)
      BY <1>0 DEF TypeInv, Plain, Untouched, Buffers, Partly, Owned, DenseBuffers
    <2>5. QED
      BY <1>0, <2>1, <2>3, PlainPlace
  <1>15. CASE Opened(s)
    <2> USE <1>15 DEF Opened
    <2>1. Whole'
      BY <1>0 DEF TypeInv, Whole, Place, Config, Given, Live, Free, File, Placeholder, None, Partly, Owned, DenseBuffers, UnmapsAgain, Gap, Shares
    <2>3. \A t \in Sessions : Plain(t)
      BY <1>0 DEF TypeInv, Plain, Untouched, Buffers, Partly, Owned, DenseBuffers
    <2>5. QED
      BY <1>0, <2>1, <2>3, PlainPlace
  <1>16. CASE Materialize(s)
    <2> USE <1>16 DEF Materialize
    <2>1. Whole'
      BY <1>0 DEF TypeInv, Whole, Place, Config, Given, Live, Free, File, Placeholder, None, Partly, Owned, DenseBuffers, UnmapsAgain, Gap, Shares
    <2>3. \A t \in Sessions : Plain(t)
      BY <1>0 DEF TypeInv, Plain, Untouched, Buffers, Partly, Owned, DenseBuffers
    <2>5. QED
      BY <1>0, <2>1, <2>3, PlainPlace
  <1>17. CASE Fails(s)
    <2> USE <1>17 DEF Fails
    <2>1. Whole'
      BY <1>0 DEF TypeInv, Whole, Place, Config, Given, Live, Free, File, Placeholder, None, Partly, Owned, DenseBuffers, UnmapsAgain, Gap, Shares
    <2>3. \A t \in Sessions : Plain(t)
      <3>1. \A some \in Partly(s) : "model" \notin some /\ "placeholders" \notin some
        BY DEF Partly
      <3>2. QED
        BY <1>0, <3>1 DEF TypeInv, Plain, Untouched
    <2>5. QED
      BY <1>0, <2>1, <2>3, PlainPlace
  <1>18. CASE Close(s)
    <2> USE <1>18 DEF Close
    <2>1. Whole'
      BY <1>0 DEF TypeInv, Whole, Place, Config, Given, Live, Free, File, Placeholder, None, Partly, Owned, DenseBuffers, UnmapsAgain, Gap, Shares
    <2>3. \A t \in Sessions : Plain(t)
      BY <1>0 DEF TypeInv, Plain, Untouched, Buffers, Partly, Owned, DenseBuffers
    <2>5. QED
      BY <1>0, <2>1, <2>3, PlainPlace
  <1>19. CASE Unregister(s)
    <2> USE <1>19 DEF Unregister
    <2>1. Whole'
      BY <1>0 DEF TypeInv, Whole, Place, Config, Given, Live, Free, File, Placeholder, None, Partly, Owned, DenseBuffers, UnmapsAgain, Gap, Shares
    <2>3. \A t \in Sessions : Plain(t)
      BY <1>0 DEF TypeInv, Plain, Untouched, Buffers, Partly, Owned, DenseBuffers
    <2>5. QED
      BY <1>0, <2>1, <2>3, PlainPlace
  <1>20. CASE Disown(s)
    <2> USE <1>20 DEF Disown
    <2>1. Whole'
      BY <1>0 DEF TypeInv, Whole, Place, Config, Given, Live, Free, File, Placeholder, None, Partly, Owned, DenseBuffers, UnmapsAgain, Gap, Shares
    <2>3. \A t \in Sessions : Plain(t)
      BY <1>0 DEF TypeInv, Plain, Untouched, Buffers, Partly, Owned, DenseBuffers
    <2>5. QED
      BY <1>0, <2>1, <2>3, PlainPlace
  <1>21. CASE Stop(s)
    <2> USE <1>21 DEF Stop
    <2>1. Whole'
      BY <1>0 DEF TypeInv, Whole, Place, Config, Given, Live, Free, File, Placeholder, None, Partly, Owned, DenseBuffers, UnmapsAgain, Gap, Shares
    <2>3. \A t \in Sessions : Plain(t)
      BY <1>0 DEF TypeInv, Plain, Untouched, Buffers, Partly, Owned, DenseBuffers
    <2>5. QED
      BY <1>0, <2>1, <2>3, PlainPlace
  <1>22. CASE FreeContexts(s)
    <2> USE <1>22 DEF FreeContexts
    <2>1. Whole'
      BY <1>0 DEF TypeInv, Whole, Place, Config, Given, Live, Free, File, Placeholder, None, Partly, Owned, DenseBuffers, UnmapsAgain, Gap, Shares
    <2>3. \A t \in Sessions : Plain(t)
      BY <1>0 DEF TypeInv, Plain, Untouched, Buffers, Partly, Owned, DenseBuffers
    <2>5. QED
      BY <1>0, <2>1, <2>3, PlainPlace
  <1>23. CASE FreeModel(s)
    <2> USE <1>23 DEF FreeModel
    <2>1. Whole'
      BY <1>0 DEF TypeInv, Whole, Place, Config, Given, Live, Free, File, Placeholder, None, Partly, Owned, DenseBuffers, UnmapsAgain, Gap, Shares
    <2>3. \A t \in Sessions \ {s} : Plain(t)
      BY <1>0 DEF TypeInv, Whole, Place, Plain, Gap, Free, UnmapsAgain
    <2>4. Place(s)'
      BY <1>0 DEF TypeInv, Place, Untouched, Given, Free, File, Placeholder, None, Closed
    <2>5. QED
      BY <1>0, <2>1, <2>3, <2>4, PlainPlace
  <1>24. CASE Forget(s)
    <2> USE <1>24 DEF Forget
    <2>1. Whole'
      BY <1>0 DEF TypeInv, Whole, Place, Config, Given, Live, Free, File, Placeholder, None, Partly, Owned, DenseBuffers, UnmapsAgain, Gap, Shares
    <2>3. \A t \in Sessions \ {s} : Plain(t)
      BY <1>0 DEF TypeInv, Whole, Place, Plain, Gap, Free, UnmapsAgain
    <2>4. Place(s)'
      BY <1>0 DEF TypeInv, Place, Untouched, Given, Free, File, Placeholder, None, Closed
    <2>5. QED
      BY <1>0, <2>1, <2>3, <2>4, PlainPlace
  <1>25. CASE UnmapFails(s)
    <2> USE <1>25 DEF UnmapFails
    <2>1. Listed(s) = addr[s] /\ regions[s] = {addr[s]} /\ "model" \in held[s]
      BY <1>0 DEF Place, Listed
    <2>2. Whole'
      BY <1>0 DEF TypeInv, Whole, Live
    <2>3. \A t \in Sessions \ {s} : Plain(t)
      BY <1>0 DEF TypeInv, Plain
    <2>4. Place(s)'
      BY <1>0, <2>1 DEF TypeInv, Place, Untouched
    <2>5. QED
      BY <1>0, <2>2, <2>3, <2>4, PlainPlace
  <1>26. CASE PlugFails(s)
    <2> USE <1>26 DEF PlugFails
    <2>1. Listed(s) = addr[s] /\ regions[s] = {addr[s]} /\ "model" \in held[s]
      BY <1>0 DEF Place, Listed
    <2>2. Whole'
      BY <1>0 DEF TypeInv, Whole, Live
    <2>3. \A t \in Sessions \ {s} : Plain(t)
      BY <1>0 DEF TypeInv, Plain
    <2>4. Place(s)'
      BY <1>0, <2>1 DEF TypeInv, Place, Untouched
    <2>5. QED
      BY <1>0, <2>2, <2>3, <2>4, PlainPlace
  <1>27. QED
    BY <1>1, <1>2, <1>3, <1>4, <1>5, <1>6, <1>7, <1>8, <1>9, <1>10, <1>11, <1>12, <1>13, <1>14, <1>15, <1>16, <1>17, <1>18, <1>19, <1>20, <1>21, <1>22, <1>23, <1>24, <1>25, <1>26 DEF Step

Same(t) ==
  /\ phase'[t] = phase[t] /\ cfg'[t] = cfg[t] /\ data'[t] = data[t] /\ held'[t] = held[t]
  /\ avail'[t] = avail[t] /\ found'[t] = found[t] /\ cache'[t] = cache[t]
  /\ views'[t] = views[t]
(* A session whose own state does not change keeps its data.                *)
LEMMA SameData == ASSUME NEW t, Same(t), Data(t) PROVE Data(t)'
  BY DEF Same, Data

(* One step per action: where the tensors' data is.                         *)
LEMMA DataStep ==
  ASSUME Perils = {}, HookInv, PlaceInv, NEW s \in Sessions, Step(s)
  PROVE  \A t \in Sessions : Data(t)'
  <1> USE SizesAssumption DEF Goes, Points, Gets, GivesBack, Served, Mapped
  <1>0. /\ TypeInv /\ Given(s) /\ Place(s) /\ Data(s) /\ Config(s)
        /\ \A t \in Sessions : Data(t)
    BY DEF HookInv, PlaceInv
  <1>1. CASE Start(s)
    <2> USE <1>1 DEF Start
    <2>1. Data(s)'
      BY <1>0 DEF TypeInv, Data, Config, Given, Place, Captured, Weights, Dense, Untouched
    <2>2. \A t \in Sessions \ {s} : Same(t)
      BY <1>0 DEF TypeInv, Same, Placed
    <2>3. QED
      BY <1>0, <2>1, <2>2, SameData
  <1>2. CASE LoadModel(s)
    <2> USE <1>2 DEF LoadModel
    <2>1. Data(s)'
      BY <1>0 DEF TypeInv, Data, Config, Given, Place, Captured, Weights, Dense, Untouched
    <2>2. \A t \in Sessions \ {s} : Same(t)
      BY <1>0 DEF TypeInv, Same, Placed
    <2>3. QED
      BY <1>0, <2>1, <2>2, SameData
  <1>3. CASE CreateContexts(s)
    <2> USE <1>3 DEF CreateContexts
    <2>1. Data(s)'
      BY <1>0 DEF TypeInv, Data, Config, Given, Place, Captured, Weights, Dense, Untouched
    <2>2. \A t \in Sessions \ {s} : Same(t)
      BY <1>0 DEF TypeInv, Same, Placed
    <2>3. QED
      BY <1>0, <2>1, <2>2, SameData
  <1>4. CASE Capture(s)
    <2> USE <1>4 DEF Capture
    <2>1. Data(s)'
      BY <1>0 DEF TypeInv, Data, Config, Given, Place, Captured, Weights, Dense, Untouched
    <2>2. \A t \in Sessions \ {s} : Same(t)
      BY <1>0 DEF TypeInv, Same, Placed
    <2>3. QED
      BY <1>0, <2>1, <2>2, SameData
  <1>5. CASE TakeExperts(s)
    <2> USE <1>5 DEF TakeExperts
    <2>1. Data(s)'
      BY <1>0 DEF TypeInv, Data, Config, Given, Place, Captured, Weights, Dense, Untouched
    <2>2. \A t \in Sessions \ {s} : Same(t)
      BY <1>0 DEF TypeInv, Same, Placed
    <2>3. QED
      BY <1>0, <2>1, <2>2, SameData
  <1>6. CASE PlaceDense(s)
    <2> USE <1>6 DEF PlaceDense
    <2>1. Data(s)'
      <3>1. PICK a \in Avail, taken \in {RowTables(cfg[s]), {}} :
              /\ found' = [found EXCEPT ![s] = a] /\ Placed(s, taken, Moved(cfg[s], a, taken))
              /\ Gets(s, Buffers(taken, Moved(cfg[s], a, taken)) \cup {"lanes"})
        BY <1>0
      <3> DEFINE moved == Moved(cfg[s], a, taken)
      <3>2. cfg[s].stream /\ phase[s] = "bound" /\ phase'[s] = "placed"
        BY <1>0 DEF TypeInv, Given
      <3>3. taken \subseteq {"table"} /\ moved \subseteq Dense \ taken
        BY DEF RowTables, Moved, Dense, Captured
      <3>4. moved = Moved(cfg'[s], found'[s], taken) /\ taken \in {RowTables(cfg'[s]), {}}
        BY <1>0, <3>1 DEF TypeInv
      <3> HIDE DEF moved
      <3>5. data'[s] = [w \in Weights |-> IF w \in taken THEN "rows" ELSE IF w \in moved THEN "buf" ELSE data[s][w]]
        BY <1>0, <3>1 DEF TypeInv, Placed, moved
      <3>6. held'[s] = held[s] \cup (Buffers(taken, moved) \cup {"lanes"})
        BY <1>0, <3>1 DEF TypeInv, moved
      <3>7. "rows" \notin held[s] /\ views[s] = {} /\ \A w \in Dense : data[s][w] = "map"
        BY <1>0, <3>2 DEF Data, Place, Untouched
      <3>8. /\ data[s]["expert"] = IF cache[s] = 0 THEN "slots" ELSE "layers"
            /\ data[s]["expert"] \in held[s] /\ "readers" \in held[s]
            /\ cache[s] = CacheOf(cfg[s], avail[s])
        BY <1>0, <3>2 DEF Data
      <3>9. /\ "rows" \in held'[s] <=> taken # {}
            /\ moved # {} => "bufs" \in held'[s]
            /\ views'[s] = {}
        BY <3>6, <3>7 DEF Buffers
      <3>10. data'[s]["expert"] = data[s]["expert"]
        BY <3>3, <3>5 DEF Dense, Weights
      <3>11. \A w \in Dense : \/ data'[s][w] = "map"
                              \/ data'[s][w] = "rows" /\ "rows" \in held'[s]
                              \/ data'[s][w] = "buf" /\ "bufs" \in held'[s]
        BY <3>5, <3>7, <3>9 DEF Dense
      <3>12. {w \in Weights : data'[s][w] = "buf"} = moved
        <4>1. \A w \in Dense : data'[s][w] = "buf" <=> w \in moved
          BY <3>3, <3>5, <3>7 DEF Dense
        <4>2. data'[s]["expert"] # "buf" /\ moved \subseteq Dense
          BY <3>3, <3>8, <3>10
        <4>3. QED
          BY <4>1, <4>2 DEF Dense
      <3>13. {w \in Weights : data'[s][w] = "buf"} = Moved(cfg'[s], found'[s], taken)
        BY <3>4, <3>12
      <3>14. cfg' = cfg /\ avail' = avail /\ cache' = cache
        OBVIOUS
      <3>15. \E k \in {RowTables(cfg'[s]), {}} :
               ("rows" \in held'[s] <=> k # {}) /\ {w \in Weights : data'[s][w] = "buf"} = Moved(cfg'[s], found'[s], k)
        BY <3>4, <3>9, <3>13
      <3>16. QED
        BY ONLY <3>2, <3>6, <3>8, <3>9, <3>10, <3>11, <3>14, <3>15 DEF Data, Served, Mapped
    <2>2. \A t \in Sessions \ {s} : Same(t)
      BY <1>0 DEF TypeInv, Same, Placed
    <2>3. QED
      BY <1>0, <2>1, <2>2, SameData
  <1>7. CASE PlaceDenseFails(s)
    <2> USE <1>7 DEF PlaceDenseFails
    <2>1. Data(s)'
      BY <1>0 DEF TypeInv, Data
    <2>2. \A t \in Sessions \ {s} : Same(t)
      BY <1>0 DEF TypeInv, Same, Placed
    <2>3. QED
      BY <1>0, <2>1, <2>2, SameData
  <1>8. CASE Keeps(s)
    <2> USE <1>8 DEF Keeps
    <2>1. Data(s)'
      BY <1>0 DEF TypeInv, Data, Config, Given, Place, Captured, Weights, Dense, Untouched
    <2>2. \A t \in Sessions \ {s} : Same(t)
      BY <1>0 DEF TypeInv, Same, Placed
    <2>3. QED
      BY <1>0, <2>1, <2>2, SameData
  <1>9. CASE Releases(s)
    <2> USE <1>9 DEF Releases
    <2>1. Data(s)'
      <3>1. mem[addr[s]].kind = "file"
        BY <1>0 DEF Place, Untouched, File
      <3>2. ~cfg[s].mtp /\ \A w \in Captured : data[s][w] # "map"
        BY <3>1 DEF Blind, Blocked, InMapping
      <3>3. QED
        BY <1>0, <3>2 DEF TypeInv, Data
    <2>2. \A t \in Sessions \ {s} : Same(t)
      BY <1>0 DEF TypeInv, Same, Placed
    <2>3. QED
      BY <1>0, <2>1, <2>2, SameData
  <1>10. CASE Unmap(s)
    <2> USE <1>10 DEF Unmap
    <2>1. Data(s)'
      BY <1>0 DEF TypeInv, Data, Config, Given, Place, Captured, Weights, Dense, Untouched
    <2>2. \A t \in Sessions \ {s} : Same(t)
      BY <1>0 DEF TypeInv, Same, Placed
    <2>3. QED
      BY <1>0, <2>1, <2>2, SameData
  <1>11. CASE Plug(s)
    <2> USE <1>11 DEF Plug
    <2>1. Data(s)'
      BY <1>0 DEF TypeInv, Data, Config, Given, Place, Captured, Weights, Dense, Untouched
    <2>2. \A t \in Sessions \ {s} : Same(t)
      BY <1>0 DEF TypeInv, Same, Placed
    <2>3. QED
      BY <1>0, <2>1, <2>2, SameData
  <1>12. CASE Reopen(s)
    <2> USE <1>12 DEF Reopen
    <2>1. Data(s)'
      <3>1. held' = held
        BY <1>0 DEF TypeInv, StayClosed
      <3>2. phase[s] = "unmapping" /\ phase'[s] = "released"
        BY <1>0 DEF TypeInv
      <3>3. QED
        BY <1>0, <3>1, <3>2 DEF Data, Given
    <2>2. \A t \in Sessions \ {s} : Same(t)
      BY <1>0 DEF TypeInv, Same, Placed
    <2>3. QED
      BY <1>0, <2>1, <2>2, SameData
  <1>13. CASE Claim(s)
    <2> USE <1>13 DEF Claim
    <2>1. Data(s)'
      BY <1>0 DEF TypeInv, Data, Config, Given, Place, Captured, Weights, Dense, Untouched
    <2>2. \A t \in Sessions \ {s} : Same(t)
      BY <1>0 DEF TypeInv, Same, Placed
    <2>3. QED
      BY <1>0, <2>1, <2>2, SameData
  <1>14. CASE Register(s)
    <2> USE <1>14 DEF Register
    <2>1. Data(s)'
      BY <1>0 DEF TypeInv, Data, Config, Given, Place, Captured, Weights, Dense, Untouched
    <2>2. \A t \in Sessions \ {s} : Same(t)
      BY <1>0 DEF TypeInv, Same, Placed
    <2>3. QED
      BY <1>0, <2>1, <2>2, SameData
  <1>15. CASE Opened(s)
    <2> USE <1>15 DEF Opened
    <2>1. Data(s)'
      BY <1>0 DEF TypeInv, Data, Config, Given, Place, Captured, Weights, Dense, Untouched
    <2>2. \A t \in Sessions \ {s} : Same(t)
      BY <1>0 DEF TypeInv, Same, Placed
    <2>3. QED
      BY <1>0, <2>1, <2>2, SameData
  <1>16. CASE Materialize(s)
    <2> USE <1>16 DEF Materialize
    <2>1. Data(s)'
      <3>1. phase[s] = "open" /\ views[s] = {}
        BY <1>0 DEF Place, File, Placeholder, Free
      <3>2. /\ data'[s] = [w \in Weights |-> IF w = "table" THEN "map" ELSE data[s][w]]
            /\ cfg[s].stream /\ phase' = phase /\ "table" # "expert"
        BY <1>0, <3>1 DEF TypeInv, Data, Weights
      <3>3. {w \in Weights : data'[s][w] = "buf"} = {w \in Weights : data[s][w] = "buf"}
        BY <3>2 DEF Materialize
      <3>4. \A w \in Dense : data'[s][w] = data[s][w] \/ data'[s][w] = "map"
        BY <3>2 DEF Dense
      <3>5. data'[s]["expert"] = data[s]["expert"]
        BY <3>2 DEF Weights
      <3>6. QED
        BY <1>0, <3>1, <3>2, <3>3, <3>4, <3>5 DEF Data
    <2>2. \A t \in Sessions \ {s} : Same(t)
      BY <1>0 DEF TypeInv, Same, Placed
    <2>3. QED
      BY <1>0, <2>1, <2>2, SameData
  <1>17. CASE Fails(s)
    <2> USE <1>17 DEF Fails
    <2>1. Data(s)'
      BY <1>0 DEF TypeInv, Data
    <2>2. \A t \in Sessions \ {s} : Same(t)
      BY <1>0 DEF TypeInv, Same, Placed
    <2>3. QED
      BY <1>0, <2>1, <2>2, SameData
  <1>18. CASE Close(s)
    <2> USE <1>18 DEF Close
    <2>1. Data(s)'
      BY <1>0 DEF TypeInv, Data, Config, Given, Place, Captured, Weights, Dense, Untouched
    <2>2. \A t \in Sessions \ {s} : Same(t)
      BY <1>0 DEF TypeInv, Same, Placed
    <2>3. QED
      BY <1>0, <2>1, <2>2, SameData
  <1>19. CASE Unregister(s)
    <2> USE <1>19 DEF Unregister
    <2>1. Data(s)'
      BY <1>0 DEF TypeInv, Data, Config, Given, Place, Captured, Weights, Dense, Untouched
    <2>2. \A t \in Sessions \ {s} : Same(t)
      BY <1>0 DEF TypeInv, Same, Placed
    <2>3. QED
      BY <1>0, <2>1, <2>2, SameData
  <1>20. CASE Disown(s)
    <2> USE <1>20 DEF Disown
    <2>1. Data(s)'
      BY <1>0 DEF TypeInv, Data, Config, Given, Place, Captured, Weights, Dense, Untouched
    <2>2. \A t \in Sessions \ {s} : Same(t)
      BY <1>0 DEF TypeInv, Same, Placed
    <2>3. QED
      BY <1>0, <2>1, <2>2, SameData
  <1>21. CASE Stop(s)
    <2> USE <1>21 DEF Stop
    <2>1. Data(s)'
      BY <1>0 DEF TypeInv, Data, Config, Given, Place, Captured, Weights, Dense, Untouched
    <2>2. \A t \in Sessions \ {s} : Same(t)
      BY <1>0 DEF TypeInv, Same, Placed
    <2>3. QED
      BY <1>0, <2>1, <2>2, SameData
  <1>22. CASE FreeContexts(s)
    <2> USE <1>22 DEF FreeContexts
    <2>1. Data(s)'
      BY <1>0 DEF TypeInv, Data, Config, Given, Place, Captured, Weights, Dense, Untouched
    <2>2. \A t \in Sessions \ {s} : Same(t)
      BY <1>0 DEF TypeInv, Same, Placed
    <2>3. QED
      BY <1>0, <2>1, <2>2, SameData
  <1>23. CASE FreeModel(s)
    <2> USE <1>23 DEF FreeModel
    <2>1. Data(s)'
      BY <1>0 DEF TypeInv, Data, Config, Given, Place, Captured, Weights, Dense, Untouched
    <2>2. \A t \in Sessions \ {s} : Same(t)
      BY <1>0 DEF TypeInv, Same, Placed
    <2>3. QED
      BY <1>0, <2>1, <2>2, SameData
  <1>24. CASE Forget(s)
    <2> USE <1>24 DEF Forget
    <2>1. Data(s)'
      BY <1>0 DEF TypeInv, Data, Config, Given, Place, Captured, Weights, Dense, Untouched
    <2>2. \A t \in Sessions \ {s} : Same(t)
      BY <1>0 DEF TypeInv, Same, Placed
    <2>3. QED
      BY <1>0, <2>1, <2>2, SameData
  <1>25. CASE UnmapFails(s)
    <2> USE <1>25 DEF UnmapFails
    <2>1. Data(s)'
      BY <1>0 DEF TypeInv, Data, Given
    <2>2. \A t \in Sessions \ {s} : Same(t)
      BY <1>0 DEF TypeInv, Same
    <2>3. QED
      BY <1>0, <2>1, <2>2, SameData
  <1>26. CASE PlugFails(s)
    <2> USE <1>26 DEF PlugFails
    <2>1. Data(s)'
      BY <1>0 DEF TypeInv, Data, Given
    <2>2. \A t \in Sessions \ {s} : Same(t)
      BY <1>0 DEF TypeInv, Same
    <2>3. QED
      BY <1>0, <2>1, <2>2, SameData
  <1>27. QED
    BY <1>1, <1>2, <1>3, <1>4, <1>5, <1>6, <1>7, <1>8, <1>9, <1>10, <1>11, <1>12, <1>13, <1>14, <1>15, <1>16, <1>17, <1>18, <1>19, <1>20, <1>21, <1>22, <1>23, <1>24, <1>25, <1>26 DEF Step
(* Both invariants hold in every reachable state.                           *)
LEMMA SessionInv == Perils = {} /\ Spec => [](HookInv /\ PlaceInv)
  <1> SUFFICES ASSUME Perils = {}
               PROVE  Spec => [](HookInv /\ PlaceInv)
    OBVIOUS
  <1>1. Init => PlaceInv
    BY SizesAssumption DEF Init, PlaceInv, Whole, Place, Untouched, Data, Live, Free, None, Served, Mapped
  <1>2. HookInv /\ PlaceInv /\ [Next]_vars => HookInv' /\ PlaceInv'
    <2>1. CASE HookInv /\ PlaceInv /\ Next
      BY <2>1, HookStep, PlaceStep, DataStep DEF Next, Step, PlaceInv
    <2>2. CASE HookInv /\ PlaceInv /\ UNCHANGED vars
      <3>1. HookInv'
        BY <2>2 DEF vars, HookInv, TypeInv, Config, Given, Hooked, Owned
      <3>2. Whole'
        BY <2>2 DEF vars, PlaceInv, Whole, Live
      <3>3. \A t \in Sessions : Place(t)' /\ Data(t)'
        <4>1. \A t \in Sessions : Plain(t) /\ Same(t) /\ Place(t) /\ Data(t)
          BY <2>2 DEF vars, PlaceInv, Plain, Same
        <4>2. QED
          BY <4>1, PlainPlace, SameData
      <3>4. QED
        BY <3>1, <3>2, <3>3 DEF PlaceInv
    <2>3. QED
      BY <2>1, <2>2
  <1>3. QED
    BY <1>1, <1>2, HookInvInit, PTL DEF Spec

(* What a session computes with is in a mapping that is still its own, or    *)
(* in memory it still holds, whatever the other sessions map, release and    *)
(* give back.                                                               *)
THEOREM WeightsStayReadable == Perils = {} /\ Spec => []WeightsReadable
  <1>1. HookInv /\ PlaceInv => WeightsReadable
    <2> SUFFICES ASSUME HookInv, PlaceInv, NEW s \in Sessions, phase[s] \in {"capturing", "open"},
                        NEW w \in Reads(s)
                 PROVE  Readable(s, w)
      BY DEF WeightsReadable
    <2>0. Place(s) /\ Data(s) /\ Config(s) /\ Given(s)
      BY DEF HookInv, PlaceInv
    <2>1. w \in Weights /\ w \in Captured \cup (IF cfg[s].mtp THEN Weights ELSE {})
      BY DEF Reads, Captured
    <2>2. "model" \in held[s] /\ (views[s] = {} => mem[addr[s]] = File(s))
      BY <2>0 DEF Place, Mapped, Served
    <2>3. CASE phase[s] = "capturing" \/ ~cfg[s].stream
      <3>1. data[s][w] = "map"
        BY <2>0, <2>1, <2>3 DEF Data, Mapped
      <3>2. views[s] = {}
        BY <2>0, <2>3, <3>1 DEF Place, Data, Untouched, Mapped, Served, Captured, Weights
      <3>3. QED
        BY <2>2, <3>1, <3>2 DEF Readable
    <2>4. CASE phase[s] = "open" /\ cfg[s].stream
      <3>1. data[s][w] = "map" => views[s] = {}
        BY <2>0, <2>1, <2>4 DEF Data, Served
      <3>2. /\ w = "expert" => data[s][w] \in {"slots", "layers"} /\ data[s][w] \in held[s] /\ "readers" \in held[s]
            /\ w # "expert" => \/ data[s][w] = "map"
                               \/ data[s][w] = "rows" /\ "rows" \in held[s]
                               \/ data[s][w] = "buf" /\ "bufs" \in held[s]
        BY <2>0, <2>1, <2>4 DEF Data, Served, Dense
      <3>3. data[s][w] = "map" => mem[addr[s]] = File(s)
        BY <2>2, <3>1
      <3>4. CASE data[s][w] = "map"
        BY <3>3, <3>4 DEF Readable
      <3>5. CASE data[s][w] = "buf"
        BY <3>2, <3>5 DEF Readable
      <3>6. CASE data[s][w] \notin {"map", "buf"}
        BY <3>2, <3>6 DEF Readable
      <3>7. QED
        BY <3>4, <3>5, <3>6
    <2>5. QED
      BY <2>3, <2>4
  <1>2. QED
    BY <1>1, SessionInv, PTL

(* The destructor gives everything back, wherever the opening stopped.       *)
THEOREM ClosedLeavesNothing == Perils = {} /\ Spec => []NothingLeft
  <1>1. HookInv /\ PlaceInv => NothingLeft
    <2> SUFFICES ASSUME HookInv, PlaceInv, NEW s \in Sessions, phase[s] = "none"
                 PROVE  held[s] = {} /\ owner # s /\ hook # s /\ \A a \in Addresses : mem[a].of # s
      BY DEF NothingLeft
    <2>1. held[s] = {} /\ owner # s /\ hook # s
      BY DEF HookInv, Given, Hooked
    <2>2. \A a \in Addresses : mem[a].of # s
      BY <2>1 DEF PlaceInv, Whole
    <2>3. QED
      BY <2>1, <2>2
  <1>2. QED
    BY <1>1, SessionInv, PTL

(* The automatic cache leaves what the dense weights and the floor need, and *)
(* an option that needs a cache has one.                                     *)
THEOREM CacheLeavesTheFloor == Perils = {} /\ Spec => []BudgetAsPlanned
  <1>1. HookInv /\ PlaceInv => BudgetAsPlanned
    <2> SUFFICES ASSUME HookInv, PlaceInv, NEW s \in Sessions, phase[s] = "open", cfg[s].stream
                 PROVE  /\ /\ cfg[s].cacheAuto /\ avail[s] > 0 /\ Moves(cfg[s])
                           /\ cfg[s].rows => "rows" \in held[s]
                           => LeavesTheFloor(s)
                        /\ cfg[s].wants \cap NeedCache # {} => data[s]["expert"] = "layers"
      BY DEF BudgetAsPlanned
    <2> DEFINE m == cfg[s]
               a == avail[s]
    <2>1. m \in Modes /\ a \in Nat
      BY DEF HookInv, TypeInv, Config
    <2>2. Data(s)
      BY DEF PlaceInv
    <2>3. /\ data[s]["expert"] = IF cache[s] = 0 THEN "slots" ELSE "layers"
          /\ cache[s] = CacheOf(m, a)
      BY <2>2 DEF Data, Served
    <2>4. /\ m \in Mode /\ Valid(m) /\ Pending(m, a) \in Nat /\ HardCap(m) \in Nat \ {0}
          /\ m.floor \in Nat /\ m.cache \in Nat
      BY <2>1, CacheNat DEF Mode
    <2>5. ASSUME m.cacheAuto, a > 0, Moves(m), m.rows => "rows" \in held[s]
          PROVE  LeavesTheFloor(s)
      <3> DEFINE rows == "rows" \in held[s]
                 planned == {r \in InBuffers(s) : DenseBytes[r] <= a}
      <3>1. PICK taken \in {RowTables(m), {}} :
              (rows <=> taken # {}) /\ {w \in Weights : data[s][w] = "buf"} = Moved(m, found[s], taken)
        BY <2>2 DEF Data, Served
      <3>2. taken = RowTables(m) /\ (rows <=> RowTables(m) # {})
        BY <2>5, <3>1 DEF RowTables
      <3>3. /\ planned \subseteq Resident(m, a)
            /\ found[s] = 0 \/ found[s] >= a => planned = Resident(m, a)
        <4>1. InBuffers(s) = {RangeOf(w) : w \in Moved(m, found[s], taken)}
          BY <3>1 DEF InBuffers
        <4>2. Moved(m, found[s], taken) = {w \in Captured \ ({"expert"} \cup taken) : ~HeldBack(found[s], RangeOf(w))}
          BY <2>5 DEF Moved
        <4>3. \A w \in Moved(m, found[s], taken) : RangeOf(w) \in Ranges \ RowTables(m)
          BY <3>2, <4>2 DEF RangeOf, Ranges, Captured, Weights, RowTables
        <4>4. found[s] = 0 \/ found[s] >= a =>
                \A r \in Resident(m, a) : r \in Moved(m, found[s], taken) /\ RangeOf(r) = r
          <5>1. SUFFICES ASSUME found[s] = 0 \/ found[s] >= a, NEW r \in Resident(m, a)
                         PROVE  r \in Moved(m, found[s], taken) /\ RangeOf(r) = r
            OBVIOUS
          <5>2. r \in Ranges \ RowTables(m) /\ DenseBytes[r] <= a /\ DenseBytes[r] \in Nat /\ found[s] \in Nat
            BY <5>1, SizesAssumption DEF Resident, HookInv, TypeInv
          <5>3. ~HeldBack(found[s], r)
            BY <2>1, <5>1, <5>2 DEF HeldBack
          <5>4. RangeOf(r) = r /\ r \in Captured \ ({"expert"} \cup taken)
            BY <3>2, <5>2 DEF RangeOf, Ranges, Captured, Weights
          <5>5. QED
            BY <4>2, <5>3, <5>4
        <4>5. QED
          BY <4>1, <4>3, <4>4 DEF Resident
      <3> DEFINE sp == Spent(planned, rows)
      <3>4. sp \in Nat /\ sp <= Pending(m, a) /\ (found[s] = 0 \/ found[s] >= a => sp = Pending(m, a))
        <4>1. Pending(m, a) = Spent(Resident(m, a), rows)
          BY <2>5, <3>2 DEF Pending, Spent
        <4>2. DenseSum(planned) \in Nat /\ DenseSum(Resident(m, a)) \in Nat
          BY <2>1, CacheNat
        <4>3. DenseSum(planned) <= DenseSum(Resident(m, a))
          <5>1. \A r \in Ranges : /\ BytesIn(r, planned) \in Nat /\ BytesIn(r, Resident(m, a)) \in Nat
                                  /\ BytesIn(r, planned) <= BytesIn(r, Resident(m, a))
            BY <3>3, SizesAssumption DEF BytesIn
          <5> HIDE DEF planned
          <5>2. QED
            BY <5>1 DEF DenseSum, Ranges
        <4>4. sp = DenseSum(planned) + (IF rows THEN RowWindow ELSE 0)
              /\ Pending(m, a) = DenseSum(Resident(m, a)) + (IF rows THEN RowWindow ELSE 0)
          BY <4>1 DEF Spent
        <4>5. found[s] = 0 \/ found[s] >= a => sp = Pending(m, a)
          BY <3>3, <4>1
        <4> HIDE DEF planned, rows, sp
        <4>6. QED
          BY <4>2, <4>3, <4>4, <4>5, SizesAssumption
      <3>5. cache[s] = AutoCache(m, a)
        BY <2>3, <2>5 DEF CacheOf
      <3> DEFINE p == Pending(m, a)
                 c == HardCap(m)
                 f == m.floor
                 most == Least(c, Most(a - sp - f, Least(MinCache, c)))
      <3>6. AutoCache(m, a) = Least(c, Most(Least(MinCache, c), Below(Below(a, p), f)))
        BY DEF AutoCache
      <3>7. p \in Nat /\ c \in Nat \ {0} /\ f \in Nat /\ MinCache \in Nat \ {0} /\ a \in Nat
        BY <2>1, <2>4, SizesAssumption
      <3>8. LeavesTheFloor(s) = (cache[s] <= most /\ (found[s] = 0 \/ found[s] >= a => cache[s] = most))
        BY DEF LeavesTheFloor
      <3> HIDE DEF p, c, f, a, m, sp, rows, planned
      <3>9. Least(c, Most(Least(MinCache, c), Below(Below(a, p), f))) <= most
        BY <3>4, <3>7 DEF Least, Most, Below, p
      <3>10. sp = p => Least(c, Most(Least(MinCache, c), Below(Below(a, p), f))) = most
        BY <3>7 DEF Least, Most, Below
      <3>11. QED
        BY <3>4, <3>5, <3>6, <3>8, <3>9, <3>10 DEF p
    <2>6. ASSUME m.wants \cap NeedCache # {}
          PROVE  data[s]["expert"] = "layers"
      <3>1. CacheOn(m)
        BY <2>4, <2>6 DEF Valid, Streamed
      <3>2. m.cacheAuto => AutoCache(m, a) > 0
        <4>1. Pending(m, a) \in Nat /\ HardCap(m) \in Nat \ {0} /\ m.floor \in Nat /\ a \in Nat /\ MinCache \in Nat \ {0}
          BY <2>1, <2>4, SizesAssumption
        <4> HIDE DEF m, a
        <4>2. QED
          BY <4>1 DEF AutoCache, Least, Most, Below
      <3>3. CacheOf(m, a) # 0
        BY <2>4, <3>1, <3>2 DEF CacheOf, CacheOn
      <3>4. QED
        BY <2>3, <3>3
    <2>7. QED
      BY <2>5, <2>6
  <1>2. QED
    BY <1>1, SessionInv, PTL
==============================================================================
