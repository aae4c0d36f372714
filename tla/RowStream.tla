------------------------------- MODULE RowStream -------------------------------
(***************************************************************************)
(* Dense tables the graph only gathers rows from, served from flash: the    *)
(* bounded window of resident slabs (RowStream), the eval callback that     *)
(* fills it (RouterHook) and the graph that reads it.                       *)
(*                                                                         *)
(* The scheduler asks the callback about node after node.  Only a node the  *)
(* callback isolates ends a group; the nodes asked so far are computed      *)
(* together afterwards.  So rows are put in place when a gather is asked    *)
(* about and read when its group is computed.                               *)
(***************************************************************************)
EXTENDS Integers, Sequences, FiniteSets, Functions

CONSTANTS
  Tables,          (* the dense tables of the model file                    *)
  RowBytes,        (* bytes of a row, by table                              *)
  NRows,           (* rows, by table                                        *)
  SlabBytes,       (* bytes of a slab, the unit read and evicted            *)
  Page,            (* bytes of a page                                       *)
  AskedBudget,     (* --row-stream-mb, in bytes; 0 asks for the default     *)
  DefaultBudget,   (* the built-in window                                   *)
  Graphs,          (* the graphs the model builds: sequences of nodes       *)
  GenSpan,         (* values of the gather generation, 2^32 in the code     *)
  MaxIds,          (* bound on the row ids of one gather                    *)
  MaxDecodes,      (* bound on the graphs computed                          *)
  ReadsMayFail     (* a commit or a flash read may fail                     *)

Ops == {"gather", "use", "index", "topk"}
Node == [op : Ops, table : Tables, computed : BOOLEAN]

ASSUME RowStreamAssumption ==
  /\ IsFiniteSet(Tables)
  /\ RowBytes \in [Tables -> Nat \ {0}] /\ NRows \in [Tables -> Nat \ {0}]
  /\ Page \in Nat \ {0} /\ SlabBytes \in Nat \ {0} /\ SlabBytes % Page = 0
  /\ AskedBudget \in Nat /\ DefaultBudget \in Nat
  /\ Graphs \subseteq Seq(Node)
  /\ GenSpan \in Nat /\ GenSpan > 1 /\ MaxDecodes \in Nat

VARIABLES
  (* RowStream *)
  resident,        (* resident slabs, by table                              *)
  stamp,           (* generation of the last gather that needed the slab    *)
  lru,             (* resident slabs of all tables, the oldest first        *)
  bytes,           (* resident_bytes_                                       *)
  gen,
  whole,           (* the table is back on its mapping                      *)
  mem,             (* what the reserved pages of a slab hold                *)
  (* RouterHook *)
  served,          (* the tables taken over after the capture decode        *)
  indexBarrier,    (* row_computed_indices_                                 *)
  fatal,
  (* the graph being computed *)
  pc, graph,       (* the nodes not asked about yet                         *)
  group,           (* rows whose gather is asked about and not computed      *)
  indexPending,    (* an index producer is in the group                     *)
  decodes

windowVars == <<resident, stamp, lru, bytes, gen, whole, mem>>
hookVars == <<served, indexBarrier, fatal>>
graphVars == <<pc, graph, group, indexPending, decodes>>
vars == <<windowVars, hookVars, graphVars>>
-----------------------------------------------------------------------------
(* Slabs and the window.                                                   *)

RoundUp(v, a) == ((v + a - 1) \div a) * a
Smaller(a, b) == IF a < b THEN a ELSE b
Larger(a, b) == IF a < b THEN b ELSE a

Size(t) == RowBytes[t] * NRows[t]
NSlabs(t) == RoundUp(Size(t), SlabBytes) \div SlabBytes
SlabsOf(t) == 0..(NSlabs(t) - 1)
Slab == UNION {{t} \X SlabsOf(t) : t \in Tables}

\* A row contributes every slab its bytes reach into, not just its first.
SlabsOfRow(t, r) ==
  LET a == r * RowBytes[t]
      b == Smaller(a + RowBytes[t], Size(t))
  IN  {s \in SlabsOf(t) : a \div SlabBytes <= s /\ s * SlabBytes < b}

\* A row outside the table is ignored.
Need(t, rows) == UNION {SlabsOfRow(t, r) : r \in rows \cap 0..(NRows[t] - 1)}

\* The pages of a slab; the last slab of a table may be short.
CommitBytes(s) ==
  LET off == s[2] * SlabBytes
      len == Smaller(SlabBytes, Size(s[1]) - off)
  IN  Smaller(RoundUp(len, Page), RoundUp(Size(s[1]), Page) - off)
TotalBytes[S \in SUBSET Slab] ==
  IF S = {} THEN 0
  ELSE LET s == CHOOSE s \in S : TRUE
       IN  CommitBytes(s) + TotalBytes[S \ {s}]

\* The members of S in the order of their keys.
Rank(S, key, e) == Cardinality({f \in S : key[f] < key[e]})
Sorted(S, key) ==
  [k \in 1..Cardinality(S) |-> CHOOSE e \in S : Rank(S, key, e) = k - 1]
SortedSlabs(S) == Sorted(S, [s \in S |-> s[2]])

\* The sequence s without the members of S.
KeepsOld(s, S) == s
Without(s, S) ==
  LET kept == {i \in DOMAIN s : s[i] \notin S}
      at == Sorted(kept, [i \in kept |-> i])
  IN  [k \in DOMAIN at |-> s[at[k]]]

\* Never below one slab, or every gather would evict what it just read.
Budget ==
  Larger(IF AskedBudget # 0 THEN AskedBudget ELSE DefaultBudget, SlabBytes)

\* A new generation stamps the slabs the gather needs.  When the counter
\* wraps, no old stamp may claim to be from the current gather.
GenOverflow == gen + 1
NextGen == IF (gen + 1) % GenSpan = 0 THEN 1 ELSE gen + 1
AfterWrap == IF (gen + 1) % GenSpan = 0 THEN [s \in Slab |-> 0] ELSE stamp

\* A slab that carries the new stamp already is in need_ once and not again.
ToFetch(S) == {s \in S : AfterWrap[s] # NextGen}

\* evict_to_budget: the oldest slabs the gather does not need, until the
\* headroom fits or none is left.
Evictable(stamps) == Without(lru, {s \in Slab : stamps[s] = NextGen})
NoHeadroom(freed, headroom) == bytes - freed <= Budget
Fits(freed, headroom) == bytes - freed + headroom <= Budget
Victims(stamps, headroom) ==
  LET old == Evictable(stamps)
      Oldest(n) == {old[i] : i \in 1..n}
      n == CHOOSE n \in 0..Len(old) :
             /\ Fits(TotalBytes[Oldest(n)], headroom) \/ n = Len(old)
             /\ \A k \in 0..(n - 1) : ~Fits(TotalBytes[Oldest(k)], headroom)
  IN  Oldest(n)
-----------------------------------------------------------------------------
\* The capture decode classifies every reference to a table: it is served
\* when each is a gather, and a gather over a computed index asks for a
\* barrier behind the nodes that produce integers.
Gathered(g) == {g[i].table : i \in {i \in DOMAIN g : g[i].op = "gather"}}
Disqualified(g) == {g[i].table : i \in {i \in DOMAIN g : g[i].op = "use"}}
NoBarrier(g) == FALSE
NeedsIndexBarrier(g) ==
  \E i \in DOMAIN g : /\ g[i].op = "gather" /\ g[i].computed
                      /\ g[i].table \notin Disqualified(g)

Init ==
  /\ resident = {} /\ stamp = [s \in Slab |-> 0]
  /\ lru = << >> /\ bytes = 0 /\ gen = 0
  /\ whole = [t \in Tables |-> FALSE]
  /\ mem = [s \in Slab |-> "none"]
  /\ \E g \in Graphs : /\ served = Gathered(g) \ Disqualified(g)
                       /\ indexBarrier = NeedsIndexBarrier(g)
  /\ fatal = FALSE
  /\ pc = "between" /\ graph = << >> /\ group = {}
  /\ indexPending = FALSE /\ decodes = 0
-----------------------------------------------------------------------------
(* The scheduler and the eval callback.                                    *)

BeginDecode(g) ==
  /\ pc = "between" /\ ~fatal /\ decodes < MaxDecodes
  /\ decodes' = decodes + 1
  /\ graph' = g
  /\ pc' = "ask"
  /\ UNCHANGED <<windowVars, hookVars, group, indexPending>>

\* The next node is asked about; the group is computed when the node is
\* isolated or the last one.
Ask(op, isolated) ==
  /\ pc = "ask" /\ graph # << >>
  /\ Head(graph).op = op
  /\ graph' = Tail(graph)
  /\ pc' = IF isolated \/ Tail(graph) = << >> THEN "compute" ELSE "ask"
  /\ UNCHANGED <<served, indexBarrier, decodes>>

Serves(t) == t \in served /\ ~whole[t]

\* RowStream::gather of the ids the callback sees.  fetched is the part of
\* the slabs that landed before a failure, all of them without one.
Gather(t, seen, fetched) ==
  LET S == ToFetch({t} \X Need(t, seen))
      stamps == [s \in Slab |-> IF s \in S THEN NextGen ELSE AfterWrap[s]]
      out == IF S = {} THEN {}
             ELSE Victims(stamps, SlabBytes * Cardinality(S \ resident))
      in == fetched \ (resident \ out)
  IN
  /\ fetched \subseteq S
  /\ \A a \in fetched, b \in S : b[2] < a[2] => b \in fetched
  /\ gen' = NextGen
  /\ stamp' = stamps
  /\ resident' = (resident \ out) \cup fetched
  /\ bytes' = bytes - TotalBytes[out] + TotalBytes[in]
  /\ lru' = Without(lru, out \cup fetched) \o SortedSlabs(fetched)
  /\ IF fetched = S
       THEN /\ mem' = [s \in Slab |-> IF s \in in THEN "data"
                                      ELSE IF s \in out THEN "none" ELSE mem[s]]
            /\ UNCHANGED fatal
       ELSE LET f == CHOOSE f \in S \ fetched :
                       \A s \in S \ fetched : f[2] <= s[2]
            IN  /\ ReadsMayFail /\ f \notin resident \ out
                /\ fatal' = TRUE
                /\ \E left \in {"none", "blank"} :
                     mem' = [s \in Slab |-> IF s \in in THEN "data"
                                            ELSE IF s = f THEN left
                                            ELSE IF s \in out THEN "none" ELSE mem[s]]
  /\ UNCHANGED whole

\* A gather from a served table.  Its ids are read now: they are the ids of
\* the node, unless the node that produces them has not been computed yet.
AskGather(rows, seen, fetched) ==
  LET n == Head(graph)
  IN
  /\ Ask("gather", FALSE)
  /\ (n.computed /\ indexPending) \/ seen = rows
  /\ IF Serves(n.table)
       THEN Gather(n.table, seen, fetched)
       ELSE fetched = {} /\ UNCHANGED <<windowVars, fatal>>
  /\ group' = group \cup ({n.table} \X (rows \cap 0..(NRows[n.table] - 1)))
  /\ UNCHANGED indexPending

\* Any other use of a served table puts it back on its mapping.
AskUse ==
  LET t == Head(graph).table
      mine == {s \in resident : s[1] = t}
  IN
  /\ Ask("use", FALSE)
  /\ IF Serves(t)
       THEN /\ whole' = [whole EXCEPT ![t] = TRUE]
            /\ resident' = resident \ mine
            /\ lru' = Without(lru, mine)
            /\ bytes' = bytes - TotalBytes[mine]
            /\ mem' = [s \in Slab |-> IF s \in mine THEN "none" ELSE mem[s]]
       ELSE UNCHANGED <<whole, resident, lru, bytes, mem>>
  /\ UNCHANGED <<stamp, gen, fatal, group, indexPending>>

\* A node that produces integers, isolated when the capture asked for it.
AskIndex ==
  /\ Ask("index", indexBarrier)
  /\ indexPending' = TRUE
  /\ UNCHANGED <<windowVars, fatal, group>>

\* The routing nodes are always isolated.
AskTopk ==
  /\ Ask("topk", TRUE)
  /\ UNCHANGED <<windowVars, fatal, group, indexPending>>

\* The group is computed; a fatal run is aborted instead.
Compute ==
  /\ pc = "compute"
  /\ pc' = IF fatal \/ graph = << >> THEN "between" ELSE "ask"
  /\ graph' = IF fatal THEN << >> ELSE graph
  /\ group' = {}
  /\ indexPending' = FALSE
  /\ UNCHANGED <<windowVars, hookVars, decodes>>

IdSets(t) == {R \in SUBSET (0..NRows[t]) : R # {} /\ Cardinality(R) <= MaxIds}

Next ==
  \/ \E g \in Graphs : BeginDecode(g)
  \/ /\ pc = "ask"
     /\ LET t == Head(graph).table
        IN  \E rows, seen \in IdSets(t), fetched \in SUBSET ({t} \X SlabsOf(t)) :
              AskGather(rows, seen, fetched)
  \/ AskUse
  \/ AskIndex
  \/ AskTopk
  \/ Compute

Spec == Init /\ [][Next]_vars
-----------------------------------------------------------------------------
(* Properties.                                                             *)

\* Every variable has its type.
TypeOK ==
  /\ resident \subseteq Slab /\ stamp \in [Slab -> 0..(GenSpan - 1)]
  /\ lru \in Seq(Slab) /\ bytes \in Nat /\ gen \in 0..(GenSpan - 1)
  /\ whole \in [Tables -> BOOLEAN] /\ mem \in [Slab -> {"none", "blank", "data"}]
  /\ served \subseteq Tables /\ indexBarrier \in BOOLEAN /\ fatal \in BOOLEAN
  /\ pc \in {"between", "ask", "compute"} 
  /\ \A g \in group : g[1] \in Tables /\ g[2] \in 0..(NRows[g[1]] - 1)
  /\ indexPending \in BOOLEAN /\ decodes \in 0..MaxDecodes

\* When a group of nodes is computed, every byte of the rows its gathers read
\* holds the file's data, or the table is read through its mapping: no gather
\* reads reserved memory that was never filled, or was given back.
RowsInPlace ==
  pc = "compute" /\ ~fatal =>
    \A g \in group :
      LET t == g[1]
          first == g[2] * RowBytes[t]
      IN  Serves(t) => \A b \in first..(first + RowBytes[t] - 1) :
                         mem[<<t, b \div SlabBytes>>] = "data"

\* The bookkeeping agrees: the recency list holds the resident slabs once
\* each, resident_bytes_ is the bytes of their pages, and they hold data.
WindowAccounted ==
  /\ Range(lru) = resident /\ IsInjective(lru)
  /\ bytes = TotalBytes[resident]
  /\ \A s \in resident : mem[s] = "data" /\ Serves(s[1])

\* The window is a ceiling: only a gather that needs more on its own goes
\* over it, and then nothing another gather read is resident.
OneGather == \A r, s \in resident : stamp[r] = stamp[s]
WindowBound == bytes <= Budget \/ OneGather
=============================================================================
