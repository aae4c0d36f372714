------------------------------- MODULE FileBytes -------------------------------
(***************************************************************************)
(* Which bytes: the page and block arithmetic under everything that is read, *)
(* committed, released or handed back.  A range is the bytes from "from" up   *)
(* to "to"; a page size or a read alignment is a number g.  The state        *)
(* machines of the other modules speak of slices, slabs and tensors as units: *)
(* here is why one can be touched without the other (FileReader::read,        *)
(* ExpertStreamSource, RowStream, DenseWeights).                             *)
(***************************************************************************)
EXTENDS Integers, Sequences

Bytes(r) == r.from..(r.to - 1)
AllBytes(R) == UNION {Bytes(r) : r \in R}
Apart(q, r) == Bytes(q) \cap Bytes(r) = {}

Down(x, g) == x - (x % g)
Up(x, g) == Down(x + g - 1, g)
Least(a, b) == IF a < b THEN a ELSE b

\* The whole pages a range lies in, and the pages that lie in it.
Outward(r, g) == [from |-> Down(r.from, g), to |-> Up(r.to, g)]
Inward(r, g) == [from |-> Up(r.from, g), to |-> Down(r.to, g)]

------------------------------------------------------------------------------
(* The cache.  One projection of expert e in its layer's reserved buffer, the *)
(* pages committed for it and those its eviction returns.                     *)
Slice(e, size) == [from |-> e * size, to |-> e * size + size]
Committed(e, size, g) == Outward(Slice(e, size), g)
Evicted(e, size, g) == Inward(Slice(e, size), g)

(* A row table: slab s of the slab size, the last one short.                   *)
SlabLen(s, slab, size) == Least(slab, size - s * slab)
Slab(s, slab, size) == [from |-> s * slab, to |-> s * slab + SlabLen(s, slab, size)]
SlabPages(s, slab, size, span, g) ==
  [from |-> s * slab, to |-> s * slab + Least(Up(SlabLen(s, slab, size), g), span - s * slab)]

------------------------------------------------------------------------------
(* The dense weights of a file of n bytes: what lies between the experts, less *)
(* each tensor that is held back or served by rows.                            *)
Gaps(experts, n) ==
  {r \in [from : {0} \cup {e.to : e \in experts}, to : {n} \cup {e.from : e \in experts}] :
     r.from < r.to /\ \A e \in experts : e.to <= r.from \/ r.to <= e.from}

Pieces(r, a, b) ==
  IF b <= r.from \/ a >= r.to THEN {r}
  ELSE {q \in {[from |-> r.from, to |-> a], [from |-> b, to |-> r.to]} : q.from < q.to}
Without(R, a, b) == UNION {Pieces(r, a, b) : r \in R}

(* A mapping holds the bytes of the file from an offset on. Of a tensor's, the   *)
(* whole pages are advised, or dropped once the tensor has moved.               *)
Holds(map, off) == map.offset <= off /\ off < map.offset + (map.end - map.start)
AddressOf(map, off) == map.start + (off - map.offset)
WholePages(map, t, page) ==
  Inward([from |-> AddressOf(map, t.from), to |-> AddressOf(map, t.from) + (t.to - t.from)], page)
GivenBack(map, t, page) == WholePages(map, t, page)

(* The residency sensor probes points spread evenly over the dense bytes, its    *)
(* k-th walking the ranges, or the buffers: sum[i] is what the first i hold.      *)
Sums(sum, ranges) ==
  /\ sum \in [0..Len(ranges) -> Nat] /\ sum[0] = 0
  /\ \A i \in 1..Len(ranges) : sum[i] = sum[i - 1] + (ranges[i].to - ranges[i].from)
Target(total, k, samples) == (total * k) \div samples
Reaches(sum, target, i) == sum[i - 1] <= target /\ target < sum[i]
Probe(ranges, sum, target) ==
  LET i == CHOOSE j \in 1..Len(ranges) : Reaches(sum, target, j)
  IN  ranges[i].from + (target - sum[i - 1])

------------------------------------------------------------------------------
(* A reader.  What it opened, and how it will read: direct was asked for; the  *)
(* platform opens it so or not, and wants direct reads aligned or not; a block   *)
(* can be read both ways or not, and is the same or not.                       *)
Opened(direct, opens, aligns, probes, same, size, g) ==
  LET verifies == direct /\ opens /\ aligns /\ size >= g /\ probes
      keeps    == direct /\ opens /\ (verifies => same)
  IN  [direct |-> keeps, aligned |-> keeps /\ aligns]

\* Read of n bytes at off of a file of so many bytes: refused outside the
\* file; else the blocks around it, whole ones through the direct descriptor,
\* what is left at the end of the file through the buffered one.
Refused(off, n, size) == off > size \/ n > size - off
Window(off, n, g) == Outward([from |-> off, to |-> off + n], g)
ReadEnd(off, n, size, g) == IF size # 0 /\ Window(off, n, g).to > size THEN size ELSE Window(off, n, g).to
Bulk(off, n, size, g) == [from |-> Window(off, n, g).from, to |-> Down(ReadEnd(off, n, size, g), g)]
LastBlock(off, n, size, g) == [from |-> Bulk(off, n, size, g).to, to |-> ReadEnd(off, n, size, g)]

\* The lane's bounce, grown where it is too small. One that could not be
\* allocated is empty.
Grown(bounce, need) == IF bounce < need THEN {need, 0} ELSE {bounce}
WindowLen(off, n, g) == Window(off, n, g).to - Window(off, n, g).from

\* What the bounce holds after both loops, "direct" and "buffered" being the
\* file as each descriptor shows it, and what is copied out of it.
Filled(off, n, size, g, direct, buffered) ==
  LET bulk == Bulk(off, n, size, g)
      tail == LastBlock(off, n, size, g)
  IN  [i \in 0..(ReadEnd(off, n, size, g) - bulk.from - 1) |->
         IF bulk.from + i \in Bytes(tail) THEN buffered[bulk.from + i] ELSE direct[bulk.from + i]]
Aligned(off, n, size, g, direct, buffered) ==
  [i \in 0..(n - 1) |->
     Filled(off, n, size, g, direct, buffered)[off - Bulk(off, n, size, g).from + i]]

\* Without alignment, straight into the caller's memory.
Plain(off, n, file) == [i \in 0..(n - 1) |-> file[off + i]]
Read(opened, off, n, size, g, direct, buffered) ==
  IF opened.aligned THEN Aligned(off, n, size, g, direct, buffered) ELSE Plain(off, n, direct)
=============================================================================
