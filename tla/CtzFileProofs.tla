--------------------------- MODULE CtzFileProofs ---------------------------
(***************************************************************************)
(* Proofs about the contents of a file: for every size of a block, of the  *)
(* device and of the file, what the last commit published reads back       *)
(* unchanged, what a handle has staged reads back, no walk of a chain in   *)
(* use comes to the metadata pair, and a sync makes the staged contents    *)
(* the committed ones.                                                     *)
(***************************************************************************)
EXTENDS CtzFileLemmas

----------------------------------------------------------------------------
(* The inductive invariant.                                                *)

\* Chain ch holds the text, away from the pair P and known to the cache k.
Good(c, P, k, f, ch, text) ==
    /\ IsChain(c, f, ch) /\ Len(text) = f.size /\ Reads(c, ch, 0, f.size, text)
    /\ ToSet(ch) \cap P = {}
    /\ k # None => ToSet(ch) \subseteq k

\* The cells behind the end of f are not those of the committed chain e, and they
\* are erased unless f ends in a committed block or the device has failed before.
TailFree(c, f, e, ent, failed) ==
    f.size > 0 =>
       IF f.head \in ToSet(e)
       THEN EndOf(f.size) = BlockSize \/ (f.head = ent.head /\ EndOf(ent.size) <= EndOf(f.size))
       ELSE failed >= 1 \/ \A x \in EndOf(f.size) + 1 .. BlockSize : c[f.head][x] = FF

\* The tail of the staged chain was copied, and the original is in no chain
\* that the allocator knows of.
Exposed(e) ==
    /\ pc \in {"write", "fill", "sync"} /\ job.call # "shrink"
    /\ job.tail # job.src /\ job.src \notin ToSet(e)

\* The data of the call is what its text adds to the file.
Wanted == \A o \in job.f.size + 1 .. job.size : job.want[o] = job.data[o - job.f.size]

\* The last block of w has room for the data, or is the copy that holds it.
TailPart(e, w) ==
    IF job.tail = job.src
    THEN /\ TailFree(cells, job.f, e, entry, faults)
         /\ pc # "cow" => Clean(job.tail, job.off, job.fill)
    ELSE /\ job.tail \notin ToSet(e)
         /\ Reads(cells, w, job.f.size, job.f.size + job.fill, job.want)
         /\ \A x \in job.off + job.fill + 1 .. BlockSize : cells[job.tail][x] = FF

\* A copy is made of a committed block, or after the device has failed.
CopyPart(e) == pc = "cow" \/ job.tail # job.src => job.src \in ToSet(e) \/ faults >= 1

\* Nobody else has the new blocks.
NewPart(e, w) ==
    /\ Distinct(job.new)
    /\ ToSet(job.new) \cap (ToSet(w) \cup ToSet(e) \cup PairBlocks) = {}
    /\ cache # None => ToSet(job.new) \subseteq cache

\* The first m blocks of the chain that is built hold their pointers and their data.
Written(c, w, m) ==
    LET u == w \o job.new
    IN  /\ Linked(c, u, m)
        /\ \A o \in job.f.size + job.fill .. job.size - 1 :
              Idx(o) < m => c[u[Idx(o) + 1]][Pos(o) + 1] = job.want[o + 1]

\* So do those the call has come to, and nothing lies behind the end of the last one.
BuiltPart(w) ==
    /\ Written(cells, w, BlockCount(job.f.size) + job.done)
    /\ job.new # <<>> /\ job.done = Len(job.new) =>
          \A x \in EndOf(job.size) + 1 .. BlockSize : cells[job.new[Len(job.new)]][x] = FF

\* What a call that extends the file has built: w is the chain it keeps.
Building(e, s, w) ==
    /\ Good(cells, PairBlocks, cache, Base, w, SubSeq(job.want, 1, job.f.size))
    /\ Wanted /\ TailPart(e, w) /\ CopyPart(e)
    /\ handle # None => ToSet(s) \ {job.src} \subseteq ToSet(w)
    /\ NewPart(e, w) /\ BuiltPart(w)

Work(e, s, w) ==
    /\ pc = "commit" =>
          /\ Good(cells, PairBlocks, cache, job.f, w, job.want)
          /\ TailFree(cells, job.f, e, entry, faults)
    /\ pc = "sync" =>
          /\ Good(cells, PairBlocks, cache, Result, w, job.want)
          /\ TailFree(cells, Result, e, entry, faults)
          /\ Exposed(e) => faults >= 1
    /\ pc \in {"cow", "grow", "write", "fill"} /\ job.call # "shrink" => Building(e, s, w)
    /\ pc = "cow" /\ job.call = "shrink" =>
          /\ job.src = s[BlockCount(job.size)] /\ job.own = ToSet(s)
          /\ job.want = SubSeq(staged, 1, job.size)

Kept(e, s, w) ==
    /\ Good(cells, PairBlocks, cache, entry, e, durable)
    /\ cache # None => PairBlocks \subseteq cache
    /\ handle # None /\ ~Exposed(e) =>
          /\ Good(cells, PairBlocks, cache, Staged, s, staged)
          /\ TailFree(cells, Staged, e, entry, IF pc = "sync" THEN 1 ELSE faults)
    /\ Work(e, s, w)

IInv ==
    /\ JobOK
    /\ handle # None => handle.parent = PairBlocks /\ "open" \in Calls
    /\ \E e, s, w : Kept(e, s, w)

----------------------------------------------------------------------------
(* What keeps a chain.                                                     *)

LEMMA GoodFrame ==
    ASSUME NEW c, NEW d, NEW P, NEW Q, NEW k, NEW l, NEW f, f.size \in 0 .. MaxSize, NEW ch, NEW text,
           Good(c, P, k, f, ch, text), Spared(c, d, f, ch), ToSet(ch) \cap Q = {},
           l # None => ToSet(ch) \subseteq l
    PROVE  Good(d, Q, l, f, ch, text)
<1>1. IsChain(d, f, ch) /\ Reads(d, ch, 0, f.size, text)
  BY ChainFrame DEF Good
<1> QED BY <1>1 DEF Good

LEMMA TailFrame ==
    ASSUME NEW c, NEW d, NEW f, NEW e, NEW ent, NEW m \in Nat, NEW n \in Nat, m <= n,
           TailFree(c, f, e, ent, m),
           n >= 1 \/ \A x \in EndOf(f.size) + 1 .. BlockSize : d[f.head][x] = c[f.head][x]
    PROVE  TailFree(d, f, e, ent, n)
<1> SUFFICES ASSUME f.size > 0, f.head \notin ToSet(e), n < 1
             PROVE  \A x \in EndOf(f.size) + 1 .. BlockSize : d[f.head][x] = FF
  BY DEF TailFree
<1>1. m < 1
  OBVIOUS
<1> QED BY <1>1 DEF TailFree

LEMMA Unwritten ==
    ASSUME NEW c, NEW d, NEW f, NEW ch, \A b \in ToSet(ch) : d[b] = c[b]
    PROVE  Spared(c, d, f, ch)
  BY DEF Spared

LEMMA EmptyGood ==
    ASSUME NEW c, NEW P, NEW k, NEW f, f.size = 0, NEW e, NEW ent, NEW m
    PROVE  Good(c, P, k, f, <<>>, <<>>) /\ TailFree(c, f, e, ent, m)
<1>1. Len(<<>>) = BlockCount(f.size) /\ Len(<<>>) = 0
  BY Ends
<1>2. ToSet(<<>>) = {}
  BY DEF ToSet
<1>3. IsChain(c, f, <<>>)
  <2>1. <<>> \in Seq(Blocks) /\ Distinct(<<>>) /\ Linked(c, <<>>, 0)
    BY DEF Distinct, Linked
  <2> QED BY <1>1, <2>1 DEF IsChain
<1>4. Reads(c, <<>>, 0, f.size, <<>>)
  BY DEF Reads
<1> QED BY <1>1, <1>2, <1>3, <1>4 DEF Good, TailFree

LEMMA CommittedTail ==
    ASSUME NEW c, NEW f, f.size \in 0 .. MaxSize, NEW e, IsChain(c, f, e), NEW m
    PROVE  TailFree(c, f, e, f, m)
<1>1. f.size > 0 => f.head \in ToSet(e) /\ EndOf(f.size) \in 1 .. BlockSize
  BY ChainNumbers
<1>2. f.size > 0 => EndOf(f.size) <= EndOf(f.size)
  BY <1>1, Constants
<1> QED BY <1>1, <1>2 DEF TailFree

LEMMA ToIdle ==
    ASSUME JobOK', pc' = "idle", NEW e, NEW s,
           Good(cells', PairBlocks', cache', entry', e, durable'),
           cache' # None => PairBlocks' \subseteq cache',
           handle' # None => /\ handle'.parent = PairBlocks' /\ "open" \in Calls
                             /\ Good(cells', PairBlocks', cache', Staged', s, staged')
                             /\ TailFree(cells', Staged', e, entry', faults')
    PROVE  IInv'
<1>1. Kept(e, s, <<>>)'
  BY DEF Kept, Work, Exposed
<1> QED BY <1>1 DEF IInv

\* What the invariant says first.
LEMMA Facts ==
    ASSUME IInv
    PROVE  /\ JobOK /\ TypeOK /\ RestOK /\ JobTypes /\ Lengths
           /\ entry.size \in 0 .. MaxSize /\ faults \in Nat /\ MaxFaults \in Nat
           /\ PairBlocks \subseteq Blocks
           /\ handle # None => /\ handle.parent = PairBlocks /\ "open" \in Calls
                               /\ Staged \in Files /\ Staged.size \in 0 .. MaxSize
                               /\ Staged.size = handle.size /\ Staged.head = handle.head
<1>1. JobOK /\ TypeOK /\ RestOK /\ JobTypes /\ Lengths
  BY TypeParts DEF IInv, JobOK
<1>2. handle # None => handle.parent = PairBlocks /\ "open" \in Calls
  BY DEF IInv
<1>3. handle # None => Staged \in Files /\ Staged.size \in 0 .. MaxSize
                       /\ Staged.size = handle.size /\ Staged.head = handle.head
  BY <1>1, StagedType
<1>4. entry.size \in 0 .. MaxSize /\ faults \in Nat /\ MaxFaults \in Nat
  BY <1>1, Constants DEF RestOK, Files
<1> QED BY <1>1, <1>2, <1>3, <1>4, PairType

LEMMA OpenKept ==
    ASSUME IInv, NEW truncate \in BOOLEAN, Open(truncate)
    PROVE  IInv'
<1>1. PICK e, s, w : Kept(e, s, w)
  BY DEF IInv
<1>2. /\ JobOK' /\ pc' = "idle"
  BY Facts, OpenTypes DEF Open, Begin
<1>3. /\ UNCHANGED <<cells, pair, entry, cache, durable, faults>> /\ PairBlocks' = PairBlocks
      /\ "open" \in Calls
  BY DEF Open, Begin, PairBlocks
<1>4. /\ Good(cells, PairBlocks, cache, entry, e, durable)
      /\ cache # None => PairBlocks \subseteq cache
  BY <1>1 DEF Kept
<1>5. handle'.parent = PairBlocks
  BY DEF Open
<1>6. CASE truncate
  <2>1. Staged'.size = 0 /\ staged' = <<>>
    BY <1>6 DEF Open, Staged
  <2>2. Good(cells', PairBlocks', cache', Staged', <<>>, staged')
        /\ TailFree(cells', Staged', e, entry', faults')
    BY <2>1, EmptyGood
  <2> QED BY <1>2, <1>3, <1>4, <1>5, <2>2, ToIdle
<1>7. CASE ~truncate
  <2>1. Staged' = entry /\ staged' = durable
    <3>1. entry = [head |-> entry.head, size |-> entry.size]
      BY Facts DEF RestOK, Files
    <3> QED BY <1>7, <3>1 DEF Open, Staged
  <2>2. TailFree(cells, entry, e, entry, faults)
    BY <1>4, Facts, CommittedTail DEF Good
  <2> QED BY <1>2, <1>3, <1>4, <1>5, <2>1, <2>2, ToIdle
<1> QED BY <1>6, <1>7

LEMMA HandleKept ==
    ASSUME IInv, Clear \/ CleanSync \/ Drop
    PROVE  IInv'
<1>1. PICK e, s, w : Kept(e, s, w)
  BY DEF IInv
<1>2. JobOK' /\ pc = "idle" /\ pc' = "idle"
  BY Facts, HandleTypes DEF Clear, CleanSync, Drop, Begin
<1>3. /\ UNCHANGED <<cells, pair, entry, cache, durable, faults>> /\ PairBlocks' = PairBlocks
      /\ handle # None
  BY DEF Clear, CleanSync, Drop, Begin, PairBlocks
<1>4. /\ Good(cells, PairBlocks, cache, entry, e, durable)
      /\ cache # None => PairBlocks \subseteq cache
      /\ Good(cells, PairBlocks, cache, Staged, s, staged)
      /\ TailFree(cells, Staged, e, entry, faults)
  BY <1>1, <1>2, <1>3 DEF Kept, Exposed
<1>5. CASE Clear
  <2>1. Staged'.size = 0 /\ staged' = <<>> /\ handle'.parent = PairBlocks
    <3>1. handle \in Handles /\ handle.parent = PairBlocks
      BY <1>3, Facts DEF RestOK
    <3>2. handle' = [handle EXCEPT !.head = None, !.size = 0, !.dirty = TRUE] /\ staged' = <<>>
      BY <1>5 DEF Clear
    <3> QED BY <3>1, <3>2 DEF Handles, Staged
  <2>2. Good(cells', PairBlocks', cache', Staged', <<>>, staged')
        /\ TailFree(cells', Staged', e, entry', faults')
    BY <2>1, EmptyGood
  <2> QED BY <1>2, <1>3, <1>4, <2>1, <2>2, Facts, ToIdle
<1>6. CASE CleanSync
  <2>1. handle' = handle /\ staged' = staged /\ Staged' = Staged
    BY <1>6 DEF CleanSync, Staged
  <2> QED BY <1>2, <1>3, <1>4, <2>1, Facts, ToIdle
<1>7. CASE Drop
  <2>1. handle' = None
    BY <1>7 DEF Drop
  <2> QED BY <1>2, <1>3, <1>4, <2>1, ToIdle
<1> QED BY <1>5, <1>6, <1>7

LEMMA SyncKept ==
    ASSUME IInv, NEW close \in BOOLEAN, Sync(close)
    PROVE  IInv'
<1>1. PICK e, s, w : Kept(e, s, w)
  BY DEF IInv
<1>2. /\ JobOK' /\ pc = "idle" /\ pc' = "commit"
      /\ UNCHANGED <<cells, pair, entry, cache, durable, faults, handle, staged>>
      /\ handle # None /\ PairBlocks' = PairBlocks /\ Staged' = Staged
      /\ job' = [call |-> IF close THEN "close" ELSE "sync", f |-> Staged, want |-> staged]
  BY Facts, SyncTypes DEF Sync, PairBlocks, Staged
<1>3. job'.f = Staged /\ job'.want = staged
  BY <1>2
<1>4. /\ Good(cells, PairBlocks, cache, entry, e, durable)
      /\ cache # None => PairBlocks \subseteq cache
      /\ Good(cells, PairBlocks, cache, Staged, s, staged)
      /\ TailFree(cells, Staged, e, entry, faults)
  BY <1>1, <1>2 DEF Kept, Exposed
<1>5. Kept(e, s, s)'
  BY <1>2, <1>3, <1>4 DEF Kept, Work, Exposed
<1> QED BY <1>2, <1>5, Facts DEF IInv

LEMMA GoodPrefix ==
    ASSUME NEW c, NEW P, NEW k, NEW f, f.size \in 0 .. MaxSize, NEW ch, NEW text \in Text,
           Good(c, P, k, f, ch, text), NEW size \in 1 .. f.size,
           NEW g, g.size = size, g.head = ch[BlockCount(size)]
    PROVE  Good(c, P, k, g, SubSeq(ch, 1, BlockCount(size)), SubSeq(text, 1, size))
<1>1. IsChain(c, f, ch) /\ Len(text) = f.size /\ Reads(c, ch, 0, f.size, text)
      /\ ToSet(ch) \cap P = {} /\ (k # None => ToSet(ch) \subseteq k)
  BY DEF Good
<1>2. PrefixOf(c, ch, text, size, g)
  BY <1>1, ChainPrefix
<1> DEFINE p == SubSeq(ch, 1, BlockCount(size))
           t == SubSeq(text, 1, size)
<1>3. /\ IsChain(c, g, p) /\ Reads(c, p, 0, size, t) /\ ToSet(p) \subseteq ToSet(ch)
      /\ Len(t) = size
  BY <1>2 DEF PrefixOf
<1> HIDE DEF p, t
<1>4. Good(c, P, k, g, p, t)
  BY <1>1, <1>3 DEF Good
<1> QED BY <1>4 DEF p, t

LEMMA ShrinkKept ==
    ASSUME IInv, NEW size \in Sizes, Shrink(size)
    PROVE  IInv'
<1>1. PICK e, s, w : Kept(e, s, w)
  BY DEF IInv
<1>2. /\ JobOK' /\ pc = "idle"
      /\ UNCHANGED <<cells, pair, entry, cache, durable, faults>>
      /\ handle # None /\ PairBlocks' = PairBlocks /\ size > 0 /\ size < handle.size
  BY Facts, ShrinkTypes DEF Shrink, Begin, PairBlocks
<1>3. /\ Good(cells, PairBlocks, cache, entry, e, durable)
      /\ cache # None => PairBlocks \subseteq cache
      /\ Good(cells, PairBlocks, cache, Staged, s, staged)
      /\ TailFree(cells, Staged, e, entry, faults)
  BY <1>1, <1>2 DEF Kept, Exposed
<1>4. /\ Staged.size \in 0 .. MaxSize /\ Staged.size = handle.size /\ handle \in Handles
      /\ handle.parent = PairBlocks /\ "open" \in Calls /\ staged \in Text
  BY <1>2, Facts DEF RestOK
<1>5. size \in 1 .. Staged.size /\ size \in 1 .. MaxSize
  BY <1>2, <1>4, FileAssumption
<1>6. Chain(cells, Staged) = s /\ ChainBlocks(cells, Staged) = ToSet(s)
  BY <1>3, <1>4, ChainLinked DEF Good
<1> DEFINE k == BlockCount(size)
           g == [head |-> s[k], size |-> size]
           p == SubSeq(s, 1, k)
           t == SubSeq(staged, 1, size)
<1>7. CASE EndOf(size) = BlockSize
  <2>1. handle' = [handle EXCEPT !.head = s[k], !.size = size, !.dirty = TRUE]
        /\ staged' = t /\ pc' = "idle"
    <3>1. ~(EndOf(size) < BlockSize)
      BY <1>7, Constants
    <3> QED BY <1>2, <1>6, <3>1 DEF Shrink
  <2>2. Staged' = g /\ handle'.parent = PairBlocks
    BY <1>4, <2>1 DEF Staged, Handles
  <2>3. g.size = size /\ g.head = s[k]
    OBVIOUS
  <2> HIDE DEF g
  <2>4. Good(cells, PairBlocks, cache, g, SubSeq(s, 1, BlockCount(size)), SubSeq(staged, 1, size))
    BY <1>3, <1>4, <1>5, <2>3, GoodPrefix
  <2> HIDE DEF p, t
  <2>5. Good(cells, PairBlocks, cache, g, p, t)
    BY <2>4 DEF p, t
  <2>6. TailFree(cells, g, e, entry, faults)
    <3>1. EndOf(g.size) = BlockSize /\ \A x \in EndOf(g.size) + 1 .. BlockSize : FALSE
      BY <1>7, <2>3, Constants
    <3> QED BY <3>1 DEF TailFree
  <2> QED BY <1>2, <1>3, <1>4, <2>1, <2>2, <2>5, <2>6, ToIdle
<1>8. CASE EndOf(size) # BlockSize
  <2>1. /\ job'.call = "shrink" /\ job'.src = s[k] /\ job'.own = ToSet(s) /\ job'.want = t
        /\ job'.size = size /\ pc' = "cow" /\ handle' = handle /\ staged' = staged /\ Staged' = Staged
    BY <1>6, <1>8 DEF Shrink, Staged
  <2> HIDE DEF t
  <2>2. Kept(e, s, w)'
    BY <1>2, <1>3, <2>1 DEF Kept, Work, Exposed, t
  <2> QED BY <1>2, <1>4, <2>1, <2>2 DEF IInv
<1> QED BY <1>7, <1>8

----------------------------------------------------------------------------
(* A call that extends the file begins.                                    *)

\* What the allocator hands out is no block of S, and the cache it leaves knows S.
Spares(a, S) ==
    /\ ToSet(a.blocks) \cap S = {} /\ S \subseteq a.cache /\ ToSet(a.blocks) \subseteq a.cache
    /\ Distinct(a.blocks)

LEMMA AllotSpares ==
    ASSUME NEW a, NEW n, NEW ex, NEW owned, NEW raw \in BOOLEAN, Allotted(a, n, ex, owned, raw),
           a.blocks # <<>>, NEW S, cache # None => S \subseteq cache,
           \A b \in S : \/ b \in PairBlocks \cup ChainBlocks(cells, owned) \cup ex
                        \/ ~raw /\ b \in ChainBlocks(cells, entry)
    PROVE  Spares(a, S)
<1>1. PICK pool : /\ \/ cache # None /\ pool = cache
                     \/ /\ PairBlocks \subseteq pool /\ ChainBlocks(cells, owned) \subseteq pool
                        /\ ~raw => ChainBlocks(cells, entry) \subseteq pool
                  /\ Taken(a.blocks, Blocks \ (pool \cup ex), n)
                  /\ a.cache = pool \cup ex \cup ToSet(a.blocks)
  BY DEF Allotted
<1>2. S \subseteq pool \cup ex
  BY <1>1
<1>3. ToSet(a.blocks) \subseteq Blocks \ (pool \cup ex) /\ Distinct(a.blocks)
  <2> DEFINE F == Blocks \ (pool \cup ex)
  <2>1. a.blocks \in Seq(F) /\ Distinct(a.blocks)
    BY <1>1 DEF Taken
  <2> HIDE DEF F
  <2>2. ToSet(a.blocks) \subseteq F
    BY <2>1, ToSetIs
  <2> QED BY <2>1, <2>2 DEF F
<1> QED BY <1>1, <1>2, <1>3 DEF Spares

\* The text of a chain, cell by cell.
LEMMA GoodText ==
    ASSUME NEW c, NEW P, NEW k, NEW f, f.size \in 0 .. MaxSize, NEW ch, NEW text,
           Good(c, P, k, f, ch, text), NEW t, Len(t) = f.size,
           \A o \in 1 .. f.size : t[o] = text[o]
    PROVE  Good(c, P, k, f, ch, t)
<1>1. Reads(c, ch, 0, f.size, t)
  <2> SUFFICES ASSUME NEW o \in 0 .. f.size - 1
               PROVE  c[ch[Idx(o) + 1]][Pos(o) + 1] = t[o + 1]
    BY DEF Reads
  <2>1. o + 1 \in 1 .. f.size
    BY Constants
  <2>2. c[ch[Idx(o) + 1]][Pos(o) + 1] = text[o + 1]
    BY DEF Good, Reads
  <2> QED BY <2>1, <2>2
<1> QED BY <1>1 DEF Good

\* The text want is the first n bytes of text, and then data.
Adds(want, n, text, data) ==
    /\ Len(want) = n + Len(data)
    /\ \A o \in 1 .. n : want[o] = text[o]
    /\ \A o \in n + 1 .. n + Len(data) : want[o] = data[o - n]

\* The first device write is still to come: Building holds for the chain the call extends.
LEMMA PlanBuilds ==
    ASSUME TypeOK, NEW call \in {"write", "zero", "append"}, NEW f \in Files,
           (f.size = 0) <=> (f.head = None), NEW data \in Text, data # <<>>, NEW more \in Nat,
           NEW want \in Text, NEW text, f.size + Len(data) + more <= MaxSize,
           call # "zero" => more = 0, Plan(call, f, data, more, want),
           Adds(want, f.size, text, data),
           UNCHANGED <<cells, pair, entry, faults>>, NEW e, NEW s, NEW ch,
           Good(cells, PairBlocks, cache', f, ch, text), TailFree(cells, f, e, entry, faults),
           handle' # None => s = ch
    PROVE  Building(e, s, ch)' /\ ~Exposed(e)' /\ Work(e, s, ch)'
<1> USE DEF Adds
<1>1. /\ job' \in Writes /\ pc' \in {"cow", "grow", "fill"}
      /\ job'.call = call /\ job'.f = f /\ job'.data = data /\ job'.want = want
      /\ job'.tail = job'.src /\ job'.new = <<>>
      /\ pc' = "cow" <=> job'.fill > 0 /\ ~Clean(f.head, job'.off, job'.fill)
      /\ ExtendOK'
  BY PlanOK
<1>2. /\ job'.size = f.size + Len(data) /\ job'.src = f.head /\ job'.tail = f.head /\ job'.done = 0
      /\ job'.fill = IF Len(data) < Room(f.size) THEN Len(data) ELSE Room(f.size)
      /\ f.size # 0 => job'.off = EndOf(f.size)
  BY <1>1 DEF ExtendOK, Plan
<1>3. /\ f.size \in 0 .. MaxSize /\ f.size \in Nat /\ Len(data) \in Nat /\ Room(f.size) \in Nat
      /\ Room(f.size) \in 0 .. BlockSize
      /\ BlockCount(f.size) \in Nat /\ MaxSize \in Nat /\ Len(data) > 0 /\ f.size + Len(data) \in 0 .. MaxSize
      /\ f.size + Len(data) \in Nat
  <2>1. f.size \in 0 .. MaxSize /\ MaxSize \in Nat
    BY Constants DEF Files
  <2>2. Room(f.size) \in 0 .. BlockSize /\ BlockCount(f.size) \in 0 .. f.size
    BY <2>1, RoomIs
  <2>3. Len(data) \in Nat /\ Len(data) > 0
    BY DEF Text
  <2> QED BY <2>1, <2>2, <2>3, Constants
<1>4. PairBlocks' = PairBlocks /\ Base' = f
  <2>1. f = [head |-> f.head, size |-> f.size]
    BY DEF Files
  <2>2. f.size = 0 => f = Empty
    BY <2>1 DEF Empty
  <2>3. Base' = IF job'.f.size = 0 THEN Empty ELSE [head |-> job'.tail, size |-> job'.f.size]
    BY DEF Base
  <2>4. Base' = f
    BY <1>1, <1>2, <2>1, <2>2, <2>3
  <2> QED BY <2>4 DEF PairBlocks
<1>5. Good(cells', PairBlocks', cache', Base', ch, SubSeq(job'.want, 1, job'.f.size))
  <2> DEFINE t == SubSeq(want, 1, f.size)
  <2>1. Len(t) = f.size /\ \A o \in 1 .. f.size : t[o] = want[o]
    BY <1>3 DEF Text
  <2> HIDE DEF t
  <2>2. Good(cells, PairBlocks, cache', f, ch, t)
    BY <1>3, <2>1, GoodText
  <2> QED BY <1>1, <1>4, <2>2 DEF t
<1>6. Wanted'
  BY <1>1, <1>2 DEF Wanted
<1>7. TailPart(e, ch)'
  <2>2. job'.fill \in Nat
    BY <1>2, <1>3
  <2>3. job'.fill = 0 => Clean(f.head, job'.off, job'.fill)
    <3>1. job'.off \in Nat
      BY <1>1, Constants DEF Writes
    <3> QED BY <3>1 DEF Clean
  <2>4. pc' # "cow" => Clean(f.head, job'.off, job'.fill)
    BY <1>1, <2>2, <2>3
  <2>5. pc' # "cow" => \A x \in job'.off + 1 .. job'.off + job'.fill : cells'[f.head][x] = FF
    BY <2>4 DEF Clean
  <2>6. pc' # "cow" => Clean(job.tail, job.off, job.fill)'
    BY <1>2, <2>5 DEF Clean
  <2>7. TailFree(cells', job'.f, e, entry', faults')
    BY <1>1
  <2> QED BY <1>1, <2>6, <2>7 DEF TailPart
<1>8. CopyPart(e)'
  <2> SUFFICES ASSUME pc' = "cow", f.head \notin ToSet(e), ~(faults >= 1) PROVE FALSE
    BY <1>1, <1>2 DEF CopyPart
  <2>1. job'.fill > 0 /\ ~Clean(f.head, job'.off, job'.fill)
    BY <1>1
  <2>2. f.size > 0
    BY <1>2, <1>3, <2>1 DEF Room
  <2>3. \A x \in EndOf(f.size) + 1 .. BlockSize : cells[f.head][x] = FF
    BY <2>2 DEF TailFree
  <2>4. PICK x \in job'.off + 1 .. job'.off + job'.fill : cells[f.head][x] # FF
    BY <2>1 DEF Clean
  <2>5. EndOf(f.size) \in 1 .. BlockSize /\ Room(f.size) = BlockSize - EndOf(f.size)
    <3>1. f.size \in 1 .. MaxSize
      BY <1>3, <2>2
    <3>2. EndOf(f.size) \in 1 .. BlockSize
      BY <3>1, Ends
    <3> QED BY <2>2, <3>2 DEF Room
  <2>6. job'.off = EndOf(f.size) /\ job'.fill <= Room(f.size) /\ job'.fill \in Nat
    BY <1>2, <1>3, <2>2
  <2>7. x \in EndOf(f.size) + 1 .. BlockSize
    BY <2>4, <2>5, <2>6, Constants
  <2> QED BY <2>3, <2>4, <2>7
<1>9. handle' # None => ToSet(s) \ {job'.src} \subseteq ToSet(ch)
  OBVIOUS
<1>10. NewPart(e, ch)'
  <2>1. ToSet(<<>>) = {} /\ Distinct(<<>>)
    BY DEF ToSet, Distinct
  <2> QED BY <1>1, <2>1 DEF NewPart
<1>11. BuiltPart(ch)'
  <2>1. ch \in Seq(Blocks) /\ Len(ch) = BlockCount(f.size) /\ Linked(cells, ch, Len(ch))
    BY DEF Good, IsChain
  <2>2. ch \o job'.new = ch /\ BlockCount(f.size) + job'.done = BlockCount(f.size)
    BY <1>1, <1>2, <1>3, <2>1
  <2>3. ASSUME NEW o \in f.size + job'.fill .. job'.size - 1 PROVE ~(Idx(o) < BlockCount(f.size))
    <3>1. o \in f.size .. (f.size + Len(data)) - 1 /\ o - f.size >= job'.fill /\ o - f.size < Len(data)
      BY <1>2, <1>3
    <3>2. o - f.size >= Room(f.size) /\ f.size < f.size + Len(data)
      BY <1>2, <1>3, <3>1
    <3>3. Idx(o) >= BlockCount(f.size)
      BY <1>3, <3>1, <3>2, Grows
    <3>4. Idx(o) \in Nat
      BY <1>3, <3>1, Place
    <3> QED BY <1>3, <3>3, <3>4
  <2> QED BY <1>1, <2>1, <2>2, <2>3 DEF BuiltPart, Written
<1>12. Building(e, s, ch)'
  BY <1>5, <1>6, <1>7, <1>8, <1>9, <1>10, <1>11 DEF Building
<1>13. ~Exposed(e)'
  BY <1>1 DEF Exposed
<1>14. Work(e, s, ch)'
  BY <1>1, <1>12 DEF Work
<1> QED BY <1>12, <1>13, <1>14

LEMMA PlanKept ==
    ASSUME TypeOK, JobOK', NEW call \in {"write", "zero", "append"}, NEW f \in Files,
           (f.size = 0) <=> (f.head = None), NEW data \in Text, data # <<>>, NEW more \in Nat,
           NEW want \in Text, NEW text, f.size + Len(data) + more <= MaxSize,
           call # "zero" => more = 0, Plan(call, f, data, more, want),
           Adds(want, f.size, text, data),
           UNCHANGED <<cells, pair, entry, durable, faults>>, NEW e, NEW ch,
           Good(cells, PairBlocks, cache', f, ch, text), TailFree(cells, f, e, entry, faults),
           Good(cells, PairBlocks, cache', entry, e, durable),
           cache' # None => PairBlocks \subseteq cache',
           handle' # None => /\ f = Staged' /\ text = staged'
                             /\ handle'.parent = PairBlocks /\ "open" \in Calls
    PROVE  IInv'
<1>1. Work(e, ch, ch)' /\ ~Exposed(e)'
  BY PlanBuilds
<1>2. PairBlocks' = PairBlocks
  BY DEF PairBlocks
<1>3. pc' # "sync"
  BY DEF Plan
<1>4. Kept(e, ch, ch)'
  BY <1>1, <1>2, <1>3 DEF Kept
<1> QED BY <1>2, <1>4 DEF IInv

LEMMA Joined ==
    ASSUME NEW text \in Text, NEW data \in Text
    PROVE  text \o data \in Text /\ Adds(text \o data, Len(text), text, data)
  BY DEF Text, Adds

LEMMA EmptyFile ==
    /\ Empty \in Files /\ Empty.size = 0 /\ Empty.head = None
    /\ ((Empty.size = 0) <=> (Empty.head = None)) /\ <<>> \in Text
  BY Constants DEF Files, Empty, Text

LEMMA WriteKept ==
    ASSUME IInv, NEW len \in Lens, NEW data \in Data(len),
           handle # None => handle.size + len <= MaxSize,
           handle = None => entry.size + len <= MaxSize,
           Write(data) \/ AppendPath(data) \/ Rewrite(data)
    PROVE  IInv'
<1>1. PICK e, s, w : Kept(e, s, w)
  BY DEF IInv
<1>2. JobOK' /\ TypeOK /\ RestOK /\ Lengths
  BY Facts, WriteTypes
<1>3. /\ UNCHANGED <<cells, pair, entry, durable, faults, cache, handle, staged>>
      /\ pc = "idle" /\ ops < MaxOps
  BY <1>2, Begins DEF Write, AppendPath, Rewrite
<1>4. data \in Text /\ Len(data) = len /\ data # <<>> /\ len \in Nat
  BY <1>2, <1>3, DataText
<1>5. /\ Good(cells, PairBlocks, cache, entry, e, durable)
      /\ cache # None => PairBlocks \subseteq cache
      /\ handle # None => /\ Good(cells, PairBlocks, cache, Staged, s, staged)
                          /\ TailFree(cells, Staged, e, entry, faults)
  BY <1>1, <1>3 DEF Kept, Exposed
<1>6. CASE Write(data)
  <2>1. handle # None /\ Plan("write", Staged, data, 0, staged \o data)
    BY <1>6 DEF Write
  <2>2. /\ Staged \in Files /\ ((Staged.size = 0) <=> (Staged.head = None))
        /\ Staged.size + Len(data) + 0 <= MaxSize /\ Staged' = Staged
        /\ Staged.size = Len(staged) /\ staged \in Text
        /\ handle.parent = PairBlocks /\ "open" \in Calls
    <3>1. Staged.size = handle.size /\ handle.size \in 0 .. MaxSize
      BY <1>2, <2>1, StagedType
    <3>2. Staged.size + Len(data) + 0 <= MaxSize
      BY <1>4, <2>1, <3>1, Constants
    <3>3. Staged' = Staged
      BY <1>3 DEF Staged
    <3> QED BY <1>2, <2>1, <3>1, <3>2, <3>3, StagedType, Facts DEF RestOK, Lengths
  <2>3. staged \o data \in Text /\ Adds(staged \o data, Staged.size, staged, data)
    BY <1>4, <2>2, Joined
  <2> QED BY <1>2, <1>3, <1>4, <1>5, <2>1, <2>2, <2>3, PlanKept
<1>7. CASE AppendPath(data)
  <2>1. handle = None /\ Plan("append", entry, data, 0, durable \o data)
    BY <1>7 DEF AppendPath
  <2>2. /\ entry \in Files /\ ((entry.size = 0) <=> (entry.head = None)) /\ entry.size \in 0 .. MaxSize
        /\ entry.size = Len(durable) /\ durable \in Text
    BY <1>2, <2>1, Constants DEF RestOK, Files, Lengths
  <2>3. entry.size + Len(data) + 0 <= MaxSize
    BY <1>4, <2>1, <2>2, Constants
  <2>4. durable \o data \in Text /\ Adds(durable \o data, entry.size, durable, data)
    BY <1>4, <2>2, Joined
  <2>5. TailFree(cells, entry, e, entry, faults)
    BY <1>5, <2>2, CommittedTail DEF Good
  <2> QED BY <1>2, <1>3, <1>4, <1>5, <2>1, <2>2, <2>3, <2>4, <2>5, PlanKept
<1>8. CASE Rewrite(data)
  <2>1. handle = None /\ Plan("append", Empty, data, 0, data)
    BY <1>8 DEF Rewrite
  <2>2. len <= MaxSize
    <3>1. entry.size \in Nat /\ entry.size + len <= MaxSize
      BY <1>2, <2>1, Constants DEF RestOK, Files
    <3> QED BY <1>4, <3>1, Constants
  <2>3. Empty.size + Len(data) + 0 <= MaxSize /\ Adds(data, Empty.size, <<>>, data)
    BY <1>4, <2>2, EmptyFile, Constants DEF Adds
  <2>4. Good(cells, PairBlocks, cache, Empty, <<>>, <<>>) /\ TailFree(cells, Empty, e, entry, faults)
    BY EmptyGood, EmptyFile
  <2> QED BY <1>2, <1>3, <1>4, <1>5, <2>1, <2>3, <2>4, EmptyFile, PlanKept
<1> QED BY <1>6, <1>7, <1>8

LEMMA ZeroKept ==
    ASSUME TypeOK, JobOK', NEW f \in Files, (f.size = 0) <=> (f.head = None),
           NEW count \in Nat, count > 0, f.size + count <= MaxSize, NEW want \in Text,
           Len(want) = f.size, ZeroFill(f, count, want),
           UNCHANGED <<cells, pair, entry, durable, faults>>, NEW e, NEW ch,
           Good(cells, PairBlocks, cache', f, ch, want), TailFree(cells, f, e, entry, faults),
           Good(cells, PairBlocks, cache', entry, e, durable),
           cache' # None => PairBlocks \subseteq cache',
           handle' # None => /\ f = Staged' /\ want = staged'
                             /\ handle'.parent = PairBlocks /\ "open" \in Calls
    PROVE  IInv'
<1> DEFINE chunk == IF count < ZeroChunk THEN count ELSE ZeroChunk
           zeros == Constant(chunk, Zero)
<1>1. Plan("zero", f, zeros, count - chunk, want \o zeros)
  BY DEF ZeroFill
<1>2. /\ chunk \in 1 .. count /\ count - chunk \in Nat
      /\ zeros \in Text /\ Len(zeros) = chunk /\ zeros # <<>>
  BY Zeros
<1> HIDE DEF chunk, zeros
<1>3. want \o zeros \in Text /\ Adds(want \o zeros, f.size, want, zeros)
  BY <1>2, Joined
<1>4. f.size + Len(zeros) + (count - chunk) <= MaxSize
  BY <1>2, Constants DEF Files
<1> DEFINE more == count - chunk
           text == want \o zeros
<1>5. /\ more \in Nat /\ text \in Text /\ Adds(text, f.size, want, zeros)
      /\ f.size + Len(zeros) + more <= MaxSize /\ Plan("zero", f, zeros, more, text)
  BY <1>1, <1>2, <1>3, <1>4
<1> HIDE DEF more, text
<1> QED BY <1>2, <1>5, PlanKept

LEMMA GrowKept ==
    ASSUME IInv, NEW size \in Sizes, Grow(size)
    PROVE  IInv'
<1>1. PICK e, s, w : Kept(e, s, w)
  BY DEF IInv
<1>2. JobOK' /\ TypeOK /\ RestOK /\ Lengths
  BY Facts, GrowTypes
<1>3. /\ UNCHANGED <<cells, pair, entry, durable, faults, cache, handle, staged>>
      /\ pc = "idle" /\ handle # None /\ size > handle.size
      /\ ZeroFill(Staged, size - handle.size, staged) /\ Staged' = Staged
  BY DEF Grow, Begin, Staged
<1>4. size \in 1 .. MaxSize
  BY FileAssumption
<1>5. /\ Staged \in Files /\ ((Staged.size = 0) <=> (Staged.head = None))
      /\ size - handle.size \in Nat /\ size - handle.size > 0
      /\ Staged.size + (size - handle.size) <= MaxSize
  BY <1>2, <1>3, <1>4, StagedType, Constants
<1>6. /\ Good(cells, PairBlocks, cache, entry, e, durable)
      /\ cache # None => PairBlocks \subseteq cache
      /\ Good(cells, PairBlocks, cache, Staged, s, staged)
      /\ TailFree(cells, Staged, e, entry, faults)
  BY <1>1, <1>3 DEF Kept, Exposed
<1>7. staged \in Text /\ Len(staged) = Staged.size
  BY <1>2, <1>3, StagedType DEF RestOK, Lengths
<1>8. handle.parent = PairBlocks /\ "open" \in Calls
  BY <1>3, Facts
<1> DEFINE count == size - handle.size
<1>9. count \in Nat /\ count > 0 /\ Staged.size + count <= MaxSize /\ ZeroFill(Staged, count, staged)
  BY <1>3, <1>5
<1> HIDE DEF count
<1> QED BY <1>2, <1>3, <1>5, <1>6, <1>7, <1>8, <1>9, ZeroKept

LEMMA TruncatePathKept ==
    ASSUME IInv, NEW size \in Sizes, TruncatePath(size)
    PROVE  IInv'
<1>1. PICK e, s, w : Kept(e, s, w)
  BY DEF IInv
<1>2. JobOK' /\ TypeOK /\ RestOK /\ Lengths
  BY Facts, TruncatePathTypes
<1>3. /\ UNCHANGED <<cells, pair, entry, durable, faults, handle, staged>> /\ cache' = None
      /\ pc = "idle" /\ handle = None
  BY DEF TruncatePath, Begin
<1>4. Good(cells, PairBlocks, cache, entry, e, durable)
  BY <1>1 DEF Kept
<1>5. Content(cells, entry) = durable /\ durable \in Text
  <2>1. IsChain(cells, entry, e) /\ Len(durable) = entry.size /\ Reads(cells, e, 0, entry.size, durable)
    BY <1>4 DEF Good
  <2>2. entry.size \in 0 .. MaxSize /\ durable \in Seq(Cell) /\ durable \in Text
    BY <1>2 DEF RestOK, Files, Text
  <2> QED BY <2>1, <2>2, ContentReads
<1> DEFINE data == [i \in 1 .. size |-> IF i <= Len(durable) THEN durable[i] ELSE Zero]
<1>6. Plan("append", Empty, data, 0, data)
  BY <1>5 DEF TruncatePath
<1>7. size \in 1 .. MaxSize /\ size \in Nat
  BY FileAssumption
<1>8. data \in Text /\ Len(data) = size /\ data # <<>>
  <2>1. durable \in Seq(Cell)
    BY <1>5 DEF Text
  <2>2. \A i \in 1 .. size : (IF i <= Len(durable) THEN durable[i] ELSE Zero) \in Cell
    BY <2>1, Constants
  <2>3. data \in [1 .. size -> Cell]
    BY <2>2
  <2> HIDE DEF data
  <2> QED BY <1>7, <2>3 DEF Text
<1> HIDE DEF data
<1>9. Empty.size + Len(data) + 0 <= MaxSize /\ Adds(data, Empty.size, <<>>, data)
  BY <1>7, <1>8, EmptyFile, Constants DEF Adds
<1>10. Good(cells, PairBlocks, cache', Empty, <<>>, <<>>) /\ TailFree(cells, Empty, e, entry, faults)
  BY EmptyGood, EmptyFile
<1>11. Good(cells, PairBlocks, cache', entry, e, durable)
  BY <1>3, <1>4 DEF Good
<1> QED BY <1>2, <1>3, <1>6, <1>8, <1>9, <1>10, <1>11, EmptyFile, PlanKept

----------------------------------------------------------------------------
(* The calls that return without a new chain.                              *)

\* The circumstances in which the theorems hold.  Where handles are used, the device
\* fails once at most and the pair stays where it is; where they are not, it may fail
\* and the pair may move at any time.
Sheltered == "open" \notin Calls \/ (MaxFaults <= 1 /\ BlockCycles <= 0)

LEMMA GoodCache ==
    ASSUME NEW c, NEW P, NEW k, NEW f, NEW ch, NEW text, Good(c, P, k, f, ch, text),
           NEW l \in {None, Blocks}
    PROVE  Good(c, P, l, f, ch, text)
<1>1. ToSet(ch) \subseteq Blocks
  BY ToSetIs DEF Good, IsChain
<1> QED BY <1>1 DEF Good

\* A handle whose tail is exposed has seen the one failure already.
LEMMA NoExposure ==
    ASSUME Sheltered, IInv, NEW e, NEW s, NEW w, Kept(e, s, w), handle # None, faults < MaxFaults
    PROVE  ~Exposed(e)
<1> SUFFICES ASSUME Exposed(e) PROVE FALSE
  OBVIOUS
<1>1. MaxFaults <= 1 /\ faults \in Nat /\ MaxFaults \in Nat
  BY Facts DEF Sheltered
<1>2. pc \in {"write", "fill"} => CopyPart(e)
  BY DEF Kept, Work, Building, Exposed
<1>3. faults >= 1
  BY <1>2 DEF Kept, Work, CopyPart, Exposed
<1> QED BY <1>1, <1>3

LEMMA NoSpaceKept ==
    ASSUME IInv, NoSpace
    PROVE  IInv'
<1>1. PICK e, s, w : Kept(e, s, w)
  BY DEF IInv
<1>2. JobOK' /\ JobOK
  BY Facts, NoSpaceTypes
<1>3. /\ UNCHANGED <<cells, pair, entry, durable, faults, handle, staged>>
      /\ pc \in {"cow", "grow"} /\ pc' = "idle"
  BY DEF NoSpace, Static, Fail
<1>4. cache' \in {None, Blocks}
  <2>1. CASE pc = "cow"
    <3>1. CowAlloc.blocks = <<>> /\ cache' = CowAlloc.cache
      BY <2>1 DEF NoSpace
    <3> QED BY <1>2, <2>1, <3>1, CowAllots DEF Allotted
  <2>2. CASE pc = "grow"
    <3>1. GrowAlloc.blocks = <<>> /\ cache' = GrowAlloc.cache
      BY <2>2 DEF NoSpace
    <3> QED BY <1>2, <2>2, <3>1, GrowAllots DEF Allotted
  <2> QED BY <1>3, <2>1, <2>2
<1>5. /\ Good(cells, PairBlocks, cache, entry, e, durable)
      /\ handle # None => /\ Good(cells, PairBlocks, cache, Staged, s, staged)
                          /\ TailFree(cells, Staged, e, entry, faults)
  BY <1>1, <1>3 DEF Kept, Exposed
<1>6. /\ Good(cells, PairBlocks, cache', entry, e, durable)
      /\ handle # None => Good(cells, PairBlocks, cache', Staged, s, staged)
  BY <1>4, <1>5, GoodCache
<1>7. cache' # None => PairBlocks \subseteq cache'
  BY <1>4, Facts
<1>8. PairBlocks' = PairBlocks /\ Staged' = Staged
  BY <1>3 DEF PairBlocks, Staged
<1> QED BY <1>2, <1>3, <1>5, <1>6, <1>7, <1>8, Facts, ToIdle

LEMMA SyncErrKept ==
    ASSUME Sheltered, IInv, SyncErr
    PROVE  IInv'
<1>1. PICK e, s, w : Kept(e, s, w)
  BY DEF IInv
<1>2. JobOK' /\ JobOK
  BY Facts, SyncErrTypes
<1>3. /\ UNCHANGED <<cells, pair, entry, durable, cache, handle, staged>>
      /\ pc = "sync" /\ pc' = "idle" /\ faults' = faults + 1 /\ faults < MaxFaults
  BY DEF SyncErr, Static, Fail
<1>4. handle # None => ~Exposed(e)
  BY <1>1, <1>3, NoExposure
<1>5. /\ Good(cells, PairBlocks, cache, entry, e, durable)
      /\ cache # None => PairBlocks \subseteq cache
      /\ handle # None => /\ Good(cells, PairBlocks, cache, Staged, s, staged)
                          /\ TailFree(cells, Staged, e, entry, 1)
  BY <1>1, <1>3, <1>4 DEF Kept
<1>6. 1 \in Nat /\ faults' \in Nat /\ 1 <= faults' /\ faults' >= 1
  BY <1>3, Facts
<1>7. handle # None => TailFree(cells, Staged, e, entry, faults')
  BY <1>5, <1>6, TailFrame
<1>8. PairBlocks' = PairBlocks /\ Staged' = Staged
  BY <1>3 DEF PairBlocks, Staged
<1> QED BY <1>2, <1>3, <1>5, <1>7, <1>8, Facts, ToIdle

----------------------------------------------------------------------------
(* The commits.                                                            *)

\* What is known where a commit begins.
LEMMA AtCommit ==
    ASSUME IInv, pc = "commit", NEW e, NEW s, NEW w, Kept(e, s, w)
    PROVE  /\ Good(cells, PairBlocks, cache, entry, e, durable)
           /\ cache # None => PairBlocks \subseteq cache
           /\ Good(cells, PairBlocks, cache, job.f, w, job.want)
           /\ TailFree(cells, job.f, e, entry, faults)
           /\ TailFree(cells, job.f, w, job.f, faults)
           /\ handle # None => job.f = Staged /\ job.want = staged /\ job.call # "append"
           /\ handle = None => job.call = "append"
           /\ AtLivePair /\ JobOK
           /\ job.call \in {"sync", "close", "append"}
<1>1. JobOK /\ CommitOK /\ job.f.size \in 0 .. MaxSize
      /\ job.call \in {"sync", "close", "append"}
  BY Facts, Commits0
<1>2. /\ Good(cells, PairBlocks, cache, entry, e, durable)
      /\ cache # None => PairBlocks \subseteq cache
      /\ Good(cells, PairBlocks, cache, job.f, w, job.want)
      /\ TailFree(cells, job.f, e, entry, faults)
  BY DEF Kept, Work
<1>3. TailFree(cells, job.f, w, job.f, faults)
  BY <1>1, <1>2, CommittedTail DEF Good
<1>4. /\ handle # None => job.f = Staged /\ job.want = staged /\ job.call # "append"
      /\ handle = None => job.call = "append"
  BY <1>1 DEF CommitOK
<1>5. AtLivePair
  BY <1>4, Facts DEF AtLivePair
<1> QED BY <1>1, <1>2, <1>3, <1>4, <1>5

\* The handle behind a commit that returned.
LEMMA HandleAfter ==
    ASSUME IInv, pc = "commit", NEW c, Committed(c)
    PROVE  /\ cache' = c \/ cache' = None
           /\ handle' # None => /\ handle # None /\ Staged' = Staged /\ staged' = staged
                                /\ handle'.parent = PairBlocks /\ "open" \in Calls
           /\ handle = None => handle' = None /\ cache' = c
           /\ pc' = "idle"
<1>1. handle # None => handle \in Handles /\ handle.parent = PairBlocks /\ "open" \in Calls
  BY Facts DEF RestOK
<1>2. CommitOK
  BY Facts, Commits0
<1>3. CASE job.call = "sync"
  <2>1. handle # None /\ handle' = [handle EXCEPT !.dirty = FALSE] /\ staged' = staged /\ cache' = None
        /\ pc' = "idle"
    BY <1>2, <1>3 DEF CommitOK, Committed
  <2> QED BY <1>1, <2>1 DEF Handles, Staged
<1>4. CASE job.call # "sync"
  BY <1>2, <1>4 DEF Committed, CommitOK
<1> QED BY <1>3, <1>4

LEMMA CommitInPlace ==
    ASSUME IInv, CommitAppend \/ CommitCompact
    PROVE  IInv'
<1>1. PICK e, s, w : Kept(e, s, w)
  BY DEF IInv
<1>2. pc = "commit" /\ Committed(cache) /\ Land /\ UNCHANGED <<cells, faults>>
  BY DEF CommitAppend, CommitCompact
<1>3. JobOK'
  BY Facts, CommitTypes
<1>4. PairBlocks' = PairBlocks
  <2>1. pair' = pair \/ pair' = <<pair[2], pair[1]>>
    BY DEF CommitAppend, CommitCompact
  <2> QED BY <2>1 DEF PairBlocks
<1>5. entry' = job.f /\ durable' = job.want
  BY <1>2 DEF Land
<1>6. /\ cache # None => PairBlocks \subseteq cache
      /\ Good(cells, PairBlocks, cache, job.f, w, job.want)
      /\ TailFree(cells, job.f, w, job.f, faults)
      /\ handle # None => job.f = Staged /\ job.want = staged
  BY <1>1, <1>2, AtCommit
<1>7. /\ cache' = cache \/ cache' = None
      /\ handle' # None => /\ handle # None /\ Staged' = Staged /\ staged' = staged
                           /\ handle'.parent = PairBlocks /\ "open" \in Calls
      /\ pc' = "idle"
  BY <1>2, HandleAfter
<1>8. Good(cells', PairBlocks', cache', entry', w, durable')
  <2>1. Good(cells, PairBlocks, cache', job.f, w, job.want)
    BY <1>6, <1>7 DEF Good
  <2> QED BY <1>2, <1>4, <1>5, <2>1
<1>9. handle' # None => /\ Good(cells', PairBlocks', cache', Staged', w, staged')
                        /\ TailFree(cells', Staged', w, entry', faults')
  BY <1>2, <1>5, <1>6, <1>7, <1>8
<1> QED BY <1>3, <1>4, <1>6, <1>7, <1>8, <1>9, ToIdle

\* A pair that moves takes a block that the published chain does not hold.
LEMMA CommitMoves ==
    ASSUME Sheltered, IInv, CommitRelocate
    PROVE  IInv'
<1>1. PICK e, s, w : Kept(e, s, w)
  BY DEF IInv
<1>2. /\ pc = "commit" /\ Committed(MoveAlloc.cache) /\ Land /\ UNCHANGED <<cells, faults>>
      /\ ShouldRelocate /\ MoveAlloc.blocks # <<>> /\ pair' = <<MoveAlloc.blocks[1], pair[1]>>
  BY DEF CommitRelocate
<1>3. JobOK' /\ JobOK
  BY Facts, CommitTypes
<1>4. handle = None
  <2>1. BlockCycles > 0 /\ BlockCycles \in Int
    BY <1>2, FileAssumption DEF ShouldRelocate
  <2>2. "open" \notin Calls
    BY <2>1 DEF Sheltered
  <2> QED BY <2>2, Facts
<1>5. cache' = MoveAlloc.cache /\ handle' = None /\ pc' = "idle"
  BY <1>2, <1>4, HandleAfter
<1>6. /\ cache # None => PairBlocks \subseteq cache
      /\ Good(cells, PairBlocks, cache, job.f, w, job.want)
  BY <1>1, <1>2, AtCommit
<1>7. IsChain(cells, job.f, w) /\ job.f.size \in 0 .. MaxSize /\ (cache # None => ToSet(w) \subseteq cache)
      /\ ToSet(w) \cap PairBlocks = {}
  BY <1>2, <1>3, <1>6, Commits0 DEF Good
<1>8. ChainBlocks(cells, job.f) = ToSet(w)
  BY <1>7, ChainLinked
<1> DEFINE S == ToSet(w) \cup PairBlocks
<1>9. Allotted(MoveAlloc, 1, PairBlocks, job.f, TRUE)
  BY <1>2, <1>3, MoveAllots
<1>10. cache # None => S \subseteq cache
  BY <1>6, <1>7
<1>11. \A b \in S : b \in PairBlocks \cup ChainBlocks(cells, job.f) \cup PairBlocks
  BY <1>8
<1> HIDE DEF S
<1>12. Spares(MoveAlloc, S)
  BY <1>2, <1>9, <1>10, <1>11, AllotSpares
<1> DEFINE b == MoveAlloc.blocks[1]
<1>13. b \in ToSet(MoveAlloc.blocks)
  <2>1. PairBlocks \subseteq Blocks /\ 1 \in Nat \ {0}
    BY Facts
  <2> QED BY <1>2, <1>9, <2>1, Handed
<1>14. b \notin ToSet(w) /\ ToSet(w) \subseteq cache' /\ PairBlocks \subseteq cache' /\ b \in cache'
  BY <1>5, <1>12, <1>13 DEF Spares, S
<1>15. PairBlocks' = {b, pair[1]} /\ pair[1] \in PairBlocks
  BY <1>2 DEF PairBlocks
<1> HIDE DEF b
<1>16. Good(cells, PairBlocks', cache', job.f, w, job.want)
  BY <1>6, <1>7, <1>14, <1>15 DEF Good
<1>17. Good(cells', PairBlocks', cache', entry', w, durable')
  BY <1>2, <1>16 DEF Land
<1>18. PairBlocks' \subseteq cache'
  BY <1>14, <1>15
<1> QED BY <1>3, <1>5, <1>17, <1>18, ToIdle

LEMMA CommitFails ==
    ASSUME IInv, CommitRefused \/ CommitErr
    PROVE  IInv'
<1>1. PICK e, s, w : Kept(e, s, w)
  BY DEF IInv
<1>2. /\ pc = "commit" /\ UNCHANGED <<cells, pair>> /\ PairBlocks' = PairBlocks
      /\ \E how : Returned(how)
  BY DEF CommitRefused, CommitErr, PairBlocks
<1>3. JobOK' /\ JobOK
  BY Facts, CommitFailTypes
<1>4. /\ Good(cells, PairBlocks, cache, entry, e, durable)
      /\ cache # None => PairBlocks \subseteq cache
      /\ Good(cells, PairBlocks, cache, job.f, w, job.want)
      /\ TailFree(cells, job.f, e, entry, faults)
      /\ TailFree(cells, job.f, w, job.f, faults)
      /\ handle # None => job.f = Staged /\ job.want = staged
  BY <1>1, <1>2, AtCommit
<1>5. /\ handle' # None => handle # None /\ handle' = handle /\ staged' = staged /\ Staged' = Staged
      /\ pc' = "idle"
  BY <1>2 DEF Returned, Fail, Staged
<1>6. cache' = cache \/ cache' \in {None, Blocks}
  <2>1. CASE CommitErr
    BY <2>1 DEF CommitErr
  <2>2. CASE CommitRefused
    <3>1. MoveAlloc.blocks = <<>> /\ cache' = MoveAlloc.cache
      BY <2>2 DEF CommitRefused
    <3> QED BY <1>2, <1>3, <3>1, MoveAllots DEF Allotted
  <2> QED BY <2>1, <2>2
<1>7. /\ Good(cells, PairBlocks, cache', entry, e, durable)
      /\ Good(cells, PairBlocks, cache', job.f, w, job.want)
  <2>1. CASE cache' = cache
    BY <1>4, <2>1
  <2>2. CASE cache' \in {None, Blocks}
    BY <1>4, <2>2, GoodCache
  <2> QED BY <1>6, <2>1, <2>2
<1>8. cache' # None => PairBlocks \subseteq cache'
  BY <1>4, <1>6, Facts
<1>9. faults \in Nat /\ faults' \in Nat /\ faults <= faults'
  BY Facts DEF CommitErr, CommitRefused
<1>10. /\ TailFree(cells, job.f, e, entry, faults')
       /\ TailFree(cells, job.f, w, job.f, faults')
  BY <1>4, <1>9, TailFrame
<1>11. CASE UNCHANGED <<entry, durable>>
  BY <1>2, <1>3, <1>4, <1>5, <1>7, <1>8, <1>10, <1>11, Facts, ToIdle
<1>12. CASE entry' = job.f /\ durable' = job.want
  BY <1>2, <1>3, <1>4, <1>5, <1>7, <1>8, <1>10, <1>12, Facts, ToIdle
<1> QED BY <1>11, <1>12 DEF CommitRefused, CommitErr, Land

LEMMA CommitStaleKept ==
    ASSUME IInv, CommitStale
    PROVE  IInv'
<1>1. PICK e, s, w : Kept(e, s, w)
  BY DEF IInv
<1>2. pc = "commit" /\ ~AtLivePair
  BY DEF CommitStale
<1> QED BY <1>1, <1>2, AtCommit

----------------------------------------------------------------------------
(* The device steps of an extend.                                          *)

\* The numbers of an extend.
LEMMA ExtendNumbers ==
    ASSUME JobOK, pc \in {"cow", "grow", "write", "fill", "sync"}, job.call # "shrink"
    PROVE  /\ ExtendOK /\ RunOK /\ job \in Writes /\ BlockSize \in Nat /\ MaxSize \in Nat
           /\ job.f.size \in 0 .. MaxSize /\ job.f.size \in Nat /\ job.size \in 1 .. MaxSize
           /\ job.size \in Nat /\ job.f.size < job.size
           /\ Len(job.data) \in Nat /\ job.size = job.f.size + Len(job.data)
           /\ job.fill \in 0 .. Room(job.f.size) /\ job.fill \in Nat
           /\ job.fill = Room(job.f.size) \/ job.f.size + job.fill = job.size
           /\ job.f.size + job.fill <= job.size
           /\ job.want \in Text /\ Len(job.want) = job.size
           /\ job.data \in Text /\ job.new \in Seq(Blocks) /\ Len(job.new) \in Nat /\ job.done \in Nat
           /\ Base.size = job.f.size /\ (job.f.size > 0 => Base.head = job.tail)
           /\ BlockCount(job.f.size) \in Nat /\ BlockCount(job.size) \in Nat
           /\ Room(job.f.size) \in Nat
           /\ job.f.size > 0 => /\ job.off = EndOf(job.f.size) /\ job.off \in 1 .. BlockSize
                                /\ Room(job.f.size) = BlockSize - job.off
                                /\ job.off + job.fill <= BlockSize
           /\ job.f.size = 0 => job.fill = 0
<1>1. RunOK /\ job \in Writes /\ ExtendOK
  BY Runs DEF RunOK
<1>2. /\ job.f.size \in 0 .. MaxSize /\ job.f.size \in Nat
      /\ job.size \in 0 .. MaxSize /\ job.size \in Nat
      /\ job.fill \in Nat /\ job.off \in Nat /\ job.done \in Nat
      /\ Len(job.data) \in Nat /\ job.new \in Seq(Blocks) /\ Len(job.new) \in Nat
      /\ Room(job.f.size) \in Nat
      /\ BlockCount(job.f.size) \in Nat /\ BlockCount(job.size) \in Nat
      /\ job.data \in Text /\ job.want \in Text
  BY <1>1, JobNumbers, JobFields
<1>3. /\ job.data # <<>> /\ job.size = job.f.size + Len(job.data)
      /\ job.off = IF job.f.size = 0 THEN BlockSize ELSE EndOf(job.f.size)
      /\ job.fill = IF Len(job.data) < Room(job.f.size) THEN Len(job.data) ELSE Room(job.f.size)
  BY <1>1 DEF ExtendOK
<1>4. Len(job.data) > 0
  <2>1. job.data \in Seq(Cell)
    BY <1>2 DEF Text
  <2> QED BY <1>3, <2>1
<1>5. /\ BlockSize \in Nat /\ MaxSize \in Nat /\ job.size \in 1 .. MaxSize /\ job.f.size < job.size
      /\ job.fill \in 0 .. Room(job.f.size)
      /\ job.fill = Room(job.f.size) \/ job.f.size + job.fill = job.size
      /\ job.f.size + job.fill <= job.size
  <2> DEFINE a == job.f.size
             b == job.size
             l == Len(job.data)
             r == Room(job.f.size)
             h == job.fill
  <2>1. a \in Nat /\ b \in 0 .. MaxSize /\ l \in Nat /\ r \in Nat /\ h \in Nat /\ l > 0
        /\ b = a + l /\ h = (IF l < r THEN l ELSE r) /\ BlockSize \in Nat /\ MaxSize \in Nat
    BY <1>2, <1>3, <1>4, Constants
  <2> HIDE DEF a, b, l, r, h
  <2>2. b \in 1 .. MaxSize /\ a < b /\ h \in 0 .. r /\ (h = r \/ a + h = b) /\ a + h <= b
    BY <2>1
  <2> QED BY <2>1, <2>2 DEF a, b, l, r, h
<1>6. job.f.size > 0 => /\ job.off = EndOf(job.f.size) /\ job.off \in 1 .. BlockSize
                        /\ Room(job.f.size) = BlockSize - job.off
  <2> SUFFICES ASSUME job.f.size > 0 PROVE job.off = EndOf(job.f.size) /\ job.off \in 1 .. BlockSize
                                           /\ Room(job.f.size) = BlockSize - job.off
    OBVIOUS
  <2>1. job.f.size \in 1 .. MaxSize
    BY <1>2
  <2>2. EndOf(job.f.size) \in 1 .. BlockSize
    BY <2>1, Ends
  <2> QED BY <1>3, <2>2, <2>1 DEF Room
<1>7. job.f.size > 0 => job.off + job.fill <= BlockSize
  BY <1>5, <1>6
<1>8. Base.size = job.f.size /\ (job.f.size > 0 => Base.head = job.tail)
  BY <1>2 DEF Base, Empty
<1>9. job.f.size = 0 => job.fill = 0
  BY <1>5 DEF Room
<1>10. Len(job.want) = job.size
  BY <1>1 DEF RunOK
<1> QED BY <1>1, <1>2, <1>3, <1>5, <1>6, <1>7, <1>8, <1>9, <1>10

\* What is written stays so where the cells of its blocks stay, but for the room
\* behind the end of the chain that is extended.
LEMMA WrittenFrame ==
    ASSUME JobOK, pc \in {"cow", "grow", "write", "fill", "sync"}, job.call # "shrink",
           NEW c, NEW d, NEW w \in Seq(Blocks), Len(w) = BlockCount(job.f.size),
           NEW m \in Nat, m <= BlockCount(job.size), Written(c, w, m),
           \A i \in 1 .. m, x \in 1 .. BlockSize :
              \/ d[(w \o job.new)[i]][x] = c[(w \o job.new)[i]][x]
              \/ i = Len(w) /\ job.f.size > 0 /\ x > EndOf(job.f.size)
    PROVE  Written(d, w, m)
<1> DEFINE u == w \o job.new
           n == BlockCount(job.f.size)
<1>1. /\ BlockSize \in Nat /\ MaxSize \in Nat
      /\ job.f.size \in 0 .. MaxSize /\ job.f.size \in Nat /\ job.size \in 1 .. MaxSize
      /\ job.size \in Nat /\ job.f.size < job.size /\ job.fill \in Nat
      /\ job.fill = Room(job.f.size) \/ job.f.size + job.fill = job.size
      /\ Room(job.f.size) \in Nat /\ n \in Nat /\ BlockCount(job.size) \in Nat
  BY ExtendNumbers
<1>2. /\ Linked(c, u, m)
      /\ \A o \in job.f.size + job.fill .. job.size - 1 :
              Idx(o) < m => c[u[Idx(o) + 1]][Pos(o) + 1] = job.want[o + 1]
  BY DEF Written
<1>3. \A i \in 1 .. m, x \in 1 .. BlockSize :
              \/ d[u[i]][x] = c[u[i]][x]
              \/ i = n /\ job.f.size > 0 /\ x > EndOf(job.f.size)
  OBVIOUS
<1> HIDE DEF u
<1>4. Linked(d, u, m)
  <2> SUFFICES ASSUME NEW i \in 1 .. m, NEW k \in 0 .. NP(i - 1) - 1
               PROVE  d[u[i]][k + 1] = u[i - 2 ^ k]
    BY DEF Linked
  <2>1. c[u[i]][k + 1] = u[i - 2 ^ k]
    BY <1>2 DEF Linked
  <2>2. i - 1 \in 0 .. BlockCount(job.size) - 1
    BY <1>1
  <2>3. NP(i - 1) \in Nat /\ NP(i - 1) < BlockSize
    BY <1>1, <2>2, BlockStarts
  <2>4. k + 1 \in 1 .. BlockSize /\ k + 1 <= NP(i - 1)
    BY <1>1, <2>3
  <2>5. i = n /\ job.f.size > 0 => ~(k + 1 > EndOf(job.f.size))
    <3> SUFFICES ASSUME i = n, job.f.size > 0 PROVE ~(k + 1 > EndOf(job.f.size))
      OBVIOUS
    <3>1. job.f.size \in 1 .. MaxSize
      BY <1>1
    <3>2. NP(n - 1) < EndOf(job.f.size) /\ EndOf(job.f.size) \in 1 .. BlockSize
      BY <3>1, Ends
    <3> QED BY <1>1, <2>3, <2>4, <3>2
  <2> QED BY <1>3, <2>1, <2>4, <2>5
<1>5. ASSUME NEW o \in job.f.size + job.fill .. job.size - 1, Idx(o) < m
      PROVE  d[u[Idx(o) + 1]][Pos(o) + 1] = job.want[o + 1]
  <2>1. c[u[Idx(o) + 1]][Pos(o) + 1] = job.want[o + 1]
    BY <1>2, <1>5
  <2>2. o \in job.f.size .. job.size - 1 /\ o - job.f.size >= Room(job.f.size)
        /\ o \in 0 .. MaxSize - 1
    BY <1>1
  <2>3. Idx(o) >= n
    BY <1>1, <2>2, Grows
  <2>4. Idx(o) \in Nat /\ Pos(o) \in Nat /\ Pos(o) < BlockSize
    BY <2>2, Place
  <2>5. Idx(o) + 1 \in 1 .. m /\ Pos(o) + 1 \in 1 .. BlockSize /\ Idx(o) + 1 # n
    BY <1>1, <1>5, <2>3, <2>4
  <2> QED BY <1>3, <2>1, <2>5
<1> QED BY <1>4, <1>5 DEF Written, u

\* From cells to d the room of the tail is written, and nothing else.
FillSafe(e, s, w, left, d) ==
    /\ Spared(cells, d, entry, e) /\ Spared(cells, d, Base, w)
    /\ handle # None => Spared(cells, d, Staged, s)
    /\ ~Exposed(e) /\ job.tail \in Blocks /\ job.f.size > 0 /\ job.tail = job.f.head
    /\ job.tail = job.src /\ job.fill > 0 /\ d[job.tail] = left
    /\ \A b \in Blocks : b # job.tail => d[b] = cells[b]

\* The room behind the end of the chain is nobody's: a write there spares the
\* committed chain, the staged one and the one that is extended.
LEMMA FillSpares ==
    ASSUME IInv, pc = "fill", NEW e, NEW s, NEW w, Kept(e, s, w), NEW left,
           \A x \in 1 .. BlockSize : x <= job.off => left[x] = cells[job.tail][x],
           NEW d, d = [cells EXCEPT ![job.tail] = left]
    PROVE  FillSafe(e, s, w, left, d)
<1>1. JobOK /\ RestOK /\ job.call # "shrink"
  BY Facts, Runs DEF RunOK, ShrinkOK
<1>2. /\ ExtendOK /\ RunOK /\ BlockSize \in Nat /\ job.f.size \in Nat
      /\ Base.size = job.f.size /\ (job.f.size > 0 => Base.head = job.tail)
      /\ job.f.size > 0 => job.off = EndOf(job.f.size) /\ job.off \in 1 .. BlockSize
                           /\ job.off + job.fill <= BlockSize
      /\ job.f.size = 0 => job.fill = 0
      /\ job.fill \in Nat
  BY <1>1, ExtendNumbers
<1>3. job.fill > 0 /\ job.tail = job.src /\ job.src = job.f.head /\ job.f.size > 0
  BY <1>2 DEF ExtendOK
<1>4. job.tail \in Blocks
  BY <1>2, <1>3 DEF ExtendOK
<1>5. ~Exposed(e)
  BY <1>3 DEF Exposed
<1>6. /\ Good(cells, PairBlocks, cache, entry, e, durable) /\ Building(e, s, w)
      /\ handle # None => Good(cells, PairBlocks, cache, Staged, s, staged)
  BY <1>1, <1>5 DEF Kept, Work
<1>7. /\ \A b : b # job.tail => d[b] = cells[b] \/ b \notin Blocks
      /\ d[job.tail] = left
  BY <1>1, <1>4 DEF RestOK
<1>8. ASSUME NEW f, NEW ch \in Seq(Blocks),
             job.tail \in ToSet(ch) => f.size > 0 /\ f.head = job.tail /\ EndOf(f.size) \in 1 .. BlockSize
                                       /\ EndOf(f.size) <= job.off
      PROVE  Spared(cells, d, f, ch)
  <2> SUFFICES ASSUME NEW b \in ToSet(ch), NEW x \in 1 .. BlockSize, d[b][x] # cells[b][x]
               PROVE  f.size > 0 /\ b = f.head /\ x > EndOf(f.size)
    BY DEF Spared
  <2>1. b \in Blocks
    BY ToSetIs
  <2>2. b = job.tail
    BY <1>7, <2>1
  <2>3. ~(x <= job.off) /\ job.off \in Nat
    BY <1>2, <1>3, <1>7, <2>2
  <2> QED BY <1>2, <1>8, <2>2, <2>3
<1>9. Spared(cells, d, Base, w)
  <2>1. w \in Seq(Blocks)
    BY <1>6 DEF Building, Good, IsChain
  <2>2. EndOf(Base.size) <= job.off /\ EndOf(Base.size) \in 1 .. BlockSize
    BY <1>2, <1>3
  <2> QED BY <1>2, <1>3, <1>8, <2>1, <2>2
<1>10. handle # None => Spared(cells, d, Staged, s)
  <2> SUFFICES ASSUME handle # None PROVE Spared(cells, d, Staged, s)
    OBVIOUS
  <2>1. s \in Seq(Blocks) /\ Staged = job.f
    BY <1>2, <1>6 DEF Good, IsChain, RunOK
  <2>2. EndOf(Staged.size) <= job.off /\ EndOf(Staged.size) \in 1 .. BlockSize
        /\ Staged.size > 0 /\ Staged.head = job.tail
    BY <1>2, <1>3, <2>1
  <2> QED BY <1>8, <2>1, <2>2
<1>11. Spared(cells, d, entry, e)
  <2>1. e \in Seq(Blocks) /\ IsChain(cells, entry, e) /\ entry.size \in 0 .. MaxSize
    BY <1>6, Facts DEF Good, IsChain
  <2>2. ASSUME job.tail \in ToSet(e)
        PROVE  entry.size > 0 /\ entry.head = job.tail /\ EndOf(entry.size) \in 1 .. BlockSize
               /\ EndOf(entry.size) <= job.off
    <3>1. entry.size > 0
      <4>1. Len(e) \in Nat /\ ((Len(e) = 0) <=> (entry.size = 0)) /\ entry.size \in Nat
        BY <2>1, ChainNumbers
      <4>2. PICK i \in 1 .. Len(e) : job.tail = e[i]
        BY <2>1, <2>2, ToSetIs
      <4> QED BY <4>1, <4>2
    <3>2. EndOf(entry.size) \in 1 .. BlockSize
      BY <2>1, <3>1, ChainNumbers
    <3>3. TailFree(cells, job.f, e, entry, faults)
      BY <1>3, <1>6 DEF Building, TailPart
    <3>4. EndOf(job.f.size) = BlockSize \/ (job.f.head = entry.head /\ EndOf(entry.size) <= EndOf(job.f.size))
      BY <1>3, <2>2, <3>3 DEF TailFree
    <3>5. EndOf(job.f.size) # BlockSize
      BY <1>2, <1>3
    <3> QED BY <1>2, <1>3, <3>1, <3>2, <3>4, <3>5
  <2> QED BY <1>8, <2>1, <2>2
<1> QED BY <1>3, <1>4, <1>5, <1>7, <1>9, <1>10, <1>11 DEF FillSafe

\* What a cut leaves of a fill.
LEMMA Residue ==
    ASSUME NEW left \in Residues, job.off \in Nat
    PROVE  \A x \in 1 .. BlockSize : x <= job.off => left[x] = cells[job.tail][x]
<1>1. PICK t : left = Filled(job.tail, job.off, t)
  BY DEF Residues
<1> SUFFICES ASSUME NEW x \in 1 .. BlockSize, x <= job.off
             PROVE  Filled(job.tail, job.off, t)[x] = cells[job.tail][x]
  BY <1>1
<1>2. ~(x \in job.off + 1 .. job.off + Len(t))
  BY Constants
<1> QED BY <1>2 DEF Filled

LEMMA FillErrKept ==
    ASSUME IInv, FillErr
    PROVE  IInv'
<1>1. PICK e, s, w : Kept(e, s, w)
  BY DEF IInv
<1>2. PICK left \in Residues : cells' = [cells EXCEPT ![job.tail] = left]
  BY DEF FillErr
<1>3. /\ pc = "fill" /\ faults' = faults + 1 /\ pc' = "idle"
      /\ UNCHANGED <<pair, entry, durable, cache, handle, staged>>
  BY DEF FillErr, Static, Fail
<1>4. JobOK' /\ JobOK
  BY Facts, FillTypes
<1>5. job.off \in Nat
  BY <1>3, <1>4, Runs, JobNumbers
<1>6. /\ Spared(cells, cells', entry, e) /\ ~Exposed(e)
      /\ handle # None => Spared(cells, cells', Staged, s)
  <2>1. FillSafe(e, s, w, left, cells')
    BY <1>1, <1>2, <1>3, <1>5, Residue, FillSpares
  <2> QED BY <2>1 DEF FillSafe
<1>7. /\ Good(cells, PairBlocks, cache, entry, e, durable)
      /\ cache # None => PairBlocks \subseteq cache
      /\ handle # None => /\ Good(cells, PairBlocks, cache, Staged, s, staged)
                          /\ TailFree(cells, Staged, e, entry, faults)
  BY <1>1, <1>3, <1>6 DEF Kept
<1>8. PairBlocks' = PairBlocks /\ Staged' = Staged
  BY <1>3 DEF PairBlocks, Staged
<1>9. Good(cells', PairBlocks, cache, entry, e, durable)
  <2>1. ToSet(e) \cap PairBlocks = {} /\ (cache # None => ToSet(e) \subseteq cache)
    BY <1>7 DEF Good
  <2> QED BY <1>6, <1>7, <2>1, Facts, GoodFrame
<1>10. handle # None => /\ Good(cells', PairBlocks, cache, Staged, s, staged)
                        /\ TailFree(cells', Staged, e, entry, faults')
  <2> SUFFICES ASSUME handle # None PROVE /\ Good(cells', PairBlocks, cache, Staged, s, staged)
                                          /\ TailFree(cells', Staged, e, entry, faults')
    OBVIOUS
  <2>1. ToSet(s) \cap PairBlocks = {} /\ (cache # None => ToSet(s) \subseteq cache)
    BY <1>7 DEF Good
  <2>2. faults \in Nat /\ faults' \in Nat /\ faults <= faults' /\ faults' >= 1
    BY <1>3, Facts
  <2>3. TailFree(cells', Staged, e, entry, faults')
    BY <1>7, <2>2, TailFrame
  <2> QED BY <1>6, <1>7, <2>1, <2>3, Facts, GoodFrame
<1> QED BY <1>3, <1>4, <1>7, <1>8, <1>9, <1>10, Facts, ToIdle

LEMMA PowerLossKept ==
    ASSUME IInv, PowerLoss
    PROVE  IInv'
<1>1. PICK e, s, w : Kept(e, s, w)
  BY DEF IInv
<1>2. pc' = "idle" /\ handle' = None /\ cache' = None /\ pair' = pair /\ PairBlocks' = PairBlocks
  BY DEF PowerLoss, PairBlocks
<1>3. JobOK' /\ JobOK
  BY Facts, PowerLossTypes
<1>4. Good(cells, PairBlocks, cache, entry, e, durable)
  BY <1>1 DEF Kept
<1>5. CASE UNCHANGED <<cells, entry, durable>>
  <2>1. Good(cells', PairBlocks', cache', entry', e, durable')
    BY <1>2, <1>4, <1>5 DEF Good
  <2> QED BY <1>2, <1>3, <2>1, ToIdle
<1>6. CASE pc = "commit" /\ Land /\ UNCHANGED cells
  <2>1. Good(cells, PairBlocks, cache, job.f, w, job.want)
    BY <1>1, <1>6, AtCommit
  <2>2. Good(cells', PairBlocks', cache', entry', w, durable')
    BY <1>2, <1>6, <2>1 DEF Good, Land
  <2> QED BY <1>2, <1>3, <2>2, ToIdle
<1>7. CASE /\ pc = "fill" /\ UNCHANGED <<entry, durable>>
           /\ \E left \in Residues : cells' = [cells EXCEPT ![job.tail] = left]
  <2>1. PICK left \in Residues : cells' = [cells EXCEPT ![job.tail] = left]
    BY <1>7
  <2>2. job.off \in Nat
    BY <1>3, <1>7, Runs, JobNumbers
  <2>3. Spared(cells, cells', entry, e)
    <3>1. FillSafe(e, s, w, left, cells')
      BY <1>1, <1>7, <2>1, <2>2, Residue, FillSpares
    <3> QED BY <3>1 DEF FillSafe
  <2>4. ToSet(e) \cap PairBlocks = {}
    BY <1>4 DEF Good
  <2>5. Good(cells', PairBlocks, None, entry, e, durable)
    BY <1>4, <2>3, <2>4, Facts, GoodFrame
  <2> QED BY <1>2, <1>3, <1>7, <2>5, ToIdle
<1> QED BY <1>5, <1>6, <1>7 DEF PowerLoss

LEMMA TailAny ==
    ASSUME NEW c, NEW d, NEW f, NEW e, NEW ent, NEW m, TailFree(c, f, e, ent, m), NEW n \in Nat, n >= 1
    PROVE  TailFree(d, f, e, ent, n)
  BY DEF TailFree

LEMMA GoodAssembled ==
    ASSUME NEW c, NEW P, NEW k, NEW f, f.size \in 0 .. MaxSize, NEW w, NEW text,
           Good(c, P, k, f, w, text),
           NEW g, g.size \in 1 .. MaxSize, f.size < g.size,
           NEW fill \in 0 .. Room(f.size), fill = Room(f.size) \/ f.size + fill = g.size,
           NEW new \in Seq(Blocks), Len(new) = BlockCount(g.size) - BlockCount(f.size),
           Distinct(new), ToSet(new) \cap ToSet(w) = {}, ToSet(new) \cap P = {},
           k # None => ToSet(new) \subseteq k,
           NEW want, Len(want) = g.size, \A o \in 1 .. f.size : text[o] = want[o],
           Reads(c, w, f.size, f.size + fill, want),
           Linked(c, w \o new, BlockCount(g.size)),
           \A o \in f.size + fill .. g.size - 1 :
              c[(w \o new)[Idx(o) + 1]][Pos(o) + 1] = want[o + 1],
           g.head = IF new # <<>> THEN new[Len(new)] ELSE f.head
    PROVE  Good(c, P, k, g, w \o new, want)
<1>1. /\ IsChain(c, f, w) /\ Reads(c, w, 0, f.size, text) /\ ToSet(w) \cap P = {}
      /\ (k # None => ToSet(w) \subseteq k) /\ w \in Seq(Blocks)
  BY DEF Good, IsChain
<1>2. Reads(c, w, 0, f.size, want)
  <2> SUFFICES ASSUME NEW o \in 0 .. f.size - 1
               PROVE  c[w[Idx(o) + 1]][Pos(o) + 1] = want[o + 1]
    BY DEF Reads
  <2>1. o + 1 \in 1 .. f.size
    BY Constants
  <2> QED BY <1>1, <2>1 DEF Reads
<1>3. IsChain(c, g, w \o new) /\ Reads(c, w \o new, 0, g.size, want)
  BY <1>1, <1>2, Assembled
<1>4. ToSet(w \o new) = ToSet(w) \cup ToSet(new)
  BY <1>1, JoinedBlocks
<1> QED BY <1>1, <1>3, <1>4 DEF Good

\* The last block of a chain that was extended.
LEMMA ResultTail ==
    ASSUME JobOK, pc \in {"write", "fill"}, job.call # "shrink", NEW c, NEW d, NEW e, NEW m,
           ToSet(job.new) \cap ToSet(e) = {},
           job.new # <<>> => \A x \in EndOf(job.size) + 1 .. BlockSize : d[job.new[Len(job.new)]][x] = FF,
           job.new = <<>> => /\ TailFree(c, job.f, e, entry, m) /\ job.tail = job.f.head /\ job.fill > 0
                             /\ entry.size \in 0 .. MaxSize /\ IsChain(c, entry, e)
                             /\ job.size - job.f.size = job.fill
                             /\ \A x \in job.off + job.fill + 1 .. BlockSize : d[job.tail][x] = c[job.tail][x]
    PROVE  TailFree(d, Result, e, entry, m)
<1>1. /\ BlockSize \in Nat /\ MaxSize \in Nat /\ job.new \in Seq(Blocks)
      /\ job.f.size \in 0 .. MaxSize /\ job.f.size \in Nat /\ job.size \in 1 .. MaxSize
      /\ job.size \in Nat /\ job.f.size < job.size /\ job.fill \in Nat
      /\ job.fill \in 0 .. Room(job.f.size)
      /\ job.f.size > 0 => /\ job.off = EndOf(job.f.size) /\ job.off \in 1 .. BlockSize
                           /\ job.off + job.fill <= BlockSize
      /\ job.f.size = 0 => job.fill = 0
      /\ Room(job.f.size) \in Nat
  BY ExtendNumbers
<1>2. Result.size = job.size
  BY DEF Result
<1>3. CASE job.new # <<>>
  <2>1. Result.head = job.new[Len(job.new)]
    BY <1>3 DEF Result
  <2>2. Result.head \in ToSet(job.new)
    <3>1. Len(job.new) \in 1 .. Len(job.new)
      BY <1>1, <1>3
    <3> QED BY <1>1, <2>1, <3>1, ToSetIs
  <2> QED BY <1>2, <1>3, <2>1, <2>2 DEF TailFree
<1>4. CASE job.new = <<>>
  <2>1. Result.head = job.f.head /\ Result.head = job.tail
    BY <1>4 DEF Result
  <2>2. EndOf(job.size) = job.off + job.fill /\ job.f.size > 0
    <3>1. job.f.size > 0 /\ job.size - job.f.size = job.fill
      BY <1>1, <1>4
    <3>2. job.size - job.f.size <= Room(job.f.size) /\ job.size \in 0 .. MaxSize
      BY <1>1, <3>1
    <3>3. EndOf(job.size) = EndOf(job.f.size) + (job.size - job.f.size)
      BY <1>1, <3>2, Grows
    <3> QED BY <1>1, <3>1, <3>3
  <2>3. TailFree(c, job.f, e, entry, m)
    BY <1>4
  <2>4. CASE job.f.head \in ToSet(e)
    <3>1. job.f.head = entry.head /\ EndOf(entry.size) <= EndOf(job.f.size)
      <4>1. EndOf(job.f.size) # BlockSize
        BY <1>1, <1>4, <2>2
      <4> QED BY <2>2, <2>3, <2>4, <4>1 DEF TailFree
    <3>2. EndOf(entry.size) \in 1 .. BlockSize
      <4>1. entry.size \in 0 .. MaxSize /\ IsChain(c, entry, e)
        BY <1>4
      <4>2. entry.size > 0
        <5>1. e \in Seq(Blocks) /\ Len(e) \in Nat /\ ((Len(e) = 0) <=> (entry.size = 0)) /\ entry.size \in Nat
          BY <4>1, ChainNumbers
        <5>2. PICK i \in 1 .. Len(e) : job.f.head = e[i]
          BY <2>4, <5>1, ToSetIs
        <5> QED BY <5>1, <5>2
      <4> QED BY <4>1, <4>2, ChainNumbers
    <3>3. EndOf(entry.size) <= EndOf(job.size)
      BY <1>1, <2>2, <3>1, <3>2
    <3> QED BY <1>2, <2>1, <2>4, <3>1, <3>3 DEF TailFree
  <2>5. CASE job.f.head \notin ToSet(e)
    <3>1. m >= 1 \/ \A x \in EndOf(job.f.size) + 1 .. BlockSize : c[job.f.head][x] = FF
      BY <2>2, <2>3, <2>5 DEF TailFree
    <3>2. ASSUME ~(m >= 1), NEW x \in EndOf(job.size) + 1 .. BlockSize PROVE d[job.tail][x] = FF
      <4>1. x \in EndOf(job.f.size) + 1 .. BlockSize /\ x \in job.off + job.fill + 1 .. BlockSize
        BY <1>1, <2>2
      <4> QED BY <1>4, <2>1, <3>1, <3>2, <4>1
    <3> QED BY <1>2, <2>1, <2>5, <3>2 DEF TailFree
  <2> QED BY <2>4, <2>5
<1> QED BY <1>3, <1>4

LEMMA FillKept ==
    ASSUME IInv, Fill
    PROVE  IInv'
<1>1. PICK e, s, w : Kept(e, s, w)
  BY DEF IInv
<1>0. PICK u : u = w \o job.new
  OBVIOUS
<1> DEFINE data == SubSeq(job.data, 1, job.fill)
           left == Filled(job.tail, job.off, data)
<1>2. /\ pc = "fill" /\ pc' = "sync" /\ cells' = [cells EXCEPT ![job.tail] = left]
      /\ UNCHANGED <<pair, entry, durable, cache, handle, staged, faults, job>>
  BY DEF Fill, Static
<1>3. JobOK' /\ JobOK /\ RestOK /\ job.call # "shrink"
  <2>1. JobOK' /\ JobOK
    BY Facts, FillTypes
  <2> QED BY <1>2, <2>1, Runs DEF RunOK, ShrinkOK
<1>4. /\ BlockSize \in Nat /\ MaxSize \in Nat /\ ExtendOK /\ RunOK
      /\ job.f.size \in 0 .. MaxSize /\ job.f.size \in Nat /\ job.size \in 1 .. MaxSize
      /\ job.size \in Nat /\ job.f.size < job.size
      /\ Len(job.data) \in Nat /\ job.size = job.f.size + Len(job.data)
      /\ job.fill \in 0 .. Room(job.f.size) /\ job.fill \in Nat
      /\ job.fill = Room(job.f.size) \/ job.f.size + job.fill = job.size
      /\ job.f.size + job.fill <= job.size
      /\ job.want \in Text /\ Len(job.want) = job.size /\ job.data \in Text /\ job.new \in Seq(Blocks)
      /\ Base.size = job.f.size /\ (job.f.size > 0 => Base.head = job.tail)
      /\ BlockCount(job.f.size) \in Nat /\ BlockCount(job.size) \in Nat
      /\ Room(job.f.size) \in Nat
      /\ job.f.size > 0 => /\ job.off = EndOf(job.f.size) /\ job.off \in 1 .. BlockSize
                           /\ job.off + job.fill <= BlockSize
  BY <1>2, <1>3, ExtendNumbers
<1>5. Len(data) = job.fill /\ \A x \in 1 .. job.fill : data[x] = job.data[x]
  <2>1. job.data \in Seq(Cell) /\ job.fill <= Len(job.data)
    BY <1>4 DEF Text
  <2> QED BY <1>4, <2>1
<1> HIDE DEF data
<1>6. \A x \in 1 .. BlockSize :
         left[x] = IF x \in job.off + 1 .. job.off + job.fill THEN Prog(cells[job.tail][x], data[x - job.off])
                   ELSE cells[job.tail][x]
  BY <1>5 DEF Filled
<1>7. \A x \in 1 .. BlockSize : x <= job.off => left[x] = cells[job.tail][x]
  <2>1. job.off \in Nat
    BY <1>2, <1>3, Runs, JobNumbers
  <2> QED BY <1>4, <1>6, <2>1
<1> HIDE DEF left
<1>8. /\ Spared(cells, cells', entry, e) /\ Spared(cells, cells', Base, w)
      /\ handle # None => Spared(cells, cells', Staged, s)
      /\ ~Exposed(e) /\ job.tail \in Blocks /\ job.f.size > 0 /\ job.tail = job.f.head
      /\ job.tail = job.src /\ job.fill > 0 /\ cells'[job.tail] = left
      /\ \A b \in Blocks : b # job.tail => cells'[b] = cells[b]
  <2>1. FillSafe(e, s, w, left, cells')
    BY <1>1, <1>2, <1>7, FillSpares
  <2> QED BY <2>1 DEF FillSafe
<1>9. /\ Good(cells, PairBlocks, cache, entry, e, durable)
      /\ cache # None => PairBlocks \subseteq cache
      /\ handle # None => /\ Good(cells, PairBlocks, cache, Staged, s, staged)
                          /\ TailFree(cells, Staged, e, entry, faults)
      /\ Building(e, s, w)
  BY <1>1, <1>2, <1>3, <1>8 DEF Kept, Work
<1>10. Good(cells', PairBlocks, cache, entry, e, durable)
  <2>1. ToSet(e) \cap PairBlocks = {} /\ (cache # None => ToSet(e) \subseteq cache)
    BY <1>9 DEF Good
  <2> QED BY <1>8, <1>9, <2>1, Facts, GoodFrame
<1>11. handle # None => /\ Good(cells', PairBlocks, cache, Staged, s, staged)
                        /\ TailFree(cells', Staged, e, entry, 1)
  <2> SUFFICES ASSUME handle # None PROVE /\ Good(cells', PairBlocks, cache, Staged, s, staged)
                                          /\ TailFree(cells', Staged, e, entry, 1)
    OBVIOUS
  <2>1. ToSet(s) \cap PairBlocks = {} /\ (cache # None => ToSet(s) \subseteq cache)
    BY <1>9 DEF Good
  <2>2. TailFree(cells', Staged, e, entry, 1)
    BY <1>9, TailAny
  <2> QED BY <1>8, <1>9, <2>1, <2>2, Facts, GoodFrame
<1> DEFINE old == SubSeq(job.want, 1, job.f.size)
<1>12. Good(cells, PairBlocks, cache, Base, w, old) /\ Wanted /\ TailPart(e, w) /\ NewPart(e, w)
       /\ BuiltPart(w)
  BY <1>9 DEF Building
<1>13. Len(old) = job.f.size /\ \A o \in 1 .. job.f.size : old[o] = job.want[o]
  BY <1>4 DEF Text
<1> HIDE DEF old
<1>14. /\ IsChain(cells, Base, w) /\ ToSet(w) \cap PairBlocks = {} /\ (cache # None => ToSet(w) \subseteq cache)
       /\ w \in Seq(Blocks) /\ Len(w) = BlockCount(job.f.size) /\ Distinct(w)
       /\ w[Len(w)] = job.tail
  BY <1>4, <1>8, <1>12 DEF Good, IsChain
<1>15. Good(cells', PairBlocks, cache, Base, w, old)
  BY <1>4, <1>8, <1>12, <1>14, GoodFrame
<1>16. /\ Distinct(job.new) /\ ToSet(job.new) \cap ToSet(w) = {} /\ ToSet(job.new) \cap PairBlocks = {}
       /\ ToSet(job.new) \cap ToSet(e) = {} /\ (cache # None => ToSet(job.new) \subseteq cache)
  BY <1>12 DEF NewPart
<1>17. /\ Len(job.new) = BlockCount(job.size) - BlockCount(job.f.size) /\ Len(job.new) \in Nat
       /\ job.done = Len(job.new) /\ BlockCount(job.f.size) + job.done = BlockCount(job.size)
  BY <1>2, <1>4 DEF ExtendOK
<1>18. Reads(cells', w, job.f.size, job.f.size + job.fill, job.want)
  <2> SUFFICES ASSUME NEW o \in job.f.size .. (job.f.size + job.fill) - 1
               PROVE  cells'[w[Idx(o) + 1]][Pos(o) + 1] = job.want[o + 1]
    BY DEF Reads
  <2>1. o \in job.f.size .. job.size - 1 /\ o - job.f.size < Room(job.f.size) /\ job.size \in 0 .. MaxSize
    BY <1>4
  <2>2. Idx(o) = BlockCount(job.f.size) - 1 /\ Pos(o) = EndOf(job.f.size) + (o - job.f.size)
    BY <1>4, <2>1, Grows
  <2>3. w[Idx(o) + 1] = job.tail
    BY <1>4, <1>14, <2>2
  <2> DEFINE x == Pos(o) + 1
             y == o - job.f.size + 1
  <2>4. x \in job.off + 1 .. job.off + job.fill /\ x - job.off = y /\ x \in 1 .. BlockSize
        /\ y \in 1 .. job.fill
    <3> DEFINE a == job.f.size
               q == Pos(o)
    <3>1. a \in Nat /\ job.off \in 1 .. BlockSize /\ job.fill \in Nat /\ job.off + job.fill <= BlockSize
          /\ q = job.off + (o - a) /\ BlockSize \in Nat
      BY <1>4, <1>8, <2>2
    <3>2. o \in a .. (a + job.fill) - 1
      OBVIOUS
    <3> HIDE DEF a, q
    <3>3. q + 1 \in job.off + 1 .. job.off + job.fill /\ (q + 1) - job.off = o - a + 1
          /\ q + 1 \in 1 .. BlockSize /\ o - a + 1 \in 1 .. job.fill
      BY <3>1, <3>2
    <3> QED BY <3>3 DEF a, q
  <2>5. cells[job.tail][x] = FF
    <3>1. Clean(job.tail, job.off, job.fill)
      BY <1>2, <1>8, <1>12 DEF TailPart
    <3> HIDE DEF x
    <3> QED BY <2>4, <3>1 DEF Clean
  <2>6. o + 1 \in job.f.size + 1 .. job.size /\ (o + 1) - job.f.size = y
    BY <1>4, <2>1
  <2>7. job.want[o + 1] = job.data[y]
    BY <1>12, <2>6 DEF Wanted
  <2> HIDE DEF x, y
  <2>8. left[x] = Prog(FF, data[y])
    BY <1>6, <2>4, <2>5
  <2>9. left[x] = job.data[y]
    BY <1>5, <2>4, <2>8 DEF Prog
  <2> QED BY <1>8, <2>3, <2>7, <2>9 DEF x
<1>19. /\ u \in Seq(Blocks) /\ Len(u) = BlockCount(job.size)
       /\ \A i \in 1 .. Len(w) : u[i] = w[i]
       /\ \A i \in 1 .. Len(u) : u[i] \in Blocks
       /\ \A i \in 1 .. Len(u) : i > Len(w) => u[i] \in ToSet(job.new)
  <2>1. /\ u \in Seq(Blocks) /\ Len(u) = Len(w) + Len(job.new)
        /\ \A i \in 1 .. Len(w) : u[i] = w[i]
        /\ \A i \in 1 .. Len(job.new) : job.new[i] \in ToSet(job.new)
        /\ \A i \in 1 .. Len(w) + Len(job.new) : i > Len(w) =>
                 i - Len(w) \in 1 .. Len(job.new) /\ u[i] = job.new[i - Len(w)]
    <3>1. w \in Seq(Blocks) /\ job.new \in Seq(Blocks)
      BY <1>4, <1>14
    <3> QED BY ONLY <1>0, <3>1, JoinedBlocks
  <2>2. Len(w) + Len(job.new) = BlockCount(job.size)
    BY <1>4, <1>14, <1>17
  <2> QED BY <2>1, <2>2
<1>20. job.tail \notin ToSet(job.new)
  <2>1. Len(w) \in 1 .. Len(w)
    BY <1>4, <1>8, <1>12, ChainNumbers DEF Good
  <2> QED BY <1>14, <1>16, <2>1, ToSetIs
<1>21. Written(cells', w, BlockCount(job.size))
  <2>1. Written(cells, w, BlockCount(job.size))
    BY <1>12, <1>17 DEF BuiltPart
  <2>2. ASSUME NEW i \in 1 .. BlockCount(job.size), NEW x \in 1 .. BlockSize
        PROVE  \/ cells'[u[i]][x] = cells[u[i]][x]
               \/ i = Len(w) /\ job.f.size > 0 /\ x > EndOf(job.f.size)
    <3>1. CASE u[i] # job.tail
      BY <1>8, <1>19, <3>1
    <3>2. CASE u[i] = job.tail
      <4>1. i <= Len(w)
        BY <1>4, <1>14, <1>19, <1>20, <3>2
      <4>2. i \in 1 .. Len(w) /\ Len(w) \in 1 .. Len(w)
        BY <1>4, <1>14, <4>1
      <4>3. i = Len(w)
        BY <1>14, <1>19, <3>2, <4>2 DEF Distinct
      <4>4. x <= job.off => cells'[u[i]][x] = cells[u[i]][x]
        BY <1>7, <1>8, <3>2
      <4> QED BY <1>4, <1>8, <4>3, <4>4
    <3> QED BY <3>1, <3>2
  <2>3. /\ pc \in {"cow", "grow", "write", "fill", "sync"} /\ BlockCount(job.size) <= BlockCount(job.size)
        /\ BlockCount(job.size) \in Nat
    BY <1>2, <1>4
  <2> QED BY <1>0, <1>3, <1>14, <2>1, <2>2, <2>3, WrittenFrame
<1>22. Good(cells', PairBlocks, cache, Result, u, job.want)
  <2>1. /\ Result.size = job.size /\ Result.head = IF job.new # <<>> THEN job.new[Len(job.new)] ELSE Base.head
    BY <1>4, <1>8 DEF Result
  <2>2. /\ Linked(cells', w \o job.new, BlockCount(Result.size))
        /\ \A o \in Base.size + job.fill .. Result.size - 1 :
              cells'[(w \o job.new)[Idx(o) + 1]][Pos(o) + 1] = job.want[o + 1]
    <3>1. ASSUME NEW o \in job.f.size + job.fill .. job.size - 1 PROVE Idx(o) < BlockCount(job.size)
      <4>1. o \in 0 .. job.size - 1
        BY <1>4
      <4>2. Idx(o) + 1 \in 1 .. BlockCount(job.size) /\ Idx(o) \in Nat
        BY <1>4, <4>1, ByteAt
      <4> QED BY <1>4, <4>2
    <3> QED BY <1>4, <1>21, <2>1, <3>1 DEF Written
  <2>3. /\ Base.size \in 0 .. MaxSize /\ Result.size \in 1 .. MaxSize /\ Base.size < Result.size
        /\ job.fill \in 0 .. Room(Base.size)
        /\ job.fill = Room(Base.size) \/ Base.size + job.fill = Result.size
        /\ Len(job.new) = BlockCount(Result.size) - BlockCount(Base.size)
        /\ Len(job.want) = Result.size /\ \A o \in 1 .. Base.size : old[o] = job.want[o]
        /\ Reads(cells', w, Base.size, Base.size + job.fill, job.want)
    BY <1>4, <1>13, <1>17, <1>18, <2>1
  <2>4. job.new \in Seq(Blocks)
    BY <1>4
  <2> QED BY <1>0, <1>15, <1>16, <2>1, <2>2, <2>3, <2>4, GoodAssembled
<1>23. TailFree(cells', Result, e, entry, faults)
  <2>1. job.new # <<>> => \A x \in EndOf(job.size) + 1 .. BlockSize : cells'[job.new[Len(job.new)]][x] = FF
    <3> SUFFICES ASSUME job.new # <<>> PROVE cells'[job.new[Len(job.new)]] = cells[job.new[Len(job.new)]]
      BY <1>12, <1>17 DEF BuiltPart
    <3>1. Len(job.new) \in 1 .. Len(job.new)
      <4>1. job.new \in Seq(Blocks)
        BY <1>4
      <4> QED BY <4>1
    <3>2. job.new[Len(job.new)] \in ToSet(job.new) /\ job.new[Len(job.new)] \in Blocks
      BY <1>4, <3>1, ToSetIs
    <3> QED BY <1>8, <1>20, <3>2
  <2>2. job.new = <<>> => /\ TailFree(cells, job.f, e, entry, faults) /\ job.tail = job.f.head /\ job.fill > 0
                          /\ entry.size \in 0 .. MaxSize /\ IsChain(cells, entry, e)
                          /\ job.size - job.f.size = job.fill
                          /\ \A x \in job.off + job.fill + 1 .. BlockSize : cells'[job.tail][x] = cells[job.tail][x]
    <3> SUFFICES ASSUME job.new = <<>>
                 PROVE  /\ job.size - job.f.size = job.fill
                        /\ \A x \in job.off + job.fill + 1 .. BlockSize : left[x] = cells[job.tail][x]
      BY <1>8, <1>9, <1>12, Facts DEF TailPart, Good
    <3>1. BlockCount(job.size) = BlockCount(job.f.size)
      BY <1>4, <1>17
    <3>2. job.size - job.f.size <= Room(job.f.size)
      <4>1. job.size \in 0 .. MaxSize
        BY <1>4
      <4>2. ~(job.size - job.f.size > Room(job.f.size))
        BY <1>4, <3>1, <4>1, Grows
      <4> QED BY <1>4, <4>2
    <3>3. job.size - job.f.size = job.fill
      <4>1. PICK a, b, f, r \in Nat : /\ a = job.f.size /\ b = job.size
                                      /\ f = job.fill /\ r = Room(job.f.size)
        BY <1>4
      <4>2. (f = r \/ a + f = b) /\ a + f <= b /\ b - a <= r
        BY <1>4, <3>2, <4>1
      <4>3. b - a = f
        BY ONLY <4>2, a \in Nat, b \in Nat, f \in Nat, r \in Nat
      <4> QED BY <4>1, <4>3
    <3>4. ASSUME NEW x \in job.off + job.fill + 1 .. BlockSize PROVE left[x] = cells[job.tail][x]
      <4>1. x \in 1 .. BlockSize /\ ~(x \in job.off + 1 .. job.off + job.fill)
        BY <1>4, <1>8
      <4> QED BY <1>6, <4>1
    <3> QED BY <3>3, <3>4
  <2> QED BY <1>2, <1>3, <1>16, <2>1, <2>2, ResultTail
<1>24. /\ PairBlocks' = PairBlocks /\ Staged' = Staged /\ Result' = Result /\ ~Exposed(e)'
       /\ handle # None => handle.parent = PairBlocks /\ "open" \in Calls
  BY <1>2, <1>8, Facts DEF PairBlocks, Staged, Result, Exposed
<1>25. Kept(e, s, u)'
  BY <1>2, <1>9, <1>10, <1>11, <1>22, <1>23, <1>24 DEF Kept, Work
<1> QED BY <1>2, <1>3, <1>24, <1>25 DEF IInv

\* Before the first new block is written, only the chain that is extended is there.
LEMMA BaseWritten ==
    ASSUME NEW c, NEW w \in Seq(Blocks), NEW new \in Seq(Blocks), NEW a \in 0 .. MaxSize,
           NEW b \in 1 .. MaxSize, a < b, NEW fill \in 0 .. Room(a), fill = Room(a) \/ a + fill = b,
           Len(w) = BlockCount(a), Linked(c, w, Len(w))
    PROVE  /\ Linked(c, w \o new, BlockCount(a))
           /\ \A o \in a + fill .. b - 1 : ~(Idx(o) < BlockCount(a))
<1> DEFINE n == BlockCount(a)
           u == w \o new
<1>1. n \in Nat /\ n <= 2 ^ 28 /\ Room(a) \in Nat /\ MaxSize \in Nat
  <2>1. Room(a) \in 0 .. BlockSize /\ n \in 0 .. a /\ n <= 2 ^ 28
    BY RoomIs
  <2> QED BY <2>1, Constants
<1>2. \A i \in 1 .. n : u[i] = w[i]
  BY JoinedBlocks
<1> HIDE DEF u
<1>3. Linked(c, u, n)
  <2> SUFFICES ASSUME NEW i \in 1 .. n, NEW k \in 0 .. NP(i - 1) - 1
               PROVE  c[u[i]][k + 1] = u[i - 2 ^ k]
    BY DEF Linked
  <2>1. c[w[i]][k + 1] = w[i - 2 ^ k]
    BY DEF Linked
  <2>2. i - 1 \in Nat /\ i - 1 < 2 ^ 28 /\ (i - 1) + 1 = i
    <3>1. 2 ^ 28 \in Nat
      OBVIOUS
    <3> DEFINE z == 2 ^ 28
    <3>2. n <= z /\ z \in Nat
      BY <1>1, <3>1
    <3> HIDE DEF z, n
    <3>3. i - 1 \in Nat /\ i - 1 < z /\ (i - 1) + 1 = i
      BY <1>1, <3>2
    <3> QED BY <3>3 DEF z
  <2>3. i - 2 ^ k \in 1 .. i - 1
    BY <2>2, PointsBack
  <2>4. i - 2 ^ k \in 1 .. n
    <3> DEFINE q == i - 2 ^ k
    <3>1. q \in 1 .. i - 1
      BY <2>3
    <3> HIDE DEF q, n
    <3>2. q \in 1 .. n
      BY <1>1, <3>1
    <3> QED BY <3>2 DEF q
  <2> QED BY <1>2, <2>1, <2>4
<1>4. ASSUME NEW o \in a + fill .. b - 1 PROVE ~(Idx(o) < n)
  <2>1. o \in a .. b - 1 /\ o - a >= Room(a) /\ b \in 0 .. MaxSize /\ o \in 0 .. MaxSize - 1
    BY <1>1
  <2>2. Idx(o) >= n
    BY <2>1, Grows
  <2>3. Idx(o) \in Nat
    BY <2>1, Place
  <2> QED BY <1>1, <2>2, <2>3
<1> QED BY <1>3, <1>4 DEF u

LEMMA TakeBlocksKept ==
    ASSUME IInv, TakeBlocks
    PROVE  IInv'
<1>1. PICK e, s, w : Kept(e, s, w)
  BY DEF IInv
<1>2. PICK bs : bs = GrowAlloc.blocks
  OBVIOUS
<1>3. /\ pc = "grow" /\ bs # <<>> /\ pc' = "write" /\ cache' = GrowAlloc.cache
      /\ job' = [job EXCEPT !.new = bs, !.done = 0]
      /\ UNCHANGED <<cells, pair, entry, durable, faults, handle, staged>>
  BY <1>2 DEF TakeBlocks, Static
<1>4. JobOK' /\ JobOK /\ job \in Writes /\ job.call # "shrink" /\ RunOK
  BY <1>3, Facts, TakeBlocksTypes, Runs, GrowAllots
<1>5. /\ GrowCount \in Nat \ {0} /\ job.ex \subseteq Blocks
      /\ Allotted(GrowAlloc, GrowCount, job.ex, Base, FALSE)
  BY <1>3, <1>4, GrowAllots
<1>6. bs \in Seq(Blocks) /\ Len(bs) = GrowCount
  BY <1>2, <1>3, <1>5, Handed
<1>7. /\ job'.tail = job.tail /\ job'.call = job.call /\ job'.f = job.f
      /\ job'.data = job.data /\ job'.want = job.want /\ job'.src = job.src
      /\ job'.off = job.off /\ job'.fill = job.fill /\ job'.new = bs /\ job'.done = 0
      /\ job'.size = job.size
  BY <1>3, <1>4, <1>6 DEF Writes
<1>8. /\ Good(cells, PairBlocks, cache, entry, e, durable)
      /\ cache # None => PairBlocks \subseteq cache
      /\ handle # None => /\ Good(cells, PairBlocks, cache, Staged, s, staged)
                          /\ TailFree(cells, Staged, e, entry, faults)
      /\ Building(e, s, w)
  BY <1>1, <1>3, <1>4 DEF Kept, Work, Exposed
<1>9. /\ job.f.size \in 0 .. MaxSize /\ job.f.size \in Nat /\ job.size \in 1 .. MaxSize /\ job.f.size < job.size
      /\ job.fill \in 0 .. Room(job.f.size)
      /\ job.fill = Room(job.f.size) \/ job.f.size + job.fill = job.size
      /\ Base.size = job.f.size /\ (job.f.size > 0 => Base.head = job.tail)
      /\ BlockCount(job.f.size) \in Nat
  BY <1>3, <1>4, ExtendNumbers
<1>10. /\ IsChain(cells, Base, w) /\ w \in Seq(Blocks) /\ Len(w) = BlockCount(job.f.size)
       /\ Linked(cells, w, Len(w)) /\ (cache # None => ToSet(w) \subseteq cache)
       /\ ToSet(w) \cap PairBlocks = {}
       /\ IsChain(cells, entry, e) /\ (cache # None => ToSet(e) \subseteq cache)
       /\ ToSet(e) \cap PairBlocks = {} /\ entry.size \in 0 .. MaxSize
  BY <1>8, <1>9, Facts DEF Building, Good, IsChain
<1>11. ChainBlocks(cells, Base) = ToSet(w) /\ ChainBlocks(cells, entry) = ToSet(e)
  BY <1>9, <1>10, ChainLinked
<1> DEFINE S == PairBlocks \cup ToSet(w) \cup ToSet(e)
<1>12. cache # None => S \subseteq cache
  BY <1>8, <1>10
<1>13. \A b \in S : \/ b \in PairBlocks \cup ChainBlocks(cells, Base) \cup job.ex
                    \/ ~FALSE /\ b \in ChainBlocks(cells, entry)
  BY <1>11
<1> HIDE DEF S
<1>14. Spares(GrowAlloc, S)
  BY <1>2, <1>3, <1>5, <1>12, <1>13, AllotSpares
<1>15. /\ ToSet(bs) \cap (ToSet(w) \cup ToSet(e) \cup PairBlocks) = {} /\ Distinct(bs)
       /\ PairBlocks \subseteq cache' /\ ToSet(w) \subseteq cache' /\ ToSet(e) \subseteq cache'
       /\ ToSet(bs) \subseteq cache'
  BY <1>2, <1>3, <1>14 DEF Spares, S
<1>16. PairBlocks' = PairBlocks /\ Staged' = Staged /\ Base' = Base
  BY <1>3, <1>7 DEF PairBlocks, Staged, Base
<1>17. Good(cells', PairBlocks', cache', entry', e, durable')
  BY <1>3, <1>8, <1>15, <1>16 DEF Good
<1>18. handle' # None /\ ~Exposed(e)' =>
          /\ Good(cells', PairBlocks', cache', Staged', s, staged')
          /\ TailFree(cells', Staged', e, entry', faults')
  <2> SUFFICES ASSUME handle # None, ~Exposed(e)' PROVE ToSet(s) \subseteq cache'
    BY <1>3, <1>8, <1>16 DEF Good
  <2> SUFFICES ASSUME NEW b \in ToSet(s) PROVE b \in ToSet(w) \cup ToSet(e)
    BY <1>15
  <2>1. ToSet(s) \ {job.src} \subseteq ToSet(w)
    BY <1>8 DEF Building
  <2>2. CASE b # job.src
    BY <2>1, <2>2
  <2>3. CASE b = job.src
    <3>1. job.tail = job.src \/ job.src \in ToSet(e)
      BY <1>3, <1>4, <1>7 DEF Exposed
    <3>2. CASE job.tail = job.src
      <4>1. Staged = job.f
        BY <1>4 DEF RunOK
      <4>2. job.f.size > 0
        <5>1. IsChain(cells, job.f, s) /\ s \in Seq(Blocks)
          BY <1>8, <4>1 DEF Good, IsChain
        <5>2. Len(s) \in Nat /\ ((Len(s) = 0) <=> (job.f.size = 0))
          <6>1. (BlockCount(job.f.size) = 0) <=> (job.f.size = 0)
            BY <1>9, RoomIs
          <6> QED BY <5>1, <6>1 DEF IsChain
        <5>3. PICK i \in 1 .. Len(s) : b = s[i]
          BY <5>1, ToSetIs
        <5> QED BY <1>9, <5>2, <5>3
      <4>3. Base.head \in ToSet(w)
        BY <1>9, <1>10, <4>2, ChainNumbers
      <4> QED BY <1>9, <2>3, <3>2, <4>2, <4>3
    <3> QED BY <2>3, <3>1, <3>2
  <2> QED BY <2>2, <2>3
<1>19. Building(e, s, w)'
  <2>1. Good(cells', PairBlocks', cache', Base', w, SubSeq(job'.want, 1, job'.f.size))
    BY <1>3, <1>7, <1>8, <1>15, <1>16 DEF Building, Good
  <2>2. Wanted'
    BY <1>7, <1>8 DEF Building, Wanted
  <2>3. TailPart(e, w)'
    <3>1. TailPart(e, w) /\ pc # "cow"
      BY <1>3, <1>8 DEF Building
    <3>2. Clean(job.tail, job.off, job.fill) => Clean(job.tail, job.off, job.fill)'
      BY <1>3, <1>7 DEF Clean
    <3> QED BY <1>3, <1>7, <3>1, <3>2 DEF TailPart
  <2>4. CopyPart(e)'
    BY <1>3, <1>7, <1>8 DEF Building, CopyPart
  <2>5. NewPart(e, w)'
    BY <1>7, <1>15, <1>16 DEF NewPart
  <2>6. BuiltPart(w)'
    <3>1. /\ Linked(cells, w \o bs, BlockCount(job.f.size))
          /\ \A o \in job.f.size + job.fill .. job.size - 1 : ~(Idx(o) < BlockCount(job.f.size))
      BY <1>6, <1>9, <1>10, BaseWritten
    <3>2. BlockCount(job.f.size) + 0 = BlockCount(job.f.size) /\ Len(bs) # 0
      BY <1>5, <1>6, <1>9
    <3> QED BY <1>3, <1>7, <3>1, <3>2 DEF BuiltPart, Written
  <2>7. handle' # None => ToSet(s) \ {job'.src} \subseteq ToSet(w)
    BY <1>3, <1>7, <1>8 DEF Building
  <2> QED BY <2>1, <2>2, <2>3, <2>4, <2>5, <2>6, <2>7 DEF Building
<1>20. Kept(e, s, w)'
  BY <1>3, <1>15, <1>16, <1>17, <1>18, <1>19 DEF Kept, Work
<1>21. handle' # None => handle'.parent = PairBlocks' /\ "open" \in Calls
  BY <1>3, <1>16, Facts
<1> QED BY <1>4, <1>20, <1>21 DEF IInv

\* The block that a copy writes.
CopyOn(b) ==
    /\ b \in Blocks /\ job.src \in Blocks
    /\ \A x \in 1 .. job.off : cells'[b][x] = cells[job.src][x]
    /\ \A x \in job.off + 1 .. job.off + job.fill : x <= BlockSize => cells'[b][x] = job.data[x - job.off]
    /\ \A x \in job.off + job.fill + 1 .. BlockSize : cells'[b][x] = FF
    /\ \A a \in Blocks : a # b => cells'[a] = cells[a]

LEMMA CowCells ==
    ASSUME JobOK, CowWrite, NEW b, b = CowAlloc.blocks[1]
    PROVE  /\ CopyOn(b) /\ b \in ToSet(CowAlloc.blocks)
           /\ Allotted(CowAlloc, 1, CowEx, CowOwn, FALSE) /\ CowAlloc.blocks # <<>>
<1>1. pc = "cow" /\ CowAlloc.blocks # <<>>
  BY DEF CowWrite
<1>2. RestOK /\ RunOK /\ job \in Writes
  BY <1>1, Runs
<1>3. Allotted(CowAlloc, 1, CowEx, CowOwn, FALSE) /\ job.src \in Blocks /\ CowEx \subseteq Blocks
  BY <1>1, CowAllots
<1>4. b \in Blocks /\ b \in ToSet(CowAlloc.blocks)
  <2>1. 1 \in Nat \ {0}
    OBVIOUS
  <2> QED BY <1>1, <1>3, <2>1, Handed
<1> DEFINE kept == SubSeq(cells[job.src], 1, job.off)
           fill == SubSeq(job.data, 1, job.fill)
<1>5. cells' = [cells EXCEPT ![b] = Image(kept, fill)]
  BY DEF CowWrite
<1>6. job.data \in Seq(Cell) /\ job.fill \in Nat /\ job.fill <= Len(job.data)
      /\ job.off \in 0 .. BlockSize /\ job.off \in Nat
  <2>1. job.data \in Seq(Cell) /\ job.fill \in Nat /\ Room(job.f.size) \in Nat
        /\ job.off \in 0 .. BlockSize /\ job.off \in Nat
    BY <1>2, JobNumbers, JobFields
  <2>2. CASE job.call = "shrink"
    BY <1>2, <2>1, <2>2 DEF RunOK, ShrinkOK
  <2>3. CASE job.call # "shrink"
    BY <1>2, <2>1, <2>3 DEF RunOK, ExtendOK
  <2> QED BY <2>1, <2>2, <2>3
<1>7. Len(kept) = job.off /\ \A x \in 1 .. job.off : kept[x] = cells[job.src][x]
  <2>1. cells[job.src] \in Seq(Cell) /\ Len(cells[job.src]) = BlockSize
    <3>1. cells[job.src] \in [1 .. BlockSize -> Cell] /\ BlockSize \in Nat
      BY <1>2, <1>3, Constants DEF RestOK
    <3> QED BY <3>1
  <2> QED BY <1>6, <2>1
<1>8. Len(fill) = job.fill /\ \A x \in 1 .. job.fill : fill[x] = job.data[x]
  BY <1>6
<1> HIDE DEF kept, fill
<1>9. cells'[b] = Image(kept, fill) /\ \A a \in Blocks : a # b => cells'[a] = cells[a]
  BY <1>2, <1>4, <1>5 DEF RestOK
<1>10. BlockSize \in Nat
  BY Constants
<1>11. \A x \in 1 .. job.off : cells'[b][x] = cells[job.src][x]
  BY <1>6, <1>7, <1>9, <1>10 DEF Image
<1>12. ASSUME NEW x \in job.off + 1 .. job.off + job.fill, x <= BlockSize
       PROVE  cells'[b][x] = job.data[x - job.off]
  <2>1. x \in 1 .. BlockSize /\ ~(x <= job.off) /\ x <= job.off + job.fill /\ x - job.off \in 1 .. job.fill
    BY <1>6, <1>10, <1>12
  <2> QED BY <1>7, <1>8, <1>9, <2>1 DEF Image
<1>13. ASSUME NEW x \in job.off + job.fill + 1 .. BlockSize PROVE cells'[b][x] = FF
  <2>1. x \in 1 .. BlockSize /\ ~(x <= job.off) /\ ~(x <= job.off + job.fill)
    BY <1>6, <1>10
  <2> QED BY <1>7, <1>8, <1>9, <2>1 DEF Image
<1> QED BY <1>1, <1>3, <1>4, <1>9, <1>11, <1>12, <1>13 DEF CopyOn

\* A chain that does not hold the copy's block.
LEMMA GoodBeside ==
    ASSUME NEW c, NEW d, NEW P, NEW k, NEW l, NEW f, f.size \in 0 .. MaxSize, NEW ch, NEW text,
           Good(c, P, k, f, ch, text), NEW b, b \notin ToSet(ch),
           \A a \in Blocks : a # b => d[a] = c[a], ToSet(ch) \subseteq l
    PROVE  Good(d, P, l, f, ch, text)
<1>1. ToSet(ch) \subseteq Blocks
  BY ToSetIs DEF Good, IsChain
<1>2. \A a \in ToSet(ch) : d[a] = c[a]
  BY <1>1
<1>3. Spared(c, d, f, ch) /\ ToSet(ch) \cap P = {}
  BY <1>2, Unwritten DEF Good
<1> QED BY <1>3, GoodFrame

\* The locals of the call behind a copy.
LEMMA CowStep ==
    ASSUME IInv, CowWrite, NEW b, b = CowAlloc.blocks[1]
    PROVE  /\ JobOK' /\ JobOK /\ job \in Writes /\ RunOK /\ pc = "cow"
           /\ UNCHANGED <<pair, entry, durable, faults, handle, staged>>
           /\ PairBlocks' = PairBlocks /\ Staged' = Staged /\ cache' = CowAlloc.cache
           /\ pc' = IF job.fill < Len(job.data) THEN "grow" ELSE "sync"
           /\ job'.tail = b /\ job'.call = job.call /\ job'.f = job.f
           /\ job'.data = job.data /\ job'.want = job.want /\ job'.src = job.src
           /\ job'.off = job.off /\ job'.fill = job.fill /\ job'.new = job.new
           /\ job'.done = job.done /\ job'.size = job.size
<1>1. /\ pc = "cow" /\ UNCHANGED <<pair, entry, durable, faults, handle, staged>>
      /\ cache' = CowAlloc.cache /\ job' = [job EXCEPT !.tail = b, !.ex = {}]
      /\ pc' = IF job.fill < Len(job.data) THEN "grow" ELSE "sync"
  BY DEF CowWrite, Static
<1>2. JobOK' /\ JobOK /\ job \in Writes /\ RunOK
  BY <1>1, Facts, CowWriteTypes, Runs
<1>3. PairBlocks' = PairBlocks /\ Staged' = Staged
  BY <1>1 DEF PairBlocks, Staged
<1>4. /\ job'.tail = b /\ job'.call = job.call /\ job'.f = job.f
      /\ job'.data = job.data /\ job'.want = job.want /\ job'.src = job.src
      /\ job'.off = job.off /\ job'.fill = job.fill /\ job'.new = job.new
      /\ job'.done = job.done /\ job'.size = job.size
  BY <1>1, <1>2 DEF Writes
<1> QED BY <1>1, <1>2, <1>3, <1>4

\* Block b for a copy is no block of the pair, of the committed chain or of chain ch.
CowSpared(e, ch, b) ==
    /\ b \in Blocks /\ b \notin PairBlocks /\ b \notin ToSet(e) /\ b \notin ToSet(ch)
    /\ b \in CowAlloc.cache /\ PairBlocks \subseteq CowAlloc.cache
    /\ ToSet(e) \subseteq CowAlloc.cache /\ ToSet(ch) \subseteq CowAlloc.cache

LEMMA CowSpares ==
    ASSUME IInv, pc = "cow", CowAlloc.blocks # <<>>, NEW b, b = CowAlloc.blocks[1],
           NEW e, NEW s, NEW w, Kept(e, s, w), NEW ch, ch = IF job.call = "shrink" THEN s ELSE w
    PROVE  CowSpared(e, ch, b) /\ (handle # None => ToSet(s) \subseteq ToSet(ch))
<1>1. JobOK /\ RunOK /\ job \in Writes /\ Allotted(CowAlloc, 1, CowEx, CowOwn, FALSE) /\ CowEx \subseteq Blocks
  BY Facts, Runs, CowAllots
<1>2. /\ Good(cells, PairBlocks, cache, entry, e, durable) /\ entry.size \in 0 .. MaxSize
      /\ cache # None => PairBlocks \subseteq cache
      /\ handle # None => Good(cells, PairBlocks, cache, Staged, s, staged)
  BY Facts DEF Kept, Exposed
<1>3. IsChain(cells, entry, e) /\ (cache # None => ToSet(e) \subseteq cache)
  BY <1>2 DEF Good
<1>4. ChainBlocks(cells, entry) = ToSet(e)
  BY <1>2, <1>3, ChainLinked
<1>5. /\ cache # None => ToSet(ch) \subseteq cache
      /\ ToSet(ch) \subseteq ChainBlocks(cells, CowOwn) \cup CowEx
      /\ handle # None => ToSet(s) \subseteq ToSet(ch)
  <2>1. CASE job.call = "shrink"
    <3>1. handle # None /\ job.own = ToSet(s)
      BY <1>1, <2>1 DEF RunOK, Kept, Work
    <3> QED BY <1>2, <2>1, <3>1 DEF Good, CowEx
  <2>2. CASE job.call # "shrink"
    <3>1. /\ job.f.size \in 0 .. MaxSize /\ job.f.size \in Nat /\ job.fill \in Nat /\ Base.size = job.f.size
          /\ (job.f.size > 0 => Base.head = job.tail) /\ (job.f.size = 0 => job.fill = 0) /\ ExtendOK
      BY <1>1, <2>2, ExtendNumbers
    <3>2. job.tail = job.src /\ job.src = job.f.head /\ job.f.size > 0
      BY <3>1 DEF ExtendOK
    <3>3. Building(e, s, w)
      BY <2>2 DEF Kept, Work
    <3>4. IsChain(cells, Base, w) /\ (cache # None => ToSet(w) \subseteq cache)
          /\ (handle # None => ToSet(s) \ {job.src} \subseteq ToSet(w))
      BY <3>3 DEF Building, Good
    <3>5. IsChain(cells, job.f, w)
      BY <3>1, <3>2, <3>4 DEF IsChain
    <3>6. ChainBlocks(cells, CowOwn) = ToSet(w) /\ job.f.head \in ToSet(w)
      BY <2>2, <3>1, <3>2, <3>5, ChainLinked, ChainNumbers DEF CowOwn
    <3> QED BY <2>2, <3>2, <3>4, <3>6
  <2> QED BY <2>1, <2>2
<1> DEFINE S == PairBlocks \cup ToSet(ch) \cup ToSet(e)
<1>6. cache # None => S \subseteq cache
  BY <1>2, <1>3, <1>5
<1>7. \A a \in S : \/ a \in PairBlocks \cup ChainBlocks(cells, CowOwn) \cup CowEx
                   \/ ~FALSE /\ a \in ChainBlocks(cells, entry)
  BY <1>4, <1>5
<1> HIDE DEF S
<1>8. Spares(CowAlloc, S)
  BY <1>1, <1>6, <1>7, AllotSpares
<1>9. b \in Blocks /\ b \in ToSet(CowAlloc.blocks)
  <2>1. 1 \in Nat \ {0}
    OBVIOUS
  <2> QED BY <1>1, <2>1, Handed
<1>10. CowSpared(e, ch, b)
  BY <1>8, <1>9 DEF Spares, CowSpared, S
<1> QED BY <1>5, <1>10

LEMMA CowShrinkKept ==
    ASSUME IInv, CowWrite, job.call = "shrink"
    PROVE  IInv'
<1>1. PICK e, s, w : Kept(e, s, w)
  BY DEF IInv
<1>2. PICK b : b = CowAlloc.blocks[1]
  OBVIOUS
<1>3. /\ JobOK' /\ JobOK /\ job \in Writes /\ RunOK /\ pc = "cow"
      /\ UNCHANGED <<pair, entry, durable, faults, handle, staged>>
      /\ PairBlocks' = PairBlocks /\ Staged' = Staged /\ cache' = CowAlloc.cache
      /\ pc' = IF job.fill < Len(job.data) THEN "grow" ELSE "sync"
      /\ job'.tail = b /\ job'.call = job.call /\ job'.want = job.want /\ job'.new = job.new
      /\ job'.size = job.size
  BY <1>2, CowStep
<1>4. /\ CopyOn(b) /\ b \in ToSet(CowAlloc.blocks)
      /\ Allotted(CowAlloc, 1, CowEx, CowOwn, FALSE) /\ CowAlloc.blocks # <<>>
  BY <1>2, <1>3, CowCells
<1>5. /\ job.data = <<>> /\ job.fill = 0 /\ job.new = <<>> /\ job.size < job.f.size
      /\ job.off = EndOf(job.size) /\ handle # None /\ job.f = Staged /\ job.size > 0
  BY <1>3 DEF RunOK, ShrinkOK
<1>6. pc' = "sync" /\ Result'.head = b /\ Result'.size = job.size
  <2>1. ~(job.fill < Len(job.data))
    BY <1>5
  <2> QED BY <1>3, <1>5, <2>1 DEF Result
<1>7. /\ Good(cells, PairBlocks, cache, entry, e, durable)
      /\ cache # None => PairBlocks \subseteq cache
      /\ Good(cells, PairBlocks, cache, Staged, s, staged)
      /\ TailFree(cells, Staged, e, entry, faults)
      /\ job.src = s[BlockCount(job.size)] /\ job.own = ToSet(s)
      /\ job.want = SubSeq(staged, 1, job.size)
  BY <1>1, <1>3, <1>5 DEF Kept, Work, Exposed
<1>8. /\ IsChain(cells, entry, e) /\ (cache # None => ToSet(e) \subseteq cache)
      /\ IsChain(cells, Staged, s) /\ (cache # None => ToSet(s) \subseteq cache)
      /\ ToSet(s) \cap PairBlocks = {} /\ ToSet(e) \cap PairBlocks = {}
  BY <1>7 DEF Good
<1>9. entry.size \in 0 .. MaxSize /\ Staged.size \in 0 .. MaxSize /\ staged \in Text /\ faults \in Nat
      /\ BlockSize \in Nat
  BY <1>5, Facts, Constants DEF RestOK
<1>14. /\ b \notin PairBlocks /\ b \notin ToSet(s) /\ b \notin ToSet(e) /\ b \in cache'
       /\ PairBlocks \subseteq cache' /\ ToSet(s) \subseteq cache' /\ ToSet(e) \subseteq cache'
  <2>1. CowSpared(e, s, b)
    BY <1>1, <1>2, <1>3, <1>4, CowSpares
  <2> QED BY <1>3, <2>1 DEF CowSpared
<1>15. b \in Blocks /\ \A a \in Blocks : a # b => cells'[a] = cells[a]
  BY <1>4 DEF CopyOn
<1>16. Good(cells', PairBlocks, cache', entry, e, durable)
  BY <1>7, <1>9, <1>14, <1>15, GoodBeside
<1>17. Good(cells', PairBlocks, cache', Staged, s, staged) /\ TailFree(cells', Staged, e, entry, 1)
  <2>1. Good(cells', PairBlocks, cache', Staged, s, staged)
    BY <1>7, <1>9, <1>14, <1>15, GoodBeside
  <2>2. TailFree(cells', Staged, e, entry, 1)
    BY <1>7, TailAny
  <2> QED BY <2>1, <2>2
<1>18. PICK g : g.size = job.size /\ g.head = job.src
  <2>1. [head |-> job.src, size |-> job.size].size = job.size /\ [head |-> job.src, size |-> job.size].head = job.src
    OBVIOUS
  <2> QED BY <2>1
<1>19. PICK p : p = SubSeq(s, 1, BlockCount(job.size))
  OBVIOUS
<1>20. job.size \in 1 .. Staged.size /\ job.size \in 1 .. MaxSize
  BY <1>3, <1>5, <1>9, JobNumbers, Constants
<1>21. Good(cells, PairBlocks, cache, g, p, job.want)
  BY <1>7, <1>9, <1>18, <1>19, <1>20, GoodPrefix
<1>22. ToSet(p) \subseteq ToSet(s)
  <2>1. IsChain(cells, Staged, s) /\ Len(staged) = Staged.size /\ Reads(cells, s, 0, Staged.size, staged)
    BY <1>7 DEF Good
  <2>2. g.head = s[BlockCount(job.size)]
    BY <1>7, <1>18
  <2>3. PrefixOf(cells, s, staged, job.size, g)
    BY <1>9, <1>18, <1>20, <2>1, <2>2, ChainPrefix
  <2> QED BY <1>19, <2>3 DEF PrefixOf
<1>23. Copied(cells', g, p, job.want, b, Result')
  <2>1. IsChain(cells, g, p) /\ Reads(cells, p, 0, g.size, job.want) /\ g.size \in 1 .. MaxSize
    BY <1>18, <1>20, <1>21 DEF Good
  <2>2. b \notin ToSet(p) /\ \A a \in ToSet(p), x \in 1 .. BlockSize : cells'[a][x] = cells[a][x]
    <3>1. ToSet(p) \subseteq Blocks
      BY <2>1, ToSetIs DEF IsChain
    <3> QED BY <1>14, <1>15, <1>22, <3>1
  <2>3. \A x \in 1 .. EndOf(g.size) : cells'[b][x] = cells[g.head][x]
    BY <1>4, <1>5, <1>18 DEF CopyOn
  <2>4. Result'.size = g.size /\ Result'.head = b
    BY <1>6, <1>18
  <2> QED BY <1>15, <2>1, <2>2, <2>3, <2>4, ChainReplace
<1>24. PICK r : r = [p EXCEPT ![Len(p)] = b]
  OBVIOUS
<1>25. Good(cells', PairBlocks, cache', Result', r, job.want)
  <2>1. /\ IsChain(cells', Result', r) /\ Reads(cells', r, 0, g.size, job.want)
        /\ ToSet(r) \subseteq ToSet(p) \cup {b}
    BY <1>23, <1>24 DEF Copied
  <2>2. Len(job.want) = Result'.size /\ Result'.size = g.size
    BY <1>3, <1>6, <1>18 DEF RunOK
  <2>3. ToSet(r) \cap PairBlocks = {} /\ ToSet(r) \subseteq cache'
    BY <1>8, <1>14, <1>22, <2>1
  <2> QED BY <2>1, <2>2, <2>3 DEF Good
<1>26. TailFree(cells', Result', e, entry, faults)
  <2>1. ASSUME NEW x \in EndOf(job.size) + 1 .. BlockSize PROVE cells'[b][x] = FF
    <3>1. EndOf(job.size) \in 1 .. BlockSize
      BY <1>20, Ends
    <3>2. job.off + job.fill = EndOf(job.size)
      BY <1>5, <1>9, <3>1
    <3> QED BY <1>4, <3>2 DEF CopyOn
  <2> QED BY <1>6, <1>14, <2>1 DEF TailFree
<1>27. ~Exposed(e)' /\ job'.call = "shrink"
  BY <1>3 DEF Exposed
<1>28. Kept(e, s, r)'
  BY <1>3, <1>6, <1>14, <1>16, <1>17, <1>25, <1>26, <1>27 DEF Kept, Work
<1>29. handle' # None => handle'.parent = PairBlocks' /\ "open" \in Calls
  BY <1>3, Facts
<1> QED BY <1>3, <1>28, <1>29 DEF IInv

\* The chain w with the copy b of its last block, and the data behind it.
CopyBuilt(e, s, b, r) ==
    /\ Good(cells', PairBlocks, cache', Base', r, SubSeq(job.want, 1, job.f.size))
    /\ Reads(cells', r, job.f.size, job.f.size + job.fill, job.want)
    /\ b \notin ToSet(e) /\ b # job.src /\ PairBlocks \subseteq cache'
    /\ \A x \in job.off + job.fill + 1 .. BlockSize : cells'[b][x] = FF
    /\ handle # None => /\ ToSet(s) \ {job.src} \subseteq ToSet(r)
                        /\ Good(cells', PairBlocks, cache', Staged, s, staged)
                        /\ TailFree(cells', Staged, e, entry, faults)
    /\ Good(cells', PairBlocks, cache', entry, e, durable)

LEMMA CopyIsBuilt ==
    ASSUME IInv, CowWrite, job.call # "shrink", NEW e, NEW s, NEW w, Kept(e, s, w),
           NEW b, b = CowAlloc.blocks[1], NEW r, r = [w EXCEPT ![Len(w)] = b]
    PROVE  CopyBuilt(e, s, b, r)
<1>3. /\ JobOK' /\ JobOK /\ job \in Writes /\ RunOK /\ pc = "cow"
      /\ UNCHANGED <<pair, entry, durable, faults, handle, staged>>
      /\ cache' = CowAlloc.cache /\ job'.tail = b /\ job'.f = job.f
  BY CowStep
<1>4. /\ CopyOn(b) /\ b \in ToSet(CowAlloc.blocks)
      /\ Allotted(CowAlloc, 1, CowEx, CowOwn, FALSE) /\ CowAlloc.blocks # <<>>
  BY <1>3, CowCells
<1>5. /\ BlockSize \in Nat /\ ExtendOK
      /\ job.f.size \in 0 .. MaxSize /\ job.f.size \in Nat /\ job.size \in 1 .. MaxSize
      /\ job.size \in Nat /\ job.f.size < job.size /\ job.size \in 0 .. MaxSize
      /\ job.fill \in 0 .. Room(job.f.size) /\ job.fill \in Nat
      /\ job.f.size + job.fill <= job.size /\ Room(job.f.size) \in Nat
      /\ Base.size = job.f.size /\ (job.f.size > 0 => Base.head = job.tail)
      /\ BlockCount(job.f.size) \in Nat /\ MaxSize \in Nat
      /\ job.f.size > 0 => /\ job.off = EndOf(job.f.size) /\ job.off \in 1 .. BlockSize
                           /\ job.off + job.fill <= BlockSize
      /\ job.f.size = 0 => job.fill = 0
  <2>1. MaxSize \in Nat
    BY Constants
  <2> QED BY <1>3, <2>1, ExtendNumbers
<1>6. job.fill > 0 /\ job.f.size > 0 /\ job.tail = job.src /\ job.src = job.f.head /\ job.src \in Blocks
  BY <1>3, <1>5 DEF ExtendOK
<1>7. /\ Good(cells, PairBlocks, cache, entry, e, durable)
      /\ cache # None => PairBlocks \subseteq cache
      /\ handle # None => /\ Good(cells, PairBlocks, cache, Staged, s, staged)
                          /\ TailFree(cells, Staged, e, entry, faults)
      /\ Good(cells, PairBlocks, cache, Base, w, SubSeq(job.want, 1, job.f.size)) /\ Wanted
      /\ handle # None => ToSet(s) \ {job.src} \subseteq ToSet(w)
  BY <1>3 DEF Kept, Work, Exposed, Building
<1>8. /\ IsChain(cells, entry, e) /\ (cache # None => ToSet(e) \subseteq cache)
      /\ IsChain(cells, Base, w) /\ (cache # None => ToSet(w) \subseteq cache)
      /\ ToSet(w) \cap PairBlocks = {} /\ ToSet(e) \cap PairBlocks = {}
      /\ entry.size \in 0 .. MaxSize /\ faults \in Nat
      /\ handle # None => job.f = Staged /\ Staged.size \in 0 .. MaxSize
  BY <1>3, <1>7, Facts DEF Good, RunOK
<1>11. job.src \in ToSet(w) /\ Base.head = job.src /\ w \in Seq(Blocks) /\ Len(w) = BlockCount(job.f.size)
       /\ ToSet(w) \subseteq Blocks /\ Base.head = w[Len(w)]
  <2>1. Base.size \in 0 .. MaxSize /\ Base.size > 0 /\ Base.head = job.src /\ Base.size = job.f.size
    BY <1>5, <1>6
  <2>2. /\ w \in Seq(Blocks) /\ Len(w) = BlockCount(Base.size) /\ ToSet(w) \subseteq Blocks
        /\ Base.head \in ToSet(w) /\ Base.head = w[Len(w)]
    BY <1>8, <2>1, ChainNumbers
  <2> QED BY <2>1, <2>2
<1>15. /\ b \notin PairBlocks /\ b \notin ToSet(w) /\ b \notin ToSet(e) /\ b \in cache'
       /\ PairBlocks \subseteq cache' /\ ToSet(w) \subseteq cache' /\ ToSet(e) \subseteq cache'
  <2>1. CowSpared(e, w, b)
    BY <1>3, <1>4, CowSpares
  <2> QED BY <1>3, <2>1 DEF CowSpared
<1>16. b \in Blocks /\ \A a \in Blocks : a # b => cells'[a] = cells[a]
  BY <1>4 DEF CopyOn
<1>17. Good(cells', PairBlocks, cache', entry, e, durable)
  BY <1>7, <1>8, <1>15, <1>16, GoodBeside
<1>18. Base'.size = job.f.size /\ Base'.head = b
  BY <1>3, <1>5, <1>6 DEF Base
<1>19. PICK old : old = SubSeq(job.want, 1, job.f.size)
  OBVIOUS
<1>20. Copied(cells', Base, w, old, b, Base')
  <2>1. Reads(cells, w, 0, Base.size, old) /\ Base.size \in 1 .. MaxSize
    BY <1>5, <1>6, <1>7, <1>19 DEF Good
  <2>2. \A a \in ToSet(w), x \in 1 .. BlockSize : cells'[a][x] = cells[a][x]
    BY <1>11, <1>15, <1>16
  <2>3. \A x \in 1 .. EndOf(Base.size) : cells'[b][x] = cells[Base.head][x]
    BY <1>4, <1>5, <1>6, <1>11 DEF CopyOn
  <2>4. Base'.size = Base.size
    BY <1>5, <1>18
  <2> QED BY <1>8, <1>15, <1>16, <1>18, <2>1, <2>2, <2>3, <2>4, ChainReplace
<1>21. /\ IsChain(cells', Base', r) /\ Reads(cells', r, 0, Base.size, old)
       /\ ToSet(r) \subseteq ToSet(w) \cup {b} /\ ToSet(w) \ {Base.head} \subseteq ToSet(r)
       /\ r[Len(w)] = b
  BY <1>20 DEF Copied
<1>22. Good(cells', PairBlocks, cache', Base', r, old)
  <2>1. Len(old) = Base.size
    BY <1>7, <1>19 DEF Good
  <2>2. ToSet(r) \cap PairBlocks = {} /\ ToSet(r) \subseteq cache'
    BY <1>8, <1>15, <1>21
  <2> QED BY <1>5, <1>18, <1>21, <2>1, <2>2 DEF Good
<1>23. Reads(cells', r, job.f.size, job.f.size + job.fill, job.want)
  <2> SUFFICES ASSUME NEW o \in job.f.size .. (job.f.size + job.fill) - 1
               PROVE  cells'[r[Idx(o) + 1]][Pos(o) + 1] = job.want[o + 1]
    BY DEF Reads
  <2>1. o \in job.f.size .. job.size - 1 /\ o - job.f.size < Room(job.f.size)
    BY <1>5
  <2>2. Idx(o) = BlockCount(job.f.size) - 1 /\ Pos(o) = EndOf(job.f.size) + (o - job.f.size)
    BY <1>5, <2>1, Grows
  <2>3. r[Idx(o) + 1] = b
    BY <1>5, <1>11, <1>21, <2>2
  <2>4. Pos(o) + 1 \in job.off + 1 .. job.off + job.fill /\ Pos(o) + 1 <= BlockSize
        /\ (Pos(o) + 1) - job.off = (o + 1) - job.f.size
    <3> DEFINE a == job.f.size
               q == Pos(o)
    <3>1. a \in Nat /\ job.off \in 1 .. BlockSize /\ job.fill \in Nat /\ job.off + job.fill <= BlockSize
          /\ q = job.off + (o - a) /\ BlockSize \in Nat
      BY <1>5, <1>6, <2>2
    <3>2. o \in a .. (a + job.fill) - 1
      OBVIOUS
    <3> HIDE DEF a, q
    <3>3. q + 1 \in job.off + 1 .. job.off + job.fill /\ q + 1 <= BlockSize
          /\ (q + 1) - job.off = (o + 1) - a
      BY ONLY <3>1, <3>2
    <3> QED BY <3>3 DEF a, q
  <2>5. cells'[b][Pos(o) + 1] = job.data[(Pos(o) + 1) - job.off]
    BY <1>4, <2>4 DEF CopyOn
  <2>6. o + 1 \in job.f.size + 1 .. job.size
    BY <1>5, <2>1
  <2>7. job.want[o + 1] = job.data[(o + 1) - job.f.size]
    BY <1>7, <2>6 DEF Wanted
  <2> QED BY <2>3, <2>4, <2>5, <2>7
<1>24. b # job.src
  BY <1>11, <1>15
<1>25. ASSUME handle # None
       PROVE  /\ ToSet(s) \ {job.src} \subseteq ToSet(r)
              /\ Good(cells', PairBlocks, cache', Staged, s, staged)
              /\ TailFree(cells', Staged, e, entry, faults)
  <2>1. ToSet(s) \subseteq ToSet(w)
    BY <1>7, <1>11, <1>25
  <2>2. ToSet(s) \ {job.src} \subseteq ToSet(r)
    BY <1>11, <1>21, <2>1
  <2>3. b \notin ToSet(s) /\ ToSet(s) \subseteq cache'
    BY <1>15, <2>1
  <2>4. Good(cells', PairBlocks, cache', Staged, s, staged)
    BY <1>7, <1>8, <1>16, <1>25, <2>3, GoodBeside
  <2>5. cells'[Staged.head] = cells[Staged.head]
    BY <1>6, <1>8, <1>16, <1>24, <1>25
  <2>6. TailFree(cells', Staged, e, entry, faults)
    <3>1. faults <= faults
      BY <1>8
    <3> QED BY <1>7, <1>8, <1>25, <2>5, <3>1, TailFrame
  <2> QED BY <2>2, <2>4, <2>6
<1>26. \A x \in job.off + job.fill + 1 .. BlockSize : cells'[b][x] = FF
  BY <1>4 DEF CopyOn
<1> QED BY <1>15, <1>17, <1>19, <1>22, <1>23, <1>24, <1>25, <1>26 DEF CopyBuilt

LEMMA CowExtendKept ==
    ASSUME IInv, CowWrite, job.call # "shrink"
    PROVE  IInv'
<1>1. PICK e, s, w : Kept(e, s, w)
  BY DEF IInv
<1>2. PICK b : b = CowAlloc.blocks[1]
  OBVIOUS
<1>3. PICK r : r = [w EXCEPT ![Len(w)] = b]
  OBVIOUS
<1>4. PICK old : old = SubSeq(job.want, 1, job.f.size)
  OBVIOUS
<1>5. /\ Good(cells', PairBlocks, cache', Base', r, old)
      /\ Reads(cells', r, job.f.size, job.f.size + job.fill, job.want)
      /\ b \notin ToSet(e) /\ b # job.src /\ PairBlocks \subseteq cache'
      /\ \A x \in job.off + job.fill + 1 .. BlockSize : cells'[b][x] = FF
      /\ handle # None => /\ ToSet(s) \ {job.src} \subseteq ToSet(r)
                          /\ Good(cells', PairBlocks, cache', Staged, s, staged)
                          /\ TailFree(cells', Staged, e, entry, faults)
      /\ Good(cells', PairBlocks, cache', entry, e, durable)
  <2>1. CopyBuilt(e, s, b, r)
    BY <1>1, <1>2, <1>3, CopyIsBuilt
  <2> QED BY <1>4, <2>1 DEF CopyBuilt
<1>6. /\ JobOK' /\ JobOK /\ job \in Writes /\ RunOK /\ pc = "cow"
      /\ UNCHANGED <<pair, entry, durable, faults, handle, staged>>
      /\ PairBlocks' = PairBlocks /\ Staged' = Staged
      /\ pc' = IF job.fill < Len(job.data) THEN "grow" ELSE "sync"
      /\ job'.tail = b /\ job'.call = job.call /\ job'.f = job.f
      /\ job'.data = job.data /\ job'.want = job.want /\ job'.src = job.src
      /\ job'.off = job.off /\ job'.fill = job.fill /\ job'.new = job.new
      /\ job'.done = job.done /\ job'.size = job.size
  BY <1>2, CowStep
<1>7. /\ BlockSize \in Nat /\ ExtendOK
      /\ job.f.size \in 0 .. MaxSize /\ job.f.size \in Nat /\ job.size \in 1 .. MaxSize
      /\ job.size \in Nat /\ job.f.size < job.size /\ job.size \in 0 .. MaxSize
      /\ Len(job.data) \in Nat /\ job.size = job.f.size + Len(job.data)
      /\ job.fill \in 0 .. Room(job.f.size) /\ job.fill \in Nat
      /\ job.fill = Room(job.f.size) \/ job.f.size + job.fill = job.size
      /\ job.f.size + job.fill <= job.size /\ Room(job.f.size) \in Nat
      /\ BlockCount(job.f.size) \in Nat /\ BlockCount(job.size) \in Nat
      /\ job.want \in Text /\ Len(job.want) = job.size
      /\ job.f.size > 0 => job.off = EndOf(job.f.size) /\ job.off \in 1 .. BlockSize
      /\ job.f.size = 0 => job.fill = 0
  <2>1. MaxSize \in Nat
    BY Constants
  <2> QED BY <1>6, <2>1, ExtendNumbers
<1>8. job.fill > 0 /\ job.f.size > 0 /\ job.new = <<>> /\ job.done = 0
  BY <1>6, <1>7 DEF ExtendOK
<1>9. Base'.size = job.f.size /\ Base'.head = b
  BY <1>6, <1>7, <1>8 DEF Base
<1>10. /\ IsChain(cells', Base', r) /\ r \in Seq(Blocks) /\ Len(r) = BlockCount(job.f.size)
       /\ Linked(cells', r, Len(r))
  BY <1>5, <1>9 DEF Good, IsChain
<1>11. /\ <<>> \in Seq(Blocks) /\ Distinct(<<>>) /\ ToSet(<<>>) = {} /\ Len(<<>>) = 0
  BY DEF Distinct, ToSet
<1>12. /\ Linked(cells', r \o <<>>, BlockCount(job.f.size))
       /\ \A o \in job.f.size + job.fill .. job.size - 1 : ~(Idx(o) < BlockCount(job.f.size))
  BY <1>7, <1>10, <1>11, BaseWritten
<1>13. Wanted /\ CopyPart(e)
  BY <1>1, <1>6 DEF Kept, Work, Building
<1>14. job.src \in ToSet(e) \/ faults >= 1
  BY <1>6, <1>13 DEF CopyPart
<1>15. CASE job.fill < Len(job.data)
  <2>1. pc' = "grow"
    BY <1>6, <1>15
  <2>2. TailPart(e, r)' /\ CopyPart(e)' /\ Wanted' /\ NewPart(e, r)'
    BY <1>5, <1>6, <1>8, <1>11, <1>13, <1>14, <2>1 DEF TailPart, CopyPart, Wanted, NewPart
  <2>3. BuiltPart(r)'
    <3>1. BlockCount(job.f.size) + 0 = BlockCount(job.f.size)
      BY <1>7
    <3> QED BY <1>6, <1>8, <1>12, <3>1 DEF BuiltPart, Written
  <2>4. Building(e, s, r)'
    BY <1>4, <1>5, <1>6, <2>2, <2>3 DEF Building
  <2>5. Kept(e, s, r)'
    BY <1>5, <1>6, <2>1, <2>4 DEF Kept, Work
  <2> QED BY <1>6, <2>5, Facts DEF IInv
<1>16. CASE ~(job.fill < Len(job.data))
  <2>1. pc' = "sync" /\ job.f.size + job.fill = job.size
    BY <1>6, <1>7, <1>16
  <2>2. BlockCount(job.size) = BlockCount(job.f.size) /\ EndOf(job.size) = job.off + job.fill
    <3>1. job.size - job.f.size = job.fill /\ job.size - job.f.size <= Room(job.f.size)
      BY <1>7, <2>1
    <3> QED BY <1>7, <1>8, <3>1, Grows
  <2>3. Result'.size = job.size /\ Result'.head = b
    BY <1>6, <1>8 DEF Result
  <2>4. /\ Len(old) = job.f.size /\ \A o \in 1 .. job.f.size : old[o] = job.want[o]
    BY <1>4, <1>7 DEF Text
  <2>5. Good(cells', PairBlocks, cache', Result', r \o <<>>, job.want)
    <3>1. \A o \in Base'.size + job.fill .. Result'.size - 1 :
              cells'[(r \o <<>>)[Idx(o) + 1]][Pos(o) + 1] = job.want[o + 1]
      BY <1>7, <1>9, <2>1, <2>3
    <3>2. /\ Base'.size \in 0 .. MaxSize /\ Result'.size \in 1 .. MaxSize /\ Base'.size < Result'.size
          /\ job.fill \in 0 .. Room(Base'.size)
          /\ job.fill = Room(Base'.size) \/ Base'.size + job.fill = Result'.size
          /\ Len(<<>>) = BlockCount(Result'.size) - BlockCount(Base'.size)
          /\ Len(job.want) = Result'.size /\ \A o \in 1 .. Base'.size : old[o] = job.want[o]
          /\ Reads(cells', r, Base'.size, Base'.size + job.fill, job.want)
          /\ Linked(cells', r \o <<>>, BlockCount(Result'.size))
      BY <1>5, <1>7, <1>9, <1>11, <1>12, <2>2, <2>3, <2>4
    <3>3. Result'.head = IF <<>> # <<>> THEN <<>>[Len(<<>>)] ELSE Base'.head
      BY <1>9, <2>3
    <3>4. PICK nil : nil = <<>>
      OBVIOUS
    <3>5. /\ nil \in Seq(Blocks) /\ Distinct(nil) /\ ToSet(nil) \cap ToSet(r) = {}
          /\ ToSet(nil) \cap PairBlocks = {} /\ (cache' # None => ToSet(nil) \subseteq cache')
          /\ Len(nil) = BlockCount(Result'.size) - BlockCount(Base'.size)
          /\ Linked(cells', r \o nil, BlockCount(Result'.size))
          /\ Result'.head = IF nil # <<>> THEN nil[Len(nil)] ELSE Base'.head
          /\ \A o \in Base'.size + job.fill .. Result'.size - 1 :
                cells'[(r \o nil)[Idx(o) + 1]][Pos(o) + 1] = job.want[o + 1]
      BY <1>11, <3>1, <3>2, <3>3, <3>4
    <3>6. Good(cells', PairBlocks, cache', Result', r \o nil, job.want)
      <4>1. PICK c, k, f, g : c = cells' /\ k = cache' /\ f = Base' /\ g = Result'
        OBVIOUS
      <4>2. /\ Good(c, PairBlocks, k, f, r, old) /\ f.size \in 0 .. MaxSize /\ g.size \in 1 .. MaxSize
            /\ f.size < g.size /\ job.fill \in 0 .. Room(f.size)
            /\ job.fill = Room(f.size) \/ f.size + job.fill = g.size
            /\ Len(job.want) = g.size /\ \A o \in 1 .. f.size : old[o] = job.want[o]
            /\ Reads(c, r, f.size, f.size + job.fill, job.want)
        BY <1>5, <1>9, <3>2, <4>1
      <4>3. /\ nil \in Seq(Blocks) /\ Distinct(nil) /\ ToSet(nil) \cap ToSet(r) = {}
            /\ ToSet(nil) \cap PairBlocks = {} /\ (k # None => ToSet(nil) \subseteq k)
            /\ Len(nil) = BlockCount(g.size) - BlockCount(f.size)
            /\ Linked(c, r \o nil, BlockCount(g.size))
            /\ g.head = IF nil # <<>> THEN nil[Len(nil)] ELSE f.head
            /\ \A o \in f.size + job.fill .. g.size - 1 :
                  c[(r \o nil)[Idx(o) + 1]][Pos(o) + 1] = job.want[o + 1]
        BY <3>5, <4>1
      <4>4. Good(c, PairBlocks, k, g, r \o nil, job.want)
        BY ONLY <4>2, <4>3, GoodAssembled
      <4> QED BY <4>1, <4>4
    <3> QED BY <3>4, <3>6
  <2>6. r \o <<>> = r
    BY <1>10
  <2>7. TailFree(cells', Result', e, entry, faults)
    BY <1>5, <2>2, <2>3 DEF TailFree
  <2>8. Exposed(e)' => faults' >= 1
    BY <1>6, <1>14 DEF Exposed
  <2>9. handle # None => TailFree(cells', Staged, e, entry, 1)
    BY <1>5, TailAny
  <2>10. Kept(e, s, r)'
    BY <1>5, <1>6, <2>1, <2>5, <2>6, <2>7, <2>8, <2>9 DEF Kept, Work
  <2> QED BY <1>6, <2>10, Facts DEF IInv
<1> QED BY <1>15, <1>16

\* The pointers of the next new block lead where its index says.
NewLinks(u) ==
    /\ \A k \in 0 .. NP(NewIndex) - 1 : NewPtrs[k + 1] = u[(NewIndex + 1) - 2 ^ k]
    /\ ToSet(NewPtrs) \subseteq Blocks
    /\ NewIndex \in Nat /\ NewIndex < BlockCount(job.size)
    /\ NewIndex = BlockCount(job.f.size) + job.done /\ job.done + 1 \in 1 .. Len(job.new)
    /\ u[NewIndex + 1] = job.new[job.done + 1]

LEMMA NewPointers ==
    ASSUME JobOK, pc = "write", NEW e, NEW s, NEW w, Building(e, s, w), NEW u, u = w \o job.new
    PROVE  NewLinks(u)
<1> DEFINE n == BlockCount(job.f.size)
           m == BlockCount(job.size)
           i == NewIndex
<1>1. job.call # "shrink" /\ ExtendOK
  BY Runs DEF RunOK, ShrinkOK
<1>2. /\ n \in Nat /\ m \in Nat /\ job.new \in Seq(Blocks) /\ Len(job.new) \in Nat /\ job.done \in Nat
      /\ job.size \in 1 .. MaxSize /\ Base.size = job.f.size /\ (job.f.size > 0 => Base.head = job.tail)
      /\ job.f.size \in 0 .. MaxSize /\ job.f.size \in Nat
  BY <1>1, ExtendNumbers
<1>3. Len(job.new) = m - n /\ job.done < Len(job.new)
  BY <1>1 DEF ExtendOK
<1>4. /\ i \in n .. m - 1 /\ i \in 0 .. m - 1 /\ i \in Nat /\ i < m /\ i = n + job.done
      /\ job.done + 1 \in 1 .. Len(job.new)
  BY <1>2, <1>3 DEF NewIndex
<1>5. i < 2 ^ 28 /\ NP(i) \in Nat
  BY <1>2, <1>4, BlockStarts
<1>6. /\ IsChain(cells, Base, w) /\ w \in Seq(Blocks) /\ Len(w) = n /\ Linked(cells, w, n)
      /\ job.f.size > 0 => w[n] = job.tail
  BY <1>2 DEF Building, Good, IsChain
<1>7. /\ Len(u) = n + Len(job.new) /\ \A j \in 1 .. n : u[j] = w[j] /\ w[j] \in Blocks
      /\ \A j \in 1 .. Len(job.new) : u[n + j] = job.new[j] /\ job.new[j] \in Blocks
  <2>1. /\ Len(u) = Len(w) + Len(job.new) /\ \A j \in 1 .. Len(w) : u[j] = w[j]
        /\ \A j \in 1 .. Len(job.new) : u[Len(w) + j] = job.new[j]
    <3>1. w \in Seq(Blocks) /\ job.new \in Seq(Blocks) /\ u = w \o job.new
      BY <1>2, <1>6
    <3> QED BY ONLY <3>1, JoinedBlocks
  <2>2. Len(w) = n /\ \A j \in 1 .. n : w[j] \in Blocks
    BY <1>6
  <2>3. \A j \in 1 .. Len(job.new) : job.new[j] \in Blocks
    BY <1>2
  <2> QED BY <2>1, <2>2, <2>3
<1>8. (n = 0) <=> (job.f.size = 0)
  BY <1>2, RoomIs
<1>9. n <= 2 ^ 28
  BY <1>2, RoomIs
<1>10. ASSUME NEW k \in 0 .. NP(i) - 1
       PROVE  /\ NewPtrs[k + 1] = u[(i + 1) - 2 ^ k] /\ NewPtrs[k + 1] \in Blocks
  <2>1. PICK t : t = i - 2 ^ k
    OBVIOUS
  <2>2. k \in Nat /\ 2 ^ k \in 1 .. i
    BY <1>4, <1>5, PointsBack
  <2>3. t \in 0 .. i - 1 /\ (i + 1) - 2 ^ k = t + 1
    <3> DEFINE p == 2 ^ k
    <3>1. p \in 1 .. i /\ t = i - p
      BY <2>1, <2>2
    <3> HIDE DEF p, i
    <3>2. t \in 0 .. i - 1 /\ (i + 1) - p = t + 1
      BY <1>4, <3>1
    <3> QED BY <3>2 DEF p
  <2>4. k + 1 \in 1 .. NP(i) /\ (k + 1) - 1 = k
    BY <1>5, <2>2
  <2>5. NewPtrs[k + 1] = IF t >= n THEN job.new[t - n + 1] ELSE Seek(cells, job.tail, n - 1, t)
    BY <2>1, <2>4 DEF NewPtrs, NP
  <2>6. CASE t >= n
    <3>1. t - n + 1 \in 1 .. Len(job.new) /\ n + (t - n + 1) = t + 1
      <4> HIDE DEF i, n, m
      <4> QED BY <1>2, <1>3, <1>4, <2>3, <2>6
    <3>2. NewPtrs[k + 1] = job.new[t - n + 1] /\ u[t + 1] = job.new[t - n + 1] /\ job.new[t - n + 1] \in Blocks
      BY <1>7, <2>5, <2>6, <3>1
    <3> QED BY <2>3, <3>2
  <2>7. CASE ~(t >= n)
    <3>1. t \in 0 .. n - 1 /\ n \in 1 .. Len(w) /\ n > 0 /\ t + 1 \in 1 .. n
      <4>1. n \in Nat /\ Len(w) = n /\ i \in Nat /\ t \in 0 .. i - 1 /\ ~(t >= n)
        BY <1>2, <1>4, <1>6, <2>3, <2>7
      <4> HIDE DEF i, n, m
      <4>2. t \in 0 .. n - 1 /\ n \in 1 .. n /\ n > 0 /\ t + 1 \in 1 .. n
        BY ONLY <4>1
      <4> QED BY <4>1, <4>2
    <3>2. w[n] = job.tail
      BY <1>2, <1>6, <1>8, <3>1
    <3>3. Seek(cells, w[n], n - 1, t) = w[t + 1]
      BY <1>6, <1>9, <3>1, SeekLinked
    <3> QED BY <1>7, <2>3, <2>5, <2>7, <3>1, <3>2, <3>3
  <2> QED BY <2>6, <2>7
<1>11. ToSet(NewPtrs) \subseteq Blocks
  <2>1. PICK N : N = NP(i)
    OBVIOUS
  <2>2. N \in Nat /\ NewPtrs = [k \in 1 .. N |-> NewPtrs[k]]
    BY <1>5, <2>1 DEF NewPtrs, NP
  <2>3. \A k \in 1 .. N : NewPtrs[k] \in Blocks
    <3> TAKE k \in 1 .. N
    <3>1. k - 1 \in 0 .. N - 1 /\ (k - 1) + 1 = k
      BY <2>2
    <3> QED BY <1>10, <2>1, <3>1
  <2>4. NewPtrs \in Seq(Blocks)
    BY <2>2, <2>3
  <2> QED BY <2>4, ToSetIs
<1>12. u[i + 1] = job.new[job.done + 1]
  <2>1. n + (job.done + 1) = i + 1
    BY <1>2, <1>4
  <2> QED BY <1>4, <1>7, <2>1
<1> QED BY <1>4, <1>10, <1>11, <1>12 DEF NewLinks

\* Block b of the chain that is built gets its pointers and its data.
Placed(w, b, d) ==
    /\ b \in ToSet(job.new) /\ b \in Blocks
    /\ \A a \in Blocks : a # b => d[a] = cells[a]
    /\ Written(d, w, NewIndex + 1)
    /\ NewIndex + 1 = BlockCount(job.size) =>
          \A x \in EndOf(job.size) + 1 .. BlockSize : d[job.new[Len(job.new)]][x] = FF

LEMMA WritePlaces ==
    ASSUME JobOK, pc = "write", NEW e, NEW s, NEW w, Building(e, s, w), NEW b, b = job.new[job.done + 1],
           NEW d, d = [cells EXCEPT ![b] = NewImage]
    PROVE  Placed(w, b, d) /\ ToSet(NewPtrs) \subseteq Blocks
<1>0. PICK u : u = w \o job.new
  OBVIOUS
<1>1. NewLinks(u) /\ job.call # "shrink" /\ ExtendOK /\ RestOK
  BY <1>0, NewPointers, Runs DEF RunOK, ShrinkOK
<1> DEFINE n == BlockCount(job.f.size)
           m == BlockCount(job.size)
           i == NewIndex
<1>2. /\ \A k \in 0 .. NP(i) - 1 : NewPtrs[k + 1] = u[(i + 1) - 2 ^ k]
      /\ ToSet(NewPtrs) \subseteq Blocks /\ i \in Nat /\ i < m /\ i = n + job.done
      /\ job.done + 1 \in 1 .. Len(job.new) /\ u[i + 1] = b
  BY <1>1 DEF NewLinks
<1>3. /\ n \in Nat /\ m \in Nat /\ job.new \in Seq(Blocks) /\ Len(job.new) \in Nat /\ job.done \in Nat
      /\ job.size \in 1 .. MaxSize /\ job.size \in Nat /\ job.f.size \in Nat /\ job.fill \in Nat
      /\ Len(job.data) \in Nat /\ job.size = job.f.size + Len(job.data) /\ job.data \in Text
      /\ BlockSize \in Nat /\ MaxSize \in Nat /\ Base.size = job.f.size
  BY <1>1, ExtendNumbers
<1>4. /\ NP(i) \in Nat /\ Len(NewPtrs) = NP(i) /\ NP(i) < BlockSize
      /\ StartOf(i) \in Int /\ StartOf(i + 1) \in Int /\ StartOf(i) >= job.f.size + job.fill
      /\ StartOf(i) < job.size /\ StartOf(i + 1) = StartOf(i) + (BlockSize - NP(i))
  BY <1>2, NewImageType
<1>5. Good(cells, PairBlocks, cache, Base, w, SubSeq(job.want, 1, job.f.size)) /\ Wanted /\ NewPart(e, w)
      /\ Written(cells, w, n + job.done)
  BY DEF Building, BuiltPart
<1>6. w \in Seq(Blocks) /\ Len(w) = n /\ Distinct(w)
  BY <1>3, <1>5 DEF Good, IsChain
<1>7. /\ u \in Seq(Blocks) /\ Len(u) = n + Len(job.new) /\ Distinct(u)
  <2>1. w \in Seq(Blocks) /\ job.new \in Seq(Blocks) /\ u = w \o job.new /\ Distinct(w)
        /\ Distinct(job.new) /\ ToSet(job.new) \cap ToSet(w) = {}
    BY <1>0, <1>3, <1>5, <1>6 DEF NewPart
  <2>2. u \in Seq(Blocks) /\ Len(u) = Len(w) + Len(job.new)
    BY ONLY <2>1, JoinedBlocks
  <2>3. Distinct(u)
    BY ONLY <2>1, JoinedDistinct
  <2> QED BY <1>6, <2>2, <2>3
<1>8. b \in ToSet(job.new) /\ b \in Blocks
  BY <1>2, <1>3, ToSetIs
<1>9. d[b] = NewImage /\ \A a \in Blocks : a # b => d[a] = cells[a]
  BY <1>1, <1>8 DEF RestOK
<1> DEFINE first == StartOf(i) - job.f.size
           last  == StartOf(i + 1) - job.f.size
           lim   == IF last < Len(job.data) THEN last ELSE Len(job.data)
           seg   == SubSeq(job.data, first + 1, lim)
<1>10. first \in Nat /\ lim \in Nat /\ first < lim /\ lim <= Len(job.data) /\ first + 1 \in Nat
  <2> DEFINE A == StartOf(i)
             B == StartOf(i + 1)
             D == Len(job.data)
             f == job.f.size
             N == NP(i)
  <2>1. /\ A \in Int /\ B \in Int /\ N \in Nat /\ N < BlockSize /\ BlockSize \in Nat /\ f \in Nat /\ D \in Nat
        /\ job.fill \in Nat /\ A >= f + job.fill /\ A < f + D /\ B = A + (BlockSize - N)
    BY <1>3, <1>4
  <2> HIDE DEF A, B, D, f, N
  <2>2. /\ A - f \in Nat /\ (IF B - f < D THEN B - f ELSE D) \in Nat
        /\ A - f < (IF B - f < D THEN B - f ELSE D) /\ (IF B - f < D THEN B - f ELSE D) <= D
        /\ (A - f) + 1 \in Nat
    BY ONLY <2>1
  <2> QED BY <2>2 DEF A, B, D, f, N
<1> HIDE DEF first, last, lim
<1>11. Len(seg) = lim - first /\ \A y \in 1 .. lim - first : seg[y] = job.data[first + y]
  <2>1. job.data \in Seq(Cell)
    BY <1>3 DEF Text
  <2>2. first + 1 \in 1 .. Len(job.data) + 1 /\ lim \in 0 .. Len(job.data)
    BY <1>3, <1>10
  <2> QED BY <1>10, <2>1, <2>2
<1> HIDE DEF seg
<1>12. NewImage = Image(NewPtrs, seg)
  BY DEF NewImage, seg, lim, last, first
<1>13. /\ \A x \in 1 .. NP(i) : NewImage[x] = NewPtrs[x]
       /\ \A y \in 1 .. lim - first : NP(i) + y <= BlockSize => NewImage[NP(i) + y] = job.data[first + y]
       /\ \A x \in 1 .. BlockSize : x > NP(i) + (lim - first) => NewImage[x] = FF
  <2> DEFINE N == NP(i)
             L == lim - first
  <2>1. N \in Nat /\ L \in Nat /\ N < BlockSize /\ BlockSize \in Nat /\ Len(NewPtrs) = N /\ Len(seg) = L
    BY <1>3, <1>4, <1>10, <1>11
  <2> HIDE DEF N, L
  <2>2. \A x \in 1 .. BlockSize :
           NewImage[x] = IF x <= N THEN NewPtrs[x] ELSE IF x <= N + L THEN seg[x - N] ELSE FF
    BY <1>12, <2>1 DEF Image
  <2>3. \A x \in 1 .. N : NewImage[x] = NewPtrs[x]
    BY <2>1, <2>2
  <2>4. ASSUME NEW y \in 1 .. L, N + y <= BlockSize PROVE NewImage[N + y] = job.data[first + y]
    <3>1. N + y \in 1 .. BlockSize /\ ~(N + y <= N) /\ N + y <= N + L /\ (N + y) - N = y
      BY <2>1, <2>4
    <3>2. NewImage[N + y] = seg[y]
      BY <2>2, <3>1
    <3> QED BY <1>11, <3>2 DEF L
  <2>5. ASSUME NEW x \in 1 .. BlockSize, x > N + L PROVE NewImage[x] = FF
    <3>1. ~(x <= N) /\ ~(x <= N + L)
      BY <2>1, <2>5
    <3> QED BY <2>2, <3>1
  <2> QED BY <2>3, <2>4, <2>5 DEF N, L
<1>14. Written(d, w, i)
  <2>1. ASSUME NEW j \in 1 .. i, NEW x \in 1 .. BlockSize
        PROVE  \/ d[u[j]][x] = cells[u[j]][x]
               \/ j = Len(w) /\ job.f.size > 0 /\ x > EndOf(job.f.size)
    <3>1. j \in 1 .. Len(u) /\ i + 1 \in 1 .. Len(u) /\ j # i + 1
      <4> DEFINE N == Len(job.new)
      <4>1. /\ i \in Nat /\ i = n + job.done /\ n \in Nat /\ job.done \in Nat /\ N \in Nat
            /\ job.done + 1 \in 1 .. N /\ Len(u) = n + N /\ j \in 1 .. i
        BY <1>2, <1>3, <1>7
      <4> HIDE DEF i, n, N
      <4> QED BY ONLY <4>1
    <3>2. u[j] # b /\ u[j] \in Blocks
      BY <1>2, <1>7, <3>1 DEF Distinct
    <3> QED BY <1>9, <3>2
  <2>2. i \in Nat /\ i <= m /\ Written(cells, w, i)
    BY <1>2, <1>3, <1>5
  <2>3. pc \in {"cow", "grow", "write", "fill", "sync"}
    OBVIOUS
  <2> QED BY <1>0, <1>1, <1>6, <2>1, <2>2, <2>3, WrittenFrame
<1>15. /\ Linked(d, u, i)
       /\ \A o \in job.f.size + job.fill .. job.size - 1 :
              Idx(o) < i => d[u[Idx(o) + 1]][Pos(o) + 1] = job.want[o + 1]
  BY <1>0, <1>14 DEF Written
<1>16. Linked(d, u, i + 1)
  <2> SUFFICES ASSUME NEW j \in 1 .. i + 1, NEW k \in 0 .. NP(j - 1) - 1
               PROVE  d[u[j]][k + 1] = u[j - 2 ^ k]
    BY DEF Linked
  <2>1. CASE j # i + 1
    <3>1. j \in 1 .. i
      BY <1>2, <2>1
    <3> QED BY <1>15, <3>1 DEF Linked
  <2>2. CASE j = i + 1
    <3>1. j - 1 = i
      BY <1>2, <2>2
    <3>2. k \in 0 .. NP(i) - 1 /\ k + 1 \in 1 .. NP(i)
      BY <1>4, <3>1
    <3> QED BY <1>2, <1>9, <1>13, <2>2, <3>2
  <2> QED BY <2>1, <2>2
<1>17. ASSUME NEW o \in job.f.size + job.fill .. job.size - 1, Idx(o) < i + 1
       PROVE  d[u[Idx(o) + 1]][Pos(o) + 1] = job.want[o + 1]
  <2>0. job.f.size \in Nat /\ job.fill \in Nat /\ job.size \in 1 .. MaxSize /\ MaxSize \in Nat
    BY <1>3
  <2>1. o \in 0 .. MaxSize - 1 /\ o \in Nat
    BY <2>0
  <2>2. /\ Idx(o) \in Nat /\ Pos(o) \in Nat /\ NP(Idx(o)) <= Pos(o) /\ Pos(o) < BlockSize
        /\ o = StartOf(Idx(o)) + Pos(o) - NP(Idx(o))
    BY <2>1, Place
  <2>3. CASE Idx(o) # i
    <3>1. Idx(o) < i
      BY <1>2, <1>17, <2>2, <2>3
    <3> QED BY <1>15, <3>1
  <2>4. CASE Idx(o) = i
    <3> DEFINE N == NP(i)
               A == StartOf(i)
               B == StartOf(i + 1)
               q == Pos(o)
               D == Len(job.data)
               f == job.f.size
    <3>1. PICK y : y = (q + 1) - N
      OBVIOUS
    <3>2. /\ N \in Nat /\ A \in Int /\ B = A + (BlockSize - N) /\ q \in Nat /\ N <= q /\ q < BlockSize
          /\ o = A + q - N /\ D \in Nat /\ f \in Nat /\ f + D = job.size /\ BlockSize \in Nat
          /\ first = A - f /\ last = B - f /\ o \in Nat /\ o <= job.size - 1 /\ B \in Int
      BY <1>3, <1>4, <2>1, <2>2, <2>4 DEF first, last
    <3>3. lim = IF last < D THEN last ELSE D
      BY DEF lim
    <3> HIDE DEF N, A, B, q, D, f
    <3>4. y \in 1 .. lim - first /\ N + y = q + 1 /\ N + y <= BlockSize /\ first + y = (o + 1) - f
          /\ o + 1 \in f + 1 .. job.size
      <4>1. y \in Nat /\ y >= 1 /\ N + y = q + 1 /\ N + y <= BlockSize /\ first + y = (o + 1) - f
            /\ o + 1 <= f + D
        BY ONLY <3>1, <3>2
      <4>2. first + y <= D /\ first + y <= last /\ first \in Int /\ last \in Int
        BY ONLY <3>1, <3>2, <4>1
      <4>3. y <= lim - first /\ lim - first \in Int
        BY ONLY <3>2, <3>3, <4>1, <4>2
      <4>4. o + 1 \in f + 1 .. job.size
        <5>1. f <= o
          BY <1>3 DEF f
        <5>2. o + 1 <= job.size /\ o + 1 >= f + 1 /\ f + 1 \in Int /\ job.size \in Int
          BY ONLY <3>2, <5>1
        <5> QED BY <3>2, <5>2
      <4> QED BY <4>1, <4>3, <4>4
    <3>5. NewImage[N + y] = job.data[first + y]
      BY <1>13, <3>4 DEF N
    <3>6. job.want[o + 1] = job.data[(o + 1) - f]
      BY <1>5, <3>4 DEF Wanted, f
    <3>7. u[Idx(o) + 1] = b
      BY <1>2, <2>4
    <3> QED BY <1>9, <3>4, <3>5, <3>6, <3>7 DEF q
  <2> QED BY <2>3, <2>4
<1>18. Written(d, w, i + 1)
  BY <1>0, <1>16, <1>17 DEF Written
<1>19. ASSUME i + 1 = m, NEW x \in EndOf(job.size) + 1 .. BlockSize
       PROVE  d[job.new[Len(job.new)]][x] = FF
  <2>1. /\ EndOf(job.size) \in 1 .. BlockSize /\ StartOf(m) = job.size + (BlockSize - EndOf(job.size))
    BY <1>3, Ends
  <2>2. job.new[Len(job.new)] = b
    <3>1. Len(job.new) = m - n
      BY <1>1 DEF ExtendOK
    <3>2. PICK L, D \in Nat : L = Len(job.new) /\ D = job.done
      BY <1>3
    <3>3. n \in Nat /\ m \in Nat /\ L = m - n /\ (n + D) + 1 = m
      BY <1>2, <1>3, <1>19, <3>1, <3>2
    <3>4. L = D + 1
      BY ONLY <3>3, n \in Nat, m \in Nat, L \in Nat, D \in Nat
    <3>5. Len(job.new) = job.done + 1
      BY <3>2, <3>4
    <3> QED BY <3>5
  <2>3. x \in 1 .. BlockSize /\ x > NP(i) + (lim - first)
    <3> DEFINE N == NP(i)
               A == StartOf(i)
               B == StartOf(i + 1)
               D == Len(job.data)
               f == job.f.size
               E == EndOf(job.size)
    <3>1. /\ N \in Nat /\ A \in Int /\ B = A + (BlockSize - N) /\ BlockSize \in Nat
          /\ D \in Nat /\ f \in Nat /\ f + D = job.size /\ E \in 1 .. BlockSize
          /\ B = job.size + (BlockSize - E) /\ first = A - f /\ last = B - f
          /\ x \in E + 1 .. BlockSize
      BY <1>3, <1>4, <1>19, <2>1 DEF first, last
    <3>2. lim = IF last < D THEN last ELSE D
      BY DEF lim
    <3> HIDE DEF N, A, B, D, f, E
    <3>3. last >= D /\ last \in Int
      BY ONLY <3>1
    <3>4. lim = D
      BY ONLY <3>1, <3>2, <3>3
    <3>5. x \in 1 .. BlockSize /\ x > N + (lim - first)
      BY ONLY <3>1, <3>4
    <3> QED BY <3>5 DEF N
  <2> QED BY <1>9, <1>13, <2>2, <2>3
<1> QED BY <1>2, <1>8, <1>9, <1>18, <1>19 DEF Placed

\* While the staged tail is not exposed, the allocator knows every block of the staged chain.
LEMMA StagedKnown ==
    ASSUME JobOK, pc \in {"write", "fill"}, handle # None, NEW e, NEW s, NEW w, Building(e, s, w),
           ~Exposed(e), IsChain(cells, Staged, s)
    PROVE  ToSet(s) \subseteq ToSet(w) \cup ToSet(e)
<1>1. job.call # "shrink" /\ ExtendOK /\ RunOK
  BY Runs DEF RunOK, ShrinkOK
<1>2. /\ job.f.size \in 0 .. MaxSize /\ job.f.size \in Nat
      /\ Base.size = job.f.size /\ (job.f.size > 0 => Base.head = job.tail)
  BY <1>1, ExtendNumbers
<1> SUFFICES ASSUME NEW b \in ToSet(s) PROVE b \in ToSet(w) \cup ToSet(e)
  OBVIOUS
<1>3. ToSet(s) \ {job.src} \subseteq ToSet(w) /\ IsChain(cells, Base, w)
  BY DEF Building, Good
<1>4. CASE b # job.src
  BY <1>3, <1>4
<1>5. CASE b = job.src /\ job.tail # job.src
  BY <1>1, <1>5 DEF Exposed
<1>6. CASE b = job.src /\ job.tail = job.src
  <2>1. Staged = job.f
    BY <1>1 DEF RunOK
  <2>2. job.f.size > 0
    <3>1. s \in Seq(Blocks) /\ Len(s) \in Nat /\ ((Len(s) = 0) <=> (job.f.size = 0))
      <4>1. (BlockCount(job.f.size) = 0) <=> (job.f.size = 0)
        BY <1>2, RoomIs
      <4>2. s \in Seq(Blocks) /\ Len(s) = BlockCount(job.f.size)
        BY <2>1 DEF IsChain
      <4> QED BY <4>1, <4>2
    <3>2. PICK j \in 1 .. Len(s) : b = s[j]
      BY <3>1, ToSetIs
    <3> QED BY <1>2, <3>1, <3>2
  <2>3. Base.head \in ToSet(w)
    BY <1>2, <1>3, <2>2, ChainNumbers
  <2> QED BY <1>2, <1>6, <2>2, <2>3
<1> QED BY <1>4, <1>5, <1>6

LEMMA WriteBlockKept ==
    ASSUME IInv, WriteBlock
    PROVE  IInv'
<1>1. PICK e, s, w : Kept(e, s, w)
  BY DEF IInv
<1>2. PICK b : b = job.new[job.done + 1]
  OBVIOUS
<1>3. pc = "write" /\ JobOK /\ JobOK' /\ job \in Writes /\ RunOK /\ job.call # "shrink" /\ ExtendOK
  <2>1. pc = "write" /\ JobOK /\ JobOK'
    BY Facts, WriteBlockTypes DEF WriteBlock
  <2> QED BY <2>1, Runs DEF RunOK, ShrinkOK
<1>4. /\ Good(cells, PairBlocks, cache, entry, e, durable)
      /\ cache # None => PairBlocks \subseteq cache
      /\ handle # None /\ ~Exposed(e) => /\ Good(cells, PairBlocks, cache, Staged, s, staged)
                                         /\ TailFree(cells, Staged, e, entry, faults)
      /\ Building(e, s, w)
  BY <1>1, <1>3 DEF Kept, Work
<1>5. ToSet(NewPtrs) \subseteq Blocks
  BY <1>2, <1>3, <1>4, WritePlaces
<1>6. /\ cells' = [cells EXCEPT ![b] = NewImage] /\ job' = [job EXCEPT !.done = @ + 1]
      /\ pc' = IF job.done + 1 < Len(job.new) THEN "write"
               ELSE IF job.fill > 0 /\ job.tail = job.src THEN "fill" ELSE "sync"
      /\ UNCHANGED <<pair, entry, durable, faults, handle, staged, cache>>
  BY <1>2, <1>5 DEF WriteBlock, Static
<1>7. Placed(w, b, cells')
  BY <1>2, <1>3, <1>4, <1>6, WritePlaces
<1>8. /\ b \in ToSet(job.new) /\ b \in Blocks
      /\ \A a \in Blocks : a # b => cells'[a] = cells[a]
      /\ Written(cells', w, NewIndex + 1)
      /\ NewIndex + 1 = BlockCount(job.size) =>
            \A x \in EndOf(job.size) + 1 .. BlockSize : cells'[job.new[Len(job.new)]][x] = FF
  BY <1>7 DEF Placed
<1>9. /\ job'.tail = job.tail /\ job'.call = job.call /\ job'.f = job.f
      /\ job'.data = job.data /\ job'.want = job.want /\ job'.src = job.src
      /\ job'.off = job.off /\ job'.fill = job.fill /\ job'.new = job.new /\ job'.done = job.done + 1
      /\ job'.size = job.size
  BY <1>3, <1>6 DEF Writes
<1>10. PairBlocks' = PairBlocks /\ Staged' = Staged /\ Base' = Base /\ Result' = Result
  BY <1>6, <1>9 DEF PairBlocks, Staged, Base, Result
<1>11. /\ job.f.size \in 0 .. MaxSize /\ job.f.size \in Nat /\ job.size \in 1 .. MaxSize /\ job.size \in Nat
       /\ job.f.size < job.size /\ job.fill \in 0 .. Room(job.f.size) /\ job.fill \in Nat
       /\ job.fill = Room(job.f.size) \/ job.f.size + job.fill = job.size
       /\ job.want \in Text /\ Len(job.want) = job.size /\ job.new \in Seq(Blocks) /\ Len(job.new) \in Nat
       /\ Base.size = job.f.size /\ (job.f.size > 0 => Base.head = job.tail) /\ job.done \in Nat
       /\ BlockCount(job.f.size) \in Nat /\ BlockCount(job.size) \in Nat
       /\ job.f.size = 0 => job.fill = 0
       /\ job.f.size > 0 => job.off \in 1 .. BlockSize
       /\ BlockSize \in Nat
  BY <1>3, ExtendNumbers
<1>12. Len(job.new) = BlockCount(job.size) - BlockCount(job.f.size) /\ job.done < Len(job.new)
  BY <1>3 DEF ExtendOK
<1>13. PICK old : old = SubSeq(job.want, 1, job.f.size)
  OBVIOUS
<1>14. /\ Good(cells, PairBlocks, cache, Base, w, old) /\ Wanted /\ TailPart(e, w) /\ CopyPart(e)
       /\ handle # None => ToSet(s) \ {job.src} \subseteq ToSet(w)
       /\ NewPart(e, w)
  BY <1>4, <1>13 DEF Building
<1>15. /\ Distinct(job.new) /\ ToSet(job.new) \cap ToSet(w) = {} /\ ToSet(job.new) \cap PairBlocks = {}
       /\ ToSet(job.new) \cap ToSet(e) = {} /\ (cache # None => ToSet(job.new) \subseteq cache)
  BY <1>14 DEF NewPart
<1>16. /\ IsChain(cells, Base, w) /\ w \in Seq(Blocks) /\ ToSet(w) \subseteq Blocks
       /\ (cache # None => ToSet(w) \subseteq cache) /\ ToSet(w) \cap PairBlocks = {}
       /\ IsChain(cells, entry, e) /\ ToSet(e) \subseteq Blocks
       /\ (cache # None => ToSet(e) \subseteq cache) /\ ToSet(e) \cap PairBlocks = {}
       /\ entry.size \in 0 .. MaxSize /\ faults \in Nat
  <2>1. IsChain(cells, Base, w) /\ w \in Seq(Blocks) /\ IsChain(cells, entry, e) /\ e \in Seq(Blocks)
    BY <1>4, <1>14 DEF Good, IsChain
  <2>2. ToSet(w) \subseteq Blocks /\ ToSet(e) \subseteq Blocks
    BY <2>1, ToSetIs
  <2> QED BY <1>4, <1>14, <2>1, <2>2, Facts DEF Good
<1>17. b \notin ToSet(w) /\ b \notin ToSet(e)
  BY <1>8, <1>15
<1>18. Good(cells', PairBlocks, cache, entry, e, durable) /\ Good(cells', PairBlocks, cache, Base, w, old)
  <2>1. Spared(cells, cells', entry, e) /\ Spared(cells, cells', Base, w)
    BY <1>8, <1>16, <1>17, Unwritten
  <2>2. Good(cells', PairBlocks, cache, entry, e, durable)
    BY <1>4, <1>16, <2>1, GoodFrame
  <2>3. Good(cells', PairBlocks, cache, Base, w, old)
    BY <1>11, <1>14, <1>16, <2>1, GoodFrame
  <2> QED BY <2>2, <2>3
<1>19. ASSUME handle # None, ~Exposed(e), NEW g \in Nat, g >= faults
       PROVE  Good(cells', PairBlocks, cache, Staged, s, staged) /\ TailFree(cells', Staged, e, entry, g)
  <2>1. Good(cells, PairBlocks, cache, Staged, s, staged) /\ TailFree(cells, Staged, e, entry, faults)
        /\ IsChain(cells, Staged, s) /\ Staged.size \in 0 .. MaxSize
    BY <1>4, <1>19, Facts DEF Good
  <2>2. ToSet(s) \subseteq ToSet(w) \cup ToSet(e)
    BY <1>3, <1>4, <1>19, <2>1, StagedKnown
  <2>3. ToSet(s) \subseteq Blocks /\ b \notin ToSet(s)
    BY <1>16, <1>17, <2>2
  <2>4. Spared(cells, cells', Staged, s) /\ ToSet(s) \cap PairBlocks = {} /\ (cache # None => ToSet(s) \subseteq cache)
    BY <1>8, <2>1, <2>3, Unwritten DEF Good
  <2>5. Good(cells', PairBlocks, cache, Staged, s, staged)
    BY <2>1, <2>4, GoodFrame
  <2>6. TailFree(cells', Staged, e, entry, g)
    <3>1. CASE Staged.size > 0
      <4>1. Staged.head \in ToSet(s)
        BY <2>1, <3>1, ChainNumbers
      <4>2. cells'[Staged.head] = cells[Staged.head]
        BY <1>8, <2>3, <4>1
      <4>3. faults <= g
        BY <1>16, <1>19
      <4> QED BY <1>16, <1>19, <2>1, <4>2, <4>3, TailFrame
    <3>2. CASE ~(Staged.size > 0)
      BY <3>2 DEF TailFree
    <3> QED BY <3>1, <3>2
  <2> QED BY <2>5, <2>6
<1>20. pc' \in {"write", "fill", "sync"} /\ (Exposed(e)' <=> Exposed(e))
  <2>1. pc' \in {"write", "fill", "sync"}
    BY <1>6
  <2> QED BY <1>3, <1>9, <2>1 DEF Exposed
<1>21. job.f.size > 0 => job.tail \in ToSet(w) /\ job.tail \in Blocks /\ cells'[job.tail] = cells[job.tail]
                         /\ w[Len(w)] = job.tail /\ Len(w) = BlockCount(job.f.size)
  <2> SUFFICES ASSUME job.f.size > 0
               PROVE  job.tail \in ToSet(w) /\ job.tail \in Blocks /\ w[Len(w)] = job.tail
                      /\ Len(w) = BlockCount(job.f.size)
    BY <1>8, <1>17
  <2>1. Base.size \in 0 .. MaxSize /\ Base.size > 0 /\ Base.head = job.tail /\ Base.size = job.f.size
    BY <1>11
  <2>2. Len(w) = BlockCount(Base.size) /\ Base.head \in ToSet(w) /\ Base.head = w[Len(w)]
    BY <1>16, <2>1, ChainNumbers
  <2> QED BY <1>16, <2>1, <2>2
<1>22. TailPart(e, w) /\ (job.tail # job.src => job.fill > 0 /\ job.f.size > 0)
  <2>1. job.tail # job.src => job.fill > 0
    BY <1>3 DEF ExtendOK
  <2> QED BY <1>11, <1>14, <2>1
<1>23. job.tail # job.src =>
          /\ job.tail \notin ToSet(e)
          /\ Reads(cells', w, job.f.size, job.f.size + job.fill, job.want)
          /\ \A x \in job.off + job.fill + 1 .. BlockSize : cells'[job.tail][x] = FF
  <2> SUFFICES ASSUME job.tail # job.src PROVE Reads(cells', w, job.f.size, job.f.size + job.fill, job.want)
    BY <1>21, <1>22 DEF TailPart
  <2>1. Reads(cells, w, job.f.size, job.f.size + job.fill, job.want)
    BY <1>22 DEF TailPart
  <2> SUFFICES ASSUME NEW o \in job.f.size .. (job.f.size + job.fill) - 1
               PROVE  cells'[w[Idx(o) + 1]][Pos(o) + 1] = job.want[o + 1]
    BY DEF Reads
  <2>2. o \in job.f.size .. job.size - 1 /\ o - job.f.size < Room(job.f.size) /\ job.size \in 0 .. MaxSize
    <3>1. Room(job.f.size) \in Nat /\ job.f.size + job.fill <= job.size
      BY <1>3, ExtendNumbers
    <3> QED BY <1>11, <3>1
  <2>3. Idx(o) = BlockCount(job.f.size) - 1
    BY <1>11, <2>2, Grows
  <2>4. w[Idx(o) + 1] = job.tail
    BY <1>11, <1>21, <1>22, <2>3
  <2> QED BY <1>21, <1>22, <2>1, <2>4 DEF Reads
<1>24. CASE pc' \in {"write", "fill"}
  <2>1. TailPart(e, w)'
    <3>1. CASE job.tail # job.src
      BY <1>6, <1>9, <1>23, <3>1 DEF TailPart
    <3>2. CASE job.tail = job.src
      <4>1. TailFree(cells, job.f, e, entry, faults) /\ Clean(job.tail, job.off, job.fill)
        BY <1>3, <1>22, <3>2 DEF TailPart
      <4>2. Clean(job.tail, job.off, job.fill)'
        <5>1. CASE job.f.size > 0
          BY <1>9, <1>21, <4>1, <5>1 DEF Clean
        <5>2. CASE ~(job.f.size > 0)
          <6>1. job.fill = 0 /\ job.off \in Nat
            BY <1>3, <1>11, <5>2, JobNumbers
          <6>2. ~ \E x \in job.off + 1 .. job.off + job.fill : TRUE
            BY <6>1
          <6> QED BY <1>9, <6>2 DEF Clean
        <5> QED BY <5>1, <5>2
      <4>3. TailFree(cells', job.f, e, entry, faults)
        <5>1. CASE job.f.size > 0
          <6>1. job.tail = job.f.head /\ faults <= faults
            BY <1>3, <1>16, <3>2 DEF ExtendOK
          <6> QED BY <1>16, <1>21, <4>1, <5>1, <6>1, TailFrame
        <5>2. CASE ~(job.f.size > 0)
          BY <5>2 DEF TailFree
        <5> QED BY <5>1, <5>2
      <4> QED BY <1>6, <1>9, <3>2, <4>2, <4>3 DEF TailPart
    <3> QED BY <3>1, <3>2
  <2>2. Wanted' /\ CopyPart(e)' /\ NewPart(e, w)'
    BY <1>3, <1>6, <1>9, <1>10, <1>14, <1>24 DEF Wanted, CopyPart, NewPart
  <2>3. BuiltPart(w)'
    <3>1. BlockCount(job.f.size) + (job.done + 1) = NewIndex + 1
      BY <1>11 DEF NewIndex
    <3>2. job.done + 1 = Len(job.new) => NewIndex + 1 = BlockCount(job.size)
      BY <1>11, <1>12, <3>1
    <3>3. Written(cells', w, BlockCount(job.f.size) + (job.done + 1))
      BY <1>8, <3>1
    <3>4. PICK N : N = BlockCount(job.f.size) + (job.done + 1)
      OBVIOUS
    <3>5. /\ Linked(cells', w \o job'.new, N)
          /\ \A o \in job'.f.size + job'.fill .. job'.size - 1 :
                Idx(o) < N => cells'[(w \o job'.new)[Idx(o) + 1]][Pos(o) + 1] = job'.want[o + 1]
      <4>1. PICK f, z, new, want, fill :
               /\ f = job.f.size /\ z = job.size /\ new = w \o job.new /\ want = job.want
               /\ fill = job.fill
        OBVIOUS
      <4>2. /\ Linked(cells', new, N)
            /\ \A o \in f + fill .. z - 1 :
                  Idx(o) < N => cells'[new[Idx(o) + 1]][Pos(o) + 1] = want[o + 1]
        BY ONLY <3>3, <3>4, <4>1 DEF Written
      <4>3. /\ f = job'.f.size /\ z = job'.size /\ new = w \o job'.new /\ want = job'.want
            /\ fill = job'.fill
        BY ONLY <1>9, <4>1
      <4> QED BY ONLY <4>2, <4>3
    <3>6. N = BlockCount(job'.f.size) + job'.done
      BY <1>9, <3>4
    <3>7. Written(cells, w, BlockCount(job.f.size) + job.done)'
      BY <3>5, <3>6 DEF Written
    <3> QED BY <1>8, <1>9, <3>2, <3>7 DEF BuiltPart
  <2>4. Building(e, s, w)'
    BY <1>6, <1>9, <1>10, <1>13, <1>14, <1>18, <2>1, <2>2, <2>3 DEF Building
  <2>5. handle # None /\ ~Exposed(e) =>
           Good(cells', PairBlocks, cache, Staged, s, staged) /\ TailFree(cells', Staged, e, entry, faults)
    <3>1. faults >= faults
      BY <1>16
    <3> QED BY <1>16, <1>19, <3>1
  <2>6. Kept(e, s, w)'
    BY <1>4, <1>6, <1>10, <1>18, <1>20, <1>24, <2>4, <2>5 DEF Kept, Work
  <2> QED BY <1>3, <1>6, <1>10, <2>6, Facts DEF IInv
<1>25. CASE pc' = "sync"
  <2>1. job.done + 1 = Len(job.new) /\ (job.fill = 0 \/ job.tail # job.src)
    <3>1. ~(job.done + 1 < Len(job.new)) /\ ~(job.fill > 0 /\ job.tail = job.src)
      BY <1>6, <1>25
    <3>2. job.done \in Nat /\ Len(job.new) \in Nat /\ job.fill \in Nat /\ job.done < Len(job.new)
      BY <1>11, <1>12
    <3> QED BY ONLY <3>1, <3>2
  <2>2. NewIndex + 1 = BlockCount(job.size)
    BY <1>11, <1>12, <2>1 DEF NewIndex
  <2>3. Reads(cells', w, job.f.size, job.f.size + job.fill, job.want)
    <3>1. CASE job.tail # job.src
      BY <1>23, <3>1
    <3>2. CASE job.fill = 0
      BY <1>11, <3>2 DEF Reads
    <3> QED BY <2>1, <3>1, <3>2
  <2>4. job.new # <<>>
    BY <1>11, <2>1
  <2>5. PICK c, u : c = cells' /\ u = w \o job.new
    OBVIOUS
  <2>6. Good(c, PairBlocks, cache, Result, u, job.want)
    <3>1. PICK f, g : f = Base /\ g = Result
      OBVIOUS
    <3>2. /\ g.size = job.size /\ g.head = IF job.new # <<>> THEN job.new[Len(job.new)] ELSE f.head
      BY <2>4, <3>1 DEF Result
    <3>3. /\ Linked(c, w \o job.new, BlockCount(g.size))
          /\ \A o \in f.size + job.fill .. g.size - 1 :
                c[(w \o job.new)[Idx(o) + 1]][Pos(o) + 1] = job.want[o + 1]
      <4>1. ASSUME NEW o \in job.f.size + job.fill .. job.size - 1 PROVE Idx(o) < BlockCount(job.size)
        <5>1. o \in 0 .. job.size - 1
          BY <1>11
        <5>2. Idx(o) + 1 \in 1 .. BlockCount(job.size) /\ Idx(o) \in Nat
          BY <1>11, <5>1, ByteAt
        <5> QED BY <1>11, <5>2
      <4>2. Written(c, w, BlockCount(job.size))
        BY <1>8, <2>2, <2>5
      <4> QED BY <1>11, <3>1, <3>2, <4>1, <4>2 DEF Written
    <3>4. /\ Len(old) = job.f.size /\ \A o \in 1 .. job.f.size : old[o] = job.want[o]
      BY <1>11, <1>13 DEF Text
    <3>5. /\ Good(c, PairBlocks, cache, f, w, old) /\ f.size \in 0 .. MaxSize /\ g.size \in 1 .. MaxSize
          /\ f.size < g.size /\ job.fill \in 0 .. Room(f.size)
          /\ job.fill = Room(f.size) \/ f.size + job.fill = g.size
          /\ Len(job.new) = BlockCount(g.size) - BlockCount(f.size)
          /\ Len(job.want) = g.size /\ \A o \in 1 .. f.size : old[o] = job.want[o]
          /\ Reads(c, w, f.size, f.size + job.fill, job.want) /\ job.new \in Seq(Blocks)
      BY <1>11, <1>12, <1>18, <2>3, <2>5, <3>1, <3>2, <3>4
    <3>6. Good(c, PairBlocks, cache, g, w \o job.new, job.want)
      BY ONLY <1>15, <3>2, <3>3, <3>5, GoodAssembled
    <3> QED BY <2>5, <3>1, <3>6
  <2>7. TailFree(cells', Result, e, entry, faults)
    <3>1. \A x \in EndOf(job.size) + 1 .. BlockSize : cells'[job.new[Len(job.new)]][x] = FF
      BY <1>8, <2>2
    <3> QED BY <1>3, <1>15, <2>4, <3>1, ResultTail
  <2>8. Exposed(e) => faults >= 1
    BY <1>14 DEF Exposed, CopyPart
  <2>9. handle # None /\ ~Exposed(e) =>
           Good(cells', PairBlocks, cache, Staged, s, staged) /\ TailFree(cells', Staged, e, entry, 1)
    <3>1. CASE faults = 0
      <4>1. 1 \in Nat /\ 1 >= faults
        BY <3>1
      <4> QED BY <1>19, <4>1
    <3>2. CASE faults # 0
      <4>1. faults >= faults /\ faults >= 1
        BY <1>16, <3>2
      <4>2. handle # None /\ ~Exposed(e) =>
              Good(cells', PairBlocks, cache, Staged, s, staged) /\ TailFree(cells', Staged, e, entry, faults)
        BY <1>16, <1>19, <4>1
      <4> QED BY <4>2, TailAny
    <3> QED BY <3>1, <3>2
  <2>10. Kept(e, s, u)'
    BY <1>4, <1>6, <1>9, <1>10, <1>18, <1>20, <1>25, <2>5, <2>6, <2>7, <2>8, <2>9 DEF Kept, Work
  <2> QED BY <1>3, <1>6, <1>10, <2>10, Facts DEF IInv
<1> QED BY <1>20, <1>24, <1>25

----------------------------------------------------------------------------
(* A block that fails.                                                     *)

WornBlock == IF pc = "cow" THEN CowAlloc.blocks[1] ELSE job.new[job.done + 1]

\* Nobody needs what the failed block held.
WornApart(e, s, w, b) ==
    /\ b \in Blocks /\ b \notin PairBlocks /\ b \notin ToSet(e)
    /\ handle # None => b \notin ToSet(s)
    /\ job.call # "shrink" => b \notin ToSet(w)
    /\ pc = "cow" => /\ PairBlocks \subseteq CowAlloc.cache /\ ToSet(e) \subseteq CowAlloc.cache
                     /\ handle # None => ToSet(s) \subseteq CowAlloc.cache

LEMMA WornIsApart ==
    ASSUME Sheltered, IInv, Worn, NEW e, NEW s, NEW w, Kept(e, s, w), NEW b, b = WornBlock
    PROVE  WornApart(e, s, w, b)
<1>1. /\ pc \in {"cow", "write"} /\ faults < MaxFaults
      /\ pc = "cow" => CowAlloc.blocks # <<>>
  BY DEF Worn
<1>2. CASE pc = "cow"
  <2>1. PICK ch : ch = IF job.call = "shrink" THEN s ELSE w
    OBVIOUS
  <2>2. CowSpared(e, ch, b) /\ (handle # None => ToSet(s) \subseteq ToSet(ch))
    BY <1>1, <1>2, <2>1, CowSpares DEF WornBlock
  <2> QED BY <1>2, <2>1, <2>2 DEF CowSpared, WornApart
<1>3. CASE pc = "write"
  <2>1. JobOK /\ RunOK /\ job \in Writes /\ job.call # "shrink" /\ ExtendOK
    BY <1>3, Facts, Runs DEF RunOK, ShrinkOK
  <2>2. Building(e, s, w)
    BY <1>3, <2>1 DEF Kept, Work
  <2>3. b \in ToSet(job.new) /\ b \in Blocks
    <3>1. job.new \in Seq(Blocks) /\ Len(job.new) \in Nat /\ job.done \in Nat
      BY <2>1, JobNumbers
    <3>2. job.done + 1 \in 1 .. Len(job.new)
      BY <1>3, <2>1, <3>1 DEF ExtendOK
    <3> QED BY <1>3, <3>1, <3>2, ToSetIs DEF WornBlock
  <2>4. b \notin ToSet(w) /\ b \notin ToSet(e) /\ b \notin PairBlocks
    BY <2>2, <2>3 DEF Building, NewPart
  <2>5. handle # None => b \notin ToSet(s)
    <3> SUFFICES ASSUME handle # None PROVE ToSet(s) \subseteq ToSet(w) \cup ToSet(e)
      BY <2>4
    <3>1. ~Exposed(e)
      BY <1>1, NoExposure
    <3>2. IsChain(cells, Staged, s)
      BY <3>1 DEF Kept, Good
    <3> QED BY <1>3, <2>1, <2>2, <3>1, <3>2, StagedKnown
  <2> QED BY <1>3, <2>3, <2>4, <2>5 DEF WornApart
<1> QED BY <1>1, <1>2, <1>3

LEMMA WornKept ==
    ASSUME Sheltered, IInv, Worn
    PROVE  IInv'
<1>1. PICK e, s, w : Kept(e, s, w)
  BY DEF IInv
<1>2. PICK b : b = WornBlock
  OBVIOUS
<1>3. /\ pc \in {"cow", "write"} /\ faults < MaxFaults /\ cells' = [cells EXCEPT ![b] = Scrap]
      /\ UNCHANGED <<pair, entry, durable, handle, staged>> /\ faults' = faults + 1
      /\ \/ /\ job' = [job EXCEPT !.ex = @ \cup {b}, !.new = <<>>, !.done = 0]
            /\ pc' = IF pc = "cow" THEN "cow" ELSE "grow"
            /\ cache' = None
         \/ /\ pc' = "idle"
            /\ cache' = IF pc = "cow" THEN CowAlloc.cache ELSE cache
  BY <1>2 DEF Worn, WornBlock, Static, Fail
<1>4. JobOK' /\ JobOK /\ RestOK /\ RunOK /\ job \in Writes
  BY <1>3, Facts, WornTypes, Runs
<1>5. /\ b \in Blocks /\ b \notin PairBlocks /\ b \notin ToSet(e)
      /\ handle # None => b \notin ToSet(s)
      /\ job.call # "shrink" => b \notin ToSet(w)
      /\ pc = "cow" => /\ PairBlocks \subseteq CowAlloc.cache /\ ToSet(e) \subseteq CowAlloc.cache
                       /\ handle # None => ToSet(s) \subseteq CowAlloc.cache
  <2>1. WornApart(e, s, w, b)
    BY <1>1, <1>2, WornIsApart
  <2> QED BY <2>1 DEF WornApart
<1>6. \A a \in Blocks : a # b => cells'[a] = cells[a]
  BY <1>3, <1>4, <1>5 DEF RestOK
<1>7. /\ Good(cells, PairBlocks, cache, entry, e, durable) /\ entry.size \in 0 .. MaxSize
      /\ cache # None => PairBlocks \subseteq cache
      /\ handle # None => /\ Good(cells, PairBlocks, cache, Staged, s, staged)
                          /\ TailFree(cells, Staged, e, entry, faults)
                          /\ Staged.size \in 0 .. MaxSize
  <2>1. handle # None => ~Exposed(e)
    BY <1>1, <1>3, NoExposure
  <2> QED BY <1>1, <1>3, <2>1, Facts DEF Kept
<1>8. faults' \in Nat /\ faults' >= 1 /\ PairBlocks' = PairBlocks /\ Staged' = Staged
  BY <1>3, Facts DEF PairBlocks, Staged
<1>9. cache' # None => /\ PairBlocks \subseteq cache' /\ ToSet(e) \subseteq cache'
                       /\ handle # None => ToSet(s) \subseteq cache'
  BY <1>3, <1>5, <1>7 DEF Good
<1>10. Good(cells', PairBlocks, cache', entry, e, durable)
  <2>1. ToSet(e) \subseteq Blocks /\ ToSet(e) \cap PairBlocks = {}
    BY <1>7, ToSetIs DEF Good, IsChain
  <2>2. Spared(cells, cells', entry, e)
    BY <1>5, <1>6, <2>1, Unwritten
  <2> QED BY <1>7, <1>9, <2>1, <2>2, GoodFrame
<1>11. handle # None => /\ Good(cells', PairBlocks, cache', Staged, s, staged)
                        /\ TailFree(cells', Staged, e, entry, faults')
  <2> SUFFICES ASSUME handle # None
               PROVE  /\ Good(cells', PairBlocks, cache', Staged, s, staged)
                      /\ TailFree(cells', Staged, e, entry, faults')
    OBVIOUS
  <2>1. ToSet(s) \subseteq Blocks /\ ToSet(s) \cap PairBlocks = {}
    BY <1>7, ToSetIs DEF Good, IsChain
  <2>2. Spared(cells, cells', Staged, s)
    BY <1>5, <1>6, <2>1, Unwritten
  <2>3. TailFree(cells', Staged, e, entry, faults')
    BY <1>7, <1>8, TailAny
  <2> QED BY <1>7, <1>9, <2>1, <2>2, <2>3, GoodFrame
<1>12. handle # None => handle.parent = PairBlocks /\ "open" \in Calls
  BY Facts
<1>13. CASE pc' = "idle"
  BY <1>3, <1>4, <1>8, <1>9, <1>10, <1>11, <1>12, <1>13, ToIdle
<1>14. CASE pc' # "idle"
  <2>1. /\ job' = [job EXCEPT !.ex = @ \cup {b}, !.new = <<>>, !.done = 0]
        /\ pc' = IF pc = "cow" THEN "cow" ELSE "grow"
        /\ cache' = None
    BY <1>3, <1>14
  <2>2. /\ job'.tail = job.tail /\ job'.call = job.call /\ job'.f = job.f
        /\ job'.data = job.data /\ job'.want = job.want /\ job'.src = job.src
        /\ job'.off = job.off /\ job'.fill = job.fill /\ job'.new = <<>> /\ job'.done = 0
        /\ job'.size = job.size /\ job'.own = job.own
    BY <1>4, <2>1 DEF Writes
  <2>3. pc' \in {"cow", "grow"} /\ ~Exposed(e)'
    <3>1. pc' \in {"cow", "grow"}
      BY <2>1
    <3> QED BY <3>1 DEF Exposed
  <2>4. CASE job.call = "shrink"
    <3>1. pc = "cow" /\ pc' = "cow"
      BY <1>3, <1>4, <2>1, <2>4 DEF RunOK, ShrinkOK
    <3>2. /\ job.src = s[BlockCount(job.size)] /\ job.own = ToSet(s)
          /\ job.want = SubSeq(staged, 1, job.size)
      BY <1>1, <2>4, <3>1 DEF Kept, Work
    <3>3. Kept(e, s, w)'
      BY <1>3, <1>8, <1>9, <1>10, <1>11, <2>2, <2>3, <2>4, <3>1, <3>2 DEF Kept, Work
    <3> QED BY <1>3, <1>4, <1>8, <1>12, <3>3 DEF IInv
  <2>5. CASE job.call # "shrink"
    <3>1. Building(e, s, w)
      BY <1>1, <1>3, <2>5 DEF Kept, Work
    <3>2. PICK old : old = SubSeq(job.want, 1, job.f.size)
      OBVIOUS
    <3>3. /\ job.f.size \in 0 .. MaxSize /\ job.f.size \in Nat /\ job.size \in 1 .. MaxSize /\ job.size \in Nat
          /\ job.f.size < job.size /\ job.fill \in 0 .. Room(job.f.size) /\ job.fill \in Nat
          /\ job.fill = Room(job.f.size) \/ job.f.size + job.fill = job.size
          /\ Base.size = job.f.size /\ (job.f.size > 0 => Base.head = job.tail)
          /\ BlockCount(job.f.size) \in Nat /\ (job.f.size = 0 => job.fill = 0) /\ job.off \in Nat
          /\ Room(job.f.size) \in Nat /\ job.f.size + job.fill <= job.size /\ ExtendOK
      <4>1. pc \in {"cow", "grow", "write", "fill", "sync"}
        BY <1>3
      <4> QED BY <1>4, <2>5, <4>1, ExtendNumbers, JobNumbers
    <3>4. /\ Good(cells, PairBlocks, cache, Base, w, old) /\ Wanted /\ TailPart(e, w)
          /\ handle # None => ToSet(s) \ {job.src} \subseteq ToSet(w)
      BY <3>1, <3>2 DEF Building
    <3>5. ToSet(w) \subseteq Blocks /\ ToSet(w) \cap PairBlocks = {} /\ IsChain(cells, Base, w)
      BY <3>4, ToSetIs DEF Good, IsChain
    <3>6. Good(cells', PairBlocks, cache', Base, w, old)
      <4>1. Spared(cells, cells', Base, w)
        BY <1>5, <1>6, <2>5, <3>5, Unwritten
      <4> QED BY <2>1, <3>3, <3>4, <3>5, <4>1, GoodFrame
    <3>7. Base' = Base
      BY <2>2 DEF Base
    <3>8. job.f.size > 0 => /\ job.tail \in Blocks /\ cells'[job.tail] = cells[job.tail]
                            /\ w[BlockCount(job.f.size)] = job.tail
      <4> SUFFICES ASSUME job.f.size > 0
                   PROVE  job.tail \in ToSet(w) /\ w[BlockCount(job.f.size)] = job.tail
        BY <1>5, <1>6, <2>5, <3>5
      <4>1. Base.size \in 0 .. MaxSize /\ Base.size > 0 /\ Base.head = job.tail /\ Base.size = job.f.size
        BY <3>3
      <4>2. Len(w) = BlockCount(Base.size) /\ Base.head \in ToSet(w) /\ Base.head = w[Len(w)]
        BY <3>5, <4>1, ChainNumbers
      <4> QED BY <4>1, <4>2
    <3>9. TailPart(e, w)'
      <4>1. CASE job.tail = job.src
        <5>1. TailFree(cells, job.f, e, entry, faults) /\ (pc # "cow" => Clean(job.tail, job.off, job.fill))
          BY <3>4, <4>1 DEF TailPart
        <5>2. TailFree(cells', job.f, e, entry, faults')
          BY <1>8, <5>1, TailAny
        <5>3. Clean(job.tail, job.off, job.fill) => Clean(job.tail, job.off, job.fill)'
          <6>1. CASE job.f.size > 0
            BY <2>2, <3>8, <6>1 DEF Clean
          <6>2. CASE ~(job.f.size > 0)
            <7>1. job.fill = 0
              BY <3>3, <6>2
            <7>2. ~ \E x \in job.off + 1 .. job.off + job.fill : TRUE
              BY <3>3, <7>1
            <7> QED BY <2>2, <7>2 DEF Clean
          <6> QED BY <6>1, <6>2
        <5>4. pc' # "cow" => pc # "cow"
          BY <2>1
        <5> QED BY <1>3, <2>2, <4>1, <5>1, <5>2, <5>3, <5>4 DEF TailPart
      <4>2. CASE job.tail # job.src
        <5>1. job.f.size > 0
          BY <3>3, <4>2 DEF ExtendOK
        <5>2. /\ job.tail \notin ToSet(e)
              /\ Reads(cells, w, job.f.size, job.f.size + job.fill, job.want)
              /\ \A x \in job.off + job.fill + 1 .. BlockSize : cells[job.tail][x] = FF
          BY <3>4, <4>2 DEF TailPart
        <5>3. Reads(cells', w, job.f.size, job.f.size + job.fill, job.want)
          <6> SUFFICES ASSUME NEW o \in job.f.size .. (job.f.size + job.fill) - 1
                       PROVE  cells'[w[Idx(o) + 1]][Pos(o) + 1] = job.want[o + 1]
            BY DEF Reads
          <6>1. o \in job.f.size .. job.size - 1 /\ o - job.f.size < Room(job.f.size) /\ job.size \in 0 .. MaxSize
            BY <3>3
          <6>2. Idx(o) = BlockCount(job.f.size) - 1
            BY <3>3, <6>1, Grows
          <6>3. w[Idx(o) + 1] = job.tail
            BY <3>3, <3>8, <5>1, <6>2
          <6> QED BY <3>8, <5>1, <5>2, <6>3 DEF Reads
        <5> QED BY <2>2, <3>8, <4>2, <5>1, <5>2, <5>3 DEF TailPart
      <4> QED BY <4>1, <4>2
    <3>10. Wanted' /\ CopyPart(e)'
      BY <1>8, <2>2, <3>4 DEF Wanted, CopyPart
    <3>11. <<>> \in Seq(Blocks) /\ Distinct(<<>>) /\ ToSet(<<>>) = {}
      BY DEF Distinct, ToSet
    <3>12. NewPart(e, w)'
      BY <2>2, <3>11 DEF NewPart
    <3>13. BuiltPart(w)'
      <4>1. w \in Seq(Blocks) /\ Len(w) = BlockCount(job.f.size) /\ Linked(cells', w, Len(w))
        BY <3>3, <3>6 DEF Good, IsChain
      <4>2. /\ Linked(cells', w \o <<>>, BlockCount(job.f.size))
            /\ \A o \in job.f.size + job.fill .. job.size - 1 : ~(Idx(o) < BlockCount(job.f.size))
        BY <3>3, <3>11, <4>1, BaseWritten
      <4>3. BlockCount(job.f.size) + 0 = BlockCount(job.f.size)
        BY <3>3
      <4> QED BY <2>2, <4>2, <4>3 DEF BuiltPart, Written
    <3>14. Building(e, s, w)'
      BY <1>3, <1>8, <2>2, <3>2, <3>4, <3>6, <3>7, <3>9, <3>10, <3>12, <3>13 DEF Building
    <3>15. Kept(e, s, w)'
      BY <1>3, <1>8, <1>9, <1>10, <1>11, <2>2, <2>3, <2>5, <3>14 DEF Kept, Work
    <3> QED BY <1>3, <1>4, <1>8, <1>12, <3>15 DEF IInv
  <2> QED BY <2>4, <2>5
<1> QED BY <1>13, <1>14

----------------------------------------------------------------------------
(* The call goes on where it was, and the invariant as a whole.            *)

LEMMA ExtendedKept ==
    ASSUME IInv, Extended
    PROVE  IInv'
<1>1. PICK e, s, w : Kept(e, s, w)
  BY DEF IInv
<1>2. PICK f : f = Result
  OBVIOUS
<1>3. pc = "sync" /\ UNCHANGED <<pair, entry, durable, cells, cache, faults>> /\ PairBlocks' = PairBlocks
  BY DEF Extended, Static, PairBlocks
<1>4. JobOK' /\ JobOK /\ TypeOK /\ RestOK /\ RunOK /\ job \in Writes
  BY <1>3, Facts, ExtendedTypes, Runs
<1>5. /\ f \in Files /\ f.head \in Blocks /\ f.size = job.size /\ f = [head |-> f.head, size |-> job.size]
      /\ f.head = IF job.new # <<>> THEN job.new[Len(job.new)] ELSE job.tail
      /\ job.size \in 1 .. MaxSize /\ job.size \in 0 .. MaxSize /\ job.more \in Nat
      /\ Len(job.want) = job.size /\ job.want \in Text
  <2>1. /\ f \in Files /\ f.head \in Blocks /\ f.size = job.size /\ job.size \in 1 .. MaxSize
        /\ job.more \in Nat /\ Len(job.want) = job.size /\ job.want \in Text
    BY <1>2, <1>3, <1>4, ResultType
  <2>2. job.size \in 0 .. MaxSize
    BY <2>1, Constants
  <2> QED BY <1>2, <2>1, <2>2 DEF Result
<1>6. /\ Good(cells, PairBlocks, cache, entry, e, durable)
      /\ cache # None => PairBlocks \subseteq cache
      /\ Good(cells, PairBlocks, cache, f, w, job.want)
      /\ TailFree(cells, f, e, entry, faults)
  BY <1>1, <1>2, <1>3 DEF Kept, Work
<1> DEFINE moved(dirty) == [handle EXCEPT !.head = f.head, !.size = job.size, !.dirty = dirty]
<1>7. ASSUME job.call # "append", NEW dirty, handle' = moved(dirty)
      PROVE  Staged' = f /\ handle'.parent = PairBlocks /\ "open" \in Calls
  <2>1. handle \in Handles /\ handle # None
    BY <1>4, <1>7 DEF RunOK, RestOK
  <2>2. handle'.parent = handle.parent /\ handle'.head = f.head /\ handle'.size = job.size
    BY <1>7, <2>1 DEF Handles
  <2> QED BY <1>5, <2>1, <2>2, Facts DEF Staged
<1>8. CASE /\ job.call # "append" /\ handle' = moved(TRUE) /\ staged' = job.want /\ pc' = "idle"
  <2>1. Staged' = f /\ handle'.parent = PairBlocks /\ "open" \in Calls
    BY <1>7, <1>8
  <2> QED BY <1>3, <1>4, <1>6, <1>8, <2>1, ToIdle
<1>9. CASE /\ job.call = "zero" /\ job.more > 0 /\ handle' = moved(handle.dirty) /\ staged' = job.want
           /\ ZeroFill(f, job.more, job.want)
  <2>1. Staged' = f /\ handle'.parent = PairBlocks /\ "open" \in Calls
    BY <1>7, <1>9
  <2>2. f.size + job.more <= MaxSize /\ ((f.size = 0) <=> (f.head = None)) /\ Len(job.want) = f.size
    BY <1>4, <1>5, NoneAssumption DEF RunOK
  <2> QED BY <1>3, <1>4, <1>5, <1>6, <1>9, <2>1, <2>2, ZeroKept
<1>10. CASE /\ job.call = "append" /\ job' = [call |-> "append", f |-> f, want |-> job.want]
            /\ pc' = "commit" /\ UNCHANGED <<handle, staged>>
  <2>1. handle = None /\ job'.f = f /\ job'.want = job.want
    BY <1>4, <1>10 DEF RunOK
  <2>2. Kept(e, s, w)'
    BY <1>3, <1>6, <1>10, <2>1 DEF Kept, Work
  <2> QED BY <1>4, <1>10, <2>1, <2>2 DEF IInv
<1>11. f = [head |-> IF job.new # <<>> THEN job.new[Len(job.new)] ELSE job.tail, size |-> job.size]
  BY <1>5
<1> QED BY <1>5, <1>8, <1>9, <1>10, <1>11 DEF Extended

LEMMA InitKept == Init => IInv
<1> SUFFICES ASSUME Init PROVE IInv
  OBVIOUS
<1>1. JobOK /\ entry.size = 0 /\ durable = <<>> /\ handle = None /\ pc = "idle" /\ cache = None
  BY InitTypes DEF Init, Empty
<1>2. Good(cells, PairBlocks, cache, entry, <<>>, <<>>)
  BY <1>1, EmptyGood
<1>3. Kept(<<>>, <<>>, <<>>)
  BY <1>1, <1>2 DEF Kept, Work
<1> QED BY <1>1, <1>3 DEF IInv

LEMMA StutterKept ==
    ASSUME IInv, UNCHANGED vars
    PROVE  IInv'
<1>1. PICK e, s, w : Kept(e, s, w)
  BY DEF IInv
<1>2. /\ cells' = cells /\ pair' = pair /\ entry' = entry /\ handle' = handle /\ cache' = cache
      /\ job' = job /\ pc' = pc /\ durable' = durable /\ staged' = staged /\ faults' = faults
  BY DEF vars
<1>3. PairBlocks' = PairBlocks /\ Staged' = Staged /\ Base' = Base /\ Result' = Result
  BY <1>2 DEF PairBlocks, Staged, Base, Result
<1>4. JobOK'
  BY Facts, JobStep
<1>5. Exposed(e)' <=> Exposed(e)
  BY <1>2 DEF Exposed
<1>6. Building(e, s, w) => Building(e, s, w)'
  BY <1>2, <1>3 DEF Building, Wanted, TailPart, CopyPart, NewPart, BuiltPart, Written, Clean
<1>7. Kept(e, s, w)'
  BY <1>1, <1>2, <1>3, <1>5, <1>6 DEF Kept, Work
<1> QED BY <1>2, <1>3, <1>4, <1>7, Facts DEF IInv

\* Every step keeps the invariant.
LEMMA StepKept ==
    ASSUME Sheltered, IInv, [Next]_vars
    PROVE  IInv'
<1>1. CASE UNCHANGED vars
  BY <1>1, StutterKept
<1>2. CASE \E truncate \in BOOLEAN : Open(truncate)
  BY <1>2, OpenKept
<1>3. CASE \E len \in Lens : \E data \in Data(len) :
              /\ handle # None => handle.size + len <= MaxSize
              /\ handle = None => entry.size + len <= MaxSize
              /\ Write(data) \/ AppendPath(data) \/ Rewrite(data)
  BY <1>3, WriteKept
<1>4. CASE \E size \in Sizes : Grow(size) \/ Shrink(size) \/ TruncatePath(size)
  BY <1>4, GrowKept, ShrinkKept, TruncatePathKept
<1>5. CASE Clear \/ Sync(TRUE) \/ Sync(FALSE) \/ CleanSync \/ Drop
  BY <1>5, HandleKept, SyncKept
<1>6. CASE CowWrite
  BY <1>6, CowShrinkKept, CowExtendKept
<1>7. CASE TakeBlocks \/ NoSpace \/ WriteBlock \/ Worn
  BY <1>7, TakeBlocksKept, NoSpaceKept, WriteBlockKept, WornKept
<1>8. CASE Fill \/ FillErr \/ SyncErr \/ Extended
  BY <1>8, FillKept, FillErrKept, SyncErrKept, ExtendedKept
<1>9. CASE CommitAppend \/ CommitCompact \/ CommitRelocate \/ CommitStale \/ CommitRefused \/ CommitErr
  BY <1>9, CommitInPlace, CommitMoves, CommitStaleKept, CommitFails
<1>10. CASE PowerLoss
  BY <1>10, PowerLossKept
<1>11. CASE Done
  BY <1>1, <1>11 DEF Done
<1> QED BY <1>1, <1>2, <1>3, <1>4, <1>5, <1>6, <1>7, <1>8, <1>9, <1>10, <1>11 DEF Next

----------------------------------------------------------------------------
(* The pair stays out of every chain that can be walked.                   *)

\* A walk returns the head, what blocks hold, or nothing.
LEMMA ChainIn ==
    ASSUME NEW S, NEW c \in [Blocks -> [1 .. BlockSize -> S]], NEW f, f.size \in 0 .. MaxSize,
           f.head \in S \cup {None}
    PROVE  ChainBlocks(c, f) \subseteq S \cup {None}
<1> DEFINE n == BlockCount(f.size)
           T == S \cup {None}
           at[j \in 0 .. n - 1] ==
               IF j = 0 THEN f.head
               ELSE IF j = 1 \/ (n - 1 - j) % 2 = 1 THEN Ptr(c, at[j - 1], 0)
               ELSE Ptr(c, at[j - 2], 1)
           step == [j \in 1 .. n - 1 |-> [x \in T \X T |->
                       <<IF j = 1 \/ (n - 1 - j) % 2 = 1 THEN Ptr(c, x[1], 0) ELSE Ptr(c, x[2], 1), x[1]>>]]
<1>0. n \in Nat
  BY RoomIs
<1>1. \A b \in T : Ptr(c, b, 0) \in T /\ Ptr(c, b, 1) \in T
  <2>1. 0 + 1 \in 1 .. BlockSize /\ 1 + 1 \in 1 .. BlockSize
    BY Constants
  <2>2. \A b \in Blocks : c[b][0 + 1] \in S /\ c[b][1 + 1] \in S
    BY <2>1
  <2> QED BY <2>2 DEF Ptr
<1>2. Chain(c, f) = [i \in 1 .. n |-> at[n - i]]
  BY DEF Chain
<1>3. CASE n = 0
  <2>1. Chain(c, f) = <<>>
    BY <1>2, <1>3
  <2> QED BY <2>1 DEF ChainBlocks, ToSet
<1>4. CASE n # 0
  <2>1. PICK N \in Nat : N = n - 1
    BY <1>0, <1>4
  <2>2. StepsStay(step, N, T \X T)
    <3> SUFFICES ASSUME NEW j \in 1 .. N, NEW x \in T \X T PROVE step[j][x] \in T \X T
      BY DEF StepsStay
    <3>1. x[1] \in T /\ x[2] \in T
      OBVIOUS
    <3>2. step[j][x] = <<IF j = 1 \/ (n - 1 - j) % 2 = 1 THEN Ptr(c, x[1], 0) ELSE Ptr(c, x[2], 1), x[1]>>
      BY <2>1
    <3> HIDE DEF step, T, n
    <3> QED BY <1>1, <3>1, <3>2
  <2>3. <<f.head, None>> \in T \X T
    OBVIOUS
  <2>4. PICK g : Follows(g, N, T \X T, <<f.head, None>>, step)
    <3> HIDE DEF step, T
    <3> QED BY <2>2, <2>3, StepsExist
  <2>5. /\ g \in [0 .. N -> T \X T] /\ g[0] = <<f.head, None>>
        /\ \A j \in 1 .. N : g[j] = step[j][g[j - 1]]
    <3> HIDE DEF step, T
    <3> QED BY <2>4 DEF Follows
  <2> DEFINE h == [j \in 0 .. N |-> g[j][1]]
  <2>6. ASSUME NEW j \in 1 .. N
        PROVE  /\ g[j][1] = IF j = 1 \/ (n - 1 - j) % 2 = 1 THEN Ptr(c, g[j - 1][1], 0) ELSE Ptr(c, g[j - 1][2], 1)
               /\ g[j][2] = g[j - 1][1]
    <3>1. j \in 1 .. n - 1 /\ g[j - 1] \in T \X T /\ g[j] = step[j][g[j - 1]]
      <4>1. j - 1 \in 0 .. N
        BY <2>1
      <4> QED BY <2>1, <2>5, <4>1
    <3> HIDE DEF T, n
    <3> QED BY <3>1
  <2>7. ASSUME NEW j \in 0 .. N
        PROVE  h[j] = IF j = 0 THEN f.head
                      ELSE IF j = 1 \/ (n - 1 - j) % 2 = 1 THEN Ptr(c, h[j - 1], 0)
                      ELSE Ptr(c, h[j - 2], 1)
    <3> HIDE DEF n
    <3>1. CASE j = 0
      BY <2>5, <3>1
    <3>2. CASE j = 1
      <4>1. j \in 1 .. N /\ h[j - 1] = g[j - 1][1] /\ h[j] = g[j][1]
        BY <3>2
      <4> QED BY <2>6, <3>2, <4>1
    <3>3. CASE j # 0 /\ j # 1
      <4>1. /\ j \in 1 .. N /\ j - 1 \in 1 .. N /\ h[j - 1] = g[j - 1][1] /\ h[j] = g[j][1]
            /\ (j - 1) - 1 = j - 2 /\ h[j - 2] = g[j - 2][1]
        BY <3>3
      <4>2. g[j - 1][2] = g[j - 2][1]
        BY <2>6, <4>1
      <4> HIDE DEF h
      <4> QED BY <2>6, <3>3, <4>1, <4>2
    <3> QED BY <3>1, <3>2, <3>3
  <2>8. h = [j \in 0 .. n - 1 |->
               IF j = 0 THEN f.head
               ELSE IF j = 1 \/ (n - 1 - j) % 2 = 1 THEN Ptr(c, h[j - 1], 0)
               ELSE Ptr(c, h[j - 2], 1)]
    <3>1. DOMAIN h = 0 .. n - 1 /\ h = [j \in DOMAIN h |-> h[j]]
      BY <2>1
    <3> HIDE DEF h
    <3> QED BY <2>1, <2>7, <3>1
  <2>9. at = [j \in 0 .. n - 1 |->
                 IF j = 0 THEN f.head
                 ELSE IF j = 1 \/ (n - 1 - j) % 2 = 1 THEN Ptr(c, at[j - 1], 0)
                 ELSE Ptr(c, at[j - 2], 1)]
    <3> HIDE DEF h
    <3> QED BY <2>8
  <2> HIDE DEF at, n
  <2> DEFINE U == {j \in 0 .. N : at[j] \in T /\ (j > 0 => at[j - 1] \in T)}
  <2>10. 0 \in U
    <3>1. 0 \in 0 .. n - 1 /\ 0 \in 0 .. N
      BY <2>1
    <3>2. at[0] = f.head
      BY <2>9, <3>1
    <3> QED BY <3>1, <3>2
  <2>11. ASSUME NEW j \in 0 .. N - 1, j \in U PROVE j + 1 \in U
    <3> DEFINE i == j + 1
    <3>1. i \in 0 .. n - 1 /\ i \in 0 .. N /\ i # 0 /\ i - 1 = j /\ (i # 1 => i - 2 = j - 1 /\ j > 0)
      BY <2>1
    <3>2. at[j] \in T /\ (j > 0 => at[j - 1] \in T)
      BY <2>11
    <3> HIDE DEF i, T
    <3>3. at[i - 1] \in T /\ (i # 1 => at[i - 2] \in T)
      BY <3>1, <3>2
    <3>4. at[i] = IF i = 1 \/ (n - 1 - i) % 2 = 1 THEN Ptr(c, at[i - 1], 0)
                  ELSE Ptr(c, at[i - 2], 1)
      BY <2>9, <3>1
    <3>5. at[i] \in T
      BY <1>1, <3>3, <3>4
    <3> QED BY <3>1, <3>3, <3>5 DEF i
  <2> HIDE DEF U
  <2>12. \A j \in 0 .. N : j \in U
    BY <2>10, <2>11, UpToInduction
  <2>13. \A i \in 1 .. n : at[n - i] \in T
    <3> TAKE i \in 1 .. n
    <3>1. n - i \in 0 .. N
      BY <1>0, <2>1
    <3> QED BY <2>12, <3>1 DEF U
  <2> QED BY <1>2, <2>13 DEF ChainBlocks, ToSet
<1> QED BY <1>3, <1>4

\* What a cell may hold: anything but the number of a block of the pair.
Plain == Cell \ PairBlocks

\* No block holds a pointer to the pair, no call writes one, no handle has one.
Pure ==
    /\ cells \in [Blocks -> [1 .. BlockSize -> Plain]]
    /\ Running => job.data \in Seq(Plain)
    /\ handle # None => handle.head \notin PairBlocks

LEMMA PlainCells ==
    ASSUME TypeOK
    PROVE  /\ FF \in Plain /\ Bad \in Plain /\ Zero \in Plain
           /\ ops < MaxOps => Byte(ops + 1) \in Plain
           /\ Scrap \in [1 .. BlockSize -> Plain]
<1>1. PairBlocks \subseteq Blocks
  BY PairType
<1>2. ops \in Nat /\ NumBlocks \in Nat /\ MaxOps \in Nat
  BY Constants DEF TypeOK
<1>3. FF \notin Blocks /\ Bad \notin Blocks /\ Zero \notin Blocks /\ Byte(ops + 1) \notin Blocks
  BY <1>2 DEF FF, Bad, Zero, Byte, Blocks
<1>4. ops < MaxOps => Byte(ops + 1) \in Cell
  BY <1>2 DEF Cell, Byte, Bad
<1>5. FF \in Plain /\ Bad \in Plain /\ Zero \in Plain /\ (ops < MaxOps => Byte(ops + 1) \in Plain)
  BY <1>1, <1>3, <1>4, Constants DEF Plain
<1> QED BY <1>5 DEF Scrap

\* The pair of a handle changes its halves and nothing else.
LEMMA PairStays ==
    ASSUME Sheltered, "open" \in Calls, JobOK, [Next]_vars
    PROVE  PairBlocks' = PairBlocks
<1>1. ~ShouldRelocate
  BY FileAssumption DEF ShouldRelocate, Sheltered
<1>2. pair' = pair \/ pair' = <<pair[2], pair[1]>>
  BY <1>1 DEF Next, vars, Open, Write, AppendPath, Rewrite, Grow, Shrink, TruncatePath, Clear, Sync,
     CleanSync, Drop, CowWrite, TakeBlocks, NoSpace, WriteBlock, Worn, Fill, FillErr, SyncErr, Extended,
     CommitAppend, CommitCompact, CommitRelocate, CommitStale, CommitRefused, CommitErr, PowerLoss,
     Done, Static
<1> QED BY <1>2 DEF PairBlocks

LEMMA HeadApart ==
    ASSUME Sheltered, "open" \in Calls, IInv, IInv', [Next]_vars, Pure, handle' # None
    PROVE  handle'.head \notin PairBlocks'
<1>1. PICK e, s, w : Kept(e, s, w)'
  BY DEF IInv
<1>2. CASE ~Exposed(e)'
  <2>1. Good(cells', PairBlocks', cache', Staged', s, staged')
    BY <1>1, <1>2 DEF Kept
  <2>2. Staged'.size \in 0 .. MaxSize /\ Staged'.head = handle'.head /\ RestOK' /\ PairBlocks' \subseteq Blocks
        /\ Staged'.size = handle'.size
    <3>1. RestOK'
      BY TypePartsNext DEF IInv, JobOK
    <3>2. handle' \in Handles /\ PairBlocks' \subseteq Blocks
      BY <3>1 DEF RestOK, PairBlocks
    <3> QED BY <3>1, <3>2 DEF Staged, Handles
  <2>3. CASE Staged'.size = 0
    BY <2>2, <2>3, NoneAssumption DEF RestOK
  <2>4. CASE Staged'.size # 0
    <3>1. Staged'.size > 0 /\ IsChain(cells', Staged', s) /\ ToSet(s) \cap PairBlocks' = {}
      BY <2>1, <2>2, <2>4 DEF Good
    <3>2. Staged'.head \in ToSet(s)
      BY <2>2, <3>1, ChainNumbers
    <3> QED BY <2>2, <3>1, <3>2
  <2> QED BY <2>3, <2>4
<1>3. CASE Exposed(e)'
  <2>1. pc' \in {"write", "fill", "sync"} /\ job'.tail # job'.src
    BY <1>3 DEF Exposed
  <2>2. PairBlocks' = PairBlocks
    BY PairStays DEF IInv
  <2>3. handle' = handle
    <3>1. \A call, f, data, more, want : ~Plan(call, f, data, more, want)
      BY <2>1 DEF Plan
    <3>2. pc' # "idle" /\ pc' # "commit"
      BY <2>1
    <3>3. ~Extended
      BY <3>1, <3>2 DEF Extended, ZeroFill
    <3>4. \A t \in BOOLEAN : ~Open(t)
      BY <3>2 DEF Open, Begin
    <3>5. \A n : ~Shrink(n)
      BY <2>1, <3>2 DEF Shrink, Begin
    <3>6. ~Clear /\ ~Drop /\ ~PowerLoss /\ ~CommitAppend /\ ~CommitCompact /\ ~CommitRelocate
          /\ ~CommitStale /\ ~CommitRefused /\ ~CommitErr
      BY <3>2 DEF Clear, Drop, PowerLoss, CommitAppend, CommitCompact, CommitRelocate, CommitStale,
         CommitRefused, CommitErr, Committed, Returned, Fail, Begin
    <3>7. ~Sync(TRUE) /\ ~Sync(FALSE)
      BY <3>2 DEF Sync
    <3> QED BY <3>3, <3>4, <3>5, <3>6, <3>7 DEF Next, vars, Write, AppendPath, Rewrite, Grow, TruncatePath,
            CleanSync, CowWrite, TakeBlocks, NoSpace, WriteBlock, Worn, Fill, FillErr, SyncErr, Done
  <2> QED BY <2>2, <2>3 DEF Pure
<1> QED BY <1>2, <1>3

LEMMA PureData ==
    ASSUME Sheltered, "open" \in Calls, JobOK, [Next]_vars, Pure, Running'
    PROVE  job'.data \in Seq(Plain)
<1>0. TypeOK /\ RestOK /\ JobTypes
  BY TypeParts DEF JobOK
<1>1. pc' # "idle" /\ pc' # "commit"
  BY DEF Running
<1>2. \A call, f, data, more, want : Plan(call, f, data, more, want) => job'.data = data
  BY DEF Plan
<1>3. \A n \in Nat, v \in Plain : Constant(n, v) \in Seq(Plain)
  BY DEF Constant
<1>4. \A f, count, want : count \in Nat /\ ZeroFill(f, count, want) => job'.data \in Seq(Plain)
  <2> SUFFICES ASSUME NEW f, NEW count \in Nat, NEW want, ZeroFill(f, count, want)
               PROVE  job'.data \in Seq(Plain)
    OBVIOUS
  <2> DEFINE chunk == IF count < ZeroChunk THEN count ELSE ZeroChunk
  <2>1. job'.data = Constant(chunk, Zero)
    BY <1>2 DEF ZeroFill
  <2>2. chunk \in Nat
    BY Constants
  <2> HIDE DEF chunk
  <2> QED BY <1>0, <1>3, <2>1, <2>2, PlainCells
<1>5. ASSUME NEW len \in Lens, NEW data \in Data(len), Write(data) \/ AppendPath(data) \/ Rewrite(data)
      PROVE  job'.data \in Seq(Plain)
  <2>1. job'.data = data /\ ops < MaxOps
    BY <1>2, <1>5 DEF Write, AppendPath, Rewrite, Begin
  <2>2. len \in Nat
    BY FileAssumption
  <2>3. FF \in Plain /\ Byte(ops + 1) \in Plain
    BY <1>0, <2>1, PlainCells
  <2>4. Constant(len, FF) \in Seq(Plain) /\ Constant(len, Byte(ops + 1)) \in Seq(Plain)
    BY <1>3, <2>2, <2>3
  <2> QED BY <1>5, <2>1, <2>4 DEF Data
<1>6. ASSUME NEW size \in Sizes, Grow(size) PROVE job'.data \in Seq(Plain)
  <2>1. size \in Nat /\ handle.size \in Nat /\ size > handle.size
    BY <1>0, <1>6, FileAssumption DEF Grow, RestOK, Handles
  <2>2. size - handle.size \in Nat
    BY <2>1
  <2> QED BY <1>4, <1>6, <2>2 DEF Grow
<1>7. ASSUME NEW size \in Sizes, Shrink(size) PROVE job'.data \in Seq(Plain)
  <2>1. job'.data = <<>>
    BY <1>1, <1>7 DEF Shrink, Begin
  <2> QED BY <2>1
<1>8. ASSUME NEW size \in Sizes, TruncatePath(size) PROVE job'.data \in Seq(Plain)
  <2> DEFINE now  == Content(cells, entry)
             data == [i \in 1 .. size |-> IF i <= Len(now) THEN now[i] ELSE Zero]
  <2>1. job'.data = data
    BY <1>2, <1>8 DEF TruncatePath
  <2>2. Bad \in Plain /\ Zero \in Plain /\ entry.size \in 0 .. MaxSize
    BY <1>0, PlainCells DEF RestOK, Files
  <2>3. now \in Seq(Plain)
    BY <2>2, ContentIn DEF Pure
  <2>4. size \in Nat
    BY FileAssumption
  <2> HIDE DEF now
  <2>5. \A i \in 1 .. size : (IF i <= Len(now) THEN now[i] ELSE Zero) \in Plain
    BY <2>2, <2>3, <2>4
  <2>6. data \in [1 .. size -> Plain]
    BY <2>5
  <2> HIDE DEF data
  <2> QED BY <2>1, <2>4, <2>6
<1>9. CASE Extended
  <2>1. pc = "sync" /\ job.more \in Nat
    BY <1>0, <1>9 DEF Extended, JobTypes, Writes
  <2>2. \E f : ZeroFill(f, job.more, job.want)
    BY <1>1, <1>9 DEF Extended
  <2> QED BY <1>4, <2>1, <2>2
<1>10. CASE CowWrite \/ TakeBlocks \/ NoSpace \/ WriteBlock \/ Worn \/ Fill \/ FillErr \/ SyncErr
  <2>1. Running /\ job \in Writes
    BY <1>0, <1>10 DEF Running, JobTypes, CowWrite, TakeBlocks, NoSpace, WriteBlock, Worn, Fill, FillErr, SyncErr
  <2>2. job'.data = job.data
    BY <1>1, <1>10, <2>1 DEF Writes, CowWrite, TakeBlocks, NoSpace, WriteBlock, Worn, Fill, FillErr, SyncErr, Fail
  <2> QED BY <2>1, <2>2 DEF Pure
<1>11. CASE UNCHANGED <<pc, job>>
  BY <1>11 DEF Pure, Running
<1> QED
  <2>1. ~Clear /\ ~Drop /\ ~CleanSync /\ ~PowerLoss /\ ~CommitAppend /\ ~CommitCompact /\ ~CommitRelocate
        /\ ~CommitStale /\ ~CommitRefused /\ ~CommitErr /\ \A t \in BOOLEAN : ~Open(t)
    BY <1>1 DEF Clear, Drop, CleanSync, PowerLoss, CommitAppend, CommitCompact, CommitRelocate, CommitStale,
       CommitRefused, CommitErr, Committed, Returned, Fail, Begin, Open
  <2>2. ~Sync(TRUE) /\ ~Sync(FALSE)
    BY <1>1 DEF Sync
  <2> QED BY <1>5, <1>6, <1>7, <1>8, <1>9, <1>10, <1>11, <2>1, <2>2 DEF Next, vars, Done

LEMMA PureCells ==
    ASSUME Sheltered, "open" \in Calls, IInv, [Next]_vars, Pure
    PROVE  cells' \in [Blocks -> [1 .. BlockSize -> Plain]]
<1>0. JobOK /\ TypeOK /\ RestOK /\ JobTypes
  BY Facts
<1> DEFINE Rows == [1 .. BlockSize -> Plain]
<1>1. cells \in [Blocks -> Rows] /\ FF \in Plain /\ Bad \in Plain /\ Scrap \in Rows
  BY <1>0, PlainCells DEF Pure
<1>2. \A b \in Blocks, row \in Rows : [cells EXCEPT ![b] = row] \in [Blocks -> Rows]
  <2> HIDE DEF Rows
  <2> QED BY <1>1
<1>3. CASE CowWrite
  <2>1. pc = "cow" /\ CowAlloc.blocks # <<>> /\ job.data \in Seq(Plain)
    BY <1>3 DEF CowWrite, Pure, Running
  <2>2. RunOK /\ job \in Writes
    BY <1>0, <2>1, Runs
  <2>3. CowAlloc.blocks[1] \in Blocks /\ job.src \in Blocks
    <3>1. 1 \in Nat \ {0}
      OBVIOUS
    <3> QED BY <1>0, <2>1, <3>1, CowAllots, Handed
  <2>4. job.fill \in Nat /\ Len(job.data) \in Nat /\ job.fill <= Len(job.data) /\ job.off \in 0 .. BlockSize
    <3>1. job.data \in Seq(Cell) /\ job.fill \in Nat /\ Room(job.f.size) \in Nat /\ Len(job.data) \in Nat
      BY <2>2, JobNumbers
    <3>2. CASE job.call = "shrink"
      BY <2>2, <3>1, <3>2, JobFields DEF RunOK, ShrinkOK
    <3>3. CASE job.call # "shrink"
      BY <2>2, <3>1, <3>3, JobFields DEF RunOK, ExtendOK
    <3> QED BY <3>2, <3>3
  <2>5. SubSeq(job.data, 1, job.fill) \in Seq(Plain)
    BY <2>1, <2>4
  <2>6. SubSeq(cells[job.src], 1, job.off) \in Seq(Plain)
    <3>1. PICK row \in Rows : row = cells[job.src]
      BY <1>1, <2>3
    <3>2. row \in Seq(Plain) /\ Len(row) = BlockSize
      BY Constants
    <3>3. SubSeq(row, 1, job.off) \in Seq(Plain)
      BY <2>4, <3>2, Constants
    <3> QED BY <3>1, <3>3
  <2>7. Image(SubSeq(cells[job.src], 1, job.off), SubSeq(job.data, 1, job.fill)) \in Rows
    BY <1>1, <2>5, <2>6, ImageIn
  <2> QED BY <1>2, <1>3, <2>3, <2>7 DEF CowWrite
<1>4. CASE WriteBlock
  <2>1. pc = "write" /\ job.data \in Seq(Plain)
    BY <1>4 DEF WriteBlock, Pure, Running
  <2>2. PICK e, s, w : Kept(e, s, w)
    BY DEF IInv
  <2>3. Building(e, s, w)
    <3>1. job.call # "shrink"
      BY <1>0, <2>1, Runs DEF RunOK, ShrinkOK
    <3> QED BY <2>1, <2>2, <3>1 DEF Kept, Work
  <2> DEFINE u == w \o job.new
  <2>4. NewLinks(u)
    BY <1>0, <2>1, <2>3, NewPointers
  <2>5. ToSet(NewPtrs) \subseteq Blocks
    BY <2>4 DEF NewLinks
  <2>6. ToSet(NewPtrs) \cap PairBlocks = {}
    <3>1. /\ w \in Seq(Blocks) /\ Len(w) = BlockCount(job.f.size) /\ ToSet(w) \cap PairBlocks = {}
          /\ ToSet(job.new) \cap PairBlocks = {} /\ job.new \in Seq(Blocks)
      <4>1. Base.size = job.f.size /\ job \in Writes
        BY <1>0, <2>1, Runs DEF Base, Empty
      <4> QED BY <2>3, <4>1, JobFields DEF Building, Good, IsChain, NewPart
    <3>2. PICK v : v = u
      OBVIOUS
    <3>3. /\ v \in Seq(Blocks) /\ Len(v) = Len(w) + Len(job.new) /\ \A j \in 1 .. Len(w) : v[j] = w[j]
          /\ \A j \in 1 .. Len(job.new) : v[Len(w) + j] = job.new[j]
      <4>1. PICK y : y = job.new
        OBVIOUS
      <4>2. w \in Seq(Blocks) /\ y \in Seq(Blocks) /\ v = w \o y
        BY <3>1, <3>2, <4>1
      <4>3. /\ v \in Seq(Blocks) /\ Len(v) = Len(w) + Len(y) /\ \A j \in 1 .. Len(w) : v[j] = w[j]
            /\ \A j \in 1 .. Len(y) : v[Len(w) + j] = y[j]
        BY ONLY <4>2, JoinedBlocks
      <4> QED BY <4>1, <4>3
    <3>4. \A j \in 1 .. Len(v) : v[j] \notin PairBlocks
      <4> TAKE j \in 1 .. Len(v)
      <4>1. CASE j \in 1 .. Len(w)
        BY <3>1, <3>3, <4>1, ToSetIs
      <4>2. CASE j \notin 1 .. Len(w)
        <5>1. j - Len(w) \in 1 .. Len(job.new) /\ Len(w) + (j - Len(w)) = j
          BY <3>1, <3>3, <4>2
        <5>2. v[j] = job.new[j - Len(w)]
          BY <3>3, <5>1
        <5> QED BY <3>1, <5>1, <5>2, ToSetIs
      <4> QED BY <4>1, <4>2
    <3> HIDE DEF u
    <3>5. PICK i \in Nat : i = NewIndex
      BY <2>4 DEF NewLinks
    <3>6. /\ i < Len(v) /\ i < 2 ^ 28 /\ NP(i) \in Nat /\ Len(NewPtrs) = NP(i) /\ NewPtrs \in Seq(Blocks)
          /\ \A k \in 0 .. NP(i) - 1 : NewPtrs[k + 1] = v[(i + 1) - 2 ^ k]
      <4>1. /\ i < 2 ^ 28 /\ NP(i) \in Nat /\ Len(NewPtrs) = NP(i) /\ NewPtrs \in Seq(Blocks)
        BY <1>0, <2>1, <2>5, <3>5, NewImageType
      <4>2. \A k \in 0 .. NP(i) - 1 : NewPtrs[k + 1] = v[(i + 1) - 2 ^ k]
        BY <2>4, <3>2, <3>5 DEF NewLinks
      <4>3. i = BlockCount(job.f.size) + job.done /\ job.done + 1 \in 1 .. Len(job.new) /\ job.done \in Nat
        BY <1>0, <2>1, <2>4, <3>5, Runs, JobNumbers DEF NewLinks
      <4>4. BlockCount(job.f.size) \in Nat /\ Len(job.new) \in Nat
        BY <1>0, <2>1, Runs, JobNumbers
      <4>5. i < Len(v)
        BY <3>1, <3>3, <4>3, <4>4
      <4> QED BY <4>1, <4>2, <4>5
    <3>7. ASSUME NEW x \in 1 .. Len(NewPtrs) PROVE NewPtrs[x] \notin PairBlocks
      <4>1. x - 1 \in 0 .. NP(i) - 1 /\ (x - 1) + 1 = x
        BY <3>6
      <4>2. PICK p : p = 2 ^ (x - 1)
        OBVIOUS
      <4>3. p \in 1 .. i
        BY <3>6, <4>1, <4>2, PointsBack
      <4>4. NewPtrs[x] = v[(i + 1) - p]
        BY <3>6, <4>1, <4>2
      <4>5. (i + 1) - p \in 1 .. Len(v)
        <5>1. Len(v) \in Nat
          BY <3>3
        <5> QED BY <3>6, <4>3, <5>1
      <4> QED BY <3>4, <4>4, <4>5
    <3> QED BY <3>6, <3>7 DEF ToSet
  <2>7. NewPtrs \in Seq(Plain)
    <3>1. NewPtrs \in Seq(Blocks) /\ Blocks \subseteq Cell
      BY <1>0, <2>1, <2>5, NewImageType, Constants
    <3>2. NewPtrs \in Seq(ToSet(NewPtrs))
      BY <3>1 DEF ToSet
    <3>3. ToSet(NewPtrs) \subseteq Plain
      BY <2>5, <2>6, <3>1 DEF Plain
    <3> QED BY <3>2, <3>3
  <2>8. job.new[job.done + 1] \in Blocks
    BY <1>0, <2>1, <2>4, Runs, JobFields DEF NewLinks
  <2>9. NewImage \in Rows
    <3> DEFINE first == StartOf(NewIndex) - job.f.size
               last  == StartOf(NewIndex + 1) - job.f.size
               to == IF last < Len(job.data) THEN last ELSE Len(job.data)
    <3>1. /\ StartOf(NewIndex) \in Int /\ StartOf(NewIndex + 1) \in Int /\ BlockSize \in Nat
          /\ StartOf(NewIndex) >= job.f.size + job.fill /\ job.fill \in Nat /\ job.f.size \in Nat
          /\ Len(job.data) \in Nat
      BY <1>0, <2>1, <2>5, NewImageType, Runs, JobNumbers, Constants
    <3>2. first \in Nat /\ last \in Int
      BY <3>1
    <3> HIDE DEF first, last
    <3>3. to \in Int /\ to <= Len(job.data) /\ first + 1 \in Nat \ {0}
      BY <3>1, <3>2
    <3> HIDE DEF to
    <3>4. SubSeq(job.data, first + 1, to) \in Seq(Plain)
      BY <2>1, <3>1, <3>3
    <3>5. NewImage = Image(NewPtrs, SubSeq(job.data, first + 1, to))
      BY DEF NewImage, first, last, to
    <3> QED BY <1>1, <2>7, <3>4, <3>5, ImageIn
  <2> QED BY <1>1, <1>2, <1>4, <2>5, <2>8, <2>9 DEF WriteBlock
<1>5. CASE Worn
  <2>1. PICK b : /\ b = IF pc = "cow" THEN CowAlloc.blocks[1] ELSE job.new[job.done + 1]
                 /\ cells' = [cells EXCEPT ![b] = Scrap]
    BY <1>5 DEF Worn
  <2>2. b \in Blocks
    <3>1. CASE pc = "cow"
      <4>1. CowAlloc.blocks # <<>> /\ 1 \in Nat \ {0}
        BY <1>5, <3>1 DEF Worn
      <4> QED BY <1>0, <2>1, <3>1, <4>1, CowAllots, Handed
    <3>2. CASE pc # "cow"
      <4>1. pc = "write"
        BY <1>5, <3>2 DEF Worn
      <4>2. job \in Writes /\ ExtendOK
        BY <1>0, <4>1, Runs DEF RunOK, ShrinkOK
      <4>3. job.done + 1 \in 1 .. Len(job.new) /\ job.new \in Seq(Blocks)
        BY <4>1, <4>2, JobNumbers DEF ExtendOK
      <4> QED BY <2>1, <3>2, <4>3
    <3> QED BY <3>1, <3>2
  <2> QED BY <1>1, <1>2, <2>1, <2>2
<1>6. CASE pc = "fill" /\ (Fill \/ FillErr \/ PowerLoss)
  <2>1. /\ job.tail \in Blocks /\ job.fill <= Len(job.data) /\ job.data \in Seq(Plain) /\ job.off \in Nat
        /\ job.fill \in Nat
    BY <1>0, <1>6, FillType, Runs, JobNumbers DEF Pure, Running
  <2>2. \A text \in Seq(Plain) : Filled(job.tail, job.off, text) \in Rows
    BY <1>1, <2>1, FilledIn
  <2>3. SubSeq(job.data, 1, job.fill) \in Seq(Plain)
    BY <2>1
  <2>4. ASSUME NEW left \in Residues PROVE left \in Rows
    <3>1. PICK k \in 0 .. job.fill - 1, torn \in {<<>>, <<Bad>>} :
              left = Filled(job.tail, job.off, SubSeq(job.data, 1, k) \o torn)
      BY <2>4 DEF Residues
    <3>2. SubSeq(job.data, 1, k) \in Seq(Plain)
      BY <2>1
    <3>3. torn \in Seq(Plain)
      <4>1. <<>> \in Seq(Plain) /\ <<Bad>> \in Seq(Plain)
        BY <1>1
      <4> QED BY <4>1
    <3>4. SubSeq(job.data, 1, k) \o torn \in Seq(Plain)
      BY <3>2, <3>3
    <3> QED BY <2>2, <3>1, <3>4
  <2> QED BY <1>1, <1>2, <1>6, <2>1, <2>2, <2>3, <2>4 DEF Fill, FillErr, PowerLoss
<1>7. CASE PowerLoss /\ pc # "fill"
  BY <1>1, <1>7 DEF PowerLoss
<1>8. ~CommitStale
  BY <1>0, Facts DEF CommitStale, AtLivePair, JobOK, CommitOK
<1>9. ASSUME UNCHANGED cells PROVE cells' \in [Blocks -> Rows]
  BY <1>1, <1>9
<1>10. CASE Fill \/ FillErr
  BY <1>6, <1>10 DEF Fill, FillErr
<1> QED BY <1>3, <1>4, <1>5, <1>6, <1>7, <1>8, <1>9, <1>10 DEF Next, vars, Open, Write, AppendPath, Rewrite, Grow,
        Shrink, TruncatePath, Clear, Sync, CleanSync, Drop, TakeBlocks, NoSpace, SyncErr, Extended,
        CommitAppend, CommitCompact, CommitRelocate, CommitRefused, CommitErr, Done

LEMMA PureInit == Init => Pure
<1> SUFFICES ASSUME Init PROVE Pure
  OBVIOUS
<1>1. TypeOK
  BY InitTypes DEF JobOK
<1>2. Scrap \in [1 .. BlockSize -> Plain]
  BY <1>1, PlainCells
<1> QED BY <1>2 DEF Init, Pure, Running

LEMMA PureKept ==
    ASSUME Sheltered, "open" \in Calls, IInv, [Next]_vars, Pure
    PROVE  Pure'
<1>1. IInv' /\ JobOK
  BY StepKept DEF IInv
<1>2. Plain' = Plain
  BY <1>1, PairStays DEF Plain
<1>3. cells' \in [Blocks -> [1 .. BlockSize -> Plain']]
  BY <1>2, PureCells
<1>4. Running' => job'.data \in Seq(Plain')
  BY <1>1, <1>2, PureData
<1>5. handle' # None => handle'.head \notin PairBlocks'
  BY <1>1, HeadApart
<1> QED BY <1>3, <1>4, <1>5 DEF Pure

----------------------------------------------------------------------------
(* A handle that is clean has the committed chain.                         *)

\* File::set_len fills what it adds in one chunk.
OneChunk == "set_len" \notin Calls \/ MaxSize <= ZeroChunk

Settled ==
    /\ handle # None /\ ~handle.dirty => Staged = entry
    /\ handle # None /\ res = "synced" => ~handle.dirty
    /\ Running => job.more = 0

LEMMA SettledKept ==
    ASSUME OneChunk, IInv, Settled, [Next]_vars
    PROVE  Settled'
<1>0. JobOK /\ TypeOK /\ RestOK /\ JobTypes /\ (handle # None => handle.parent = PairBlocks)
  BY Facts
<1>1. handle # None => handle \in Handles /\ handle.dirty \in BOOLEAN
  BY <1>0 DEF RestOK, Handles
<1>2. \A call, f, data, more, want : Plan(call, f, data, more, want) =>
         job'.more = more /\ pc' \in {"cow", "grow", "fill"}
  BY DEF Plan
<1>3. CASE UNCHANGED <<entry, handle, pc, job, res>>
  <2>1. Staged' = Staged
    BY <1>3 DEF Staged
  <2> QED BY <1>3, <2>1 DEF Settled, Running
<1>4. ASSUME NEW t \in BOOLEAN, Open(t) PROVE Settled'
  <2>1. (handle'.head = entry.head /\ handle'.size = entry.size) \/ handle'.dirty
    BY <1>4 DEF Open
  <2>2. entry \in Files /\ entry' = entry
    BY <1>0, <1>4 DEF RestOK, Open
  <2>3. ~handle'.dirty => Staged' = entry'
    BY <2>1, <2>2 DEF Staged, Files
  <2>4. pc' = "idle" /\ res' = "ok"
    BY <1>4 DEF Open, Begin
  <2> QED BY <2>3, <2>4 DEF Settled, Running
<1>5. ASSUME NEW len \in Lens, NEW data \in Data(len), Write(data) \/ AppendPath(data) \/ Rewrite(data)
      PROVE  Settled'
  <2>1. /\ job'.more = 0 /\ res' = "ok" /\ handle' = handle /\ entry' = entry
    BY <1>2, <1>5 DEF Write, AppendPath, Rewrite, Begin
  <2>2. Staged' = Staged
    BY <2>1 DEF Staged
  <2> QED BY <2>1, <2>2 DEF Settled
<1>6. ASSUME NEW size \in Sizes, Grow(size) PROVE Settled'
  <2>1. /\ size \in 1 .. MaxSize /\ handle.size \in Nat /\ size > handle.size /\ MaxSize <= ZeroChunk
        /\ handle' = handle /\ entry' = entry /\ res' = "ok"
    BY <1>0, <1>1, <1>6, FileAssumption DEF Grow, Begin, OneChunk, Handles
  <2>2. PICK count : count = size - handle.size /\ ZeroFill(Staged, count, staged)
    BY <1>6 DEF Grow
  <2>3. count \in Nat /\ count <= ZeroChunk
    BY <2>1, <2>2, Constants
  <2>4. PICK chunk : chunk = IF count < ZeroChunk THEN count ELSE ZeroChunk
    OBVIOUS
  <2>5. chunk = count /\ count - chunk = 0
    BY <2>3, <2>4, Constants
  <2>6. job'.more = 0
    BY <1>2, <2>2, <2>4, <2>5 DEF ZeroFill
  <2>7. Staged' = Staged
    BY <2>1 DEF Staged
  <2> QED BY <2>1, <2>6, <2>7 DEF Settled
<1>7. ASSUME NEW size \in Sizes, Shrink(size) PROVE Settled'
  <2>1. res' = "ok" /\ entry' = entry /\ handle # None
    BY <1>7 DEF Shrink, Begin
  <2>2. CASE UNCHANGED <<handle, staged>> /\ job'.more = 0
    <3>1. Staged' = Staged
      BY <2>2 DEF Staged
    <3> QED BY <2>1, <2>2, <3>1 DEF Settled
  <2>3. CASE handle'.dirty /\ UNCHANGED pc
    BY <1>7, <2>1, <2>3 DEF Settled, Running, Shrink, Begin
  <2>4. \/ UNCHANGED <<handle, staged>> /\ job'.more = 0
        \/ \E head : handle' = [handle EXCEPT !.head = head, !.size = size, !.dirty = TRUE] /\ UNCHANGED pc
    <3> DEFINE old == Chain(cells, Staged)[BlockCount(size)]
    <3>1. CASE handle' = [handle EXCEPT !.head = old, !.size = size, !.dirty = TRUE] /\ UNCHANGED <<job, pc>>
      <4> HIDE DEF old
      <4> QED BY <3>1
    <3>2. CASE UNCHANGED <<handle, staged>> /\ job'.more = 0
      BY <3>2
    <3> DEFINE j == [call |-> "shrink", f |-> Staged, data |-> <<>>, more |-> 0,
                     want |-> SubSeq(staged, 1, size), src |-> old, off |-> EndOf(size), fill |-> 0,
                     tail |-> old, new |-> <<>>, done |-> 0, size |-> size,
                     own |-> ChainBlocks(cells, Staged), ex |-> {}]
    <3>3. j.more = 0
      OBVIOUS
    <3>4. \/ handle' = [handle EXCEPT !.head = old, !.size = size, !.dirty = TRUE] /\ UNCHANGED <<job, pc>>
          \/ job' = j /\ UNCHANGED <<handle, staged>>
      BY <1>7, Zenon DEF Shrink
    <3> HIDE DEF j, old
    <3> QED BY <3>1, <3>2, <3>3, <3>4
  <2>5. \A head : [handle EXCEPT !.head = head, !.size = size, !.dirty = TRUE].dirty
    BY <1>1, <2>1 DEF Handles
  <2> QED BY <2>2, <2>3, <2>4, <2>5
<1>8. ASSUME NEW size \in Sizes, TruncatePath(size) PROVE Settled'
  <2>1. job'.more = 0 /\ handle' = None
    BY <1>2, <1>8 DEF TruncatePath
  <2> QED BY <2>1 DEF Settled
<1>9. CASE Clear
  <2>1. handle'.dirty /\ res' = "ok" /\ pc' = "idle"
    BY <1>1, <1>9 DEF Clear, Begin, Handles
  <2> QED BY <2>1 DEF Settled, Running
<1>10. CASE Sync(TRUE) \/ Sync(FALSE) \/ CleanSync
  <2>1. /\ handle' = handle /\ entry' = entry /\ pc' \in {"idle", "commit"}
        /\ res' = "synced" => ~handle.dirty
    BY <1>10 DEF Sync, CleanSync
  <2>2. Staged' = Staged
    BY <2>1 DEF Staged
  <2> QED BY <2>1, <2>2 DEF Settled, Running
<1>11. CASE Drop \/ PowerLoss
  BY <1>11 DEF Drop, PowerLoss, Settled, Running
<1>12. CASE CowWrite \/ TakeBlocks \/ NoSpace \/ WriteBlock \/ Worn \/ Fill \/ FillErr \/ SyncErr
  <2>1. Running /\ job \in Writes
    BY <1>0, <1>12 DEF Running, JobTypes, CowWrite, TakeBlocks, NoSpace, WriteBlock, Worn, Fill, FillErr, SyncErr
  <2>2. /\ handle' = handle /\ entry' = entry
    BY <1>12 DEF CowWrite, TakeBlocks, NoSpace, WriteBlock, Worn, Fill, FillErr, SyncErr, Static
  <2>3. pc' = "idle" \/ job'.more = job.more
    BY <1>12, <2>1 DEF Writes, CowWrite, TakeBlocks, NoSpace, WriteBlock, Worn, Fill, FillErr, SyncErr, Fail
  <2>4. res' = res \/ res' # "synced"
    BY <1>12 DEF CowWrite, TakeBlocks, NoSpace, WriteBlock, Worn, Fill, FillErr, SyncErr, Fail, Refusal
  <2>5. Staged' = Staged
    BY <2>2 DEF Staged
  <2> QED BY <2>1, <2>2, <2>3, <2>4, <2>5 DEF Settled, Running
<1>13. CASE Extended
  <2>1. pc = "sync" /\ job.more = 0 /\ RunOK /\ job \in Writes
    BY <1>0, <1>13, Runs DEF Extended, Settled, Running
  <2>2. CASE job.call = "append"
    <3>1. handle = None /\ handle' = handle /\ pc' = "commit"
      BY <1>13, <2>1, <2>2 DEF Extended, RunOK
    <3> QED BY <3>1 DEF Settled, Running
  <2>3. CASE job.call # "append"
    <3>1. handle # None
      BY <2>1, <2>3 DEF RunOK
    <3>2. /\ \E head : handle' = [handle EXCEPT !.head = head, !.size = job.size, !.dirty = TRUE]
          /\ pc' = "idle" /\ res' = "ok"
      <4>1. ~(job.more > 0)
        BY <2>1
      <4> QED BY <1>13, <2>3, <4>1 DEF Extended
    <3>3. handle'.dirty
      BY <1>1, <3>1, <3>2 DEF Handles
    <3> QED BY <3>2, <3>3 DEF Settled, Running
  <2> QED BY <2>2, <2>3
<1>14. CASE CommitAppend \/ CommitCompact \/ CommitRelocate
  <2>1. /\ pc = "commit" /\ entry' = job.f /\ pc' = "idle"
        /\ handle' = IF job.call = "sync" THEN [handle EXCEPT !.dirty = FALSE] ELSE None
    BY <1>14 DEF CommitAppend, CommitCompact, CommitRelocate, Land, Committed
  <2>2. CASE handle' = None
    BY <2>1, <2>2 DEF Settled, Running
  <2>3. CASE handle' # None
    <3>1. job.call = "sync" /\ handle' = [handle EXCEPT !.dirty = FALSE]
      BY <2>1, <2>3
    <3>2. handle # None /\ job.f = Staged
      BY <1>0, <2>1, <3>1 DEF JobOK, CommitOK
    <3>3. handle'.dirty = FALSE /\ handle'.head = handle.head /\ handle'.size = handle.size
      BY <1>1, <3>1, <3>2 DEF Handles
    <3>4. Staged' = Staged
      BY <3>3 DEF Staged
    <3> QED BY <2>1, <3>2, <3>3, <3>4 DEF Settled, Running
  <2> QED BY <2>2, <2>3
<1>15. ~CommitStale
  BY <1>0 DEF CommitStale, AtLivePair, JobOK, CommitOK
<1>16. CASE CommitRefused \/ CommitErr
  <2>1. pc = "commit" /\ pc' = "idle" /\ res' # "synced"
    BY <1>16 DEF CommitRefused, CommitErr, Returned, Fail, Refusal
  <2>2. handle' = None \/ handle' = handle
    BY <1>16 DEF CommitRefused, CommitErr, Returned
  <2>3. entry' = entry \/ entry' = job.f
    BY <1>16 DEF CommitRefused, CommitErr, Land
  <2>4. handle # None => job.f = Staged
    BY <1>0, <2>1 DEF JobOK, CommitOK
  <2>5. handle' = handle => Staged' = Staged
    BY DEF Staged
  <2> QED BY <2>1, <2>2, <2>3, <2>4, <2>5 DEF Settled, Running
<1> QED BY <1>3, <1>4, <1>5, <1>6, <1>7, <1>8, <1>9, <1>10, <1>11, <1>12, <1>13, <1>14, <1>15, <1>16 DEF Next, vars, Done

----------------------------------------------------------------------------
(* The theorems.                                                           *)

\* A good chain reads as its text.
LEMMA GoodReads ==
    ASSUME NEW c, NEW P, NEW k, NEW f, f.size \in 0 .. MaxSize, NEW ch, NEW text \in Text,
           Good(c, P, k, f, ch, text)
    PROVE  Content(c, f) = text /\ P \cap ChainBlocks(c, f) = {}
<1>1. IsChain(c, f, ch) /\ Len(text) = f.size /\ Reads(c, ch, 0, f.size, text) /\ ToSet(ch) \cap P = {}
  BY DEF Good
<1>2. Content(c, f) = text
  BY <1>1, ContentReads DEF Text
<1>3. ChainBlocks(c, f) = ToSet(ch)
  BY <1>1, ChainLinked
<1> QED BY <1>1, <1>2, <1>3

LEMMA FileInvariant == Sheltered /\ Spec => []IInv
<1>1. Sheltered => Sheltered'
  BY DEF Sheltered
<1>2. Sheltered /\ IInv /\ [Next]_vars => IInv'
  BY StepKept
<1> QED BY <1>1, <1>2, InitKept, PTL DEF Spec

\* For every size of a block, of the device and of the file, what the last commit
\* published reads back unchanged at every moment: while stream_ctz_extend fills its
\* last block in place and writes new blocks beside it, while shrink_ctz_head copies,
\* through worn blocks, failed syncs and power cuts, until the next commit of
\* commit_update_ctz replaces it.
THEOREM FileCommittedIntact == Sheltered /\ Spec => []CommittedIntact
<1>1. IInv => CommittedIntact
  <2> SUFFICES ASSUME IInv PROVE CommittedIntact
    OBVIOUS
  <2>1. PICK e, s, w : Kept(e, s, w)
    BY DEF IInv
  <2>2. Good(cells, PairBlocks, cache, entry, e, durable) /\ entry.size \in 0 .. MaxSize /\ durable \in Text
    BY <2>1, Facts DEF Kept, RestOK
  <2> QED BY <2>2, GoodReads DEF CommittedIntact
<1> QED BY <1>1, FileInvariant, PTL

\* The chain a File handle has staged reads as what was written through it whenever
\* no call runs on it, also when the last call returned an error half way: the fill
\* of a dirty tail goes to a copy, and no allocation hands out a block of the chain.
THEOREM FileHandleIntact == Sheltered /\ Spec => []HandleIntact
<1>1. IInv => HandleIntact
  <2> SUFFICES ASSUME IInv, pc = "idle", handle # None PROVE Content(cells, Staged) = staged
    BY DEF HandleIntact
  <2>1. PICK e, s, w : Kept(e, s, w)
    BY DEF IInv
  <2>2. Good(cells, PairBlocks, cache, Staged, s, staged) /\ Staged.size \in 0 .. MaxSize /\ staged \in Text
    BY <2>1, Facts DEF Kept, Exposed, RestOK
  <2> QED BY <2>2, GoodReads
<1> QED BY <1>1, FileInvariant, PTL

\* No block of the metadata pair is ever part of the committed chain or of the one a
\* handle has staged, as a walk finds them: alloc_blocks_cached hands out no block of
\* either to the other.  While a call copies a staged tail the chain it replaces may
\* be written over, and even then a walk of it does not come to the pair.
THEOREM FileMetadataApart == Sheltered /\ Spec => []MetadataApart
<1> DEFINE Held == IInv /\ ("open" \in Calls => Pure)
<1>1. Held => MetadataApart
  <2> SUFFICES ASSUME IInv, "open" \in Calls => Pure PROVE MetadataApart
    OBVIOUS
  <2>1. PICK e, s, w : Kept(e, s, w)
    BY DEF IInv
  <2>2. Good(cells, PairBlocks, cache, entry, e, durable) /\ entry.size \in 0 .. MaxSize /\ durable \in Text
    BY <2>1, Facts DEF Kept, RestOK
  <2>3. PairBlocks \cap ChainBlocks(cells, entry) = {}
    BY <2>2, GoodReads
  <2>4. ASSUME handle # None PROVE PairBlocks \cap ChainBlocks(cells, Staged) = {}
    <3>1. Pure /\ PairBlocks \subseteq Blocks /\ Staged.size \in 0 .. MaxSize /\ Staged \in Files
          /\ Staged.head = handle.head
      BY <2>4, Facts
    <3>2. Staged.head \in Plain \cup {None}
      BY <2>4, <3>1, Constants DEF Pure, Plain, Files
    <3>3. ChainBlocks(cells, Staged) \subseteq Plain \cup {None}
      BY <3>1, <3>2, ChainIn DEF Pure
    <3> QED BY <3>1, <3>3, NoneAssumption DEF Plain
  <2> QED BY <2>3, <2>4 DEF MetadataApart
<1>2. Sheltered => Sheltered'
  BY DEF Sheltered
<1>3. Sheltered /\ Held /\ [Next]_vars => Held'
  BY StepKept, PureKept
<1>4. Init => Held
  BY InitKept, PureInit
<1> HIDE DEF Held
<1> QED BY <1>1, <1>2, <1>3, <1>4, PTL DEF Spec

\* After File::sync returns, the committed entry reads as the handle does, whether the
\* sync had something to commit or found the handle clean: dirty is set by every call
\* that moves the handle to another chain, and cleared only by a commit of the chain
\* it has.  Between two chunks of File::set_len the handle moves without it, hence
\* OneChunk.
THEOREM FileSyncIsDurable == Sheltered /\ OneChunk /\ Spec => []SyncIsDurable
<1>1. Settled => SyncIsDurable
  BY DEF Settled, SyncIsDurable
<1>2. OneChunk => OneChunk'
  BY DEF OneChunk
<1>3. OneChunk /\ IInv /\ Settled /\ [Next]_vars => Settled'
  BY SettledKept
<1>4. Init => Settled
  BY DEF Init, Settled, Running
<1> QED BY <1>1, <1>2, <1>3, <1>4, FileInvariant, PTL DEF Spec
=============================================================================
