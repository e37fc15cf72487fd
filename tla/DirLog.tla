------------------------------- MODULE DirLog -------------------------------
(***************************************************************************)
(* One directory as this writer stores it: a chain of metadata logs joined *)
(* by HardTails, each log a sequence of tags whose ids are renumbered by   *)
(* every Create and Delete after them.  Readers replay a log forward       *)
(* (entries) or backward with a splice difference (attributes); writers    *)
(* append a commit, rebuild the log, or cut it into several.  Sizes are    *)
(* the code's, byte for byte, since they decide which of these happens.    *)
(* Blocks, revisions and power loss are the business of MetaPair and       *)
(* DirTree: here a commit is atomic.                                       *)
(***************************************************************************)
EXTENDS Integers, Sequences, FiniteSets, SequencesExt

CONSTANTS
    Names,          \* entry names
    Structs,        \* [type, body] of the files' structs
    Pairs,          \* bodies of DirStructs: addresses of child directories
    Attrs,          \* user attribute ids
    Values,         \* user attribute values
    Length,         \* bytes of every name, struct body and attribute value
    None,
    BlockSize, ProgSize,
    MaxLive,        \* MAX_LIVE_ENTRIES
    SplitEntries,   \* 0xff: the entries a part of a split stays below
    MaxSplitCuts,   \* MAX_SPLIT_CUTS
    MaxPairs,       \* bound: pairs of the chain (the reachable-pair budget)
    Images          \* the directories a run starts from, and what callers do:
                    \* [chain, root, own, ops, names, structs, calls]

ASSUME GeometryAssumption ==
    /\ ProgSize \in Nat \ {0} /\ BlockSize \in Nat
    /\ BlockSize >= 128 /\ BlockSize % ProgSize = 0
ASSUME BoundAssumption ==
    /\ MaxLive \in Nat \ {0} /\ SplitEntries \in 2 .. MaxLive
    /\ MaxSplitCuts \in Nat \ {0} /\ MaxPairs \in Nat

VARIABLES
    chain,          \* the directory's logs, in HardTail order
    listing,        \* what the readers make of the chain: a function of it
    image,          \* [root, own]: the root never moves, own: this writer's log;
                    \* and the bounds [ops, names, structs, calls] of its callers
    call,           \* the last call, or that it was refused
    calls           \* accepted calls so far

vars == <<chain, listing, image, call, calls>>

\* A left fold over a sequence, element by element.
Fold(op(_, _), base, seq) ==
    LET f[i \in 0 .. Len(seq)] == IF i = 0 THEN base ELSE op(f[i - 1], seq[i])
    IN  f[Len(seq)]

-----------------------------------------------------------------------------
(* Tags.                                                                   *)

TAG == 4                    \* a tag word; a tag's bytes are TAG + its body
REVISION == 4
CCRC == 8
FCRC == 12
MOVE_STATE == TAG + 12
RELOCATE_STATE == TAG + 16
TAIL == TAG + 8
SPLIT_RESERVE == 40

NameTypes == {"file", "dir", "superblock"}
StructTypes == {"inline", "ctz", "dirstruct"}

CreateTag(id) == [type |-> "create", id |-> id, attr |-> None, body |-> None]
DeleteTag(id) == [type |-> "delete", id |-> id, attr |-> None, body |-> None]
NameTag(id, kind, name) == [type |-> kind, id |-> id, attr |-> None, body |-> name]
StructTag(id, s) == [type |-> s.type, id |-> id, attr |-> None, body |-> s.body]
\* A value of None is the length sentinel: the attribute is removed.
AttrTag(id, a, v) == [type |-> "attr", id |-> id, attr |-> a, body |-> v]

Bytes(tags) == Fold(LAMBDA n, t : n + TAG + Length[t.body], 0, tags)

-----------------------------------------------------------------------------
(* Replaying a log forward: splice_step and the walkers over it.           *)

EmptySlot == [kind |-> None, name |-> None, struct |-> None]

\* Slots are kept in a sequence of MAX_LIVE_ENTRIES: id i is slot i + 1.
NoSlots == <<>> \o [i \in 1 .. MaxLive |-> EmptySlot]

SlotOf(w, id) == w.slots[id + 1]

SlotsAfterDelete(w, id) ==
    SubSeq(w.slots, 1, id) \o SubSeq(w.slots, id + 2, w.count) \o <<EmptySlot>>
        \o SubSeq(w.slots, w.count + 1, MaxLive)

SlotsAfterCreate(w, id) ==
    SubSeq(w.slots, 1, id) \o <<EmptySlot>> \o SubSeq(w.slots, id + 1, w.count)
        \o SubSeq(w.slots, w.count + 2, MaxLive)

Fail(w, error) == [w EXCEPT !.error = error]

\* A NAME above the count grows it and keeps what was parked there; a splice
\* outside the count, or an entry past MAX_LIVE_ENTRIES, is an error.
SpliceStep(w, t) ==
    CASE t.type = "create" ->
            IF w.count >= MaxLive THEN Fail(w, "out_of_range")
            ELSE IF t.id > w.count THEN Fail(w, "corrupt")
            ELSE [w EXCEPT !.count = @ + 1, !.slots = SlotsAfterCreate(w, t.id)]
      [] t.type = "delete" ->
            IF t.id >= w.count THEN Fail(w, "corrupt")
            ELSE [w EXCEPT !.count = @ - 1, !.slots = SlotsAfterDelete(w, t.id)]
      [] t.type \in NameTypes ->
            IF t.id >= MaxLive THEN Fail(w, "out_of_range")
            ELSE [w EXCEPT !.count = IF t.id >= @ THEN t.id + 1 ELSE @]
      [] OTHER -> w

\* The latest NAME and STRUCT of an id stay in its slot.
Record(w, t) ==
    IF w.error # None THEN w
    ELSE IF t.type \in NameTypes
         THEN [w EXCEPT !.slots[t.id + 1].name = t.body, !.slots[t.id + 1].kind = t.type]
    ELSE IF t.type \in StructTypes /\ t.id < MaxLive
         THEN [w EXCEPT !.slots[t.id + 1].struct = [type |-> t.type, body |-> t.body]]
    ELSE w

\* One step of gather_live_slots and of lookup_checked; an error ends the walk.
GatherStep(w, t) == IF w.error # None THEN w ELSE Record(SpliceStep(w, t), t)

Gather(tags) ==
    Fold(GatherStep,
             [slots |-> NoSlots, count |-> 0, error |-> None], tags)

First(ids) == IF ids = {} THEN None ELSE Min(ids)

\* lookup_checked: the first live, complete, user-visible entry of that name.
Lookup(w, n) ==
    First({i \in 0 .. w.count - 1 : /\ SlotOf(w, i).name = n
                                    /\ SlotOf(w, i).kind \in {"file", "dir"}
                                    /\ SlotOf(w, i).struct # None})

-----------------------------------------------------------------------------
(* Walking a log backward for attributes.                                  *)

\* Mutant: the raw id is compared, whatever was spliced since.
AdjRaw(w) == w.id

\* The id the entry had when the tag the walk has reached was written.
Adj(w) == w.id - w.gdiff

\* One step of attr_get and for_each_live_attr: a splice at or below the entry
\* shifts the difference, and the entry's own Create ends the walk.
AttrStep(w, t) ==
    IF w.done \/ t.id > Adj(w) THEN w
    ELSE CASE t.type = "create" /\ t.id = Adj(w) -> [w EXCEPT !.done = TRUE]
           [] t.type = "create" /\ t.id < Adj(w) -> [w EXCEPT !.gdiff = @ + 1]
           [] t.type = "delete" -> [w EXCEPT !.gdiff = @ - 1]
           [] t.type = "attr" /\ t.id = Adj(w) -> [w EXCEPT !.found = Append(@, t)]
           [] OTHER -> w

\* The attribute tags of live entry id, newest first.
AttrTags(tags, id) ==
    Fold(AttrStep, [id |-> id, gdiff |-> 0, done |-> FALSE, found |-> <<>>],
             Reverse(tags)).found

AttrGet(found, a) ==
    LET i == SelectInSeq(found, LAMBDA t : t.attr = a)
    IN  IF i = 0 THEN None ELSE found[i].body

\* for_each_live_attr: the newest tag of every attribute id, markers left out.
LiveAttrs(found) ==
    LET newest == {i \in DOMAIN found : \A j \in 1 .. i - 1 : found[j].attr # found[i].attr}
    IN  Fold(LAMBDA s, i : IF i \in newest /\ found[i].body # None
                               THEN Append(s, found[i]) ELSE s,
                 <<>>, [i \in DOMAIN found |-> i])

-----------------------------------------------------------------------------
(* The chain: listing it, and finding a name.                              *)

Live(log) == Gather(log.tags)

\* list_pair_chain over live_entries: the superblock is counted, not listed.
ListLog(w, tags) ==
    LET ids == SelectSeq([i \in 1 .. w.count |-> i - 1],
                         LAMBDA i : SlotOf(w, i).kind \in {"file", "dir"})
        entry(id) == [name |-> SlotOf(w, id).name, kind |-> SlotOf(w, id).kind,
                      struct |-> SlotOf(w, id).struct,
                      attrs |-> [a \in Attrs |-> AttrGet(AttrTags(tags, id), a)]]
    IN  [k \in DOMAIN ids |-> entry(ids[k])]

Listing(logs) == FlattenSeq([i \in DOMAIN logs |-> ListLog(Live(logs[i]), logs[i].tags)])

\* seek_entry_in_chain: the pair and id of a name, or the last pair, where a
\* new entry goes, and the id it would take.
Seek(n) ==
    LET absent == [found |-> FALSE, pair |-> Len(chain), id |-> Live(Last(chain)).count, kind |-> None]
        hit(i, w, id) == [found |-> TRUE, pair |-> i, id |-> id, kind |-> SlotOf(w, id).kind]
        seek(i) == IF i = None THEN absent
                   ELSE hit(i, Live(chain[i]), Lookup(Live(chain[i]), n))
    IN  seek(First({i \in DOMAIN chain : Lookup(Live(chain[i]), n) # None}))

-----------------------------------------------------------------------------
(* Write operations: WriteOp, what a commit appends for one (emit_op), the *)
(* bytes it is taken to need, and its effect on a rebuilt slot (slot_plan).*)

Op(k, id) == [k |-> k, id |-> id, kind |-> None, name |-> None, struct |-> None,
              attrs |-> <<>>, attr |-> None, value |-> None]

CreateOp(id, kind, name, struct, attrs) ==
    [Op("create", id) EXCEPT !.kind = kind, !.name = name, !.struct = struct, !.attrs = attrs]
UpdateOp(id, struct) == [Op("update", id) EXCEPT !.struct = struct]
RenameOp(id, kind, name) == [Op("rename", id) EXCEPT !.kind = kind, !.name = name]
SetAttrOp(id, a, v) == [Op("setattr", id) EXCEPT !.attr = a, !.value = v]
RemoveAttrOp(id, a) == [Op("removeattr", id) EXCEPT !.attr = a]

NewEntry(op, id) ==
    <<CreateTag(id), NameTag(id, op.kind, op.name), StructTag(id, op.struct)>>
        \o [i \in DOMAIN op.attrs |-> AttrTag(id, op.attrs[i].attr, op.attrs[i].body)]

EmitOp(op) ==
    CASE op.k = "create" -> NewEntry(op, op.id)
      [] op.k = "update" -> <<StructTag(op.id, op.struct)>>
      [] op.k = "remove" -> <<DeleteTag(op.id)>>
      [] op.k = "rename" -> <<NameTag(op.id, op.kind, op.name)>>
      [] op.k \in {"setattr", "removeattr"} -> <<AttrTag(op.id, op.attr, op.value)>>
      [] op.k = "noop" -> <<>>

\* Mutant: the moved attributes are not counted.
OpDsizeBare(op) ==
    CASE op.k = "create" -> TAG + (TAG + Length[op.name]) + (TAG + Length[op.struct.body]) + CCRC
      [] op.k = "update" -> (TAG + Length[op.struct.body]) + CCRC
      [] op.k \in {"remove", "removeattr"} -> TAG + CCRC
      [] op.k = "rename" -> (TAG + Length[op.name]) + CCRC
      [] op.k = "setattr" -> (TAG + Length[op.value]) + CCRC
      [] op.k = "noop" -> CCRC

\* op_dsize_of: the bytes of the commit, its CCRC included.
OpDsize(op) ==
    CASE op.k = "create" -> TAG + (TAG + Length[op.name]) + (TAG + Length[op.struct.body])
                                + Bytes(op.attrs) + CCRC
      [] op.k = "update" -> (TAG + Length[op.struct.body]) + CCRC
      [] op.k \in {"remove", "removeattr"} -> TAG + CCRC
      [] op.k = "rename" -> (TAG + Length[op.name]) + CCRC
      [] op.k = "setattr" -> (TAG + Length[op.value]) + CCRC
      [] op.k = "noop" -> CCRC

AddsEntry(op) == op.k = "create"

\* What a rebuild reads of the active block: its live slots and their live
\* attributes.
Source(log) ==
    LET read(w) == [count |-> w.count, slots |-> w.slots,
                    attrs |-> <<>> \o [i \in 1 .. w.count |-> LiveAttrs(AttrTags(log.tags, i - 1))]]
    IN  read(Live(log))

\* emit_compact_range refuses an entry without a NAME or a STRUCT, unless the
\* operation drops it.
Complete(src, op) ==
    \A i \in 1 .. src.count : \/ op.k = "remove" /\ op.id = i - 1
                              \/ src.slots[i].kind # None /\ src.slots[i].struct # None

Renumbered(tags, new) == [i \in DOMAIN tags |-> [tags[i] EXCEPT !.id = new]]

\* The attributes a rebuilt entry keeps, and the one the operation sets.
RebuiltAttrs(src, id, new, op) ==
    LET mine == op.id = id /\ op.k \in {"setattr", "removeattr"}
        kept == Fold(LAMBDA s, t : IF mine => t.attr # op.attr THEN Append(s, t) ELSE s,
                     <<>>, src.attrs[id + 1])
    IN  Renumbered(kept, new)
            \o IF mine /\ op.k = "setattr" THEN <<AttrTag(new, op.attr, op.value)>> ELSE <<>>

\* A live slot as emit_compact_range writes it, under its new id.
RebuiltEntry(src, id, new, op) ==
    LET slot == SlotOf(src, id)
    IN  <<CreateTag(new), NameTag(new, slot.kind, slot.name)>>
            \o (IF op.k = "rename" /\ op.id = id THEN <<NameTag(new, op.kind, op.name)>> ELSE <<>>)
            \o <<StructTag(new, IF op.k = "update" /\ op.id = id THEN op.struct ELSE slot.struct)>>
            \o RebuiltAttrs(src, id, new, op)

\* Mutant: a removed entry is left out but its id is spent.
NewIdSpent(op, lo, i) == i - lo

\* The id the entry at index i gets in the range from lo: a removed entry
\* takes none.
NewId(op, lo, i) == (i - lo) - (IF op.k = "remove" /\ lo <= op.id /\ op.id < i THEN 1 ELSE 0)

\* Mutant: a removed entry is written with the others and deleted at the end.
EmitRangeDeleting(src, op, lo, hi) ==
    LET tags(i) == IF i = src.count THEN NewEntry(op, i - lo) ELSE RebuiltEntry(src, i, i - lo, op)
    IN  FlattenSeq([k \in 1 .. hi - lo |-> tags(lo + k - 1)])
            \o IF op.k = "remove" /\ op.id \in lo .. hi - 1 THEN <<DeleteTag(op.id - lo)>> ELSE <<>>

\* emit_compact_range: the entries of the combined sequence in [lo, hi); the
\* operation's new entry, if any, is the last of the sequence.
EmitRange(src, op, lo, hi) ==
    LET tags(i) == IF i = src.count THEN NewEntry(op, NewId(op, lo, i))
                   ELSE IF op.k = "remove" /\ op.id = i THEN <<>>
                   ELSE RebuiltEntry(src, i, NewId(op, lo, i), op)
    IN  FlattenSeq([k \in 1 .. hi - lo |-> tags(lo + k - 1)])

-----------------------------------------------------------------------------
(* Commits: what a call carries besides its operation is x = [ms, rs,      *)
(* tail]: whether a MoveState or RelocateState delta rides along, and      *)
(* whether the tail is kept, set or cleared.                               *)

Plain == [ms |-> FALSE, rs |-> FALSE, tail |-> "keep"]

If(cond, n) == IF cond THEN n ELSE 0

CeilProg(n) == ((n + ProgSize - 1) \div ProgSize) * ProgSize

\* Mutant: the commit is padded as if there were always room for the FCRC.
FinishPaddedUncapped(off) == IF CeilProg(off + FCRC + CCRC) <= BlockSize
                             THEN CeilProg(off + FCRC + CCRC) ELSE None

\* finish_padded: where a commit whose tags end at off ends, None if there is
\* no room for its CCRC.
FinishPadded(off) ==
    LET want == off + FCRC + CCRC
        end == CeilProg(IF want < BlockSize THEN want ELSE BlockSize)
    IN  IF end > BlockSize \/ end < off + CCRC THEN None ELSE end

\* Whether that commit has an FCRC: without one the next commit compacts.
EmitsFcrc(off, end) == end >= off + FCRC + CCRC /\ end + ProgSize <= BlockSize

Extra(x) == If(x.ms, MOVE_STATE) + If(x.rs, RELOCATE_STATE) + If(x.tail # "keep", TAIL)

CanAppend(log, op, x) ==
    /\ log.erased
    /\ log.end % ProgSize = 0
    /\ log.end + OpDsize(op) + Extra(x) <= BlockSize
    /\ x.tail # "clear"

AppendOff(log, op, x) == log.end + Bytes(EmitOp(op)) + Extra(x)

\* A pair's gstate is a XOR of deltas: a first delta makes it non-zero, a
\* further one may cancel it.
Folded(old, delta) == IF ~delta THEN {old} ELSE IF old THEN BOOLEAN ELSE {TRUE}

\* Mutant: a commit that says nothing of the tail loses it.
TailAfterDropped(log, x) == x.tail = "set"

TailAfter(log, x) == CASE x.tail = "keep" -> log.tail [] x.tail = "set" -> TRUE [] OTHER -> FALSE

\* The in-place append of apply_op_to_pair_inner.
Appended(log, op, x, ms, rs) ==
    LET off == AppendOff(log, op, x)
        end == FinishPadded(off)
    IN  [tags |-> log.tags \o EmitOp(op), end |-> end, erased |-> EmitsFcrc(off, end),
         ms |-> ms, rs |-> rs, tail |-> TailAfter(log, x)]

\* A log of one commit; None if it overflows.
OneCommit(tags, ms, rs, tail) ==
    LET off == REVISION + Bytes(tags) + If(ms, MOVE_STATE) + If(rs, RELOCATE_STATE)
                        + If(tail, TAIL)
        end == FinishPadded(off)
    IN  IF end = None THEN None
        ELSE [tags |-> tags, end |-> end, erased |-> EmitsFcrc(off, end),
              ms |-> ms, rs |-> rs, tail |-> tail]

\* build_compact_commit: [lo, hi) as a log of its own.
Compact(src, op, lo, hi, ms, rs, tail) == OneCommit(EmitRange(src, op, lo, hi), ms, rs, tail)

Total(src, op) == src.count + If(AddsEntry(op), 1)

Budget ==
    LET half == CeilProg(BlockSize \div 2)
    IN  IF BlockSize - SPLIT_RESERVE < half THEN BlockSize - SPLIT_RESERVE ELSE half

\* compute_split_index over [0, end): the upper part shrinks until it is within
\* the budget; 0 when all of it is.
SplitIndex(src, op, end) ==
    LET shrink[s \in 0 .. end] ==
            IF \/ end - s <= 1
               \/ end - s < SplitEntries /\ Bytes(EmitRange(src, op, s, end)) <= Budget
            THEN s ELSE shrink[s + (end - s) \div 2]
    IN  shrink[0]

\* The cut loop of split_directory_pair: where the parts end, in chain order,
\* after at most cuts continuations were cut from the top.
PartEnds(src, op, cuts) ==
    Fold(LAMBDA ends, k : LET cut == SplitIndex(src, op, Head(ends))
                              IN  IF cut = 0 THEN ends ELSE <<cut>> \o ends,
             <<Total(src, op)>>, [k \in 1 .. cuts |-> k])

\* The parts: gstate stays with the first, the last inherits the tail.
Parts(src, op, cuts, ms, rs, tail) ==
    LET between(ends) ==
            [k \in DOMAIN ends |->
                Compact(src, op, IF k = 1 THEN 0 ELSE ends[k - 1], ends[k],
                        ms /\ k = 1, rs /\ k = 1, k < Len(ends) \/ tail)]
    IN  between(PartEnds(src, op, cuts))

Fit(parts) == \A k \in DOMAIN parts : parts[k] # None

-----------------------------------------------------------------------------
(* Calls, and the commit each of them asks for.                            *)

Call(o, n) == [op |-> o, name |-> n, to |-> None, kind |-> None, struct |-> None,
               attrs |-> [a \in Attrs |-> None], attr |-> None, value |-> None]

DirStruct(p) == [type |-> "dirstruct", body |-> p]

CallsOf(o) == {Call(o, n) : n \in Names}

WithEntry(c, kind, s) == [c EXCEPT !.kind = kind, !.struct = s]
WithAttr(c, a, v) == [c EXCEPT !.attr = a, !.value = v]

WriteCalls == {WithEntry(c, "file", s) : c \in CallsOf("write"), s \in Structs}
MkdirCalls == {WithEntry(c, "dir", DirStruct(p)) : c \in CallsOf("mkdir"), p \in Pairs}
MoveInCalls ==
    {[WithEntry(c, "file", s) EXCEPT !.attrs = f] :
        c \in CallsOf("movein"), s \in Structs, f \in [Attrs -> Values]}
RemoveCalls == CallsOf("remove") \cup CallsOf("rmdir") \cup CallsOf("moveout")
RelinkCalls == {[c EXCEPT !.struct = DirStruct(p)] : c \in CallsOf("relink"), p \in Pairs}
RenameCalls == {[c EXCEPT !.to = n] : c \in CallsOf("rename"), n \in Names}
SetAttrCalls == {WithAttr(c, a, v) : c \in CallsOf("setattr"), a \in Attrs, v \in Values}
RemoveAttrCalls == {[c EXCEPT !.attr = a] : c \in CallsOf("removeattr"), a \in Attrs}
ThreadCalls == {[Call("rethread", None) EXCEPT !.value = t] : t \in {"set", "clear"}}

Calls == UNION {WriteCalls, MkdirCalls, MoveInCalls, RemoveCalls, RelinkCalls, RenameCalls,
                SetAttrCalls, RemoveAttrCalls, ThreadCalls}

\* A request is one commit; a call that returns before any commit makes none.
Request(i, op, x) == {[pair |-> i, op |-> op, x |-> x]}

\* write_inline_to_pair and write_ctz_to_pair.
WriteRequest(c, at) ==
    IF ~at.found THEN Request(at.pair, CreateOp(at.id, "file", c.name, c.struct, <<>>), Plain)
    ELSE IF at.kind # "file" THEN {}
    ELSE Request(at.pair, UpdateOp(at.id, c.struct), Plain)

\* The parent's commit of mkdir: the entry, and the thread through the child.
MkdirRequest(c, at) ==
    IF at.found THEN {}
    ELSE Request(at.pair, CreateOp(at.id, "dir", c.name, c.struct, <<>>),
                 [Plain EXCEPT !.tail = "set"])

\* The destination's commit of a rename across directories: the entry comes
\* with its live attributes and a MoveState delta.
MoveInRequest(c, at) ==
    LET ids == SetToSeq(Attrs)
        staged == [i \in DOMAIN ids |-> AttrTag(at.id, ids[i], c.attrs[ids[i]])]
    IN  IF at.found THEN {}
        ELSE Request(at.pair, CreateOp(at.id, c.kind, c.name, c.struct, staged),
                     [Plain EXCEPT !.ms = TRUE])

\* remove_at_path, rmdir's commit in the parent, and the source's commit of a
\* rename across directories.
RemoveRequest(c, at) ==
    IF \/ ~at.found
       \/ c.op = "remove" /\ at.kind = "dir"
       \/ c.op = "rmdir" /\ at.kind # "dir"
    THEN {}
    ELSE Request(at.pair, Op("remove", at.id), [Plain EXCEPT !.ms = c.op = "moveout"])

\* The parent's commit of a relocation: a child's new address.
RelinkRequest(c, at) ==
    IF ~at.found \/ at.kind # "dir" THEN {}
    ELSE Request(at.pair, UpdateOp(at.id, c.struct), [Plain EXCEPT !.rs = TRUE])

\* rename_in_dir: a rename to the same name returns Ok, also before any commit.
RenameRequest(c, at, to) ==
    IF ~at.found \/ to.found THEN {}
    ELSE Request(at.pair, RenameOp(at.id, at.kind, c.to), Plain)

SetAttrRequest(c, at) ==
    IF ~at.found THEN {} ELSE Request(at.pair, SetAttrOp(at.id, c.attr, c.value), Plain)

RemoveAttrRequest(c, at) ==
    IF ~at.found THEN {} ELSE Request(at.pair, RemoveAttrOp(at.id, c.attr), Plain)

\* unthread_and_steal on the last pair: a new tail or none, and the gstate of
\* the dropped pair.
ThreadRequest(c) ==
    IF ~Last(chain).tail THEN {}
    ELSE Request(Len(chain), Op("noop", 0), [ms |-> TRUE, rs |-> TRUE, tail |-> c.value])

-----------------------------------------------------------------------------
(* What apply_op_to_pair_inner may make of a request: the logs that take   *)
(* the place of the pair's, or why it fails.                               *)

Lands(logs) == [logs |-> logs, why |-> None]

Fails(why) == [logs |-> <<>>, why |-> why]

Fixed(r) == image.root /\ r.pair = 1

\* The append lands; if the commit could not be finished the call fails.
AppendCommit(r, ms, rs) ==
    LET log == chain[r.pair]
    IN  IF FinishPadded(AppendOff(log, r.op, r.x)) = None THEN Fails("append")
        ELSE Lands(<<Appended(log, r.op, r.x, ms, rs)>>)

\* The append failed on a worn block: the pair is rebuilt on a fresh one, in
\* one piece whatever its size, with the relocation's own RelocateState.
EvictCommit(r, src, ms) ==
    LET land(new) == IF new = None THEN Fails("rebuild") ELSE Lands(<<new>>)
    IN  IF Fixed(r) \/ ~Complete(src, r.op) THEN Fails("io")
        ELSE land(Compact(src, r.op, 0, Total(src, r.op), ms, TRUE, TailAfter(chain[r.pair], r.x)))

\* compact_and_program: cut into parts if the live set is over the budget and
\* there are pairs for it, else in one piece; moved if the block is worn or due.
CompactCommits(r, src, ms, rs, moved) ==
    LET parts(cuts) == Parts(src, r.op, cuts, ms, rs \/ moved, TailAfter(chain[r.pair], r.x))
        full == IF r.op.k = "remove" /\ ~r.x.ms /\ ~moved THEN "remove" ELSE "full"
        land(cut, whole) == IF Fit(cut) THEN Lands(cut)
                            ELSE IF Fit(whole) THEN Lands(whole) ELSE Fails(full)
    IN  IF ~Complete(src, r.op) THEN {Fails("io")}
        ELSE {land(parts(cuts), parts(0)) :
                 cuts \in {n \in 0 .. MaxSplitCuts : n + Len(chain) <= MaxPairs}}

Commits(r, src) ==
    UNION {IF CanAppend(chain[r.pair], r.op, r.x)
           THEN {AppendCommit(r, ms, rs), EvictCommit(r, src, ms)}
           ELSE UNION {CompactCommits(r, src, ms, rs, moved) :
                          moved \in IF Fixed(r) THEN {FALSE} ELSE BOOLEAN} :
              ms \in Folded(chain[r.pair].ms, r.x.ms), rs \in Folded(chain[r.pair].rs, r.x.rs)}

-----------------------------------------------------------------------------
(* Actions.                                                                *)

Refused(why) == [Call("refused", None) EXCEPT !.value = why]

Reasons == {"early", "io", "append", "rebuild", "remove", "full"}

Refuse(why) == call' = Refused(why) /\ UNCHANGED <<chain, listing, calls>>

\* The call's commit replaces the pair's log, and readers see the result.
Accept(c, i, logs) ==
    /\ chain' = SubSeq(chain, 1, i - 1) \o logs \o SubSeq(chain, i + 1, Len(chain))
    /\ listing' = Listing(chain')
    /\ call' = c
    /\ calls' = calls + 1

Perform(c, requests) ==
    /\ UNCHANGED image
    /\ \/ requests = {} /\ Refuse("early")
       \/ \E r \in requests : \E o \in Commits(r, Source(chain[r.pair])) :
             IF o.why # None THEN Refuse(o.why) ELSE Accept(c, r.pair, o.logs)

\* A walker that meets a log it cannot replay fails, and every call with it.
Readable == \A i \in DOMAIN chain : Live(chain[i]).error = None

\* The calls this image's callers make.
Offered(c) ==
    /\ c.op \in image.ops
    /\ {c.name, c.to} \subseteq image.names \cup {None}
    /\ c.struct \in image.structs \cup {None} \cup {DirStruct(p) : p \in Pairs}

Write == \E c \in WriteCalls : Offered(c) /\ Perform(c, WriteRequest(c, Seek(c.name)))
Mkdir == \E c \in MkdirCalls : Offered(c) /\ Perform(c, MkdirRequest(c, Seek(c.name)))
MoveIn == \E c \in MoveInCalls : Offered(c) /\ Perform(c, MoveInRequest(c, Seek(c.name)))
RemoveEntry == \E c \in RemoveCalls : Offered(c) /\ Perform(c, RemoveRequest(c, Seek(c.name)))
Relink == \E c \in RelinkCalls : Offered(c) /\ Perform(c, RelinkRequest(c, Seek(c.name)))
Rename == \E c \in RenameCalls : Offered(c) /\ Perform(c, RenameRequest(c, Seek(c.name), Seek(c.to)))
SetAttr == \E c \in SetAttrCalls : Offered(c) /\ Perform(c, SetAttrRequest(c, Seek(c.name)))
RemoveAttr == \E c \in RemoveAttrCalls : Offered(c) /\ Perform(c, RemoveAttrRequest(c, Seek(c.name)))
Rethread == \E c \in ThreadCalls : Offered(c) /\ Perform(c, ThreadRequest(c))

\* A power cut tears the program of an append: the log is what it was, and the
\* window after it no longer matches its FCRC.
TornAppend ==
    /\ "torn" \in image.ops
    /\ \E i \in DOMAIN chain :
          /\ chain[i].erased
          /\ chain' = [chain EXCEPT ![i].erased = FALSE]
    /\ calls' = calls + 1
    /\ UNCHANGED <<listing, image, call>>

Tags == [type : NameTypes \cup StructTypes \cup {"create", "delete", "attr"}, id : Nat,
         attr : Attrs \cup {None}, body : DOMAIN Length]

Logs == [tags : Seq(Tags), end : REVISION .. BlockSize, erased : BOOLEAN,
         ms : BOOLEAN, rs : BOOLEAN, tail : BOOLEAN]

ASSUME DataAssumption ==
    /\ None \notin Nat \cup Reasons \cup {"out_of_range", "corrupt"} /\ None \notin Logs
    /\ IsFiniteSet(Attrs)
    /\ Length \in [DOMAIN Length -> Nat] /\ None \in DOMAIN Length /\ Length[None] = 0
    /\ Names \cup Pairs \cup Values \subseteq DOMAIN Length
    /\ Structs \subseteq [type : StructTypes, body : DOMAIN Length]

Used(log) ==
    REVISION + Bytes(log.tags) + If(log.ms, MOVE_STATE) + If(log.rs, RELOCATE_STATE)
        + If(log.tail, TAIL)

\* A log this writer left: its commits hold its tags and deltas, with an FCRC at
\* the end if it is erased, and it is no shorter than its rebuild, but for the
\* superblock's entry, which format writes without a Create.
Written(log, superblock) ==
    LET src == Source(log)
        noop == Op("noop", 0)
    IN  /\ log.end >= Used(log) + CCRC + If(log.erased, FCRC)
        /\ Complete(src, noop)
        /\ Bytes(EmitRange(src, noop, 0, src.count)) <= Bytes(log.tags) + If(superblock, TAG)

\* An image is a chain of logs that were programmed, each but the last with the
\* tail that leads to the next.
ASSUME ImageAssumption ==
    \A m \in Images :
        /\ m.chain \in Seq(Logs) /\ m.chain # <<>>
        /\ \A i \in DOMAIN m.chain :
              /\ m.chain[i].end % ProgSize = 0 /\ (i < Len(m.chain) => m.chain[i].tail)
              /\ m.own => Written(m.chain[i], m.root /\ i = 1)
        /\ m.root \in BOOLEAN /\ m.own \in BOOLEAN /\ m.calls \in Nat

Init ==
    /\ \E m \in Images :
          /\ chain = m.chain
          /\ image = [root |-> m.root, own |-> m.own, ops |-> m.ops, names |-> m.names,
                      structs |-> m.structs, calls |-> m.calls]
    /\ listing = Listing(chain)
    /\ call = Call("none", None)
    /\ calls = 0

Next ==
    /\ calls < image.calls
    /\ Readable
    /\ \/ Write \/ Mkdir \/ MoveIn \/ RemoveEntry \/ Relink \/ Rename
       \/ SetAttr \/ RemoveAttr \/ Rethread \/ TornAppend

Spec == Init /\ [][Next]_vars

-----------------------------------------------------------------------------
(* Properties.                                                             *)

\* Logs stay within their block, end where a program may start, and every one
\* but the last is continued by a tail.
TypeOK ==
    /\ chain \in Seq(Logs) /\ chain # <<>>
    /\ \A i \in DOMAIN chain : chain[i].end % ProgSize = 0 /\ (i < Len(chain) => chain[i].tail)
    /\ image.root \in BOOLEAN /\ image.own \in BOOLEAN
    /\ call \in Calls \cup {Call("none", None)} \cup {Refused(why) : why \in Reasons}
    /\ calls \in 0 .. image.calls

\* Every log a writer leaves can be replayed by every walker: splice_step finds
\* no error in it, live_entries, lookup and the compactor see the same entries
\* (each has a NAME and a STRUCT), and no name is found twice in the chain.
Replays ==
    /\ Readable
    /\ \A i \in DOMAIN chain : Complete(Source(chain[i]), Op("noop", 0))
    /\ \A i, j \in DOMAIN listing : listing[i].name = listing[j].name => i = j

\* A commit can_append lets through always finds room for its CCRC: the sizes
\* of op_dsize_of and the padding of finish_padded agree at every offset.
AppendFits == call # Refused("append")

\* The rebuild of a pair whose append failed never overflows the fresh block,
\* though it is not split and carries a RelocateState the log did not hold.
RebuildFits == image.own => call # Refused("rebuild")

\* A removal is never refused for lack of room, however full the directory and
\* the device: with no pair for a split the rest still fits the block.
RemoveLands == image.own => call # Refused("remove")

Promise == INSTANCE Directory WITH NoName <- None

\* What readers see of the logs is a directory: every accepted call has exactly
\* the effect it asked for on the listing and the attributes, whether it was
\* appended, compacted or split, and a refused one has none.
ImplementsDirectory == Promise!Spec
=============================================================================
