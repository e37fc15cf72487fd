------------------------------ MODULE MCDirLog ------------------------------
EXTENDS DirLog

LogOf(tags, tail) == OneCommit(tags, FALSE, FALSE, tail)

Inline(c) == [type |-> "inline", body |-> c]

FileStructs == {Inline("s"), Inline("l")}

File(id, n) == <<CreateTag(id), NameTag(id, "file", n), StructTag(id, Inline("s"))>>

AllOps == {"write", "mkdir", "movein", "remove", "rmdir", "moveout", "relink", "rename",
           "setattr", "removeattr", "rethread", "torn"}

\* An image, and callers who do everything to two names.
Image(logs) ==
    [chain |-> logs, root |-> FALSE, own |-> TRUE, ops |-> AllOps, names |-> {"a", "b"},
     structs |-> FileStructs, calls |-> 3]

\* A directory mkdir made, at the end of the thread or not.
Fresh(tail) == Image(<<LogOf(<<>>, tail)>>)

\* The root as format leaves it.
Formatted ==
    [Image(<<LogOf(<<NameTag(0, "superblock", "littlefs"),
                     StructTag(0, Inline("geometry"))>>, FALSE)>>) EXCEPT !.root = TRUE]

\* A log another writer compacted: no Creates, ids not ascending, and a STRUCT
\* and an attribute before the NAME that covers their id.
Foreign ==
    [Image(<<LogOf(<<StructTag(1, Inline("s")), AttrTag(1, "x", "v"),
                     NameTag(1, "file", "b"), NameTag(0, "file", "a"),
                     StructTag(0, Inline("s"))>>, TRUE)>>) EXCEPT !.own = FALSE]

\* A log another writer appended to: names in order, so Creates below others.
Sorted ==
    [Image(<<LogOf(File(0, "b") \o <<AttrTag(0, "x", "v")>> \o File(0, "a"), TRUE)>>)
        EXCEPT !.own = FALSE]

\* Attributes and names while ids shift: entries come and go below each other.
Shifting ==
    [Image(<<LogOf(File(0, "a") \o File(1, "b"), FALSE)>>)
        EXCEPT !.ops = {"write", "remove", "rename", "setattr"},
               !.names = {"a", "b", "c"}, !.structs = {Inline("s")}, !.calls = 4]

\* A directory near half a block: it grows, splits, and grows again.
Growing ==
    [Image(<<LogOf(File(0, "a") \o File(1, "b") \o <<AttrTag(1, "x", "v")>> \o File(2, "c"), TRUE)>>)
        EXCEPT !.ops = {"write", "mkdir", "setattr"}, !.names = {"a", "b", "d", "e"}, !.calls = 3]

\* A directory in two logs: entries are found, changed and removed in both.
Chained ==
    [Image(<<LogOf(File(0, "a") \o File(1, "b"), TRUE), LogOf(File(0, "c") \o File(1, "d"), FALSE)>>)
        EXCEPT !.ops = {"write", "remove", "rename", "setattr", "movein", "moveout"},
               !.names = {"a", "b", "c", "d"}, !.structs = {Inline("s")}, !.calls = 3]

SmallImages == {Fresh(TRUE), Fresh(FALSE), Formatted, Foreign, Sorted, Shifting, Growing, Chained}

\* One entry after another, up to MAX_LIVE_ENTRIES and past it.
FullImages ==
    {[Image(<<LogOf(<<>>, FALSE)>>) EXCEPT !.ops = {"write"}, !.structs = {Inline("s")},
                                           !.names = Names, !.calls = 5]}

Bodies == [b \in {"a", "b", "c", "d", "e", "s", "l", "v", "w", "p", "q", "littlefs", "geometry", None} |->
              CASE b \in {"a", "b", "c", "d", "e"} -> 2
                [] b = "s" -> 4
                [] b = "l" -> 22
                [] b = "v" -> 3
                [] b = "w" -> 9
                [] b \in {"p", "q", "littlefs"} -> 8
                [] b = "geometry" -> 24
                [] b = None -> 0]

=============================================================================
