------------------------------ MODULE Directory ------------------------------
(***************************************************************************)
(* What a directory promises its callers: a listing of named entries, each *)
(* with a kind, a struct (where its contents are) and user attributes, and *)
(* calls that either do exactly what they were asked or are refused and    *)
(* leave the listing alone.  Nothing is said of logs, ids, pairs or bytes: *)
(* DirLog is shown to implement this module.                               *)
(***************************************************************************)
EXTENDS Integers, SequencesExt

CONSTANTS
    Names, Attrs,       \* entry names and attribute ids
    NoName,             \* no name, no kind, no struct, no attribute value
    Calls               \* every call a caller may make

VARIABLES
    listing,            \* the entries in the order readdir returns them
    call                \* the last call, or that it was refused

vars == <<listing, call>>

Index(l, n) == SelectInSeq(l, LAMBDA e : e.name = n)

Present(l, n) == Index(l, n) # 0

Entry(c) == [name |-> c.name, kind |-> c.kind, struct |-> c.struct, attrs |-> c.attrs]

\* Whether the directory may accept a call at all.
Permitted(l, c) ==
    CASE c.op = "write" -> Present(l, c.name) => l[Index(l, c.name)].kind = "file"
      [] c.op \in {"mkdir", "movein"} -> ~Present(l, c.name)
      [] c.op = "remove" -> Present(l, c.name) /\ l[Index(l, c.name)].kind = "file"
      [] c.op = "rmdir" -> Present(l, c.name) /\ l[Index(l, c.name)].kind = "dir"
      [] c.op = "relink" -> Present(l, c.name) /\ l[Index(l, c.name)].kind = "dir"
      [] c.op = "rename" -> Present(l, c.name) /\ ~Present(l, c.to)
      [] c.op \in {"moveout", "setattr", "removeattr"} -> Present(l, c.name)
      [] c.op = "rethread" -> TRUE

\* The listing an accepted call leaves.
Result(l, c) ==
    LET i == Index(l, c.name)
    IN  CASE c.op \in {"write", "mkdir", "movein"} /\ i = 0 -> Append(l, Entry(c))
          [] c.op \in {"write", "relink"} /\ i # 0 -> [l EXCEPT ![i].struct = c.struct]
          [] c.op \in {"remove", "rmdir", "moveout"} -> RemoveAt(l, i)
          [] c.op = "rename" -> [l EXCEPT ![i].name = c.to]
          [] c.op = "setattr" -> [l EXCEPT ![i].attrs[c.attr] = c.value]
          [] c.op = "removeattr" -> [l EXCEPT ![i].attrs[c.attr] = NoName]
          [] c.op = "rethread" -> l

Accept ==
    /\ call' \in Calls
    /\ Permitted(listing, call')
    /\ listing' = Result(listing, call')

Refuse ==
    /\ call'.op = "refused"
    /\ UNCHANGED listing

Next == Accept \/ Refuse

\* A directory may come with entries: an image another writer made.
Init ==
    /\ call.op = "none"
    /\ listing \in Seq([name : Names, kind : {"file", "dir"}, struct : {c.struct : c \in Calls},
                        attrs : [Attrs -> {NoName} \cup {c.value : c \in Calls}]])

Spec == Init /\ [][Next]_vars
=============================================================================
