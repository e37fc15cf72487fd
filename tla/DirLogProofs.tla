---------------------------- MODULE DirLogProofs ----------------------------
(***************************************************************************)
(* Proofs about DirLog, for every geometry and every length of a name, a   *)
(* struct or an attribute: logs stay within their block and hold           *)
(* well-formed tags, a commit that can_append lets through can be          *)
(* finished, and in a directory this writer made the rebuild of a worn     *)
(* half and every removal find room.                                       *)
(***************************************************************************)
EXTENDS DirLog, SetInduction, SequenceTheorems, FiniteSetTheorems

----------------------------------------------------------------------------
(* The padding of a commit.                                                *)

LEMMA Constants ==
    /\ ProgSize \in Nat \ {0} /\ BlockSize \in Nat /\ BlockSize >= 128
    /\ BlockSize % ProgSize = 0
    /\ MaxLive \in Nat \ {0} /\ SplitEntries \in Nat /\ MaxSplitCuts \in Nat \ {0}
    /\ TAG = 4 /\ REVISION = 4 /\ CCRC = 8 /\ FCRC = 12
    /\ MOVE_STATE = 16 /\ RELOCATE_STATE = 20 /\ TAIL = 12
BY GeometryAssumption, BoundAssumption
   DEF TAG, REVISION, CCRC, FCRC, MOVE_STATE, RELOCATE_STATE, TAIL

LEMMA DivMod ==
    ASSUME NEW n \in Nat, NEW d \in Nat \ {0}
    PROVE  n \div d \in Nat /\ n % d \in 0 .. d - 1 /\ n = d * (n \div d) + (n % d)
OBVIOUS

LEMMA Multiple ==
    ASSUME NEW q \in Nat, NEW d \in Nat \ {0}
    PROVE  (q * d) % d = 0 /\ q * d \in Nat
OBVIOUS

\* A size rounded up to whole programs.
LEMMA CeilProgIs ==
    ASSUME NEW n \in Nat, n <= BlockSize
    PROVE  CeilProg(n) \in n .. BlockSize /\ CeilProg(n) \in Nat /\ CeilProg(n) % ProgSize = 0
<1> DEFINE P == ProgSize
           q == (n + P - 1) \div P
           m == BlockSize \div P
<1>1. P \in Nat \ {0} /\ BlockSize \in Nat /\ BlockSize % P = 0
  BY Constants
<1>2. n + P - 1 \in Nat
  BY <1>1
<1>3. q \in Nat /\ n + P - 1 < P * q + P /\ n + P - 1 >= P * q
  <2>1. PICK w \in Nat : w = n + P - 1
    BY <1>2
  <2>2. w \div P \in Nat /\ w % P \in 0 .. P - 1 /\ w = P * (w \div P) + (w % P)
    BY <1>1, DivMod
  <2>3. q = w \div P
    BY <2>1
  <2> HIDE DEF P, q
  <2> QED BY <1>1, <2>1, <2>2, <2>3
<1>4. m \in Nat /\ BlockSize = P * m
  BY <1>1, DivMod
<1> HIDE DEF P, q, m
<1>5. n <= P * q /\ P * q < P * m + P /\ P * q \in Nat
  BY <1>1, <1>3, <1>4
<1>6. q <= m
  <2> SUFFICES ASSUME m + 1 <= q PROVE FALSE
    BY <1>3, <1>4
  <2>1. P * (m + 1) <= P * q
    BY <1>1, <1>3, <1>4
  <2>2. P * (m + 1) = P * m + P
    BY <1>1, <1>4
  <2> QED BY <1>1, <1>3, <1>4, <1>5, <2>1, <2>2
<1>7. P * q <= P * m
  BY <1>1, <1>3, <1>4, <1>6
<1>8. CeilProg(n) = q * P /\ q * P = P * q
  BY <1>1, <1>3 DEF CeilProg, P, q
<1>9. (q * P) % P = 0
  BY <1>1, <1>3, Multiple
<1> QED BY <1>1, <1>4, <1>5, <1>7, <1>8, <1>9 DEF P

\* finish_padded finds room exactly when the CCRC fits the block, and ends the
\* commit behind it, where the next program may start.
LEMMA FinishPaddedIs ==
    ASSUME NEW off \in Nat
    PROVE  /\ off + CCRC <= BlockSize => FinishPadded(off) # None
           /\ FinishPadded(off) # None =>
                 /\ FinishPadded(off) \in off + CCRC .. BlockSize
                 /\ FinishPadded(off) \in Nat
                 /\ FinishPadded(off) % ProgSize = 0
<1> DEFINE want == off + FCRC + CCRC
           n == IF want < BlockSize THEN want ELSE BlockSize
<1>1. n \in Nat /\ n <= BlockSize /\ BlockSize \in Nat /\ want = off + 20 /\ CCRC = 8
      /\ (off + 8 <= BlockSize => off + 8 <= n)
  BY Constants
<1>2. FinishPadded(off) = IF CeilProg(n) > BlockSize \/ CeilProg(n) < off + CCRC
                          THEN None ELSE CeilProg(n)
  BY DEF FinishPadded
<1>3. CeilProg(n) \in n .. BlockSize /\ CeilProg(n) \in Nat /\ CeilProg(n) % ProgSize = 0
  BY <1>1, CeilProgIs
<1> HIDE DEF n, want
<1>4. CeilProg(n) # None
  BY <1>3, DataAssumption
<1> QED BY <1>1, <1>2, <1>3, <1>4

----------------------------------------------------------------------------
(* The bytes of a sequence of tags.                                        *)

LEMMA TagBytes ==
    ASSUME NEW t \in Tags
    PROVE  Length[t.body] \in Nat /\ TAG + Length[t.body] \in Nat
BY DataAssumption, Constants DEF Tags

\* What the fold of Bytes accumulates.
LEMMA BytesExist ==
    ASSUME NEW s \in Seq(Tags)
    PROVE  \E g \in [0 .. Len(s) -> Nat] :
              /\ g[0] = 0 /\ \A k \in 1 .. Len(s) : g[k] = g[k - 1] + TAG + Length[s[k].body]
              /\ Bytes(s) = g[Len(s)]
<1> DEFINE n == Len(s)
           step == [k \in 1 .. n |-> [x \in Nat |-> x + TAG + Length[s[k].body]]]
           f[i \in 0 .. n] == IF i = 0 THEN 0 ELSE f[i - 1] + TAG + Length[s[i].body]
<1>0. n \in Nat /\ 0 \in 0 .. n /\ n \in 0 .. n
  OBVIOUS
<1>1. \A k \in 1 .. n : Length[s[k].body] \in Nat
  BY TagBytes
<1>2. \A k \in 1 .. n, x \in Nat : step[k][x] = x + TAG + Length[s[k].body] /\ step[k][x] \in Nat
  BY <1>1, Constants
<1>3. Bytes(s) = f[n]
  BY DEF Bytes, Fold
<1> HIDE DEF step, n
<1>4. PICK g : Follows(g, n, Nat, 0, step)
  BY <1>0, <1>2, StepsExist DEF StepsStay
<1>5. g \in [0 .. n -> Nat] /\ g[0] = 0 /\ \A k \in 1 .. n : g[k] = g[k - 1] + TAG + Length[s[k].body]
  <2>1. g \in [0 .. n -> Nat] /\ g[0] = 0 /\ \A k \in 1 .. n : g[k] = step[k][g[k - 1]]
    BY <1>4 DEF Follows
  <2>2. \A k \in 1 .. n : g[k - 1] \in Nat
    BY <1>0, <2>1
  <2> QED BY <1>2, <2>1, <2>2
<1>6. g = [i \in 0 .. n |-> IF i = 0 THEN 0 ELSE g[i - 1] + TAG + Length[s[i].body]]
  BY <1>0, <1>5
<1>7. f = [i \in 0 .. n |-> IF i = 0 THEN 0 ELSE f[i - 1] + TAG + Length[s[i].body]]
  BY <1>6
<1> HIDE DEF f
<1>8. f[0] = 0 /\ \A k \in 1 .. n : f[k - 1] \in Nat => f[k] = step[k][f[k - 1]]
  BY <1>0, <1>2, <1>7
<1>9. f[n] = g[n]
  BY <1>0, <1>4, <1>8, RecursionIs
<1> QED BY <1>3, <1>5, <1>9 DEF n

LEMMA BytesNat ==
    ASSUME NEW s \in Seq(Tags)
    PROVE  Bytes(s) \in Nat
BY BytesExist

\* Tags that agree on their bodies have the same bytes.
LEMMA BytesSame ==
    ASSUME NEW s \in Seq(Tags), NEW t \in Seq(Tags), Len(s) = Len(t),
           \A k \in 1 .. Len(s) : s[k].body = t[k].body
    PROVE  Bytes(s) = Bytes(t)
<1> DEFINE n == Len(s)
<1>1. PICK g \in [0 .. n -> Nat] :
         /\ g[0] = 0 /\ \A k \in 1 .. n : g[k] = g[k - 1] + TAG + Length[s[k].body]
         /\ Bytes(s) = g[n]
  BY BytesExist
<1>2. PICK h \in [0 .. n -> Nat] :
         /\ h[0] = 0 /\ \A k \in 1 .. n : h[k] = h[k - 1] + TAG + Length[t[k].body]
         /\ Bytes(t) = h[n]
  BY BytesExist
<1>0. n \in Nat
  OBVIOUS
<1> DEFINE S == {k \in 0 .. n : g[k] = h[k]}
<1>3. 0 \in S
  BY <1>0, <1>1, <1>2
<1>4. ASSUME NEW k \in 0 .. n - 1, k \in S PROVE k + 1 \in S
  <2>1. k + 1 \in 1 .. n /\ (k + 1) - 1 = k /\ k + 1 \in 0 .. n
    BY <1>0
  <2> QED BY <1>1, <1>2, <1>4, <2>1
<1> HIDE DEF S, n
<1>5. \A k \in 0 .. n : k \in S
  BY <1>0, <1>3, <1>4, UpToInduction
<1>6. g[n] = h[n]
  BY <1>0, <1>5 DEF S
<1> QED BY <1>1, <1>2, <1>6

\* The bytes of two runs of tags add up.
LEMMA BytesConcat ==
    ASSUME NEW s \in Seq(Tags), NEW t \in Seq(Tags)
    PROVE  s \o t \in Seq(Tags) /\ Bytes(s \o t) = Bytes(s) + Bytes(t)
<1> DEFINE n == Len(s)
           m == Len(t)
           u == s \o t
<1>0. n \in Nat /\ m \in Nat /\ u \in Seq(Tags) /\ Len(u) = n + m
      /\ (\A k \in 1 .. n : u[k] = s[k]) /\ (\A k \in 1 .. m : u[n + k] = t[k])
  OBVIOUS
<1>1. PICK g \in [0 .. n -> Nat] :
         /\ g[0] = 0 /\ \A k \in 1 .. n : g[k] = g[k - 1] + TAG + Length[s[k].body]
         /\ Bytes(s) = g[n]
  BY BytesExist
<1>2. PICK h \in [0 .. m -> Nat] :
         /\ h[0] = 0 /\ \A k \in 1 .. m : h[k] = h[k - 1] + TAG + Length[t[k].body]
         /\ Bytes(t) = h[m]
  BY BytesExist
<1>3. PICK f \in [0 .. n + m -> Nat] :
         /\ f[0] = 0 /\ \A k \in 1 .. n + m : f[k] = f[k - 1] + TAG + Length[u[k].body]
         /\ Bytes(u) = f[n + m]
  BY <1>0, BytesExist
<1> HIDE DEF u, n, m
<1> DEFINE S == {k \in 0 .. n : f[k] = g[k]}
<1>4. 0 \in S
  BY <1>0, <1>1, <1>3
<1>5. ASSUME NEW k \in 0 .. n - 1, k \in S PROVE k + 1 \in S
  <2>1. k + 1 \in 1 .. n /\ (k + 1) - 1 = k /\ k + 1 \in 0 .. n /\ k + 1 \in 1 .. n + m
    BY <1>0
  <2>2. f[k] = g[k]
    BY <1>5
  <2>3. f[k + 1] = f[k] + TAG + Length[u[k + 1].body]
    BY <1>3, <2>1
  <2>4. g[k + 1] = g[k] + TAG + Length[s[k + 1].body]
    BY <1>1, <2>1
  <2>5. f[k + 1] = g[k + 1]
    BY <1>0, <2>1, <2>2, <2>3, <2>4
  <2> QED BY <2>1, <2>5
<1> HIDE DEF S
<1>6. \A k \in 0 .. n : k \in S
  BY <1>0, <1>4, <1>5, UpToInduction
<1>7. f[n] = g[n]
  BY <1>0, <1>6 DEF S
<1> DEFINE T == {k \in 0 .. m : f[n + k] = g[n] + h[k]}
<1>8. 0 \in T
  BY <1>0, <1>1, <1>2, <1>7
<1>9. ASSUME NEW k \in 0 .. m - 1, k \in T PROVE k + 1 \in T
  <2>1. k + 1 \in 1 .. m /\ (k + 1) - 1 = k /\ k + 1 \in 0 .. m /\ n + (k + 1) \in 1 .. n + m
        /\ (n + (k + 1)) - 1 = n + k /\ n \in 0 .. n
    BY <1>0
  <2>2. h[k + 1] = h[k] + TAG + Length[t[k + 1].body]
    BY <1>2, <2>1
  <2>3. PICK x : x = Length[t[k + 1].body]
    OBVIOUS
  <2>6. f[n + (k + 1)] = f[n + k] + TAG + x
    BY <1>0, <1>3, <2>1, <2>3
  <2>4. h[k] \in Nat /\ g[n] \in Nat /\ f[n + k] = g[n] + h[k]
        /\ TAG \in Nat /\ Length[t[k + 1].body] \in Nat
    <3>1. t[k + 1] \in Tags
      BY <1>0, <2>1 DEF m
    <3> QED BY <1>1, <1>2, <1>9, <2>1, <3>1, Constants, TagBytes
  <2>7. h[k + 1] = h[k] + TAG + x /\ x \in Nat
    BY <2>2, <2>3, <2>4
  <2>5. f[n + (k + 1)] = g[n] + h[k + 1]
    <3>1. PICK a, b, c, e, y : /\ a = f[n + (k + 1)] /\ b = f[n + k] /\ c = g[n] /\ e = h[k]
                               /\ y = TAG
      OBVIOUS
    <3>2. a = b + y + x /\ b = c + e /\ c \in Nat /\ e \in Nat /\ y \in Nat /\ x \in Nat
          /\ h[k + 1] = e + y + x
      BY <2>4, <2>6, <2>7, <3>1
    <3>3. a = c + (e + y + x)
      BY ONLY <3>2
    <3> QED BY <3>1, <3>2, <3>3
  <2> QED BY <2>1, <2>5
<1> HIDE DEF T
<1>10. \A k \in 0 .. m : k \in T
  BY <1>0, <1>8, <1>9, UpToInduction
<1>11. f[n + m] = g[n] + h[m]
  BY <1>0, <1>10 DEF T
<1> QED BY <1>0, <1>1, <1>2, <1>3, <1>11 DEF u

LEMMA BytesEmpty == <<>> \in Seq(Tags) /\ Bytes(<<>>) = 0
<1>1. <<>> \in Seq(Tags) /\ Len(<<>>) = 0
  OBVIOUS
<1> QED BY <1>1, BytesExist

LEMMA BytesOne ==
    ASSUME NEW t \in Tags
    PROVE  <<t>> \in Seq(Tags) /\ Bytes(<<t>>) = TAG + Length[t.body]
<1> DEFINE s == <<t>>
<1>1. s \in Seq(Tags) /\ Len(s) = 1 /\ s[1] = t
  OBVIOUS
<1> HIDE DEF s
<1>2. PICK g \in [0 .. 1 -> Nat] :
         /\ g[0] = 0 /\ \A k \in 1 .. 1 : g[k] = g[k - 1] + TAG + Length[s[k].body]
         /\ Bytes(s) = g[1]
  BY <1>1, BytesExist
<1>3. g[1] = g[0] + TAG + Length[t.body] /\ g[0] = 0
  <2>1. 1 \in 1 .. 1 /\ 1 - 1 = 0
    OBVIOUS
  <2> QED BY <1>1, <1>2, <2>1
<1> QED BY <1>1, <1>2, <1>3, Constants, TagBytes DEF s

----------------------------------------------------------------------------
(* What replaying a log gives.                                             *)

Body      == DOMAIN Length
Structure == [type : StructTypes, body : Body]
Slot      == [kind : NameTypes \cup {None}, name : Body, struct : Structure \cup {None}]
Row       == {s \in Seq(Slot) : Len(s) = MaxLive}
Errors    == {None, "out_of_range", "corrupt"}
Walks     == [slots : Row, count : 0 .. MaxLive, error : Errors]

LEMMA EmptySlotType == EmptySlot \in Slot
BY DataAssumption DEF EmptySlot, Slot, Body

LEMMA NoSlotsType == NoSlots \in Row
<1> DEFINE f == [i \in 1 .. MaxLive |-> EmptySlot]
<1>1. f \in Seq(Slot) /\ Len(f) = MaxLive
  BY EmptySlotType, Constants
<1> HIDE DEF f
<1>2. <<>> \o f = f
  BY <1>1
<1> QED BY <1>1, <1>2 DEF NoSlots, Row, f

LEMMA Joined ==
    ASSUME NEW S, NEW a \in Seq(S), NEW b \in Seq(S)
    PROVE  a \o b \in Seq(S) /\ Len(a \o b) = Len(a) + Len(b)
OBVIOUS

LEMMA ConcatLaw ==
    ASSUME NEW S, NEW a \in Seq(S), NEW b \in Seq(S)
    PROVE  /\ a \o b \in Seq(S) /\ Len(a \o b) = Len(a) + Len(b)
           /\ \A j \in 1 .. Len(a) : (a \o b)[j] = a[j]
           /\ \A j \in 1 .. Len(b) : (a \o b)[Len(a) + j] = b[j]
OBVIOUS

LEMMA JoinedFour ==
    ASSUME NEW S, NEW a \in Seq(S), NEW b \in Seq(S), NEW c \in Seq(S), NEW d \in Seq(S)
    PROVE  /\ a \o b \o c \o d \in Seq(S)
           /\ Len(a \o b \o c \o d) = Len(a) + Len(b) + Len(c) + Len(d)
<1>1. PICK x \in Seq(S) : x = a \o b /\ Len(x) = Len(a) + Len(b)
  BY Joined
<1>2. PICK y \in Seq(S) : y = x \o c /\ Len(y) = Len(x) + Len(c)
  BY Joined
<1>3. y \o d \in Seq(S) /\ Len(y \o d) = Len(y) + Len(d)
  BY Joined
<1> QED BY <1>1, <1>2, <1>3

LEMMA RowOfDelete ==
    ASSUME NEW w \in Walks, NEW id \in Nat, id < w.count
    PROVE  SlotsAfterDelete(w, id) \in Row
<1>0. PICK s : s = w.slots
  OBVIOUS
<1>1. s \in Seq(Slot) /\ Len(s) = MaxLive /\ w.count \in Nat /\ w.count <= MaxLive /\ MaxLive \in Nat
  BY <1>0, Constants DEF Walks, Row
<1>2. PICK a \in Seq(Slot) : a = SubSeq(s, 1, id) /\ Len(a) = id
  <2>1. 1 \in 1 .. Len(s) + 1 /\ id \in 1 - 1 .. Len(s)
    BY <1>1
  <2>2. SubSeq(s, 1, id) \in Seq(Slot) /\ Len(SubSeq(s, 1, id)) = id
    BY <1>1, <2>1, SubSeqProperties
  <2> QED BY <2>2
<1>3. PICK b \in Seq(Slot) : b = SubSeq(s, id + 2, w.count) /\ Len(b) = w.count - id - 1
  <2>1. id + 2 \in 1 .. Len(s) + 1 /\ w.count \in (id + 2) - 1 .. Len(s)
    BY <1>1
  <2>2. SubSeq(s, id + 2, w.count) \in Seq(Slot) /\ Len(SubSeq(s, id + 2, w.count)) = w.count - id - 1
    BY <1>1, <2>1, SubSeqProperties
  <2> QED BY <2>2
<1>4. PICK c \in Seq(Slot) : c = <<EmptySlot>> /\ Len(c) = 1
  <2>1. <<EmptySlot>> \in Seq(Slot) /\ Len(<<EmptySlot>>) = 1
    BY EmptySlotType
  <2> QED BY <2>1
<1>5. PICK d \in Seq(Slot) : d = SubSeq(s, w.count + 1, MaxLive) /\ Len(d) = MaxLive - w.count
  <2>1. w.count + 1 \in 1 .. Len(s) + 1 /\ MaxLive \in (w.count + 1) - 1 .. Len(s)
    BY <1>1
  <2>2. SubSeq(s, w.count + 1, MaxLive) \in Seq(Slot) /\ Len(SubSeq(s, w.count + 1, MaxLive)) = MaxLive - w.count
    BY <1>1, <2>1, SubSeqProperties
  <2> QED BY <2>2
<1>6. SlotsAfterDelete(w, id) = a \o b \o c \o d
  BY <1>0, <1>2, <1>3, <1>4, <1>5 DEF SlotsAfterDelete
<1>7. a \o b \o c \o d \in Seq(Slot)
      /\ Len(a \o b \o c \o d) = Len(a) + Len(b) + Len(c) + Len(d)
  BY JoinedFour
<1>8. Len(a) + Len(b) + Len(c) + Len(d) = MaxLive
  <2>1. Len(a) = id /\ Len(b) = w.count - id - 1
    BY <1>2, <1>3
  <2>2. Len(c) = 1 /\ Len(d) = MaxLive - w.count
    BY <1>4, <1>5
  <2>3. w.count \in Nat /\ MaxLive \in Nat
    BY <1>1
  <2>4. id + (w.count - id - 1) + 1 + (MaxLive - w.count) = MaxLive
    <3>1. \A i, n, m \in Nat : i + (n - i - 1) + 1 + (m - n) = m
      OBVIOUS
    <3> QED BY <2>3, <3>1
  <2> QED BY ONLY <2>1, <2>2, <2>4
<1> QED BY <1>6, <1>7, <1>8 DEF Row

LEMMA RowOfCreate ==
    ASSUME NEW w \in Walks, NEW id \in Nat, id <= w.count, w.count < MaxLive
    PROVE  SlotsAfterCreate(w, id) \in Row
<1>0. PICK s : s = w.slots
  OBVIOUS
<1>1. s \in Seq(Slot) /\ Len(s) = MaxLive /\ w.count \in Nat /\ w.count < MaxLive /\ MaxLive \in Nat
  BY <1>0, Constants DEF Walks, Row
<1>2. PICK a \in Seq(Slot) : a = SubSeq(s, 1, id) /\ Len(a) = id
  <2>1. 1 \in 1 .. Len(s) + 1 /\ id \in 1 - 1 .. Len(s)
    BY <1>1
  <2>2. SubSeq(s, 1, id) \in Seq(Slot) /\ Len(SubSeq(s, 1, id)) = id
    BY <1>1, <2>1, SubSeqProperties
  <2> QED BY <2>2
<1>3. PICK b \in Seq(Slot) : b = <<EmptySlot>> /\ Len(b) = 1
  <2>1. <<EmptySlot>> \in Seq(Slot) /\ Len(<<EmptySlot>>) = 1
    BY EmptySlotType
  <2> QED BY <2>1
<1>4. PICK c \in Seq(Slot) : c = SubSeq(s, id + 1, w.count) /\ Len(c) = w.count - id
  <2>1. id + 1 \in 1 .. Len(s) + 1 /\ w.count \in (id + 1) - 1 .. Len(s)
    BY <1>1
  <2>2. SubSeq(s, id + 1, w.count) \in Seq(Slot) /\ Len(SubSeq(s, id + 1, w.count)) = w.count - id
    BY <1>1, <2>1, SubSeqProperties
  <2> QED BY <2>2
<1>5. PICK d \in Seq(Slot) : d = SubSeq(s, w.count + 2, MaxLive) /\ Len(d) = MaxLive - w.count - 1
  <2>1. w.count + 2 \in 1 .. Len(s) + 1 /\ MaxLive \in (w.count + 2) - 1 .. Len(s)
    BY <1>1
  <2>2. SubSeq(s, w.count + 2, MaxLive) \in Seq(Slot) /\ Len(SubSeq(s, w.count + 2, MaxLive)) = MaxLive - w.count - 1
    BY <1>1, <2>1, SubSeqProperties
  <2> QED BY <2>2
<1>6. SlotsAfterCreate(w, id) = a \o b \o c \o d
  BY <1>0, <1>2, <1>3, <1>4, <1>5 DEF SlotsAfterCreate
<1>7. a \o b \o c \o d \in Seq(Slot)
      /\ Len(a \o b \o c \o d) = Len(a) + Len(b) + Len(c) + Len(d)
  BY JoinedFour
<1>8. Len(a) + Len(b) + Len(c) + Len(d) = MaxLive
  <2>1. Len(a) = id /\ Len(b) = 1
    BY <1>2, <1>3
  <2>2. Len(c) = w.count - id /\ Len(d) = MaxLive - w.count - 1
    BY <1>4, <1>5
  <2>3. w.count \in Nat /\ MaxLive \in Nat
    BY <1>1
  <2>4. id + 1 + (w.count - id) + (MaxLive - w.count - 1) = MaxLive
    <3>1. \A i, n, m \in Nat : i + 1 + (n - i) + (m - n - 1) = m
      OBVIOUS
    <3> QED BY <2>3, <3>1
  <2> QED BY ONLY <2>1, <2>2, <2>4
<1> QED BY <1>6, <1>7, <1>8 DEF Row

LEMMA SpliceStepType ==
    ASSUME NEW w \in Walks, NEW t \in Tags
    PROVE  /\ SpliceStep(w, t) \in Walks
           /\ SpliceStep(w, t).error = None /\ w.error = None /\ t.type \in NameTypes => t.id < MaxLive
<1>1. t.id \in Nat /\ w.count \in 0 .. MaxLive /\ w.slots \in Row /\ MaxLive \in Nat /\ w.count \in Nat
  BY Constants DEF Tags, Walks
<1>2. \A e \in Errors : Fail(w, e) \in Walks /\ Fail(w, e).error = e
  BY DEF Fail, Walks
<1>3. "out_of_range" \in Errors /\ "corrupt" \in Errors
  BY DEF Errors
<1>9. "create" \notin NameTypes /\ "delete" \notin NameTypes
  BY DEF NameTypes
<1>4. CASE t.type = "create"
  <2>1. SpliceStep(w, t) = IF w.count >= MaxLive THEN Fail(w, "out_of_range")
                           ELSE IF t.id > w.count THEN Fail(w, "corrupt")
                           ELSE [w EXCEPT !.count = w.count + 1, !.slots = SlotsAfterCreate(w, t.id)]
    BY <1>4, <1>9 DEF SpliceStep
  <2>2. CASE w.count >= MaxLive \/ t.id > w.count
    BY <1>2, <1>3, <1>4, <1>9, <2>1, <2>2
  <2>3. CASE ~(w.count >= MaxLive \/ t.id > w.count)
    <3>1. SlotsAfterCreate(w, t.id) \in Row /\ w.count + 1 \in 0 .. MaxLive
      BY <1>1, <2>3, RowOfCreate
    <3> QED BY <1>4, <1>9, <2>1, <2>3, <3>1 DEF Walks
  <2> QED BY <2>2, <2>3
<1>5. CASE t.type = "delete"
  <2>1. SpliceStep(w, t) = IF t.id >= w.count THEN Fail(w, "corrupt")
                           ELSE [w EXCEPT !.count = w.count - 1, !.slots = SlotsAfterDelete(w, t.id)]
    BY <1>5, <1>9 DEF SpliceStep
  <2>2. CASE t.id >= w.count
    BY <1>2, <1>3, <1>5, <1>9, <2>1, <2>2
  <2>3. CASE ~(t.id >= w.count)
    <3>1. SlotsAfterDelete(w, t.id) \in Row /\ w.count - 1 \in 0 .. MaxLive
      BY <1>1, <2>3, RowOfDelete
    <3> QED BY <1>5, <1>9, <2>1, <2>3, <3>1 DEF Walks
  <2> QED BY <2>2, <2>3
<1>6. CASE t.type \in NameTypes
  <2>1. SpliceStep(w, t) = IF t.id >= MaxLive THEN Fail(w, "out_of_range")
                           ELSE [w EXCEPT !.count = IF t.id >= w.count THEN t.id + 1 ELSE w.count]
    BY <1>6, <1>9 DEF SpliceStep
  <2>2. CASE t.id >= MaxLive
    <3>1. "out_of_range" # None
      BY DataAssumption
    <3> QED BY <1>2, <1>3, <2>1, <2>2, <3>1
  <2>3. CASE ~(t.id >= MaxLive)
    <3>1. (IF t.id >= w.count THEN t.id + 1 ELSE w.count) \in 0 .. MaxLive
      BY <1>1, <2>3
    <3> QED BY <1>1, <2>1, <2>3, <3>1 DEF Walks
  <2> QED BY <2>2, <2>3
<1>7. CASE t.type \notin {"create", "delete"} \cup NameTypes
  <2>1. SpliceStep(w, t) = w
    BY <1>7 DEF SpliceStep
  <2> QED BY <1>7, <2>1
<1> QED BY <1>4, <1>5, <1>6, <1>7

LEMMA RecordType ==
    ASSUME NEW w \in Walks, NEW t \in Tags,
           w.error = None /\ t.type \in NameTypes => t.id < MaxLive
    PROVE  Record(w, t) \in Walks /\ Record(w, t).count = w.count /\ Record(w, t).error = w.error
<1>1. /\ t.id \in Nat /\ MaxLive \in Nat /\ w.slots \in Seq(Slot) /\ Len(w.slots) = MaxLive
      /\ t.body \in Body
  BY Constants DEF Tags, Walks, Row, Body
<1>2. CASE w.error # None
  BY <1>2 DEF Record
<1>3. CASE w.error = None /\ t.type \in NameTypes
  <2>1. t.id + 1 \in 1 .. Len(w.slots) /\ w.slots[t.id + 1] \in Slot
    BY <1>1, <1>3
  <2> DEFINE e == [w.slots[t.id + 1] EXCEPT !.name = t.body, !.kind = t.type]
             r == [w.slots EXCEPT ![t.id + 1] = e]
  <2>2. e \in Slot
    BY <1>1, <1>3, <2>1 DEF Slot
  <2>3. r \in Seq(Slot) /\ Len(r) = Len(w.slots)
    BY <1>1, <2>1, <2>2, ExceptSeq
  <2>4. Record(w, t) = [w EXCEPT !.slots = r]
    BY <1>1, <1>3, <2>1 DEF Record, Slot, Walks, Row
  <2> HIDE DEF r
  <2> QED BY <1>1, <2>3, <2>4 DEF Walks, Row
<1>4. CASE w.error = None /\ t.type \in StructTypes /\ t.id < MaxLive
  <2>1. t.id + 1 \in 1 .. Len(w.slots) /\ w.slots[t.id + 1] \in Slot
    BY <1>1, <1>4
  <2> DEFINE e == [w.slots[t.id + 1] EXCEPT !.struct = [type |-> t.type, body |-> t.body]]
             r == [w.slots EXCEPT ![t.id + 1] = e]
  <2>2. e \in Slot
    BY <1>1, <1>4, <2>1 DEF Slot, Structure
  <2>3. r \in Seq(Slot) /\ Len(r) = Len(w.slots)
    BY <1>1, <2>1, <2>2, ExceptSeq
  <2>4. t.type \notin NameTypes
    BY <1>4 DEF NameTypes, StructTypes
  <2>5. Record(w, t) = [w EXCEPT !.slots = r]
    BY <1>4, <2>4 DEF Record
  <2> HIDE DEF r
  <2> QED BY <1>1, <2>3, <2>5 DEF Walks, Row
<1>5. CASE w.error = None /\ t.type \notin NameTypes /\ ~(t.type \in StructTypes /\ t.id < MaxLive)
  BY <1>5 DEF Record
<1> QED BY <1>2, <1>3, <1>4, <1>5

LEMMA GatherStepType ==
    ASSUME NEW w \in Walks, NEW t \in Tags
    PROVE  GatherStep(w, t) \in Walks
<1>1. CASE w.error # None
  BY <1>1 DEF GatherStep
<1>2. CASE w.error = None
  <2>1. PICK v \in Walks : v = SpliceStep(w, t)
    BY SpliceStepType
  <2>2. v.error = None /\ t.type \in NameTypes => t.id < MaxLive
    BY <1>2, <2>1, SpliceStepType
  <2>3. Record(v, t) \in Walks
    BY <2>2, RecordType
  <2> QED BY <1>2, <2>1, <2>3 DEF GatherStep
<1> QED BY <1>1, <1>2

Start == [slots |-> NoSlots, count |-> 0, error |-> None]

LEMMA StartType == Start \in Walks
BY NoSlotsType, Constants DEF Start, Walks, Errors

\* gather_live_slots, tag by tag.
LEMMA GatherExist ==
    ASSUME NEW s \in Seq(Tags)
    PROVE  \E g \in [0 .. Len(s) -> Walks] :
              /\ g[0] = Start /\ \A k \in 1 .. Len(s) : g[k] = GatherStep(g[k - 1], s[k])
              /\ Gather(s) = g[Len(s)]
<1> DEFINE n == Len(s)
           step == [k \in 1 .. n |-> [x \in Walks |-> GatherStep(x, s[k])]]
           f[i \in 0 .. n] == IF i = 0 THEN Start ELSE GatherStep(f[i - 1], s[i])
<1>0. n \in Nat /\ 0 \in 0 .. n /\ n \in 0 .. n
  OBVIOUS
<1>2. \A k \in 1 .. n, x \in Walks : step[k][x] = GatherStep(x, s[k]) /\ step[k][x] \in Walks
  BY GatherStepType
<1>3. Gather(s) = f[n]
  BY DEF Gather, Fold, Start
<1> HIDE DEF step, n
<1>4. PICK g : Follows(g, n, Walks, Start, step)
  BY <1>0, <1>2, StartType, StepsExist DEF StepsStay
<1>5. g \in [0 .. n -> Walks] /\ g[0] = Start /\ \A k \in 1 .. n : g[k] = GatherStep(g[k - 1], s[k])
  <2>1. g \in [0 .. n -> Walks] /\ g[0] = Start /\ \A k \in 1 .. n : g[k] = step[k][g[k - 1]]
    BY <1>4 DEF Follows
  <2>2. \A k \in 1 .. n : g[k - 1] \in Walks
    BY <1>0, <2>1
  <2> QED BY <1>2, <2>1, <2>2
<1>6. g = [i \in 0 .. n |-> IF i = 0 THEN Start ELSE GatherStep(g[i - 1], s[i])]
  BY <1>0, <1>5
<1>7. f = [i \in 0 .. n |-> IF i = 0 THEN Start ELSE GatherStep(f[i - 1], s[i])]
  BY <1>6
<1> HIDE DEF f
<1>8. f[0] = Start /\ \A k \in 1 .. n : f[k - 1] \in Walks => f[k] = step[k][f[k - 1]]
  BY <1>0, <1>2, <1>7
<1>9. f[n] = g[n]
  BY <1>0, <1>4, <1>8, RecursionIs
<1> QED BY <1>3, <1>5, <1>9 DEF n

LEMMA GatherType ==
    ASSUME NEW s \in Seq(Tags)
    PROVE  Gather(s) \in Walks
<1>1. Len(s) \in 0 .. Len(s)
  OBVIOUS
<1> QED BY <1>1, GatherExist

----------------------------------------------------------------------------
(* The attributes of a live entry.                                         *)

Attributes == {t \in Tags : t.type = "attr"}

LEMMA AttributesAreTags == Attributes \subseteq Tags /\ Seq(Attributes) \subseteq Seq(Tags)
BY DEF Attributes

AttrWalks == [id : Nat, gdiff : Int, done : BOOLEAN, found : Seq(Attributes)]

LEMMA AttrStepType ==
    ASSUME NEW w \in AttrWalks, NEW t \in Tags
    PROVE  AttrStep(w, t) \in AttrWalks
<1>1. w.id \in Nat /\ w.gdiff \in Int /\ t.id \in Nat /\ Adj(w) \in Int /\ w.found \in Seq(Attributes)
  BY DEF AttrWalks, Tags, Adj
<1>2. CASE w.done \/ t.id > Adj(w)
  BY <1>2 DEF AttrStep
<1>3. CASE ~(w.done \/ t.id > Adj(w))
  <2>1. t.id = Adj(w) \/ t.id < Adj(w)
    BY <1>1, <1>3
  <2>2. CASE t.type = "create" /\ t.id = Adj(w)
    <3>1. AttrStep(w, t) = [w EXCEPT !.done = TRUE]
      BY <1>1, <1>3, <2>2 DEF AttrStep
    <3> QED BY <3>1 DEF AttrWalks
  <2>3. CASE t.type = "create" /\ t.id < Adj(w)
    <3>1. AttrStep(w, t) = [w EXCEPT !.gdiff = w.gdiff + 1]
      BY <1>1, <1>3, <2>3 DEF AttrStep
    <3> QED BY <1>1, <3>1 DEF AttrWalks
  <2>4. CASE t.type = "delete"
    <3>1. AttrStep(w, t) = [w EXCEPT !.gdiff = w.gdiff - 1]
      BY <1>3, <2>4 DEF AttrStep
    <3> QED BY <1>1, <3>1 DEF AttrWalks
  <2>5. CASE t.type = "attr" /\ t.id = Adj(w)
    <3>1. AttrStep(w, t) = [w EXCEPT !.found = Append(w.found, t)]
      BY <1>3, <2>5 DEF AttrStep
    <3>2. Append(w.found, t) \in Seq(Attributes)
      BY <1>1, <2>5 DEF Attributes
    <3> QED BY <3>1, <3>2 DEF AttrWalks
  <2>6. CASE t.type \notin {"create", "delete"} /\ ~(t.type = "attr" /\ t.id = Adj(w))
    <3>1. AttrStep(w, t) = w
      BY <1>3, <2>6 DEF AttrStep
    <3> QED BY <3>1
  <2> QED BY <2>1, <2>2, <2>3, <2>4, <2>5, <2>6
<1> QED BY <1>2, <1>3

LEMMA ReverseType ==
    ASSUME NEW s \in Seq(Tags)
    PROVE  Reverse(s) \in Seq(Tags) /\ Len(Reverse(s)) = Len(s)
<1>1. \A i \in 1 .. Len(s) : (Len(s) - i) + 1 \in 1 .. Len(s)
  OBVIOUS
<1> QED BY <1>1 DEF Reverse

AttrStart(id) == [id |-> id, gdiff |-> 0, done |-> FALSE, found |-> <<>>]

\* attr_get, tag by tag.
LEMMA AttrWalkExist ==
    ASSUME NEW s \in Seq(Tags), NEW id \in Nat
    PROVE  \E g \in [0 .. Len(Reverse(s)) -> AttrWalks] :
              /\ g[0] = AttrStart(id) /\ \A k \in 1 .. Len(Reverse(s)) : g[k] = AttrStep(g[k - 1], Reverse(s)[k])
              /\ Fold(AttrStep, AttrStart(id), Reverse(s)) = g[Len(Reverse(s))]
<1> DEFINE n == Len(Reverse(s))
           step == [k \in 1 .. n |-> [x \in AttrWalks |-> AttrStep(x, Reverse(s)[k])]]
           f[i \in 0 .. n] == IF i = 0 THEN AttrStart(id) ELSE AttrStep(f[i - 1], Reverse(s)[i])
<1>0. n \in Nat /\ 0 \in 0 .. n /\ n \in 0 .. n
  BY ReverseType
<1>10. Reverse(s) \in Seq(Tags)
  BY ReverseType
<1>1. AttrStart(id) \in AttrWalks
  BY DEF AttrStart, AttrWalks
<1>2. \A k \in 1 .. n, x \in AttrWalks : step[k][x] = AttrStep(x, Reverse(s)[k]) /\ step[k][x] \in AttrWalks
  BY <1>10, AttrStepType
<1>3. Fold(AttrStep, AttrStart(id), Reverse(s)) = f[n]
  BY DEF Fold
<1> HIDE DEF step, n
<1>4. PICK g : Follows(g, n, AttrWalks, AttrStart(id), step)
  BY <1>0, <1>1, <1>2, StepsExist DEF StepsStay
<1>5. g \in [0 .. n -> AttrWalks] /\ g[0] = AttrStart(id) /\ \A k \in 1 .. n : g[k] = AttrStep(g[k - 1], Reverse(s)[k])
  <2>1. g \in [0 .. n -> AttrWalks] /\ g[0] = AttrStart(id) /\ \A k \in 1 .. n : g[k] = step[k][g[k - 1]]
    BY <1>4 DEF Follows
  <2>2. \A k \in 1 .. n : g[k - 1] \in AttrWalks
    BY <1>0, <2>1
  <2> QED BY <1>2, <2>1, <2>2
<1>6. g = [i \in 0 .. n |-> IF i = 0 THEN AttrStart(id) ELSE AttrStep(g[i - 1], Reverse(s)[i])]
  BY <1>0, <1>5
<1>7. f = [i \in 0 .. n |-> IF i = 0 THEN AttrStart(id) ELSE AttrStep(f[i - 1], Reverse(s)[i])]
  BY <1>6
<1> HIDE DEF f
<1>8. f[0] = AttrStart(id) /\ \A k \in 1 .. n : f[k - 1] \in AttrWalks => f[k] = step[k][f[k - 1]]
  BY <1>0, <1>2, <1>7
<1>9. f[n] = g[n]
  BY <1>0, <1>4, <1>8, RecursionIs
<1> QED BY <1>3, <1>5, <1>9 DEF n

LEMMA AttrTagsType ==
    ASSUME NEW s \in Seq(Tags), NEW id \in Nat
    PROVE  AttrTags(s, id) \in Seq(Attributes)
<1>1. Len(Reverse(s)) \in 0 .. Len(Reverse(s))
  BY ReverseType
<1>2. PICK w \in AttrWalks : w = Fold(AttrStep, AttrStart(id), Reverse(s))
  BY <1>1, AttrWalkExist
<1>3. AttrTags(s, id) = w.found
  BY <1>2 DEF AttrTags, AttrStart
<1> QED BY <1>3 DEF AttrWalks

\* The indices in found that LiveAttrs keeps.
Newest(found) == {i \in DOMAIN found : \A j \in 1 .. i - 1 : found[j].attr # found[i].attr}

KeepNewest(found, x, i) == IF i \in Newest(found) /\ found[i].body # None THEN Append(x, found[i]) ELSE x

Indices(found) == [i \in DOMAIN found |-> i]

\* for_each_live_attr, tag by tag.
LEMMA LiveAttrsExist ==
    ASSUME NEW found \in Seq(Attributes)
    PROVE  \E g \in [0 .. Len(Indices(found)) -> Seq(Attributes)] :
              /\ g[0] = <<>> /\ \A k \in 1 .. Len(Indices(found)) : g[k] = KeepNewest(found, g[k - 1], Indices(found)[k])
              /\ LiveAttrs(found) = g[Len(Indices(found))]
<1> DEFINE n == Len(Indices(found))
           step == [k \in 1 .. n |-> [x \in Seq(Attributes) |-> KeepNewest(found, x, Indices(found)[k])]]
           f[i \in 0 .. n] == IF i = 0 THEN <<>> ELSE KeepNewest(found, f[i - 1], Indices(found)[i])
<1>0. n \in Nat /\ 0 \in 0 .. n /\ n \in 0 .. n
  BY DEF Indices
<1>10. \A k \in 1 .. n : Indices(found)[k] = k /\ k \in DOMAIN found
  BY DEF Indices
<1>1. <<>> \in Seq(Attributes)
  OBVIOUS
<1>2. \A k \in 1 .. n, x \in Seq(Attributes) : step[k][x] = KeepNewest(found, x, Indices(found)[k]) /\ step[k][x] \in Seq(Attributes)
  BY <1>10 DEF KeepNewest, Newest
<1>3. LiveAttrs(found) = f[n]
  BY DEF LiveAttrs, Fold, Newest, KeepNewest, Indices
<1> HIDE DEF step, n
<1>4. PICK g : Follows(g, n, Seq(Attributes), <<>>, step)
  BY <1>0, <1>1, <1>2, StepsExist DEF StepsStay
<1>5. g \in [0 .. n -> Seq(Attributes)] /\ g[0] = <<>> /\ \A k \in 1 .. n : g[k] = KeepNewest(found, g[k - 1], Indices(found)[k])
  <2>1. g \in [0 .. n -> Seq(Attributes)] /\ g[0] = <<>> /\ \A k \in 1 .. n : g[k] = step[k][g[k - 1]]
    BY <1>4 DEF Follows
  <2>2. \A k \in 1 .. n : g[k - 1] \in Seq(Attributes)
    BY <1>0, <2>1
  <2> QED BY <1>2, <2>1, <2>2
<1>6. g = [i \in 0 .. n |-> IF i = 0 THEN <<>> ELSE KeepNewest(found, g[i - 1], Indices(found)[i])]
  BY <1>0, <1>5
<1>7. f = [i \in 0 .. n |-> IF i = 0 THEN <<>> ELSE KeepNewest(found, f[i - 1], Indices(found)[i])]
  BY <1>6
<1> HIDE DEF f
<1>8. f[0] = <<>> /\ \A k \in 1 .. n : f[k - 1] \in Seq(Attributes) => f[k] = step[k][f[k - 1]]
  <2>1. f[0] = <<>>
    BY <1>0, <1>7
  <2>2. ASSUME NEW k \in 1 .. n, f[k - 1] \in Seq(Attributes) PROVE f[k] = step[k][f[k - 1]]
    <3>1. k \in 0 .. n /\ k # 0
      BY <1>0
    <3>2. f[k] = KeepNewest(found, f[k - 1], Indices(found)[k])
      BY <1>7, <3>1
    <3> QED BY <1>2, <2>2, <3>2
  <2> QED BY <2>1, <2>2
<1>9. f[n] = g[n]
  BY <1>0, <1>4, <1>8, RecursionIs
<1> QED BY <1>3, <1>5, <1>9 DEF n

LEMMA LiveAttrsType ==
    ASSUME NEW found \in Seq(Attributes)
    PROVE  LiveAttrs(found) \in Seq(Attributes)
<1>1. Len(Indices(found)) \in 0 .. Len(Indices(found))
  BY DEF Indices
<1> QED BY <1>1, LiveAttrsExist

----------------------------------------------------------------------------
(* The operations, and the bytes they append.                              *)

OpKinds == {"create", "update", "remove", "rename", "setattr", "removeattr", "noop"}

\* What a caller hands to apply_op_to_pair_inner.
OpOK(op) ==
    /\ op.k \in OpKinds /\ op.id \in Nat
    /\ op.k = "create" => /\ op.kind \in NameTypes /\ op.name \in Body /\ op.struct \in Structure
                          /\ op.attrs \in Seq(Tags)
    /\ op.k = "update" => op.struct \in Structure
    /\ op.k = "rename" => op.kind \in NameTypes /\ op.name \in Body
    /\ op.k \in {"setattr", "removeattr"} => op.attr \in Attrs /\ op.value \in Body
    /\ op.k = "removeattr" => op.value = None

\* An operation where seek_entry_in_chain puts it: a new entry behind the live
\* ones, any other at one of them.
Placed(op, count) ==
    /\ op.k = "create" => op.id = count
    /\ op.k \notin {"create", "noop"} => op.id < count

LEMMA TagTypes ==
    ASSUME NEW id \in Nat
    PROVE  /\ CreateTag(id) \in Tags /\ CreateTag(id).body = None
           /\ DeleteTag(id) \in Tags /\ DeleteTag(id).body = None
           /\ \A kind \in NameTypes, name \in Body :
                 NameTag(id, kind, name) \in Tags /\ NameTag(id, kind, name).body = name
           /\ \A s \in Structure : StructTag(id, s) \in Tags /\ StructTag(id, s).body = s.body
           /\ \A a \in Attrs \cup {None}, v \in Body :
                 AttrTag(id, a, v) \in Tags /\ AttrTag(id, a, v).body = v
<1>1. None \in Body
  BY DataAssumption DEF Body
<1>2. CreateTag(id) \in Tags /\ CreateTag(id).body = None
  BY <1>1 DEF CreateTag, Tags, Body
<1>3. DeleteTag(id) \in Tags /\ DeleteTag(id).body = None
  BY <1>1 DEF DeleteTag, Tags, Body
<1>4. ASSUME NEW kind \in NameTypes, NEW name \in Body
      PROVE  NameTag(id, kind, name) \in Tags /\ NameTag(id, kind, name).body = name
  BY DEF NameTag, Tags, Body
<1>5. ASSUME NEW s \in Structure
      PROVE  StructTag(id, s) \in Tags /\ StructTag(id, s).body = s.body
  BY DEF StructTag, Tags, Body, Structure
<1>6. ASSUME NEW a \in Attrs \cup {None}, NEW v \in Body
      PROVE  AttrTag(id, a, v) \in Tags /\ AttrTag(id, a, v).body = v
  BY DEF AttrTag, Tags, Body
<1> QED BY <1>2, <1>3, <1>4, <1>5, <1>6

\* The attributes an entry is created with, under its id.
LEMMA AttrsUnder ==
    ASSUME NEW l \in Seq(Tags), NEW id \in Nat, NEW a,
           a = [i \in DOMAIN l |-> AttrTag(id, l[i].attr, l[i].body)]
    PROVE  a \in Seq(Tags) /\ Bytes(a) = Bytes(l)
<1>1. DOMAIN l = 1 .. Len(l) /\ Len(l) \in Nat
  OBVIOUS
<1>2. ASSUME NEW k \in 1 .. Len(l) PROVE a[k] \in Tags /\ a[k].body = l[k].body
  <2>1. l[k] \in Tags
    OBVIOUS
  <2>2. l[k].attr \in Attrs \cup {None} /\ l[k].body \in Body
    BY <2>1 DEF Tags, Body
  <2>3. a[k] = AttrTag(id, l[k].attr, l[k].body)
    BY <1>1
  <2>4. PICK x \in Attrs \cup {None}, v \in Body : x = l[k].attr /\ v = l[k].body
    BY <2>2
  <2>5. AttrTag(id, x, v) \in Tags /\ AttrTag(id, x, v).body = v
    BY TagTypes
  <2> QED BY <2>3, <2>4, <2>5
<1>3. a \in [1 .. Len(l) -> Tags]
  BY <1>1, <1>2
<1>4. a \in Seq(Tags) /\ Len(a) = Len(l)
  BY <1>1, <1>3
<1> QED BY <1>2, <1>4, BytesSame

LEMMA NewEntryBytes ==
    ASSUME NEW op, OpOK(op), op.k = "create", NEW id \in Nat
    PROVE  /\ NewEntry(op, id) \in Seq(Tags)
           /\ Bytes(NewEntry(op, id)) =
                 TAG + (TAG + Length[op.name]) + (TAG + Length[op.struct.body]) + Bytes(op.attrs)
           /\ Bytes(op.attrs) \in Nat /\ Length[op.name] \in Nat /\ Length[op.struct.body] \in Nat
<1>1. /\ op.kind \in NameTypes /\ op.name \in Body /\ op.struct \in Structure
      /\ op.attrs \in Seq(Tags) /\ op.struct.body \in Body
  BY DEF OpOK, Structure
<1>2. PICK c \in Tags : c = CreateTag(id) /\ c.body = None
  BY TagTypes
<1>3. PICK n \in Tags : n = NameTag(id, op.kind, op.name) /\ n.body = op.name
  BY <1>1, TagTypes
<1>4. PICK s \in Tags : s = StructTag(id, op.struct) /\ s.body = op.struct.body
  BY <1>1, TagTypes
<1>5. PICK a : a = [i \in DOMAIN op.attrs |-> AttrTag(id, op.attrs[i].attr, op.attrs[i].body)]
  OBVIOUS
<1>6. a \in Seq(Tags) /\ Bytes(op.attrs) = Bytes(a)
  BY <1>1, <1>5, AttrsUnder
<1>7. <<c, n, s>> = (<<c>> \o <<n>>) \o <<s>>
  OBVIOUS
<1>8. NewEntry(op, id) = <<c, n, s>> \o a
  BY <1>2, <1>3, <1>4, <1>5 DEF NewEntry
<1>9. /\ <<c>> \in Seq(Tags) /\ Bytes(<<c>>) = TAG + Length[c.body]
      /\ <<n>> \in Seq(Tags) /\ Bytes(<<n>>) = TAG + Length[n.body]
      /\ <<s>> \in Seq(Tags) /\ Bytes(<<s>>) = TAG + Length[s.body]
  BY BytesOne
<1>10. PICK x \in Seq(Tags) : x = <<c>> \o <<n>> /\ Bytes(x) = Bytes(<<c>>) + Bytes(<<n>>)
  BY <1>9, BytesConcat
<1>11. PICK y \in Seq(Tags) : y = x \o <<s>> /\ Bytes(y) = Bytes(x) + Bytes(<<s>>)
  BY <1>9, BytesConcat
<1>12. NewEntry(op, id) \in Seq(Tags) /\ Bytes(NewEntry(op, id)) = Bytes(y) + Bytes(a)
  <2>1. NewEntry(op, id) = y \o a
    BY <1>7, <1>8, <1>10, <1>11
  <2> QED BY <1>6, <2>1, BytesConcat
<1>13. Length[c.body] = 0 /\ Length[n.body] = Length[op.name] /\ Length[s.body] = Length[op.struct.body]
       /\ Length[op.name] \in Nat /\ Length[op.struct.body] \in Nat /\ TAG \in Nat
  BY <1>1, <1>2, <1>3, <1>4, DataAssumption, Constants DEF Body
<1>14. Bytes(op.attrs) \in Nat
  BY <1>1, BytesNat
<1> QED BY <1>6, <1>9, <1>10, <1>11, <1>12, <1>13, <1>14

\* op_dsize_of counts what emit_op writes and the CCRC.
LEMMA EmitOpBytes ==
    ASSUME NEW op, OpOK(op)
    PROVE  /\ EmitOp(op) \in Seq(Tags) /\ Bytes(EmitOp(op)) \in Nat /\ OpDsize(op) \in Nat
           /\ OpDsize(op) = Bytes(EmitOp(op)) + CCRC
<1>1. op.k \in OpKinds /\ op.id \in Nat /\ TAG = 4 /\ CCRC = 8
  BY Constants DEF OpOK
<1>0. Length[None] = 0 /\ \A b \in Body : Length[b] \in Nat
  BY DataAssumption DEF Body
<1>2. CASE op.k = "create"
  <2>1. EmitOp(op) = NewEntry(op, op.id)
    BY <1>2 DEF EmitOp
  <2>2. OpDsize(op) = TAG + (TAG + Length[op.name]) + (TAG + Length[op.struct.body])
                          + Bytes(op.attrs) + CCRC
    BY <1>2 DEF OpDsize
  <2>3. /\ NewEntry(op, op.id) \in Seq(Tags)
        /\ Bytes(NewEntry(op, op.id)) =
              TAG + (TAG + Length[op.name]) + (TAG + Length[op.struct.body]) + Bytes(op.attrs)
        /\ Bytes(op.attrs) \in Nat /\ Length[op.name] \in Nat /\ Length[op.struct.body] \in Nat
    BY <1>1, <1>2, NewEntryBytes
  <2>4. PICK b, n, l, e : /\ b = Bytes(op.attrs) /\ n = Length[op.name] /\ l = Length[op.struct.body]
                          /\ e = Bytes(NewEntry(op, op.id))
    OBVIOUS
  <2>5. /\ b \in Nat /\ n \in Nat /\ l \in Nat /\ TAG = 4 /\ CCRC = 8
        /\ e = TAG + (TAG + n) + (TAG + l) + b
        /\ OpDsize(op) = TAG + (TAG + n) + (TAG + l) + b + CCRC
    BY <1>1, <2>2, <2>3, <2>4
  <2>6. e \in Nat /\ OpDsize(op) \in Nat /\ OpDsize(op) = e + CCRC
    BY ONLY <2>5
  <2> QED BY <2>1, <2>3, <2>4, <2>6
<1>3. CASE op.k = "update"
  <2>1. op.struct \in Structure /\ op.struct.body \in Body
    BY <1>3 DEF OpOK, Structure
  <2>2. EmitOp(op) = <<StructTag(op.id, op.struct)>> /\ StructTag(op.id, op.struct) \in Tags
        /\ StructTag(op.id, op.struct).body = op.struct.body
    BY <1>1, <1>3, <2>1, TagTypes DEF EmitOp
  <2>3. OpDsize(op) = (TAG + Length[op.struct.body]) + CCRC
    BY <1>3 DEF OpDsize
  <2>4. EmitOp(op) \in Seq(Tags) /\ Bytes(EmitOp(op)) = TAG + Length[op.struct.body]
    BY <2>2, BytesOne
  <2> QED BY <1>0, <1>1, <2>1, <2>3, <2>4
<1>4. CASE op.k = "remove"
  <2>2. EmitOp(op) = <<DeleteTag(op.id)>> /\ DeleteTag(op.id) \in Tags /\ DeleteTag(op.id).body = None
    BY <1>1, <1>4, TagTypes DEF EmitOp
  <2>3. OpDsize(op) = TAG + CCRC
    BY <1>4 DEF OpDsize
  <2>4. EmitOp(op) \in Seq(Tags) /\ Bytes(EmitOp(op)) = TAG + Length[None]
    BY <2>2, BytesOne
  <2> QED BY <1>0, <1>1, <2>3, <2>4
<1>5. CASE op.k = "rename"
  <2>1. op.kind \in NameTypes /\ op.name \in Body
    BY <1>5 DEF OpOK
  <2>2. EmitOp(op) = <<NameTag(op.id, op.kind, op.name)>> /\ NameTag(op.id, op.kind, op.name) \in Tags
        /\ NameTag(op.id, op.kind, op.name).body = op.name
    BY <1>1, <1>5, <2>1, TagTypes DEF EmitOp
  <2>3. OpDsize(op) = (TAG + Length[op.name]) + CCRC
    BY <1>5 DEF OpDsize
  <2>4. EmitOp(op) \in Seq(Tags) /\ Bytes(EmitOp(op)) = TAG + Length[op.name]
    BY <2>2, BytesOne
  <2> QED BY <1>0, <1>1, <2>1, <2>3, <2>4
<1>6. CASE op.k \in {"setattr", "removeattr"}
  <2>1. op.attr \in Attrs /\ op.value \in Body /\ (op.k = "removeattr" => op.value = None)
    BY <1>6 DEF OpOK
  <2>2. EmitOp(op) = <<AttrTag(op.id, op.attr, op.value)>> /\ AttrTag(op.id, op.attr, op.value) \in Tags
        /\ AttrTag(op.id, op.attr, op.value).body = op.value
    BY <1>1, <1>6, <2>1, TagTypes DEF EmitOp
  <2>3. OpDsize(op) = (TAG + Length[op.value]) + CCRC
    BY <1>0, <1>1, <1>6, <2>1 DEF OpDsize
  <2>4. EmitOp(op) \in Seq(Tags) /\ Bytes(EmitOp(op)) = TAG + Length[op.value]
    BY <2>2, BytesOne
  <2> QED BY <1>0, <1>1, <2>1, <2>3, <2>4
<1>7. CASE op.k = "noop"
  <2>1. EmitOp(op) = <<>> /\ OpDsize(op) = CCRC
    BY <1>7 DEF EmitOp, OpDsize
  <2> QED BY <1>1, <2>1, BytesEmpty
<1> QED BY <1>1, <1>2, <1>3, <1>4, <1>5, <1>6, <1>7 DEF OpKinds

----------------------------------------------------------------------------
(* What a rebuild reads, and what it writes.                               *)

SourceOK(src) ==
    /\ src.count \in 0 .. MaxLive /\ src.slots \in Row
    /\ src.attrs \in Seq(Seq(Attributes)) /\ Len(src.attrs) = src.count

LEMMA SourceType ==
    ASSUME NEW log, log.tags \in Seq(Tags)
    PROVE  SourceOK(Source(log)) /\ Source(log).count = Live(log).count
<1>1. PICK w \in Walks : w = Live(log)
  BY GatherType DEF Live
<1>2. w.count \in 0 .. MaxLive /\ w.slots \in Row /\ w.count \in Nat
  BY Constants DEF Walks
<1> DEFINE a == [i \in 1 .. w.count |-> LiveAttrs(AttrTags(log.tags, i - 1))]
<1>3. \A i \in 1 .. w.count : LiveAttrs(AttrTags(log.tags, i - 1)) \in Seq(Attributes)
  <2> SUFFICES ASSUME NEW i \in 1 .. w.count
               PROVE  LiveAttrs(AttrTags(log.tags, i - 1)) \in Seq(Attributes)
    OBVIOUS
  <2>1. i - 1 \in Nat
    BY <1>2
  <2>2. AttrTags(log.tags, i - 1) \in Seq(Attributes)
    BY <2>1, AttrTagsType
  <2> QED BY <2>2, LiveAttrsType
<1>4. a \in Seq(Seq(Attributes)) /\ Len(a) = w.count
  BY <1>2, <1>3, IsASeq
<1>5. Source(log) = [count |-> w.count, slots |-> w.slots, attrs |-> <<>> \o a]
  BY <1>1 DEF Source
<1> HIDE DEF a
<1>6. <<>> \o a = a
  BY <1>4
<1> QED BY <1>1, <1>2, <1>4, <1>5, <1>6 DEF SourceOK

\* FlattenSeq, part by part.
LEMMA FlattenExist ==
    ASSUME NEW S, NEW seqs \in Seq(Seq(S))
    PROVE  \E g \in [0 .. Len(seqs) -> Seq(S)] :
              /\ g[0] = <<>> /\ \A k \in 1 .. Len(seqs) : g[k] = g[k - 1] \o seqs[k]
              /\ FlattenSeq(seqs) = g[Len(seqs)]
<1> DEFINE n == Len(seqs)
           step == [k \in 1 .. n |-> [x \in Seq(S) |-> x \o seqs[k]]]
           f[i \in 1 .. n] == IF i = 1 THEN seqs[i] ELSE f[i - 1] \o seqs[i]
<1>0. n \in Nat /\ 0 \in 0 .. n /\ n \in 0 .. n
  OBVIOUS
<1>1. \A k \in 1 .. n : seqs[k] \in Seq(S)
  OBVIOUS
<1>2. \A k \in 1 .. n, x \in Seq(S) : step[k][x] = x \o seqs[k] /\ step[k][x] \in Seq(S)
  BY <1>1
<1>3. FlattenSeq(seqs) = IF n = 0 THEN seqs ELSE f[n]
  BY DEF FlattenSeq
<1>10. n = 0 => seqs = <<>>
  OBVIOUS
<1>11. <<>> \in Seq(S)
  OBVIOUS
<1> HIDE DEF step, n
<1>4. PICK g : Follows(g, n, Seq(S), <<>>, step)
  BY <1>0, <1>2, <1>11, StepsExist DEF StepsStay
<1>5. g \in [0 .. n -> Seq(S)] /\ g[0] = <<>> /\ \A k \in 1 .. n : g[k] = g[k - 1] \o seqs[k]
  <2>1. g \in [0 .. n -> Seq(S)] /\ g[0] = <<>> /\ \A k \in 1 .. n : g[k] = step[k][g[k - 1]]
    BY <1>4 DEF Follows
  <2>2. \A k \in 1 .. n : g[k - 1] \in Seq(S)
    BY <1>0, <2>1
  <2> QED BY <1>2, <2>1, <2>2
<1>6. CASE n = 0
  BY <1>3, <1>5, <1>6, <1>10 DEF n
<1>7. CASE n # 0
  <2> DEFINE h == [i \in 1 .. n |-> g[i]]
  <2>0. 1 \in 1 .. n /\ n \in 1 .. n
    BY <1>0, <1>7
  <2>1. g[1] = seqs[1]
    <3>1. g[1] = g[0] \o seqs[1]
      <4>1. g[1] = g[1 - 1] \o seqs[1]
        BY <1>5, <2>0
      <4>2. 1 - 1 = 0
        OBVIOUS
      <4> QED BY <4>1, <4>2
    <3> QED BY <1>1, <1>5, <2>0, <3>1
  <2>2. h = [i \in 1 .. n |-> IF i = 1 THEN seqs[i] ELSE h[i - 1] \o seqs[i]]
    <3>1. \A i \in 1 .. n : h[i] = IF i = 1 THEN seqs[i] ELSE h[i - 1] \o seqs[i]
      <4> SUFFICES ASSUME NEW i \in 1 .. n
                   PROVE  h[i] = IF i = 1 THEN seqs[i] ELSE h[i - 1] \o seqs[i]
        OBVIOUS
      <4>1. CASE i = 1
        BY <2>1, <4>1
      <4>2. CASE i # 1
        <5>1. i - 1 \in 1 .. n
          BY <1>0, <4>2
        <5>2. h[i] = g[i] /\ h[i - 1] = g[i - 1]
          BY <5>1
        <5>3. g[i] = g[i - 1] \o seqs[i]
          BY <1>5
        <5> QED BY <4>2, <5>2, <5>3
      <4> QED BY <4>1, <4>2
    <3> HIDE DEF h
    <3>2. h = [i \in 1 .. n |-> h[i]]
      BY DEF h
    <3> QED BY <3>1, <3>2
  <2> HIDE DEF h
  <2>3. f = [i \in 1 .. n |-> IF i = 1 THEN seqs[i] ELSE f[i - 1] \o seqs[i]]
    BY <2>2
  <2> HIDE DEF f
  <2> DEFINE T == {i \in 0 .. n : i = 0 \/ f[i] = g[i]}
  <2>4. 0 \in T
    BY <1>0
  <2>5. ASSUME NEW i \in 0 .. n - 1, i \in T PROVE i + 1 \in T
    <3>1. i + 1 \in 1 .. n /\ i + 1 \in 0 .. n /\ (i + 1) - 1 = i
      BY <1>0
    <3>2. f[i + 1] = IF i + 1 = 1 THEN seqs[i + 1] ELSE f[(i + 1) - 1] \o seqs[i + 1]
      BY <2>3, <3>1
    <3>3. CASE i = 0
      <4>1. i + 1 = 1
        BY <3>3
      <4> QED BY <2>1, <3>1, <3>2, <4>1
    <3>4. CASE i # 0
      <4>1. f[i] = g[i] /\ i + 1 # 1
        BY <2>5, <3>4
      <4>2. g[i + 1] = g[(i + 1) - 1] \o seqs[i + 1]
        BY <1>5, <3>1
      <4> QED BY <3>1, <3>2, <4>1, <4>2
    <3> QED BY <3>3, <3>4
  <2> HIDE DEF T
  <2>6. \A i \in 0 .. n : i \in T
    BY <1>0, <2>4, <2>5, UpToInduction
  <2>7. f[n] = g[n]
    BY <1>0, <1>7, <2>6 DEF T
  <2> QED BY <1>3, <1>5, <1>7, <2>7 DEF n
<1> QED BY <1>6, <1>7

LEMMA FlattenType ==
    ASSUME NEW S, NEW seqs \in Seq(Seq(S))
    PROVE  FlattenSeq(seqs) \in Seq(S)
<1>1. Len(seqs) \in 0 .. Len(seqs)
  OBVIOUS
<1>2. PICK g \in [0 .. Len(seqs) -> Seq(S)] : FlattenSeq(seqs) = g[Len(seqs)]
  BY FlattenExist
<1> QED BY <1>1, <1>2

\* Whether the operation changes an attribute of the entry.
SetsOn(op, id) == op.id = id /\ op.k \in {"setattr", "removeattr"}

KeepAttr(op, id, x, t) == IF SetsOn(op, id) => t.attr # op.attr THEN Append(x, t) ELSE x

Kept(op, id, tags) == Fold(LAMBDA x, t : KeepAttr(op, id, x, t), <<>>, tags)

\* The attributes a rebuilt entry keeps, tag by tag.
LEMMA KeptExist ==
    ASSUME NEW s \in Seq(Attributes), NEW op, NEW id
    PROVE  \E g \in [0 .. Len(s) -> Seq(Attributes)] :
              /\ g[0] = <<>> /\ \A k \in 1 .. Len(s) : g[k] = KeepAttr(op, id, g[k - 1], s[k])
              /\ Kept(op, id, s) = g[Len(s)]
<1> DEFINE n == Len(s)
           step == [k \in 1 .. n |-> [x \in Seq(Attributes) |-> KeepAttr(op, id, x, s[k])]]
           f[i \in 0 .. n] == IF i = 0 THEN <<>> ELSE KeepAttr(op, id, f[i - 1], s[i])
<1>0. n \in Nat /\ 0 \in 0 .. n /\ n \in 0 .. n
  OBVIOUS
<1>1. <<>> \in Seq(Attributes)
  OBVIOUS
<1>2. \A k \in 1 .. n, x \in Seq(Attributes) : step[k][x] = KeepAttr(op, id, x, s[k]) /\ step[k][x] \in Seq(Attributes)
  BY DEF KeepAttr
<1>3. Kept(op, id, s) = f[n]
  BY DEF Kept, Fold
<1> HIDE DEF step, n
<1>4. PICK g : Follows(g, n, Seq(Attributes), <<>>, step)
  BY <1>0, <1>1, <1>2, StepsExist DEF StepsStay
<1>5. g \in [0 .. n -> Seq(Attributes)] /\ g[0] = <<>> /\ \A k \in 1 .. n : g[k] = KeepAttr(op, id, g[k - 1], s[k])
  <2>1. g \in [0 .. n -> Seq(Attributes)] /\ g[0] = <<>> /\ \A k \in 1 .. n : g[k] = step[k][g[k - 1]]
    BY <1>4 DEF Follows
  <2>2. \A k \in 1 .. n : g[k - 1] \in Seq(Attributes)
    BY <1>0, <2>1
  <2> QED BY <1>2, <2>1, <2>2
<1>6. g = [i \in 0 .. n |-> IF i = 0 THEN <<>> ELSE KeepAttr(op, id, g[i - 1], s[i])]
  BY <1>0, <1>5
<1>7. f = [i \in 0 .. n |-> IF i = 0 THEN <<>> ELSE KeepAttr(op, id, f[i - 1], s[i])]
  BY <1>6
<1> HIDE DEF f
<1>8. f[0] = <<>> /\ \A k \in 1 .. n : f[k - 1] \in Seq(Attributes) => f[k] = step[k][f[k - 1]]
  <2>1. f[0] = <<>>
    BY <1>0, <1>7
  <2>2. ASSUME NEW k \in 1 .. n, f[k - 1] \in Seq(Attributes) PROVE f[k] = step[k][f[k - 1]]
    <3>1. k \in 0 .. n /\ k # 0
      BY <1>0
    <3>2. f[k] = KeepAttr(op, id, f[k - 1], s[k])
      BY <1>7, <3>1
    <3> QED BY <1>2, <2>2, <3>2
  <2> QED BY <2>1, <2>2
<1>9. f[n] = g[n]
  BY <1>0, <1>4, <1>8, RecursionIs
<1> QED BY <1>3, <1>5, <1>9 DEF n

LEMMA KeptType ==
    ASSUME NEW s \in Seq(Attributes), NEW op, NEW id
    PROVE  Kept(op, id, s) \in Seq(Attributes)
<1>1. Len(s) \in 0 .. Len(s)
  OBVIOUS
<1> QED BY <1>1, KeptExist

LEMMA RenumberedType ==
    ASSUME NEW s \in Seq(Tags), NEW new \in Nat
    PROVE  Renumbered(s, new) \in Seq(Tags) /\ Bytes(Renumbered(s, new)) = Bytes(s)
<1> DEFINE r == Renumbered(s, new)
<1>1. r = [i \in 1 .. Len(s) |-> [s[i] EXCEPT !.id = new]] /\ Len(s) \in Nat
  BY DEF Renumbered
<1> HIDE DEF r
<1>2. ASSUME NEW i \in 1 .. Len(s) PROVE r[i] \in Tags /\ r[i].body = s[i].body
  <2>1. s[i] \in Tags /\ r[i] = [s[i] EXCEPT !.id = new]
    BY <1>1
  <2> QED BY <2>1 DEF Tags
<1>3. r \in [1 .. Len(s) -> Tags]
  BY <1>1, <1>2
<1>4. r \in Seq(Tags) /\ Len(r) = Len(s)
  BY <1>1, <1>3
<1>5. Bytes(r) = Bytes(s)
  BY <1>2, <1>4, BytesSame
<1> QED BY <1>4, <1>5 DEF r

LEMMA RebuiltAttrsType ==
    ASSUME NEW src, SourceOK(src), NEW op, OpOK(op), NEW id \in 0 .. src.count - 1, NEW new \in Nat
    PROVE  RebuiltAttrs(src, id, new, op) \in Seq(Tags)
<1> DEFINE kept == Kept(op, id, src.attrs[id + 1])
           set == IF SetsOn(op, id) /\ op.k = "setattr" THEN <<AttrTag(new, op.attr, op.value)>> ELSE <<>>
<1>1. src.attrs[id + 1] \in Seq(Attributes)
  <2>1. id + 1 \in 1 .. src.count /\ src.attrs \in Seq(Seq(Attributes)) /\ Len(src.attrs) = src.count
    BY Constants DEF SourceOK
  <2> QED BY <2>1
<1>2. kept \in Seq(Tags)
  BY <1>1, KeptType, AttributesAreTags
<1>3. set \in Seq(Tags)
  <2>1. CASE SetsOn(op, id) /\ op.k = "setattr"
    <3>1. op.attr \in Attrs \cup {None} /\ op.value \in Body
      BY <2>1 DEF OpOK
    <3>2. AttrTag(new, op.attr, op.value) \in Tags
      BY <3>1, TagTypes
    <3> QED BY <2>1, <3>2
  <2>2. CASE ~(SetsOn(op, id) /\ op.k = "setattr")
    BY <2>2
  <2> QED BY <2>1, <2>2
<1>4. RebuiltAttrs(src, id, new, op) = Renumbered(kept, new) \o set
  BY DEF RebuiltAttrs, Kept, KeepAttr, SetsOn
<1> HIDE DEF kept, set
<1> QED BY <1>2, <1>3, <1>4, RenumberedType, Joined

LEMMA NewIdType ==
    ASSUME NEW op, op.id \in Nat, NEW lo \in Nat, NEW i \in Nat, lo <= i
    PROVE  NewId(op, lo, i) \in Nat
BY DEF NewId

\* The operation does not drop the entry.
Stays(op, id) == ~(op.k = "remove" /\ op.id = id)

LEMMA RebuiltEntryType ==
    ASSUME NEW src, SourceOK(src), NEW op, OpOK(op), Complete(src, op),
           NEW id \in 0 .. src.count - 1, NEW new \in Nat, Stays(op, id)
    PROVE  RebuiltEntry(src, id, new, op) \in Seq(Tags)
<1>1. PICK slot : slot = SlotOf(src, id)
  OBVIOUS
<1>0. src.count \in Nat /\ src.count <= MaxLive /\ MaxLive \in Nat /\ id + 1 \in 1 .. src.count
      /\ src.slots \in Seq(Slot) /\ Len(src.slots) = MaxLive
  BY Constants DEF SourceOK, Row
<1>2. slot \in Slot /\ slot = src.slots[id + 1]
  BY <1>0, <1>1 DEF SlotOf
<1>3. slot.kind # None /\ slot.struct # None
  <2>1. (id + 1) - 1 = id
    BY <1>0
  <2> QED BY <1>0, <1>2, <2>1 DEF Complete, Stays
<1>4. slot.kind \in NameTypes /\ slot.name \in Body /\ slot.struct \in Structure
  BY <1>2, <1>3 DEF Slot
<1>5. PICK a : a = IF op.k = "rename" /\ op.id = id THEN <<NameTag(new, op.kind, op.name)>> ELSE <<>>
  OBVIOUS
<1>6. a \in Seq(Tags)
  <2>1. CASE op.k = "rename" /\ op.id = id
    <3>1. NameTag(new, op.kind, op.name) \in Tags
      BY <2>1, TagTypes DEF OpOK
    <3> QED BY <1>5, <2>1, <3>1
  <2>2. CASE ~(op.k = "rename" /\ op.id = id)
    BY <1>5, <2>2
  <2> QED BY <2>1, <2>2
<1>7. PICK t : t = IF op.k = "update" /\ op.id = id THEN op.struct ELSE slot.struct
  OBVIOUS
<1>8. t \in Structure
  BY <1>4, <1>7 DEF OpOK
<1>9. CreateTag(new) \in Tags /\ NameTag(new, slot.kind, slot.name) \in Tags /\ StructTag(new, t) \in Tags
  BY <1>4, <1>8, TagTypes
<1>10. /\ <<CreateTag(new), NameTag(new, slot.kind, slot.name)>> \in Seq(Tags)
       /\ <<StructTag(new, t)>> \in Seq(Tags)
  BY <1>9
<1>11. RebuiltEntry(src, id, new, op) =
          <<CreateTag(new), NameTag(new, slot.kind, slot.name)>> \o a \o <<StructTag(new, t)>>
             \o RebuiltAttrs(src, id, new, op)
  BY <1>1, <1>5, <1>7 DEF RebuiltEntry
<1>12. RebuiltAttrs(src, id, new, op) \in Seq(Tags)
  BY RebuiltAttrsType
<1> QED BY <1>6, <1>10, <1>11, <1>12, JoinedFour

\* The tags of index i of the combined sequence.
EmitIndex(src, op, lo, i) ==
    IF i = src.count THEN NewEntry(op, NewId(op, lo, i))
    ELSE IF op.k = "remove" /\ op.id = i THEN <<>>
    ELSE RebuiltEntry(src, i, NewId(op, lo, i), op)

LEMMA TotalType ==
    ASSUME NEW src, SourceOK(src), NEW op
    PROVE  /\ Total(src, op) \in Nat /\ src.count \in Nat
           /\ Total(src, op) = IF op.k = "create" THEN src.count + 1 ELSE src.count
BY Constants DEF SourceOK, Total, If, AddsEntry

LEMMA EmitIndexType ==
    ASSUME NEW src, SourceOK(src), NEW op, OpOK(op), Complete(src, op),
           NEW lo \in Nat, NEW i \in Nat, lo <= i, i < Total(src, op)
    PROVE  EmitIndex(src, op, lo, i) \in Seq(Tags)
<1>1. PICK new \in Nat : new = NewId(op, lo, i)
  BY NewIdType DEF OpOK
<1>2. CASE i = src.count
  <2>1. op.k = "create"
    BY <1>2, TotalType
  <2> QED BY <1>1, <1>2, <2>1, NewEntryBytes DEF EmitIndex
<1>3. CASE i # src.count /\ ~Stays(op, i)
  BY <1>3, BytesEmpty DEF EmitIndex, Stays
<1>4. CASE i # src.count /\ Stays(op, i)
  <2>1. i \in 0 .. src.count - 1
    BY <1>4, TotalType
  <2>2. RebuiltEntry(src, i, new, op) \in Seq(Tags)
    BY <1>4, <2>1, RebuiltEntryType
  <2>3. EmitIndex(src, op, lo, i) = RebuiltEntry(src, i, new, op)
    BY <1>1, <1>4 DEF EmitIndex, Stays
  <2> QED BY <2>2, <2>3
<1> QED BY <1>2, <1>3, <1>4

LEMMA EmitRangeType ==
    ASSUME NEW src, SourceOK(src), NEW op, OpOK(op), Complete(src, op),
           NEW lo \in 0 .. Total(src, op), NEW hi \in 0 .. Total(src, op)
    PROVE  EmitRange(src, op, lo, hi) \in Seq(Tags)
<1> DEFINE e == [k \in 1 .. hi - lo |-> EmitIndex(src, op, lo, lo + k - 1)]
<1>0. Total(src, op) \in Nat /\ lo \in Nat /\ hi \in Nat
  BY TotalType
<1>1. EmitRange(src, op, lo, hi) = FlattenSeq(e)
  BY DEF EmitRange, EmitIndex
<1>2. ASSUME NEW k \in 1 .. hi - lo PROVE EmitIndex(src, op, lo, lo + k - 1) \in Seq(Tags)
  <2>1. PICK i \in Nat : i = lo + k - 1 /\ lo <= i /\ i < Total(src, op)
    BY <1>0
  <2> QED BY <1>0, <2>1, EmitIndexType
<1>3. e \in Seq(Seq(Tags))
  <2>1. CASE lo <= hi
    <3>1. hi - lo \in Nat
      BY <1>0, <2>1
    <3>2. e \in [1 .. hi - lo -> Seq(Tags)]
      BY <1>2
    <3> HIDE DEF e
    <3> QED BY <3>1, <3>2
  <2>2. CASE ~(lo <= hi)
    <3>1. 1 .. hi - lo = {}
      BY <1>0, <2>2
    <3>2. e = <<>>
      BY <3>1
    <3> QED BY <3>2
  <2> QED BY <2>1, <2>2
<1> QED BY <1>1, <1>3, FlattenType

----------------------------------------------------------------------------
(* Commits.                                                                *)

\* A log as a commit leaves it.
Programmed(log) == log \in Logs /\ log.end % ProgSize = 0

LEMMA LogMembers ==
    ASSUME NEW log \in Logs
    PROVE  /\ log.tags \in Seq(Tags) /\ log.end \in 4 .. BlockSize /\ log.end \in Nat
           /\ log.erased \in BOOLEAN /\ log.ms \in BOOLEAN /\ log.rs \in BOOLEAN
           /\ log.tail \in BOOLEAN
BY Constants DEF Logs

\* A log made of its parts.
LEMMA LogOf ==
    ASSUME NEW tags \in Seq(Tags), NEW end \in 4 .. BlockSize, end % ProgSize = 0,
           NEW erased \in BOOLEAN, NEW ms \in BOOLEAN, NEW rs \in BOOLEAN, NEW tail \in BOOLEAN,
           NEW log, log = [tags |-> tags, end |-> end, erased |-> erased, ms |-> ms, rs |-> rs,
                           tail |-> tail]
    PROVE  Programmed(log) /\ log.tail = tail
BY Constants DEF Logs, Programmed

LEMMA EmitsFcrcType == \A off, end : EmitsFcrc(off, end) \in BOOLEAN
BY DEF EmitsFcrc

LEMMA IfType ==
    ASSUME NEW cond, NEW n \in Nat
    PROVE  If(cond, n) \in Nat /\ If(cond, n) <= n
BY DEF If

LEMMA OneCommitType ==
    ASSUME NEW tags \in Seq(Tags), NEW ms \in BOOLEAN, NEW rs \in BOOLEAN, NEW tail \in BOOLEAN
    PROVE  LET new == OneCommit(tags, ms, rs, tail)
           IN  new # None => Programmed(new) /\ new.tail = tail
<1> DEFINE off == REVISION + Bytes(tags) + If(ms, MOVE_STATE) + If(rs, RELOCATE_STATE) + If(tail, TAIL)
<1>1. off \in Nat /\ off >= 4
  <2>1. Bytes(tags) \in Nat
    BY BytesNat
  <2>2. If(ms, MOVE_STATE) \in Nat /\ If(rs, RELOCATE_STATE) \in Nat /\ If(tail, TAIL) \in Nat
    BY Constants, IfType
  <2> QED BY <2>1, <2>2, Constants
<1>2. OneCommit(tags, ms, rs, tail) =
         IF FinishPadded(off) = None THEN None
         ELSE [tags |-> tags, end |-> FinishPadded(off), erased |-> EmitsFcrc(off, FinishPadded(off)),
               ms |-> ms, rs |-> rs, tail |-> tail]
  BY DEF OneCommit
<1> HIDE DEF off
<1>3. CASE FinishPadded(off) = None
  BY <1>2, <1>3
<1>4. CASE FinishPadded(off) # None
  <2>1. PICK end : end = FinishPadded(off)
    OBVIOUS
  <2>2. end \in 4 .. BlockSize /\ end % ProgSize = 0
    BY <1>1, <1>4, <2>1, FinishPaddedIs, Constants
  <2>3. PICK erased \in BOOLEAN : erased = EmitsFcrc(off, end)
    BY EmitsFcrcType
  <2>4. OneCommit(tags, ms, rs, tail) =
           [tags |-> tags, end |-> end, erased |-> erased, ms |-> ms, rs |-> rs, tail |-> tail]
    BY <1>2, <1>4, <2>1, <2>3
  <2> QED BY <2>2, <2>4, LogOf
<1> QED BY <1>3, <1>4

\* Outside S, next grows its argument; f follows next until it is in S.
Grows(next, N, S) == \A s \in 0 .. N : s \notin S => next[s] \in s + 1 .. N

Climbs(f, next, N, S) ==
    /\ f \in [0 .. N -> 0 .. N]
    /\ \A s \in 0 .. N : f[s] = IF s \in S THEN s ELSE f[next[s]]

LEMMA ClimbExists ==
    ASSUME NEW N \in Nat, NEW S, NEW next, Grows(next, N, S)
    PROVE  \E f : Climbs(f, next, N, S)
<1> USE DEF Grows
<1> DEFINE Is(f, n) == /\ f \in [n .. N -> 0 .. N]
                       /\ \A s \in n .. N : f[s] = IF s \in S THEN s ELSE f[next[s]]
           T == {d \in 0 .. N : \E f : Is(f, N - d)}
<1>1. 0 \in T
  <2>1. N \in S
    OBVIOUS
  <2>2. N - 0 = N /\ N .. N = {N}
    OBVIOUS
  <2>3. Is([s \in N .. N |-> N], N)
    BY <2>1, <2>2
  <2> HIDE DEF Is
  <2> QED BY <2>2, <2>3
<1>2. ASSUME NEW d \in 0 .. N - 1, d \in T PROVE d + 1 \in T
  <2>1. PICK f : Is(f, N - d)
    BY <1>2
  <2>2. PICK n \in 0 .. N - 1 : n = N - (d + 1) /\ n + 1 = N - d
    <3>1. N - (d + 1) \in 0 .. N - 1 /\ (N - (d + 1)) + 1 = N - d
      OBVIOUS
    <3> QED BY <3>1
  <2>3. f \in [n + 1 .. N -> 0 .. N] /\ \A s \in n + 1 .. N : f[s] = IF s \in S THEN s ELSE f[next[s]]
    BY <2>1, <2>2
  <2> DEFINE h == [s \in n .. N |-> IF s = n THEN (IF n \in S THEN n ELSE f[next[n]]) ELSE f[s]]
  <2>4. n \in 0 .. N /\ (n \notin S => next[n] \in n + 1 .. N)
    OBVIOUS
  <2>5. h \in [n .. N -> 0 .. N]
    BY <2>3, <2>4
  <2>6. ASSUME NEW s \in n .. N PROVE h[s] = IF s \in S THEN s ELSE h[next[s]]
    <3>1. s \notin S => next[s] \in n .. N /\ next[s] # n
      OBVIOUS
    <3>2. s \notin S => h[next[s]] = f[next[s]]
      BY <3>1
    <3>3. CASE s = n
      BY <3>2, <3>3
    <3>4. CASE s # n
      <4>1. s \in n + 1 .. N /\ h[s] = f[s]
        BY <3>4
      <4> QED BY <2>3, <3>2, <4>1
    <3> QED BY <3>3, <3>4
  <2> HIDE DEF h
  <2>7. Is(h, n)
    BY <2>5, <2>6
  <2> HIDE DEF Is
  <2>8. d + 1 \in 0 .. N
    OBVIOUS
  <2> QED BY <2>2, <2>7, <2>8
<1> HIDE DEF T
<1>3. \A d \in 0 .. N : d \in T
  BY <1>1, <1>2, UpToInduction
<1>4. PICK f : Is(f, N - N)
  BY <1>3 DEF T
<1>5. N - N = 0
  OBVIOUS
<1>6. Climbs(f, next, N, S)
  BY <1>4, <1>5 DEF Climbs
<1> QED BY <1>6

\* compute_split_index stops within the range.
LEMMA SplitIndexType ==
    ASSUME NEW src, NEW op, NEW end \in Nat
    PROVE  SplitIndex(src, op, end) \in 0 .. end
<1> DEFINE stop(s) == \/ end - s <= 1
                      \/ end - s < SplitEntries /\ Bytes(EmitRange(src, op, s, end)) <= Budget
           S == {s \in 0 .. end : stop(s)}
           next == [s \in 0 .. end |-> s + (end - s) \div 2]
           shrink[s \in 0 .. end] == IF stop(s) THEN s ELSE shrink[s + (end - s) \div 2]
<1>1. SplitIndex(src, op, end) = shrink[0]
  BY DEF SplitIndex
<1>2. ASSUME NEW s \in 0 .. end, s \notin S
      PROVE  next[s] \in s + 1 .. end /\ next[s] = s + (end - s) \div 2
  <2>1. ~(end - s <= 1)
    BY <1>2
  <2>2. PICK d \in Nat : d = end - s /\ d > 1
    BY <2>1
  <2>3. d \div 2 >= 1 /\ d \div 2 <= d /\ d \div 2 \in Nat
    BY <2>2
  <2>4. next[s] = s + d \div 2
    BY <2>2
  <2> QED BY <2>2, <2>3, <2>4
<1>3. \A s \in 0 .. end : s \in S <=> stop(s)
  OBVIOUS
<1> HIDE DEF S, next, stop
<1>4. PICK f \in [0 .. end -> 0 .. end] : \A s \in 0 .. end : f[s] = IF s \in S THEN s ELSE f[next[s]]
  <2>1. Grows(next, end, S)
    BY <1>2 DEF Grows
  <2>2. PICK f : Climbs(f, next, end, S)
    BY <2>1, ClimbExists
  <2> QED BY <2>2 DEF Climbs
<1>5. f = [s \in 0 .. end |-> IF stop(s) THEN s ELSE f[s + (end - s) \div 2]]
  <2>1. \A s \in 0 .. end : f[s] = IF stop(s) THEN s ELSE f[s + (end - s) \div 2]
    BY <1>2, <1>3, <1>4
  <2>2. f = [s \in 0 .. end |-> f[s]]
    OBVIOUS
  <2> QED BY <2>1, <2>2
<1>6. shrink = [s \in 0 .. end |-> IF stop(s) THEN s ELSE shrink[s + (end - s) \div 2]]
  BY <1>5
<1> HIDE DEF shrink
<1> DEFINE B == {s \in 0 .. end : shrink[s] \notin 0 .. end}
<1>7. B = {}
  <2> SUFFICES ASSUME B # {} PROVE FALSE
    OBVIOUS
  <2>1. PICK m \in B : \A n \in B : n <= m
    BY LargestUpTo
  <2>2. m \in 0 .. end /\ shrink[m] = IF stop(m) THEN m ELSE shrink[m + (end - m) \div 2]
    BY <1>6, <2>1
  <2>3. m \notin S
    BY <1>3, <2>1, <2>2
  <2>4. next[m] \in m + 1 .. end /\ shrink[m] = shrink[next[m]]
    BY <1>2, <1>3, <2>2, <2>3
  <2>5. next[m] \in B
    <3>0. PICK z \in m + 1 .. end : z = next[m]
      BY <2>4
    <3>1. next[m] \in 0 .. end
      <4>1. m \in Nat /\ end \in Nat
        BY <2>2
      <4>2. z \in 0 .. end
        BY ONLY <4>1, z \in m + 1 .. end
      <4> QED BY <3>0, <4>2
    <3>2. shrink[next[m]] \notin 0 .. end
      BY <2>1, <2>4
    <3> QED BY <3>1, <3>2
  <2>6. next[m] <= m
    BY <2>1, <2>5
  <2>7. PICK z \in m + 1 .. end : z <= m
    BY <2>4, <2>6
  <2>8. m \in Int /\ z \in Int /\ z >= m + 1
    BY <2>2, <2>7
  <2> QED BY ONLY <2>7, <2>8
<1>8. 0 \in 0 .. end
  OBVIOUS
<1> QED BY <1>1, <1>7, <1>8

\* The ends of the parts of a split.
Cuts(n) == {e \in Seq(0 .. n) : Len(e) >= 1}

CutOnce(src, op, x) == IF SplitIndex(src, op, Head(x)) = 0 THEN x ELSE <<SplitIndex(src, op, Head(x))>> \o x

LEMMA CutOnceType ==
    ASSUME NEW src, NEW op, NEW n \in Nat, NEW x \in Cuts(n)
    PROVE  CutOnce(src, op, x) \in Cuts(n)
<1>1. x \in Seq(0 .. n) /\ Len(x) >= 1 /\ Head(x) \in 0 .. n /\ Len(x) \in Nat
  BY DEF Cuts
<1>2. PICK c \in 0 .. n : c = SplitIndex(src, op, Head(x))
  <2>1. PICK h \in Nat : h = Head(x) /\ h <= n
    BY <1>1
  <2>2. SplitIndex(src, op, h) \in 0 .. h
    BY SplitIndexType
  <2>3. SplitIndex(src, op, h) \in 0 .. n
    BY <2>1, <2>2
  <2> QED BY <2>1, <2>3
<1>3. <<c>> \in Seq(0 .. n) /\ Len(<<c>>) = 1
  BY <1>2
<1>4. <<c>> \o x \in Seq(0 .. n) /\ Len(<<c>> \o x) = 1 + Len(x)
  BY <1>1, <1>3, Joined
<1>5. <<c>> \o x \in Cuts(n)
  BY <1>1, <1>4 DEF Cuts
<1> QED BY <1>2, <1>5 DEF CutOnce

UpTo(cuts) == [k \in 1 .. cuts |-> k]

\* The cut loop of split_directory_pair, cut by cut.
LEMMA PartEndsExist ==
    ASSUME NEW src, SourceOK(src), NEW op, NEW cuts \in Nat
    PROVE  \E g \in [0 .. Len(UpTo(cuts)) -> Cuts(Total(src, op))] :
              /\ g[0] = <<Total(src, op)>> /\ \A k \in 1 .. Len(UpTo(cuts)) : g[k] = CutOnce(src, op, g[k - 1])
              /\ PartEnds(src, op, cuts) = g[Len(UpTo(cuts))]
<1> DEFINE n == Len(UpTo(cuts))
           step == [k \in 1 .. n |-> [x \in Cuts(Total(src, op)) |-> CutOnce(src, op, x)]]
           f[i \in 0 .. n] == IF i = 0 THEN <<Total(src, op)>> ELSE CutOnce(src, op, f[i - 1])
<1>0. n \in Nat /\ 0 \in 0 .. n /\ n \in 0 .. n
  BY DEF UpTo
<1>10. Total(src, op) \in Nat
  BY TotalType
<1>1. <<Total(src, op)>> \in Cuts(Total(src, op))
  BY <1>10 DEF Cuts
<1>2. \A k \in 1 .. n, x \in Cuts(Total(src, op)) : step[k][x] = CutOnce(src, op, x) /\ step[k][x] \in Cuts(Total(src, op))
  BY <1>10, CutOnceType
<1>3. PartEnds(src, op, cuts) = f[n]
  BY DEF PartEnds, Fold, CutOnce, UpTo
<1> HIDE DEF step, n
<1>4. PICK g : Follows(g, n, Cuts(Total(src, op)), <<Total(src, op)>>, step)
  BY <1>0, <1>1, <1>2, StepsExist DEF StepsStay
<1>5. g \in [0 .. n -> Cuts(Total(src, op))] /\ g[0] = <<Total(src, op)>> /\ \A k \in 1 .. n : g[k] = CutOnce(src, op, g[k - 1])
  <2>1. g \in [0 .. n -> Cuts(Total(src, op))] /\ g[0] = <<Total(src, op)>> /\ \A k \in 1 .. n : g[k] = step[k][g[k - 1]]
    BY <1>4 DEF Follows
  <2>2. \A k \in 1 .. n : g[k - 1] \in Cuts(Total(src, op))
    BY <1>0, <2>1
  <2> QED BY <1>2, <2>1, <2>2
<1>6. g = [i \in 0 .. n |-> IF i = 0 THEN <<Total(src, op)>> ELSE CutOnce(src, op, g[i - 1])]
  <2>1. \A i \in 0 .. n : g[i] = IF i = 0 THEN <<Total(src, op)>> ELSE CutOnce(src, op, g[i - 1])
    <3>1. \A i \in 0 .. n : i = 0 \/ i \in 1 .. n
      BY <1>0
    <3> QED BY <1>5, <3>1
  <2>2. g = [i \in 0 .. n |-> g[i]]
    BY <1>5
  <2> QED BY <2>1, <2>2
<1>7. f = [i \in 0 .. n |-> IF i = 0 THEN <<Total(src, op)>> ELSE CutOnce(src, op, f[i - 1])]
  BY <1>6
<1> HIDE DEF f
<1>8. f[0] = <<Total(src, op)>> /\ \A k \in 1 .. n : f[k - 1] \in Cuts(Total(src, op)) => f[k] = step[k][f[k - 1]]
  BY <1>0, <1>2, <1>7
<1>9. f[n] = g[n]
  BY <1>0, <1>4, <1>8, RecursionIs
<1> QED BY <1>3, <1>5, <1>9 DEF n

LEMMA PartEndsType ==
    ASSUME NEW src, SourceOK(src), NEW op, NEW cuts \in Nat
    PROVE  PartEnds(src, op, cuts) \in Cuts(Total(src, op))
<1>1. Len(UpTo(cuts)) \in 0 .. Len(UpTo(cuts))
  BY DEF UpTo
<1> QED BY <1>1, PartEndsExist

\* A range of the live entries as a log of its own.
PartOf(part, src, op) ==
    \E lo, hi \in 0 .. Total(src, op), m, q, t \in BOOLEAN :
       part = Compact(src, op, lo, hi, m, q, t) /\ part # None

\* compact_and_program's parts, when they fit: logs joined by tails, the last
\* with the pair's own.
LEMMA PartsType ==
    ASSUME NEW src, SourceOK(src), NEW op, OpOK(op), Complete(src, op), NEW cuts \in Nat,
           NEW ms \in BOOLEAN, NEW rs \in BOOLEAN, NEW tail \in BOOLEAN,
           NEW parts, parts = Parts(src, op, cuts, ms, rs, tail), Fit(parts)
    PROVE  /\ parts \in Seq(Logs) /\ Len(parts) >= 1
           /\ \A k \in 1 .. Len(parts) :
                 /\ Programmed(parts[k])
                 /\ k < Len(parts) => parts[k].tail
                 /\ k = Len(parts) => parts[k].tail = tail
                 /\ PartOf(parts[k], src, op)
<1>1. PICK ends \in Cuts(Total(src, op)) : ends = PartEnds(src, op, cuts)
  BY PartEndsType
<1>2. /\ ends \in Seq(0 .. Total(src, op)) /\ Len(ends) >= 1 /\ Len(ends) \in Nat
      /\ DOMAIN ends = 1 .. Len(ends) /\ Total(src, op) \in Nat
  BY <1>1, TotalType DEF Cuts
<1>3. parts = [k \in 1 .. Len(ends) |->
                  Compact(src, op, IF k = 1 THEN 0 ELSE ends[k - 1], ends[k],
                          ms /\ k = 1, rs /\ k = 1, k < Len(ends) \/ tail)]
  BY <1>1, <1>2 DEF Parts
<1>4. ASSUME NEW k \in 1 .. Len(ends)
      PROVE  /\ Programmed(parts[k]) /\ parts[k].tail = (k < Len(ends) \/ tail)
             /\ PartOf(parts[k], src, op)
  <2>1. PICK lo : lo = IF k = 1 THEN 0 ELSE ends[k - 1]
    OBVIOUS
  <2>2. lo \in 0 .. Total(src, op)
    <3>1. CASE k = 1
      BY <1>2, <2>1, <3>1
    <3>2. CASE k # 1
      <4>1. k - 1 \in 1 .. Len(ends)
        BY <1>2, <3>2
      <4> QED BY <1>2, <2>1, <3>2, <4>1
    <3> QED BY <3>1, <3>2
  <2>3. PICK hi \in 0 .. Total(src, op) : hi = ends[k]
    BY <1>2
  <2>4. PICK m \in BOOLEAN, r \in BOOLEAN, t \in BOOLEAN :
           m = (ms /\ k = 1) /\ r = (rs /\ k = 1) /\ t = (k < Len(ends) \/ tail)
    OBVIOUS
  <2>5. parts[k] = Compact(src, op, lo, hi, m, r, t)
    BY <1>3, <2>1, <2>3, <2>4
  <2>6. parts[k] # None
    BY <1>3 DEF Fit
  <2>7. PICK tags \in Seq(Tags) : tags = EmitRange(src, op, lo, hi)
    BY <2>2, EmitRangeType
  <2>8. parts[k] = OneCommit(tags, m, r, t)
    BY <2>5, <2>7 DEF Compact
  <2>9. Programmed(parts[k]) /\ parts[k].tail = t
    BY <2>6, <2>8, OneCommitType
  <2>10. PartOf(parts[k], src, op)
    BY <2>2, <2>5, <2>6 DEF PartOf
  <2> QED BY <2>4, <2>9, <2>10
<1>5. \A k \in 1 .. Len(ends) : parts[k] \in Logs
  BY <1>4 DEF Programmed
<1>6. DOMAIN parts = 1 .. Len(ends) /\ parts = [k \in 1 .. Len(ends) |-> parts[k]]
  BY <1>3
<1>7. parts \in [1 .. Len(ends) -> Logs]
  BY <1>5, <1>6
<1>8. parts \in Seq(Logs) /\ Len(parts) = Len(ends)
  BY <1>2, <1>7
<1>9. ASSUME NEW k \in 1 .. Len(parts)
      PROVE  /\ Programmed(parts[k])
             /\ k < Len(parts) => parts[k].tail
             /\ k = Len(parts) => parts[k].tail = tail
             /\ PartOf(parts[k], src, op)
  <2>1. /\ Programmed(parts[k]) /\ parts[k].tail = (k < Len(ends) \/ tail)
        /\ PartOf(parts[k], src, op)
    BY <1>4, <1>8
  <2>2. \A n \in Nat : ~(n < n)
    OBVIOUS
  <2>3. k = Len(ends) => ~(k < Len(ends))
    BY <1>2, <2>2
  <2> QED BY <1>8, <2>1, <2>3
<1> QED BY <1>2, <1>8, <1>9

----------------------------------------------------------------------------
(* Outcomes of a request.                                                  *)

ExtraOK(x) == x.ms \in BOOLEAN /\ x.rs \in BOOLEAN /\ x.tail \in {"keep", "set", "clear"}

LEMMA ExtraType ==
    ASSUME NEW x, ExtraOK(x)
    PROVE  Extra(x) \in Nat
<1>1. If(x.ms, MOVE_STATE) \in Nat /\ If(x.rs, RELOCATE_STATE) \in Nat /\ If(x.tail # "keep", TAIL) \in Nat
  BY Constants, IfType
<1> QED BY <1>1 DEF Extra

LEMMA TailAfterType ==
    ASSUME NEW log, log.tail \in BOOLEAN, NEW x, ExtraOK(x)
    PROVE  TailAfter(log, x) \in BOOLEAN /\ (log.tail /\ x.tail # "clear" => TailAfter(log, x))
BY DEF TailAfter, ExtraOK

\* The logs that take the place of log: programmed, joined, and no tail lost.
Replaces(logs, log, x) ==
    /\ logs \in Seq(Logs) /\ Len(logs) >= 1
    /\ \A k \in 1 .. Len(logs) : /\ Programmed(logs[k])
                                 /\ k < Len(logs) => logs[k].tail
                                 /\ k = Len(logs) => logs[k].tail = TailAfter(log, x)

\* A commit lands, or is refused for a reason other than "append".
OutcomeOK(o, log, x) ==
    IF o.why # None THEN o.why \in Reasons \ {"append"} ELSE Replaces(o.logs, log, x)

LEMMA FailsIs ==
    ASSUME NEW why \in Reasons \ {"append"}, NEW log, NEW x
    PROVE  OutcomeOK(Fails(why), log, x)
BY DataAssumption DEF OutcomeOK, Fails

LEMMA LandsIs ==
    ASSUME NEW logs, NEW log, NEW x, Replaces(logs, log, x)
    PROVE  OutcomeOK(Lands(logs), log, x)
BY DEF OutcomeOK, Lands

LEMMA OneReplaces ==
    ASSUME NEW new, Programmed(new), NEW log, NEW x, new.tail = TailAfter(log, x)
    PROVE  Replaces(<<new>>, log, x)
<1>1. <<new>> \in Seq(Logs) /\ Len(<<new>>) = 1 /\ <<new>>[1] = new
  BY DEF Programmed
<1>2. 1 .. 1 = {1}
  OBVIOUS
<1> QED BY <1>1, <1>2 DEF Replaces

\* An append that can_append lets through can be finished.
LEMMA AppendIs ==
    ASSUME NEW log \in Logs, NEW op, OpOK(op), NEW x, ExtraOK(x), CanAppend(log, op, x),
           NEW ms \in BOOLEAN, NEW rs \in BOOLEAN
    PROVE  /\ FinishPadded(AppendOff(log, op, x)) # None
           /\ Programmed(Appended(log, op, x, ms, rs))
           /\ Appended(log, op, x, ms, rs).tail = TailAfter(log, x)
<1>1. PICK off : off = AppendOff(log, op, x)
  OBVIOUS
<1>2. off \in Nat /\ off >= 4 /\ off + CCRC <= BlockSize
  <2>1. PICK e, b, d, t : e = log.end /\ b = Bytes(EmitOp(op)) /\ d = OpDsize(op) /\ t = Extra(x)
    OBVIOUS
  <2>2. e \in Nat /\ e >= 4 /\ b \in Nat /\ d \in Nat /\ t \in Nat /\ d = b + CCRC /\ CCRC = 8
        /\ BlockSize \in Nat
    BY <2>1, LogMembers, EmitOpBytes, ExtraType, Constants
  <2>3. e + d + t <= BlockSize
    BY <2>1 DEF CanAppend
  <2>4. off = e + b + t
    BY <1>1, <2>1 DEF AppendOff
  <2> QED BY ONLY <2>2, <2>3, <2>4
<1>3. PICK end : end = FinishPadded(off)
  OBVIOUS
<1>4. end # None /\ end \in off + CCRC .. BlockSize /\ end % ProgSize = 0
  BY <1>2, <1>3, FinishPaddedIs
<1>5. end \in 4 .. BlockSize
  BY <1>2, <1>4, Constants
<1>6. PICK tags \in Seq(Tags) : tags = log.tags \o EmitOp(op)
  BY LogMembers, EmitOpBytes, BytesConcat
<1>7. PICK erased \in BOOLEAN : erased = EmitsFcrc(off, end)
  BY EmitsFcrcType
<1>8. PICK tail \in BOOLEAN : tail = TailAfter(log, x)
  BY LogMembers, TailAfterType
<1>9. Appended(log, op, x, ms, rs) =
         [tags |-> tags, end |-> end, erased |-> erased, ms |-> ms, rs |-> rs, tail |-> tail]
  BY <1>1, <1>3, <1>6, <1>7, <1>8 DEF Appended
<1>10. Programmed(Appended(log, op, x, ms, rs)) /\ Appended(log, op, x, ms, rs).tail = tail
  BY <1>4, <1>5, <1>9, LogOf
<1> QED BY <1>1, <1>3, <1>4, <1>8, <1>10

LEMMA FoldedType ==
    ASSUME NEW old \in BOOLEAN, NEW delta \in BOOLEAN
    PROVE  Folded(old, delta) \subseteq BOOLEAN
BY DEF Folded

\* A request of a call, on pair r.pair.
RequestOK(r) ==
    /\ r.pair \in DOMAIN chain /\ OpOK(r.op) /\ ExtraOK(r.x)
    /\ r.x.tail = "clear" => r.pair = Len(chain)
    /\ Placed(r.op, Live(chain[r.pair]).count)
    /\ r.op.k = "remove" => r.x.rs = FALSE /\ r.x.tail = "keep"

LEMMA EvictIs ==
    ASSUME NEW r, RequestOK(r), NEW log \in Logs, log = chain[r.pair],
           NEW src, SourceOK(src), NEW ms \in BOOLEAN
    PROVE  OutcomeOK(EvictCommit(r, src, ms), log, r.x)
<1>1. CASE Fixed(r) \/ ~Complete(src, r.op)
  <2>1. EvictCommit(r, src, ms) = Fails("io")
    BY <1>1 DEF EvictCommit
  <2>2. "io" \in Reasons \ {"append"}
    BY DEF Reasons
  <2> QED BY <2>1, <2>2, FailsIs
<1>2. CASE ~Fixed(r) /\ Complete(src, r.op)
  <2>1. PICK tail \in BOOLEAN : tail = TailAfter(log, r.x)
    BY LogMembers, TailAfterType DEF RequestOK
  <2>2. PICK new : new = Compact(src, r.op, 0, Total(src, r.op), ms, TRUE, tail)
    OBVIOUS
  <2>3. EvictCommit(r, src, ms) = IF new = None THEN Fails("rebuild") ELSE Lands(<<new>>)
    BY <1>2, <2>1, <2>2 DEF EvictCommit
  <2>4. CASE new = None
    <3>1. "rebuild" \in Reasons \ {"append"}
      BY DEF Reasons
    <3> QED BY <2>3, <2>4, <3>1, FailsIs
  <2>5. CASE new # None
    <3>1. PICK tags \in Seq(Tags) : tags = EmitRange(src, r.op, 0, Total(src, r.op))
      <4>1. 0 \in 0 .. Total(src, r.op) /\ Total(src, r.op) \in 0 .. Total(src, r.op)
        BY TotalType
      <4> QED BY <1>2, <4>1, EmitRangeType DEF RequestOK
    <3>2. new = OneCommit(tags, ms, TRUE, tail)
      BY <2>2, <3>1 DEF Compact
    <3>3. TRUE \in BOOLEAN
      OBVIOUS
    <3>4. Programmed(new) /\ new.tail = tail
      BY <2>5, <3>2, <3>3, OneCommitType
    <3> QED BY <2>1, <2>3, <2>5, <3>4, OneReplaces, LandsIs
  <2> QED BY <2>4, <2>5
<1> QED BY <1>1, <1>2

LEMMA CompactIs ==
    ASSUME NEW r, RequestOK(r), NEW log \in Logs, log = chain[r.pair],
           NEW src, SourceOK(src), NEW ms \in BOOLEAN, NEW rs \in BOOLEAN, NEW moved \in BOOLEAN,
           NEW o \in CompactCommits(r, src, ms, rs, moved)
    PROVE  OutcomeOK(o, log, r.x)
<1>1. CASE ~Complete(src, r.op)
  <2>1. o = Fails("io")
    BY <1>1 DEF CompactCommits
  <2>2. "io" \in Reasons \ {"append"}
    BY DEF Reasons
  <2> QED BY <2>1, <2>2, FailsIs
<1>2. CASE Complete(src, r.op)
  <2>1. PICK tail \in BOOLEAN : tail = TailAfter(log, r.x)
    BY LogMembers, TailAfterType DEF RequestOK
  <2>2. PICK q \in BOOLEAN : q = (rs \/ moved)
    OBVIOUS
  <2> DEFINE full == IF r.op.k = "remove" /\ ~r.x.ms /\ ~moved THEN "remove" ELSE "full"
             parts(cuts) == Parts(src, r.op, cuts, ms, q, tail)
  <2>3. PICK cuts \in Nat : o = IF Fit(parts(cuts)) THEN Lands(parts(cuts))
                                ELSE IF Fit(parts(0)) THEN Lands(parts(0)) ELSE Fails(full)
    <3>1. \A n \in 0 .. MaxSplitCuts : n \in Nat
      BY Constants
    <3> QED BY <1>2, <2>1, <2>2, <3>1 DEF CompactCommits
  <2>4. ASSUME NEW n \in Nat, Fit(parts(n)) PROVE OutcomeOK(Lands(parts(n)), log, r.x)
    <3>1. PICK p : p = parts(n)
      OBVIOUS
    <3>2. OpOK(r.op)
      BY DEF RequestOK
    <3>3. /\ p \in Seq(Logs) /\ Len(p) >= 1
          /\ \A k \in 1 .. Len(p) :
                 /\ Programmed(p[k])
                 /\ k < Len(p) => p[k].tail
                 /\ k = Len(p) => p[k].tail = tail
      BY <1>2, <2>4, <3>1, <3>2, PartsType
    <3>4. Replaces(p, log, r.x)
      BY <2>1, <3>3 DEF Replaces
    <3> QED BY <3>1, <3>4, LandsIs
  <2>5. full \in Reasons \ {"append"}
    BY DEF Reasons
  <2> HIDE DEF full, parts
  <2>6. OutcomeOK(Fails(full), log, r.x)
    BY <2>5, FailsIs
  <2>7. 0 \in Nat
    OBVIOUS
  <2> QED BY <2>3, <2>4, <2>6, <2>7
<1> QED BY <1>1, <1>2

\* Whatever comes of a request, the chain stays one or the call is refused.
LEMMA CommitsAre ==
    ASSUME NEW r, RequestOK(r), NEW log \in Logs, log = chain[r.pair],
           NEW src, SourceOK(src), NEW o \in Commits(r, src)
    PROVE  OutcomeOK(o, log, r.x)
<1>0. /\ OpOK(r.op) /\ ExtraOK(r.x) /\ r.x.ms \in BOOLEAN /\ r.x.rs \in BOOLEAN
      /\ log.ms \in BOOLEAN /\ log.rs \in BOOLEAN
  BY LogMembers DEF RequestOK, ExtraOK
<1>1. PICK ms \in Folded(log.ms, r.x.ms), rs \in Folded(log.rs, r.x.rs) :
         o \in IF CanAppend(log, r.op, r.x)
               THEN {AppendCommit(r, ms, rs), EvictCommit(r, src, ms)}
               ELSE UNION {CompactCommits(r, src, ms, rs, moved) :
                              moved \in IF Fixed(r) THEN {FALSE} ELSE BOOLEAN}
  <2> DEFINE all(ms, rs) == IF CanAppend(chain[r.pair], r.op, r.x)
                            THEN {AppendCommit(r, ms, rs), EvictCommit(r, src, ms)}
                            ELSE UNION {CompactCommits(r, src, ms, rs, moved) :
                                           moved \in IF Fixed(r) THEN {FALSE} ELSE BOOLEAN}
  <2> HIDE DEF all
  <2>1. Commits(r, src) = UNION {all(ms, rs) : ms \in Folded(chain[r.pair].ms, r.x.ms),
                                               rs \in Folded(chain[r.pair].rs, r.x.rs)}
    BY DEF Commits, all
  <2>2. \E ms \in Folded(log.ms, r.x.ms), rs \in Folded(log.rs, r.x.rs) : o \in all(ms, rs)
    BY <2>1
  <2> QED BY <2>2 DEF all
<1>2. ms \in BOOLEAN /\ rs \in BOOLEAN
  BY <1>0, FoldedType
<1>3. CASE CanAppend(log, r.op, r.x) /\ o = AppendCommit(r, ms, rs)
  <2>1. /\ FinishPadded(AppendOff(log, r.op, r.x)) # None
        /\ Programmed(Appended(log, r.op, r.x, ms, rs))
        /\ Appended(log, r.op, r.x, ms, rs).tail = TailAfter(log, r.x)
    BY <1>0, <1>2, <1>3, AppendIs
  <2>2. o = Lands(<<Appended(log, r.op, r.x, ms, rs)>>)
    BY <1>3, <2>1 DEF AppendCommit
  <2> QED BY <2>1, <2>2, OneReplaces, LandsIs
<1>4. CASE CanAppend(log, r.op, r.x) /\ o = EvictCommit(r, src, ms)
  BY <1>2, <1>4, EvictIs
<1>5. CASE ~CanAppend(log, r.op, r.x)
  <2>1. PICK moved \in BOOLEAN : o \in CompactCommits(r, src, ms, rs, moved)
    BY <1>1, <1>5
  <2> QED BY <1>2, <2>1, CompactIs
<1> QED BY <1>1, <1>3, <1>4, <1>5

----------------------------------------------------------------------------
(* The chain after a commit.                                               *)

\* The conjuncts of TypeOK about the chain.
ChainOK(c) ==
    /\ c \in Seq(Logs) /\ c # <<>>
    /\ \A i \in DOMAIN c : c[i].end % ProgSize = 0 /\ (i < Len(c) => c[i].tail)

\* A sequence with one element replaced by a sequence.
Spliced(c, i, l) == SubSeq(c, 1, i - 1) \o l \o SubSeq(c, i + 1, Len(c))

LEMMA FrontOf ==
    ASSUME NEW S, NEW c \in Seq(S), NEW n \in Nat, n <= Len(c)
    PROVE  SubSeq(c, 1, n) \in Seq(S) /\ Len(SubSeq(c, 1, n)) = n
           /\ \A j \in 1 .. n : SubSeq(c, 1, n)[j] = c[j]
OBVIOUS

LEMMA BackOf ==
    ASSUME NEW S, NEW c \in Seq(S), NEW n \in Nat, n <= Len(c)
    PROVE  /\ SubSeq(c, n + 1, Len(c)) \in Seq(S) /\ Len(SubSeq(c, n + 1, Len(c))) = Len(c) - n
           /\ \A j \in 1 .. Len(c) - n : SubSeq(c, n + 1, Len(c))[j] = c[n + j]
OBVIOUS

SpliceLaw(d, S, c, i, l) ==
    /\ d \in Seq(S) /\ Len(d) = (i - 1) + Len(l) + (Len(c) - i)
    /\ \A j \in 1 .. i - 1 : d[j] = c[j]
    /\ \A j \in 1 .. Len(l) : d[(i - 1) + j] = l[j]
    /\ \A j \in 1 .. Len(c) - i : d[(i - 1) + Len(l) + j] = c[i + j]

LEMMA SplicedIs ==
    ASSUME NEW S, NEW c \in Seq(S), NEW i \in 1 .. Len(c), NEW l \in Seq(S)
    PROVE  SpliceLaw(Spliced(c, i, l), S, c, i, l)
<1>1. PICK n \in Nat, m \in Nat, k \in Nat : n = Len(c) /\ m = Len(l) /\ k = i - 1 /\ i = k + 1 /\ k < n
  OBVIOUS
<1>2. PICK a \in Seq(S) : a = SubSeq(c, 1, k) /\ Len(a) = k /\ \A j \in 1 .. k : a[j] = c[j]
  <2>1. SubSeq(c, 1, k) \in Seq(S) /\ Len(SubSeq(c, 1, k)) = k
        /\ \A j \in 1 .. k : SubSeq(c, 1, k)[j] = c[j]
    BY <1>1, FrontOf
  <2> QED BY <2>1
<1>3. PICK b \in Seq(S) : b = SubSeq(c, i + 1, Len(c)) /\ Len(b) = n - i /\ \A j \in 1 .. n - i : b[j] = c[i + j]
  <2>1. i \in Nat /\ i <= Len(c)
    BY <1>1
  <2>2. /\ SubSeq(c, i + 1, Len(c)) \in Seq(S) /\ Len(SubSeq(c, i + 1, Len(c))) = Len(c) - i
        /\ \A j \in 1 .. Len(c) - i : SubSeq(c, i + 1, Len(c))[j] = c[i + j]
    BY <2>1, BackOf
  <2> QED BY <1>1, <2>2
<1>4. PICK e \in Seq(S) : /\ e = a \o l /\ Len(e) = k + m
                          /\ \A j \in 1 .. k : e[j] = a[j]
                          /\ \A j \in 1 .. m : e[k + j] = l[j]
  <2>1. /\ a \o l \in Seq(S) /\ Len(a \o l) = Len(a) + Len(l)
        /\ \A j \in 1 .. Len(a) : (a \o l)[j] = a[j]
        /\ \A j \in 1 .. Len(l) : (a \o l)[Len(a) + j] = l[j]
    BY ConcatLaw
  <2>2. Len(a) = k /\ Len(l) = m
    BY <1>1, <1>2
  <2> QED BY <2>1, <2>2
<1>5. PICK d \in Seq(S) : /\ d = e \o b /\ Len(d) = (k + m) + (n - i)
                          /\ \A j \in 1 .. k + m : d[j] = e[j]
                          /\ \A j \in 1 .. n - i : d[(k + m) + j] = b[j]
  <2>1. /\ e \o b \in Seq(S) /\ Len(e \o b) = Len(e) + Len(b)
        /\ \A j \in 1 .. Len(e) : (e \o b)[j] = e[j]
        /\ \A j \in 1 .. Len(b) : (e \o b)[Len(e) + j] = b[j]
    BY ConcatLaw
  <2>2. Len(e) = k + m /\ Len(b) = n - i
    BY <1>3, <1>4
  <2> QED BY <2>1, <2>2
<1>6. Spliced(c, i, l) = d
  BY <1>1, <1>2, <1>3, <1>4, <1>5 DEF Spliced
<1>7. ASSUME NEW j \in 1 .. k PROVE d[j] = c[j]
  <2>1. j \in 1 .. k + m
    BY <1>1
  <2> QED BY <1>2, <1>4, <1>5, <2>1
<1>8. ASSUME NEW j \in 1 .. m PROVE d[k + j] = l[j]
  <2>1. k + j \in 1 .. k + m
    BY <1>1
  <2> QED BY <1>4, <1>5, <2>1
<1>9. ASSUME NEW j \in 1 .. n - i PROVE d[(k + m) + j] = c[i + j]
  BY <1>3, <1>5
<1>10. /\ d \in Seq(S) /\ Len(d) = (i - 1) + Len(l) + (Len(c) - i)
       /\ \A j \in 1 .. i - 1 : d[j] = c[j]
       /\ \A j \in 1 .. Len(l) : d[(i - 1) + j] = l[j]
       /\ \A j \in 1 .. Len(c) - i : d[(i - 1) + Len(l) + j] = c[i + j]
  BY <1>1, <1>5, <1>7, <1>8, <1>9
<1> QED BY <1>6, <1>10 DEF SpliceLaw

LEMMA BackIndex ==
    ASSUME NEW i \in Nat, NEW n \in Nat, NEW l \in Nat, NEW j \in Nat, NEW m \in Nat, NEW k,
           i >= 1, i <= n, j <= m, (i - 1) + l < j, m = (i - 1) + l + (n - i), k = j - ((i - 1) + l)
    PROVE  k \in 1 .. n - i /\ j = (i - 1) + l + k /\ i + k \in 1 .. n /\ (j < m => i + k < n)
OBVIOUS

\* Replacing a log keeps the chain whole.
LEMMA ChainAfter ==
    ASSUME NEW c, ChainOK(c), NEW i \in DOMAIN c, NEW logs, NEW x, ExtraOK(x),
           x.tail = "clear" => i = Len(c), Replaces(logs, c[i], x)
    PROVE  ChainOK(Spliced(c, i, logs))
<1>0. /\ c \in Seq(Logs) /\ Len(c) \in Nat /\ i \in 1 .. Len(c) /\ DOMAIN c = 1 .. Len(c)
      /\ logs \in Seq(Logs) /\ Len(logs) \in Nat /\ Len(logs) >= 1
  BY DEF ChainOK, Replaces
<1>1. PICK n \in Nat, l \in Nat : n = Len(c) /\ l = Len(logs)
  BY <1>0
<1>2. PICK d \in Seq(Logs) : /\ d = Spliced(c, i, logs) /\ Len(d) = (i - 1) + l + (n - i)
                             /\ \A j \in 1 .. i - 1 : d[j] = c[j]
                             /\ \A j \in 1 .. l : d[(i - 1) + j] = logs[j]
                             /\ \A j \in 1 .. n - i : d[(i - 1) + l + j] = c[i + j]
  <2>1. SpliceLaw(Spliced(c, i, logs), Logs, c, i, logs)
    BY <1>0, SplicedIs
  <2> QED BY <1>1, <2>1 DEF SpliceLaw
<1>3. PICK m \in Nat : m = Len(d) /\ m = (i - 1) + l + (n - i)
  BY <1>2
<1>4. i \in Nat /\ i >= 1 /\ i <= n /\ l >= 1 /\ n \in Nat /\ l \in Nat
  BY <1>0, <1>1
<1>5. d # <<>>
  <2>1. m >= 1
    BY ONLY <1>3, <1>4
  <2>2. Len(d) # 0
    BY ONLY <1>3, <2>1
  <2>3. Len(<<>>) = 0
    OBVIOUS
  <2> QED BY ONLY <2>2, <2>3
<1>6. ASSUME NEW j \in 1 .. m PROVE d[j].end % ProgSize = 0 /\ (j < m => d[j].tail)
  <2>0. j \in Nat /\ j >= 1 /\ j <= m /\ m \in Nat
    BY <1>3
  <2>1. CASE j <= i - 1
    <3>1. j \in 1 .. i - 1 /\ j \in 1 .. n /\ j < n
      BY ONLY <1>4, <2>0, <2>1
    <3>2. d[j] = c[j]
      BY <1>2, <3>1
    <3>3. c[j].end % ProgSize = 0 /\ c[j].tail
      BY <1>0, <1>1, <3>1 DEF ChainOK
    <3> QED BY <3>2, <3>3
  <2>2. CASE i - 1 < j /\ j <= (i - 1) + l
    <3>1. PICK k : k = j - (i - 1)
      OBVIOUS
    <3>2. k \in 1 .. l /\ j = (i - 1) + k /\ (j < m => k < l \/ i < n) /\ (~(k < l) => k = l)
      BY ONLY <1>3, <1>4, <2>0, <2>2, <3>1
    <3>3. d[j] = logs[k]
      BY <1>2, <3>2
    <3>4. /\ Programmed(logs[k]) /\ (k < l => logs[k].tail)
          /\ (k = l => logs[k].tail = TailAfter(c[i], x))
      BY <1>1, <3>2 DEF Replaces
    <3>5. i < n => TailAfter(c[i], x)
      <4>1. i < n => c[i].tail
        BY <1>0, <1>1 DEF ChainOK
      <4>2. \A p \in Nat : ~(p < p)
        OBVIOUS
      <4>3. i < n => x.tail # "clear"
        BY <1>1, <4>2
      <4>4. c[i] \in Logs
        BY <1>0
      <4>5. c[i].tail \in BOOLEAN
        BY <4>4, LogMembers
      <4> QED BY <4>1, <4>3, <4>5, TailAfterType
    <3>6. j < m => logs[k].tail
      BY <3>2, <3>4, <3>5
    <3> QED BY <3>3, <3>4, <3>6 DEF Programmed
  <2>3. CASE (i - 1) + l < j
    <3>1. PICK k : k = j - ((i - 1) + l)
      OBVIOUS
    <3>2. k \in 1 .. n - i /\ j = (i - 1) + l + k /\ i + k \in 1 .. n /\ (j < m => i + k < n)
      <4>1. m = (i - 1) + l + (n - i)
        BY <1>3
      <4> QED BY <1>4, <2>0, <2>3, <3>1, <4>1, BackIndex
    <3>3. d[j] = c[i + k]
      BY <1>2, <3>2
    <3> QED BY <1>0, <1>1, <3>2, <3>3 DEF ChainOK
  <2>4. j <= i - 1 \/ (i - 1 < j /\ j <= (i - 1) + l) \/ (i - 1) + l < j
    BY ONLY <1>4, <2>0
  <2> QED BY <2>1, <2>2, <2>3, <2>4
<1>7. DOMAIN d = 1 .. m
  <2>1. d \in Seq(Logs)
    BY <1>2
  <2>2. DOMAIN d = 1 .. Len(d)
    BY ONLY <2>1
  <2> QED BY <1>3, <2>2
<1> QED BY <1>2, <1>3, <1>5, <1>6, <1>7 DEF ChainOK

----------------------------------------------------------------------------
(* Requests: what the calls ask for.                                       *)

LEMMA FirstIs ==
    ASSUME NEW S, S \subseteq Nat
    PROVE  First(S) # None => First(S) \in S
<1>1. CASE S = {}
  BY <1>1 DEF First
<1>2. CASE S # {}
  <2>1. \E m \in S : \A n \in S : m <= n
    BY <1>2, LeastNatural
  <2>2. Min(S) \in S
    BY <2>1 DEF Min
  <2> QED BY <1>2, <2>2 DEF First
<1> QED BY <1>1, <1>2

SeekOK(at) ==
    /\ at.pair \in DOMAIN chain /\ at.id \in Nat /\ at.found \in BOOLEAN
    /\ at.found => at.kind \in {"file", "dir"} /\ at.id < Live(chain[at.pair]).count
    /\ ~at.found => at.id = Live(chain[at.pair]).count

\* seek_entry_in_chain names a pair of the chain, and an entry if it found one.
LEMMA SeekType ==
    ASSUME ChainOK(chain), NEW n
    PROVE  SeekOK(Seek(n))
<1>0. /\ chain \in Seq(Logs) /\ Len(chain) \in Nat /\ Len(chain) \in DOMAIN chain
      /\ DOMAIN chain = 1 .. Len(chain) /\ DOMAIN chain \subseteq Nat
  BY DEF ChainOK
<1>1. \A i \in DOMAIN chain : Live(chain[i]) \in Walks
  <2> SUFFICES ASSUME NEW i \in DOMAIN chain PROVE Live(chain[i]) \in Walks
    OBVIOUS
  <2>1. chain[i] \in Logs
    BY <1>0
  <2> QED BY <2>1, LogMembers, GatherType DEF Live
<1> DEFINE hits == {i \in DOMAIN chain : Lookup(Live(chain[i]), n) # None}
           absent == [found |-> FALSE, pair |-> Len(chain), id |-> Live(Last(chain)).count, kind |-> None]
<1>2. PICK i : i = First(hits)
  OBVIOUS
<1>3. Seek(n) = IF i = None THEN absent
                ELSE [found |-> TRUE, pair |-> i, id |-> Lookup(Live(chain[i]), n),
                      kind |-> SlotOf(Live(chain[i]), Lookup(Live(chain[i]), n)).kind]
  BY <1>2 DEF Seek
<1>4. CASE i = None
  <2>1. Seek(n) = absent
    BY <1>3, <1>4
  <2>2. Live(Last(chain)).count \in Nat
    <3>1. Live(chain[Len(chain)]) \in Walks
      BY <1>0, <1>1
    <3> QED BY <3>1, Constants DEF Walks, Last
  <2> QED BY <1>0, <2>1, <2>2 DEF SeekOK, Last
<1>5. CASE i # None
  <2>1. i \in hits
    <3>1. hits \subseteq Nat
      BY <1>0
    <3> HIDE DEF hits
    <3> QED BY <1>2, <1>5, <3>1, FirstIs
  <2>2. PICK w \in Walks : w = Live(chain[i])
    BY <1>1, <2>1
  <2>3. PICK id : id = Lookup(w, n)
    OBVIOUS
  <2>4. id # None /\ i \in DOMAIN chain
    BY <2>1, <2>2, <2>3
  <2> DEFINE ids == {j \in 0 .. w.count - 1 : /\ SlotOf(w, j).name = n
                                              /\ SlotOf(w, j).kind \in {"file", "dir"}
                                              /\ SlotOf(w, j).struct # None}
  <2>5. id = First(ids)
    BY <2>3 DEF Lookup
  <2>6. w.count \in Nat
    BY Constants DEF Walks
  <2>7. ids \subseteq Nat
    BY <2>6
  <2>8. id \in ids
    <3> HIDE DEF ids
    <3> QED BY <2>4, <2>5, <2>7, FirstIs
  <2>9. id \in Nat /\ id < w.count /\ SlotOf(w, id).kind \in {"file", "dir"}
    BY <2>6, <2>7, <2>8
  <2>10. Seek(n) = [found |-> TRUE, pair |-> i, id |-> id, kind |-> SlotOf(w, id).kind]
    BY <1>3, <1>5, <2>2, <2>3
  <2> QED BY <2>2, <2>4, <2>9, <2>10 DEF SeekOK
<1> QED BY <1>4, <1>5

\* A request for an operation that is well formed.
LEMMA RequestIs ==
    ASSUME NEW i \in DOMAIN chain, NEW op, OpOK(op), NEW x, ExtraOK(x),
           x.tail = "clear" => i = Len(chain), Placed(op, Live(chain[i]).count),
           op.k = "remove" => x.rs = FALSE /\ x.tail = "keep", NEW r \in Request(i, op, x)
    PROVE  RequestOK(r)
BY DEF Request, RequestOK

LEMMA PlainIs ==
    /\ ExtraOK(Plain) /\ Plain.tail # "clear"
    /\ ExtraOK([Plain EXCEPT !.tail = "set"]) /\ [Plain EXCEPT !.tail = "set"].tail # "clear"
    /\ \A b \in BOOLEAN : ExtraOK([Plain EXCEPT !.ms = b]) /\ [Plain EXCEPT !.ms = b].tail # "clear"
    /\ \A b \in BOOLEAN : ExtraOK([Plain EXCEPT !.rs = b]) /\ [Plain EXCEPT !.rs = b].tail # "clear"
BY DEF Plain, ExtraOK

LEMMA OpTypes ==
    ASSUME NEW id \in Nat
    PROVE  /\ OpOK(Op("remove", id)) /\ OpOK(Op("noop", id))
           /\ \A kind \in NameTypes, name \in Body, struct \in Structure, attrs \in Seq(Tags) :
                 OpOK(CreateOp(id, kind, name, struct, attrs))
           /\ \A struct \in Structure : OpOK(UpdateOp(id, struct))
           /\ \A kind \in NameTypes, name \in Body : OpOK(RenameOp(id, kind, name))
           /\ \A a \in Attrs, v \in Body : OpOK(SetAttrOp(id, a, v))
           /\ \A a \in Attrs : OpOK(RemoveAttrOp(id, a))
<1>1. OpOK(Op("remove", id)) /\ OpOK(Op("noop", id))
  BY DEF OpOK, Op, OpKinds
<1>2. ASSUME NEW kind \in NameTypes, NEW name \in Body, NEW struct \in Structure, NEW attrs \in Seq(Tags)
      PROVE  OpOK(CreateOp(id, kind, name, struct, attrs))
  BY DEF OpOK, CreateOp, Op, OpKinds
<1>3. ASSUME NEW struct \in Structure PROVE OpOK(UpdateOp(id, struct))
  BY DEF OpOK, UpdateOp, Op, OpKinds
<1>4. ASSUME NEW kind \in NameTypes, NEW name \in Body PROVE OpOK(RenameOp(id, kind, name))
  BY DEF OpOK, RenameOp, Op, OpKinds
<1>5. ASSUME NEW a \in Attrs, NEW v \in Body PROVE OpOK(SetAttrOp(id, a, v))
  BY DEF OpOK, SetAttrOp, Op, OpKinds
<1>6. ASSUME NEW a \in Attrs PROVE OpOK(RemoveAttrOp(id, a))
  <2>1. None \in Body
    BY DataAssumption DEF Body
  <2> QED BY <2>1 DEF OpOK, RemoveAttrOp, Op, OpKinds
<1> QED BY <1>1, <1>2, <1>3, <1>4, <1>5, <1>6

LEMMA CallFields ==
    ASSUME NEW o, NEW n
    PROVE  /\ Call(o, n).op = o /\ Call(o, n).name = n
           /\ DOMAIN Call(o, n) = {"op", "name", "to", "kind", "struct", "attrs", "attr", "value"}
BY DEF Call

\* What the requests use of a call.
LEMMA CallTypes ==
    /\ \A c \in WriteCalls : c.op = "write" /\ c.name \in Body /\ c.struct \in Structure
    /\ \A c \in MkdirCalls : c.op = "mkdir" /\ c.name \in Body /\ c.struct \in Structure
    /\ \A c \in MoveInCalls : /\ c.op = "movein" /\ c.name \in Body /\ c.struct \in Structure
                              /\ c.kind = "file" /\ c.attrs \in [Attrs -> Body]
    /\ \A c \in RemoveCalls : c.op \in {"remove", "rmdir", "moveout"}
    /\ \A c \in RelinkCalls : c.op = "relink" /\ c.struct \in Structure
    /\ \A c \in RenameCalls : c.op = "rename" /\ c.to \in Body
    /\ \A c \in SetAttrCalls : c.op = "setattr" /\ c.attr \in Attrs /\ c.value \in Body
    /\ \A c \in RemoveAttrCalls : c.op = "removeattr" /\ c.attr \in Attrs
    /\ \A c \in ThreadCalls : c.op = "rethread" /\ c.value \in {"set", "clear"}
<1>0. /\ Names \subseteq Body /\ Values \subseteq Body /\ Structs \subseteq Structure
      /\ \A p \in Pairs : DirStruct(p) \in Structure
  BY DataAssumption DEF Body, Structure, DirStruct, StructTypes
<1>1. ASSUME NEW c \in WriteCalls PROVE c.op = "write" /\ c.name \in Body /\ c.struct \in Structure
  <2>0. PICK b \in CallsOf("write"), s \in Structs : c = WithEntry(b, "file", s)
    BY DEF WriteCalls
  <2>1. PICK n \in Names : b = Call("write", n)
    BY DEF CallsOf
  <2> QED BY <1>0, <2>0, <2>1 DEF Call, WithEntry, WithAttr
<1>2. ASSUME NEW c \in MkdirCalls PROVE c.op = "mkdir" /\ c.name \in Body /\ c.struct \in Structure
  <2>0. PICK b \in CallsOf("mkdir"), p \in Pairs : c = WithEntry(b, "dir", DirStruct(p))
    BY DEF MkdirCalls
  <2>1. PICK n \in Names : b = Call("mkdir", n)
    BY DEF CallsOf
  <2> QED BY <1>0, <2>0, <2>1 DEF Call, WithEntry, WithAttr
<1>3. ASSUME NEW c \in MoveInCalls
      PROVE  /\ c.op = "movein" /\ c.name \in Body /\ c.struct \in Structure
             /\ c.kind = "file" /\ c.attrs \in [Attrs -> Body]
  <2>0. PICK b \in CallsOf("movein"), s \in Structs, f \in [Attrs -> Values] :
           c = [WithEntry(b, "file", s) EXCEPT !.attrs = f]
    BY DEF MoveInCalls
  <2>1. PICK n \in Names : b = Call("movein", n)
    BY DEF CallsOf
  <2>4. f \in [Attrs -> Body]
    BY <1>0
  <2> QED BY <1>0, <2>0, <2>1, <2>4 DEF Call, WithEntry
<1>4. ASSUME NEW c \in RemoveCalls PROVE c.op \in {"remove", "rmdir", "moveout"}
  BY CallFields DEF RemoveCalls, CallsOf
<1>5. ASSUME NEW c \in RelinkCalls PROVE c.op = "relink" /\ c.struct \in Structure
  <2>1. PICK n \in Names, p \in Pairs : c = [Call("relink", n) EXCEPT !.struct = DirStruct(p)]
    BY DEF RelinkCalls, CallsOf
  <2> QED BY <1>0, <2>1 DEF Call
<1>6. ASSUME NEW c \in RenameCalls PROVE c.op = "rename" /\ c.to \in Body
  <2>1. PICK n \in Names, m \in Names : c = [Call("rename", n) EXCEPT !.to = m]
    BY DEF RenameCalls, CallsOf
  <2> QED BY <1>0, <2>1 DEF Call
<1>7. ASSUME NEW c \in SetAttrCalls PROVE c.op = "setattr" /\ c.attr \in Attrs /\ c.value \in Body
  <2>0. PICK b \in CallsOf("setattr"), a \in Attrs, v \in Values : c = WithAttr(b, a, v)
    BY DEF SetAttrCalls
  <2>1. PICK n \in Names : b = Call("setattr", n)
    BY DEF CallsOf
  <2> QED BY <1>0, <2>0, <2>1 DEF Call, WithEntry, WithAttr
<1>8. ASSUME NEW c \in RemoveAttrCalls PROVE c.op = "removeattr" /\ c.attr \in Attrs
  <2>1. PICK n \in Names, a \in Attrs : c = [Call("removeattr", n) EXCEPT !.attr = a]
    BY DEF RemoveAttrCalls, CallsOf
  <2> QED BY <2>1 DEF Call
<1>9. ASSUME NEW c \in ThreadCalls PROVE c.op = "rethread" /\ c.value \in {"set", "clear"}
  <2>1. PICK t \in {"set", "clear"} : c = [Call("rethread", None) EXCEPT !.value = t]
    BY DEF ThreadCalls
  <2> QED BY <2>1 DEF Call
<1> QED BY <1>1, <1>2, <1>3, <1>4, <1>5, <1>6, <1>7, <1>8, <1>9

\* SetToSeq lists the attribute ids.
LEMMA AttrIds == SetToSeq(Attrs) \in Seq(Attrs)
<1>1. Cardinality(Attrs) \in Nat /\ ExistsBijection(1 .. Cardinality(Attrs), Attrs)
  BY DataAssumption, FS_CardinalityType
<1>2. \E f \in [1 .. Cardinality(Attrs) -> Attrs] : IsInjective(f)
  BY <1>1 DEF ExistsBijection, Bijection, Injection
<1>3. SetToSeq(Attrs) \in [1 .. Cardinality(Attrs) -> Attrs]
  BY <1>2 DEF SetToSeq
<1> QED BY <1>1, <1>3

LEMMA StagedType ==
    ASSUME NEW id \in Nat, NEW f \in [Attrs -> Body], NEW staged,
           staged = [i \in DOMAIN SetToSeq(Attrs) |-> AttrTag(id, SetToSeq(Attrs)[i], f[SetToSeq(Attrs)[i]])]
    PROVE  staged \in Seq(Tags)
<1>1. PICK ids \in Seq(Attrs) : ids = SetToSeq(Attrs)
  BY AttrIds
<1>2. PICK n \in Nat : DOMAIN ids = 1 .. n
  OBVIOUS
<1>3. ASSUME NEW i \in 1 .. n PROVE AttrTag(id, ids[i], f[ids[i]]) \in Tags
  <2>1. ids[i] \in Attrs
    BY <1>2
  <2>2. f[ids[i]] \in Body
    BY <2>1
  <2> QED BY <2>1, <2>2, TagTypes
<1>4. staged = [i \in 1 .. n |-> AttrTag(id, ids[i], f[ids[i]])]
  BY <1>1, <1>2
<1>5. staged \in [1 .. n -> Tags]
  BY <1>3, <1>4
<1> QED BY <1>5

\* Where the operations go.
LEMMA OpPlaces ==
    ASSUME NEW id \in Nat, NEW count
    PROVE  /\ id < count => Placed(Op("remove", id), count)
           /\ Placed(Op("noop", id), count) /\ Op("noop", id).k # "remove"
           /\ \A kind, name, struct, attrs :
                 /\ id = count => Placed(CreateOp(id, kind, name, struct, attrs), count)
                 /\ CreateOp(id, kind, name, struct, attrs).k # "remove"
           /\ \A struct : /\ id < count => Placed(UpdateOp(id, struct), count)
                          /\ UpdateOp(id, struct).k # "remove"
           /\ \A kind, name : /\ id < count => Placed(RenameOp(id, kind, name), count)
                              /\ RenameOp(id, kind, name).k # "remove"
           /\ \A a, v : /\ id < count => Placed(SetAttrOp(id, a, v), count)
                        /\ SetAttrOp(id, a, v).k # "remove"
           /\ \A a : /\ id < count => Placed(RemoveAttrOp(id, a), count)
                     /\ RemoveAttrOp(id, a).k # "remove"
<1>1. \A k : Op(k, id).k = k /\ Op(k, id).id = id
  BY DEF Op
<1>2. \A kind, name, struct, attrs :
         /\ CreateOp(id, kind, name, struct, attrs).k = "create"
         /\ CreateOp(id, kind, name, struct, attrs).id = id
  BY DEF CreateOp, Op
<1>3. \A struct : UpdateOp(id, struct).k = "update" /\ UpdateOp(id, struct).id = id
  BY DEF UpdateOp, Op
<1>4. \A kind, name : RenameOp(id, kind, name).k = "rename" /\ RenameOp(id, kind, name).id = id
  BY DEF RenameOp, Op
<1>5. \A a, v : SetAttrOp(id, a, v).k = "setattr" /\ SetAttrOp(id, a, v).id = id
  BY DEF SetAttrOp, Op
<1>6. \A a : RemoveAttrOp(id, a).k = "removeattr" /\ RemoveAttrOp(id, a).id = id
  BY DEF RemoveAttrOp, Op
<1> QED BY <1>1, <1>2, <1>3, <1>4, <1>5, <1>6 DEF Placed

\* Every request of every call is one.
LEMMA RequestTypes ==
    ASSUME ChainOK(chain), NEW at, SeekOK(at)
    PROVE  /\ \A c \in WriteCalls : \A r \in WriteRequest(c, at) : RequestOK(r)
           /\ \A c \in MkdirCalls : \A r \in MkdirRequest(c, at) : RequestOK(r)
           /\ \A c \in MoveInCalls : \A r \in MoveInRequest(c, at) : RequestOK(r)
           /\ \A c \in RemoveCalls : \A r \in RemoveRequest(c, at) : RequestOK(r)
           /\ \A c \in RelinkCalls : \A r \in RelinkRequest(c, at) : RequestOK(r)
           /\ \A c \in RenameCalls : \A to : \A r \in RenameRequest(c, at, to) : RequestOK(r)
           /\ \A c \in SetAttrCalls : \A r \in SetAttrRequest(c, at) : RequestOK(r)
           /\ \A c \in RemoveAttrCalls : \A r \in RemoveAttrRequest(c, at) : RequestOK(r)
           /\ \A c \in ThreadCalls : \A r \in ThreadRequest(c) : RequestOK(r)
<1>0. /\ at.pair \in DOMAIN chain /\ at.id \in Nat
      /\ (at.found => at.kind \in NameTypes) /\ "file" \in NameTypes /\ "dir" \in NameTypes
      /\ (at.found => at.id < Live(chain[at.pair]).count)
      /\ (~at.found => at.id = Live(chain[at.pair]).count)
  BY DEF SeekOK, NameTypes
<1>1. ASSUME NEW c \in WriteCalls, NEW r \in WriteRequest(c, at) PROVE RequestOK(r)
  <2>1. c.name \in Body /\ c.struct \in Structure /\ <<>> \in Seq(Tags)
    BY CallTypes
  <2>2. OpOK(CreateOp(at.id, "file", c.name, c.struct, <<>>)) /\ OpOK(UpdateOp(at.id, c.struct))
    BY <1>0, <2>1, OpTypes
  <2>3. CASE ~at.found
    <3>1. r \in Request(at.pair, CreateOp(at.id, "file", c.name, c.struct, <<>>), Plain)
      BY <1>1, <2>3 DEF WriteRequest
    <3> QED BY <1>0, <2>2, <2>3, <3>1, PlainIs, OpPlaces, RequestIs
  <2>4. CASE at.found
    <3>1. r \in Request(at.pair, UpdateOp(at.id, c.struct), Plain)
      BY <1>1, <2>4 DEF WriteRequest
    <3> QED BY <1>0, <2>2, <2>4, <3>1, PlainIs, OpPlaces, RequestIs
  <2> QED BY <2>3, <2>4
<1>2. ASSUME NEW c \in MkdirCalls, NEW r \in MkdirRequest(c, at) PROVE RequestOK(r)
  <2>1. c.name \in Body /\ c.struct \in Structure /\ <<>> \in Seq(Tags)
    BY CallTypes
  <2>2. OpOK(CreateOp(at.id, "dir", c.name, c.struct, <<>>))
    BY <1>0, <2>1, OpTypes
  <2>3. ~at.found /\ r \in Request(at.pair, CreateOp(at.id, "dir", c.name, c.struct, <<>>),
                                   [Plain EXCEPT !.tail = "set"])
    BY <1>2 DEF MkdirRequest
  <2> QED BY <1>0, <2>2, <2>3, PlainIs, OpPlaces, RequestIs
<1>3. ASSUME NEW c \in MoveInCalls, NEW r \in MoveInRequest(c, at) PROVE RequestOK(r)
  <2>1. c.name \in Body /\ c.struct \in Structure /\ c.kind \in NameTypes /\ c.attrs \in [Attrs -> Body]
    BY <1>0, CallTypes
  <2>2. PICK staged : staged = [i \in DOMAIN SetToSeq(Attrs) |->
                                   AttrTag(at.id, SetToSeq(Attrs)[i], c.attrs[SetToSeq(Attrs)[i]])]
    OBVIOUS
  <2>3. staged \in Seq(Tags)
    BY <1>0, <2>1, <2>2, StagedType
  <2>4. OpOK(CreateOp(at.id, c.kind, c.name, c.struct, staged))
    BY <1>0, <2>1, <2>3, OpTypes
  <2>5. ~at.found /\ r \in Request(at.pair, CreateOp(at.id, c.kind, c.name, c.struct, staged),
                                   [Plain EXCEPT !.ms = TRUE])
    BY <1>3, <2>2 DEF MoveInRequest
  <2> QED BY <1>0, <2>4, <2>5, PlainIs, OpPlaces, RequestIs
<1>4. ASSUME NEW c \in RemoveCalls, NEW r \in RemoveRequest(c, at) PROVE RequestOK(r)
  <2>1. OpOK(Op("remove", at.id))
    BY <1>0, OpTypes
  <2>2. PICK b \in BOOLEAN : b = (c.op = "moveout")
    OBVIOUS
  <2>3. at.found /\ r \in Request(at.pair, Op("remove", at.id), [Plain EXCEPT !.ms = b])
    BY <1>4, <2>2 DEF RemoveRequest
  <2>4. [Plain EXCEPT !.ms = b].rs = FALSE /\ [Plain EXCEPT !.ms = b].tail = "keep"
    BY DEF Plain
  <2> QED BY <1>0, <2>1, <2>3, <2>4, PlainIs, OpPlaces, RequestIs
<1>5. ASSUME NEW c \in RelinkCalls, NEW r \in RelinkRequest(c, at) PROVE RequestOK(r)
  <2>1. OpOK(UpdateOp(at.id, c.struct))
    BY <1>0, CallTypes, OpTypes
  <2>2. at.found /\ r \in Request(at.pair, UpdateOp(at.id, c.struct), [Plain EXCEPT !.rs = TRUE])
    BY <1>5 DEF RelinkRequest
  <2> QED BY <1>0, <2>1, <2>2, PlainIs, OpPlaces, RequestIs
<1>6. ASSUME NEW c \in RenameCalls, NEW to, NEW r \in RenameRequest(c, at, to) PROVE RequestOK(r)
  <2>1. at.found /\ r \in Request(at.pair, RenameOp(at.id, at.kind, c.to), Plain)
    BY <1>6 DEF RenameRequest
  <2>2. OpOK(RenameOp(at.id, at.kind, c.to))
    BY <1>0, <2>1, CallTypes, OpTypes
  <2> QED BY <1>0, <2>1, <2>2, PlainIs, OpPlaces, RequestIs
<1>7. ASSUME NEW c \in SetAttrCalls, NEW r \in SetAttrRequest(c, at) PROVE RequestOK(r)
  <2>1. OpOK(SetAttrOp(at.id, c.attr, c.value))
    BY <1>0, CallTypes, OpTypes
  <2>2. at.found /\ r \in Request(at.pair, SetAttrOp(at.id, c.attr, c.value), Plain)
    BY <1>7 DEF SetAttrRequest
  <2> QED BY <1>0, <2>1, <2>2, PlainIs, OpPlaces, RequestIs
<1>8. ASSUME NEW c \in RemoveAttrCalls, NEW r \in RemoveAttrRequest(c, at) PROVE RequestOK(r)
  <2>1. OpOK(RemoveAttrOp(at.id, c.attr))
    BY <1>0, CallTypes, OpTypes
  <2>2. at.found /\ r \in Request(at.pair, RemoveAttrOp(at.id, c.attr), Plain)
    BY <1>8 DEF RemoveAttrRequest
  <2> QED BY <1>0, <2>1, <2>2, PlainIs, OpPlaces, RequestIs
<1>9. ASSUME NEW c \in ThreadCalls, NEW r \in ThreadRequest(c) PROVE RequestOK(r)
  <2>1. OpOK(Op("noop", 0))
    BY OpTypes
  <2>2. PICK x : x = [ms |-> TRUE, rs |-> TRUE, tail |-> c.value]
    OBVIOUS
  <2>3. ExtraOK(x)
    BY <2>2, CallTypes DEF ExtraOK
  <2>4. r \in Request(Len(chain), Op("noop", 0), x)
    BY <1>9, <2>2 DEF ThreadRequest
  <2>5. Len(chain) \in DOMAIN chain
    BY DEF ChainOK
  <2>6. 0 \in Nat
    OBVIOUS
  <2> QED BY <2>1, <2>3, <2>4, <2>5, <2>6, OpPlaces, RequestIs
<1> QED BY <1>1, <1>2, <1>3, <1>4, <1>5, <1>6, <1>7, <1>8, <1>9

----------------------------------------------------------------------------
(* The invariant and its preservation.                                     *)

LogInv ==
    /\ ChainOK(chain)
    /\ image.root \in BOOLEAN /\ image.own \in BOOLEAN /\ image.calls \in Nat
    /\ call \in Calls \cup {Call("none", None)} \cup {Refused(why) : why \in Reasons \ {"append"}}
    /\ calls \in 0 .. image.calls

LEMMA RefusedIs ==
    \A why : Refused(why).op = "refused" /\ Refused(why).value = why
BY DEF Refused, Call

LEMMA CallOps == \A c \in Calls : c.op # "refused"
<1> SUFFICES ASSUME NEW c \in Calls PROVE c.op # "refused"
  OBVIOUS
<1>1. \/ c \in WriteCalls \/ c \in MkdirCalls \/ c \in MoveInCalls \/ c \in RemoveCalls
      \/ c \in RelinkCalls \/ c \in RenameCalls \/ c \in SetAttrCalls \/ c \in RemoveAttrCalls
      \/ c \in ThreadCalls
  BY DEF Calls
<1> QED BY <1>1, CallTypes

\* The invariant has the properties.
LEMMA InvImplies == LogInv => TypeOK /\ AppendFits
<1> SUFFICES ASSUME LogInv PROVE TypeOK /\ AppendFits
  OBVIOUS
<1>1. TypeOK
  BY DEF LogInv, ChainOK, TypeOK
<1>2. call # Refused("append")
  <2>1. CASE call \in Calls
    BY <2>1, CallOps, RefusedIs
  <2>2. CASE call = Call("none", None)
    BY <2>2, CallFields, RefusedIs
  <2>3. CASE call \in {Refused(why) : why \in Reasons \ {"append"}}
    <3>1. PICK why \in Reasons \ {"append"} : call = Refused(why)
      BY <2>3
    <3>2. call.value # "append"
      BY <3>1, RefusedIs
    <3> QED BY <3>2, RefusedIs
  <2> QED BY <2>1, <2>2, <2>3 DEF LogInv
<1> QED BY <1>1, <1>2 DEF AppendFits

LEMMA InitInv == Init => LogInv
<1> SUFFICES ASSUME Init PROVE LogInv
  OBVIOUS
<1>1. PICK m \in Images :
         /\ chain = m.chain
         /\ image = [root |-> m.root, own |-> m.own, ops |-> m.ops, names |-> m.names,
                     structs |-> m.structs, calls |-> m.calls]
  BY DEF Init
<1>2. ChainOK(chain)
  BY <1>1, ImageAssumption DEF ChainOK
<1>3. image.root \in BOOLEAN /\ image.own \in BOOLEAN /\ image.calls \in Nat
  BY <1>1, ImageAssumption
<1>4. calls \in 0 .. image.calls /\ call = Call("none", None)
  BY <1>3 DEF Init
<1> QED BY <1>2, <1>3, <1>4 DEF LogInv

\* A call whose requests are well formed.
LEMMA PerformInv ==
    ASSUME LogInv, calls < image.calls, NEW c \in Calls, NEW requests,
           \A r \in requests : RequestOK(r), Perform(c, requests)
    PROVE  LogInv'
<1>0. /\ ChainOK(chain) /\ image.root \in BOOLEAN /\ image.own \in BOOLEAN /\ image.calls \in Nat
      /\ calls \in 0 .. image.calls /\ image' = image
  BY DEF LogInv, Perform
<1>1. ASSUME NEW why \in Reasons \ {"append"}, Refuse(why) PROVE LogInv'
  <2>1. call' = Refused(why) /\ chain' = chain /\ calls' = calls
    BY <1>1 DEF Refuse
  <2>2. call' \in {Refused(w) : w \in Reasons \ {"append"}}
    BY <2>1
  <2>3. ChainOK(chain')
    BY <1>0, <2>1
  <2> QED BY <1>0, <2>1, <2>2, <2>3 DEF LogInv
<1>2. CASE requests = {} /\ Refuse("early")
  <2>1. "early" \in Reasons \ {"append"}
    BY DEF Reasons
  <2> QED BY <1>1, <1>2, <2>1
<1>3. CASE \E r \in requests : \E o \in Commits(r, Source(chain[r.pair])) :
              IF o.why # None THEN Refuse(o.why) ELSE Accept(c, r.pair, o.logs)
  <2>1. PICK r \in requests : \E o \in Commits(r, Source(chain[r.pair])) :
              IF o.why # None THEN Refuse(o.why) ELSE Accept(c, r.pair, o.logs)
    BY <1>3
  <2>2. PICK o \in Commits(r, Source(chain[r.pair])) :
              IF o.why # None THEN Refuse(o.why) ELSE Accept(c, r.pair, o.logs)
    BY <2>1
  <2>3. RequestOK(r)
    BY <2>1
  <2>4. chain \in Seq(Logs) /\ r.pair \in DOMAIN chain /\ ExtraOK(r.x)
        /\ (r.x.tail = "clear" => r.pair = Len(chain))
    BY <1>0, <2>3 DEF RequestOK, ChainOK
  <2>5. PICK log \in Logs : log = chain[r.pair]
    BY <2>4
  <2>6. PICK src : src = Source(log) /\ SourceOK(src)
    BY LogMembers, SourceType
  <2>7. OutcomeOK(o, log, r.x)
    BY <2>2, <2>3, <2>5, <2>6, CommitsAre
  <2>8. CASE o.why # None
    BY <1>1, <2>2, <2>7, <2>8 DEF OutcomeOK
  <2>9. CASE o.why = None
    <3>1. Replaces(o.logs, chain[r.pair], r.x)
      BY <2>5, <2>7, <2>9 DEF OutcomeOK
    <3>2. Accept(c, r.pair, o.logs)
      BY <2>2, <2>9
    <3>3. chain' = Spliced(chain, r.pair, o.logs) /\ call' = c /\ calls' = calls + 1
      BY <3>2 DEF Accept, Spliced
    <3>4. ChainOK(Spliced(chain, r.pair, o.logs))
      BY <1>0, <2>4, <3>1, ChainAfter
    <3>5. calls' \in 0 .. image.calls
      BY <1>0, <3>3
    <3> QED BY <1>0, <3>3, <3>4, <3>5 DEF LogInv
  <2> QED BY <2>8, <2>9
<1> QED BY <1>2, <1>3 DEF Perform

LEMMA TornInv ==
    ASSUME LogInv, calls < image.calls, TornAppend
    PROVE  LogInv'
<1>0. /\ ChainOK(chain) /\ image.root \in BOOLEAN /\ image.own \in BOOLEAN /\ image.calls \in Nat
      /\ calls \in 0 .. image.calls /\ image' = image /\ call' = call /\ calls' = calls + 1
      /\ chain \in Seq(Logs)
  BY DEF LogInv, TornAppend, ChainOK
<1>1. PICK i \in DOMAIN chain : chain' = [chain EXCEPT ![i].erased = FALSE]
  BY DEF TornAppend
<1>2. PICK new : new = [chain[i] EXCEPT !.erased = FALSE]
  OBVIOUS
<1>3. chain[i] \in Logs
  BY <1>0
<1>4. new \in Logs /\ new.end = chain[i].end /\ new.tail = chain[i].tail
  BY <1>2, <1>3 DEF Logs
<1>5. chain' = [chain EXCEPT ![i] = new]
  BY <1>1, <1>2
<1>6. chain' \in Seq(Logs) /\ Len(chain') = Len(chain) /\ DOMAIN chain' = DOMAIN chain
  BY <1>0, <1>4, <1>5, ExceptSeq
<1>7. \A j \in DOMAIN chain : chain'[j].end = chain[j].end /\ chain'[j].tail = chain[j].tail
  BY <1>4, <1>5
<1>8. chain' # <<>>
  <2>1. i \in DOMAIN chain'
    BY <1>6
  <2>2. DOMAIN <<>> = {}
    OBVIOUS
  <2> QED BY <2>1, <2>2
<1>9. ChainOK(chain')
  BY <1>0, <1>6, <1>7, <1>8 DEF ChainOK
<1>10. calls' \in 0 .. image.calls
  BY <1>0
<1> QED BY <1>0, <1>9, <1>10 DEF LogInv

LEMMA NextInv == LogInv /\ [Next]_vars => LogInv'
<1> SUFFICES ASSUME LogInv, [Next]_vars PROVE LogInv'
  OBVIOUS
<1>1. CASE UNCHANGED vars
  BY <1>1 DEF vars, LogInv
<1>2. CASE Next
  <2>0. calls < image.calls /\ ChainOK(chain)
    BY <1>2 DEF Next, LogInv
  <2>1. \A n : SeekOK(Seek(n))
    BY <2>0, SeekType
  <2>2. CASE Write
    <3>1. PICK c \in WriteCalls : Perform(c, WriteRequest(c, Seek(c.name)))
      BY <2>2 DEF Write
    <3>2. c \in Calls
      BY DEF Calls
    <3>3. \A r \in WriteRequest(c, Seek(c.name)) : RequestOK(r)
      BY <2>0, <2>1, RequestTypes
    <3> QED BY <2>0, <3>1, <3>2, <3>3, PerformInv
  <2>3. CASE Mkdir
    <3>1. PICK c \in MkdirCalls : Perform(c, MkdirRequest(c, Seek(c.name)))
      BY <2>3 DEF Mkdir
    <3>2. c \in Calls
      BY DEF Calls
    <3>3. \A r \in MkdirRequest(c, Seek(c.name)) : RequestOK(r)
      BY <2>0, <2>1, RequestTypes
    <3> QED BY <2>0, <3>1, <3>2, <3>3, PerformInv
  <2>4. CASE MoveIn
    <3>1. PICK c \in MoveInCalls : Perform(c, MoveInRequest(c, Seek(c.name)))
      BY <2>4 DEF MoveIn
    <3>2. c \in Calls
      BY DEF Calls
    <3>3. \A r \in MoveInRequest(c, Seek(c.name)) : RequestOK(r)
      BY <2>0, <2>1, RequestTypes
    <3> QED BY <2>0, <3>1, <3>2, <3>3, PerformInv
  <2>5. CASE RemoveEntry
    <3>1. PICK c \in RemoveCalls : Perform(c, RemoveRequest(c, Seek(c.name)))
      BY <2>5 DEF RemoveEntry
    <3>2. c \in Calls
      BY DEF Calls
    <3>3. \A r \in RemoveRequest(c, Seek(c.name)) : RequestOK(r)
      BY <2>0, <2>1, RequestTypes
    <3> QED BY <2>0, <3>1, <3>2, <3>3, PerformInv
  <2>6. CASE Relink
    <3>1. PICK c \in RelinkCalls : Perform(c, RelinkRequest(c, Seek(c.name)))
      BY <2>6 DEF Relink
    <3>2. c \in Calls
      BY DEF Calls
    <3>3. \A r \in RelinkRequest(c, Seek(c.name)) : RequestOK(r)
      BY <2>0, <2>1, RequestTypes
    <3> QED BY <2>0, <3>1, <3>2, <3>3, PerformInv
  <2>7. CASE Rename
    <3>1. PICK c \in RenameCalls : Perform(c, RenameRequest(c, Seek(c.name), Seek(c.to)))
      BY <2>7 DEF Rename
    <3>2. c \in Calls
      BY DEF Calls
    <3>3. \A r \in RenameRequest(c, Seek(c.name), Seek(c.to)) : RequestOK(r)
      BY <2>0, <2>1, RequestTypes
    <3> QED BY <2>0, <3>1, <3>2, <3>3, PerformInv
  <2>8. CASE SetAttr
    <3>1. PICK c \in SetAttrCalls : Perform(c, SetAttrRequest(c, Seek(c.name)))
      BY <2>8 DEF SetAttr
    <3>2. c \in Calls
      BY DEF Calls
    <3>3. \A r \in SetAttrRequest(c, Seek(c.name)) : RequestOK(r)
      BY <2>0, <2>1, RequestTypes
    <3> QED BY <2>0, <3>1, <3>2, <3>3, PerformInv
  <2>9. CASE RemoveAttr
    <3>1. PICK c \in RemoveAttrCalls : Perform(c, RemoveAttrRequest(c, Seek(c.name)))
      BY <2>9 DEF RemoveAttr
    <3>2. c \in Calls
      BY DEF Calls
    <3>3. \A r \in RemoveAttrRequest(c, Seek(c.name)) : RequestOK(r)
      BY <2>0, <2>1, RequestTypes
    <3> QED BY <2>0, <3>1, <3>2, <3>3, PerformInv
  <2>10. CASE Rethread
    <3>1. PICK c \in ThreadCalls : Perform(c, ThreadRequest(c))
      BY <2>10 DEF Rethread
    <3>2. c \in Calls
      BY DEF Calls
    <3>3. \A r \in ThreadRequest(c) : RequestOK(r)
      BY <2>0, <2>1, RequestTypes
    <3> QED BY <2>0, <3>1, <3>2, <3>3, PerformInv
  <2>11. CASE TornAppend
    BY <2>0, <2>11, TornInv
  <2> QED BY <1>2, <2>2, <2>3, <2>4, <2>5, <2>6, <2>7, <2>8, <2>9, <2>10, <2>11 DEF Next
<1> QED BY <1>1, <1>2

----------------------------------------------------------------------------
(* Induction over sequences, and sums.                                     *)

\* What holds of the empty sequence and is kept by one more element, as a set.
LEMMA SeqInduction ==
    ASSUME NEW S, NEW X, <<>> \in X, \A s \in Seq(S) : \A e \in S : s \in X => s \o <<e>> \in X
    PROVE  \A s \in Seq(S) : s \in X
<1> DEFINE T == {n \in Nat : \A s \in Seq(S) : Len(s) = n => s \in X}
<1>1. 0 \in T
  <2>1. \A s \in Seq(S) : Len(s) = 0 => s = <<>>
    OBVIOUS
  <2> QED BY <2>1
<1>2. ASSUME NEW n \in Nat, n \in T PROVE n + 1 \in T
  <2> SUFFICES ASSUME NEW s \in Seq(S), Len(s) = n + 1 PROVE s \in X
    OBVIOUS
  <2> DEFINE f == [i \in 1 .. n |-> s[i]]
  <2>1. f \in Seq(S) /\ Len(f) = n /\ s[n + 1] \in S
    OBVIOUS
  <2>2. s = f \o <<s[n + 1]>>
    <3>1. f \o <<s[n + 1]>> \in Seq(S) /\ Len(f \o <<s[n + 1]>>) = n + 1
      BY <2>1
    <3>2. \A i \in 1 .. n + 1 : s[i] = (f \o <<s[n + 1]>>)[i]
      <4> SUFFICES ASSUME NEW i \in 1 .. n + 1 PROVE s[i] = (f \o <<s[n + 1]>>)[i]
        OBVIOUS
      <4>1. CASE i = n + 1
        BY <2>1, <4>1
      <4>2. CASE i # n + 1
        <5>1. i \in 1 .. n
          BY <4>2
        <5> QED BY <2>1, <5>1
      <4> QED BY <4>1, <4>2
    <3> HIDE DEF f
    <3> QED BY <3>1, <3>2, SeqEqual
  <2> HIDE DEF f
  <2>3. f \in X
    BY <1>2, <2>1
  <2> QED BY <2>1, <2>2, <2>3
<1> HIDE DEF T
<1>3. \A n \in Nat : n \in T
  BY <1>1, <1>2, NatSetInduction
<1> QED BY <1>3 DEF T

\* The sum of w[1] to w[n].
SumOf(w, n) ==
    LET p[i \in 0 .. n] == IF i = 0 THEN 0 ELSE p[i - 1] + w[i]
    IN  p[n]

Sums(p, w, n) == p \in [0 .. n -> Nat] /\ p[0] = 0 /\ \A k \in 1 .. n : p[k] = p[k - 1] + w[k]

LEMMA SumExist ==
    ASSUME NEW n \in Nat, NEW w \in [1 .. n -> Nat]
    PROVE  \E p : Sums(p, w, n) /\ SumOf(w, n) = p[n]
<1> DEFINE step == [k \in 1 .. n |-> [x \in Nat |-> x + w[k]]]
           f[i \in 0 .. n] == IF i = 0 THEN 0 ELSE f[i - 1] + w[i]
<1>0. n \in Nat /\ 0 \in 0 .. n /\ n \in 0 .. n
  OBVIOUS
<1>2. \A k \in 1 .. n, x \in Nat : step[k][x] = x + w[k] /\ step[k][x] \in Nat
  OBVIOUS
<1>3. SumOf(w, n) = f[n]
  BY DEF SumOf
<1> HIDE DEF step
<1>4. PICK g : Follows(g, n, Nat, 0, step)
  BY <1>0, <1>2, StepsExist DEF StepsStay
<1>5. g \in [0 .. n -> Nat] /\ g[0] = 0 /\ \A k \in 1 .. n : g[k] = g[k - 1] + w[k]
  <2>1. g \in [0 .. n -> Nat] /\ g[0] = 0 /\ \A k \in 1 .. n : g[k] = step[k][g[k - 1]]
    BY <1>4 DEF Follows
  <2>2. \A k \in 1 .. n : g[k - 1] \in Nat
    BY <1>0, <2>1
  <2> QED BY <1>2, <2>1, <2>2
<1>6. g = [i \in 0 .. n |-> IF i = 0 THEN 0 ELSE g[i - 1] + w[i]]
  BY <1>0, <1>5
<1>7. f = [i \in 0 .. n |-> IF i = 0 THEN 0 ELSE f[i - 1] + w[i]]
  BY <1>6
<1> HIDE DEF f
<1>8. f[0] = 0 /\ \A k \in 1 .. n : f[k - 1] \in Nat => f[k] = step[k][f[k - 1]]
  <2>1. f[0] = 0
    BY <1>0, <1>7
  <2>2. ASSUME NEW k \in 1 .. n, f[k - 1] \in Nat PROVE f[k] = step[k][f[k - 1]]
    <3>1. k \in 0 .. n /\ k # 0
      OBVIOUS
    <3>2. f[k] = f[k - 1] + w[k]
      BY <1>7, <3>1
    <3> QED BY <1>2, <2>2, <3>2
  <2> QED BY <2>1, <2>2
<1>9. f[n] = g[n]
  <2>1. PICK m \in Nat : m = n
    OBVIOUS
  <2>0. PICK h : h = f
    OBVIOUS
  <2>2. Follows(g, m, Nat, 0, step) /\ h[0] = 0 /\ \A k \in 1 .. m : h[k - 1] \in Nat => h[k] = step[k][h[k - 1]]
    BY <1>4, <1>8, <2>0, <2>1
  <2>3. \A k \in 0 .. m : h[k] = g[k]
    BY <2>2, RecursionIs
  <2> QED BY <1>0, <2>0, <2>1, <2>3
<1> QED BY <1>3, <1>5, <1>9 DEF Sums

\* Weights that are no larger, but for one that grew by d.
Bumped(v, w, n, j, d) == \A k \in 1 .. n : v[k] <= w[k] + (IF k = j THEN d ELSE 0)

LEMMA SumBump ==
    ASSUME NEW n \in Nat, NEW w \in [1 .. n -> Nat], NEW v \in [1 .. n -> Nat],
           NEW j \in Nat, NEW d \in Nat, Bumped(v, w, n, j, d)
    PROVE  SumOf(v, n) \in Nat /\ SumOf(w, n) \in Nat /\ SumOf(v, n) <= SumOf(w, n) + d
<1>1. PICK p : Sums(p, w, n) /\ SumOf(w, n) = p[n]
  BY SumExist
<1>2. PICK q : Sums(q, v, n) /\ SumOf(v, n) = q[n]
  BY SumExist
<1> DEFINE S == {k \in 0 .. n : q[k] <= p[k] + (IF k < j THEN 0 ELSE d)}
<1>3. 0 \in S
  BY <1>1, <1>2 DEF Sums
<1>4. ASSUME NEW k \in 0 .. n - 1, k \in S PROVE k + 1 \in S
  <2>1. k + 1 \in 1 .. n /\ (k + 1) - 1 = k /\ k + 1 \in 0 .. n /\ k \in 0 .. n
    OBVIOUS
  <2>2. PICK a, b, x, y \in Nat : a = p[k] /\ b = q[k] /\ x = w[k + 1] /\ y = v[k + 1]
    BY <1>1, <1>2, <2>1 DEF Sums
  <2>3. p[k + 1] = a + x /\ q[k + 1] = b + y
    BY <1>1, <1>2, <2>1, <2>2 DEF Sums
  <2>4. b <= a + (IF k < j THEN 0 ELSE d) /\ y <= x + (IF k + 1 = j THEN d ELSE 0)
    BY <1>4, <2>1, <2>2 DEF Bumped
  <2>5. b + y <= a + x + (IF k + 1 < j THEN 0 ELSE d)
    BY ONLY <2>4, j \in Nat, d \in Nat, k \in Int, a \in Nat, b \in Nat, x \in Nat, y \in Nat
  <2> QED BY <2>1, <2>3, <2>5
<1> HIDE DEF S
<1>5. \A k \in 0 .. n : k \in S
  BY <1>3, <1>4, UpToInduction
<1>6. p[n] \in Nat /\ q[n] \in Nat /\ q[n] <= p[n] + (IF n < j THEN 0 ELSE d)
  BY <1>1, <1>2, <1>5 DEF S, Sums
<1> QED BY <1>1, <1>2, <1>6

\* One more weight at the end.
LEMMA SumPush ==
    ASSUME NEW n \in Nat, NEW w \in [1 .. n -> Nat], NEW v \in [1 .. n + 1 -> Nat],
           \A k \in 1 .. n : v[k] <= w[k]
    PROVE  /\ SumOf(v, n + 1) \in Nat /\ SumOf(w, n) \in Nat
           /\ SumOf(v, n + 1) <= SumOf(w, n) + v[n + 1]
<1>1. PICK p : Sums(p, w, n) /\ SumOf(w, n) = p[n]
  BY SumExist
<1>2. PICK q : Sums(q, v, n + 1) /\ SumOf(v, n + 1) = q[n + 1]
  BY SumExist
<1> DEFINE S == {k \in 0 .. n : q[k] <= p[k]}
<1>3. 0 \in S
  BY <1>1, <1>2 DEF Sums
<1>4. ASSUME NEW k \in 0 .. n - 1, k \in S PROVE k + 1 \in S
  <2>1. k + 1 \in 1 .. n /\ (k + 1) - 1 = k /\ k + 1 \in 0 .. n /\ k \in 0 .. n /\ k + 1 \in 1 .. n + 1
        /\ k \in 0 .. n + 1
    OBVIOUS
  <2>2. PICK a, b, x, y \in Nat : a = p[k] /\ b = q[k] /\ x = w[k + 1] /\ y = v[k + 1]
    BY <1>1, <1>2, <2>1 DEF Sums
  <2>3. p[k + 1] = a + x /\ q[k + 1] = b + y
    BY <1>1, <1>2, <2>1, <2>2 DEF Sums
  <2>4. b <= a /\ y <= x
    BY <1>4, <2>1, <2>2
  <2>5. b + y <= a + x
    BY ONLY <2>4, a \in Nat, b \in Nat, x \in Nat, y \in Nat
  <2> QED BY <2>1, <2>3, <2>5
<1> HIDE DEF S
<1>5. \A k \in 0 .. n : k \in S
  BY <1>3, <1>4, UpToInduction
<1>6. n + 1 \in 1 .. n + 1 /\ (n + 1) - 1 = n /\ n \in 0 .. n + 1 /\ n \in 0 .. n
  OBVIOUS
<1>7. p[n] \in Nat /\ q[n] \in Nat /\ q[n] <= p[n] /\ v[n + 1] \in Nat /\ q[n + 1] = q[n] + v[n + 1]
  BY <1>1, <1>2, <1>5, <1>6 DEF S, Sums
<1> QED BY <1>1, <1>2, <1>7

\* One weight less.
LEMMA SumDrop ==
    ASSUME NEW n \in Nat, NEW w \in [1 .. n + 1 -> Nat], NEW v \in [1 .. n -> Nat],
           NEW j \in 1 .. n + 1,
           \A k \in 1 .. n : (k < j => v[k] <= w[k]) /\ (k >= j => v[k] <= w[k + 1])
    PROVE  /\ SumOf(v, n) \in Nat /\ SumOf(w, n + 1) \in Nat
           /\ SumOf(v, n) + w[j] <= SumOf(w, n + 1)
<1>1. PICK p : Sums(p, w, n + 1) /\ SumOf(w, n + 1) = p[n + 1]
  BY SumExist
<1>2. PICK q : Sums(q, v, n) /\ SumOf(v, n) = q[n]
  BY SumExist
<1>0. PICK d \in Nat : d = w[j]
  OBVIOUS
<1> DEFINE S == {k \in 0 .. n : (k + 1 < j => q[k] <= p[k]) /\ (k + 1 >= j => q[k] + d <= p[k + 1])}
<1>3. 0 \in S
  <2>1. q[0] = 0 /\ p[0] = 0
    BY <1>1, <1>2 DEF Sums
  <2>3. 0 + 1 >= j => q[0] + d <= p[0 + 1]
    <3> SUFFICES ASSUME 0 + 1 >= j PROVE q[0] + d <= p[0 + 1]
      OBVIOUS
    <3>1. j = 1 /\ 1 \in 1 .. n + 1 /\ 1 - 1 = 0
      OBVIOUS
    <3>2. p[1] = 0 + w[1]
      BY <1>1, <2>1, <3>1 DEF Sums
    <3> QED BY <1>0, <2>1, <3>1, <3>2
  <2> QED BY <2>1, <2>3
<1>4. ASSUME NEW k \in 0 .. n - 1, k \in S PROVE k + 1 \in S
  <2>1. k + 1 \in 1 .. n /\ (k + 1) - 1 = k /\ k + 1 \in 0 .. n /\ k \in 0 .. n /\ k + 1 \in 1 .. n + 1
        /\ k + 2 \in 1 .. n + 1 /\ (k + 2) - 1 = k + 1 /\ k + 1 \in 0 .. n + 1 /\ k \in 0 .. n + 1
        /\ (k + 1) + 1 = k + 2 /\ k \in Int
    OBVIOUS
  <2>2. PICK b, y \in Nat : b = q[k] /\ y = v[k + 1] /\ q[k + 1] = b + y
    <3>1. q[k] \in Nat /\ v[k + 1] \in Nat /\ q[k + 1] = q[k] + v[k + 1]
      BY <1>2, <2>1 DEF Sums
    <3> QED BY <3>1
  <2>3. PICK a, c, x, z \in Nat : /\ a = p[k] /\ c = p[k + 1] /\ x = w[k + 1] /\ z = w[k + 2]
                                  /\ c = a + x /\ p[k + 2] = c + z
    <3>1. p[k] \in Nat /\ p[k + 1] \in Nat /\ w[k + 1] \in Nat /\ w[k + 2] \in Nat
          /\ p[k + 1] = p[k] + w[k + 1] /\ p[k + 2] = p[k + 1] + w[k + 2]
      BY <1>1, <2>1 DEF Sums
    <3> QED BY <3>1
  <2>4. /\ k + 1 < j => b <= a /\ y <= x
        /\ k + 1 >= j => b + d <= c /\ y <= z
        /\ k + 2 = j => z = d
    <3>1. (k + 1 < j => b <= a) /\ (k + 1 >= j => b + d <= c)
      BY <1>4, <2>2, <2>3
    <3>2. (k + 1 < j => y <= x) /\ (k + 1 >= j => y <= z)
      BY <2>1, <2>2, <2>3
    <3>3. k + 2 = j => z = d
      BY <1>0, <2>3
    <3> QED BY <3>1, <3>2, <3>3
  <2>5. /\ k + 2 < j => b + y <= c
        /\ k + 2 >= j => b + y + d <= c + z
    <3>0. c = a + x /\ j \in Int /\ k \in Int
      BY <2>1, <2>3
    <3>1. CASE k + 1 >= j
      <4>1. b + d <= c /\ y <= z
        BY <2>4, <3>1
      <4>2. b + y + d <= c + z
        BY ONLY <4>1, b \in Nat, c \in Nat, d \in Nat, y \in Nat, z \in Nat
      <4> QED BY <3>0, <3>1, <4>2
    <3>2. CASE k + 2 < j
      <4>1. b <= a /\ y <= x
        BY <2>4, <3>0, <3>2
      <4>2. b + y <= c
        BY ONLY <3>0, <4>1, a \in Nat, b \in Nat, c \in Nat, x \in Nat, y \in Nat
      <4> QED BY <3>0, <3>2, <4>2
    <3>3. CASE k + 2 = j
      <4>1. b <= a /\ y <= x /\ z = d
        BY <2>4, <3>0, <3>3
      <4>2. b + y + d <= c + z
        BY ONLY <3>0, <4>1, a \in Nat, b \in Nat, c \in Nat, d \in Nat, x \in Nat, y \in Nat, z \in Nat
      <4> QED BY <3>0, <3>3, <4>2
    <3> QED BY <3>0, <3>1, <3>2, <3>3
  <2> QED BY <2>1, <2>2, <2>3, <2>5
<1> HIDE DEF S
<1>5. \A k \in 0 .. n : k \in S
  BY <1>3, <1>4, UpToInduction
<1>6. p[n + 1] \in Nat /\ q[n] \in Nat /\ q[n] + d <= p[n + 1]
  <2>1. n + 1 >= j /\ n \in 0 .. n /\ n + 1 \in 0 .. n + 1
    OBVIOUS
  <2> QED BY <1>1, <1>2, <1>5, <2>1 DEF S, Sums
<1> QED BY <1>0, <1>1, <1>2, <1>6

----------------------------------------------------------------------------
(* One more tag at the end of a log.                                       *)

LEMMA OneMore ==
    ASSUME NEW s \in Seq(Tags), NEW t \in Tags
    PROVE  /\ s \o <<t>> \in Seq(Tags) /\ Len(s \o <<t>>) = Len(s) + 1
           /\ (s \o <<t>>)[Len(s) + 1] = t
           /\ \A k \in 1 .. Len(s) : (s \o <<t>>)[k] = s[k]
OBVIOUS

LEMMA BytesMore ==
    ASSUME NEW s \in Seq(Tags), NEW t \in Tags
    PROVE  Bytes(s \o <<t>>) = Bytes(s) + (TAG + Length[t.body])
BY BytesConcat, BytesOne

LEMMA GatherMore ==
    ASSUME NEW s \in Seq(Tags), NEW t \in Tags
    PROVE  Gather(s \o <<t>>) = GatherStep(Gather(s), t)
<1> DEFINE n == Len(s)
           u == s \o <<t>>
<1>0. n \in Nat /\ u \in Seq(Tags) /\ Len(u) = n + 1 /\ u[n + 1] = t /\ \A k \in 1 .. n : u[k] = s[k]
  BY OneMore
<1>1. PICK g \in [0 .. n -> Walks] :
         /\ g[0] = Start /\ \A k \in 1 .. n : g[k] = GatherStep(g[k - 1], s[k])
         /\ Gather(s) = g[n]
  BY GatherExist
<1>2. PICK f \in [0 .. n + 1 -> Walks] :
         /\ f[0] = Start /\ \A k \in 1 .. n + 1 : f[k] = GatherStep(f[k - 1], u[k])
         /\ Gather(u) = f[n + 1]
  BY <1>0, GatherExist
<1> HIDE DEF n, u
<1> DEFINE S == {k \in 0 .. n : f[k] = g[k]}
<1>3. 0 \in S
  BY <1>0, <1>1, <1>2
<1>4. ASSUME NEW k \in 0 .. n - 1, k \in S PROVE k + 1 \in S
  <2>1. k + 1 \in 1 .. n /\ (k + 1) - 1 = k /\ k + 1 \in 0 .. n /\ k + 1 \in 1 .. n + 1
    BY <1>0
  <2>2. f[k + 1] = GatherStep(f[(k + 1) - 1], u[k + 1])
    BY <1>2, <2>1
  <2>3. g[k + 1] = GatherStep(g[(k + 1) - 1], s[k + 1])
    BY <1>1, <2>1
  <2>4. f[k] = g[k] /\ u[k + 1] = s[k + 1]
    BY <1>0, <1>4, <2>1
  <2> QED BY <2>1, <2>2, <2>3, <2>4
<1> HIDE DEF S
<1>5. \A k \in 0 .. n : k \in S
  BY <1>0, <1>3, <1>4, UpToInduction
<1>6. f[n] = g[n]
  BY <1>0, <1>5 DEF S
<1>7. n + 1 \in 1 .. n + 1 /\ (n + 1) - 1 = n
  BY <1>0
<1>8. f[n + 1] = GatherStep(f[(n + 1) - 1], u[n + 1])
  BY <1>2, <1>7
<1> QED BY <1>0, <1>1, <1>2, <1>6, <1>7, <1>8 DEF u

\* A walk that failed stays failed.
LEMMA GatherSound ==
    ASSUME NEW s \in Seq(Tags), NEW u \in Seq(Tags), Gather(s \o u).error = None
    PROVE  Gather(s).error = None
<1> DEFINE X == {x \in Seq(Tags) : Gather(s \o x).error = None => Gather(s).error = None}
<1>1. <<>> \in X
  <2>1. s \o <<>> = s
    OBVIOUS
  <2> QED BY <2>1
<1>2. ASSUME NEW x \in Seq(Tags), NEW e \in Tags, x \in X PROVE x \o <<e>> \in X
  <2>1. s \o (x \o <<e>>) = (s \o x) \o <<e>> /\ s \o x \in Seq(Tags) /\ x \o <<e>> \in Seq(Tags)
    OBVIOUS
  <2>2. Gather(s \o (x \o <<e>>)) = GatherStep(Gather(s \o x), e)
    BY <2>1, GatherMore
  <2>3. Gather(s \o (x \o <<e>>)).error = None => Gather(s \o x).error = None
    BY <2>2 DEF GatherStep
  <2> QED BY <1>2, <2>1, <2>3
<1> HIDE DEF X
<1>3. \A x \in Seq(Tags) : x \in X
  BY <1>1, <1>2, SeqInduction
<1> QED BY <1>3 DEF X

----------------------------------------------------------------------------
(* One more tag, and the walk back for attributes: it comes first.         *)

\* Walk a is where walk b is, having found p before; or it is over, with p.
Tracks(a, b, p, over) ==
    IF over = "yes" THEN a.done /\ a.found = p
    ELSE a.done = b.done /\ Adj(a) = Adj(b) /\ a.found = p \o b.found

AppendsBehind(p, c, e) == Append(p \o c, e) = p \o Append(c, e)

LEMMA AppendBehind ==
    ASSUME NEW S, NEW p \in Seq(S), NEW c \in Seq(S), NEW e \in S
    PROVE  AppendsBehind(p, c, e)
<1>1. PICK a \in Seq(S) : a = Append(p \o c, e) /\ Len(a) = Len(p) + Len(c) + 1
                         /\ \A i \in 1 .. Len(p) + Len(c) : a[i] = (p \o c)[i]
                         /\ a[Len(p) + Len(c) + 1] = e
  <2>1. p \o c \in Seq(S) /\ Len(p \o c) = Len(p) + Len(c)
    BY Joined
  <2>2. PICK b \in Seq(S) : b = p \o c
    BY <2>1
  <2>3. Append(b, e) \in Seq(S) /\ Len(Append(b, e)) = Len(b) + 1 /\ Append(b, e)[Len(b) + 1] = e
        /\ \A i \in 1 .. Len(b) : Append(b, e)[i] = b[i]
    OBVIOUS
  <2> QED BY <2>1, <2>2, <2>3
<1>2. PICK d \in Seq(S) : d = Append(c, e) /\ Len(d) = Len(c) + 1 /\ d[Len(c) + 1] = e
                         /\ \A i \in 1 .. Len(c) : d[i] = c[i]
  <2>1. Append(c, e) \in Seq(S) /\ Len(Append(c, e)) = Len(c) + 1 /\ Append(c, e)[Len(c) + 1] = e
        /\ \A i \in 1 .. Len(c) : Append(c, e)[i] = c[i]
    OBVIOUS
  <2> QED BY <2>1
<1>3. /\ p \o d \in Seq(S) /\ Len(p \o d) = Len(p) + Len(d)
      /\ \A j \in 1 .. Len(p) : (p \o d)[j] = p[j]
      /\ \A j \in 1 .. Len(d) : (p \o d)[Len(p) + j] = d[j]
  BY ConcatLaw
<1>4. /\ \A j \in 1 .. Len(p) : (p \o c)[j] = p[j]
      /\ \A j \in 1 .. Len(c) : (p \o c)[Len(p) + j] = c[j]
  BY ConcatLaw
<1>5. Len(p) \in Nat /\ Len(c) \in Nat
  OBVIOUS
<1>6. ASSUME NEW i \in 1 .. Len(p) + Len(c) + 1 PROVE a[i] = (p \o d)[i]
  <2>1. CASE i \in 1 .. Len(p)
    <3>1. i \in 1 .. Len(p) + Len(c)
      BY <1>5, <2>1
    <3> QED BY <1>1, <1>3, <1>4, <2>1, <3>1
  <2>2. CASE i \in Len(p) + 1 .. Len(p) + Len(c)
    <3>1. PICK j \in 1 .. Len(c) : i = Len(p) + j
      <4>1. i - Len(p) \in 1 .. Len(c) /\ i = Len(p) + (i - Len(p))
        BY <1>5, <2>2
      <4> QED BY <4>1
    <3>2. j \in 1 .. Len(d) /\ i \in 1 .. Len(p) + Len(c)
      BY <1>2, <1>5, <3>1
    <3>3. a[i] = (p \o c)[i]
      BY <1>1, <3>2
    <3> QED BY <1>2, <1>3, <1>4, <3>1, <3>2, <3>3
  <2>3. CASE i = Len(p) + Len(c) + 1
    <3>1. Len(c) + 1 \in 1 .. Len(d) /\ i = Len(p) + (Len(c) + 1)
      BY <1>2, <1>5, <2>3
    <3> QED BY <1>1, <1>2, <1>3, <2>3, <3>1
  <2>4. \/ i \in 1 .. Len(p) \/ i \in Len(p) + 1 .. Len(p) + Len(c) \/ i = Len(p) + Len(c) + 1
    <3>1. PICK x, y \in Nat : x = Len(p) /\ y = Len(c)
      BY <1>5
    <3>2. \A j \in 1 .. x + y + 1 : j \in 1 .. x \/ j \in x + 1 .. x + y \/ j = x + y + 1
      OBVIOUS
    <3> QED BY <3>1, <3>2
  <2> QED BY <2>1, <2>2, <2>3, <2>4
<1>7. Len(p \o d) = Len(a)
  BY <1>1, <1>2, <1>3, <1>5
<1>8. a = p \o d
  BY <1>1, <1>3, <1>6, <1>7, SeqEqual
<1> QED BY <1>1, <1>2, <1>8 DEF AppendsBehind

LEMMA TracksStep ==
    ASSUME NEW a \in AttrWalks, NEW b \in AttrWalks, NEW p \in Seq(Attributes), NEW over \in {"no", "yes"},
           Tracks(a, b, p, over), NEW t \in Tags
    PROVE  Tracks(AttrStep(a, t), AttrStep(b, t), p, over)
<1>0. /\ t.id \in Nat /\ a.id \in Nat /\ b.id \in Nat /\ a.gdiff \in Int /\ b.gdiff \in Int
      /\ Adj(a) = a.id - a.gdiff /\ Adj(b) = b.id - b.gdiff
      /\ a.found \in Seq(Attributes) /\ b.found \in Seq(Attributes)
  BY DEF AttrWalks, Tags, Adj
<1>1. CASE over = "yes"
  BY <1>1 DEF Tracks, AttrStep
<1>2. CASE over = "no"
  <2>0. a.done = b.done /\ Adj(a) = Adj(b) /\ a.found = p \o b.found
    BY <1>2 DEF Tracks
  <2>1. CASE a.done \/ t.id > Adj(a)
    <3>1. AttrStep(a, t) = a /\ AttrStep(b, t) = b
      BY <2>0, <2>1 DEF AttrStep
    <3> QED BY <3>1
  <2>2. CASE ~(a.done \/ t.id > Adj(a))
    <3>0. t.id = Adj(a) \/ t.id < Adj(a)
      BY <1>0, <2>2
    <3>1. CASE t.type = "create" /\ t.id = Adj(a)
      <4>1. AttrStep(a, t) = [a EXCEPT !.done = TRUE] /\ AttrStep(b, t) = [b EXCEPT !.done = TRUE]
        BY <2>0, <2>2, <3>1 DEF AttrStep
      <4> QED BY <1>0, <1>2, <2>0, <4>1 DEF Tracks, Adj, AttrWalks
    <3>2. CASE t.type = "create" /\ t.id < Adj(a)
      <4>1. /\ AttrStep(a, t) = [a EXCEPT !.gdiff = a.gdiff + 1]
            /\ AttrStep(b, t) = [b EXCEPT !.gdiff = b.gdiff + 1]
        BY <1>0, <2>0, <2>2, <3>2 DEF AttrStep
      <4> QED BY <1>0, <1>2, <2>0, <4>1 DEF Tracks, Adj, AttrWalks
    <3>3. CASE t.type = "delete"
      <4>1. /\ AttrStep(a, t) = [a EXCEPT !.gdiff = a.gdiff - 1]
            /\ AttrStep(b, t) = [b EXCEPT !.gdiff = b.gdiff - 1]
        BY <2>0, <2>2, <3>3 DEF AttrStep
      <4> QED BY <1>0, <1>2, <2>0, <4>1 DEF Tracks, Adj, AttrWalks
    <3>4. CASE t.type = "attr" /\ t.id = Adj(a)
      <4>1. /\ AttrStep(a, t) = [a EXCEPT !.found = Append(a.found, t)]
            /\ AttrStep(b, t) = [b EXCEPT !.found = Append(b.found, t)]
        BY <2>0, <2>2, <3>4 DEF AttrStep
      <4>2. t \in Attributes
        BY <3>4 DEF Attributes
      <4>3. PICK c \in Seq(Attributes) : c = b.found
        BY <1>0
      <4>4. Append(p \o c, t) = p \o Append(c, t)
        <5>1. AppendsBehind(p, c, t)
          BY <4>2, AppendBehind
        <5> QED BY <5>1 DEF AppendsBehind
      <4> QED BY <1>0, <1>2, <2>0, <4>1, <4>3, <4>4 DEF Tracks, Adj, AttrWalks
    <3>5. CASE t.type \notin {"create", "delete"} /\ ~(t.type = "attr" /\ t.id = Adj(a))
      <4>1. AttrStep(a, t) = a /\ AttrStep(b, t) = b
        BY <2>0, <2>2, <3>5 DEF AttrStep
      <4> QED BY <4>1
    <3> QED BY <3>0, <3>1, <3>2, <3>3, <3>4, <3>5
  <2> QED BY <2>1, <2>2
<1> QED BY <1>1, <1>2

\* The walk for id in the longer log, once past the new tag, tracks the walk
\* for old in the shorter one.
AttrsFrom(s, t, id, old, p, over) ==
    /\ over = "yes" => AttrTags(s \o <<t>>, id) = p
    /\ over = "no" => AttrTags(s \o <<t>>, id) = p \o AttrTags(s, old)

LEMMA AttrTracks ==
    ASSUME NEW s \in Seq(Tags), NEW t \in Tags, NEW id \in Nat, NEW old \in Nat,
           NEW p \in Seq(Attributes), NEW over \in {"no", "yes"},
           Tracks(AttrStep(AttrStart(id), t), AttrStart(old), p, over)
    PROVE  AttrsFrom(s, t, id, old, p, over)
<1> DEFINE n == Len(s)
           u == s \o <<t>>
           rs == Reverse(s)
           ru == Reverse(u)
<1>0. n \in Nat /\ u \in Seq(Tags) /\ Len(u) = n + 1 /\ u[n + 1] = t /\ \A k \in 1 .. n : u[k] = s[k]
  BY OneMore
<1>1. /\ rs \in Seq(Tags) /\ Len(rs) = n /\ ru \in Seq(Tags) /\ Len(ru) = n + 1
      /\ ru[1] = t /\ \A k \in 1 .. n : ru[k + 1] = rs[k]
  <2>1. rs \in Seq(Tags) /\ Len(rs) = n /\ ru \in Seq(Tags) /\ Len(ru) = n + 1
    BY <1>0, ReverseType
  <2>2. ru[1] = u[((n + 1) - 1) + 1]
    BY <1>0 DEF Reverse
  <2>3. ASSUME NEW k \in 1 .. n PROVE ru[k + 1] = rs[k]
    <3>1. ru[k + 1] = u[((n + 1) - (k + 1)) + 1] /\ rs[k] = s[(n - k) + 1]
      BY <1>0 DEF Reverse
    <3>2. ((n + 1) - (k + 1)) + 1 = (n - k) + 1 /\ (n - k) + 1 \in 1 .. n
      BY <1>0
    <3> QED BY <1>0, <3>1, <3>2
  <2>4. ((n + 1) - 1) + 1 = n + 1
    BY <1>0
  <2> QED BY <1>0, <2>1, <2>2, <2>3, <2>4
<1>2. PICK g \in [0 .. n -> AttrWalks] :
         /\ g[0] = AttrStart(old) /\ \A k \in 1 .. n : g[k] = AttrStep(g[k - 1], rs[k])
         /\ Fold(AttrStep, AttrStart(old), rs) = g[n]
  <2>1. \E h \in [0 .. Len(Reverse(s)) -> AttrWalks] :
         /\ h[0] = AttrStart(old)
         /\ \A k \in 1 .. Len(Reverse(s)) : h[k] = AttrStep(h[k - 1], Reverse(s)[k])
         /\ Fold(AttrStep, AttrStart(old), Reverse(s)) = h[Len(Reverse(s))]
    BY AttrWalkExist
  <2> QED BY <1>1, <2>1
<1>3. PICK f \in [0 .. n + 1 -> AttrWalks] :
         /\ f[0] = AttrStart(id) /\ \A k \in 1 .. n + 1 : f[k] = AttrStep(f[k - 1], ru[k])
         /\ Fold(AttrStep, AttrStart(id), ru) = f[n + 1]
  <2>1. \E h \in [0 .. Len(Reverse(u)) -> AttrWalks] :
         /\ h[0] = AttrStart(id)
         /\ \A k \in 1 .. Len(Reverse(u)) : h[k] = AttrStep(h[k - 1], Reverse(u)[k])
         /\ Fold(AttrStep, AttrStart(id), Reverse(u)) = h[Len(Reverse(u))]
    <3> HIDE DEF u
    <3> QED BY <1>0, AttrWalkExist
  <2> QED BY <1>1, <2>1
<1>4. AttrTags(s, old) = g[n].found /\ AttrTags(u, id) = f[n + 1].found
  BY <1>2, <1>3 DEF AttrTags, AttrStart
<1> HIDE DEF n, u, rs, ru
<1> DEFINE S == {k \in 0 .. n : Tracks(f[k + 1], g[k], p, over)}
<1>5. 0 \in S
  <2>1. 1 \in 1 .. n + 1 /\ 1 - 1 = 0 /\ 0 + 1 = 1
    BY <1>0
  <2>2. f[1] = AttrStep(f[1 - 1], ru[1])
    BY <1>3, <2>1
  <2> QED BY <1>0, <1>1, <1>2, <1>3, <2>1, <2>2
<1>6. ASSUME NEW k \in 0 .. n - 1, k \in S PROVE k + 1 \in S
  <2>1. /\ k + 1 \in 1 .. n /\ (k + 1) - 1 = k /\ k + 1 \in 0 .. n /\ (k + 1) + 1 \in 1 .. n + 1
        /\ ((k + 1) + 1) - 1 = k + 1 /\ k \in 0 .. n /\ k + 1 \in 0 .. n + 1
    BY <1>0
  <2>2. f[(k + 1) + 1] = AttrStep(f[k + 1], ru[(k + 1) + 1])
    BY <1>3, <2>1
  <2>3. g[k + 1] = AttrStep(g[k], rs[k + 1])
    BY <1>2, <2>1
  <2>4. ru[(k + 1) + 1] = rs[k + 1] /\ rs[k + 1] \in Tags
    BY <1>1, <2>1
  <2>5. f[k + 1] \in AttrWalks /\ g[k] \in AttrWalks /\ Tracks(f[k + 1], g[k], p, over)
    BY <1>2, <1>3, <1>6, <2>1
  <2>6. Tracks(f[(k + 1) + 1], g[k + 1], p, over)
    BY <2>2, <2>3, <2>4, <2>5, TracksStep
  <2> QED BY <2>1, <2>6
<1> HIDE DEF S
<1>7. \A k \in 0 .. n : k \in S
  BY <1>0, <1>5, <1>6, UpToInduction
<1>8. Tracks(f[n + 1], g[n], p, over)
  BY <1>0, <1>7 DEF S
<1> QED BY <1>4, <1>8 DEF Tracks, u, AttrsFrom

\* What one more tag does to the attributes of entry id.
LEMMA AttrMore ==
    ASSUME NEW s \in Seq(Tags), NEW t \in Tags, NEW id \in Nat
    PROVE  /\ t.id > id => AttrTags(s \o <<t>>, id) = AttrTags(s, id)
           /\ t.type \notin {"create", "delete", "attr"} => AttrTags(s \o <<t>>, id) = AttrTags(s, id)
           /\ t.type = "attr" /\ t.id # id => AttrTags(s \o <<t>>, id) = AttrTags(s, id)
           /\ t.type = "attr" /\ t.id = id => AttrTags(s \o <<t>>, id) = <<t>> \o AttrTags(s, id)
           /\ t.type = "create" /\ t.id = id => AttrTags(s \o <<t>>, id) = <<>>
           /\ t.type = "delete" /\ t.id <= id => AttrTags(s \o <<t>>, id) = AttrTags(s, id + 1)
<1>0. /\ t.id \in Nat /\ AttrStart(id) \in AttrWalks /\ ~AttrStart(id).done /\ Adj(AttrStart(id)) = id
      /\ AttrStart(id).found = <<>> /\ AttrStart(id).gdiff = 0 /\ AttrStart(id).id = id
  BY DEF AttrStart, AttrWalks, Tags, Adj
<1>1. <<>> \in Seq(Attributes) /\ AttrTags(s, id) \in Seq(Attributes) /\ id + 1 \in Nat
      /\ AttrTags(s, id + 1) \in Seq(Attributes) /\ "no" \in {"no", "yes"} /\ "yes" \in {"no", "yes"}
  BY AttrTagsType
<1>2. <<>> \o AttrTags(s, id) = AttrTags(s, id) /\ <<>> \o AttrTags(s, id + 1) = AttrTags(s, id + 1)
  BY <1>1
<1>3. ASSUME AttrStep(AttrStart(id), t) = AttrStart(id)
      PROVE  AttrTags(s \o <<t>>, id) = AttrTags(s, id)
  <2>1. Tracks(AttrStep(AttrStart(id), t), AttrStart(id), <<>>, "no")
    BY <1>0, <1>3 DEF Tracks
  <2>2. AttrTags(s \o <<t>>, id) = <<>> \o AttrTags(s, id)
    <3>1. AttrsFrom(s, t, id, id, <<>>, "no")
      BY <1>1, <2>1, AttrTracks
    <3> QED BY <3>1 DEF AttrsFrom
  <2> QED BY <1>2, <2>2
<1>4. CASE t.id > id
  <2>1. AttrStep(AttrStart(id), t) = AttrStart(id)
    BY <1>0, <1>4 DEF AttrStep
  <2> QED BY <1>0, <1>3, <1>4, <2>1
<1>5. CASE t.id <= id /\ t.type \notin {"create", "delete", "attr"}
  <2>1. AttrStep(AttrStart(id), t) = AttrStart(id)
    BY <1>0, <1>5 DEF AttrStep
  <2> QED BY <1>3, <1>5, <2>1
<1>6. CASE t.id < id /\ t.type = "attr"
  <2>1. AttrStep(AttrStart(id), t) = AttrStart(id)
    BY <1>0, <1>6 DEF AttrStep
  <2> QED BY <1>0, <1>3, <1>6, <2>1
<1>7. CASE t.id = id /\ t.type = "attr"
  <2>1. AttrStep(AttrStart(id), t) = [AttrStart(id) EXCEPT !.found = Append(AttrStart(id).found, t)]
    BY <1>0, <1>7 DEF AttrStep
  <2>2. t \in Attributes /\ <<t>> \in Seq(Attributes)
    BY <1>7 DEF Attributes
  <2>3. Append(AttrStart(id).found, t) = <<t>> \o AttrStart(id).found
    BY <1>0, <2>2
  <2>4. Tracks(AttrStep(AttrStart(id), t), AttrStart(id), <<t>>, "no")
    BY <1>0, <2>1, <2>3 DEF Tracks, AttrWalks, Adj
  <2>5. AttrTags(s \o <<t>>, id) = <<t>> \o AttrTags(s, id)
    <3>1. AttrsFrom(s, t, id, id, <<t>>, "no")
      BY <1>1, <2>2, <2>4, AttrTracks
    <3> QED BY <3>1 DEF AttrsFrom
  <2> QED BY <1>0, <1>7, <2>5
<1>8. CASE t.id <= id /\ t.type = "create"
  <2>1. CASE t.id = id
    <3>1. AttrStep(AttrStart(id), t) = [AttrStart(id) EXCEPT !.done = TRUE]
      BY <1>0, <1>8, <2>1 DEF AttrStep
    <3>2. Tracks(AttrStep(AttrStart(id), t), AttrStart(id), <<>>, "yes")
      BY <1>0, <3>1 DEF Tracks, AttrWalks
    <3>3. AttrTags(s \o <<t>>, id) = <<>>
      <4>1. AttrsFrom(s, t, id, id, <<>>, "yes")
        BY <1>1, <3>2, AttrTracks
      <4> QED BY <4>1 DEF AttrsFrom
    <3> QED BY <1>0, <1>8, <2>1, <3>3
  <2>2. CASE t.id # id
    BY <1>0, <1>8, <2>2
  <2> QED BY <2>1, <2>2
<1>9. CASE t.id <= id /\ t.type = "delete"
  <2>1. AttrStep(AttrStart(id), t) = [AttrStart(id) EXCEPT !.gdiff = AttrStart(id).gdiff - 1]
    BY <1>0, <1>9 DEF AttrStep
  <2>2. Adj(AttrStep(AttrStart(id), t)) = id - (0 - 1) /\ Adj(AttrStart(id + 1)) = (id + 1) - 0
    BY <1>0, <2>1 DEF Adj, AttrStart
  <2>3. Tracks(AttrStep(AttrStart(id), t), AttrStart(id + 1), <<>>, "no")
    <3>1. /\ AttrStart(id + 1).done = FALSE /\ AttrStart(id + 1).found = <<>>
          /\ AttrStep(AttrStart(id), t).found = <<>> /\ AttrStep(AttrStart(id), t).done = FALSE
      BY <1>0, <2>1 DEF AttrStart
    <3>2. <<>> \o <<>> = <<>>
      OBVIOUS
    <3>3. Adj(AttrStep(AttrStart(id), t)) = Adj(AttrStart(id + 1))
      BY <2>2
    <3>4. PICK a, b : a = AttrStep(AttrStart(id), t) /\ b = AttrStart(id + 1)
      OBVIOUS
    <3>5. a.done = b.done /\ Adj(a) = Adj(b) /\ a.found = <<>> \o b.found
      <4>1. a.done = b.done
        BY <3>1, <3>4
      <4>2. Adj(a) = Adj(b)
        BY <3>3, <3>4
      <4>3. a.found = <<>> /\ b.found = <<>>
        BY <3>1, <3>4
      <4> QED BY <3>2, <4>1, <4>2, <4>3
    <3>6. Tracks(a, b, <<>>, "no")
      BY <3>5 DEF Tracks
    <3> QED BY <3>4, <3>6
  <2>4. AttrTags(s \o <<t>>, id) = <<>> \o AttrTags(s, id + 1)
    <3>1. AttrsFrom(s, t, id, id + 1, <<>>, "no")
      BY <1>1, <2>3, AttrTracks
    <3> QED BY <3>1 DEF AttrsFrom
  <2> QED BY <1>0, <1>2, <1>9, <2>4
<1> QED BY <1>0, <1>4, <1>5, <1>6, <1>7, <1>8, <1>9

LEMMA LiveAttrsEmpty == LiveAttrs(<<>>) = <<>>
<1>1. <<>> \in Seq(Attributes) /\ Len(Indices(<<>>)) = 0
  BY DEF Indices
<1> QED BY <1>1, LiveAttrsExist

\* A newer attribute hides at most older ones.
LEMMA LiveAttrsMore ==
    ASSUME NEW found \in Seq(Attributes), NEW t \in Attributes
    PROVE  Bytes(LiveAttrs(<<t>> \o found)) <= Bytes(LiveAttrs(found)) + (TAG + Length[t.body])
<1> DEFINE n == Len(found)
           more == <<t>> \o found
<1>0. /\ n \in Nat /\ more \in Seq(Attributes) /\ Len(more) = n + 1 /\ more[1] = t
      /\ \A k \in 1 .. n : more[k + 1] = found[k]
  OBVIOUS
<1>1. /\ Len(Indices(found)) = n /\ \A k \in 1 .. n : Indices(found)[k] = k
      /\ Len(Indices(more)) = n + 1 /\ \A k \in 1 .. n + 1 : Indices(more)[k] = k
  BY <1>0 DEF Indices
<1> HIDE DEF n, more
<1>2. PICK g \in [0 .. n -> Seq(Attributes)] :
         /\ g[0] = <<>> /\ \A k \in 1 .. n : g[k] = KeepNewest(found, g[k - 1], k)
         /\ LiveAttrs(found) = g[n]
  BY <1>1, LiveAttrsExist
<1>3. PICK f \in [0 .. n + 1 -> Seq(Attributes)] :
         /\ f[0] = <<>> /\ \A k \in 1 .. n + 1 : f[k] = KeepNewest(more, f[k - 1], k)
         /\ LiveAttrs(more) = f[n + 1]
  <2>1. \E h \in [0 .. Len(Indices(more)) -> Seq(Attributes)] :
         /\ h[0] = <<>>
         /\ \A k \in 1 .. Len(Indices(more)) : h[k] = KeepNewest(more, h[k - 1], Indices(more)[k])
         /\ LiveAttrs(more) = h[Len(Indices(more))]
    BY <1>0, LiveAttrsExist
  <2> QED BY <1>1, <2>1
<1>4. PICK c \in Nat : c = TAG + Length[t.body]
  BY TagBytes DEF Attributes
<1>5. \A x \in Seq(Attributes), e \in Attributes :
         /\ Append(x, e) \in Seq(Attributes) /\ Bytes(x) \in Nat /\ TAG + Length[e.body] \in Nat
         /\ Bytes(Append(x, e)) = Bytes(x) + (TAG + Length[e.body])
  <2> SUFFICES ASSUME NEW x \in Seq(Attributes), NEW e \in Attributes
               PROVE  /\ Append(x, e) \in Seq(Attributes) /\ Bytes(x) \in Nat
                      /\ TAG + Length[e.body] \in Nat
                      /\ Bytes(Append(x, e)) = Bytes(x) + (TAG + Length[e.body])
    OBVIOUS
  <2>1. x \in Seq(Tags) /\ e \in Tags
    BY AttributesAreTags
  <2>2. Append(x, e) = x \o <<e>>
    BY <2>1
  <2> QED BY <2>1, <2>2, BytesMore, BytesNat, TagBytes
<1> DEFINE S == {k \in 0 .. n : Bytes(f[k + 1]) <= Bytes(g[k]) + c}
<1>6. 0 \in S
  <2>1. 1 \in 1 .. n + 1 /\ 1 - 1 = 0 /\ 0 + 1 = 1 /\ 0 \in 0 .. n
    BY <1>0
  <2>2. f[1] = KeepNewest(more, f[0], 1)
    BY <1>3, <2>1
  <2>3. f[1] = f[0] \/ f[1] = Append(f[0], t)
    BY <1>0, <2>2 DEF KeepNewest
  <2>4. f[0] \in Seq(Attributes) /\ f[0] = g[0] /\ Bytes(f[0]) = 0
    BY <1>2, <1>3, BytesEmpty
  <2>5. Bytes(f[1]) <= Bytes(g[0]) + c
    <3>1. Bytes(Append(f[0], t)) = 0 + (TAG + Length[t.body])
      BY <1>5, <2>4
    <3>2. Bytes(f[1]) = 0 \/ Bytes(f[1]) = 0 + c
      BY <1>4, <2>3, <2>4, <3>1
    <3>3. Bytes(g[0]) = 0
      BY <2>4
    <3> QED BY <3>2, <3>3
  <2> QED BY <2>1, <2>5
<1>7. ASSUME NEW k \in 0 .. n - 1, k \in S PROVE k + 1 \in S
  <2>1. /\ k + 1 \in 1 .. n /\ (k + 1) - 1 = k /\ k + 1 \in 0 .. n /\ (k + 1) + 1 \in 1 .. n + 1
        /\ ((k + 1) + 1) - 1 = k + 1 /\ k \in 0 .. n /\ k + 1 \in 0 .. n + 1
    BY <1>0
  <2>2. f[(k + 1) + 1] = KeepNewest(more, f[k + 1], (k + 1) + 1)
    BY <1>3, <2>1
  <2>3. g[k + 1] = KeepNewest(found, g[k], k + 1)
    BY <1>2, <2>1
  <2>4. PICK e \in Attributes : e = found[k + 1] /\ e = more[(k + 1) + 1]
    BY <1>0, <2>1 DEF n
  <2>5. (k + 1) + 1 \in Newest(more) => k + 1 \in Newest(found)
    <3> SUFFICES ASSUME (k + 1) + 1 \in Newest(more) PROVE k + 1 \in Newest(found)
      OBVIOUS
    <3>1. \A j \in 1 .. ((k + 1) + 1) - 1 : more[j].attr # more[(k + 1) + 1].attr
      BY DEF Newest
    <3>2. ASSUME NEW j \in 1 .. (k + 1) - 1 PROVE found[j].attr # found[k + 1].attr
      <4>1. j + 1 \in 1 .. ((k + 1) + 1) - 1 /\ j \in 1 .. n
        BY <1>0, <2>1
      <4>2. more[j + 1] = found[j]
        BY <1>0, <4>1
      <4> QED BY <2>4, <3>1, <4>1, <4>2
    <3>3. k + 1 \in DOMAIN found
      BY <2>1 DEF n
    <3> QED BY <3>2, <3>3 DEF Newest
  <2>6. f[k + 1] \in Seq(Attributes) /\ g[k] \in Seq(Attributes)
    BY <1>2, <1>3, <2>1
  <2>7. PICK a, b, d \in Nat : a = Bytes(f[k + 1]) /\ b = Bytes(g[k]) /\ d = TAG + Length[e.body]
    BY <1>5, <2>6
  <2>8. a <= b + c
    BY <1>7, <2>7
  <2>9. Bytes(f[(k + 1) + 1]) <= Bytes(g[k + 1]) + c
    <3>1. CASE (k + 1) + 1 \in Newest(more) /\ e.body # None
      <4>1. f[(k + 1) + 1] = Append(f[k + 1], e) /\ g[k + 1] = Append(g[k], e)
        BY <2>2, <2>3, <2>4, <2>5, <3>1 DEF KeepNewest
      <4>2. Bytes(f[(k + 1) + 1]) = a + d /\ Bytes(g[k + 1]) = b + d
        BY <1>5, <2>6, <2>7, <4>1
      <4> QED BY <2>8, <4>2
    <3>2. CASE ~((k + 1) + 1 \in Newest(more) /\ e.body # None)
      <4>1. f[(k + 1) + 1] = f[k + 1]
        BY <2>2, <2>4, <3>2 DEF KeepNewest
      <4>2. g[k + 1] = g[k] \/ g[k + 1] = Append(g[k], e)
        BY <2>3, <2>4 DEF KeepNewest
      <4>3. Bytes(g[k + 1]) = b \/ Bytes(g[k + 1]) = b + d
        BY <1>5, <2>6, <2>7, <4>2
      <4> QED BY <2>7, <2>8, <4>1, <4>3
    <3> QED BY <3>1, <3>2
  <2> QED BY <2>1, <2>9
<1> HIDE DEF S
<1>8. \A k \in 0 .. n : k \in S
  BY <1>0, <1>6, <1>7, UpToInduction
<1>9. Bytes(f[n + 1]) <= Bytes(g[n]) + c
  BY <1>0, <1>8 DEF S
<1> QED BY <1>2, <1>3, <1>4, <1>9 DEF more

----------------------------------------------------------------------------
(* What one more tag does to the slots.                                    *)

\* r begins with a, and b comes next.
Begins(r, a, b) == /\ \A i \in 1 .. Len(a) : r[i] = a[i]
                   /\ \A i \in 1 .. Len(b) : r[Len(a) + i] = b[i]

LEMMA BeginsLonger ==
    ASSUME NEW S, NEW x \in Seq(S), NEW y \in Seq(S), NEW a \in Seq(S), NEW b \in Seq(S),
           Begins(x, a, b), Len(x) >= Len(a) + Len(b)
    PROVE  Begins(x \o y, a, b)
<1>1. \A j \in 1 .. Len(x) : (x \o y)[j] = x[j]
  BY ConcatLaw
<1>2. PICK k, l, m \in Nat : k = Len(a) /\ l = Len(b) /\ m = Len(x)
  OBVIOUS
<1>3. m >= k + l
  BY <1>2
<1>4. (\A i \in 1 .. k : i \in 1 .. m) /\ \A i \in 1 .. l : k + i \in 1 .. m
  BY ONLY <1>3, k \in Nat, l \in Nat, m \in Nat
<1> QED BY <1>1, <1>2, <1>4 DEF Begins

LEMMA FourIndex ==
    ASSUME NEW S, NEW a \in Seq(S), NEW b \in Seq(S), NEW c \in Seq(S), NEW d \in Seq(S),
           NEW r, r = a \o b \o c \o d
    PROVE  Begins(r, a, b)
<1>1. /\ a \o b \in Seq(S) /\ Len(a \o b) = Len(a) + Len(b)
      /\ \A j \in 1 .. Len(a) : (a \o b)[j] = a[j]
      /\ \A j \in 1 .. Len(b) : (a \o b)[Len(a) + j] = b[j]
  BY ConcatLaw
<1>2. PICK x \in Seq(S) : x = a \o b
  BY <1>1
<1>3. Begins(x, a, b) /\ Len(x) >= Len(a) + Len(b)
  <2>1. Len(a) + Len(b) \in Nat
    OBVIOUS
  <2> QED BY <1>1, <1>2, <2>1 DEF Begins
<1>4. x \o c \in Seq(S) /\ Len(x \o c) = Len(x) + Len(c)
  BY Joined
<1>5. PICK y \in Seq(S) : y = x \o c
  BY <1>4
<1>6. Begins(y, a, b) /\ Len(y) >= Len(a) + Len(b)
  <2>1. PICK k, l, m, n \in Nat : k = Len(a) /\ l = Len(b) /\ m = Len(x) /\ n = Len(c)
    OBVIOUS
  <2>2. Len(y) = m + n /\ m >= k + l
    BY <1>3, <1>4, <1>5, <2>1
  <2> QED BY <1>3, <1>5, <2>1, <2>2, BeginsLonger
<1>7. Begins(y \o d, a, b)
  BY <1>6, BeginsLonger
<1> QED BY <1>2, <1>5, <1>7

\* The slots before a deleted one stay, the ones after it move down.
LEMMA DeleteMoves ==
    ASSUME NEW w \in Walks, NEW id \in Nat, id < w.count
    PROVE  \A i \in 1 .. w.count - 1 :
              /\ i < id + 1 => SlotsAfterDelete(w, id)[i] = w.slots[i]
              /\ i >= id + 1 => SlotsAfterDelete(w, id)[i] = w.slots[i + 1]
<1>0. PICK s : s = w.slots
  OBVIOUS
<1>1. s \in Seq(Slot) /\ Len(s) = MaxLive /\ w.count \in Nat /\ w.count <= MaxLive /\ MaxLive \in Nat
  BY <1>0, Constants DEF Walks, Row
<1>2. PICK a \in Seq(Slot) : a = SubSeq(s, 1, id) /\ Len(a) = id /\ \A i \in 1 .. id : a[i] = s[i]
  <2>1. 1 \in 1 .. Len(s) + 1 /\ id \in 1 - 1 .. Len(s)
    BY <1>1
  <2>2. SubSeq(s, 1, id) \in Seq(Slot) /\ Len(SubSeq(s, 1, id)) = id
    BY <1>1, <2>1, SubSeqProperties
  <2>3. \A i \in 1 .. id : SubSeq(s, 1, id)[i] = s[(1 + i) - 1]
    <3>1. \A i \in 1 .. (id - 1) + 1 : SubSeq(s, 1, id)[i] = s[(1 + i) - 1]
      BY <1>1, <2>1, SubSeqProperties
    <3> QED BY <3>1
  <2>4. \A i \in 1 .. id : (1 + i) - 1 = i
    OBVIOUS
  <2> QED BY <2>2, <2>3, <2>4
<1>3. PICK b \in Seq(Slot) : /\ b = SubSeq(s, id + 2, w.count) /\ Len(b) = w.count - id - 1
                             /\ \A i \in 1 .. w.count - id - 1 : b[i] = s[(id + 2 + i) - 1]
  <2>1. id + 2 \in 1 .. Len(s) + 1 /\ w.count \in (id + 2) - 1 .. Len(s)
    BY <1>1
  <2>2. SubSeq(s, id + 2, w.count) \in Seq(Slot) /\ Len(SubSeq(s, id + 2, w.count)) = w.count - id - 1
    BY <1>1, <2>1, SubSeqProperties
  <2>3. \A i \in 1 .. (w.count - (id + 2)) + 1 : SubSeq(s, id + 2, w.count)[i] = s[((id + 2) + i) - 1]
    BY <1>1, <2>1, SubSeqProperties
  <2>4. (w.count - (id + 2)) + 1 = w.count - id - 1
    BY <1>1
  <2> QED BY <2>2, <2>3, <2>4
<1>4. PICK c \in Seq(Slot) : c = <<EmptySlot>>
  <2>1. <<EmptySlot>> \in Seq(Slot)
    BY EmptySlotType
  <2> QED BY <2>1
<1>5. PICK d \in Seq(Slot) : d = SubSeq(s, w.count + 1, MaxLive)
  <2>1. w.count + 1 \in 1 .. Len(s) + 1 /\ MaxLive \in (w.count + 1) - 1 .. Len(s)
    BY <1>1
  <2>2. SubSeq(s, w.count + 1, MaxLive) \in Seq(Slot)
    BY <1>1, <2>1, SubSeqProperties
  <2> QED BY <2>2
<1>6. PICK r : r = a \o b \o c \o d /\ r = SlotsAfterDelete(w, id)
  BY <1>0, <1>2, <1>3, <1>4, <1>5 DEF SlotsAfterDelete
<1>7. /\ \A i \in 1 .. Len(a) : r[i] = a[i]
      /\ \A i \in 1 .. Len(b) : r[Len(a) + i] = b[i]
  <2>1. Begins(r, a, b)
    BY <1>6, FourIndex
  <2> QED BY <2>1 DEF Begins
<1> SUFFICES ASSUME NEW i \in 1 .. w.count - 1
             PROVE  (i < id + 1 => r[i] = s[i]) /\ (i >= id + 1 => r[i] = s[i + 1])
  BY <1>0, <1>6
<1>8. CASE i < id + 1
  <2>1. i \in 1 .. id
    BY <1>8
  <2> QED BY <1>2, <1>7, <1>8, <2>1
<1>9. CASE i >= id + 1
  <2>1. PICK j \in 1 .. w.count - id - 1 : id + j = i /\ (id + 2 + j) - 1 = i + 1
    <3>1. i - id \in 1 .. w.count - id - 1 /\ id + (i - id) = i /\ (id + 2 + (i - id)) - 1 = i + 1
      BY <1>1, <1>9
    <3> QED BY <3>1
  <2>2. r[id + j] = b[j] /\ b[j] = s[(id + 2 + j) - 1]
    BY <1>2, <1>3, <1>7
  <2> QED BY <1>9, <2>1, <2>2
<1>10. i < id + 1 \/ i >= id + 1
  BY <1>1
<1> QED BY <1>8, <1>9, <1>10

\* A slot created behind the others is empty.
LEMMA CreateMoves ==
    ASSUME NEW w \in Walks, w.count < MaxLive
    PROVE  /\ \A i \in 1 .. w.count : SlotsAfterCreate(w, w.count)[i] = w.slots[i]
           /\ SlotsAfterCreate(w, w.count)[w.count + 1] = EmptySlot
<1>0. PICK s, id : s = w.slots /\ id = w.count
  OBVIOUS
<1>1. s \in Seq(Slot) /\ Len(s) = MaxLive /\ id \in Nat /\ id < MaxLive /\ MaxLive \in Nat
  BY <1>0, Constants DEF Walks, Row
<1>2. PICK a \in Seq(Slot) : a = SubSeq(s, 1, id) /\ Len(a) = id /\ \A i \in 1 .. id : a[i] = s[i]
  <2>1. 1 \in 1 .. Len(s) + 1 /\ id \in 1 - 1 .. Len(s)
    BY <1>1
  <2>2. SubSeq(s, 1, id) \in Seq(Slot) /\ Len(SubSeq(s, 1, id)) = id
    BY <1>1, <2>1, SubSeqProperties
  <2>3. \A i \in 1 .. id : SubSeq(s, 1, id)[i] = s[(1 + i) - 1]
    <3>1. \A i \in 1 .. (id - 1) + 1 : SubSeq(s, 1, id)[i] = s[(1 + i) - 1]
      BY <1>1, <2>1, SubSeqProperties
    <3>2. (id - 1) + 1 = id
      BY <1>1
    <3> QED BY <3>1, <3>2
  <2>4. \A i \in 1 .. id : (1 + i) - 1 = i
    BY <1>1
  <2> QED BY <2>2, <2>3, <2>4
<1>3. PICK b \in Seq(Slot) : b = <<EmptySlot>> /\ Len(b) = 1 /\ b[1] = EmptySlot
  <2>1. <<EmptySlot>> \in Seq(Slot) /\ Len(<<EmptySlot>>) = 1 /\ <<EmptySlot>>[1] = EmptySlot
    BY EmptySlotType
  <2> QED BY <2>1
<1>4. PICK c \in Seq(Slot) : c = SubSeq(s, id + 1, id)
  <2>1. id + 1 \in 1 .. Len(s) + 1 /\ id \in (id + 1) - 1 .. Len(s)
    BY <1>1
  <2>2. SubSeq(s, id + 1, id) \in Seq(Slot)
    BY <1>1, <2>1, SubSeqProperties
  <2> QED BY <2>2
<1>5. PICK d \in Seq(Slot) : d = SubSeq(s, id + 2, MaxLive)
  <2>1. id + 2 \in 1 .. Len(s) + 1 /\ MaxLive \in (id + 2) - 1 .. Len(s)
    BY <1>1
  <2>2. SubSeq(s, id + 2, MaxLive) \in Seq(Slot)
    BY <1>1, <2>1, SubSeqProperties
  <2> QED BY <2>2
<1>6. PICK r : r = a \o b \o c \o d /\ r = SlotsAfterCreate(w, w.count)
  BY <1>0, <1>2, <1>3, <1>4, <1>5 DEF SlotsAfterCreate
<1>7. /\ \A i \in 1 .. Len(a) : r[i] = a[i]
      /\ \A i \in 1 .. Len(b) : r[Len(a) + i] = b[i]
  <2>1. Begins(r, a, b)
    BY <1>6, FourIndex
  <2> QED BY <2>1 DEF Begins
<1>8. r[id + 1] = EmptySlot
  <2>1. 1 \in 1 .. Len(b)
    BY <1>3
  <2> QED BY <1>2, <1>3, <1>7, <2>1
<1>9. \A i \in 1 .. id : r[i] = s[i]
  BY <1>2, <1>7
<1> QED BY <1>0, <1>6, <1>8, <1>9

\* The bytes a rebuild spends on the NAME and the STRUCT of a slot.
SlotBytes(slot) ==
    (IF slot.kind = None THEN 0 ELSE TAG + Length[slot.name])
        + (IF slot.struct = None THEN 0 ELSE TAG + Length[slot.struct.body])

LEMMA SlotBytesNat ==
    ASSUME NEW slot \in Slot
    PROVE  SlotBytes(slot) \in Nat
<1>1. slot.kind \in NameTypes \cup {None} /\ slot.name \in Body /\ slot.struct \in Structure \cup {None}
  BY DEF Slot
<1>2. \A b \in Body : Length[b] \in Nat
  BY DataAssumption DEF Body
<1>3. slot.struct # None => slot.struct.body \in Body
  BY <1>1 DEF Structure
<1> QED BY <1>1, <1>2, <1>3, Constants DEF SlotBytes

\* A tag where this writer puts it: a new entry behind the others, anything
\* else at a live entry.
InPlace(w, t) ==
    /\ t.type = "create" => t.id = w.count
    /\ t.type # "create" => t.id < w.count

LEMMA CreateStep ==
    ASSUME NEW w \in Walks, NEW t \in Tags, w.error = None, InPlace(w, t),
           GatherStep(w, t).error = None, t.type = "create"
    PROVE  LET v == GatherStep(w, t)
           IN  /\ v.count = w.count + 1
               /\ \A i \in 1 .. w.count : v.slots[i] = w.slots[i]
               /\ v.slots[w.count + 1] = EmptySlot
<1>1. t.id = w.count /\ w.count \in Nat /\ MaxLive \in Nat
  BY Constants DEF InPlace, Walks
<1>2. t.type \notin NameTypes /\ t.type \notin StructTypes /\ "out_of_range" # None
  BY DataAssumption DEF NameTypes, StructTypes
<1>3. \A v : Record(v, t) = v
  BY <1>2 DEF Record
<1>4. GatherStep(w, t) = SpliceStep(w, t)
  BY <1>3 DEF GatherStep
<1>5. w.count < MaxLive
  <2> SUFFICES ASSUME w.count >= MaxLive PROVE FALSE
    BY <1>1
  <2>1. SpliceStep(w, t) = Fail(w, "out_of_range")
    BY <1>2 DEF SpliceStep
  <2> QED BY <1>2, <1>4, <2>1 DEF Fail, Walks
<1>6. GatherStep(w, t) = [w EXCEPT !.count = w.count + 1, !.slots = SlotsAfterCreate(w, w.count)]
  <2>1. ~(w.count >= MaxLive) /\ ~(t.id > w.count)
    BY <1>1, <1>5
  <2> QED BY <1>1, <1>2, <1>4, <2>1 DEF SpliceStep
<1> QED BY <1>5, <1>6, CreateMoves DEF Walks

LEMMA DeleteStep ==
    ASSUME NEW w \in Walks, NEW t \in Tags, w.error = None,
           GatherStep(w, t).error = None, t.type = "delete"
    PROVE  LET v == GatherStep(w, t)
           IN  /\ t.id < w.count /\ v.count = w.count - 1
               /\ \A i \in 1 .. w.count - 1 : /\ i < t.id + 1 => v.slots[i] = w.slots[i]
                                              /\ i >= t.id + 1 => v.slots[i] = w.slots[i + 1]
<1>1. t.id \in Nat /\ w.count \in Nat
  BY Constants DEF Walks, Tags
<1>2. t.type \notin NameTypes /\ t.type \notin StructTypes /\ "corrupt" # None
  BY DataAssumption DEF NameTypes, StructTypes
<1>3. \A v : Record(v, t) = v
  BY <1>2 DEF Record
<1>4. GatherStep(w, t) = SpliceStep(w, t)
  BY <1>3 DEF GatherStep
<1>5. t.id < w.count
  <2> SUFFICES ASSUME t.id >= w.count PROVE FALSE
    BY <1>1
  <2>1. SpliceStep(w, t) = Fail(w, "corrupt")
    BY <1>2 DEF SpliceStep
  <2> QED BY <1>2, <1>4, <2>1 DEF Fail, Walks
<1>6. GatherStep(w, t) = [w EXCEPT !.count = w.count - 1, !.slots = SlotsAfterDelete(w, t.id)]
  <2>1. ~(t.id >= w.count)
    BY <1>1, <1>5
  <2> QED BY <1>2, <1>4, <2>1 DEF SpliceStep
<1> QED BY <1>1, <1>5, <1>6, DeleteMoves DEF Walks

LEMMA RecordName ==
    ASSUME NEW w \in Walks, NEW t \in Tags, w.error = None /\ t.type \in NameTypes, t.id < MaxLive
    PROVE  Record(w, t) =
              [w EXCEPT !.slots = [w.slots EXCEPT
                                      ![t.id + 1] = [w.slots[t.id + 1] EXCEPT !.name = t.body,
                                                                              !.kind = t.type]]]
<1>1. /\ t.id \in Nat /\ MaxLive \in Nat /\ w.slots \in Seq(Slot) /\ Len(w.slots) = MaxLive
      /\ t.body \in Body
  BY Constants DEF Tags, Walks, Row, Body
<1>2. t.id + 1 \in 1 .. Len(w.slots) /\ w.slots[t.id + 1] \in Slot
  BY <1>1
<1> QED BY <1>1, <1>2 DEF Record, Slot, Walks, Row

\* A NAME, a STRUCT or an attribute of a live entry.
LEMMA PlainStep ==
    ASSUME NEW w \in Walks, NEW t \in Tags, w.error = None, InPlace(w, t),
           t.type \notin {"create", "delete"}
    PROVE  LET v == GatherStep(w, t)
           IN  /\ v.count = w.count /\ v.error = None
               /\ \A i \in 1 .. w.count : i # t.id + 1 => v.slots[i] = w.slots[i]
               /\ SlotBytes(v.slots[t.id + 1])
                     <= SlotBytes(w.slots[t.id + 1]) + (IF t.type = "attr" THEN 0 ELSE TAG + Length[t.body])
<1>1. /\ t.id \in Nat /\ w.count \in Nat /\ t.id < w.count /\ w.count <= MaxLive /\ MaxLive \in Nat
      /\ w.slots \in Seq(Slot) /\ Len(w.slots) = MaxLive /\ t.body \in Body
      /\ t.type \in NameTypes \cup StructTypes \cup {"attr"}
  BY Constants DEF Walks, Tags, InPlace, Row, Body
<1>2. PICK x \in Slot : x = w.slots[t.id + 1] /\ t.id + 1 \in 1 .. Len(w.slots)
  BY <1>1
<1>3. SpliceStep(w, t) = w
  <2>1. CASE t.type \in NameTypes
    <3>1. SpliceStep(w, t) = [w EXCEPT !.count = w.count]
      BY <1>1, <2>1 DEF SpliceStep
    <3> QED BY <3>1 DEF Walks
  <2>2. CASE t.type \notin NameTypes
    BY <2>2 DEF SpliceStep
  <2> QED BY <2>1, <2>2
<1>4. GatherStep(w, t) = Record(w, t)
  BY <1>3 DEF GatherStep
<1>0. /\ \A b \in Body : Length[b] \in Nat /\ TAG \in Nat
      /\ x.kind \in NameTypes \cup {None} /\ x.name \in Body /\ x.struct \in Structure \cup {None}
      /\ (x.struct # None => x.struct.body \in Body)
  BY <1>2, DataAssumption, Constants DEF Slot, Structure, Body
<1>5. CASE t.type \in NameTypes
  <2> DEFINE e == [x EXCEPT !.name = t.body, !.kind = t.type]
             r == [w.slots EXCEPT ![t.id + 1] = e]
  <2>1. Record(w, t) = [w EXCEPT !.slots = r]
    <3>1. t.id < MaxLive
      BY <1>1
    <3>2. w.slots[t.id + 1] = x
      BY <1>2
    <3> QED BY <1>5, <3>1, <3>2, RecordName
  <2>2. e.name = t.body /\ e.kind = t.type /\ e.struct = x.struct
    BY DEF Slot
  <2>6. e \in Slot
    BY <1>1, <1>5 DEF Slot
  <2>3. r[t.id + 1] = e /\ \A i \in 1 .. w.count : i # t.id + 1 => r[i] = w.slots[i]
    BY <1>1, <1>2
  <2>4. t.type # "attr"
    BY <1>5 DEF NameTypes
  <2> HIDE DEF e, r
  <2>5. SlotBytes(e) <= SlotBytes(x) + (TAG + Length[t.body])
    <3>1. SlotBytes(e) <= (TAG + Length[t.body])
                             + (IF x.struct = None THEN 0 ELSE TAG + Length[x.struct.body])
      BY <1>0, <1>1, <2>2 DEF SlotBytes
    <3>2. PICK k, l, m \in Nat : /\ k = TAG + Length[t.body]
                                 /\ l = (IF x.struct = None THEN 0 ELSE TAG + Length[x.struct.body])
                                 /\ m = (IF x.kind = None THEN 0 ELSE TAG + Length[x.name])
      <4>1. /\ TAG + Length[t.body] \in Nat
            /\ (IF x.struct = None THEN 0 ELSE TAG + Length[x.struct.body]) \in Nat
            /\ (IF x.kind = None THEN 0 ELSE TAG + Length[x.name]) \in Nat
        BY <1>0, <1>1
      <4> QED BY <4>1
    <3>3. SlotBytes(e) <= k + l /\ SlotBytes(x) = m + l
      BY <3>1, <3>2 DEF SlotBytes
    <3>4. SlotBytes(e) \in Nat
      BY <2>6, SlotBytesNat
    <3>5. \A z \in Nat : z <= k + l => z <= (m + l) + k
      BY ONLY k \in Nat, l \in Nat, m \in Nat
    <3> QED BY <3>2, <3>3, <3>4, <3>5
  <2> QED BY <1>2, <1>4, <2>1, <2>3, <2>4, <2>5 DEF Walks
<1>6. CASE t.type \in StructTypes
  <2> DEFINE e == [x EXCEPT !.struct = [type |-> t.type, body |-> t.body]]
             r == [w.slots EXCEPT ![t.id + 1] = e]
  <2>4. t.type # "attr" /\ t.type \notin NameTypes /\ t.id < MaxLive
    BY <1>1, <1>6 DEF NameTypes, StructTypes
  <2>1. Record(w, t) = [w EXCEPT !.slots = r]
    BY <1>1, <1>2, <1>6, <2>4 DEF Record, Slot, Walks, Row
  <2>2. e.name = x.name /\ e.kind = x.kind /\ e.struct.body = t.body
    BY DEF Slot
  <2>6. e \in Slot
    BY <1>1, <1>6 DEF Slot, Structure
  <2>3. r[t.id + 1] = e /\ \A i \in 1 .. w.count : i # t.id + 1 => r[i] = w.slots[i]
    BY <1>1, <1>2
  <2> HIDE DEF e, r
  <2>5. SlotBytes(e) <= SlotBytes(x) + (TAG + Length[t.body])
    <3>1. SlotBytes(e) <= (IF x.kind = None THEN 0 ELSE TAG + Length[x.name]) + (TAG + Length[t.body])
      BY <1>0, <1>1, <2>2 DEF SlotBytes
    <3>2. PICK k, l, m \in Nat : /\ k = TAG + Length[t.body]
                                 /\ l = (IF x.struct = None THEN 0 ELSE TAG + Length[x.struct.body])
                                 /\ m = (IF x.kind = None THEN 0 ELSE TAG + Length[x.name])
      <4>1. /\ TAG + Length[t.body] \in Nat
            /\ (IF x.struct = None THEN 0 ELSE TAG + Length[x.struct.body]) \in Nat
            /\ (IF x.kind = None THEN 0 ELSE TAG + Length[x.name]) \in Nat
        BY <1>0, <1>1
      <4> QED BY <4>1
    <3>3. SlotBytes(e) <= m + k /\ SlotBytes(x) = m + l
      BY <3>1, <3>2 DEF SlotBytes
    <3>4. SlotBytes(e) \in Nat
      BY <2>6, SlotBytesNat
    <3>5. \A z \in Nat : z <= m + k => z <= (m + l) + k
      BY ONLY k \in Nat, l \in Nat, m \in Nat
    <3> QED BY <3>2, <3>3, <3>4, <3>5
  <2> QED BY <1>2, <1>4, <2>1, <2>3, <2>4, <2>5 DEF Walks
<1>7. CASE t.type = "attr"
  <2>1. Record(w, t) = w
    BY <1>7 DEF Record, NameTypes, StructTypes
  <2> QED BY <1>2, <1>4, <1>7, <2>1, SlotBytesNat
<1> QED BY <1>1, <1>5, <1>6, <1>7

----------------------------------------------------------------------------
(* The bytes of what is live in a log: what its rebuild would take.        *)

Weight(tags, i) ==
    TAG + SlotBytes(Gather(tags).slots[i]) + Bytes(LiveAttrs(AttrTags(tags, i - 1)))

Weights(tags) == [i \in 1 .. Gather(tags).count |-> Weight(tags, i)]

LiveBytes(tags) == SumOf(Weights(tags), Gather(tags).count)

LEMMA WeightType ==
    ASSUME NEW tags \in Seq(Tags)
    PROVE  /\ Gather(tags) \in Walks /\ Gather(tags).count \in Nat
           /\ \A i \in 1 .. Gather(tags).count :
                 /\ SlotBytes(Gather(tags).slots[i]) \in Nat
                 /\ Bytes(LiveAttrs(AttrTags(tags, i - 1))) \in Nat
                 /\ Weight(tags, i) \in Nat /\ Weight(tags, i) >= TAG
           /\ Weights(tags) \in [1 .. Gather(tags).count -> Nat]
<1>1. PICK w \in Walks : w = Gather(tags)
  BY GatherType
<1>2. w.count \in Nat /\ w.count <= MaxLive /\ MaxLive \in Nat /\ w.slots \in Seq(Slot)
      /\ Len(w.slots) = MaxLive
  BY Constants DEF Walks, Row
<1>3. ASSUME NEW i \in 1 .. w.count
      PROVE  /\ SlotBytes(w.slots[i]) \in Nat
             /\ Bytes(LiveAttrs(AttrTags(tags, i - 1))) \in Nat
             /\ Weight(tags, i) \in Nat /\ Weight(tags, i) >= TAG
  <2>1. i \in 1 .. Len(w.slots) /\ i - 1 \in Nat
    BY <1>2
  <2>2. w.slots[i] \in Slot
    BY <1>2, <2>1
  <2>3. SlotBytes(w.slots[i]) \in Nat
    BY <2>2, SlotBytesNat
  <2>4. LiveAttrs(AttrTags(tags, i - 1)) \in Seq(Tags)
    BY <2>1, AttrTagsType, LiveAttrsType, AttributesAreTags
  <2>5. Bytes(LiveAttrs(AttrTags(tags, i - 1))) \in Nat
    BY <2>4, BytesNat
  <2> QED BY <1>1, <2>3, <2>5, Constants DEF Weight
<1> QED BY <1>1, <1>2, <1>3 DEF Weights

LEMMA LiveBytesNat ==
    ASSUME NEW tags \in Seq(Tags)
    PROVE  LiveBytes(tags) \in Nat
<1>1. PICK p : Sums(p, Weights(tags), Gather(tags).count) /\ LiveBytes(tags) = p[Gather(tags).count]
  BY WeightType, SumExist DEF LiveBytes
<1> QED BY <1>1, WeightType DEF Sums

\* A tag in its place adds no more to what is live than to the log.
LEMMA TagGrows ==
    ASSUME NEW s \in Seq(Tags), NEW t \in Tags, Gather(s).error = None, InPlace(Gather(s), t),
           Gather(s \o <<t>>).error = None
    PROVE  /\ LiveBytes(s \o <<t>>) <= LiveBytes(s) + (TAG + Length[t.body])
           /\ Gather(s \o <<t>>).count =
                 Gather(s).count + (IF t.type = "create" THEN 1 ELSE IF t.type = "delete" THEN -1 ELSE 0)
<1> DEFINE u == s \o <<t>>
<1>0. u \in Seq(Tags)
  BY OneMore
<1>1. PICK w \in Walks, v \in Walks : w = Gather(s) /\ v = Gather(u) /\ v = GatherStep(w, t)
  BY <1>0, GatherMore, GatherType
<1>2. PICK n \in Nat, m \in Nat : n = w.count /\ m = v.count
  BY Constants DEF Walks
<1>3. /\ Weights(s) \in [1 .. n -> Nat] /\ Weights(u) \in [1 .. m -> Nat]
      /\ \A i \in 1 .. n : Weights(s)[i] = Weight(s, i) /\ Weight(s, i) \in Nat
      /\ \A i \in 1 .. m : Weights(u)[i] = Weight(u, i) /\ Weight(u, i) \in Nat
      /\ LiveBytes(s) = SumOf(Weights(s), n) /\ LiveBytes(u) = SumOf(Weights(u), m)
  BY <1>0, <1>1, <1>2, WeightType DEF Weights, LiveBytes
<1>4. /\ \A i \in 1 .. n : Weight(s, i) = TAG + SlotBytes(w.slots[i]) + Bytes(LiveAttrs(AttrTags(s, i - 1)))
      /\ \A i \in 1 .. m : Weight(u, i) = TAG + SlotBytes(v.slots[i]) + Bytes(LiveAttrs(AttrTags(u, i - 1)))
      /\ \A i \in 1 .. n : SlotBytes(w.slots[i]) \in Nat /\ Bytes(LiveAttrs(AttrTags(s, i - 1))) \in Nat
      /\ \A i \in 1 .. m : SlotBytes(v.slots[i]) \in Nat /\ Bytes(LiveAttrs(AttrTags(u, i - 1))) \in Nat
  BY <1>0, <1>1, <1>2, WeightType DEF Weight
<1>5. PICK c \in Nat : c = TAG + Length[t.body]
  BY TagBytes
<1>6. t.id \in Nat /\ TAG \in Nat /\ w.error = None /\ v.error = None /\ InPlace(w, t)
  BY <1>1, Constants DEF Tags
<1> HIDE DEF u
<1>7. CASE t.type = "create"
  <2>1. /\ t.id = n /\ m = n + 1 /\ \A i \in 1 .. n : v.slots[i] = w.slots[i]
        /\ v.slots[n + 1] = EmptySlot
    BY <1>1, <1>2, <1>6, <1>7, CreateStep DEF InPlace
  <2>2. ASSUME NEW i \in 1 .. n PROVE Weight(u, i) = Weight(s, i)
    <3>1. i - 1 \in Nat /\ t.id > i - 1 /\ i \in 1 .. m
      BY <2>1
    <3>2. AttrTags(u, i - 1) = AttrTags(s, i - 1)
      BY <3>1, AttrMore DEF u
    <3> QED BY <1>4, <2>1, <3>1, <3>2
  <2>3. Weight(u, n + 1) <= c
    <3>1. n + 1 \in 1 .. m /\ (n + 1) - 1 = n
      BY <2>1
    <3>2. AttrTags(u, n) = <<>>
      BY <1>7, <2>1, AttrMore DEF u
    <3>3. Bytes(LiveAttrs(<<>>)) = 0
      BY LiveAttrsEmpty, BytesEmpty
    <3>4. SlotBytes(EmptySlot) = 0
      BY DEF SlotBytes, EmptySlot
    <3>5. Weight(u, n + 1) = TAG + 0 + 0
      BY <1>4, <2>1, <3>1, <3>2, <3>3, <3>4
    <3> QED BY <1>5, <1>6, <3>5, TagBytes
  <2>4. \A k \in 1 .. n : Weights(u)[k] <= Weights(s)[k]
    <3> SUFFICES ASSUME NEW k \in 1 .. n PROVE Weights(u)[k] <= Weights(s)[k]
      OBVIOUS
    <3>1. k \in 1 .. m
      BY <2>1
    <3>2. Weights(u)[k] = Weight(u, k) /\ Weights(s)[k] = Weight(s, k) /\ Weight(s, k) \in Nat
      BY <1>3, <3>1
    <3>3. Weight(u, k) = Weight(s, k)
      BY <2>2
    <3> QED BY <3>2, <3>3
  <2>5. SumOf(Weights(u), n + 1) <= SumOf(Weights(s), n) + Weights(u)[n + 1]
        /\ SumOf(Weights(s), n) \in Nat /\ SumOf(Weights(u), n + 1) \in Nat
    BY <1>3, <2>1, <2>4, SumPush
  <2>6. n + 1 \in 1 .. m
    BY <2>1
  <2>7. Weights(u)[n + 1] <= c /\ Weights(u)[n + 1] \in Nat
    BY <1>3, <2>3, <2>6
  <2>8. LiveBytes(u) <= LiveBytes(s) + c
    BY <1>3, <2>1, <2>5, <2>7
  <2> QED BY <1>1, <1>2, <1>5, <1>7, <2>1, <2>8 DEF u
<1>8. CASE t.type = "delete"
  <2>1. /\ t.id < n /\ m = n - 1
        /\ \A i \in 1 .. n - 1 : /\ i < t.id + 1 => v.slots[i] = w.slots[i]
                                 /\ i >= t.id + 1 => v.slots[i] = w.slots[i + 1]
    BY <1>1, <1>2, <1>6, <1>8, DeleteStep
  <2>0. n = m + 1 /\ t.id + 1 \in 1 .. m + 1
    BY <1>6, <2>1
  <2>2. ASSUME NEW i \in 1 .. m
        PROVE  /\ i < t.id + 1 => Weight(u, i) = Weight(s, i)
               /\ i >= t.id + 1 => Weight(u, i) = Weight(s, i + 1)
    <3>1. i - 1 \in Nat /\ i \in 1 .. n /\ i + 1 \in 1 .. n /\ (i + 1) - 1 = (i - 1) + 1 /\ i \in 1 .. n - 1
      BY <2>1
    <3>2. CASE i < t.id + 1
      <4>1. t.id > i - 1
        BY <1>6, <3>2
      <4>2. AttrTags(u, i - 1) = AttrTags(s, i - 1)
        BY <3>1, <4>1, AttrMore DEF u
      <4>3. v.slots[i] = w.slots[i]
        BY <2>1, <3>1, <3>2
      <4>4. Weight(u, i) = TAG + SlotBytes(v.slots[i]) + Bytes(LiveAttrs(AttrTags(u, i - 1)))
        BY <1>4
      <4>5. Weight(s, i) = TAG + SlotBytes(w.slots[i]) + Bytes(LiveAttrs(AttrTags(s, i - 1)))
        BY <1>4, <3>1
      <4>6. Weight(u, i) = Weight(s, i)
        BY <4>2, <4>3, <4>4, <4>5
      <4> QED BY <1>6, <3>2, <4>6
    <3>3. CASE i >= t.id + 1
      <4>1. t.id <= i - 1
        BY <1>6, <3>3
      <4>2. AttrTags(u, i - 1) = AttrTags(s, (i - 1) + 1)
        BY <1>8, <3>1, <4>1, AttrMore DEF u
      <4>3. v.slots[i] = w.slots[i + 1]
        BY <2>1, <3>1, <3>3
      <4>4. Weight(u, i) = TAG + SlotBytes(v.slots[i]) + Bytes(LiveAttrs(AttrTags(u, i - 1)))
        BY <1>4
      <4>5. Weight(s, i + 1) = TAG + SlotBytes(w.slots[i + 1]) + Bytes(LiveAttrs(AttrTags(s, (i + 1) - 1)))
        BY <1>4, <3>1
      <4>6. Weight(u, i) = Weight(s, i + 1)
        BY <3>1, <4>2, <4>3, <4>4, <4>5
      <4> QED BY <1>6, <3>3, <4>6
    <3>4. i < t.id + 1 \/ i >= t.id + 1
      BY <1>6
    <3> QED BY <3>2, <3>3, <3>4
  <2>3. PICK j \in 1 .. m + 1 : j = t.id + 1
    BY <2>0
  <2>4. \A k \in 1 .. m : /\ k < j => Weights(u)[k] <= Weights(s)[k]
                          /\ k >= j => Weights(u)[k] <= Weights(s)[k + 1]
    <3> SUFFICES ASSUME NEW k \in 1 .. m
                 PROVE  /\ k < j => Weights(u)[k] <= Weights(s)[k]
                        /\ k >= j => Weights(u)[k] <= Weights(s)[k + 1]
      OBVIOUS
    <3>1. k \in 1 .. n /\ k + 1 \in 1 .. n
      BY <2>0
    <3>2. /\ Weights(u)[k] = Weight(u, k) /\ Weights(s)[k] = Weight(s, k) /\ Weight(s, k) \in Nat
          /\ Weights(s)[k + 1] = Weight(s, k + 1) /\ Weight(s, k + 1) \in Nat
      BY <1>3, <3>1
    <3>3. (k < j => Weight(u, k) = Weight(s, k)) /\ (k >= j => Weight(u, k) = Weight(s, k + 1))
      BY <2>2, <2>3
    <3> QED BY <3>2, <3>3
  <2>5. SumOf(Weights(u), m) + Weights(s)[j] <= SumOf(Weights(s), m + 1)
        /\ SumOf(Weights(u), m) \in Nat /\ SumOf(Weights(s), m + 1) \in Nat
    BY <1>3, <2>0, <2>4, SumDrop
  <2>6. Weights(s)[j] \in Nat
    BY <1>3, <2>0
  <2>7. LiveBytes(u) <= LiveBytes(s) + c
    BY <1>3, <1>5, <2>0, <2>5, <2>6
  <2>8. m = n + (-1)
    BY <2>0
  <2> QED BY <1>1, <1>2, <1>5, <1>8, <2>7, <2>8 DEF u
<1>9. CASE t.type \notin {"create", "delete"}
  <2>1. /\ m = n /\ \A i \in 1 .. n : i # t.id + 1 => v.slots[i] = w.slots[i]
        /\ SlotBytes(v.slots[t.id + 1])
              <= SlotBytes(w.slots[t.id + 1]) + (IF t.type = "attr" THEN 0 ELSE c)
    BY <1>1, <1>2, <1>5, <1>6, <1>9, PlainStep
  <2>2. PICK j \in 1 .. n : j = t.id + 1 /\ j - 1 = t.id
    BY <1>2, <1>6, <1>9 DEF InPlace
  <2>3. ASSUME NEW i \in 1 .. n, i # j PROVE Weight(u, i) = Weight(s, i)
    <3>1. i - 1 \in Nat /\ t.id # i - 1
      BY <1>6, <2>2, <2>3
    <3>2. AttrTags(u, i - 1) = AttrTags(s, i - 1)
      BY <1>9, <3>1, AttrMore DEF u
    <3> QED BY <1>4, <2>1, <2>2, <2>3, <3>2
  <2>4. Weight(u, j) <= Weight(s, j) + c
    <3>1. PICK x, y, a, b \in Nat : /\ x = SlotBytes(w.slots[j]) /\ y = SlotBytes(v.slots[j])
                                    /\ a = Bytes(LiveAttrs(AttrTags(s, j - 1)))
                                    /\ b = Bytes(LiveAttrs(AttrTags(u, j - 1)))
      BY <1>4, <2>1
    <3>2. y <= x + (IF t.type = "attr" THEN 0 ELSE c)
      BY <2>1, <2>2, <3>1
    <3>3. b <= a + (IF t.type = "attr" THEN c ELSE 0)
      <4>1. CASE t.type = "attr"
        <5>1. AttrTags(u, t.id) = <<t>> \o AttrTags(s, t.id)
          BY <1>6, <4>1, AttrMore DEF u
        <5>2. AttrTags(s, t.id) \in Seq(Attributes) /\ t \in Attributes
          BY <1>6, <4>1, AttrTagsType DEF Attributes
        <5>3. Bytes(LiveAttrs(<<t>> \o AttrTags(s, t.id))) <= Bytes(LiveAttrs(AttrTags(s, t.id))) + c
          BY <1>5, <5>2, LiveAttrsMore
        <5> QED BY <2>2, <3>1, <4>1, <5>1, <5>3
      <4>2. CASE t.type # "attr"
        <5>1. AttrTags(u, t.id) = AttrTags(s, t.id)
          BY <1>6, <1>9, <4>2, AttrMore DEF u
        <5> QED BY <2>2, <3>1, <4>2, <5>1
      <4> QED BY <4>1, <4>2
    <3>4. Weight(s, j) = TAG + x + a /\ Weight(u, j) = TAG + y + b
      BY <1>4, <2>1, <3>1
    <3>5. TAG + y + b <= TAG + x + a + c
      BY <1>6, <3>2, <3>3
    <3> QED BY <3>4, <3>5
  <2>5. Bumped(Weights(u), Weights(s), n, j, c)
    <3> SUFFICES ASSUME NEW k \in 1 .. n
                 PROVE  Weights(u)[k] <= Weights(s)[k] + (IF k = j THEN c ELSE 0)
      BY DEF Bumped
    <3>1. Weights(u)[k] = Weight(u, k) /\ Weights(s)[k] = Weight(s, k) /\ Weight(s, k) \in Nat
      BY <1>3, <2>1
    <3>2. CASE k = j
      BY <2>4, <3>1, <3>2
    <3>3. CASE k # j
      BY <2>3, <3>1, <3>3
    <3> QED BY <3>2, <3>3
  <2>6. SumOf(Weights(u), n) <= SumOf(Weights(s), n) + c
    <3>1. /\ Weights(s) \in [1 .. n -> Nat] /\ Weights(u) \in [1 .. n -> Nat] /\ j \in Nat
      BY <1>3, <2>1
    <3> QED BY <2>5, <3>1, SumBump
  <2>7. LiveBytes(u) <= LiveBytes(s) + c
    BY <1>3, <2>1, <2>6
  <2> QED BY <1>1, <1>2, <1>5, <1>9, <2>1, <2>7 DEF u
<1> QED BY <1>7, <1>8, <1>9

\* The NAME, STRUCT and attributes of one entry.
OfEntry(s, id) == \A k \in 1 .. Len(s) : s[k].id = id /\ s[k].type \notin {"create", "delete"}

LEMMA TagsGrow ==
    ASSUME NEW s \in Seq(Tags), NEW u \in Seq(Tags), NEW id \in Nat, OfEntry(u, id),
           id < Gather(s).count, Gather(s \o u).error = None
    PROVE  /\ LiveBytes(s \o u) <= LiveBytes(s) + Bytes(u)
           /\ Gather(s \o u).count = Gather(s).count
<1> DEFINE Good(x) == OfEntry(x, id) /\ Gather(s \o x).error = None =>
                         /\ LiveBytes(s \o x) <= LiveBytes(s) + Bytes(x)
                         /\ Gather(s \o x).count = Gather(s).count
           X == {x \in Seq(Tags) : Good(x)}
<1>1. <<>> \in X
  <2>1. s \o <<>> = s /\ <<>> \in Seq(Tags)
    OBVIOUS
  <2> QED BY <2>1, BytesEmpty, LiveBytesNat
<1>2. ASSUME NEW x \in Seq(Tags), NEW e \in Tags, x \in X PROVE x \o <<e>> \in X
  <2>1. s \o (x \o <<e>>) = (s \o x) \o <<e>> /\ s \o x \in Seq(Tags) /\ x \o <<e>> \in Seq(Tags)
        /\ <<e>> \in Seq(Tags)
    OBVIOUS
  <2> SUFFICES ASSUME OfEntry(x \o <<e>>, id), Gather(s \o (x \o <<e>>)).error = None
               PROVE  /\ LiveBytes(s \o (x \o <<e>>)) <= LiveBytes(s) + Bytes(x \o <<e>>)
                      /\ Gather(s \o (x \o <<e>>)).count = Gather(s).count
    BY <2>1
  <2>2. OfEntry(x, id) /\ e.id = id /\ e.type \notin {"create", "delete"}
    <3>1. /\ Len(x) \in Nat /\ Len(x \o <<e>>) = Len(x) + 1 /\ (x \o <<e>>)[Len(x) + 1] = e
          /\ \A k \in 1 .. Len(x) : (x \o <<e>>)[k] = x[k]
      BY OneMore
    <3>2. Len(x) + 1 \in 1 .. Len(x) + 1 /\ \A k \in 1 .. Len(x) : k \in 1 .. Len(x) + 1
      BY <3>1
    <3> QED BY <3>1, <3>2 DEF OfEntry
  <2>3. Gather(s \o x).error = None
    BY <2>1, GatherSound
  <2>4. LiveBytes(s \o x) <= LiveBytes(s) + Bytes(x) /\ Gather(s \o x).count = Gather(s).count
    BY <1>2, <2>2, <2>3
  <2>5. InPlace(Gather(s \o x), e)
    BY <2>2, <2>4 DEF InPlace
  <2>6. /\ LiveBytes((s \o x) \o <<e>>) <= LiveBytes(s \o x) + (TAG + Length[e.body])
        /\ Gather((s \o x) \o <<e>>).count = Gather(s \o x).count + 0
    BY <2>1, <2>2, <2>3, <2>5, TagGrows
  <2>7. PICK a, b, c, d, l \in Nat : /\ a = LiveBytes(s) /\ b = LiveBytes(s \o x) /\ c = Bytes(x)
                                     /\ d = TAG + Length[e.body]
                                     /\ l = LiveBytes(s \o (x \o <<e>>))
    <3>1. /\ LiveBytes(s) \in Nat /\ LiveBytes(s \o x) \in Nat /\ Bytes(x) \in Nat
          /\ TAG + Length[e.body] \in Nat
      BY <2>1, LiveBytesNat, BytesNat, TagBytes
    <3>2. PICK y \in Seq(Tags) : y = s \o (x \o <<e>>)
      <4>1. PICK z \in Seq(Tags) : z = s \o x
        BY <2>1
      <4>2. z \o <<e>> \in Seq(Tags)
        BY OneMore
      <4>3. s \o (x \o <<e>>) = z \o <<e>>
        BY <2>1, <4>1
      <4> QED BY <4>2, <4>3
    <3>3. LiveBytes(y) \in Nat
      BY LiveBytesNat
    <3> QED BY <3>1, <3>2, <3>3
  <2>8. Bytes(x \o <<e>>) = c + d
    BY <2>7, BytesMore
  <2>9. l <= a + (c + d)
    <3>1. b <= a + c /\ l <= b + d
      BY <2>1, <2>4, <2>6, <2>7
    <3> QED BY ONLY <3>1, a \in Nat, b \in Nat, c \in Nat, d \in Nat, l \in Nat
  <2>10. Gather(s \o x).count \in Nat
    BY <2>1, WeightType
  <2>11. Gather((s \o x) \o <<e>>).count = Gather(s \o x).count
    BY <2>6, <2>10
  <2>12. Gather(s \o (x \o <<e>>)).count = Gather(s).count
    BY <2>1, <2>4, <2>11
  <2> QED BY <2>7, <2>8, <2>9, <2>12
<1> HIDE DEF X, Good
<1>3. \A x \in Seq(Tags) : x \in X
  BY <1>1, <1>2, SeqInduction
<1>4. Good(u)
  BY <1>3 DEF X
<1> QED BY <1>4 DEF Good

\* A Create and what belongs to it.
NewOne(s, id) == \E u \in Seq(Tags) : s = <<CreateTag(id)>> \o u /\ OfEntry(u, id)

LEMMA EntryGrows ==
    ASSUME NEW s \in Seq(Tags), NEW e \in Seq(Tags), NewOne(e, Gather(s).count),
           Gather(s \o e).error = None
    PROVE  /\ LiveBytes(s \o e) <= LiveBytes(s) + Bytes(e)
           /\ Gather(s \o e).count = Gather(s).count + 1
<1>1. PICK id \in Nat : id = Gather(s).count
  BY WeightType
<1>2. PICK u \in Seq(Tags) : e = <<CreateTag(id)>> \o u /\ OfEntry(u, id)
  BY <1>1 DEF NewOne
<1>3. PICK c \in Tags : c = CreateTag(id)
  BY <1>1, TagTypes
<1>4. c.type = "create" /\ c.id = id
  BY <1>3 DEF CreateTag
<1>5. /\ <<c>> \in Seq(Tags) /\ s \o <<c>> \in Seq(Tags)
      /\ s \o (<<c>> \o u) = (s \o <<c>>) \o u
  OBVIOUS
<1>6. Gather((s \o <<c>>) \o u).error = None
  BY <1>2, <1>3, <1>5
<1>7. Gather(s \o <<c>>).error = None
  BY <1>5, <1>6, GatherSound
<1>8. Gather(s).error = None
  BY <1>5, <1>7, GatherSound
<1>9. InPlace(Gather(s), c)
  BY <1>1, <1>4 DEF InPlace
<1>10. /\ LiveBytes(s \o <<c>>) <= LiveBytes(s) + (TAG + Length[c.body])
       /\ Gather(s \o <<c>>).count = id + 1
  BY <1>1, <1>4, <1>7, <1>8, <1>9, TagGrows
<1>11. id < Gather(s \o <<c>>).count
  BY <1>10
<1>12. /\ LiveBytes((s \o <<c>>) \o u) <= LiveBytes(s \o <<c>>) + Bytes(u)
       /\ Gather((s \o <<c>>) \o u).count = id + 1
  BY <1>2, <1>5, <1>6, <1>10, <1>11, TagsGrow
<1>13. Bytes(<<c>> \o u) = (TAG + Length[c.body]) + Bytes(u)
  <2>1. PICK o \in Seq(Tags) : o = <<c>>
    BY <1>5
  <2>2. Bytes(o) = TAG + Length[c.body]
    BY <2>1, BytesOne
  <2>3. Bytes(o \o u) = Bytes(o) + Bytes(u)
    BY BytesConcat
  <2> QED BY <2>1, <2>2, <2>3
<1>14. PICK a, b, d, g, l \in Nat : /\ a = LiveBytes(s) /\ b = LiveBytes(s \o <<c>>) /\ d = Bytes(u)
                                    /\ g = TAG + Length[c.body] /\ l = LiveBytes((s \o <<c>>) \o u)
  <2>1. (s \o <<c>>) \o u \in Seq(Tags)
    BY <1>5
  <2> QED BY <1>5, <2>1, LiveBytesNat, BytesNat, TagBytes
<1>15. l <= a + (g + d)
  <2>1. b <= a + g /\ l <= b + d
    BY <1>10, <1>12, <1>14
  <2> QED BY ONLY <2>1, a \in Nat, b \in Nat, g \in Nat, d \in Nat, l \in Nat
<1> QED BY <1>1, <1>2, <1>3, <1>5, <1>12, <1>13, <1>14, <1>15

\* Less at one place is less in all.
LEMMA SumLess ==
    ASSUME NEW n \in Nat, NEW w \in [1 .. n -> Nat], NEW v \in [1 .. n -> Nat],
           NEW j \in 1 .. n, NEW d \in Nat, Bumped(v, w, n, 0, 0), v[j] + d <= w[j]
    PROVE  SumOf(v, n) \in Nat /\ SumOf(w, n) \in Nat /\ SumOf(v, n) + d <= SumOf(w, n)
<1>1. PICK p : Sums(p, w, n) /\ SumOf(w, n) = p[n]
  BY SumExist
<1>2. PICK q : Sums(q, v, n) /\ SumOf(v, n) = q[n]
  BY SumExist
<1> DEFINE T == {k \in 0 .. n : q[k] + (IF k >= j THEN d ELSE 0) <= p[k]}
<1>3. 0 \in T
  BY <1>1, <1>2 DEF Sums
<1>4. ASSUME NEW k \in 0 .. n - 1, k \in T PROVE k + 1 \in T
  <2>1. k + 1 \in 1 .. n /\ k + 1 \in 0 .. n /\ (k + 1) - 1 = k /\ k \in 0 .. n
    OBVIOUS
  <2>2. PICK a, b, c, e, x, y \in Nat : /\ a = q[k] /\ b = p[k] /\ c = q[k + 1] /\ e = p[k + 1]
                                        /\ x = v[k + 1] /\ y = w[k + 1]
    BY <1>1, <1>2, <2>1 DEF Sums
  <2>3. c = a + x /\ e = b + y
    BY <1>1, <1>2, <2>1, <2>2 DEF Sums
  <2>4. k + 1 # 0 /\ x <= y + 0
    BY <2>1, <2>2 DEF Bumped
  <2>5. k + 1 = j => x + d <= y
    BY <2>2
  <2>6. a + (IF k >= j THEN d ELSE 0) <= b
    BY <1>4, <2>2
  <2>7. c + (IF k + 1 >= j THEN d ELSE 0) <= e
    BY <2>3, <2>4, <2>5, <2>6
  <2> QED BY <2>1, <2>2, <2>7
<1> HIDE DEF T
<1>5. \A k \in 0 .. n : k \in T
  BY <1>3, <1>4, UpToInduction
<1>6. n \in T
  BY <1>5
<1>7. q[n] \in Nat /\ p[n] \in Nat
  BY <1>1, <1>2 DEF Sums
<1> QED BY <1>1, <1>2, <1>6, <1>7 DEF T

\* What a rebuilt entry keeps of its attributes is no more than it had.
LEMMA KeptBytes ==
    ASSUME NEW s \in Seq(Attributes), NEW op, NEW id
    PROVE  /\ Bytes(Kept(op, id, s)) <= Bytes(s)
           /\ ~SetsOn(op, id) => Bytes(Kept(op, id, s)) = Bytes(s)
<1> DEFINE n == Len(s)
<1>0. n \in Nat /\ s \in Seq(Tags)
  BY AttributesAreTags
<1>1. PICK g \in [0 .. n -> Seq(Attributes)] :
         /\ g[0] = <<>> /\ \A k \in 1 .. n : g[k] = KeepAttr(op, id, g[k - 1], s[k])
         /\ Kept(op, id, s) = g[n]
  BY KeptExist
<1>2. PICK h \in [0 .. n -> Nat] :
         /\ h[0] = 0 /\ \A k \in 1 .. n : h[k] = h[k - 1] + TAG + Length[s[k].body]
         /\ Bytes(s) = h[n]
  BY <1>0, BytesExist
<1> DEFINE T == {k \in 0 .. n : Bytes(g[k]) <= h[k] /\ (~SetsOn(op, id) => Bytes(g[k]) = h[k])}
<1>3. 0 \in T
  BY <1>0, <1>1, <1>2, BytesEmpty
<1>4. ASSUME NEW k \in 0 .. n - 1, k \in T PROVE k + 1 \in T
  <2>1. k + 1 \in 1 .. n /\ k + 1 \in 0 .. n /\ (k + 1) - 1 = k /\ k \in 0 .. n
    BY <1>0
  <2>2. PICK x \in Seq(Attributes), t \in Attributes : x = g[k] /\ t = s[k + 1]
    BY <1>1, <2>1
  <2>3. x \in Seq(Tags) /\ t \in Tags
    BY AttributesAreTags
  <2>4. g[k + 1] = KeepAttr(op, id, x, t)
    BY <1>1, <2>1, <2>2
  <2>5. PICK a, b, c \in Nat : a = Bytes(x) /\ b = h[k] /\ c = TAG + Length[t.body]
    BY <1>2, <2>1, <2>3, BytesNat, TagBytes
  <2>6. h[k + 1] = b + c
    <3>1. h[k + 1] = h[k] + TAG + Length[t.body]
      BY <1>2, <2>1, <2>2
    <3>2. Length[t.body] \in Nat /\ TAG \in Nat
      BY <2>3, TagBytes, Constants
    <3> QED BY <2>5, <3>1, <3>2
  <2>7. a <= b /\ (~SetsOn(op, id) => a = b)
    BY <1>4, <2>2, <2>5
  <2>8. CASE SetsOn(op, id) => t.attr # op.attr
    <3>1. g[k + 1] = x \o <<t>>
      BY <2>4, <2>8, AppendIsConcat DEF KeepAttr
    <3>2. Bytes(g[k + 1]) = a + c
      BY <2>3, <2>5, <3>1, BytesMore
    <3> QED BY <2>1, <2>6, <2>7, <3>2
  <2>9. CASE ~(SetsOn(op, id) => t.attr # op.attr)
    <3>1. Bytes(g[k + 1]) = a /\ SetsOn(op, id)
      BY <2>4, <2>5, <2>9 DEF KeepAttr
    <3> QED BY <2>1, <2>5, <2>6, <2>7, <3>1
  <2> QED BY <2>8, <2>9
<1> HIDE DEF T, n
<1>5. \A k \in 0 .. n : k \in T
  BY <1>0, <1>3, <1>4, UpToInduction
<1>6. n \in T
  BY <1>0, <1>5
<1> QED BY <1>1, <1>2, <1>6 DEF T

LEMMA OfEntryConcat ==
    ASSUME NEW a \in Seq(Tags), NEW b \in Seq(Tags), NEW id, OfEntry(a, id), OfEntry(b, id)
    PROVE  OfEntry(a \o b, id)
<1>1. PICK n \in Nat, m \in Nat : n = Len(a) /\ m = Len(b)
  OBVIOUS
<1>2. /\ Len(a \o b) = n + m /\ \A j \in 1 .. n : (a \o b)[j] = a[j]
      /\ \A j \in 1 .. m : (a \o b)[n + j] = b[j]
  BY <1>1, ConcatLaw
<1> SUFFICES ASSUME NEW k \in 1 .. n + m
             PROVE  (a \o b)[k].id = id /\ (a \o b)[k].type \notin {"create", "delete"}
  BY <1>2 DEF OfEntry
<1>3. CASE k <= n
  <2>1. k \in 1 .. n
    BY <1>3
  <2> QED BY <1>1, <1>2, <2>1 DEF OfEntry
<1>4. CASE n < k
  <2>1. k - n \in 1 .. m /\ n + (k - n) = k
    BY <1>4
  <2>2. (a \o b)[n + (k - n)] = b[k - n]
    BY <1>2, <2>1
  <2> QED BY <1>1, <2>1, <2>2 DEF OfEntry
<1>5. k <= n \/ n < k
  OBVIOUS
<1> QED BY <1>3, <1>4, <1>5

LEMMA OfEntryOne ==
    ASSUME NEW t \in Tags, t.type \notin {"create", "delete"}
    PROVE  OfEntry(<<t>>, t.id) /\ <<t>> \in Seq(Tags)
<1>1. Len(<<t>>) = 1 /\ <<t>>[1] = t /\ 1 .. 1 = {1}
  OBVIOUS
<1> QED BY <1>1 DEF OfEntry

LEMMA OfEntryNone == \A id : OfEntry(<<>>, id)
BY DEF OfEntry

\* Attributes under an id of their own.
LEMMA AttrsOfEntry ==
    ASSUME NEW l \in Seq(Attributes), NEW id \in Nat
    PROVE  OfEntry(Renumbered(l, id), id)
<1> SUFFICES ASSUME NEW k \in 1 .. Len(Renumbered(l, id))
             PROVE  /\ Renumbered(l, id)[k].id = id
                    /\ Renumbered(l, id)[k].type \notin {"create", "delete"}
  BY DEF OfEntry
<1>1. Renumbered(l, id) = [i \in 1 .. Len(l) |-> [l[i] EXCEPT !.id = id]] /\ Len(l) \in Nat
  BY DEF Renumbered
<1>2. k \in 1 .. Len(l)
  BY <1>1
<1>3. l[k] \in Attributes /\ Renumbered(l, id)[k] = [l[k] EXCEPT !.id = id]
  BY <1>1, <1>2
<1>4. l[k] \in Tags /\ l[k].type = "attr"
  BY <1>3 DEF Attributes
<1> QED BY <1>3, <1>4 DEF Tags

\* The operation rewrites a part of the entry.
Touches(op, id) == op.id = id /\ op.k \in {"update", "rename", "setattr", "removeattr"}

Cost(op, id) == IF Touches(op, id) THEN Bytes(EmitOp(op)) ELSE 0

LEMMA CostNat ==
    ASSUME NEW op, OpOK(op), NEW id
    PROVE  Cost(op, id) \in Nat
BY EmitOpBytes DEF Cost

SetBytes(op, id) == IF SetsOn(op, id) /\ op.k = "setattr" THEN Bytes(EmitOp(op)) ELSE 0

LEMMA RebuiltAttrsBytes ==
    ASSUME NEW src, SourceOK(src), NEW op, OpOK(op), NEW id \in 0 .. src.count - 1, NEW new \in Nat
    PROVE  /\ OfEntry(RebuiltAttrs(src, id, new, op), new)
           /\ src.attrs[id + 1] \in Seq(Attributes) /\ Bytes(src.attrs[id + 1]) \in Nat
           /\ Bytes(RebuiltAttrs(src, id, new, op)) \in Nat /\ SetBytes(op, id) \in Nat
           /\ Bytes(RebuiltAttrs(src, id, new, op)) <= Bytes(src.attrs[id + 1]) + SetBytes(op, id)
           /\ op.k = "noop" => Bytes(RebuiltAttrs(src, id, new, op)) = Bytes(src.attrs[id + 1])
<1> DEFINE kept == Kept(op, id, src.attrs[id + 1])
           set == IF SetsOn(op, id) /\ op.k = "setattr" THEN <<AttrTag(new, op.attr, op.value)>> ELSE <<>>
<1>1. src.attrs[id + 1] \in Seq(Attributes)
  <2>1. id + 1 \in 1 .. src.count /\ src.attrs \in Seq(Seq(Attributes)) /\ Len(src.attrs) = src.count
    BY Constants DEF SourceOK
  <2> QED BY <2>1
<1>2. kept \in Seq(Attributes) /\ kept \in Seq(Tags)
  BY <1>1, KeptType, AttributesAreTags
<1>3. set \in Seq(Tags) /\ Bytes(set) = SetBytes(op, id) /\ OfEntry(set, new)
  <2>1. CASE SetsOn(op, id) /\ op.k = "setattr"
    <3>1. op.attr \in Attrs \cup {None} /\ op.value \in Body
      BY <2>1 DEF OpOK
    <3>2. PICK t \in Tags : t = AttrTag(new, op.attr, op.value) /\ t.body = op.value
      BY <3>1, TagTypes
    <3>3. t.type = "attr" /\ t.id = new
      BY <3>2 DEF AttrTag
    <3>4. PICK u \in Tags : u = AttrTag(op.id, op.attr, op.value) /\ u.body = op.value
      BY <3>1, TagTypes DEF OpOK
    <3>5. EmitOp(op) = <<u>>
      BY <2>1, <3>4 DEF EmitOp
    <3>6. Bytes(<<t>>) = TAG + Length[op.value] /\ Bytes(<<u>>) = TAG + Length[op.value]
      BY <3>2, <3>4, BytesOne
    <3>7. set = <<t>>
      BY <2>1, <3>2
    <3>8. SetBytes(op, id) = Bytes(<<u>>)
      BY <2>1, <3>5 DEF SetBytes
    <3> QED BY <3>3, <3>6, <3>7, <3>8, OfEntryOne
  <2>2. CASE ~(SetsOn(op, id) /\ op.k = "setattr")
    <3>1. set = <<>> /\ SetBytes(op, id) = 0
      BY <2>2 DEF SetBytes
    <3> HIDE DEF set
    <3> QED BY <3>1, BytesEmpty, OfEntryNone
  <2> QED BY <2>1, <2>2
<1>4. RebuiltAttrs(src, id, new, op) = Renumbered(kept, new) \o set
  BY DEF RebuiltAttrs, Kept, KeepAttr, SetsOn
<1>5. Bytes(kept) <= Bytes(src.attrs[id + 1])
      /\ (~SetsOn(op, id) => Bytes(kept) = Bytes(src.attrs[id + 1]))
  BY <1>1, KeptBytes
<1>6. op.k = "noop" => ~SetsOn(op, id) /\ SetBytes(op, id) = 0
  BY DEF SetsOn, SetBytes
<1> HIDE DEF kept, set
<1>7. PICK r \in Seq(Tags) : r = Renumbered(kept, new) /\ Bytes(r) = Bytes(kept) /\ OfEntry(r, new)
  BY <1>2, RenumberedType, AttrsOfEntry
<1>8. OfEntry(r \o set, new) /\ Bytes(r \o set) = Bytes(r) + Bytes(set)
  BY <1>3, <1>7, OfEntryConcat, BytesConcat
<1>9. PICK a, b, c \in Nat : a = Bytes(r) /\ b = Bytes(set) /\ c = Bytes(src.attrs[id + 1])
  <2>1. src.attrs[id + 1] \in Seq(Tags)
    BY <1>1, AttributesAreTags
  <2> QED BY <1>3, <2>1, BytesNat
<1>10. a <= c /\ (op.k = "noop" => a = c /\ b = 0)
  BY <1>3, <1>5, <1>6, <1>7, <1>9
<1>11. a + b \in Nat /\ a + b <= c + b /\ (op.k = "noop" => a + b = c)
  BY ONLY <1>10, a \in Nat, b \in Nat, c \in Nat
<1> QED BY <1>1, <1>3, <1>4, <1>7, <1>8, <1>9, <1>11

\* A Create with what follows it, taken apart.
LEMMA Apart ==
    ASSUME NEW c \in Tags, NEW n \in Tags, NEW a \in Seq(Tags), NEW s \in Tags, NEW r \in Seq(Tags),
           NEW id, c = CreateTag(id), OfEntry(<<n>>, id), OfEntry(a, id), OfEntry(<<s>>, id), OfEntry(r, id)
    PROVE  /\ NewOne(<<c, n>> \o a \o <<s>> \o r, id)
           /\ Bytes(<<c, n>> \o a \o <<s>> \o r) =
                 (TAG + Length[c.body]) + (TAG + Length[n.body]) + Bytes(a) + (TAG + Length[s.body]) + Bytes(r)
<1>1. <<c>> \in Seq(Tags) /\ <<n>> \in Seq(Tags) /\ <<s>> \in Seq(Tags)
  OBVIOUS
<1>2. PICK x \in Seq(Tags) : x = <<n>> \o a /\ OfEntry(x, id) /\ Bytes(x) = Bytes(<<n>>) + Bytes(a)
  BY <1>1, OfEntryConcat, BytesConcat
<1>3. PICK y \in Seq(Tags) : y = x \o <<s>> /\ OfEntry(y, id) /\ Bytes(y) = Bytes(x) + Bytes(<<s>>)
  BY <1>1, <1>2, OfEntryConcat, BytesConcat
<1>4. PICK z \in Seq(Tags) : z = y \o r /\ OfEntry(z, id) /\ Bytes(z) = Bytes(y) + Bytes(r)
  BY <1>3, OfEntryConcat, BytesConcat
<1>5. Bytes(<<c>> \o z) = Bytes(<<c>>) + Bytes(z)
  BY <1>1, BytesConcat
<1>6. <<c, n>> \o a \o <<s>> \o r = <<c>> \o z
  <2>1. <<c, n>> = <<c>> \o <<n>>
    OBVIOUS
  <2>2. (<<c>> \o <<n>>) \o a = <<c>> \o x
    BY <1>1, <1>2
  <2>3. (<<c>> \o x) \o <<s>> = <<c>> \o y
    BY <1>1, <1>3
  <2>4. (<<c>> \o y) \o r = <<c>> \o z
    BY <1>1, <1>4
  <2> QED BY <2>1, <2>2, <2>3, <2>4
<1>7. NewOne(<<c>> \o z, id)
  BY <1>4 DEF NewOne
<1>8. /\ Bytes(<<c>>) = TAG + Length[c.body] /\ Bytes(<<n>>) = TAG + Length[n.body]
      /\ Bytes(<<s>>) = TAG + Length[s.body]
  BY BytesOne
<1>9. PICK p, q, t, u, v \in Nat : /\ p = TAG + Length[c.body] /\ q = TAG + Length[n.body]
                                   /\ t = TAG + Length[s.body] /\ u = Bytes(a) /\ v = Bytes(r)
  BY TagBytes, BytesNat
<1>10. Bytes(<<c>> \o z) = p + (((q + u) + t) + v)
  BY <1>2, <1>3, <1>4, <1>5, <1>8, <1>9
<1>11. p + (((q + u) + t) + v) = p + q + u + t + v
  OBVIOUS
<1> QED BY <1>6, <1>7, <1>9, <1>10, <1>11

\* A rebuilt entry is a Create with its tags, and costs no more than what was
\* live of it and what the operation adds.
LEMMA RebuiltBytes ==
    ASSUME NEW src, SourceOK(src), NEW op, OpOK(op), Complete(src, op),
           NEW id \in 0 .. src.count - 1, NEW new \in Nat, Stays(op, id)
    PROVE  LET w == TAG + SlotBytes(src.slots[id + 1]) + Bytes(src.attrs[id + 1])
           IN  /\ NewOne(RebuiltEntry(src, id, new, op), new)
               /\ Bytes(RebuiltEntry(src, id, new, op)) <= w + Cost(op, id)
               /\ op.k = "noop" => Bytes(RebuiltEntry(src, id, new, op)) = w
<1>1. PICK slot : slot = SlotOf(src, id)
  OBVIOUS
<1>0. src.count \in Nat /\ src.count <= MaxLive /\ MaxLive \in Nat /\ id + 1 \in 1 .. src.count
      /\ src.slots \in Seq(Slot) /\ Len(src.slots) = MaxLive
  BY Constants DEF SourceOK, Row
<1>2. slot \in Slot /\ slot = src.slots[id + 1]
  BY <1>0, <1>1 DEF SlotOf
<1>3. slot.kind # None /\ slot.struct # None
  <2>1. (id + 1) - 1 = id
    BY <1>0
  <2> QED BY <1>0, <1>2, <2>1 DEF Complete, Stays
<1>4. slot.kind \in NameTypes /\ slot.name \in Body /\ slot.struct \in Structure
  BY <1>2, <1>3 DEF Slot
<1>5. PICK a : a = IF op.k = "rename" /\ op.id = id THEN <<NameTag(new, op.kind, op.name)>> ELSE <<>>
  OBVIOUS
<1>6. /\ a \in Seq(Tags) /\ OfEntry(a, new) /\ Bytes(a) \in Nat
      /\ (op.k = "rename" /\ op.id = id => Bytes(a) = Bytes(EmitOp(op)))
      /\ (~(op.k = "rename" /\ op.id = id) => Bytes(a) = 0)
  <2>1. CASE op.k = "rename" /\ op.id = id
    <3>1. op.kind \in NameTypes /\ op.name \in Body /\ op.id \in Nat
      BY <2>1 DEF OpOK
    <3>2. PICK t \in Tags : t = NameTag(new, op.kind, op.name) /\ t.body = op.name
      BY <3>1, TagTypes
    <3>3. PICK u \in Tags : u = NameTag(op.id, op.kind, op.name) /\ u.body = op.name
      BY <3>1, TagTypes
    <3>4. t.type \notin {"create", "delete"} /\ t.id = new
      BY <3>1, <3>2 DEF NameTag, NameTypes
    <3>5. EmitOp(op) = <<u>> /\ a = <<t>>
      BY <1>5, <2>1, <3>2, <3>3 DEF EmitOp
    <3>6. Bytes(<<t>>) = TAG + Length[op.name] /\ Bytes(<<u>>) = TAG + Length[op.name]
      BY <3>2, <3>3, BytesOne
    <3>7. a \in Seq(Tags)
      BY <3>5
    <3> QED BY <2>1, <3>4, <3>5, <3>6, <3>7, OfEntryOne, BytesNat
  <2>2. CASE ~(op.k = "rename" /\ op.id = id)
    BY <1>5, <2>2, BytesEmpty, OfEntryNone
  <2> QED BY <2>1, <2>2
<1>7. PICK t : t = IF op.k = "update" /\ op.id = id THEN op.struct ELSE slot.struct
  OBVIOUS
<1>8. t \in Structure
  BY <1>4, <1>7 DEF OpOK
<1>9. PICK c \in Tags, n \in Tags, s \in Tags :
         /\ c = CreateTag(new) /\ n = NameTag(new, slot.kind, slot.name) /\ s = StructTag(new, t)
         /\ c.body = None /\ n.body = slot.name /\ s.body = t.body
  BY <1>4, <1>8, TagTypes
<1>10. OfEntry(<<n>>, new) /\ OfEntry(<<s>>, new)
  <2>1. n.id = new /\ n.type = slot.kind
    BY <1>9 DEF NameTag
  <2>2. s.id = new /\ s.type = t.type
    BY <1>9 DEF StructTag
  <2>3. n.type \notin {"create", "delete"} /\ s.type \notin {"create", "delete"}
    BY <1>4, <1>8, <2>1, <2>2 DEF NameTypes, Structure, StructTypes
  <2> QED BY <2>1, <2>2, <2>3, OfEntryOne
<1>11. PICK r \in Seq(Tags) : r = RebuiltAttrs(src, id, new, op)
  BY RebuiltAttrsType
<1>12. /\ OfEntry(r, new) /\ Bytes(src.attrs[id + 1]) \in Nat /\ Bytes(r) \in Nat /\ SetBytes(op, id) \in Nat
       /\ Bytes(r) <= Bytes(src.attrs[id + 1]) + SetBytes(op, id)
       /\ (op.k = "noop" => Bytes(r) = Bytes(src.attrs[id + 1]))
  BY <1>11, RebuiltAttrsBytes
<1>13. RebuiltEntry(src, id, new, op) = <<c, n>> \o a \o <<s>> \o r
  BY <1>1, <1>5, <1>7, <1>9, <1>11 DEF RebuiltEntry
<1>14. /\ NewOne(RebuiltEntry(src, id, new, op), new)
       /\ Bytes(RebuiltEntry(src, id, new, op)) =
             (TAG + Length[c.body]) + (TAG + Length[n.body]) + Bytes(a) + (TAG + Length[s.body]) + Bytes(r)
  BY <1>6, <1>9, <1>10, <1>12, <1>13, Apart
<1>15. PICK x, l, m, p, q, v, e, z \in Nat :
         /\ x = Length[slot.name] /\ l = Length[slot.struct.body] /\ m = Length[t.body] /\ p = Bytes(a)
         /\ q = Bytes(r) /\ v = Bytes(src.attrs[id + 1]) /\ e = Cost(op, id) /\ z = SetBytes(op, id)
  <2>1. slot.struct.body \in Body /\ t.body \in Body /\ slot.name \in Body
    BY <1>4, <1>8 DEF Structure
  <2>2. \A b \in Body : Length[b] \in Nat
    BY DataAssumption DEF Body
  <2>3. Cost(op, id) \in Nat
    BY CostNat
  <2> QED BY <1>6, <1>12, <2>1, <2>2, <2>3
<1>16. Length[c.body] = 0 /\ Length[n.body] = x /\ Length[s.body] = m /\ TAG = 4
  BY <1>9, <1>15, DataAssumption, Constants
<1>17. Bytes(RebuiltEntry(src, id, new, op)) = (4 + 0) + (4 + x) + p + (4 + m) + q
  BY <1>14, <1>15, <1>16
<1>18. SlotBytes(slot) = (4 + x) + (4 + l)
  BY <1>3, <1>15, <1>16 DEF SlotBytes
<1>19. q <= v + z /\ (op.k = "noop" => q = v)
  BY <1>12, <1>15
<1>20. p + (4 + m) + z <= (4 + l) + e /\ (op.k = "noop" => p = 0 /\ m = l)
  <2>1. CASE op.k = "rename" /\ op.id = id
    <3>1. e = Bytes(EmitOp(op)) /\ z = 0 /\ t = slot.struct
      BY <1>7, <1>15, <2>1 DEF Cost, Touches, SetBytes
    <3>2. p = e /\ m = l /\ op.k # "noop"
      BY <1>6, <1>15, <2>1, <3>1
    <3> QED BY <3>1, <3>2
  <2>2. CASE op.k = "update" /\ op.id = id
    <3>1. e = Bytes(EmitOp(op)) /\ z = 0 /\ t = op.struct /\ op.k # "noop"
      BY <1>7, <1>15, <2>2 DEF Cost, Touches, SetBytes
    <3>2. p = 0
      BY <1>6, <1>15, <2>2
    <3>3. EmitOp(op) = <<StructTag(op.id, op.struct)>>
      BY <2>2 DEF EmitOp
    <3>4. PICK u \in Tags : u = StructTag(op.id, op.struct) /\ u.body = t.body
      BY <1>8, <3>1, TagTypes DEF OpOK
    <3>5. e = TAG + Length[t.body]
      BY <3>1, <3>3, <3>4, BytesOne
    <3>6. e = 4 + m
      BY <1>15, <1>16, <3>5
    <3> QED BY <3>1, <3>2, <3>6
  <2>3. CASE ~(op.k = "rename" /\ op.id = id) /\ ~(op.k = "update" /\ op.id = id)
    <3>1. t = slot.struct /\ p = 0
      BY <1>6, <1>7, <1>15, <2>3
    <3>2. m = l
      BY <1>15, <3>1
    <3>3. z <= e
      <4>1. CASE SetsOn(op, id) /\ op.k = "setattr"
        BY <1>15, <4>1 DEF SetsOn, SetBytes, Cost, Touches
      <4>2. CASE ~(SetsOn(op, id) /\ op.k = "setattr")
        BY <1>15, <4>2 DEF SetBytes
      <4> QED BY <4>1, <4>2
    <3> QED BY <3>1, <3>2, <3>3
  <2> QED BY <2>1, <2>2, <2>3
<1>21. /\ (4 + 0) + (4 + x) + p + (4 + m) + q <= (4 + ((4 + x) + (4 + l)) + v) + e
       /\ (op.k = "noop" => (4 + 0) + (4 + x) + p + (4 + m) + q = 4 + ((4 + x) + (4 + l)) + v)
  BY ONLY <1>19, <1>20, x \in Nat, l \in Nat, m \in Nat, p \in Nat, q \in Nat, v \in Nat, e \in Nat, z \in Nat
<1>22. TAG + SlotBytes(src.slots[id + 1]) + Bytes(src.attrs[id + 1]) = 4 + ((4 + x) + (4 + l)) + v
  BY <1>2, <1>15, <1>16, <1>18
<1> QED BY <1>14, <1>15, <1>17, <1>21, <1>22

LEMMA NewEntryIs ==
    ASSUME NEW op, OpOK(op), op.k = "create", NEW id \in Nat
    PROVE  NewOne(NewEntry(op, id), id)
<1>1. /\ op.kind \in NameTypes /\ op.name \in Body /\ op.struct \in Structure
      /\ op.attrs \in Seq(Tags)
  BY DEF OpOK
<1>2. PICK c \in Tags, n \in Tags, s \in Tags :
         c = CreateTag(id) /\ n = NameTag(id, op.kind, op.name) /\ s = StructTag(id, op.struct)
  BY <1>1, TagTypes
<1>3. PICK a : a = [i \in DOMAIN op.attrs |-> AttrTag(id, op.attrs[i].attr, op.attrs[i].body)]
  OBVIOUS
<1>4. a \in Seq(Tags)
  BY <1>1, <1>3, AttrsUnder
<1>5. OfEntry(a, id)
  <2> SUFFICES ASSUME NEW k \in 1 .. Len(a) PROVE a[k].id = id /\ a[k].type \notin {"create", "delete"}
    BY DEF OfEntry
  <2>1. a[k] = AttrTag(id, op.attrs[k].attr, op.attrs[k].body)
    BY <1>3, <1>4
  <2> QED BY <2>1 DEF AttrTag
<1>6. OfEntry(<<n>>, id) /\ OfEntry(<<s>>, id)
  <2>1. n.id = id /\ n.type = op.kind
    BY <1>2 DEF NameTag
  <2>2. s.id = id /\ s.type = op.struct.type
    BY <1>2 DEF StructTag
  <2>3. n.type \notin {"create", "delete"} /\ s.type \notin {"create", "delete"}
    BY <1>1, <2>1, <2>2 DEF NameTypes, Structure, StructTypes
  <2> QED BY <2>1, <2>2, <2>3, OfEntryOne
<1>7. NewEntry(op, id) = <<c, n, s>> \o a
  BY <1>2, <1>3 DEF NewEntry
<1>8. <<c, n>> \o <<>> \o <<s>> \o a = <<c, n, s>> \o a
  OBVIOUS
<1>9. OfEntry(<<>>, id) /\ <<>> \in Seq(Tags)
  BY OfEntryNone
<1>10. NewOne(<<c, n>> \o <<>> \o <<s>> \o a, id)
  BY <1>2, <1>4, <1>5, <1>6, <1>9, Apart
<1> QED BY <1>7, <1>8, <1>10

\* What emit_compact_range writes for an index: nothing for a removed entry,
\* else a Create with its tags.
LEMMA EmitIndexIs ==
    ASSUME NEW src, SourceOK(src), NEW op, OpOK(op), Complete(src, op),
           NEW lo \in Nat, NEW i \in Nat, lo <= i, i < Total(src, op)
    PROVE  /\ Stays(op, i) => NewOne(EmitIndex(src, op, lo, i), NewId(op, lo, i))
           /\ ~Stays(op, i) => EmitIndex(src, op, lo, i) = <<>>
           /\ i < src.count =>
                 Bytes(EmitIndex(src, op, lo, i)) <=
                    (TAG + SlotBytes(src.slots[i + 1]) + Bytes(src.attrs[i + 1])) + Cost(op, i)
           /\ i < src.count /\ op.k = "noop" =>
                 Bytes(EmitIndex(src, op, lo, i)) =
                    TAG + SlotBytes(src.slots[i + 1]) + Bytes(src.attrs[i + 1])
           /\ i = src.count => op.k = "create" /\ Bytes(EmitIndex(src, op, lo, i)) = Bytes(EmitOp(op))
<1>1. PICK new \in Nat : new = NewId(op, lo, i)
  BY NewIdType DEF OpOK
<1>0. src.count \in Nat /\ i <= src.count
  BY TotalType
<1>2. CASE i = src.count
  <2>1. op.k = "create"
    BY <1>2, TotalType
  <2>2. EmitIndex(src, op, lo, i) = NewEntry(op, new)
    BY <1>1, <1>2 DEF EmitIndex
  <2>3. NewOne(NewEntry(op, new), new)
    BY <2>1, NewEntryIs
  <2>4. Bytes(NewEntry(op, new)) = Bytes(NewEntry(op, op.id)) /\ op.id \in Nat
    BY <2>1, NewEntryBytes DEF OpOK
  <2>5. EmitOp(op) = NewEntry(op, op.id)
    BY <2>1 DEF EmitOp
  <2>6. Stays(op, i) /\ ~(i < src.count)
    BY <1>0, <1>2, <2>1 DEF Stays
  <2> QED BY <1>1, <1>2, <2>1, <2>2, <2>3, <2>4, <2>5, <2>6
<1>3. CASE i # src.count
  <2>0. i \in 0 .. src.count - 1 /\ i < src.count
    BY <1>0, <1>3
  <2>1. CASE ~Stays(op, i)
    <3>1. EmitIndex(src, op, lo, i) = <<>> /\ op.k # "noop"
      BY <1>3, <2>1 DEF EmitIndex, Stays
    <3>2. PICK a, b, c \in Nat : a = SlotBytes(src.slots[i + 1]) /\ b = Bytes(src.attrs[i + 1]) /\ c = Cost(op, i)
      <4>1. src.slots \in Seq(Slot) /\ Len(src.slots) = MaxLive /\ i + 1 \in 1 .. MaxLive
        BY <1>0, <2>0, Constants DEF SourceOK, Row
      <4>2. SlotBytes(src.slots[i + 1]) \in Nat
        BY <4>1, SlotBytesNat
      <4>3. Bytes(src.attrs[i + 1]) \in Nat
        BY <2>0, <1>1, RebuiltAttrsBytes
      <4> QED BY <4>2, <4>3, CostNat
    <3>3. TAG = 4 /\ 0 <= (4 + a + b) + c
      BY Constants
    <3>4. Bytes(EmitIndex(src, op, lo, i)) = 0
      BY <3>1, BytesEmpty
    <3> QED BY <1>3, <2>1, <3>1, <3>2, <3>3, <3>4
  <2>2. CASE Stays(op, i)
    <3>1. EmitIndex(src, op, lo, i) = RebuiltEntry(src, i, new, op)
      BY <1>1, <1>3, <2>2 DEF EmitIndex, Stays
    <3>2. LET w == TAG + SlotBytes(src.slots[i + 1]) + Bytes(src.attrs[i + 1])
          IN  /\ NewOne(RebuiltEntry(src, i, new, op), new)
              /\ Bytes(RebuiltEntry(src, i, new, op)) <= w + Cost(op, i)
              /\ op.k = "noop" => Bytes(RebuiltEntry(src, i, new, op)) = w
      BY <2>0, <2>2, RebuiltBytes
    <3> QED BY <1>1, <1>3, <2>2, <3>1, <3>2
  <2> QED BY <2>1, <2>2
<1> QED BY <1>2, <1>3

\* The entries of a range, one after the other.
Parted(g, src, op, lo, n) ==
    /\ g \in [0 .. n -> Seq(Tags)] /\ g[0] = <<>>
    /\ \A k \in 1 .. n : /\ EmitIndex(src, op, lo, lo + k - 1) \in Seq(Tags)
                         /\ g[k] = g[k - 1] \o EmitIndex(src, op, lo, lo + k - 1)

LEMMA RangeParts ==
    ASSUME NEW src, SourceOK(src), NEW op, OpOK(op), Complete(src, op),
           NEW lo \in Nat, NEW hi \in Nat, lo <= hi, hi <= Total(src, op), NEW n \in Nat, n = hi - lo
    PROVE  \E g : Parted(g, src, op, lo, n) /\ EmitRange(src, op, lo, hi) = g[n]
<1> DEFINE e == [k \in 1 .. n |-> EmitIndex(src, op, lo, lo + k - 1)]
<1>0. Total(src, op) \in Nat
  BY TotalType
<1>1. EmitRange(src, op, lo, hi) = FlattenSeq(e)
  BY DEF EmitRange, EmitIndex
<1>2. ASSUME NEW k \in 1 .. n PROVE EmitIndex(src, op, lo, lo + k - 1) \in Seq(Tags)
  <2>1. PICK i \in Nat : i = lo + k - 1 /\ lo <= i /\ i < Total(src, op)
    BY <1>0
  <2> QED BY <1>0, <2>1, EmitIndexType
<1>3. e \in [1 .. n -> Seq(Tags)] /\ \A k \in 1 .. n : e[k] = EmitIndex(src, op, lo, lo + k - 1)
  BY <1>2
<1> HIDE DEF e
<1>4. e \in Seq(Seq(Tags)) /\ Len(e) = n
  BY <1>3
<1>5. PICK g \in [0 .. n -> Seq(Tags)] :
         /\ g[0] = <<>> /\ \A k \in 1 .. n : g[k] = g[k - 1] \o e[k]
         /\ FlattenSeq(e) = g[n]
  <2>1. \E g \in [0 .. Len(e) -> Seq(Tags)] :
          /\ g[0] = <<>> /\ \A k \in 1 .. Len(e) : g[k] = g[k - 1] \o e[k]
          /\ FlattenSeq(e) = g[Len(e)]
    BY <1>4, FlattenExist
  <2> QED BY <1>4, <2>1
<1>6. Parted(g, src, op, lo, n)
  BY <1>2, <1>3, <1>5 DEF Parted
<1> QED BY <1>1, <1>5, <1>6

LEMMA NothingLive == LiveBytes(<<>>) = 0 /\ Gather(<<>>).count = 0 /\ Gather(<<>>).error = None
<1>1. <<>> \in Seq(Tags) /\ Len(<<>>) = 0
  OBVIOUS
<1>2. Gather(<<>>) = Start
  BY <1>1, GatherExist
<1>3. Start.count = 0 /\ Start.error = None
  BY DEF Start
<1>4. PICK p : Sums(p, Weights(<<>>), 0) /\ SumOf(Weights(<<>>), 0) = p[0]
  <2>1. Weights(<<>>) \in [1 .. 0 -> Nat]
    BY <1>1, <1>2, <1>3, WeightType
  <2> QED BY <2>1, SumExist
<1> QED BY <1>2, <1>3, <1>4 DEF LiveBytes, Sums

LEMMA NextId ==
    ASSUME NEW op, op.id \in Nat, NEW lo \in Nat, NEW i \in Nat, lo <= i
    PROVE  /\ Stays(op, i) => NewId(op, lo, i + 1) = NewId(op, lo, i) + 1
           /\ ~Stays(op, i) => NewId(op, lo, i + 1) = NewId(op, lo, i)
           /\ NewId(op, lo, lo) = 0
<1>1. PICK r \in Nat : r = op.id
  OBVIOUS
<1>2. \A m \in Nat : NewId(op, lo, m) = (m - lo) - (IF op.k = "remove" /\ lo <= r /\ r < m THEN 1 ELSE 0)
  BY <1>1 DEF NewId
<1>3. NewId(op, lo, lo) = 0
  <2>1. ~(lo <= r /\ r < lo) /\ lo - lo = 0
    OBVIOUS
  <2> QED BY <1>2, <2>1
<1>4. i + 1 \in Nat /\ ((i + 1) - lo) = (i - lo) + 1 /\ i - lo \in Int
  OBVIOUS
<1>5. CASE op.k = "remove"
  BY <1>1, <1>2, <1>3, <1>4, <1>5 DEF Stays
<1>6. CASE op.k # "remove"
  BY <1>1, <1>2, <1>3, <1>4, <1>6 DEF Stays
<1> QED BY <1>5, <1>6

\* A rebuilt log holds no more that is live than its own tags.
LEMMA RangeGrows ==
    ASSUME NEW src, SourceOK(src), NEW op, OpOK(op), Complete(src, op),
           NEW lo \in Nat, NEW hi \in Nat, lo <= hi, hi <= Total(src, op),
           Gather(EmitRange(src, op, lo, hi)).error = None
    PROVE  LiveBytes(EmitRange(src, op, lo, hi)) <= Bytes(EmitRange(src, op, lo, hi))
<1>1. PICK n \in Nat : n = hi - lo
  OBVIOUS
<1>2. PICK g \in [0 .. n -> Seq(Tags)] :
         /\ g[0] = <<>> /\ EmitRange(src, op, lo, hi) = g[n]
         /\ \A k \in 1 .. n : /\ EmitIndex(src, op, lo, lo + k - 1) \in Seq(Tags)
                              /\ g[k] = g[k - 1] \o EmitIndex(src, op, lo, lo + k - 1)
  <2>1. PICK g : Parted(g, src, op, lo, n) /\ EmitRange(src, op, lo, hi) = g[n]
    BY <1>1, RangeParts
  <2> QED BY <2>1 DEF Parted
<1>0. op.id \in Nat /\ Total(src, op) \in Nat
  BY TotalType DEF OpOK
<1> DEFINE Good(k) == Gather(g[k]).error = None =>
                         Gather(g[k]).count = NewId(op, lo, lo + k) /\ LiveBytes(g[k]) <= Bytes(g[k])
           T == {k \in 0 .. n : Good(k)}
<1>3. 0 \in T
  <2>1. NewId(op, lo, lo) = 0
    BY <1>0, NextId
  <2>2. lo + 0 = lo /\ 0 \in 0 .. n
    OBVIOUS
  <2> QED BY <1>2, <2>1, <2>2, NothingLive, BytesEmpty
<1>4. ASSUME NEW k \in 0 .. n - 1, k \in T PROVE k + 1 \in T
  <2>1. k + 1 \in 1 .. n /\ k + 1 \in 0 .. n /\ (k + 1) - 1 = k /\ k \in 0 .. n
    OBVIOUS
  <2>2. PICK i \in Nat : i = lo + k /\ lo + (k + 1) - 1 = i /\ lo + (k + 1) = i + 1 /\ lo <= i /\ i < Total(src, op)
    BY <1>0, <1>1
  <2>3. PICK x \in Seq(Tags), e \in Seq(Tags) : x = g[k] /\ e = EmitIndex(src, op, lo, i)
    BY <1>2, <2>1, <2>2
  <2>4. g[k + 1] = x \o e
    BY <1>2, <2>1, <2>2, <2>3
  <2>5. SUFFICES ASSUME Gather(x \o e).error = None
                 PROVE  /\ Gather(x \o e).count = NewId(op, lo, i + 1)
                        /\ LiveBytes(x \o e) <= Bytes(x \o e)
    BY <2>1, <2>2, <2>4
  <2>6. Gather(x).error = None
    BY <2>5, GatherSound
  <2>7. Gather(x).count = NewId(op, lo, i) /\ LiveBytes(x) <= Bytes(x)
    BY <1>4, <2>2, <2>3, <2>6
  <2>8. /\ Stays(op, i) => NewOne(e, NewId(op, lo, i))
        /\ ~Stays(op, i) => e = <<>>
    BY <2>2, <2>3, EmitIndexIs
  <2>9. CASE Stays(op, i)
    <3>1. NewOne(e, Gather(x).count)
      BY <2>7, <2>8, <2>9
    <3>2. /\ LiveBytes(x \o e) <= LiveBytes(x) + Bytes(e)
          /\ Gather(x \o e).count = Gather(x).count + 1
      BY <2>5, <3>1, EntryGrows
    <3>3. Bytes(x \o e) = Bytes(x) + Bytes(e) /\ x \o e \in Seq(Tags)
      BY BytesConcat
    <3>4. PICK y \in Seq(Tags) : y = x \o e
      BY <3>3
    <3>5. LiveBytes(x) \in Nat /\ LiveBytes(y) \in Nat /\ Bytes(x) \in Nat /\ Bytes(e) \in Nat
      BY LiveBytesNat, BytesNat
    <3>6. LiveBytes(x \o e) <= Bytes(x \o e)
      BY <2>7, <3>2, <3>3, <3>4, <3>5
    <3>7. NewId(op, lo, i + 1) = NewId(op, lo, i) + 1
      BY <1>0, <2>2, <2>9, NextId
    <3> QED BY <2>7, <3>2, <3>6, <3>7
  <2>10. CASE ~Stays(op, i)
    <3>1. x \o e = x
      BY <2>8, <2>10
    <3>2. NewId(op, lo, i + 1) = NewId(op, lo, i)
      BY <1>0, <2>2, <2>10, NextId
    <3> QED BY <2>7, <3>1, <3>2
  <2> QED BY <2>9, <2>10
<1> HIDE DEF T, Good
<1>5. \A k \in 0 .. n : k \in T
  BY <1>3, <1>4, UpToInduction
<1>6. Good(n)
  BY <1>5 DEF T
<1> QED BY <1>2, <1>6 DEF Good

\* The bytes of a range are those of its entries.
LEMMA RangeBytes ==
    ASSUME NEW src, SourceOK(src), NEW op, OpOK(op), Complete(src, op), NEW n \in Nat, n = Total(src, op)
    PROVE  LET v == [k \in 1 .. n |-> Bytes(EmitIndex(src, op, 0, k - 1))]
           IN  v \in [1 .. n -> Nat] /\ Bytes(EmitRange(src, op, 0, n)) = SumOf(v, n)
<1> DEFINE v == [k \in 1 .. n |-> Bytes(EmitIndex(src, op, 0, k - 1))]
<1>1. PICK g \in [0 .. n -> Seq(Tags)] :
         /\ g[0] = <<>> /\ EmitRange(src, op, 0, n) = g[n]
         /\ \A k \in 1 .. n : /\ EmitIndex(src, op, 0, k - 1) \in Seq(Tags)
                              /\ g[k] = g[k - 1] \o EmitIndex(src, op, 0, k - 1)
  <2>1. 0 \in Nat /\ 0 <= n /\ n <= Total(src, op) /\ n = n - 0
    OBVIOUS
  <2>2. PICK g : Parted(g, src, op, 0, n) /\ EmitRange(src, op, 0, n) = g[n]
    BY <2>1, RangeParts
  <2>3. \A k \in 1 .. n : 0 + k - 1 = k - 1
    OBVIOUS
  <2> QED BY <2>2, <2>3 DEF Parted
<1>2. \A k \in 1 .. n : v[k] = Bytes(EmitIndex(src, op, 0, k - 1)) /\ v[k] \in Nat
  BY <1>1, BytesNat
<1>3. v \in [1 .. n -> Nat]
  BY <1>2
<1> HIDE DEF v
<1>4. PICK p : Sums(p, v, n) /\ SumOf(v, n) = p[n]
  BY <1>3, SumExist
<1> DEFINE T == {k \in 0 .. n : Bytes(g[k]) = p[k]}
<1>5. 0 \in T
  BY <1>1, <1>4, BytesEmpty DEF Sums
<1>6. ASSUME NEW k \in 0 .. n - 1, k \in T PROVE k + 1 \in T
  <2>1. k + 1 \in 1 .. n /\ k + 1 \in 0 .. n /\ (k + 1) - 1 = k /\ k \in 0 .. n
    OBVIOUS
  <2>2. PICK x \in Seq(Tags), e \in Seq(Tags) : x = g[k] /\ e = EmitIndex(src, op, 0, k) /\ g[k + 1] = x \o e
    BY <1>1, <2>1
  <2>3. Bytes(x \o e) = Bytes(x) + Bytes(e)
    BY BytesConcat
  <2>4. v[k + 1] = Bytes(e)
    BY <1>2, <2>1, <2>2
  <2>5. p[k + 1] = p[k] + v[k + 1]
    BY <1>4, <2>1 DEF Sums
  <2>6. Bytes(x) = p[k]
    BY <1>6, <2>2
  <2> QED BY <2>1, <2>2, <2>3, <2>4, <2>5, <2>6
<1> HIDE DEF T
<1>7. \A k \in 0 .. n : k \in T
  BY <1>5, <1>6, UpToInduction
<1>8. Bytes(g[n]) = p[n]
  BY <1>7 DEF T
<1> QED BY <1>1, <1>3, <1>4, <1>8 DEF v

\* What a rebuild reads is what is weighed.
LEMMA SourceWeights ==
    ASSUME NEW log, log.tags \in Seq(Tags), NEW src, src = Source(log)
    PROVE  /\ src.count = Gather(log.tags).count
           /\ \A i \in 1 .. src.count :
                 Weights(log.tags)[i] = TAG + SlotBytes(src.slots[i]) + Bytes(src.attrs[i])
<1>1. PICK w \in Walks : w = Gather(log.tags) /\ w = Live(log)
  BY GatherType DEF Live
<1>2. w.count \in Nat
  BY Constants DEF Walks
<1> DEFINE a == [i \in 1 .. w.count |-> LiveAttrs(AttrTags(log.tags, i - 1))]
<1>3. src = [count |-> w.count, slots |-> w.slots, attrs |-> <<>> \o a]
  BY <1>1 DEF Source
<1>4. a \in Seq(Seq(Attributes))
  <2>1. \A i \in 1 .. w.count : LiveAttrs(AttrTags(log.tags, i - 1)) \in Seq(Attributes)
    <3> SUFFICES ASSUME NEW i \in 1 .. w.count
                 PROVE  LiveAttrs(AttrTags(log.tags, i - 1)) \in Seq(Attributes)
      OBVIOUS
    <3>1. i - 1 \in Nat
      BY <1>2
    <3>2. AttrTags(log.tags, i - 1) \in Seq(Attributes)
      BY <3>1, AttrTagsType
    <3> QED BY <3>2, LiveAttrsType
  <2> QED BY <1>2, <2>1, IsASeq
<1>5. <<>> \o a = a
  BY <1>4
<1>6. \A i \in 1 .. w.count : a[i] = LiveAttrs(AttrTags(log.tags, i - 1))
  OBVIOUS
<1> HIDE DEF a
<1>7. src.count = w.count /\ src.slots = w.slots /\ src.attrs = a
  BY <1>3, <1>5
<1> QED BY <1>1, <1>6, <1>7 DEF Weights, Weight

\* The rebuild of a whole log takes no more than what is live in it and what
\* the operation adds; a removal frees at least the removed entry's Create.
LEMMA WholeBytes ==
    ASSUME NEW log, log.tags \in Seq(Tags), NEW src, src = Source(log),
           NEW op, OpOK(op), Complete(src, op), NEW n \in Nat, n = Total(src, op)
    PROVE  /\ Bytes(EmitRange(src, op, 0, n)) \in Nat
           /\ Bytes(EmitRange(src, op, 0, n)) <= LiveBytes(log.tags) + Bytes(EmitOp(op))
           /\ op.k = "remove" /\ op.id < src.count =>
                 Bytes(EmitRange(src, op, 0, n)) + TAG <= LiveBytes(log.tags)
           /\ op.k = "noop" => LiveBytes(log.tags) <= Bytes(EmitRange(src, op, 0, n))
<1>0. SourceOK(src)
  BY SourceType
<1>1. PICK m \in Nat : m = src.count /\ m = Gather(log.tags).count
  BY <1>0, TotalType, SourceWeights
<1>2. PICK w \in [1 .. m -> Nat] : w = Weights(log.tags) /\ LiveBytes(log.tags) = SumOf(w, m)
                                   /\ \A i \in 1 .. m : w[i] >= TAG
  <2>1. /\ Weights(log.tags) \in [1 .. m -> Nat]
        /\ \A i \in 1 .. m : Weights(log.tags)[i] >= TAG
    BY <1>1, WeightType DEF Weights
  <2> QED BY <1>1, <2>1 DEF LiveBytes
<1>3. \A i \in 1 .. m : w[i] = TAG + SlotBytes(src.slots[i]) + Bytes(src.attrs[i])
  BY <1>1, <1>2, SourceWeights
<1>4. PICK v \in [1 .. n -> Nat] : /\ \A k \in 1 .. n : v[k] = Bytes(EmitIndex(src, op, 0, k - 1))
                                   /\ Bytes(EmitRange(src, op, 0, n)) = SumOf(v, n)
  BY <1>0, RangeBytes
<1>5. n = IF op.k = "create" THEN m + 1 ELSE m
  BY <1>0, <1>1, TotalType
<1>6. PICK e \in Nat : e = Bytes(EmitOp(op))
  BY EmitOpBytes
<1>7. op.id \in Nat /\ op.k \in OpKinds /\ TAG = 4
  BY Constants DEF OpOK
<1>8. ASSUME NEW k \in 1 .. m
      PROVE  /\ v[k] <= w[k] + Cost(op, k - 1)
             /\ op.k = "noop" => v[k] = w[k]
             /\ ~Stays(op, k - 1) => v[k] = 0
  <2>1. PICK i \in Nat : i = k - 1 /\ k = i + 1 /\ 0 <= i /\ i < src.count /\ i < Total(src, op) /\ 0 \in Nat
    BY <1>1, <1>5
  <2>2. k \in 1 .. n
    BY <1>5
  <2>3. /\ ~Stays(op, i) => EmitIndex(src, op, 0, i) = <<>>
        /\ Bytes(EmitIndex(src, op, 0, i)) <=
                    (TAG + SlotBytes(src.slots[i + 1]) + Bytes(src.attrs[i + 1])) + Cost(op, i)
        /\ op.k = "noop" => Bytes(EmitIndex(src, op, 0, i)) =
                    TAG + SlotBytes(src.slots[i + 1]) + Bytes(src.attrs[i + 1])
    BY <1>0, <2>1, EmitIndexIs
  <2>4. v[k] = Bytes(EmitIndex(src, op, 0, i))
    BY <1>4, <2>1, <2>2
  <2>5. w[k] = TAG + SlotBytes(src.slots[i + 1]) + Bytes(src.attrs[i + 1])
    BY <1>3, <2>1
  <2> QED BY <2>1, <2>3, <2>4, <2>5, BytesEmpty
<1>9. CASE op.k = "create"
  <2>1. n = m + 1 /\ m + 1 \in 1 .. n
    BY <1>5, <1>9
  <2>2. \A k \in 1 .. m : v[k] <= w[k]
    <3> SUFFICES ASSUME NEW k \in 1 .. m PROVE v[k] <= w[k]
      OBVIOUS
    <3>1. Cost(op, k - 1) = 0
      BY <1>9 DEF Cost, Touches
    <3> QED BY <1>8, <3>1
  <2>3. v[m + 1] = e
    <3>1. 0 \in Nat /\ m \in Nat /\ 0 <= m /\ m < Total(src, op) /\ (m + 1) - 1 = m
      BY <2>1
    <3>2. Bytes(EmitIndex(src, op, 0, m)) = Bytes(EmitOp(op))
      <4>1. m = src.count =>
               op.k = "create" /\ Bytes(EmitIndex(src, op, 0, m)) = Bytes(EmitOp(op))
        BY <1>0, <3>1, EmitIndexIs
      <4> QED BY <1>1, <4>1
    <3> QED BY <1>4, <1>6, <2>1, <3>1, <3>2
  <2>4. SumOf(v, m + 1) \in Nat /\ SumOf(w, m) \in Nat /\ SumOf(v, m + 1) <= SumOf(w, m) + v[m + 1]
    BY <2>1, <2>2, SumPush
  <2> QED BY <1>2, <1>4, <1>6, <1>9, <2>1, <2>3, <2>4
<1>10. CASE op.k = "remove"
  <2>1. n = m
    BY <1>5, <1>10
  <2>2. Bumped(v, w, m, 0, 0)
    <3> SUFFICES ASSUME NEW k \in 1 .. m PROVE v[k] <= w[k] + (IF k = 0 THEN 0 ELSE 0)
      BY DEF Bumped
    <3>1. Cost(op, k - 1) = 0
      BY <1>10 DEF Cost, Touches
    <3> QED BY <1>8, <3>1
  <2>3. SumOf(v, m) \in Nat /\ SumOf(w, m) \in Nat /\ SumOf(v, m) <= SumOf(w, m) + 0
    BY <2>1, <2>2, SumBump
  <2>4. op.id < m => SumOf(v, m) + 4 <= SumOf(w, m)
    <3> SUFFICES ASSUME op.id < m PROVE SumOf(v, m) + 4 <= SumOf(w, m)
      OBVIOUS
    <3>1. PICK j \in 1 .. m : j = op.id + 1 /\ j - 1 = op.id
      BY <1>7
    <3>2. v[j] = 0
      BY <1>8, <1>10, <3>1 DEF Stays
    <3>3. v[j] + 4 <= w[j]
      BY <1>2, <1>7, <3>2
    <3> QED BY <2>1, <2>2, <3>3, SumLess
  <2> QED BY <1>1, <1>2, <1>4, <1>6, <1>7, <1>10, <2>1, <2>3, <2>4
<1>11. CASE op.k \notin {"create", "remove"}
  <2>1. n = m
    BY <1>5, <1>11
  <2>2. Bumped(v, w, m, op.id + 1, e)
    <3> SUFFICES ASSUME NEW k \in 1 .. m PROVE v[k] <= w[k] + (IF k = op.id + 1 THEN e ELSE 0)
      BY DEF Bumped
    <3>1. PICK c \in Nat : c = Cost(op, k - 1)
      BY CostNat
    <3>2. c <= (IF k = op.id + 1 THEN e ELSE 0)
      <4>1. CASE op.id = k - 1
        BY <1>6, <3>1, <4>1 DEF Cost
      <4>2. CASE op.id # k - 1
        BY <3>1, <4>2, <1>6 DEF Cost, Touches
      <4> QED BY <4>1, <4>2
    <3>3. v[k] <= w[k] + c /\ v[k] \in Nat /\ w[k] \in Nat
      BY <1>8, <2>1, <3>1
    <3> QED BY <3>2, <3>3, <1>6
  <2>3. SumOf(v, m) \in Nat /\ SumOf(w, m) \in Nat /\ SumOf(v, m) <= SumOf(w, m) + e
    <3>1. op.id + 1 \in Nat
      BY <1>7
    <3> QED BY <2>1, <2>2, <3>1, SumBump
  <2>4. op.k = "noop" => SumOf(w, m) <= SumOf(v, m) + 0
    <3> SUFFICES ASSUME op.k = "noop" PROVE SumOf(w, m) <= SumOf(v, m) + 0
      OBVIOUS
    <3>1. Bumped(w, v, m, 0, 0)
      <4> SUFFICES ASSUME NEW k \in 1 .. m PROVE w[k] <= v[k] + (IF k = 0 THEN 0 ELSE 0)
        BY DEF Bumped
      <4> QED BY <1>8
    <3> QED BY <2>1, <3>1, SumBump
  <2> QED BY <1>2, <1>4, <1>6, <1>11, <2>1, <2>3, <2>4
<1> QED BY <1>9, <1>10, <1>11

\* What is live grows by no more than the append.
LEMMA AppendGrows ==
    ASSUME NEW s \in Seq(Tags), NEW op, OpOK(op), Placed(op, Gather(s).count),
           Gather(s \o EmitOp(op)).error = None
    PROVE  LiveBytes(s \o EmitOp(op)) <= LiveBytes(s) + Bytes(EmitOp(op))
<1>0. PICK e \in Seq(Tags) : e = EmitOp(op)
  BY EmitOpBytes
<1>1. op.id \in Nat /\ op.k \in OpKinds
  BY DEF OpOK
<1>2. CASE op.k = "create"
  <2>1. e = NewEntry(op, Gather(s).count) /\ Gather(s).count \in Nat
    BY <1>0, <1>1, <1>2 DEF EmitOp, Placed
  <2>2. NewOne(e, Gather(s).count)
    BY <1>2, <2>1, NewEntryIs
  <2> QED BY <1>0, <2>2, EntryGrows
<1>3. CASE op.k = "remove"
  <2>1. PICK t \in Tags : t = DeleteTag(op.id) /\ t.body = None
    BY <1>1, TagTypes
  <2>2. e = <<t>> /\ t.type = "delete" /\ t.id = op.id
    BY <1>0, <1>3, <2>1 DEF EmitOp, DeleteTag
  <2>3. InPlace(Gather(s), t)
    BY <1>3, <2>2 DEF InPlace, Placed
  <2>4. Gather(s \o <<t>>).error = None
    BY <1>0, <2>2
  <2>5. Gather(s).error = None
    BY <1>0, GatherSound
  <2>6. LiveBytes(s \o <<t>>) <= LiveBytes(s) + (TAG + Length[t.body])
    BY <2>3, <2>4, <2>5, TagGrows
  <2>7. Bytes(<<t>>) = TAG + Length[t.body]
    BY BytesOne
  <2> QED BY <1>0, <2>2, <2>6, <2>7
<1>4. CASE op.k \in {"update", "rename", "setattr", "removeattr"}
  <2>1. PICK t \in Tags : e = <<t>> /\ t.id = op.id /\ t.type \notin {"create", "delete"}
    <3>1. CASE op.k = "update"
      <4>1. op.struct \in Structure
        BY <3>1 DEF OpOK
      <4>2. PICK t \in Tags : t = StructTag(op.id, op.struct)
        BY <1>1, <4>1, TagTypes
      <4>3. t.id = op.id /\ t.type = op.struct.type
        BY <4>2 DEF StructTag
      <4>4. t.type \notin {"create", "delete"}
        BY <4>1, <4>3 DEF Structure, StructTypes
      <4>5. e = <<t>>
        BY <1>0, <3>1, <4>2 DEF EmitOp
      <4> QED BY <4>3, <4>4, <4>5
    <3>2. CASE op.k = "rename"
      <4>1. op.kind \in NameTypes /\ op.name \in Body
        BY <3>2 DEF OpOK
      <4>2. PICK t \in Tags : t = NameTag(op.id, op.kind, op.name)
        BY <1>1, <4>1, TagTypes
      <4>3. t.id = op.id /\ t.type = op.kind
        BY <4>2 DEF NameTag
      <4>4. t.type \notin {"create", "delete"}
        BY <4>1, <4>3 DEF NameTypes
      <4>5. e = <<t>>
        BY <1>0, <3>2, <4>2 DEF EmitOp
      <4> QED BY <4>3, <4>4, <4>5
    <3>3. CASE op.k \in {"setattr", "removeattr"}
      <4>1. op.attr \in Attrs \cup {None} /\ op.value \in Body
        BY <3>3 DEF OpOK
      <4>2. PICK t \in Tags : t = AttrTag(op.id, op.attr, op.value)
        BY <1>1, <4>1, TagTypes
      <4>3. t.id = op.id /\ t.type = "attr"
        BY <4>2 DEF AttrTag
      <4>4. e = <<t>>
        BY <1>0, <3>3, <4>2 DEF EmitOp
      <4> QED BY <4>3, <4>4
    <3> QED BY <1>4, <3>1, <3>2, <3>3
  <2>2. OfEntry(e, op.id)
    BY <2>1, OfEntryOne
  <2>3. op.id < Gather(s).count
    BY <1>4 DEF Placed
  <2> QED BY <1>0, <1>1, <2>2, <2>3, TagsGrow
<1>5. CASE op.k = "noop"
  <2>1. e = <<>>
    BY <1>0, <1>5 DEF EmitOp
  <2>2. s \o e = s
    BY <2>1
  <2> QED BY <1>0, <2>1, <2>2, BytesEmpty, LiveBytesNat
<1> QED BY <1>1, <1>2, <1>3, <1>4, <1>5 DEF OpKinds

----------------------------------------------------------------------------
(* A log this writer left, and what becomes of it.                         *)

\* The bytes a commit of everything a log holds would take, but for its CCRC.
Taken(tags, ms, rs, tail) ==
    REVISION + Bytes(tags) + If(ms, MOVE_STATE) + If(rs, RELOCATE_STATE) + If(tail, TAIL)

\* The log's commits hold its tags and deltas.
Holds(log) == log.end >= Used(log) + CCRC + If(log.erased, FCRC)

\* And it is no shorter than its rebuild, but for the superblock's Create.
Owned(log, superblock) ==
    Holds(log) /\ LiveBytes(log.tags) <= Bytes(log.tags) + If(superblock, TAG)

LEMMA TakenType ==
    ASSUME NEW tags \in Seq(Tags), NEW ms \in BOOLEAN, NEW rs \in BOOLEAN, NEW tail \in BOOLEAN
    PROVE  Taken(tags, ms, rs, tail) \in Nat /\ Taken(tags, ms, rs, tail) >= 4
<1>1. Bytes(tags) \in Nat
  BY BytesNat
<1>2. If(ms, MOVE_STATE) \in Nat /\ If(rs, RELOCATE_STATE) \in Nat /\ If(tail, TAIL) \in Nat
  BY Constants, IfType
<1> QED BY <1>1, <1>2, Constants DEF Taken

LEMMA CommitHolds ==
    ASSUME NEW off \in Nat, NEW end, end = FinishPadded(off), end # None
    PROVE  end >= off + CCRC + If(EmitsFcrc(off, end), FCRC)
<1>1. end \in Nat /\ end >= off + CCRC
  BY FinishPaddedIs, Constants
<1>2. EmitsFcrc(off, end) => end >= off + FCRC + CCRC
  BY DEF EmitsFcrc
<1>3. CCRC = 8 /\ FCRC = 12
  BY Constants
<1>4. CASE EmitsFcrc(off, end)
  <2>1. PICK x : x = If(EmitsFcrc(off, end), FCRC)
    OBVIOUS
  <2>2. x = 12
    BY <1>3, <1>4, <2>1 DEF If
  <2>3. end >= off + CCRC + x
    BY <1>1, <1>2, <1>3, <1>4, <2>2
  <2> QED BY <2>1, <2>3
<1>5. CASE ~EmitsFcrc(off, end)
  <2>1. If(EmitsFcrc(off, end), FCRC) = 0
    BY <1>5 DEF If
  <2> QED BY <1>1, <1>3, <2>1
<1> QED BY <1>4, <1>5

\* A log of one commit, if there is room for it, holds what it was given.
LEMMA OneCommitHolds ==
    ASSUME NEW tags \in Seq(Tags), NEW ms \in BOOLEAN, NEW rs \in BOOLEAN, NEW tail \in BOOLEAN,
           NEW new, new = OneCommit(tags, ms, rs, tail)
    PROVE  /\ new # None => Holds(new) /\ new.tags = tags
           /\ Taken(tags, ms, rs, tail) + CCRC <= BlockSize => new # None
<1>1. PICK off \in Nat : off = Taken(tags, ms, rs, tail)
  BY TakenType
<1>2. PICK end : end = FinishPadded(off)
  OBVIOUS
<1>3. new = IF end = None THEN None
            ELSE [tags |-> tags, end |-> end, erased |-> EmitsFcrc(off, end),
                  ms |-> ms, rs |-> rs, tail |-> tail]
  BY <1>1, <1>2 DEF OneCommit, Taken
<1>4. new # None => Holds(new) /\ new.tags = tags
  <2> SUFFICES ASSUME new # None PROVE Holds(new) /\ new.tags = tags
    OBVIOUS
  <2>1. end # None /\ new = [tags |-> tags, end |-> end, erased |-> EmitsFcrc(off, end),
                             ms |-> ms, rs |-> rs, tail |-> tail]
    BY <1>3
  <2>2. /\ new.tags = tags /\ new.end = end /\ new.erased = EmitsFcrc(off, end)
        /\ new.ms = ms /\ new.rs = rs /\ new.tail = tail
    BY <2>1
  <2>3. Used(new) = off
    BY <1>1, <2>2 DEF Used, Taken
  <2>4. end >= off + CCRC + If(EmitsFcrc(off, end), FCRC)
    BY <1>2, <2>1, CommitHolds
  <2> QED BY <2>2, <2>3, <2>4 DEF Holds
<1>5. off + CCRC <= BlockSize => end # None
  BY <1>2, FinishPaddedIs
<1>6. end # None => new # None
  <2> SUFFICES ASSUME end # None, new = None PROVE FALSE
    OBVIOUS
  <2>1. off >= 4 /\ end \in off + CCRC .. BlockSize /\ end % ProgSize = 0
    BY <1>1, <1>2, TakenType, FinishPaddedIs
  <2>2. PICK e \in 4 .. BlockSize : e = end /\ e % ProgSize = 0
    BY <2>1, Constants
  <2>3. PICK erased \in BOOLEAN : erased = EmitsFcrc(off, end)
    BY EmitsFcrcType
  <2>4. new = [tags |-> tags, end |-> e, erased |-> erased, ms |-> ms, rs |-> rs, tail |-> tail]
    BY <1>3, <2>2, <2>3
  <2>5. new \in Logs
    BY <2>2, <2>4, LogOf DEF Programmed
  <2> QED BY <2>5, DataAssumption
<1> QED BY <1>1, <1>4, <1>5, <1>6

\* The bytes of the deltas and of the tail.
Deltas(ms, rs, tail) == If(ms, MOVE_STATE) + If(rs, RELOCATE_STATE) + If(tail, TAIL)

LEMMA IfIs ==
    ASSUME NEW c \in BOOLEAN, NEW n \in Nat
    PROVE  (c => If(c, n) = n) /\ (~c => If(c, n) = 0)
BY DEF If

LEMMA DeltasType ==
    ASSUME NEW ms \in BOOLEAN, NEW rs \in BOOLEAN, NEW tail \in BOOLEAN
    PROVE  /\ Deltas(ms, rs, tail) \in Nat
           /\ \A tags \in Seq(Tags) : Taken(tags, ms, rs, tail) = 4 + Bytes(tags) + Deltas(ms, rs, tail)
           /\ Deltas(ms, TRUE, tail) <= Deltas(ms, rs, tail) + 20
<1>1. PICK a, b, c, d \in Nat : /\ a = If(ms, MOVE_STATE) /\ b = If(rs, RELOCATE_STATE) /\ c = If(tail, TAIL)
                                /\ d = If(TRUE, RELOCATE_STATE)
  BY Constants, IfType
<1>2. d = 20
  BY <1>1, IfIs, Constants
<1>3. Deltas(ms, rs, tail) = a + b + c /\ Deltas(ms, TRUE, tail) = a + d + c
  BY <1>1 DEF Deltas
<1>5. a + b + c \in Nat /\ a + d + c <= (a + b + c) + 20
  BY ONLY <1>2, a \in Nat, b \in Nat, c \in Nat, d \in Nat
<1>4. ASSUME NEW tags \in Seq(Tags)
      PROVE  Taken(tags, ms, rs, tail) = 4 + Bytes(tags) + Deltas(ms, rs, tail)
  <2>1. PICK e \in Nat : e = Bytes(tags)
    BY BytesNat
  <2>2. Taken(tags, ms, rs, tail) = REVISION + e + a + b + c
    BY <1>1, <2>1 DEF Taken
  <2>3. REVISION + e + a + b + c = 4 + e + (a + b + c)
    BY Constants
  <2> QED BY <1>3, <2>1, <2>2, <2>3
<1>6. /\ Deltas(ms, rs, tail) \in Nat
      /\ Deltas(ms, TRUE, tail) <= Deltas(ms, rs, tail) + 20
  BY <1>3, <1>5
<1> QED BY <1>4, <1>6

LEMMA FoldedBytes ==
    ASSUME NEW old \in BOOLEAN, NEW delta \in BOOLEAN, NEW n \in Nat, NEW m \in Folded(old, delta)
    PROVE  /\ If(m, n) \in Nat /\ If(old, n) \in Nat /\ If(delta, n) \in Nat
           /\ If(m, n) <= If(old, n) + If(delta, n)
           /\ ~delta => m = old
<1>1. m \in BOOLEAN
  BY FoldedType
<1>2. PICK a, b, c \in Nat : a = If(m, n) /\ b = If(old, n) /\ c = If(delta, n)
  BY IfType
<1>3. a <= n /\ (m => a = n) /\ (~m => a = 0) /\ (old => b = n) /\ (delta => c = n)
  BY <1>1, <1>2, IfIs
<1>4. CASE delta
  <2>1. a <= b + c
    BY <1>3, <1>4
  <2> QED BY <1>2, <1>4, <2>1
<1>5. CASE ~delta
  <2>1. m = old
    BY <1>5 DEF Folded
  <2>2. a = b
    BY <1>2, <2>1
  <2>3. a <= b + c
    BY <2>2
  <2> QED BY <1>2, <2>1, <2>3
<1> QED BY <1>4, <1>5

\* A commit leaves no more deltas than there were and it brings.
LEMMA DeltasAfter ==
    ASSUME NEW log \in Logs, NEW x, ExtraOK(x), NEW ms \in Folded(log.ms, x.ms),
           NEW rs \in Folded(log.rs, x.rs), NEW tail, tail = TailAfter(log, x)
    PROVE  /\ ms \in BOOLEAN /\ rs \in BOOLEAN /\ tail \in BOOLEAN
           /\ Deltas(log.ms, log.rs, log.tail) \in Nat /\ Extra(x) \in Nat
           /\ Deltas(ms, rs, tail) \in Nat
           /\ Deltas(ms, rs, tail) <= Deltas(log.ms, log.rs, log.tail) + Extra(x)
<1>1. /\ log.ms \in BOOLEAN /\ log.rs \in BOOLEAN /\ log.tail \in BOOLEAN
      /\ x.ms \in BOOLEAN /\ x.rs \in BOOLEAN
  BY LogMembers DEF ExtraOK
<1>2. ms \in BOOLEAN /\ rs \in BOOLEAN /\ tail \in BOOLEAN
  BY <1>1, FoldedType, TailAfterType
<1>3. PICK c \in BOOLEAN : c = (x.tail # "keep")
  OBVIOUS
<1>4. PICK a, b, d \in Nat : a = If(ms, MOVE_STATE) /\ b = If(log.ms, MOVE_STATE) /\ d = If(x.ms, MOVE_STATE) /\ a <= b + d
  <2>1. MOVE_STATE \in Nat
    BY Constants
  <2>2. PICK p \in BOOLEAN, q \in BOOLEAN : p = log.ms /\ q = x.ms
    BY <1>1
  <2>3. ms \in Folded(p, q)
    BY <2>2
  <2>4. /\ If(ms, MOVE_STATE) \in Nat /\ If(p, MOVE_STATE) \in Nat /\ If(q, MOVE_STATE) \in Nat
        /\ If(ms, MOVE_STATE) <= If(p, MOVE_STATE) + If(q, MOVE_STATE)
    BY <2>1, <2>3, FoldedBytes
  <2> QED BY <2>2, <2>4
<1>5. PICK e, f, g \in Nat : e = If(rs, RELOCATE_STATE) /\ f = If(log.rs, RELOCATE_STATE)
                             /\ g = If(x.rs, RELOCATE_STATE) /\ e <= f + g
  <2>1. RELOCATE_STATE \in Nat
    BY Constants
  <2>2. PICK p \in BOOLEAN, q \in BOOLEAN : p = log.rs /\ q = x.rs
    BY <1>1
  <2>3. rs \in Folded(p, q)
    BY <2>2
  <2>4. /\ If(rs, RELOCATE_STATE) \in Nat /\ If(p, RELOCATE_STATE) \in Nat /\ If(q, RELOCATE_STATE) \in Nat
        /\ If(rs, RELOCATE_STATE) <= If(p, RELOCATE_STATE) + If(q, RELOCATE_STATE)
    BY <2>1, <2>3, FoldedBytes
  <2> QED BY <2>2, <2>4
<1>6. PICK h, i, j \in Nat : h = If(tail, TAIL) /\ i = If(log.tail, TAIL) /\ j = If(c, TAIL) /\ h <= i + j
  <2>1. TAIL = 12
    BY Constants
  <2>2. PICK h, i, j \in Nat : h = If(tail, TAIL) /\ i = If(log.tail, TAIL) /\ j = If(c, TAIL) /\ h <= 12
    BY <2>1, IfType
  <2>3. CASE c
    <3>1. j = 12
      BY <2>1, <2>2, <2>3, IfIs
    <3> QED BY <2>2, <3>1
  <2>4. CASE ~c
    <3>1. tail = log.tail
      BY <1>3, <2>4 DEF TailAfter
    <3>2. h = i
      BY <2>2, <3>1
    <3> QED BY <2>2, <3>2
  <2> QED BY <2>3, <2>4
<1>7. Extra(x) = d + g + j
  BY <1>3, <1>4, <1>5, <1>6 DEF Extra
<1>8. Deltas(ms, rs, tail) = a + e + h /\ Deltas(log.ms, log.rs, log.tail) = b + f + i
  BY <1>4, <1>5, <1>6 DEF Deltas
<1>9. a + e + h <= (b + f + i) + (d + g + j)
  BY ONLY <1>4, <1>5, <1>6, a \in Nat, b \in Nat, d \in Nat, e \in Nat, f \in Nat, g \in Nat,
          h \in Nat, i \in Nat, j \in Nat
<1> QED BY <1>2, <1>7, <1>8, <1>9

\* What a log takes, and where it ends.
LEMMA HoldsIs ==
    ASSUME NEW log \in Logs
    PROVE  /\ Used(log) = 4 + Bytes(log.tags) + Deltas(log.ms, log.rs, log.tail)
           /\ Bytes(log.tags) \in Nat /\ Deltas(log.ms, log.rs, log.tail) \in Nat /\ log.end \in Nat
           /\ Holds(log) => log.end >= Used(log) + 8
           /\ Holds(log) /\ log.erased => log.end >= Used(log) + 20
<1>1. /\ log.ms \in BOOLEAN /\ log.rs \in BOOLEAN /\ log.tail \in BOOLEAN /\ log.tags \in Seq(Tags)
      /\ log.end \in Nat /\ log.erased \in BOOLEAN
  BY LogMembers
<1>2. Used(log) = Taken(log.tags, log.ms, log.rs, log.tail)
  BY DEF Used, Taken
<1>3. Taken(log.tags, log.ms, log.rs, log.tail) = 4 + Bytes(log.tags) + Deltas(log.ms, log.rs, log.tail)
      /\ Deltas(log.ms, log.rs, log.tail) \in Nat /\ Bytes(log.tags) \in Nat
  <2>1. PICK m \in BOOLEAN, r \in BOOLEAN, t \in BOOLEAN, tags \in Seq(Tags) :
           m = log.ms /\ r = log.rs /\ t = log.tail /\ tags = log.tags
    BY <1>1
  <2>2. Taken(tags, m, r, t) = 4 + Bytes(tags) + Deltas(m, r, t) /\ Deltas(m, r, t) \in Nat
    BY DeltasType
  <2> QED BY <2>1, <2>2, BytesNat
<1>4. PICK f \in Nat : f = If(log.erased, FCRC)
  BY Constants, IfType
<1>5. log.erased => f = 12
  BY <1>1, <1>4, IfIs, Constants
<1>6. Holds(log) => log.end >= Used(log) + 8 + f
  BY <1>4, Constants DEF Holds
<1>7. Used(log) \in Nat
  BY <1>2, <1>3
<1> QED BY <1>1, <1>2, <1>3, <1>5, <1>6, <1>7

\* An append keeps the log one this writer left.
LEMMA AppendOwned ==
    ASSUME NEW log \in Logs, NEW op, OpOK(op), NEW x, ExtraOK(x), CanAppend(log, op, x),
           NEW ms \in Folded(log.ms, x.ms), NEW rs \in Folded(log.rs, x.rs),
           NEW sb \in BOOLEAN, Owned(log, sb), Placed(op, Live(log).count),
           NEW new, new = Appended(log, op, x, ms, rs), Live(new).error = None
    PROVE  Owned(new, sb)
<1>1. PICK off, end : off = AppendOff(log, op, x) /\ end = FinishPadded(off)
  OBVIOUS
<1>2. PICK tail : tail = TailAfter(log, x)
  OBVIOUS
<1>3. PICK tags \in Seq(Tags), e \in Seq(Tags), old \in Seq(Tags) :
         /\ e = EmitOp(op) /\ old = log.tags /\ tags = old \o e /\ Bytes(tags) = Bytes(old) + Bytes(e)
  <2>1. PICK e \in Seq(Tags), old \in Seq(Tags) : e = EmitOp(op) /\ old = log.tags
    BY LogMembers, EmitOpBytes
  <2>2. PICK tags \in Seq(Tags) : tags = old \o e /\ Bytes(tags) = Bytes(old) + Bytes(e)
    BY BytesConcat
  <2> QED BY <2>1, <2>2
<1>4. new = [tags |-> tags, end |-> end, erased |-> EmitsFcrc(off, end), ms |-> ms, rs |-> rs, tail |-> tail]
  BY <1>1, <1>2, <1>3 DEF Appended
<1>5. /\ new.tags = tags /\ new.end = end /\ new.erased = EmitsFcrc(off, end)
      /\ new.ms = ms /\ new.rs = rs /\ new.tail = tail
  BY <1>4
<1>6. /\ ms \in BOOLEAN /\ rs \in BOOLEAN /\ tail \in BOOLEAN
      /\ Deltas(log.ms, log.rs, log.tail) \in Nat /\ Extra(x) \in Nat /\ Deltas(ms, rs, tail) \in Nat
      /\ Deltas(ms, rs, tail) <= Deltas(log.ms, log.rs, log.tail) + Extra(x)
  BY <1>2, DeltasAfter
<1>7. end # None
  BY <1>1, <1>6, AppendIs
<1>8. PICK a, b, c, d, f, g \in Nat :
         /\ a = Bytes(old) /\ b = Bytes(e) /\ c = Deltas(log.ms, log.rs, log.tail)
         /\ d = Extra(x) /\ f = Deltas(ms, rs, tail) /\ g = log.end
  BY <1>6, BytesNat, HoldsIs
<1>9. g >= (4 + a + c) + 8
  BY <1>3, <1>8, HoldsIs DEF Owned
<1>10. off = g + b + d
  BY <1>1, <1>3, <1>8 DEF AppendOff
<1>11. PICK t \in Nat : t = Taken(tags, ms, rs, tail) /\ t = 4 + (a + b) + f
  <2>1. Taken(tags, ms, rs, tail) = 4 + Bytes(tags) + Deltas(ms, rs, tail)
    BY <1>6, DeltasType
  <2> QED BY <1>3, <1>8, <2>1
<1>12. f <= c + d
  BY <1>6, <1>8
<1>13. off \in Nat /\ t <= off
  BY ONLY <1>9, <1>10, <1>11, <1>12, a \in Nat, b \in Nat, c \in Nat, d \in Nat, f \in Nat, g \in Nat, t \in Nat
<1>14. end >= off + CCRC + If(EmitsFcrc(off, end), FCRC) /\ end \in Nat
  BY <1>1, <1>7, <1>13, CommitHolds, FinishPaddedIs
<1>15. Holds(new)
  <2>1. PICK i \in Nat : i = If(EmitsFcrc(off, end), FCRC)
    BY Constants, IfType
  <2>2. Used(new) = t
    BY <1>5, <1>11 DEF Used, Taken
  <2>3. end >= t + CCRC + i
    BY <1>13, <1>14, <2>1, Constants
  <2> QED BY <1>5, <2>1, <2>2, <2>3 DEF Holds
<1>16. LiveBytes(tags) <= Bytes(tags) + If(sb, TAG)
  <2>1. Gather(old \o e).error = None
    BY <1>3, <1>5 DEF Live
  <2>2. LiveBytes(old \o e) <= LiveBytes(old) + Bytes(e)
    BY <1>3, <2>1, AppendGrows DEF Live
  <2>3. PICK i \in Nat : i = If(sb, TAG)
    BY Constants, IfType
  <2>4. LiveBytes(old) <= Bytes(old) + i
    BY <1>3, <2>3 DEF Owned
  <2>5. PICK l, k \in Nat : l = LiveBytes(old) /\ k = LiveBytes(tags)
    BY LiveBytesNat
  <2>6. k <= l + b /\ l <= a + i
    BY <1>3, <1>8, <2>2, <2>4, <2>5
  <2>7. k <= (a + b) + i
    BY ONLY <2>6, a \in Nat, b \in Nat, i \in Nat, k \in Nat, l \in Nat
  <2> QED BY <1>3, <1>8, <2>3, <2>5, <2>7
<1> QED BY <1>5, <1>15, <1>16 DEF Owned

----------------------------------------------------------------------------
(* A rebuild.                                                              *)

\* A range that can be replayed is no longer than its rebuild, an empty one too.
LEMMA AnyRangeGrows ==
    ASSUME NEW src, SourceOK(src), NEW op, OpOK(op), Complete(src, op),
           NEW lo \in 0 .. Total(src, op), NEW hi \in 0 .. Total(src, op),
           Gather(EmitRange(src, op, lo, hi)).error = None
    PROVE  LiveBytes(EmitRange(src, op, lo, hi)) <= Bytes(EmitRange(src, op, lo, hi))
<1>0. Total(src, op) \in Nat /\ lo \in Nat /\ hi \in Nat /\ lo <= Total(src, op) /\ hi <= Total(src, op)
  BY TotalType
<1>1. CASE lo <= hi
  BY <1>0, <1>1, RangeGrows
<1>2. CASE ~(lo <= hi)
  <2> DEFINE e == [k \in 1 .. hi - lo |-> EmitIndex(src, op, lo, lo + k - 1)]
  <2>1. EmitRange(src, op, lo, hi) = FlattenSeq(e)
    BY DEF EmitRange, EmitIndex
  <2>2. 1 .. hi - lo = {}
    BY <1>0, <1>2
  <2>3. e = <<>>
    BY <2>2
  <2>4. FlattenSeq(<<>>) = <<>>
    BY DEF FlattenSeq
  <2>5. EmitRange(src, op, lo, hi) = <<>>
    BY <2>1, <2>3, <2>4
  <2> QED BY <2>5, NothingLive, BytesEmpty
<1> QED BY <1>1, <1>2

\* A log of one commit that can be replayed is one this writer leaves.
LEMMA PartOwned ==
    ASSUME NEW src, SourceOK(src), NEW op, OpOK(op), Complete(src, op),
           NEW part, PartOf(part, src, op), Live(part).error = None, NEW sb \in BOOLEAN
    PROVE  Owned(part, sb)
<1>1. PICK lo \in 0 .. Total(src, op), hi \in 0 .. Total(src, op), m \in BOOLEAN, q \in BOOLEAN, t \in BOOLEAN :
         part = Compact(src, op, lo, hi, m, q, t) /\ part # None
  BY DEF PartOf
<1>2. PICK tags \in Seq(Tags) : tags = EmitRange(src, op, lo, hi)
  BY EmitRangeType
<1>3. part = OneCommit(tags, m, q, t)
  BY <1>1, <1>2 DEF Compact
<1>4. Holds(part) /\ part.tags = tags
  BY <1>1, <1>3, OneCommitHolds
<1>5. LiveBytes(tags) <= Bytes(tags)
  <2>1. Gather(EmitRange(src, op, lo, hi)).error = None
    BY <1>2, <1>4 DEF Live
  <2> QED BY <1>2, <2>1, AnyRangeGrows
<1>6. PICK a, b, c \in Nat : a = LiveBytes(tags) /\ b = Bytes(tags) /\ c = If(sb, TAG)
  BY LiveBytesNat, BytesNat, IfType, Constants
<1>7. a <= b + c
  BY <1>5, <1>6
<1> QED BY <1>4, <1>6, <1>7 DEF Owned

\* A request either makes logs this writer leaves, or fails for a reason other
\* than an overflow of the rebuild or of a removal.
OwnOutcome(o, sb) ==
    IF o.why # None THEN o.why \notin {"rebuild", "remove"}
    ELSE \A k \in 1 .. Len(o.logs) : Live(o.logs[k]).error = None => Owned(o.logs[k], sb /\ k = 1)

LEMMA OwnFails ==
    ASSUME NEW why \in Reasons \ {"rebuild", "remove"}, NEW sb
    PROVE  OwnOutcome(Fails(why), sb)
<1>1. Fails(why).why = why
  BY DEF Fails
<1> QED BY <1>1, DataAssumption DEF OwnOutcome

LEMMA OwnLands ==
    ASSUME NEW logs, NEW sb,
           \A k \in 1 .. Len(logs) : Live(logs[k]).error = None => Owned(logs[k], sb /\ k = 1)
    PROVE  OwnOutcome(Lands(logs), sb)
<1>1. Lands(logs).why = None /\ Lands(logs).logs = logs
  BY DEF Lands
<1> QED BY <1>1 DEF OwnOutcome

LEMMA OwnLandsOne ==
    ASSUME NEW new, NEW sb \in BOOLEAN, Live(new).error = None => Owned(new, sb)
    PROVE  OwnOutcome(Lands(<<new>>), sb)
<1>1. Len(<<new>>) = 1 /\ <<new>>[1] = new /\ 1 .. 1 = {1}
  OBVIOUS
<1>2. ASSUME NEW k \in 1 .. Len(<<new>>), Live(<<new>>[k]).error = None
      PROVE  Owned(<<new>>[k], sb /\ k = 1)
  <2>1. k = 1
    BY <1>1
  <2>2. (sb /\ k = 1) = sb
    BY <2>1
  <2>3. <<new>>[k] = new
    BY <1>1, <2>1
  <2> QED BY <1>2, <2>2, <2>3
<1> QED BY <1>2, OwnLands

LEMMA TakenIs ==
    ASSUME NEW tags \in Seq(Tags), NEW ms \in BOOLEAN, NEW rs \in BOOLEAN, NEW tail \in BOOLEAN
    PROVE  /\ Taken(tags, ms, rs, tail) = 4 + Bytes(tags) + Deltas(ms, rs, tail)
           /\ Deltas(ms, rs, tail) \in Nat
BY DeltasType

\* There is room in a fresh block for a commit of what a log and an operation
\* leave, its RelocateState included.
Roomy(log, op, x, ms, rs, tail, tags, q) ==
    /\ tags \in Seq(Tags) /\ ms \in BOOLEAN /\ rs \in BOOLEAN /\ tail \in BOOLEAN
    /\ Taken(tags, ms, q, tail) + CCRC <= BlockSize

\* A commit's tags and deltas are no more than what the log held, and what the
\* operation brings.
LEMMA RebuildTakes ==
    ASSUME NEW log \in Logs, NEW src, src = Source(log), NEW op, OpOK(op), Complete(src, op),
           NEW x, ExtraOK(x), NEW ms \in Folded(log.ms, x.ms), NEW rs \in Folded(log.rs, x.rs),
           NEW tail, tail = TailAfter(log, x), NEW sb \in BOOLEAN, ~sb, Owned(log, sb),
           CanAppend(log, op, x), NEW tags, tags = EmitRange(src, op, 0, Total(src, op)), NEW q \in BOOLEAN, q
    PROVE  Roomy(log, op, x, ms, rs, tail, tags, q)
<1>1. log.tags \in Seq(Tags) /\ SourceOK(src)
  BY LogMembers, SourceType
<1>2. tags \in Seq(Tags)
  <2>1. 0 \in 0 .. Total(src, op) /\ Total(src, op) \in 0 .. Total(src, op)
    BY <1>1, TotalType
  <2> QED BY <1>1, <2>1, EmitRangeType
<1>3. /\ ms \in BOOLEAN /\ rs \in BOOLEAN /\ tail \in BOOLEAN
      /\ Deltas(log.ms, log.rs, log.tail) \in Nat /\ Extra(x) \in Nat /\ Deltas(ms, rs, tail) \in Nat
      /\ Deltas(ms, rs, tail) <= Deltas(log.ms, log.rs, log.tail) + Extra(x)
  BY DeltasAfter
<1>4. PICK e \in Seq(Tags) : e = EmitOp(op) /\ OpDsize(op) = Bytes(e) + CCRC
  BY EmitOpBytes
<1>5. PICK a, b, c, d, f, g, h, l \in Nat :
         /\ a = Bytes(log.tags) /\ b = Bytes(e) /\ c = Deltas(log.ms, log.rs, log.tail)
         /\ d = Extra(x) /\ f = Deltas(ms, rs, tail) /\ g = log.end /\ h = Bytes(tags)
         /\ l = LiveBytes(log.tags)
  BY <1>1, <1>2, <1>3, BytesNat, LiveBytesNat, LogMembers
<1>6. h <= l + b
  <2>1. PICK n \in Nat : n = Total(src, op)
    BY <1>1, TotalType
  <2>2. Bytes(EmitRange(src, op, 0, n)) <= LiveBytes(log.tags) + Bytes(EmitOp(op))
    BY <1>1, <2>1, WholeBytes
  <2> QED BY <1>4, <1>5, <2>1, <2>2
<1>7. l <= a
  <2>1. LiveBytes(log.tags) <= Bytes(log.tags) + If(sb, TAG)
    BY DEF Owned
  <2>2. If(sb, TAG) = 0
    BY DEF If
  <2> QED BY <1>5, <2>1, <2>2
<1>8. g >= (4 + a + c) + 20
  BY <1>5, HoldsIs DEF Owned, CanAppend
<1>9. g + (b + 8) + d <= BlockSize /\ BlockSize \in Nat
  BY <1>4, <1>5, Constants DEF CanAppend
<1>10. f <= c + d
  BY <1>3, <1>5
<1>11. PICK r \in Nat : r = Deltas(ms, TRUE, tail) /\ r <= f + 20
  <2>1. Deltas(ms, TRUE, tail) \in Nat /\ Deltas(ms, TRUE, tail) <= Deltas(ms, rs, tail) + 20
    BY <1>3, DeltasType
  <2> QED BY <1>5, <2>1
<1>12. Taken(tags, ms, q, tail) = 4 + h + r
  <2>1. Deltas(ms, q, tail) = Deltas(ms, TRUE, tail)
    OBVIOUS
  <2>2. Taken(tags, ms, q, tail) = 4 + Bytes(tags) + Deltas(ms, q, tail)
    BY <1>2, <1>3, TakenIs
  <2> QED BY <1>5, <1>11, <2>1, <2>2
<1>14. r <= f + 20
  BY <1>11
<1>13. (4 + h + r) + 8 <= BlockSize
  BY ONLY <1>6, <1>7, <1>8, <1>9, <1>10, <1>14, a \in Nat, b \in Nat, c \in Nat, d \in Nat, f \in Nat,
          g \in Nat, h \in Nat, l \in Nat, r \in Nat
<1> QED BY <1>2, <1>3, <1>12, <1>13, Constants DEF Roomy

\* The rebuild of a pair whose append failed lands.
LEMMA EvictOwned ==
    ASSUME NEW r, RequestOK(r), NEW log \in Logs, log = chain[r.pair], NEW src, src = Source(log),
           CanAppend(log, r.op, r.x), NEW ms \in Folded(log.ms, r.x.ms),
           NEW rs \in Folded(log.rs, r.x.rs), Fixed(r) \in BOOLEAN, Owned(log, Fixed(r))
    PROVE  OwnOutcome(EvictCommit(r, src, ms), Fixed(r))
<1>1. CASE Fixed(r) \/ ~Complete(src, r.op)
  <2>1. EvictCommit(r, src, ms) = Fails("io")
    BY <1>1 DEF EvictCommit
  <2>2. "io" \in Reasons \ {"rebuild", "remove"}
    BY DEF Reasons
  <2> QED BY <2>1, <2>2, OwnFails
<1>2. CASE ~Fixed(r) /\ Complete(src, r.op)
  <2>1. OpOK(r.op) /\ ExtraOK(r.x) /\ log.erased /\ SourceOK(src)
    BY LogMembers, SourceType DEF RequestOK, CanAppend
  <2>2. PICK tail : tail = TailAfter(log, r.x)
    OBVIOUS
  <2>3. PICK tags : tags = EmitRange(src, r.op, 0, Total(src, r.op))
    OBVIOUS
  <2>4. PICK sb \in BOOLEAN : sb = Fixed(r) /\ ~sb /\ Owned(log, sb)
    BY <1>2
  <2>14. PICK op, x : op = r.op /\ x = r.x
    OBVIOUS
  <2>8. PICK q \in BOOLEAN : q = TRUE
    OBVIOUS
  <2>5. /\ tags \in Seq(Tags) /\ ms \in BOOLEAN /\ rs \in BOOLEAN /\ tail \in BOOLEAN
        /\ Taken(tags, ms, q, tail) + CCRC <= BlockSize
    <3>1. OpOK(op) /\ Complete(src, op) /\ ExtraOK(x) /\ CanAppend(log, op, x)
          /\ ms \in Folded(log.ms, x.ms) /\ rs \in Folded(log.rs, x.rs)
          /\ tail = TailAfter(log, x) /\ tags = EmitRange(src, op, 0, Total(src, op))
      BY <1>2, <2>1, <2>2, <2>3, <2>14
    <3>2. Roomy(log, op, x, ms, rs, tail, tags, q)
      BY <2>4, <2>8, <3>1, RebuildTakes
    <3> QED BY <3>2 DEF Roomy
  <2>6. PICK new : new = Compact(src, r.op, 0, Total(src, r.op), ms, TRUE, tail)
    OBVIOUS
  <2>7. EvictCommit(r, src, ms) = IF new = None THEN Fails("rebuild") ELSE Lands(<<new>>)
    BY <1>2, <2>2, <2>6 DEF EvictCommit
  <2>9. new = OneCommit(tags, ms, q, tail)
    BY <2>3, <2>6, <2>8 DEF Compact
  <2>10. new # None
    BY <2>5, <2>8, <2>9, OneCommitHolds
  <2>11. PartOf(new, src, r.op)
    <3>1. 0 \in 0 .. Total(src, r.op) /\ Total(src, r.op) \in 0 .. Total(src, r.op)
      BY <2>1, TotalType
    <3> QED BY <2>5, <2>6, <2>8, <2>10, <3>1 DEF PartOf
  <2>12. Live(new).error = None => Owned(new, sb)
    BY <1>2, <2>1, <2>11, PartOwned
  <2>13. OwnOutcome(Lands(<<new>>), sb)
    BY <2>12, OwnLandsOne
  <2> QED BY <2>4, <2>7, <2>10, <2>13
<1> QED BY <1>1, <1>2

\* Without a cut there is one part: all of it.
LEMMA WholePart ==
    ASSUME NEW src, SourceOK(src), NEW op, NEW ms \in BOOLEAN, NEW rs \in BOOLEAN,
           NEW tail \in BOOLEAN, NEW new, new = Compact(src, op, 0, Total(src, op), ms, rs, tail)
    PROVE  new # None => Fit(Parts(src, op, 0, ms, rs, tail))
<1>0. UpTo(0) = <<>> /\ Len(UpTo(0)) = 0 /\ 0 \in Nat
  BY DEF UpTo
<1>1. PartEnds(src, op, 0) = <<Total(src, op)>>
  <2>1. PICK n \in Nat : n = 0 /\ Len(UpTo(n)) = 0
    BY <1>0
  <2>2. PICK g \in [0 .. Len(UpTo(n)) -> Cuts(Total(src, op))] :
           g[0] = <<Total(src, op)>> /\ PartEnds(src, op, n) = g[Len(UpTo(n))]
    BY PartEndsExist
  <2> QED BY <2>1, <2>2
<1>2. Total(src, op) \in Nat /\ Len(<<Total(src, op)>>) = 1 /\ DOMAIN <<Total(src, op)>> = {1}
      /\ <<Total(src, op)>>[1] = Total(src, op)
  BY TotalType
<1>3. Parts(src, op, 0, ms, rs, tail) =
         [k \in {1} |->
             Compact(src, op, IF k = 1 THEN 0 ELSE <<Total(src, op)>>[k - 1], <<Total(src, op)>>[k],
                     ms /\ k = 1, rs /\ k = 1, k < 1 \/ tail)]
  BY <1>1, <1>2 DEF Parts
<1>4. PICK m \in BOOLEAN, q \in BOOLEAN, t \in BOOLEAN :
         m = (ms /\ 1 = 1) /\ q = (rs /\ 1 = 1) /\ t = (1 < 1 \/ tail)
  OBVIOUS
<1>5. m = ms /\ q = rs /\ t = tail
  BY <1>4
<1>6. Parts(src, op, 0, ms, rs, tail)[1] = new /\ DOMAIN Parts(src, op, 0, ms, rs, tail) = {1}
  BY <1>2, <1>3, <1>4, <1>5
<1> QED BY <1>6 DEF Fit

\* A removal's rebuild takes no more than the log did.
LEMMA RemovalTakes ==
    ASSUME NEW log \in Logs, NEW src, src = Source(log), NEW op, OpOK(op), Complete(src, op),
           op.k = "remove", op.id < src.count, NEW sb \in BOOLEAN, Owned(log, sb),
           NEW tags, tags = EmitRange(src, op, 0, Total(src, op))
    PROVE  tags \in Seq(Tags) /\ Taken(tags, log.ms, log.rs, log.tail) + CCRC <= BlockSize
<1>1. log.tags \in Seq(Tags) /\ SourceOK(src)
  BY LogMembers, SourceType
<1>2. tags \in Seq(Tags)
  <2>1. 0 \in 0 .. Total(src, op) /\ Total(src, op) \in 0 .. Total(src, op)
    BY <1>1, TotalType
  <2> QED BY <1>1, <2>1, EmitRangeType
<1>3. PICK m \in BOOLEAN, q \in BOOLEAN, t \in BOOLEAN : m = log.ms /\ q = log.rs /\ t = log.tail
  BY LogMembers
<1>4. PICK a, c, g, h, i, l \in Nat :
         /\ a = Bytes(log.tags) /\ c = Deltas(log.ms, log.rs, log.tail)
         /\ g = log.end /\ h = Bytes(tags) /\ i = If(sb, TAG) /\ l = LiveBytes(log.tags)
  BY <1>1, <1>2, BytesNat, LiveBytesNat, LogMembers, HoldsIs, IfType, Constants
<1>5. h + 4 <= l
  <2>1. PICK n \in Nat : n = Total(src, op)
    BY <1>1, TotalType
  <2>2. Bytes(EmitRange(src, op, 0, n)) + TAG <= LiveBytes(log.tags)
    <3>1. op.k = "remove" /\ op.id < src.count =>
             Bytes(EmitRange(src, op, 0, n)) + TAG <= LiveBytes(log.tags)
      BY <1>1, <2>1, WholeBytes
    <3> QED BY <3>1
  <2> QED BY <1>4, <2>1, <2>2, Constants
<1>6. l <= a + i /\ i <= 4
  <2>1. TAG \in Nat /\ TAG = 4
    BY Constants
  <2>2. If(sb, TAG) <= TAG
    BY <2>1, IfType
  <2>3. LiveBytes(log.tags) <= Bytes(log.tags) + If(sb, TAG)
    BY DEF Owned
  <2> QED BY <1>4, <2>1, <2>2, <2>3
<1>7. g >= (4 + a + c) + 8
  BY <1>4, HoldsIs DEF Owned
<1>8. g <= BlockSize /\ BlockSize \in Nat
  BY <1>4, LogMembers, Constants
<1>9. Taken(tags, log.ms, log.rs, log.tail) = 4 + h + c
  <2>1. Taken(tags, m, q, t) = 4 + Bytes(tags) + Deltas(m, q, t)
    BY <1>2, TakenIs
  <2> QED BY <1>3, <1>4, <2>1
<1>10. (4 + h + c) + 8 <= BlockSize
  BY ONLY <1>5, <1>6, <1>7, <1>8, a \in Nat, c \in Nat, g \in Nat, h \in Nat, i \in Nat, l \in Nat
<1> QED BY <1>2, <1>9, <1>10, Constants

\* Parts that fit are logs this writer leaves.
LEMMA PartsOwned ==
    ASSUME NEW src, SourceOK(src), NEW op, OpOK(op), Complete(src, op), NEW cuts \in Nat,
           NEW ms \in BOOLEAN, NEW rs \in BOOLEAN, NEW tail \in BOOLEAN, NEW sb \in BOOLEAN,
           NEW parts, parts = Parts(src, op, cuts, ms, rs, tail), Fit(parts)
    PROVE  OwnOutcome(Lands(parts), sb)
<1>1. \A k \in 1 .. Len(parts) : PartOf(parts[k], src, op)
  BY PartsType
<1>2. ASSUME NEW k \in 1 .. Len(parts), Live(parts[k]).error = None
      PROVE  Owned(parts[k], sb /\ k = 1)
  <2>1. PICK b \in BOOLEAN : b = (sb /\ k = 1)
    OBVIOUS
  <2>2. PICK part : part = parts[k]
    OBVIOUS
  <2>3. Owned(part, b)
    BY <1>1, <1>2, <2>2, PartOwned
  <2> QED BY <2>1, <2>2, <2>3
<1> QED BY <1>2, OwnLands

LEMMA CompactOwned ==
    ASSUME NEW r, RequestOK(r), NEW log \in Logs, log = chain[r.pair], NEW src, src = Source(log),
           NEW ms \in Folded(log.ms, r.x.ms), NEW rs \in Folded(log.rs, r.x.rs),
           NEW moved \in BOOLEAN, Fixed(r) \in BOOLEAN, Owned(log, Fixed(r)),
           NEW o \in CompactCommits(r, src, ms, rs, moved)
    PROVE  OwnOutcome(o, Fixed(r))
<1>0. /\ OpOK(r.op) /\ ExtraOK(r.x) /\ SourceOK(src) /\ src.count = Live(log).count
      /\ Placed(r.op, src.count)
      /\ (r.op.k = "remove" => r.x.rs = FALSE /\ r.x.tail = "keep")
      /\ log.ms \in BOOLEAN /\ log.rs \in BOOLEAN /\ log.tail \in BOOLEAN
      /\ r.x.ms \in BOOLEAN /\ r.x.rs \in BOOLEAN
  BY LogMembers, SourceType DEF RequestOK, ExtraOK
<1>1. CASE ~Complete(src, r.op)
  <2>1. o = Fails("io")
    BY <1>1 DEF CompactCommits
  <2>2. "io" \in Reasons \ {"rebuild", "remove"}
    BY DEF Reasons
  <2> QED BY <2>1, <2>2, OwnFails
<1>2. CASE Complete(src, r.op)
  <2>1. PICK tail : tail = TailAfter(log, r.x)
    OBVIOUS
  <2>2. ms \in BOOLEAN /\ rs \in BOOLEAN /\ tail \in BOOLEAN
    BY <1>0, <2>1, DeltasAfter
  <2>3. PICK q \in BOOLEAN : q = (rs \/ moved)
    OBVIOUS
  <2> DEFINE full == IF r.op.k = "remove" /\ ~r.x.ms /\ ~moved THEN "remove" ELSE "full"
             parts(cuts) == Parts(src, r.op, cuts, ms, q, tail)
  <2>4. PICK cuts \in Nat : o = IF Fit(parts(cuts)) THEN Lands(parts(cuts))
                                ELSE IF Fit(parts(0)) THEN Lands(parts(0)) ELSE Fails(full)
    <3>1. \A n \in 0 .. MaxSplitCuts : n \in Nat
      BY Constants
    <3> QED BY <1>2, <2>1, <2>3, <3>1 DEF CompactCommits
  <2>5. ASSUME NEW n \in Nat, Fit(parts(n)) PROVE OwnOutcome(Lands(parts(n)), Fixed(r))
    <3>1. PICK p : \E sb \in BOOLEAN : p = parts(n) /\ sb = Fixed(r)
      OBVIOUS
    <3>4. PICK sb \in BOOLEAN : p = parts(n) /\ sb = Fixed(r)
      BY <3>1
    <3>2. OwnOutcome(Lands(p), sb)
      BY <1>0, <1>2, <2>2, <2>5, <3>4, PartsOwned
    <3> QED BY <3>2, <3>4
  <2>6. CASE r.op.k = "remove" /\ ~r.x.ms /\ ~moved
    <3>1. ms = log.ms /\ q = log.rs /\ tail = log.tail
      <4>1. PICK p1 \in BOOLEAN, p2 \in BOOLEAN, q1 \in BOOLEAN, q2 \in BOOLEAN :
               p1 = log.ms /\ p2 = r.x.ms /\ q1 = log.rs /\ q2 = r.x.rs
        BY <1>0
      <4>2. ~p2 /\ ~q2
        BY <1>0, <2>6, <4>1
      <4>3. ms = p1 /\ rs = q1
        BY <4>1, <4>2 DEF Folded
      <4>4. tail = log.tail
        BY <1>0, <2>1, <2>6 DEF TailAfter
      <4> QED BY <2>2, <2>3, <2>6, <4>1, <4>3, <4>4
    <3>2. PICK sb \in BOOLEAN : sb = Fixed(r)
      OBVIOUS
    <3>3. r.op.id < src.count
      BY <1>0, <2>6 DEF Placed
    <3>4. PICK tags \in Seq(Tags) : /\ tags = EmitRange(src, r.op, 0, Total(src, r.op))
                                    /\ Taken(tags, log.ms, log.rs, log.tail) + CCRC <= BlockSize
      <4>1. PICK tags : tags = EmitRange(src, r.op, 0, Total(src, r.op))
        OBVIOUS
      <4>2. tags \in Seq(Tags) /\ Taken(tags, log.ms, log.rs, log.tail) + CCRC <= BlockSize
        BY <1>0, <1>2, <2>6, <3>2, <3>3, <4>1, RemovalTakes
      <4> QED BY <4>1, <4>2
    <3>5. PICK new : new = Compact(src, r.op, 0, Total(src, r.op), ms, q, tail)
      OBVIOUS
    <3>6. new = OneCommit(tags, ms, q, tail)
      BY <3>4, <3>5 DEF Compact
    <3>7. Taken(tags, ms, q, tail) + CCRC <= BlockSize
      BY <3>1, <3>4
    <3>8. new # None
      BY <2>2, <3>6, <3>7, OneCommitHolds
    <3>9. Fit(parts(0))
      BY <1>0, <2>2, <3>5, <3>8, WholePart
    <3>10. \/ (o = Lands(parts(cuts)) /\ Fit(parts(cuts)))
           \/ (o = Lands(parts(0)) /\ Fit(parts(0)))
      BY <2>4, <3>9
    <3>11. 0 \in Nat
      OBVIOUS
    <3> HIDE DEF parts
    <3> QED BY <2>5, <3>10, <3>11
  <2>7. CASE ~(r.op.k = "remove" /\ ~r.x.ms /\ ~moved)
    <3>1. full \in Reasons \ {"rebuild", "remove"}
      BY <2>7 DEF Reasons
    <3> HIDE DEF full, parts
    <3>2. OwnOutcome(Fails(full), Fixed(r))
      BY <3>1, OwnFails
    <3>3. 0 \in Nat
      OBVIOUS
    <3> QED BY <2>4, <2>5, <3>2, <3>3
  <2> QED BY <2>6, <2>7
<1> QED BY <1>1, <1>2

\* Whatever comes of a request on a log this writer left.
LEMMA CommitsOwned ==
    ASSUME NEW r, RequestOK(r), NEW log \in Logs, log = chain[r.pair], NEW src, src = Source(log),
           NEW sb \in BOOLEAN, sb = Fixed(r), Owned(log, sb), NEW o \in Commits(r, src)
    PROVE  OwnOutcome(o, sb)
<1>0. /\ OpOK(r.op) /\ ExtraOK(r.x) /\ r.x.ms \in BOOLEAN /\ r.x.rs \in BOOLEAN
      /\ log.ms \in BOOLEAN /\ log.rs \in BOOLEAN /\ Placed(r.op, Live(log).count)
  BY LogMembers DEF RequestOK, ExtraOK
<1>1. PICK ms \in Folded(log.ms, r.x.ms), rs \in Folded(log.rs, r.x.rs) :
         o \in IF CanAppend(log, r.op, r.x)
               THEN {AppendCommit(r, ms, rs), EvictCommit(r, src, ms)}
               ELSE UNION {CompactCommits(r, src, ms, rs, moved) :
                              moved \in IF Fixed(r) THEN {FALSE} ELSE BOOLEAN}
  <2> DEFINE all(ms, rs) == IF CanAppend(chain[r.pair], r.op, r.x)
                            THEN {AppendCommit(r, ms, rs), EvictCommit(r, src, ms)}
                            ELSE UNION {CompactCommits(r, src, ms, rs, moved) :
                                           moved \in IF Fixed(r) THEN {FALSE} ELSE BOOLEAN}
  <2> HIDE DEF all
  <2>1. Commits(r, src) = UNION {all(ms, rs) : ms \in Folded(chain[r.pair].ms, r.x.ms),
                                               rs \in Folded(chain[r.pair].rs, r.x.rs)}
    BY DEF Commits, all
  <2>2. \E ms \in Folded(log.ms, r.x.ms), rs \in Folded(log.rs, r.x.rs) : o \in all(ms, rs)
    BY <2>1
  <2> QED BY <2>2 DEF all
<1>2. ms \in BOOLEAN /\ rs \in BOOLEAN
  BY <1>0, FoldedType
<1>6. Fixed(r) \in BOOLEAN /\ Owned(log, Fixed(r))
  OBVIOUS
<1>3. CASE CanAppend(log, r.op, r.x) /\ o = AppendCommit(r, ms, rs)
  <2>1. FinishPadded(AppendOff(log, r.op, r.x)) # None
    BY <1>0, <1>2, <1>3, AppendIs
  <2>2. PICK new : new = Appended(log, r.op, r.x, ms, rs)
    OBVIOUS
  <2>3. o = Lands(<<new>>)
    BY <1>3, <2>1, <2>2 DEF AppendCommit
  <2>4. Live(new).error = None => Owned(new, sb)
    <3>1. PICK op, x : op = r.op /\ x = r.x
      OBVIOUS
    <3>2. SUFFICES ASSUME Live(new).error = None PROVE Owned(new, sb)
      OBVIOUS
    <3>3. /\ OpOK(op) /\ ExtraOK(x) /\ CanAppend(log, op, x) /\ Placed(op, Live(log).count)
          /\ ms \in Folded(log.ms, x.ms) /\ rs \in Folded(log.rs, x.rs)
          /\ new = Appended(log, op, x, ms, rs)
      BY <1>0, <1>3, <2>2, <3>1
    <3> QED BY <3>2, <3>3, AppendOwned
  <2> QED BY <2>3, <2>4, OwnLandsOne
<1>4. CASE CanAppend(log, r.op, r.x) /\ o = EvictCommit(r, src, ms)
  <2>1. OwnOutcome(EvictCommit(r, src, ms), Fixed(r))
    BY <1>4, <1>6, EvictOwned
  <2> QED BY <1>4, <2>1
<1>5. CASE ~CanAppend(log, r.op, r.x)
  <2>1. PICK moved \in BOOLEAN : o \in CompactCommits(r, src, ms, rs, moved)
    BY <1>1, <1>5
  <2>2. OwnOutcome(o, Fixed(r))
    BY <1>6, <2>1, CompactOwned
  <2> QED BY <2>2
<1> QED BY <1>1, <1>3, <1>4, <1>5

\* A chain whose readable logs this writer left; the first holds the superblock
\* if the directory is the root.
ChainOwned(c, root) ==
    \A i \in DOMAIN c : Live(c[i]).error = None => Owned(c[i], root /\ i = 1)

\* No superblock is no worse.
LEMMA OwnedAnyway ==
    ASSUME NEW log \in Logs, NEW sb \in BOOLEAN, NEW any \in BOOLEAN, Owned(log, sb), sb => any
    PROVE  Owned(log, any)
<1>1. PICK a, b, c, d \in Nat : /\ a = LiveBytes(log.tags) /\ b = Bytes(log.tags)
                                /\ c = If(sb, TAG) /\ d = If(any, TAG)
  BY LogMembers, LiveBytesNat, BytesNat, IfType, Constants
<1>2. c <= d
  <2>1. CASE sb
    <3>1. c = d
      BY <1>1, <2>1 DEF If
    <3> QED BY <3>1
  <2>2. CASE ~sb
    <3>1. c = 0
      BY <1>1, <2>2 DEF If
    <3> QED BY <3>1
  <2> QED BY <2>1, <2>2
<1>3. a <= b + c
  BY <1>1 DEF Owned
<1>4. a <= b + d
  BY <1>2, <1>3
<1> QED BY <1>1, <1>4 DEF Owned

\* Replacing a log by logs this writer leaves.
LEMMA OwnedAfter ==
    ASSUME NEW c \in Seq(Logs), NEW i \in 1 .. Len(c), NEW logs \in Seq(Logs), Len(logs) >= 1,
           NEW root \in BOOLEAN, ChainOwned(c, root),
           \A k \in 1 .. Len(logs) : Live(logs[k]).error = None => Owned(logs[k], (root /\ i = 1) /\ k = 1)
    PROVE  ChainOwned(Spliced(c, i, logs), root)
<1>1. PICK n \in Nat, l \in Nat : n = Len(c) /\ l = Len(logs)
  OBVIOUS
<1>2. PICK d \in Seq(Logs) : /\ d = Spliced(c, i, logs) /\ Len(d) = (i - 1) + l + (n - i)
                             /\ \A j \in 1 .. i - 1 : d[j] = c[j]
                             /\ \A j \in 1 .. l : d[(i - 1) + j] = logs[j]
                             /\ \A j \in 1 .. n - i : d[(i - 1) + l + j] = c[i + j]
  <2>1. SpliceLaw(Spliced(c, i, logs), Logs, c, i, logs)
    BY SplicedIs
  <2> QED BY <1>1, <2>1 DEF SpliceLaw
<1>3. PICK m \in Nat : m = Len(d) /\ m = (i - 1) + l + (n - i)
  BY <1>2
<1>4. i \in Nat /\ i >= 1 /\ i <= n /\ l >= 1 /\ n \in Nat /\ l \in Nat
  BY <1>1
<1>5. DOMAIN d = 1 .. m /\ DOMAIN c = 1 .. n
  BY <1>1, <1>2, <1>3
<1>6. ASSUME NEW j \in 1 .. m, Live(d[j]).error = None PROVE Owned(d[j], root /\ j = 1)
  <2>0. j \in Nat /\ j >= 1 /\ j <= m /\ m \in Nat
    BY <1>3
  <2>1. CASE j <= i - 1
    <3>1. j \in 1 .. i - 1 /\ j \in 1 .. n
      BY ONLY <1>4, <2>0, <2>1
    <3>2. d[j] = c[j]
      BY <1>2, <3>1
    <3> QED BY <1>5, <1>6, <3>1, <3>2 DEF ChainOwned
  <2>2. CASE i - 1 < j /\ j <= (i - 1) + l
    <3>1. PICK k : k = j - (i - 1)
      OBVIOUS
    <3>2. k \in 1 .. l /\ j = (i - 1) + k /\ ((i = 1 /\ k = 1) <=> j = 1)
      BY ONLY <1>3, <1>4, <2>0, <2>2, <3>1
    <3>3. d[j] = logs[k]
      BY <1>2, <3>2
    <3>4. Owned(logs[k], (root /\ i = 1) /\ k = 1)
      BY <1>1, <1>6, <3>2, <3>3
    <3>5. ((root /\ i = 1) /\ k = 1) = (root /\ j = 1)
      BY <3>2
    <3> QED BY <3>3, <3>4, <3>5
  <2>3. CASE (i - 1) + l < j
    <3>1. PICK k : k = j - ((i - 1) + l)
      OBVIOUS
    <3>2. k \in 1 .. n - i /\ j = (i - 1) + l + k /\ i + k \in 1 .. n
      <4>1. m = (i - 1) + l + (n - i)
        BY <1>3
      <4> QED BY <1>4, <2>0, <2>3, <3>1, <4>1, BackIndex
    <3>3. i + k # 1
      BY <1>4, <3>2
    <3>4. PICK b \in Logs : b = c[i + k] /\ d[j] = b
      <4>1. c[i + k] \in Logs
        BY <1>1, <3>2
      <4>2. d[j] = c[i + k]
        BY <1>2, <3>2
      <4> QED BY <4>1, <4>2
    <3>5. PICK f \in BOOLEAN, g \in BOOLEAN : f = (root /\ i + k = 1) /\ g = (root /\ j = 1)
      OBVIOUS
    <3>6. Owned(b, f)
      BY <1>5, <1>6, <3>2, <3>4, <3>5 DEF ChainOwned
    <3>7. Owned(b, g)
      BY <3>3, <3>5, <3>6, OwnedAnyway
    <3> QED BY <3>4, <3>5, <3>7
  <2>4. j <= i - 1 \/ (i - 1 < j /\ j <= (i - 1) + l) \/ (i - 1) + l < j
    BY ONLY <1>4, <2>0
  <2> QED BY <2>1, <2>2, <2>3, <2>4
<1>7. ChainOwned(d, root)
  BY <1>5, <1>6 DEF ChainOwned
<1> QED BY <1>2, <1>7

\* In a directory this writer made, the readable logs are this writer's, and no
\* call was refused for an overflow of a rebuild or of a removal.
OwnInv ==
    image.own =>
        /\ ChainOwned(chain, image.root)
        /\ call.op = "refused" => call.value \notin {"rebuild", "remove"}

LEMMA OwnImplies == OwnInv => RebuildFits /\ RemoveLands
<1>1. ASSUME NEW why \in {"rebuild", "remove"}, OwnInv, image.own PROVE call # Refused(why)
  BY <1>1, RefusedIs DEF OwnInv
<1> QED BY <1>1 DEF RebuildFits, RemoveLands

LEMMA NoopIs == OpOK(Op("noop", 0)) /\ Op("noop", 0).k = "noop"
BY DEF OpOK, OpKinds, Op

\* What is assumed of an image's logs.
LEMMA WrittenOwned ==
    ASSUME NEW log \in Logs, NEW sb \in BOOLEAN, Written(log, sb)
    PROVE  Owned(log, sb)
<1>1. PICK src, op : src = Source(log) /\ op = Op("noop", 0)
  OBVIOUS
<1>2. /\ Holds(log) /\ Complete(src, op)
      /\ Bytes(EmitRange(src, op, 0, src.count)) <= Bytes(log.tags) + If(sb, TAG)
  BY <1>1 DEF Written, Holds
<1>3. log.tags \in Seq(Tags) /\ SourceOK(src) /\ OpOK(op) /\ op.k = "noop"
  BY <1>1, LogMembers, SourceType, NoopIs
<1>4. PICK n \in Nat : n = Total(src, op) /\ n = src.count
  BY <1>3, TotalType
<1>5. /\ Bytes(EmitRange(src, op, 0, n)) \in Nat
      /\ op.k = "noop" => LiveBytes(log.tags) <= Bytes(EmitRange(src, op, 0, n))
  BY <1>1, <1>2, <1>3, <1>4, WholeBytes
<1>6. PICK a, b, c, d \in Nat : /\ a = LiveBytes(log.tags) /\ b = Bytes(log.tags) /\ c = If(sb, TAG)
                                /\ d = Bytes(EmitRange(src, op, 0, n))
  BY <1>3, <1>5, LiveBytesNat, BytesNat, IfType, Constants
<1>7. a <= d /\ d <= b + c
  BY <1>2, <1>3, <1>4, <1>5, <1>6
<1>8. a <= b + c
  BY <1>7
<1> QED BY <1>2, <1>6, <1>8 DEF Owned

LEMMA InitOwn == Init => OwnInv
<1> SUFFICES ASSUME Init, image.own PROVE OwnInv
  BY DEF OwnInv
<1>1. PICK m \in Images :
         /\ chain = m.chain
         /\ image = [root |-> m.root, own |-> m.own, ops |-> m.ops, names |-> m.names,
                     structs |-> m.structs, calls |-> m.calls]
  BY DEF Init
<1>2. /\ m.chain \in Seq(Logs) /\ m.root \in BOOLEAN /\ m.own
      /\ image.root = m.root
      /\ \A i \in DOMAIN m.chain : Written(m.chain[i], m.root /\ i = 1)
  BY <1>1, ImageAssumption
<1>3. ASSUME NEW i \in DOMAIN chain PROVE Owned(chain[i], image.root /\ i = 1)
  <2>1. PICK log \in Logs : log = chain[i]
    BY <1>1, <1>2
  <2>2. PICK sb \in BOOLEAN : sb = (m.root /\ i = 1)
    OBVIOUS
  <2>3. Written(log, sb)
    BY <1>1, <1>2, <2>1, <2>2
  <2>4. Owned(log, sb)
    BY <2>3, WrittenOwned
  <2> QED BY <1>2, <2>1, <2>2, <2>4
<1>4. call.op # "refused"
  BY CallFields DEF Init
<1> QED BY <1>3, <1>4 DEF OwnInv, ChainOwned

LEMMA PerformOwn ==
    ASSUME LogInv, OwnInv, Readable, NEW c \in Calls, NEW requests,
           \A r \in requests : RequestOK(r), Perform(c, requests)
    PROVE  OwnInv'
<1> SUFFICES ASSUME image.own PROVE OwnInv'
  BY DEF OwnInv, Perform
<1>0. /\ ChainOK(chain) /\ image.root \in BOOLEAN /\ image' = image
      /\ ChainOwned(chain, image.root)
  BY DEF LogInv, OwnInv, Perform
<1>1. ASSUME NEW why, why \notin {"rebuild", "remove"}, Refuse(why) PROVE OwnInv'
  <2>1. call' = Refused(why) /\ chain' = chain
    BY <1>1 DEF Refuse
  <2>2. call'.value \notin {"rebuild", "remove"}
    BY <1>1, <2>1, RefusedIs
  <2>3. ChainOwned(chain', image'.root)
    BY <1>0, <2>1
  <2> QED BY <2>2, <2>3 DEF OwnInv
<1>2. CASE requests = {} /\ Refuse("early")
  <2>1. "early" \notin {"rebuild", "remove"}
    OBVIOUS
  <2> QED BY <1>1, <1>2, <2>1
<1>3. CASE \E r \in requests : \E o \in Commits(r, Source(chain[r.pair])) :
              IF o.why # None THEN Refuse(o.why) ELSE Accept(c, r.pair, o.logs)
  <2>1. PICK r \in requests : \E o \in Commits(r, Source(chain[r.pair])) :
              IF o.why # None THEN Refuse(o.why) ELSE Accept(c, r.pair, o.logs)
    BY <1>3
  <2>2. PICK o \in Commits(r, Source(chain[r.pair])) :
              IF o.why # None THEN Refuse(o.why) ELSE Accept(c, r.pair, o.logs)
    BY <2>1
  <2>3. RequestOK(r)
    BY <2>1
  <2>4. chain \in Seq(Logs) /\ r.pair \in DOMAIN chain /\ r.pair \in 1 .. Len(chain)
    BY <1>0, <2>3 DEF RequestOK, ChainOK
  <2>5. PICK log \in Logs : log = chain[r.pair]
    BY <2>4
  <2>6. PICK src : src = Source(log) /\ SourceOK(src)
    BY LogMembers, SourceType
  <2>7. OutcomeOK(o, log, r.x)
    BY <2>2, <2>3, <2>5, <2>6, CommitsAre
  <2>8. PICK sb \in BOOLEAN : sb = Fixed(r) /\ sb = (image.root /\ r.pair = 1)
    BY DEF Fixed
  <2>9. Owned(log, sb)
    BY <1>0, <2>4, <2>5, <2>8 DEF ChainOwned, Readable
  <2>10. OwnOutcome(o, sb)
    BY <2>2, <2>3, <2>5, <2>6, <2>8, <2>9, CommitsOwned
  <2>11. CASE o.why # None
    BY <1>1, <2>2, <2>10, <2>11 DEF OwnOutcome
  <2>12. CASE o.why = None
    <3>1. PICK logs : logs = o.logs
      OBVIOUS
    <3>2. logs \in Seq(Logs) /\ Len(logs) >= 1
      BY <2>7, <2>12, <3>1 DEF OutcomeOK, Replaces
    <3>3. chain' = Spliced(chain, r.pair, logs) /\ call' = c
      BY <2>2, <2>12, <3>1 DEF Accept, Spliced
    <3>4. \A k \in 1 .. Len(logs) : Live(logs[k]).error = None => Owned(logs[k], sb /\ k = 1)
      BY <2>10, <2>12, <3>1 DEF OwnOutcome
    <3>5. ChainOwned(Spliced(chain, r.pair, logs), image.root)
      <4>1. PICK i \in 1 .. Len(chain), root \in BOOLEAN : i = r.pair /\ root = image.root
        BY <1>0, <2>4
      <4>2. \A k \in 1 .. Len(logs) :
               Live(logs[k]).error = None => Owned(logs[k], (root /\ i = 1) /\ k = 1)
        BY <2>8, <3>4, <4>1
      <4>3. ChainOwned(Spliced(chain, i, logs), root)
        BY <1>0, <2>4, <3>2, <4>1, <4>2, OwnedAfter
      <4> QED BY <4>1, <4>3
    <3>6. call'.op # "refused"
      BY <3>3, CallOps
    <3> QED BY <1>0, <3>3, <3>5, <3>6 DEF OwnInv
  <2> QED BY <2>11, <2>12
<1> QED BY <1>2, <1>3 DEF Perform

LEMMA TornOwn ==
    ASSUME LogInv, OwnInv, TornAppend
    PROVE  OwnInv'
<1> SUFFICES ASSUME image.own PROVE OwnInv'
  BY DEF OwnInv, TornAppend
<1>0. /\ chain \in Seq(Logs) /\ image' = image /\ call' = call
      /\ ChainOwned(chain, image.root)
  BY DEF LogInv, ChainOK, OwnInv, TornAppend
<1>1. PICK i \in DOMAIN chain : chain' = [chain EXCEPT ![i].erased = FALSE]
  BY DEF TornAppend
<1>9. PICK old \in Logs : old = chain[i]
  BY <1>0
<1>2. PICK new : old = chain[i] /\ new = [old EXCEPT !.erased = FALSE]
  BY <1>9
<1>3. /\ new.end = old.end /\ new.tags = old.tags /\ new.ms = old.ms /\ new.rs = old.rs
      /\ new.tail = old.tail /\ ~new.erased
  BY <1>2 DEF Logs
<1>4. Live(new) = Live(old) /\ Used(new) = Used(old)
  BY <1>3 DEF Live, Used
<1>5. ASSUME NEW b \in BOOLEAN, Owned(old, b) PROVE Owned(new, b)
  <2>1. old.end >= Used(old) + 8 /\ Used(old) \in Nat
    BY <1>5, HoldsIs DEF Owned
  <2>2. If(new.erased, FCRC) = 0
    BY <1>3 DEF If
  <2>3. Holds(new)
    BY <1>3, <1>4, <2>1, <2>2, Constants DEF Holds
  <2> QED BY <1>3, <1>5, <2>3 DEF Owned
<1>6. chain' = [chain EXCEPT ![i] = new]
  BY <1>1, <1>2
<1>7. ASSUME NEW j \in DOMAIN chain', Live(chain'[j]).error = None
      PROVE  Owned(chain'[j], image.root /\ j = 1)
  <2>1. j \in DOMAIN chain
    BY <1>0, <1>6, <1>7
  <2>2. PICK b \in BOOLEAN : b = (image.root /\ j = 1)
    OBVIOUS
  <2>3. CASE j = i
    <3>1. chain'[j] = new
      BY <1>6, <2>1, <2>3
    <3>2. Owned(old, b)
      BY <1>0, <1>2, <1>4, <1>7, <2>1, <2>2, <2>3, <3>1 DEF ChainOwned
    <3> QED BY <1>5, <2>2, <3>1, <3>2
  <2>4. CASE j # i
    <3>1. chain'[j] = chain[j]
      BY <1>6, <2>1, <2>4
    <3> QED BY <1>0, <1>7, <2>1, <3>1 DEF ChainOwned
  <2> QED BY <2>3, <2>4
<1>8. ChainOwned(chain', image'.root)
  BY <1>0, <1>7 DEF ChainOwned
<1> QED BY <1>0, <1>8 DEF OwnInv

LEMMA NextOwn == LogInv /\ OwnInv /\ [Next]_vars => OwnInv'
<1> SUFFICES ASSUME LogInv, OwnInv, [Next]_vars PROVE OwnInv'
  OBVIOUS
<1>1. CASE UNCHANGED vars
  BY <1>1 DEF vars, OwnInv
<1>2. CASE Next
  <2>0. Readable /\ ChainOK(chain)
    BY <1>2 DEF Next, LogInv
  <2>1. \A n : SeekOK(Seek(n))
    BY <2>0, SeekType
  <2>2. CASE Write
    <3>1. PICK c \in WriteCalls : Perform(c, WriteRequest(c, Seek(c.name)))
      BY <2>2 DEF Write
    <3>2. c \in Calls
      BY DEF Calls
    <3>3. \A r \in WriteRequest(c, Seek(c.name)) : RequestOK(r)
      BY <2>0, <2>1, RequestTypes
    <3> QED BY <2>0, <3>1, <3>2, <3>3, PerformOwn
  <2>3. CASE Mkdir
    <3>1. PICK c \in MkdirCalls : Perform(c, MkdirRequest(c, Seek(c.name)))
      BY <2>3 DEF Mkdir
    <3>2. c \in Calls
      BY DEF Calls
    <3>3. \A r \in MkdirRequest(c, Seek(c.name)) : RequestOK(r)
      BY <2>0, <2>1, RequestTypes
    <3> QED BY <2>0, <3>1, <3>2, <3>3, PerformOwn
  <2>4. CASE MoveIn
    <3>1. PICK c \in MoveInCalls : Perform(c, MoveInRequest(c, Seek(c.name)))
      BY <2>4 DEF MoveIn
    <3>2. c \in Calls
      BY DEF Calls
    <3>3. \A r \in MoveInRequest(c, Seek(c.name)) : RequestOK(r)
      BY <2>0, <2>1, RequestTypes
    <3> QED BY <2>0, <3>1, <3>2, <3>3, PerformOwn
  <2>5. CASE RemoveEntry
    <3>1. PICK c \in RemoveCalls : Perform(c, RemoveRequest(c, Seek(c.name)))
      BY <2>5 DEF RemoveEntry
    <3>2. c \in Calls
      BY DEF Calls
    <3>3. \A r \in RemoveRequest(c, Seek(c.name)) : RequestOK(r)
      BY <2>0, <2>1, RequestTypes
    <3> QED BY <2>0, <3>1, <3>2, <3>3, PerformOwn
  <2>6. CASE Relink
    <3>1. PICK c \in RelinkCalls : Perform(c, RelinkRequest(c, Seek(c.name)))
      BY <2>6 DEF Relink
    <3>2. c \in Calls
      BY DEF Calls
    <3>3. \A r \in RelinkRequest(c, Seek(c.name)) : RequestOK(r)
      BY <2>0, <2>1, RequestTypes
    <3> QED BY <2>0, <3>1, <3>2, <3>3, PerformOwn
  <2>7. CASE Rename
    <3>1. PICK c \in RenameCalls : Perform(c, RenameRequest(c, Seek(c.name), Seek(c.to)))
      BY <2>7 DEF Rename
    <3>2. c \in Calls
      BY DEF Calls
    <3>3. \A r \in RenameRequest(c, Seek(c.name), Seek(c.to)) : RequestOK(r)
      BY <2>0, <2>1, RequestTypes
    <3> QED BY <2>0, <3>1, <3>2, <3>3, PerformOwn
  <2>8. CASE SetAttr
    <3>1. PICK c \in SetAttrCalls : Perform(c, SetAttrRequest(c, Seek(c.name)))
      BY <2>8 DEF SetAttr
    <3>2. c \in Calls
      BY DEF Calls
    <3>3. \A r \in SetAttrRequest(c, Seek(c.name)) : RequestOK(r)
      BY <2>0, <2>1, RequestTypes
    <3> QED BY <2>0, <3>1, <3>2, <3>3, PerformOwn
  <2>9. CASE RemoveAttr
    <3>1. PICK c \in RemoveAttrCalls : Perform(c, RemoveAttrRequest(c, Seek(c.name)))
      BY <2>9 DEF RemoveAttr
    <3>2. c \in Calls
      BY DEF Calls
    <3>3. \A r \in RemoveAttrRequest(c, Seek(c.name)) : RequestOK(r)
      BY <2>0, <2>1, RequestTypes
    <3> QED BY <2>0, <3>1, <3>2, <3>3, PerformOwn
  <2>10. CASE Rethread
    <3>1. PICK c \in ThreadCalls : Perform(c, ThreadRequest(c))
      BY <2>10 DEF Rethread
    <3>2. c \in Calls
      BY DEF Calls
    <3>3. \A r \in ThreadRequest(c) : RequestOK(r)
      BY <2>0, <2>1, RequestTypes
    <3> QED BY <2>0, <3>1, <3>2, <3>3, PerformOwn
  <2>11. CASE TornAppend
    BY <2>11, TornOwn
  <2> QED BY <1>2, <2>2, <2>3, <2>4, <2>5, <2>6, <2>7, <2>8, <2>9, <2>10, <2>11 DEF Next
<1> QED BY <1>1, <1>2

----------------------------------------------------------------------------
(* The theorems.                                                           *)

\* Whatever calls are made of a directory and wherever its appends are torn,
\* its logs stay within their blocks, end where a program may start, hold tags
\* a walker can decode, and are joined by tails.
THEOREM LogTypes == Spec => []TypeOK
<1>1. Init => LogInv
  BY InitInv
<1>2. LogInv /\ [Next]_vars => LogInv'
  BY NextInv
<1>3. LogInv => TypeOK
  BY InvImplies
<1> QED BY <1>1, <1>2, <1>3, PTL DEF Spec

\* A commit that can_append lets through always finds room for its CCRC,
\* whatever the block and program sizes and the lengths of names, structs and
\* attributes: op_dsize_of counts what emit_op writes, and finish_padded never
\* pads past it.
THEOREM LogAppendFits == Spec => []AppendFits
<1>1. Init => LogInv
  BY InitInv
<1>2. LogInv /\ [Next]_vars => LogInv'
  BY NextInv
<1>3. LogInv => AppendFits
  BY InvImplies
<1> QED BY <1>1, <1>2, <1>3, PTL DEF Spec

\* The rebuild of a pair whose append failed never overflows the fresh block, in
\* a directory this writer made: can_append left room for the FCRC, the CCRC and
\* the RelocateState, and what a rebuild writes is no longer than the log.
THEOREM LogRebuildFits == Spec => []RebuildFits
<1>1. Init => LogInv /\ OwnInv
  BY InitInv, InitOwn
<1>2. LogInv /\ OwnInv /\ [Next]_vars => (LogInv /\ OwnInv)'
  BY NextInv, NextOwn
<1>3. OwnInv => RebuildFits
  BY OwnImplies
<1> QED BY <1>1, <1>2, <1>3, PTL DEF Spec

\* A removal is never refused for lack of room, in a directory this writer made,
\* though there be no pair left for a split: what is left of the live set, in one
\* piece, takes no more than the log that held it.
THEOREM LogRemoveLands == Spec => []RemoveLands
<1>1. Init => LogInv /\ OwnInv
  BY InitInv, InitOwn
<1>2. LogInv /\ OwnInv /\ [Next]_vars => (LogInv /\ OwnInv)'
  BY NextInv, NextOwn
<1>3. OwnInv => RemoveLands
  BY OwnImplies
<1> QED BY <1>1, <1>2, <1>3, PTL DEF Spec
=============================================================================
