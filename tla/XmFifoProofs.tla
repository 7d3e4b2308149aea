---------------------------- MODULE XmFifoProofs ----------------------------
(***************************************************************************)
(* For every size of the ring and every number of readers and flushers,    *)
(* until operations meet in the ways that XmFifo names: no copy of a FIFO  *)
(* leaves its ring, and the writer is done after two passes of its loop,   *)
(* by an invariant that relates what an operation has loaded to the        *)
(* indices as they are when it uses it; and the FIFO implements a byte     *)
(* stream.                                                                 *)
(***************************************************************************)
EXTENDS XmFifo, SequenceTheorems, TLAPS

-----------------------------------------------------------------------------
(* Remainders.                                                             *)

LEMMA ModDef ==
  ASSUME NEW S \in Nat \ {0}, NEW a \in Int
  PROVE  /\ a % S \in 0 .. S - 1
         /\ a \div S \in Int
         /\ a = S * (a \div S) + (a % S)
  OBVIOUS

LEMMA ModUnique ==
  ASSUME NEW S \in Nat \ {0}, NEW q \in Int, NEW r \in 0 .. S - 1
  PROVE  (S * q + r) % S = r
  OBVIOUS

(* Positions of a ring that are less than its size apart.                  *)
LEMMA ModApart ==
  ASSUME NEW S \in Nat \ {0}, NEW b \in Nat, NEW t \in Nat, b <= t, t - b < S
  PROVE  \/ t % S = (b % S) + (t - b)
         \/ t % S = (b % S) + (t - b) - S
<1> DEFINE q == b \div S
           r == b % S
           x == t - b
<1>1. r \in 0 .. S - 1 /\ q \in Int /\ b = S * q + r
  BY ModDef
<1>2. x \in 0 .. S - 1
  OBVIOUS
<1> HIDE DEF q, r
<1>3. CASE r + x < S
  <2>1. t = S * q + (r + x) /\ r + x \in 0 .. S - 1
    BY <1>1, <1>2, <1>3
  <2> QED BY <2>1, <1>1, ModUnique DEF r
<1>4. CASE r + x >= S
  <2>1. r + x - S \in 0 .. S - 1
    BY <1>1, <1>2, <1>4
  <2>2. q + 1 \in Int /\ S * (q + 1) = S * q + S
    BY <1>1
  <2>3. t = S * (q + 1) + (r + x - S)
    BY <2>1, <2>2, <1>1, <1>2
  <2>4. (S * (q + 1) + (r + x - S)) % S = r + x - S
    BY <2>1, <2>2, ModUnique
  <2>5. t % S = r + x - S
    BY <2>3, <2>4
  <2> QED BY <2>5 DEF r
<1> QED BY <1>1, <1>2, <1>3, <1>4

(* A read, and a write, that does not wrap.                                *)
LEMMA ReadOffset ==
  ASSUME NEW S \in Nat \ {0}, NEW b \in Nat, NEW t \in Nat, b <= t, t - b < S,
         ~(t % S < b % S), NEW i \in 1 .. t - b
  PROVE  (b % S) + i - 1 < S
<1> DEFINE u == t % S
           r == b % S
<1>1. u \in 0 .. S - 1 /\ r \in 0 .. S - 1
  BY ModDef
<1>2. u = r + (t - b) \/ u = r + (t - b) - S
  BY ModApart
<1>3. ~(u < r)
  OBVIOUS
<1> HIDE DEF u, r
<1>4. r + i - 1 < S
  BY <1>1, <1>2, <1>3
<1> QED BY <1>4 DEF r

LEMMA WriteOffset ==
  ASSUME NEW S \in Nat \ {0}, NEW b \in Nat, NEW t \in Nat, b <= t, t - b < S,
         t = b => t = 0,
         ~(t % S > b % S), NEW i \in 1 .. S - 1 - (t - b)
  PROVE  (t % S) + i - 1 < S
<1> DEFINE u == t % S
           r == b % S
<1>1. u \in 0 .. S - 1 /\ r \in 0 .. S - 1
  BY ModDef
<1>2. u = r + (t - b) \/ u = r + (t - b) - S
  BY ModApart
<1>3. ~(u > r)
  OBVIOUS
<1>4. t = 0 => u = 0
  <2>1. (S * 0 + 0) % S = 0
    BY ModUnique
  <2> QED BY <2>1
<1> HIDE DEF u, r
<1>5. u + i - 1 < S
  BY <1>1, <1>2, <1>3, <1>4
<1> QED BY <1>5 DEF u

(* The sizes that the macros compute.                                      *)
LEMMA Sizes ==
  ASSUME NEW t \in Nat, NEW b \in Nat
  PROVE  /\ Used(t, b) \in 0 .. Size - 1 /\ Free(t, b) \in 0 .. Size - 1
         /\ b <= t /\ t - b < Size =>
              Used(t, b) = t - b /\ Free(t, b) = Size - 1 - (t - b)
<1> DEFINE x == t - b
<1>1. Size \in Nat \ {0}
  BY FifoAssumption
<1>2. Used(t, b) \in 0 .. Size - 1 /\ Free(t, b) \in 0 .. Size - 1
  BY <1>1, ModDef DEF Used, Free
<1>3. ASSUME b <= t, t - b < Size
      PROVE  Used(t, b) = x /\ Free(t, b) = Size - 1 - x
  <2>1. x \in 0 .. Size - 1 /\ Size - 1 - x \in 0 .. Size - 1
    BY <1>1, <1>3
  <2>2. /\ t + Size - b = Size * 1 + x
        /\ b + Size - t - 1 = Size * 0 + (Size - 1 - x)
    BY <1>1
  <2> HIDE DEF x
  <2>3. (Size * 1 + x) % Size = x /\ (Size * 0 + (Size - 1 - x)) % Size = Size - 1 - x
    BY <1>1, <2>1, ModUnique
  <2> QED BY <2>2, <2>3 DEF Used, Free
<1> QED BY <1>2, <1>3

LEMMA Taken ==
  ASSUME NEW t \in Nat, NEW b \in Nat, NEW n \in 0 .. Size, b <= t, t - b < Size
  PROVE  AtMost(n, Used(t, b)) \in 0 .. Size - 1 /\ AtMost(n, Used(t, b)) <= t - b
<1> DEFINE x == t - b
           u == Used(t, b)
<1>1. u = x /\ x \in 0 .. Size - 1
  BY Sizes, FifoAssumption
<1> HIDE DEF x, u
<1>2. Size \in Nat /\ n \in Nat
  BY FifoAssumption
<1>3. AtMost(n, u) \in 0 .. Size - 1 /\ AtMost(n, u) <= x
  BY <1>1, <1>2 DEF AtMost
<1> QED BY <1>3 DEF u, x

LEMMA Left ==
  ASSUME NEW t \in Nat, NEW b \in Nat, NEW n \in 0 .. Size
  PROVE  /\ AtMost(n, Free(t, b)) \in 0 .. Size - 1
         /\ b <= t /\ t - b < Size => AtMost(n, Free(t, b)) <= Size - 1 - (t - b)
<1>1. /\ Free(t, b) \in 0 .. Size - 1
      /\ b <= t /\ t - b < Size => Free(t, b) = Size - 1 - (t - b)
  BY Sizes
<1>2. AtMost(n, Free(t, b)) \in 0 .. Size - 1 /\ AtMost(n, Free(t, b)) <= Free(t, b)
  BY <1>1, FifoAssumption DEF AtMost
<1> QED BY <1>1, <1>2

(* A copy that wraps, and one from the first byte of the ring.             *)
LEMMA Wrapped ==
  ASSUME NEW o, o.pos \in Nat, NEW i \in 1 .. Size - 1, o.wraps
  PROVE  Offset(o, i) < Size
<1> DEFINE r == o.pos % Size
           a == r + i - 1
<1>1. Size \in Nat \ {0}
  BY FifoAssumption
<1>2. r \in 0 .. Size - 1
  <2>1. o.pos \in Int
    OBVIOUS
  <2> QED BY <1>1, <2>1, ModDef
<1>3. Offset(o, i) = IF a >= Size THEN a - Size ELSE a
  BY DEF Offset
<1> HIDE DEF r
<1>4. a \in Int /\ a < 2 * Size
  BY <1>1, <1>2
<1> HIDE DEF a
<1> QED BY <1>1, <1>3, <1>4

LEMMA Straight ==
  ASSUME NEW o, o.pos \in Nat, NEW i \in 1 .. Size - 1, ~o.wraps, (o.pos % Size) + i - 1 < Size
  PROVE  Offset(o, i) < Size
  BY DEF Offset

-----------------------------------------------------------------------------
(* The invariant.                                                          *)

Labels == Reading \cup Writing \cup
  {"idle", "rretry", "rtest", "rempty", "top", "bom", "wretry", "flush", "clear"}

OpOK(o) ==
  /\ DOMAIN o = {"at", "sz", "top", "bom", "old", "pos", "wraps", "dest", "passes"}
  /\ o.at \in Labels
  /\ o.sz \in 0 .. Size
  /\ o.at \notin {"rbom", "wtop"} => o.sz < Size
  /\ o.top \in Nat /\ o.bom \in Nat /\ o.old \in Nat /\ o.pos \in Nat
  /\ o.passes \in 0 .. 3

OpsOK == DOMAIN op = Sides /\ \A d \in Sides : OpOK(op[d])

FifoTypes == top \in Nat /\ bom \in Nat /\ OpsOK

(* Nobody is between its two stores of 0.                                  *)
Quiet == \A d \in Sides : op[d].at \notin {"bom", "flush"}

(* d is about to set the indices of an empty ring back.                    *)
Resets(d) == op[d].at \in {"rtest", "top"} \/ (op[d].at = "rempty" /\ op[d].top = top)

(* The indices, as anyone loads them.                                      *)
IndicesOK ==
  /\ Quiet => bom <= top /\ top - bom < Size
  /\ Quiet /\ top = bom /\ top # 0 => \E d \in Sides : Resets(d)
  /\ ~Quiet => top = 0

(* What a reader knows: both indices have only grown since it loaded them, *)
(* and what it copies is in the ring as long as bom is what it was.        *)
ReaderOK(d) ==
  /\ op[d].at \in Reading => Quiet
  /\ op[d].at \in {"rbom", "rold", "rwrap"} => op[d].top <= top
  /\ op[d].at = "rold" => op[d].bom <= bom /\ op[d].sz <= op[d].top - op[d].bom
  /\ op[d].at \in {"rwrap", "rcopy", "rcas"} => op[d].old <= bom /\ op[d].pos = op[d].old
  /\ op[d].at \in {"rcopy", "rcas"} => op[d].old + op[d].sz <= top

(* What the writer knows when it has loaded t from ff_top: it is what it   *)
(* was, or has been set back to 0, and what is free has only grown.        *)
Room(d, t) ==
  /\ top = t \/ top = 0
  /\ t # 0 => op[d].bom < t /\ op[d].sz <= Size - 1 - (t - op[d].bom)
  /\ top # 0 => op[d].bom <= bom

WriterOK(d) ==
  /\ op[d].at \in Writing \cup {"wretry"} => d = Writer
  /\ op[d].at = "wtop" /\ top # 0 => op[d].bom <= bom /\ top - op[d].bom < Size
  /\ op[d].at = "wold" => Room(d, op[d].top)
  /\ op[d].at = "wpos" => Room(d, op[d].old)
  /\ op[d].at \in {"wcopy", "wcas"} =>
       /\ top = op[d].old \/ top = 0
       /\ op[d].pos = op[d].old \/ (op[d].pos = 0 /\ top = 0)
       /\ top # 0 => op[d].sz <= Size - 1 - (top - bom)

CopyOK(d) ==
  op[d].at \in {"rcopy", "wcopy"} => \A i \in 1 .. op[d].sz : Offset(op[d], i) < Size

TopReader(d) == \A h \in Readers : h <= d

(* The loops: the writer begins again only when ff_top has been set back,  *)
(* where it stays; what a reader that no other is above has loaded from    *)
(* ff_bom is still there.                                                  *)
PassesOK(d) ==
  /\ op[d].at \in {"idle", "flush", "clear", "rempty", "top", "bom"} => op[d].passes = 0
  /\ op[d].at \in Writing =>
       \/ op[d].passes = 1
       \/ /\ op[d].passes = 2 /\ top = 0
          /\ op[d].at = "wold" => op[d].top = 0
          /\ op[d].at \in {"wpos", "wcopy", "wcas"} => op[d].old = 0
  /\ op[d].at = "wretry" => op[d].passes = 1 /\ top = 0
  /\ op[d].at \in Reading \cup {"rretry", "rtest", "rempty", "top", "bom"} => d \in Readers
  /\ op[d].at \in Reading \cup {"rretry"} /\ TopReader(d) =>
       /\ op[d].at # "rretry" /\ op[d].passes = 1
       /\ op[d].at = "rold" => op[d].bom = bom
       /\ op[d].at \in {"rwrap", "rcopy", "rcas"} => op[d].old = bom

SideOK(d) == ReaderOK(d) /\ WriterOK(d) /\ CopyOK(d) /\ PassesOK(d)

(* No operations have met, pair by pair, and load by load.                 *)
Unmet ==
  /\ \A d, h \in Sides :
       /\ d # h /\ op[d].at \in {"flush", "clear"} => op[h].at = "idle"
       /\ h > d /\ op[d].at \in {"rtest", "rempty"} /\ top = bom /\ top # 0 /\ MayStep(h) =>
            op[h].at \notin {"wold", "wpos", "wcopy"}
       /\ h > d /\ op[d].at \in {"top", "bom"} => op[h].at = "idle"
       /\ h > d /\ op[d].at \in Reading => op[h].at # "top"
  /\ \A d \in Sides :
       /\ op[d].at = "rempty" /\ op[d].top = bom => top = bom
       /\ op[d].at = "rbom" => bom <= op[d].top
       /\ op[d].at = "rwrap" =>
            op[d].old + op[d].sz <= op[d].top /\ top - op[d].old < Size

Good == IndicesOK /\ \A d \in Sides : SideOK(d)

FifoInv == FifoTypes /\ (~met => Unmet /\ Good)

LEMMA Ordered ==
  ASSUME NEW d \in Sides, NEW h \in Sides, d # h
  PROVE  d \in Nat /\ h \in Nat /\ (h > d \/ d > h)
  BY FifoAssumption

LEMMA IdleOK ==
  /\ OpOK(Idle)
  /\ Idle.at = "idle" /\ Idle.sz = 0 /\ Idle.top = 0 /\ Idle.bom = 0
  /\ Idle.old = 0 /\ Idle.pos = 0 /\ Idle.passes = 0
  BY FifoAssumption DEF Idle, OpOK, Labels

LEMMA FifoInit == Init => FifoInv
<1> SUFFICES ASSUME Init PROVE FifoInv
  OBVIOUS
<1>1. /\ DOMAIN op = Sides /\ top = 0 /\ bom = 0
      /\ \A d \in Sides : op[d] = Idle
  BY DEF Init
<1>2. OpsOK
  BY <1>1, IdleOK DEF OpsOK
<1>3. Unmet
  BY <1>1, IdleOK DEF Unmet, Reading
<1>4. IndicesOK
  BY <1>1, IdleOK, FifoAssumption DEF IndicesOK, Quiet
<1>5. ASSUME NEW d \in Sides PROVE SideOK(d)
  <2>1. op[d].at = "idle" /\ op[d].passes = 0
    BY <1>1, IdleOK
  <2> QED BY <2>1 DEF SideOK, ReaderOK, WriterOK, CopyOK, PassesOK, Reading, Writing
<1> QED BY <1>1, <1>2, <1>3, <1>4, <1>5 DEF FifoInv, FifoTypes, Good

(* Whoever may go on with an operation on the indices finds them as they   *)
(* should be.                                                              *)
LEMMA QuietAt ==
  ASSUME FifoTypes, Unmet, NEW d \in Sides, MayStep(d),
         op[d].at \notin {"idle", "bom", "flush"}
  PROVE  Quiet
<1> SUFFICES ASSUME NEW h \in Sides, h # d, op[h].at \in {"bom", "flush"}
             PROVE  FALSE
  BY DEF Quiet
<1>1. CASE h > d
  BY <1>1 DEF MayStep
<1>2. CASE d > h
  BY <1>2 DEF Unmet
<1> QED BY <1>1, <1>2, Ordered

(* A step of d leaves what the others have in progress alone.              *)
Others(d) == DOMAIN op' = Sides /\ \A h \in Sides : h # d => op'[h] = op[h]

LEMMA QuietLoads ==
  ASSUME FifoTypes, Unmet', NEW d \in Sides, MayStep(d), op[d].at \notin {"bom", "flush"},
         op'[d].at # "idle", Others(d)
  PROVE  Quiet
<1> SUFFICES ASSUME NEW h \in Sides, h # d, op[h].at \in {"bom", "flush"}
             PROVE  FALSE
  BY DEF Quiet
<1>1. CASE h > d
  BY <1>1 DEF MayStep
<1>2. CASE d > h
  BY <1>2 DEF Unmet, Others
<1> QED BY <1>1, <1>2, Ordered

LEMMA Becomes ==
  ASSUME OpsOK, NEW d \in Sides, NEW o, OpOK(o), op' = [op EXCEPT ![d] = o]
  PROVE  OpsOK' /\ Others(d) /\ op'[d] = o
  BY DEF OpsOK, Others

(* The step only moves on: what d has loaded stays.                        *)
Moved(d, label) ==
  /\ op'[d].at = label
  /\ op'[d].sz = op[d].sz /\ op'[d].top = op[d].top /\ op'[d].bom = op[d].bom
  /\ op'[d].old = op[d].old /\ op'[d].pos = op[d].pos /\ op'[d].wraps = op[d].wraps
  /\ op'[d].passes = op[d].passes

LEMMA GotoMoves ==
  ASSUME OpsOK, NEW d \in Sides, op[d].at \notin {"rbom", "wtop"},
         NEW label \in Labels, Goto(d, label)
  PROVE  OpsOK' /\ Others(d) /\ Moved(d, label)
<1> DEFINE o == [op[d] EXCEPT !.at = label]
<1>1. op' = [op EXCEPT ![d] = o]
  BY DEF Goto
<1>2. OpOK(op[d])
  BY DEF OpsOK
<1>3. /\ OpOK(o) /\ o.at = label
      /\ o.sz = op[d].sz /\ o.top = op[d].top /\ o.bom = op[d].bom
      /\ o.old = op[d].old /\ o.pos = op[d].pos /\ o.wraps = op[d].wraps
      /\ o.passes = op[d].passes
  BY <1>2 DEF OpOK
<1> HIDE DEF o
<1> QED BY <1>1, <1>3, Becomes DEF Moved

(* A step that leaves the indices alone.                                   *)
LEMMA Local ==
  ASSUME FifoTypes, Good, NEW d \in Sides, Others(d), top' = top, bom' = bom,
         op[d].at \notin {"bom", "flush", "rtest", "rempty", "top"},
         op'[d].at \notin {"bom", "flush"}, SideOK(d)'
  PROVE  Good'
<1>1. Quiet' <=> Quiet
  BY DEF Quiet, Others
<1>2. IndicesOK'
  BY <1>1 DEF Good, IndicesOK, Others, Resets
<1>3. ASSUME NEW h \in Sides, h # d PROVE SideOK(h)'
  <2>1. op'[h] = op[h] /\ SideOK(h)
    BY <1>3 DEF Others, Good
  <2> QED BY <1>1, <2>1 DEF SideOK, ReaderOK, WriterOK, Room, CopyOK, PassesOK, Offset
<1> QED BY <1>2, <1>3 DEF Good

-----------------------------------------------------------------------------
(* The loads of a reader.                                                  *)

LEMMA ReadTopStep ==
  ASSUME FifoTypes, Good, NEW d \in Sides, d \in Readers, MayStep(d),
         op[d].at \in {"idle", "rretry"}, NEW n \in 0 .. Size, ReadTop(d, n)
  PROVE  FifoTypes' /\ (Unmet' => Good')
<1> DEFINE o == [Idle EXCEPT !.at = "rbom", !.sz = n, !.top = top, !.passes = Begins(op[d])]
<1>0. op[d].passes \in 0 .. 3
  BY DEF FifoTypes, OpsOK, OpOK
<1>1. /\ OpOK(o) /\ o.at = "rbom" /\ o.sz = n /\ o.top = top
      /\ op[d].passes = 0 => o.passes = 1
  BY <1>0, IdleOK DEF OpOK, Labels, Reading, Begins, FifoTypes
<1>2. op' = [op EXCEPT ![d] = o] /\ top' = top /\ bom' = bom
  BY DEF ReadTop
<1> HIDE DEF o
<1>3. OpsOK' /\ Others(d) /\ op'[d] = o
  BY <1>1, <1>2, Becomes DEF FifoTypes
<1>4. ASSUME Unmet' PROVE Good'
  <2>1. Quiet
    BY <1>1, <1>3, <1>4, QuietLoads
  <2>2. Quiet'
    BY <1>1, <1>3, <2>1 DEF Quiet, Others
  <2>3. PassesOK(d) /\ top \in Nat
    BY DEF Good, SideOK, FifoTypes
  <2>4. TopReader(d) => o.passes = 1
    BY <1>1, <2>3 DEF PassesOK
  <2>5. ReaderOK(d)' /\ WriterOK(d)' /\ CopyOK(d)'
    BY <1>1, <1>2, <1>3, <2>2, <2>3 DEF ReaderOK, WriterOK, CopyOK, Writing
  <2>6. PassesOK(d)'
    BY <1>1, <1>3, <2>4 DEF PassesOK, Writing, TopReader
  <2> QED BY <1>1, <1>2, <1>3, <2>5, <2>6, Local DEF SideOK
<1> QED BY <1>2, <1>3, <1>4 DEF FifoTypes

LEMMA ReadBomStep ==
  ASSUME FifoTypes, Unmet, Good, NEW d \in Sides, ReadBom(d)
  PROVE  FifoTypes' /\ Good'
<1> DEFINE sz == AtMost(op[d].sz, Used(op[d].top, bom))
           on == [op[d] EXCEPT !.at = "rold", !.sz = sz, !.bom = bom]
<1>0. /\ op[d].at = "rbom" /\ top' = top /\ bom' = bom
      /\ op' = [op EXCEPT ![d] = IF sz = 0 /\ d # Linux THEN Idle ELSE on]
  BY DEF ReadBom, At
<1>1. /\ OpOK(op[d]) /\ SideOK(d) /\ top \in Nat /\ bom \in Nat
      /\ op[d].top \in Nat /\ op[d].sz \in 0 .. Size
  BY DEF FifoTypes, OpsOK, OpOK, Good
<1>2. Quiet /\ bom <= op[d].top /\ op[d].top <= top /\ top - bom < Size
  BY <1>0, <1>1 DEF SideOK, ReaderOK, Reading, Unmet, Good, IndicesOK
<1>3. sz \in 0 .. Size - 1 /\ sz <= op[d].top - bom
  <2>1. op[d].top - bom < Size
    BY <1>1, <1>2, FifoAssumption
  <2> QED BY <1>1, <1>2, <2>1, Taken
<1>5. CASE op' = [op EXCEPT ![d] = Idle]
  <2>1. OpsOK' /\ Others(d) /\ op'[d] = Idle
    BY <1>5, IdleOK, Becomes DEF FifoTypes
  <2>2. SideOK(d)'
    BY <2>1, IdleOK DEF SideOK, ReaderOK, WriterOK, CopyOK, PassesOK, Reading, Writing
  <2> QED BY <1>0, <2>1, <2>2, IdleOK, Local DEF FifoTypes
<1>6. CASE op' = [op EXCEPT ![d] = on]
  <2>1. /\ OpOK(on) /\ on.at = "rold" /\ on.sz = sz /\ on.bom = bom /\ on.top = op[d].top
        /\ on.passes = op[d].passes
    <3> HIDE DEF sz
    <3> QED BY <1>1, <1>3, FifoAssumption DEF OpOK, Labels, Reading
  <2> HIDE DEF on, sz
  <2>2. OpsOK' /\ Others(d) /\ op'[d] = on
    BY <1>6, <2>1, Becomes DEF FifoTypes
  <2>3. Quiet'
    BY <1>2, <2>1, <2>2 DEF Quiet, Others
  <2>4. ReaderOK(d)' /\ WriterOK(d)' /\ CopyOK(d)'
    BY <1>0, <1>1, <1>2, <1>3, <2>1, <2>2, <2>3 DEF ReaderOK, WriterOK, CopyOK, Writing
  <2>5. PassesOK(d)'
    BY <1>0, <1>1, <2>1, <2>2 DEF SideOK, PassesOK, Reading, Writing, TopReader
  <2> QED BY <1>0, <2>1, <2>2, <2>4, <2>5, Local DEF FifoTypes, SideOK
<1> QED BY <1>0, <1>5, <1>6

LEMMA ReadOldStep ==
  ASSUME FifoTypes, Good, NEW d \in Sides, ReadOld(d)
  PROVE  FifoTypes' /\ Good'
<1>0. /\ op[d].at = "rold" /\ top' = top /\ bom' = bom
      /\ OpOK(op[d]) /\ SideOK(d) /\ bom \in Nat
  BY DEF ReadOld, At, FifoTypes, OpsOK, Good
<1>1. PICK b \in {op[d].bom, bom} : op' = [op EXCEPT ![d].at = "rwrap", ![d].old = b, ![d].pos = b]
  BY DEF ReadOld
<1> DEFINE o == [op[d] EXCEPT !.at = "rwrap", !.old = b, !.pos = b]
<1>2. op' = [op EXCEPT ![d] = o]
  BY <1>1
<1>3. b \in Nat /\ b <= bom
  BY <1>0 DEF OpOK, SideOK, ReaderOK
<1>4. /\ OpOK(o) /\ o.at = "rwrap" /\ o.old = b /\ o.pos = b /\ o.top = op[d].top
      /\ o.passes = op[d].passes
  BY <1>0, <1>3 DEF OpOK, Labels, Reading
<1> HIDE DEF o
<1>5. OpsOK' /\ Others(d) /\ op'[d] = o
  BY <1>2, <1>4, Becomes DEF FifoTypes
<1>6. Quiet'
  BY <1>0, <1>4, <1>5 DEF SideOK, ReaderOK, Reading, Quiet, Others
<1>7. ReaderOK(d)' /\ WriterOK(d)' /\ CopyOK(d)'
  BY <1>0, <1>3, <1>4, <1>5, <1>6 DEF SideOK, ReaderOK, WriterOK, CopyOK, Writing
<1>8. PassesOK(d)'
  BY <1>0, <1>4, <1>5 DEF SideOK, PassesOK, Reading, Writing, TopReader
<1> QED BY <1>0, <1>4, <1>5, <1>7, <1>8, Local DEF FifoTypes, SideOK

LEMMA ReadWrapStep ==
  ASSUME FifoTypes, Unmet, Good, NEW d \in Sides, ReadWrap(d)
  PROVE  FifoTypes' /\ Good'
<1>0. /\ op[d].at = "rwrap" /\ top' = top /\ bom' = bom
      /\ OpOK(op[d]) /\ SideOK(d) /\ bom \in Nat /\ top \in Nat
  BY DEF ReadWrap, At, FifoTypes, OpsOK, Good
<1>1. PICK t \in {op[d].top, top} :
        op' = [op EXCEPT ![d].at = "rcopy", ![d].wraps = t % Size < op[d].pos % Size]
  BY DEF ReadWrap
<1> DEFINE o == [op[d] EXCEPT !.at = "rcopy", !.wraps = t % Size < op[d].pos % Size]
           b == op[d].old
           sz == op[d].sz
<1>2. op' = [op EXCEPT ![d] = o]
  BY <1>1
<1>3. /\ t \in Nat /\ b \in Nat /\ sz \in 0 .. Size - 1 /\ op[d].pos = b /\ b <= bom
      /\ b + sz <= t /\ b + sz <= top /\ b <= t /\ t - b < Size
  BY <1>0, FifoAssumption DEF OpOK, SideOK, ReaderOK, Unmet
<1>4. /\ OpOK(o) /\ o.at = "rcopy" /\ o.old = b /\ o.pos = b /\ o.sz = sz
      /\ o.passes = op[d].passes /\ o.wraps = (t % Size < b % Size)
  BY <1>0, <1>3 DEF OpOK, Labels, Reading
<1> HIDE DEF o
<1>5. OpsOK' /\ Others(d) /\ op'[d] = o
  BY <1>2, <1>4, Becomes DEF FifoTypes
<1>6. Quiet'
  BY <1>0, <1>4, <1>5 DEF SideOK, ReaderOK, Reading, Quiet, Others
<1> HIDE DEF b, sz
<1>7. ReaderOK(d)' /\ WriterOK(d)'
  BY <1>0, <1>3, <1>4, <1>5, <1>6 DEF ReaderOK, WriterOK, Writing
<1>8. CopyOK(d)'
  <2> SUFFICES ASSUME NEW i \in 1 .. sz PROVE Offset(o, i) < Size
    BY <1>4, <1>5 DEF CopyOK, Offset
  <2>1. i \in 1 .. Size - 1 /\ i \in 1 .. t - b
    BY <1>3, FifoAssumption
  <2>2. CASE t % Size < b % Size
    BY <1>3, <1>4, <2>1, <2>2, Wrapped
  <2>3. CASE ~(t % Size < b % Size)
    <3>1. (b % Size) + i - 1 < Size
      BY <1>3, <2>1, <2>3, ReadOffset, FifoAssumption
    <3> QED BY <1>3, <1>4, <2>1, <2>3, <3>1, Straight
  <2> QED BY <2>2, <2>3
<1>9. PassesOK(d)'
  BY <1>0, <1>4, <1>5 DEF SideOK, PassesOK, Reading, Writing, TopReader, b
<1> QED BY <1>0, <1>4, <1>5, <1>7, <1>8, <1>9, Local DEF FifoTypes, SideOK

-----------------------------------------------------------------------------
(* The loads of the writer.                                                *)

LEMMA WriteBomStep ==
  ASSUME FifoTypes, Good, NEW d \in Sides, d = Writer, MayStep(d),
         op[d].at \in {"idle", "wretry"}, NEW n \in 0 .. Size, WriteBom(d, n)
  PROVE  FifoTypes' /\ (Unmet' => Good')
<1> DEFINE o == [Idle EXCEPT !.at = "wtop", !.sz = n, !.bom = bom, !.passes = Begins(op[d])]
<1>0. op[d].passes \in 0 .. 3
  BY DEF FifoTypes, OpsOK, OpOK
<1>1. /\ OpOK(o) /\ o.at = "wtop" /\ o.sz = n /\ o.bom = bom
      /\ op[d].passes = 0 => o.passes = 1
      /\ op[d].passes = 1 => o.passes = 2
  BY <1>0, IdleOK DEF OpOK, Labels, Writing, Begins, FifoTypes
<1>2. op' = [op EXCEPT ![d] = o] /\ top' = top /\ bom' = bom
  BY DEF WriteBom
<1> HIDE DEF o
<1>3. OpsOK' /\ Others(d) /\ op'[d] = o
  BY <1>1, <1>2, Becomes DEF FifoTypes
<1>4. ASSUME Unmet' PROVE Good'
  <2>1. Quiet
    BY <1>1, <1>3, <1>4, QuietLoads
  <2>2. bom <= top /\ top - bom < Size /\ bom \in Nat /\ PassesOK(d)
    BY <2>1 DEF Good, IndicesOK, FifoTypes, SideOK
  <2>3. ReaderOK(d)' /\ WriterOK(d)' /\ CopyOK(d)'
    BY <1>1, <1>2, <1>3, <2>2 DEF ReaderOK, WriterOK, CopyOK, Reading
  <2>4. PassesOK(d)'
    BY <1>1, <1>2, <1>3, <2>2 DEF PassesOK, Reading
  <2> QED BY <1>1, <1>2, <1>3, <2>3, <2>4, Local DEF SideOK
<1> QED BY <1>2, <1>3, <1>4 DEF FifoTypes

(* The writer does not go on from an index that is about to be set back.   *)
LEMMA NotEmptied ==
  ASSUME FifoTypes, Good, Unmet', NEW d \in Sides, MayStep(d), Others(d),
         top' = top, bom' = bom,
         op[d].at \in Writing, op'[d].at \in {"wold", "wpos", "wcopy"}, Quiet, top = bom
  PROVE  top = 0
<1> SUFFICES ASSUME top # 0 PROVE FALSE
  OBVIOUS
<1>1. PICK h \in Sides : Resets(h)
  BY DEF Good, IndicesOK
<1>2. h # d /\ op[h].at \in {"rtest", "rempty", "top"} /\ op'[h] = op[h]
  BY <1>1 DEF Resets, Writing, Others
<1>3. CASE h > d
  BY <1>2, <1>3 DEF MayStep
<1>4. CASE d > h
  <2>1. MayStep(d)'
    <3> SUFFICES ASSUME NEW g \in Sides, g > d PROVE op'[g].at = "idle"
      BY DEF MayStep
    <3>1. g # d
      BY FifoAssumption
    <3> QED BY <3>1 DEF MayStep, Others
  <2> QED BY <1>2, <1>4, <2>1 DEF Unmet
<1> QED BY <1>2, <1>3, <1>4, Ordered

LEMMA WriteTopStep ==
  ASSUME FifoTypes, Unmet, Good, NEW d \in Sides, WriteTop(d)
  PROVE  FifoTypes' /\ (Unmet' => Good')
<1> DEFINE sz == AtMost(op[d].sz, Free(top, op[d].bom))
           on == [op[d] EXCEPT !.at = "wold", !.sz = sz, !.top = top]
<1>0. /\ op[d].at = "wtop" /\ MayStep(d) /\ top' = top /\ bom' = bom
      /\ op' = [op EXCEPT ![d] = IF sz = 0 /\ d # Linux THEN Idle ELSE on]
  BY DEF WriteTop, At
<1>1. /\ OpOK(op[d]) /\ SideOK(d) /\ top \in Nat /\ bom \in Nat
      /\ op[d].bom \in Nat /\ op[d].sz \in 0 .. Size
  BY DEF FifoTypes, OpsOK, OpOK, Good
<1>2. Quiet /\ bom <= top /\ top - bom < Size
  BY <1>0, QuietAt DEF Good, IndicesOK
<1>3. /\ sz \in 0 .. Size - 1
      /\ op[d].bom <= top /\ top - op[d].bom < Size => sz <= Size - 1 - (top - op[d].bom)
  BY <1>1, Left
<1>4. top # 0 => /\ op[d].bom <= bom /\ op[d].bom <= top
                 /\ sz <= Size - 1 - (top - op[d].bom)
  <2>1. top # 0 => op[d].bom <= bom /\ top - op[d].bom < Size
    BY <1>0, <1>1 DEF SideOK, WriterOK
  <2> HIDE DEF sz
  <2> QED BY <1>1, <1>2, <1>3, <2>1
<1>5. CASE op' = [op EXCEPT ![d] = Idle]
  <2>1. OpsOK' /\ Others(d) /\ op'[d] = Idle
    BY <1>5, IdleOK, Becomes DEF FifoTypes
  <2>2. SideOK(d)'
    BY <2>1, IdleOK DEF SideOK, ReaderOK, WriterOK, CopyOK, PassesOK, Reading, Writing
  <2> QED BY <1>0, <2>1, <2>2, IdleOK, Local DEF FifoTypes
<1>6. CASE op' = [op EXCEPT ![d] = on]
  <2>1. /\ OpOK(on) /\ on.at = "wold" /\ on.sz = sz /\ on.bom = op[d].bom /\ on.top = top
        /\ on.passes = op[d].passes
    <3> HIDE DEF sz
    <3> QED BY <1>1, <1>3, FifoAssumption DEF OpOK, Labels, Writing
  <2> HIDE DEF on, sz
  <2>2. OpsOK' /\ Others(d) /\ op'[d] = on
    BY <1>6, <2>1, Becomes DEF FifoTypes
  <2>3. ASSUME Unmet' PROVE Good'
    <3>1. top = bom => top = 0
      BY <1>0, <1>2, <2>1, <2>2, <2>3, NotEmptied DEF Writing
    <3>2. top # 0 => op[d].bom < top
      BY <1>1, <1>2, <1>4, <3>1
    <3>3. Room(d, op[d].top)'
      BY <1>0, <1>4, <2>1, <2>2, <3>2 DEF Room
    <3>4. ReaderOK(d)' /\ WriterOK(d)' /\ CopyOK(d)'
      BY <1>0, <1>1, <2>1, <2>2, <3>3 DEF SideOK, ReaderOK, WriterOK, CopyOK, Reading, Writing
    <3>5. PassesOK(d)'
      BY <1>0, <1>1, <2>1, <2>2 DEF SideOK, PassesOK, Reading, Writing
    <3> QED BY <1>0, <2>1, <2>2, <3>4, <3>5, Local DEF SideOK
  <2> QED BY <1>0, <2>2, <2>3 DEF FifoTypes
<1> QED BY <1>0, <1>5, <1>6

LEMMA WriteOldStep ==
  ASSUME FifoTypes, Good, NEW d \in Sides, WriteOld(d)
  PROVE  FifoTypes' /\ Good'
<1>0. /\ op[d].at = "wold" /\ top' = top /\ bom' = bom
      /\ OpOK(op[d]) /\ SideOK(d) /\ top \in Nat
  BY DEF WriteOld, At, FifoTypes, OpsOK, Good
<1>1. PICK t \in {op[d].top, top} : op' = [op EXCEPT ![d].at = "wpos", ![d].old = t]
  BY DEF WriteOld
<1> DEFINE o == [op[d] EXCEPT !.at = "wpos", !.old = t]
<1>2. op' = [op EXCEPT ![d] = o] /\ t \in Nat
  BY <1>0, <1>1 DEF OpOK
<1>3. /\ OpOK(o) /\ o.at = "wpos" /\ o.old = t /\ o.sz = op[d].sz /\ o.bom = op[d].bom
      /\ o.passes = op[d].passes
  BY <1>0, <1>2 DEF OpOK, Labels, Writing
<1> HIDE DEF o
<1>4. OpsOK' /\ Others(d) /\ op'[d] = o
  BY <1>2, <1>3, Becomes DEF FifoTypes
<1>5. Room(d, t)'
  BY <1>0, <1>3, <1>4 DEF SideOK, WriterOK, Room
<1>6. ReaderOK(d)' /\ WriterOK(d)' /\ CopyOK(d)'
  BY <1>0, <1>3, <1>4, <1>5 DEF SideOK, ReaderOK, WriterOK, CopyOK, Reading, Writing
<1>7. PassesOK(d)'
  BY <1>0, <1>3, <1>4 DEF SideOK, PassesOK, Reading, Writing
<1> QED BY <1>0, <1>3, <1>4, <1>6, <1>7, Local DEF FifoTypes, SideOK

LEMMA WritePosStep ==
  ASSUME FifoTypes, Unmet, Good, NEW d \in Sides, WritePos(d)
  PROVE  FifoTypes' /\ (Unmet' => Good')
<1>0. /\ op[d].at = "wpos" /\ MayStep(d) /\ top' = top /\ bom' = bom
      /\ OpOK(op[d]) /\ SideOK(d) /\ top \in Nat /\ bom \in Nat
  BY DEF WritePos, At, FifoTypes, OpsOK, Good
<1>1. PICK t \in {op[d].old, top}, b \in {op[d].bom, bom} :
        op' = [op EXCEPT ![d].at = "wcopy", ![d].pos = t, ![d].wraps = t % Size > b % Size]
  BY DEF WritePos
<1> DEFINE o == [op[d] EXCEPT !.at = "wcopy", !.pos = t, !.wraps = t % Size > b % Size]
           sz == op[d].sz
<1>10. op' = [op EXCEPT ![d] = o]
  BY <1>1
<1> HIDE DEF o
<1>2. /\ t \in Nat /\ b \in Nat /\ sz \in 0 .. Size - 1 /\ op[d].old \in Nat /\ op[d].bom \in Nat
  BY <1>0, FifoAssumption DEF OpOK
<1>3. /\ OpOK(o) /\ o.at = "wcopy" /\ o.pos = t /\ o.old = op[d].old /\ o.sz = sz
      /\ o.wraps = (t % Size > b % Size) /\ o.passes = op[d].passes
  BY <1>0, <1>2 DEF OpOK, Labels, Writing, o
<1>4. OpsOK' /\ Others(d) /\ op'[d] = o
  BY <1>3, <1>10, Becomes DEF FifoTypes
<1>5. Quiet /\ bom <= top /\ top - bom < Size
  BY <1>0, QuietAt DEF Good, IndicesOK
<1>6. Room(d, op[d].old)
  BY <1>0 DEF SideOK, WriterOK
<1>7. top # 0 => sz <= Size - 1 - (top - bom)
  BY <1>0, <1>2, <1>5, <1>6, FifoAssumption DEF Room
<1> HIDE DEF sz
<1>8. ASSUME Unmet' PROVE Good'
  <2>1. top = bom => top = 0
    BY <1>0, <1>3, <1>4, <1>5, <1>8, NotEmptied DEF Writing
  <2>2. t = 0 \/ b = 0 \/ (b < t /\ t - b < Size /\ sz <= Size - 1 - (t - b))
    <3>1. CASE t = top
      BY <1>0, <1>2, <1>5, <1>6, <1>7, <2>1, <3>1, FifoAssumption DEF Room, sz
    <3>2. CASE t # top
      <4>1. t = op[d].old /\ top = 0 /\ bom = 0
        BY <1>0, <1>5, <1>6, <3>2 DEF Room
      <4> QED BY <1>2, <1>6, <4>1, FifoAssumption DEF Room, sz
    <3> QED BY <3>1, <3>2
  <2>3. CopyOK(d)'
    <3> SUFFICES ASSUME NEW i \in 1 .. sz PROVE Offset(o, i) < Size
      BY <1>3, <1>4 DEF CopyOK, Offset
    <3>1. i \in 1 .. Size - 1
      BY <1>2, FifoAssumption DEF sz
    <3>2. CASE t % Size > b % Size
      BY <1>2, <1>3, <3>1, <3>2, Wrapped
    <3>3. CASE ~(t % Size > b % Size)
      <4>1. (t % Size) + i - 1 < Size
        <5>1. CASE t = 0 \/ b = 0
          <6>1. Size \in Nat \ {0} /\ 0 \in 0 .. Size - 1
            BY FifoAssumption
          <6>2. (Size * 0 + 0) % Size = 0 /\ t % Size \in 0 .. Size - 1
            BY <1>2, <6>1, ModUnique, ModDef
          <6>3. t % Size = 0
            BY <3>3, <5>1, <6>1, <6>2
          <6> QED BY <3>1, <6>3, FifoAssumption
        <5>2. CASE b < t /\ t - b < Size /\ sz <= Size - 1 - (t - b)
          <6>1. b <= t /\ t # b /\ i \in 1 .. Size - 1 - (t - b) /\ t \in Nat /\ b \in Nat
            BY <1>2, <3>1, <5>2, FifoAssumption DEF sz
          <6>2. Size \in Nat \ {0} /\ t - b < Size
            BY <5>2, FifoAssumption
          <6> HIDE DEF sz
          <6> QED BY <3>3, <6>1, <6>2, WriteOffset
        <5> QED BY <2>2, <5>1, <5>2
      <4> QED BY <1>2, <1>3, <3>1, <3>3, <4>1, Straight
    <3> QED BY <3>2, <3>3
  <2>4. ReaderOK(d)' /\ WriterOK(d)'
    BY <1>0, <1>3, <1>4, <1>6, <1>7 DEF SideOK, ReaderOK, WriterOK, Room, Reading, Writing
  <2>5. PassesOK(d)'
    BY <1>0, <1>3, <1>4 DEF SideOK, PassesOK, Reading, Writing
  <2> QED BY <1>0, <1>3, <1>4, <2>3, <2>4, <2>5, Local DEF SideOK
<1> QED BY <1>0, <1>4, <1>8 DEF FifoTypes

-----------------------------------------------------------------------------
(* The copies, and the test for an empty ring.                             *)

LEMMA ReadCopyStep ==
  ASSUME FifoTypes, Good, NEW d \in Sides, ReadCopy(d)
  PROVE  FifoTypes' /\ Good'
<1> DEFINE x == [i \in 1 .. op[d].sz |-> mem[Offset(op[d], i)]]
           o == [op[d] EXCEPT !.at = "rcas", !.dest = x]
<1>0. /\ op[d].at = "rcopy" /\ top' = top /\ bom' = bom
      /\ OpOK(op[d]) /\ SideOK(d)
      /\ op' = [op EXCEPT ![d].at = "rcas", ![d].dest = x]
  BY DEF ReadCopy, At, FifoTypes, OpsOK, Good
<1> HIDE DEF x
<1>1. op' = [op EXCEPT ![d] = o]
  BY <1>0
<1>2. /\ OpOK(o) /\ o.at = "rcas" /\ o.old = op[d].old /\ o.pos = op[d].pos /\ o.sz = op[d].sz
      /\ o.passes = op[d].passes
  BY <1>0 DEF OpOK, Labels, Reading
<1> HIDE DEF o
<1>3. OpsOK' /\ Others(d) /\ op'[d] = o
  BY <1>1, <1>2, Becomes DEF FifoTypes
<1>4. Quiet'
  BY <1>0, <1>2, <1>3 DEF SideOK, ReaderOK, Reading, Quiet, Others
<1>5. SideOK(d)'
  BY <1>0, <1>2, <1>3, <1>4
     DEF SideOK, ReaderOK, WriterOK, CopyOK, PassesOK, Reading, Writing, TopReader
<1> QED BY <1>0, <1>2, <1>3, <1>5, Local DEF FifoTypes

LEMMA WriteCopyStep ==
  ASSUME FifoTypes, Good, NEW d \in Sides, WriteCopy(d)
  PROVE  FifoTypes' /\ Good'
<1>0. /\ op[d].at = "wcopy" /\ top' = top /\ bom' = bom /\ Goto(d, "wcas") /\ SideOK(d)
  BY DEF WriteCopy, At, Good
<1>1. OpsOK' /\ Others(d) /\ Moved(d, "wcas")
  BY <1>0, GotoMoves DEF FifoTypes, Labels, Writing
<1>2. SideOK(d)'
  BY <1>0, <1>1 DEF Moved, SideOK, ReaderOK, WriterOK, CopyOK, PassesOK, Reading, Writing
<1> QED BY <1>0, <1>1, <1>2, Local DEF FifoTypes, Moved

LEMMA FlushMemoryStep ==
  ASSUME FifoTypes, Good, NEW d \in Sides, FlushMemory(d)
  PROVE  FifoTypes' /\ Good'
<1>0. /\ op[d].at = "clear" /\ top' = top /\ bom' = bom /\ Goto(d, "idle") /\ SideOK(d)
  BY DEF FlushMemory, At, Good
<1>1. OpsOK' /\ Others(d) /\ Moved(d, "idle")
  BY <1>0, GotoMoves DEF FifoTypes, Labels
<1>2. SideOK(d)'
  BY <1>0, <1>1 DEF Moved, SideOK, ReaderOK, WriterOK, CopyOK, PassesOK, Reading, Writing
<1> QED BY <1>0, <1>1, <1>2, Local DEF FifoTypes, Moved

(* The same as Local, for the reader that tests.                           *)
LEMMA Tests ==
  ASSUME FifoTypes, Good, NEW d \in Sides, Others(d), top' = top, bom' = bom,
         op[d].at \in {"rtest", "rempty"}, op'[d].at \notin {"bom", "flush"}, SideOK(d)',
         Resets(d) /\ top = bom => Resets(d)'
  PROVE  Good'
<1>1. Quiet' <=> Quiet
  BY DEF Quiet, Others
<1>2. IndicesOK'
  BY <1>1 DEF Good, IndicesOK, Others, Resets
<1>3. ASSUME NEW h \in Sides, h # d PROVE SideOK(h)'
  <2>1. op'[h] = op[h] /\ SideOK(h)
    BY <1>3 DEF Others, Good
  <2> QED BY <1>1, <2>1 DEF SideOK, ReaderOK, WriterOK, Room, CopyOK, PassesOK, Offset
<1> QED BY <1>2, <1>3 DEF Good

LEMMA TestTopStep ==
  ASSUME FifoTypes, Good, NEW d \in Sides, TestTop(d)
  PROVE  FifoTypes' /\ Good'
<1> DEFINE o == [Idle EXCEPT !.at = "rempty", !.top = top]
<1>0. /\ op[d].at = "rtest" /\ top' = top /\ bom' = bom /\ top \in Nat
      /\ op' = [op EXCEPT ![d] = o] /\ SideOK(d)
  BY DEF TestTop, At, FifoTypes, Good
<1>1. OpOK(o) /\ o.at = "rempty" /\ o.top = top /\ o.passes = 0
  BY <1>0, IdleOK DEF OpOK, Labels
<1> HIDE DEF o
<1>2. OpsOK' /\ Others(d) /\ op'[d] = o
  BY <1>0, <1>1, Becomes DEF FifoTypes
<1>3. SideOK(d)'
  BY <1>0, <1>1, <1>2 DEF SideOK, ReaderOK, WriterOK, CopyOK, PassesOK, Reading, Writing
<1>4. Resets(d)'
  BY <1>0, <1>1, <1>2 DEF Resets
<1> QED BY <1>0, <1>1, <1>2, <1>3, <1>4, Tests DEF FifoTypes

LEMMA TestBomStep ==
  ASSUME FifoTypes, Good, NEW d \in Sides, TestBom(d)
  PROVE  FifoTypes' /\ Good'
<1> DEFINE on == [Idle EXCEPT !.at = "top"]
<1>0. /\ op[d].at = "rempty" /\ top' = top /\ bom' = bom /\ SideOK(d)
      /\ op' = [op EXCEPT ![d] = IF op[d].top = bom THEN on ELSE Idle]
  BY DEF TestBom, At, Good
<1>1. OpOK(on) /\ on.at = "top" /\ on.passes = 0
  BY IdleOK DEF OpOK, Labels
<1> HIDE DEF on
<1>2. CASE op[d].top = bom
  <2>1. OpsOK' /\ Others(d) /\ op'[d] = on
    BY <1>0, <1>1, <1>2, Becomes DEF FifoTypes
  <2>2. SideOK(d)'
    BY <1>0, <1>1, <2>1 DEF SideOK, ReaderOK, WriterOK, CopyOK, PassesOK, Reading, Writing
  <2>3. Resets(d)'
    BY <1>1, <2>1 DEF Resets
  <2> QED BY <1>0, <1>1, <2>1, <2>2, <2>3, Tests DEF FifoTypes
<1>3. CASE op[d].top # bom
  <2>1. OpsOK' /\ Others(d) /\ op'[d] = Idle
    BY <1>0, <1>3, IdleOK, Becomes DEF FifoTypes
  <2>2. SideOK(d)'
    BY <2>1, IdleOK DEF SideOK, ReaderOK, WriterOK, CopyOK, PassesOK, Reading, Writing
  <2>3. ~(Resets(d) /\ top = bom)
    BY <1>0, <1>3 DEF Resets
  <2> QED BY <1>0, <2>1, <2>2, <2>3, IdleOK, Tests DEF FifoTypes
<1> QED BY <1>2, <1>3

-----------------------------------------------------------------------------
(* The compare-and-swaps.                                                  *)

LEMMA ReadCasStep ==
  ASSUME FifoTypes, Good, NEW d \in Sides, ReadCas(d)
  PROVE  FifoTypes' /\ Good'
<1>1. /\ op[d].at = "rcas" /\ MayStep(d) /\ top' = top /\ SideOK(d)
      /\ top \in Nat /\ bom \in Nat /\ op[d].old \in Nat /\ op[d].sz \in 0 .. Size - 1
  BY FifoAssumption DEF ReadCas, At, Good, FifoTypes, OpsOK, OpOK
<1>2. Quiet /\ bom <= top /\ top - bom < Size /\ op[d].old + op[d].sz <= top
  BY <1>1 DEF Good, SideOK, ReaderOK, Reading, IndicesOK
<1>3. d \in Readers
  BY <1>1 DEF SideOK, PassesOK, Reading
<1>4. CASE bom = op[d].old /\ bom' = bom + op[d].sz /\ Goto(d, "rtest")
  <2>1. OpsOK' /\ Others(d) /\ Moved(d, "rtest")
    BY <1>1, <1>4, GotoMoves DEF FifoTypes, Labels
  <2>2. Quiet'
    BY <1>2, <2>1 DEF Quiet, Moved, Others
  <2>3. bom' \in Nat /\ bom <= bom' /\ bom' <= top /\ top - bom' < Size
    BY <1>1, <1>2, <1>4, FifoAssumption
  <2>4. IndicesOK'
    BY <1>1, <2>1, <2>2, <2>3 DEF IndicesOK, Moved, Resets
  <2>5. SideOK(d)'
    BY <1>1, <1>3, <2>1 DEF Moved, SideOK, ReaderOK, WriterOK, CopyOK, PassesOK, Reading, Writing
  <2>6. ASSUME NEW h \in Sides, h # d PROVE SideOK(h)'
    <3>1. op'[h] = op[h] /\ SideOK(h) /\ OpOK(op[h])
      BY <2>1, <2>6 DEF Others, Good, FifoTypes, OpsOK
    <3>2. ReaderOK(h)'
      BY <1>1, <2>2, <2>3, <3>1 DEF SideOK, ReaderOK, OpOK
    <3>3. WriterOK(h)'
      <4>1. /\ top # 0 /\ op[h].bom <= bom => op[h].bom <= bom'
            /\ top # 0 /\ op[h].sz <= Size - 1 - (top - bom) => op[h].sz <= Size - 1 - (top - bom')
        BY <1>1, <2>3, <3>1, FifoAssumption DEF OpOK
      <4> QED BY <1>1, <3>1, <4>1 DEF SideOK, WriterOK, Room
    <3>4. CopyOK(h)'
      BY <3>1 DEF SideOK, CopyOK, Offset
    <3>5. PassesOK(h)'
      <4>1. ASSUME op[h].at \in Reading \cup {"rretry"}, TopReader(h) PROVE FALSE
        <5>1. d <= h /\ d \in Nat /\ h \in Nat
          BY <1>3, <4>1, FifoAssumption DEF TopReader
        <5>2. h > d
          BY <2>6, <5>1
        <5> QED BY <1>1, <4>1, <5>2 DEF MayStep, Reading
      <4> QED BY <1>1, <3>1, <4>1 DEF SideOK, PassesOK, TopReader
    <3> QED BY <3>2, <3>3, <3>4, <3>5 DEF SideOK
  <2> QED BY <1>1, <2>1, <2>3, <2>4, <2>5, <2>6 DEF FifoTypes, Good
<1>5. CASE bom # op[d].old /\ bom' = bom /\ Goto(d, "rretry")
  <2>1. OpsOK' /\ Others(d) /\ Moved(d, "rretry")
    BY <1>1, <1>5, GotoMoves DEF FifoTypes, Labels
  <2>2. SideOK(d)'
    BY <1>1, <1>5, <2>1
       DEF Moved, SideOK, ReaderOK, WriterOK, CopyOK, PassesOK, Reading, Writing, TopReader
  <2> QED BY <1>1, <1>5, <2>1, <2>2, Local DEF FifoTypes, Moved
<1> QED BY <1>4, <1>5 DEF ReadCas

LEMMA WriteCasStep ==
  ASSUME FifoTypes, Unmet, Good, NEW d \in Sides, WriteCas(d)
  PROVE  FifoTypes' /\ Good'
<1>1. /\ op[d].at = "wcas" /\ MayStep(d) /\ bom' = bom /\ SideOK(d)
      /\ top \in Nat /\ bom \in Nat /\ op[d].old \in Nat /\ op[d].pos \in Nat
      /\ op[d].sz \in 0 .. Size - 1
  BY FifoAssumption DEF WriteCas, At, Good, FifoTypes, OpsOK, OpOK
<1>2. Quiet /\ bom <= top /\ top - bom < Size /\ d = Writer
  BY <1>1, QuietAt DEF Good, SideOK, WriterOK, IndicesOK, Writing
<1>3. CASE top = op[d].old /\ top' = op[d].pos + op[d].sz /\ op' = [op EXCEPT ![d] = Idle]
  <2>1. OpsOK' /\ Others(d) /\ op'[d] = Idle
    BY <1>3, IdleOK, Becomes DEF FifoTypes
  <2>2. Quiet'
    BY <1>2, <2>1, IdleOK DEF Quiet, Others
  <2>3. top' = top + op[d].sz
    BY <1>1, <1>3 DEF SideOK, WriterOK
  <2>4. op[d].sz <= Size - 1 - (top - bom)
    BY <1>1, <1>2, FifoAssumption DEF SideOK, WriterOK
  <2>5. top' \in Nat /\ top <= top' /\ top' - bom < Size /\ bom <= top'
    BY <1>1, <1>2, <2>3, <2>4, FifoAssumption
  <2>6. IndicesOK'
    <3>1. ASSUME top' = bom, top' # 0
          PROVE  \E h \in Sides : Resets(h)'
      <4>1. top' = top /\ top = bom /\ top # 0
        BY <1>1, <1>2, <2>5, <3>1
      <4>2. PICK h \in Sides : Resets(h)
        BY <1>2, <4>1 DEF Good, IndicesOK
      <4>3. h # d
        BY <1>1, <4>2 DEF Resets
      <4> QED BY <2>1, <4>1, <4>2, <4>3 DEF Others, Resets
    <3> QED BY <1>1, <1>2, <2>2, <2>5, <3>1 DEF IndicesOK
  <2>7. SideOK(d)'
    BY <2>1, IdleOK DEF SideOK, ReaderOK, WriterOK, CopyOK, PassesOK, Reading, Writing
  <2>8. ASSUME NEW h \in Sides, h # d PROVE SideOK(h)'
    <3>1. op'[h] = op[h] /\ SideOK(h) /\ OpOK(op[h])
      BY <2>1, <2>8 DEF Others, Good, FifoTypes, OpsOK
    <3>2. op[h].at \notin Writing \cup {"wretry"}
      BY <1>2, <2>8, <3>1 DEF SideOK, WriterOK
    <3>3. ReaderOK(h)'
      BY <1>1, <2>2, <2>5, <3>1 DEF SideOK, ReaderOK, OpOK
    <3>4. WriterOK(h)' /\ CopyOK(h)'
      BY <3>1, <3>2 DEF SideOK, WriterOK, CopyOK, Offset, Writing
    <3>5. PassesOK(h)'
      BY <1>1, <3>1, <3>2 DEF SideOK, PassesOK, TopReader
    <3> QED BY <3>3, <3>4, <3>5 DEF SideOK
  <2> QED BY <1>1, <2>1, <2>5, <2>6, <2>7, <2>8 DEF FifoTypes, Good
<1>4. CASE top # op[d].old /\ top' = top /\ Goto(d, "wretry")
  <2>1. OpsOK' /\ Others(d) /\ Moved(d, "wretry")
    BY <1>1, <1>4, GotoMoves DEF FifoTypes, Labels
  <2>2. SideOK(d)'
    BY <1>1, <1>2, <1>4, <2>1
       DEF Moved, SideOK, ReaderOK, WriterOK, CopyOK, PassesOK, Reading, Writing
  <2> QED BY <1>1, <1>4, <2>1, <2>2, Local DEF FifoTypes, Moved
<1> QED BY <1>3, <1>4 DEF WriteCas

-----------------------------------------------------------------------------
(* The stores of 0.  Nobody copies out of the ring between them.           *)

LEMMA ResetTopStep ==
  ASSUME FifoTypes, Unmet, Good, NEW d \in Sides, ResetTop(d)
  PROVE  FifoTypes' /\ Good'
<1>1. op[d].at = "top" /\ MayStep(d) /\ top' = 0 /\ bom' = bom /\ Goto(d, "bom") /\ SideOK(d)
  BY DEF ResetTop, At, Good
<1>2. OpsOK' /\ Others(d) /\ Moved(d, "bom")
  BY <1>1, GotoMoves DEF FifoTypes, Labels
<1>3. ~Quiet'
  BY <1>2 DEF Quiet, Moved
<1>4. IndicesOK'
  BY <1>1, <1>3 DEF IndicesOK
<1>5. SideOK(d)'
  BY <1>1, <1>2 DEF Moved, SideOK, ReaderOK, WriterOK, CopyOK, PassesOK, Reading, Writing
<1>6. ASSUME NEW h \in Sides, h # d PROVE SideOK(h)'
  <2>1. op'[h] = op[h] /\ SideOK(h) /\ OpOK(op[h])
    BY <1>2, <1>6 DEF Others, Good, FifoTypes, OpsOK
  <2>2. op[h].at \notin Reading
    <3>1. CASE h > d
      BY <1>1, <3>1 DEF MayStep, Reading
    <3>2. CASE d > h
      BY <1>1, <3>2 DEF Unmet
    <3> QED BY <1>6, <3>1, <3>2, Ordered
  <2>3. ReaderOK(h)'
    BY <2>1, <2>2 DEF ReaderOK, Reading
  <2>4. WriterOK(h)'
    BY <1>1, <2>1 DEF SideOK, WriterOK, Room
  <2>5. CopyOK(h)'
    BY <2>1 DEF SideOK, CopyOK, Offset
  <2>6. PassesOK(h)'
    BY <1>1, <2>1, <2>2 DEF SideOK, PassesOK, TopReader, Reading
  <2> QED BY <2>3, <2>4, <2>5, <2>6 DEF SideOK
<1> QED BY <1>1, <1>2, <1>4, <1>5, <1>6 DEF FifoTypes, Good

LEMMA ZeroBom ==
  ASSUME FifoTypes, Unmet, Good, NEW d \in Sides, op[d].at \in {"bom", "flush"}, MayStep(d),
         NEW label \in {"idle", "clear"}, Goto(d, label), bom' = 0, top' = top
  PROVE  FifoTypes' /\ Good'
<1>1. OpsOK' /\ Others(d) /\ Moved(d, label) /\ SideOK(d)
  BY GotoMoves DEF FifoTypes, Labels, Good
<1>2. ~Quiet /\ top = 0
  BY DEF Quiet, Good, IndicesOK
<1>3. IndicesOK'
  BY <1>2, FifoAssumption DEF IndicesOK
<1>4. SideOK(d)'
  BY <1>1 DEF Moved, SideOK, ReaderOK, WriterOK, CopyOK, PassesOK, Reading, Writing
<1>5. ASSUME NEW h \in Sides, h # d PROVE SideOK(h)'
  <2>1. op'[h] = op[h] /\ SideOK(h) /\ OpOK(op[h])
    BY <1>1, <1>5 DEF Others, Good, FifoTypes, OpsOK
  <2>2. op[h].at \notin Reading
    BY <1>2, <2>1 DEF SideOK, ReaderOK
  <2>3. ReaderOK(h)'
    BY <2>1, <2>2 DEF ReaderOK, Reading
  <2>4. WriterOK(h)'
    BY <1>2, <2>1 DEF SideOK, WriterOK, Room
  <2>5. CopyOK(h)'
    BY <2>1 DEF SideOK, CopyOK, Offset
  <2>6. PassesOK(h)'
    <3>1. op[h].at = "rretry" => ~TopReader(h)
      BY <2>1 DEF SideOK, PassesOK
    <3> QED BY <2>1, <2>2, <3>1 DEF SideOK, PassesOK, TopReader, Reading
  <2> QED BY <2>3, <2>4, <2>5, <2>6 DEF SideOK
<1> QED BY <1>1, <1>2, <1>3, <1>4, <1>5 DEF FifoTypes, Good

LEMMA FlushStep ==
  ASSUME FifoTypes, Good, NEW d \in Sides, Flush(d)
  PROVE  FifoTypes' /\ (Unmet' => Good')
<1>1. op[d].at = "idle" /\ top' = 0 /\ bom' = bom /\ Goto(d, "flush") /\ SideOK(d)
  BY DEF Flush, At, Good
<1>2. OpsOK' /\ Others(d) /\ Moved(d, "flush")
  BY <1>1, GotoMoves DEF FifoTypes, Labels
<1>3. ASSUME Unmet' PROVE Good'
  <2>1. ~Quiet'
    BY <1>2 DEF Quiet, Moved
  <2>2. IndicesOK'
    BY <1>1, <2>1 DEF IndicesOK
  <2>3. SideOK(d)'
    BY <1>1, <1>2 DEF Moved, SideOK, ReaderOK, WriterOK, CopyOK, PassesOK, Reading, Writing
  <2>4. ASSUME NEW h \in Sides, h # d PROVE SideOK(h)'
    <3>1. op'[h] = op[h] /\ SideOK(h) /\ op[h].at = "idle"
      BY <1>2, <1>3, <2>4 DEF Others, Good, Unmet, Moved
    <3> QED BY <3>1 DEF SideOK, ReaderOK, WriterOK, CopyOK, PassesOK, Reading, Writing
  <2> QED BY <2>2, <2>3, <2>4 DEF Good
<1> QED BY <1>1, <1>2, <1>3 DEF FifoTypes

-----------------------------------------------------------------------------
LEMMA FifoNext == FifoInv /\ [Next]_vars => FifoInv'
<1> SUFFICES ASSUME FifoInv, [Next]_vars PROVE FifoInv'
  OBVIOUS
<1>1. ASSUME NEW d \in Sides, Start(d) \/ Continue(d)
      PROVE  FifoInv'
  <2>1. /\ ~met /\ met' = (FlushMeets \/ ResetMeets \/ LoadsMeet)'
        /\ FifoTypes /\ Unmet /\ Good
    BY <1>1 DEF Start, Continue, Watch, FifoInv
  <2>2. FifoTypes' /\ ~met' => Unmet'
    <3> SUFFICES ASSUME FifoTypes', ~met' PROVE Unmet'
      OBVIOUS
    <3>1. ~FlushMeets' /\ ~ResetMeets' /\ ~LoadsMeet'
      BY <2>1
    <3>2. \A h \in Sides : OpOK(op[h])'
      BY DEF FifoTypes, OpsOK
    <3>3. ASSUME NEW h \in Sides
          PROVE  /\ op'[h].at = "rbom" => bom' <= op'[h].top
                 /\ op'[h].at = "rwrap" =>
                      op'[h].old + op'[h].sz <= op'[h].top /\ top' - op'[h].old < Size
                 /\ op'[h].at = "rempty" /\ op'[h].top = bom' => top' = bom'
      BY <3>1, <3>2, FifoAssumption DEF LoadsMeet, ResetMeets, OpOK, FifoTypes
    <3> QED BY <3>1, <3>3 DEF Unmet, FlushMeets, ResetMeets
  <2> SUFFICES FifoTypes' /\ (Unmet' => Good')
    BY <2>2 DEF FifoInv
  <2>3. ASSUME NEW n \in 1 .. Size, Read(d, n) PROVE FifoTypes' /\ (Unmet' => Good')
    <3>1. n \in 0 .. Size
      BY FifoAssumption
    <3> QED BY <2>1, <2>3, <3>1, ReadTopStep DEF Read, At
  <2>4. ASSUME NEW n \in 1 .. Size, Write(d, n) PROVE FifoTypes' /\ (Unmet' => Good')
    <3>1. n \in 0 .. Size
      BY FifoAssumption
    <3> QED BY <2>1, <2>4, <3>1, WriteBomStep DEF Write, At
  <2>5. CASE Flush(d)
    BY <2>1, <2>5, FlushStep
  <2>6. SideOK(d) /\ op[d].sz \in 0 .. Size
    BY <2>1 DEF Good, FifoTypes, OpsOK, OpOK
  <2>7. CASE ReadRetry(d)
    BY <2>1, <2>6, <2>7, ReadTopStep DEF ReadRetry, At, SideOK, PassesOK
  <2>8. CASE WriteRetry(d)
    BY <2>1, <2>6, <2>8, WriteBomStep DEF WriteRetry, At, SideOK, WriterOK
  <2>9. CASE ReadBom(d) \/ ReadOld(d) \/ ReadWrap(d) \/ ReadCopy(d) \/ ReadCas(d)
    BY <2>1, <2>9, ReadBomStep, ReadOldStep, ReadWrapStep, ReadCopyStep, ReadCasStep
  <2>10. CASE TestTop(d) \/ TestBom(d) \/ ResetTop(d)
    BY <2>1, <2>10, TestTopStep, TestBomStep, ResetTopStep
  <2>11. CASE WriteTop(d) \/ WriteOld(d) \/ WritePos(d) \/ WriteCopy(d) \/ WriteCas(d)
    BY <2>1, <2>11, WriteTopStep, WriteOldStep, WritePosStep, WriteCopyStep, WriteCasStep
  <2>12. CASE ResetBom(d) \/ FlushBom(d)
    BY <2>1, <2>12, ZeroBom DEF ResetBom, FlushBom, At
  <2>13. CASE FlushMemory(d)
    BY <2>1, <2>13, FlushMemoryStep
  <2> QED
    BY <1>1, <2>3, <2>4, <2>5, <2>7, <2>8, <2>9, <2>10, <2>11, <2>12, <2>13
       DEF Start, Continue
<1>2. CASE UNCHANGED vars
  <2>1. UNCHANGED <<top, bom, op, met>>
    BY <1>2 DEF vars
  <2>2. (FifoTypes' <=> FifoTypes) /\ (Unmet' <=> Unmet)
    BY <2>1 DEF FifoTypes, OpsOK, Unmet, MayStep
  <2>3. Good' <=> Good
    BY <2>1 DEF Good, IndicesOK, Quiet, Resets, SideOK, ReaderOK, WriterOK, Room, CopyOK,
       PassesOK, TopReader, Offset
  <2> QED BY <2>1, <2>2, <2>3 DEF FifoInv
<1> QED BY <1>1, <1>2 DEF Next

(* As long as no operations have met in a way the FIFO is not made for, no *)
(* read or write of rtfifo.c copies from or to the page behind the ring,   *)
(* whoever overtakes whom between which two loads.                         *)
THEOREM CopiesStayInside == Spec => []InsideRing
<1>1. FifoInv => InsideRing
  BY DEF FifoInv, Good, SideOK, CopyOK, InsideRing
<1> QED BY <1>1, FifoInit, FifoNext, PTL DEF Spec

(* Under the same conditions, however many bytes are written: the writer   *)
(* of rt_fifo_write goes through its loop twice at most, and the highest   *)
(* reader through that of rt_fifo_read once.                               *)
THEOREM LoopsAreShort == Spec => []SoonDone
<1>1. FifoInv => SoonDone
  BY DEF FifoInv, Good, SideOK, PassesOK, SoonDone, TopReader
<1> QED BY <1>1, FifoInit, FifoNext, PTL DEF Spec
-----------------------------------------------------------------------------
(* Positions of the ring.                                                  *)

LEMMA NotSame ==
  ASSUME NEW S \in Nat \ {0}, NEW x \in Nat, NEW y \in Nat, x < y, y - x < S
  PROVE  x % S # y % S
<1>1. x % S \in 0 .. S - 1 /\ y % S \in 0 .. S - 1
  BY ModDef
<1>2. y % S = (x % S) + (y - x) \/ y % S = (x % S) + (y - x) - S
  <2>1. x <= y
    OBVIOUS
  <2> QED BY <2>1, ModApart
<1> DEFINE u == x % S
           v == y % S
<1> HIDE DEF u, v
<1>3. u \in 0 .. S - 1 /\ v \in 0 .. S - 1 /\ (v = u + (y - x) \/ v = u + (y - x) - S)
  BY <1>1, <1>2 DEF u, v
<1>4. u # v
  BY <1>3
<1> QED BY <1>4 DEF u, v

(* Where a copy puts its bytes.                                            *)
LEMMA OffsetMod ==
  ASSUME NEW o, o.pos \in Nat, NEW i \in 1 .. Size - 1, Offset(o, i) < Size
  PROVE  Offset(o, i) = (o.pos + i - 1) % Size
<1>1. Size \in Nat \ {0}
  BY FifoAssumption
<1> DEFINE p == o.pos
           q == p \div Size
           r == p % Size
           a == r + i - 1
<1>2. Offset(o, i) = a \/ (a >= Size /\ Offset(o, i) = a - Size)
  BY DEF Offset
<1>3. p \in Nat
  OBVIOUS
<1> HIDE DEF p
<1>4. r \in 0 .. Size - 1 /\ q \in Int /\ p = Size * q + r
  <2> DEFINE T == Size
  <2>1. T \in Nat \ {0}
    BY <1>1
  <2> HIDE DEF T
  <2>2. p % T \in 0 .. T - 1 /\ p \div T \in Int /\ p = T * (p \div T) + (p % T)
    BY <1>3, <2>1, ModDef
  <2> QED BY <2>2 DEF T
<1> HIDE DEF q, r
<1>5. CASE Offset(o, i) = a
  <2>1. a \in 0 .. Size - 1 /\ p + i - 1 = Size * q + a
    BY <1>1, <1>4, <1>5
  <2> QED BY <1>1, <1>4, <1>5, <2>1, ModUnique DEF p
<1>6. CASE a >= Size /\ Offset(o, i) = a - Size
  <2>1. a - Size \in 0 .. Size - 1
    BY <1>1, <1>4, <1>6
  <2>2. q + 1 \in Int /\ Size * (q + 1) = Size * q + Size
    BY <1>1, <1>4
  <2>3. p + i - 1 = Size * (q + 1) + (a - Size)
    BY <1>1, <1>4, <2>2
  <2>4. (Size * (q + 1) + (a - Size)) % Size = a - Size
    BY <1>1, <2>1, <2>2, ModUnique
  <2> QED BY <1>6, <2>3, <2>4 DEF p
<1> QED BY <1>2, <1>5, <1>6

-----------------------------------------------------------------------------
(* Sequences.                                                              *)

LEMMA SeqOf ==
  ASSUME NEW n \in Nat, NEW V, NEW s \in [1 .. n -> V]
  PROVE  s \in Seq(V) /\ Len(s) = n
  OBVIOUS

(* Sequence u of length n + k starts with s and goes on with t.            *)
GoesOn(u, s, t, n, k, V) ==
  /\ n \in Nat /\ k \in Nat
  /\ s \in [1 .. n -> V] /\ t \in [1 .. k -> V] /\ u \in [1 .. n + k -> V]
  /\ \A i \in 1 .. n : u[i] = s[i]
  /\ \A i \in 1 .. k : u[n + i] = t[i]

LEMMA Appended ==
  ASSUME NEW n, NEW k, NEW V, NEW s, NEW t, NEW u, GoesOn(u, s, t, n, k, V)
  PROVE  u = s \o t
<1>0. /\ n \in Nat /\ k \in Nat /\ n + k \in Nat
      /\ s \in [1 .. n -> V] /\ t \in [1 .. k -> V] /\ u \in [1 .. n + k -> V]
      /\ \A i \in 1 .. n : u[i] = s[i]
      /\ \A i \in 1 .. k : u[n + i] = t[i]
  BY DEF GoesOn
<1>1. /\ s \in Seq(V) /\ Len(s) = n /\ t \in Seq(V) /\ Len(t) = k
      /\ u \in Seq(V) /\ Len(u) = n + k
  BY <1>0, SeqOf
<1>2. /\ s \o t \in Seq(V) /\ Len(s \o t) = n + k
      /\ \A i \in 1 .. n + k : (s \o t)[i] = IF i <= n THEN s[i] ELSE t[i - n]
  BY <1>0, <1>1, ConcatProperties
<1>3. \A i \in 1 .. n + k : u[i] = (s \o t)[i]
  <2> TAKE i \in 1 .. n + k
  <2>1. CASE i <= n
    BY <1>0, <1>2, <2>1
  <2>2. CASE i > n
    <3>1. i - n \in 1 .. k /\ n + (i - n) = i
      BY <1>0, <2>2
    <3> QED BY <1>0, <1>2, <2>2, <3>1
  <2> QED BY <1>0, <2>1, <2>2
<1> QED BY <1>1, <1>2, <1>3, SeqEqual

LEMMA Split ==
  ASSUME NEW n \in Nat, NEW k \in 0 .. n, NEW V,
         NEW s \in [1 .. n -> V], NEW u \in [1 .. n - k -> V], NEW v \in [1 .. k -> V],
         \A i \in 1 .. n - k : u[i] = s[k + i], \A i \in 1 .. k : v[i] = s[i]
  PROVE  u = SubSeq(s, k + 1, n) /\ v = SubSeq(s, 1, k)
<1>1. s \in Seq(V) /\ Len(s) = n
  BY SeqOf
<1>2. SubSeq(s, k + 1, n) = [i \in 1 .. n - k |-> s[k + i]]
  BY <1>1
<1>3. SubSeq(s, 1, k) = [i \in 1 .. k |-> s[i]]
  BY <1>1
<1> QED BY <1>2, <1>3

LEMMA EmptyContent ==
  ASSUME top \in Nat, bom \in Nat, top <= bom
  PROVE  Content = <<>>
  BY DEF Content

-----------------------------------------------------------------------------
(* The invariant: what is copied is still true when it is published.       *)

MemOK == DOMAIN mem = 0 .. 2 * Size - 1 /\ sent \in Nat

Emptied == \A d \in Sides : op[d].at \in {"top", "clear"} => top = bom

ReadTrue ==
  \A d \in Sides : op[d].at = "rcas" /\ op[d].old = bom =>
    op[d].dest = [i \in 1 .. op[d].sz |-> mem[(bom + i - 1) % Size]]

WriteTrue ==
  \A d \in Sides : op[d].at = "wcas" /\ top = op[d].old =>
    \A i \in 1 .. op[d].sz : mem[(top + i - 1) % Size] = sent + i

Data == Emptied /\ ReadTrue /\ WriteTrue

StreamInv == FifoInv /\ MemOK /\ (~met => Data)

(* What a step is for the stream.                                          *)
Stutter == Content' = Content /\ sent' = sent /\ out' = out

Streams ==
  \/ Stutter
  \/ Stream!Flush
  \/ \E n \in 0 .. Size - 1 : Stream!Write(n) \/ Stream!Read(n)

LEMMA StreamsAre == Streams => [Stream!Next]_(Stream!vars)
  BY DEF Streams, Stutter, Stream!Next, Stream!vars

LEMMA StreamInit == Init => MemOK /\ Data /\ Stream!Init
<1> SUFFICES ASSUME Init PROVE MemOK /\ Data /\ Stream!Init
  OBVIOUS
<1>1. \A d \in Sides : op[d].at = "idle"
  BY DEF Init, Idle
<1>2. MemOK
  BY DEF Init, MemOK
<1>3. Data
  BY <1>1 DEF Data, Emptied, ReadTrue, WriteTrue
<1>4. Content = <<>>
  BY EmptyContent DEF Init
<1> QED BY <1>2, <1>3, <1>4 DEF Init, Stream!Init

(* Steps that touch neither the indices nor the ring.                      *)
LEMMA LocalStep ==
  ASSUME MemOK, Data, UNCHANGED <<top, bom, mem, sent, out>>,
         NEW d \in Sides, Others(d),
         op'[d].at \notin {"clear", "rcas", "wcas"}, op'[d].at = "top" => top = bom
  PROVE  MemOK' /\ Data' /\ Streams
<1>1. MemOK' /\ Stutter
  BY DEF MemOK, Stutter, Content
<1>2. Emptied'
  BY DEF Data, Emptied, Others
<1>3. ReadTrue'
  <2> SUFFICES ASSUME NEW h \in Sides, op'[h].at = "rcas", op'[h].old = bom
               PROVE  op'[h].dest = [i \in 1 .. op'[h].sz |-> mem[(bom + i - 1) % Size]]
    BY DEF ReadTrue
  <2>1. op'[h] = op[h]
    BY DEF Others
  <2> QED BY <2>1 DEF Data, ReadTrue
<1>4. WriteTrue'
  <2> SUFFICES ASSUME NEW h \in Sides, op'[h].at = "wcas", top = op'[h].old
               PROVE  \A i \in 1 .. op'[h].sz : mem[(top + i - 1) % Size] = sent + i
    BY DEF WriteTrue
  <2>1. op'[h] = op[h]
    BY DEF Others
  <2> QED BY <2>1 DEF Data, WriteTrue
<1> QED BY <1>1, <1>2, <1>3, <1>4 DEF Data, Streams

-----------------------------------------------------------------------------
(* The steps that touch neither, but copy out of the ring.                 *)

Sound == FifoTypes /\ Unmet /\ Good /\ MemOK /\ Data

LEMMA Known ==
  ASSUME Sound, NEW d \in Sides
  PROVE  /\ OpOK(op[d]) /\ SideOK(d) /\ OpsOK
         /\ top \in Nat /\ bom \in Nat /\ op[d].old \in Nat /\ op[d].pos \in Nat
         /\ op[d].at \notin {"rbom", "wtop"} => op[d].sz \in 0 .. Size - 1
  BY FifoAssumption DEF Sound, FifoTypes, OpsOK, OpOK, Good

LEMMA ReadCopyStreams ==
  ASSUME Sound, NEW d \in Sides, ReadCopy(d)
  PROVE  Data' /\ Streams
<1> DEFINE copy == [i \in 1 .. op[d].sz |-> mem[Offset(op[d], i)]]
           o == [op[d] EXCEPT !.at = "rcas", !.dest = copy]
<1>0. UNCHANGED <<top, bom, mem, sent, out>>
  BY DEF ReadCopy
<1>1. op[d].at = "rcopy" /\ op' = [op EXCEPT ![d] = o]
  BY DEF ReadCopy, At
<1>2. /\ op[d].sz \in 0 .. Size - 1 /\ op[d].pos = op[d].old /\ op[d].old \in Nat
      /\ OpOK(op[d]) /\ OpsOK
  BY <1>1, Known DEF SideOK, ReaderOK
<1>3. \A i \in 1 .. op[d].sz : Offset(op[d], i) = (op[d].old + i - 1) % Size
  <2> TAKE i \in 1 .. op[d].sz
  <2>1. i \in 1 .. Size - 1
    BY <1>2, FifoAssumption
  <2>2. Offset(op[d], i) < Size
    BY <1>1, Known DEF SideOK, CopyOK
  <2> QED BY <1>2, <2>1, <2>2, OffsetMod
<1>4. copy = [i \in 1 .. op[d].sz |-> mem[(op[d].old + i - 1) % Size]]
  BY <1>3
<1> HIDE DEF copy
<1>5. /\ OpOK(o) /\ o.at = "rcas" /\ o.sz = op[d].sz /\ o.old = op[d].old
      /\ o.dest = copy
  BY <1>1, <1>2 DEF OpOK, Labels, Reading
<1> HIDE DEF o
<1>6. Others(d) /\ op'[d] = o
  BY <1>1, <1>2, <1>5, Becomes
<1>7. Emptied'
  BY <1>0, <1>5, <1>6 DEF Sound, Data, Emptied, Others
<1>8. ReadTrue'
  <2> SUFFICES ASSUME NEW h \in Sides, op'[h].at = "rcas", op'[h].old = bom
               PROVE  op'[h].dest = [i \in 1 .. op'[h].sz |-> mem[(bom + i - 1) % Size]]
    BY <1>0 DEF ReadTrue
  <2>1. CASE h = d
    BY <1>4, <1>5, <1>6, <2>1
  <2>2. CASE h # d
    <3>1. op'[h] = op[h]
      BY <1>6, <2>2 DEF Others
    <3> QED BY <3>1 DEF Sound, Data, ReadTrue
  <2> QED BY <2>1, <2>2
<1>9. WriteTrue'
  <2> SUFFICES ASSUME NEW h \in Sides, op'[h].at = "wcas", top = op'[h].old
               PROVE  \A i \in 1 .. op'[h].sz : mem[(top + i - 1) % Size] = sent + i
    BY <1>0 DEF WriteTrue
  <2>1. op'[h] = op[h]
    BY <1>5, <1>6 DEF Others
  <2> QED BY <2>1 DEF Sound, Data, WriteTrue
<1>10. Stutter
  BY <1>0 DEF Stutter, Content
<1> QED BY <1>7, <1>8, <1>9, <1>10 DEF Data, Streams

(* A writer's copy is behind the bytes that are under way, and in order.   *)
LEMMA WriteCopyBytes ==
  ASSUME Sound, NEW d \in Sides, WriteCopy(d)
  PROVE  /\ \A j \in 0 .. top - bom - 1 : mem'[(bom + j) % Size] = mem[(bom + j) % Size]
         /\ top = op[d].old =>
              \A i \in 1 .. op[d].sz : mem'[(top + i - 1) % Size] = sent + i
<1> DEFINE sz == op[d].sz
           old == op[d].pos
           here == {Offset(op[d], i) : i \in 1 .. sz}
<1>1. /\ op[d].at = "wcopy" /\ MayStep(d)
      /\ mem' = [a \in DOMAIN mem |->
            IF a \in here THEN sent + (CHOOSE i \in 1 .. sz : Offset(op[d], i) = a)
            ELSE mem[a]]
  BY DEF WriteCopy, At
<1>2. /\ Size \in Nat \ {0} /\ top \in Nat /\ bom \in Nat
      /\ sz \in 0 .. Size - 1 /\ old \in Nat /\ DOMAIN mem = 0 .. 2 * Size - 1
  BY <1>1, Known, FifoAssumption DEF Sound, MemOK
<1>3. \A i \in 1 .. sz : Offset(op[d], i) = (old + i - 1) % Size
  <2> TAKE i \in 1 .. sz
  <2>1. i \in 1 .. Size - 1
    BY <1>2
  <2>2. Offset(op[d], i) < Size
    BY <1>1, Known DEF SideOK, CopyOK
  <2> QED BY <1>2, <2>1, <2>2, OffsetMod
<1>4. /\ bom <= top /\ top - bom < Size
      /\ top # 0 => top = old /\ sz <= Size - 1 - (top - bom)
      /\ top = op[d].old => top = old
  <2>1. Quiet
    BY <1>1, QuietAt DEF Sound
  <2> QED BY <1>1, <1>2, <2>1, Known DEF Sound, Good, IndicesOK, SideOK, WriterOK
<1>5. \A x \in Nat : x % Size \in DOMAIN mem
  <2> TAKE x \in Nat
  <2> DEFINE r == x % Size
  <2>1. r \in 0 .. Size - 1
    <3>1. Size \in Nat \ {0} /\ x \in Int
      BY <1>2
    <3> QED BY <3>1, ModDef
  <2> HIDE DEF r
  <2>2. r \in 0 .. 2 * Size - 1
    BY <1>2, <2>1
  <2> QED BY <1>2, <2>2 DEF r
<1> HIDE DEF sz, old, here
<1>6. ASSUME NEW j \in 0 .. top - bom - 1
      PROVE  mem'[(bom + j) % Size] = mem[(bom + j) % Size]
  <2>1. top # 0 /\ top = old /\ sz <= Size - 1 - (top - bom)
    BY <1>2, <1>4, <1>6
  <2>2. ASSUME NEW i \in 1 .. sz PROVE (bom + j) % Size # Offset(op[d], i)
    <3>1. /\ bom + j \in Nat /\ old + i - 1 \in Nat
          /\ bom + j < old + i - 1 /\ (old + i - 1) - (bom + j) < Size
      BY <1>2, <1>4, <2>1, <2>2
    <3>2. (bom + j) % Size # (old + i - 1) % Size
      BY <1>2, <3>1, NotSame
    <3> QED BY <1>3, <3>2
  <2>3. (bom + j) % Size \notin here
    BY <2>2 DEF here
  <2>4. (bom + j) % Size \in DOMAIN mem
    <3>1. bom + j \in Nat
      BY <1>2
    <3> QED BY <1>5, <3>1
  <2> QED BY <1>1, <2>3, <2>4
<1>7. ASSUME top = op[d].old, NEW i \in 1 .. sz
      PROVE  mem'[(top + i - 1) % Size] = sent + i
  <2> DEFINE a == (top + i - 1) % Size
  <2>0. top = old
    BY <1>4, <1>7
  <2>1. a = Offset(op[d], i)
    BY <1>3, <2>0
  <2>2. \A k \in 1 .. sz : k # i => Offset(op[d], k) # a
    <3> SUFFICES ASSUME NEW k \in 1 .. sz, k # i
                 PROVE  (old + k - 1) % Size # (old + i - 1) % Size
      BY <1>3, <2>0
    <3>1. CASE k < i
      <4>1. /\ old + k - 1 \in Nat /\ old + i - 1 \in Nat
            /\ old + k - 1 < old + i - 1 /\ (old + i - 1) - (old + k - 1) < Size
        BY <1>2, <3>1
      <4> QED BY <1>2, <4>1, NotSame
    <3>2. CASE i < k
      <4>1. /\ old + k - 1 \in Nat /\ old + i - 1 \in Nat
            /\ old + i - 1 < old + k - 1 /\ (old + k - 1) - (old + i - 1) < Size
        BY <1>2, <3>2
      <4> QED BY <1>2, <4>1, NotSame
    <3> QED BY <1>2, <3>1, <3>2
  <2>3. a \in here
    BY <2>1 DEF here
  <2>4. a \in DOMAIN mem
    <3>1. top + i - 1 \in Nat
      BY <1>2
    <3> QED BY <1>5, <3>1
  <2> HIDE DEF a
  <2>5. (CHOOSE k \in 1 .. sz : Offset(op[d], k) = a) = i
    BY <2>1, <2>2
  <2>6. mem'[a] = sent + i
    BY <1>1, <2>3, <2>4, <2>5
  <2> QED BY <2>6 DEF a
<1> QED BY <1>6, <1>7 DEF sz

LEMMA WriteCopyStreams ==
  ASSUME Sound, NEW d \in Sides, WriteCopy(d)
  PROVE  Data' /\ Streams
<1>1. UNCHANGED <<top, bom, sent, out>> /\ op[d].at = "wcopy" /\ Goto(d, "wcas")
  BY DEF WriteCopy, At
<1>2. Others(d) /\ Moved(d, "wcas")
  BY <1>1, Known, GotoMoves DEF Labels, Writing
<1>3. top \in Nat /\ bom \in Nat
  BY Known
<1>4. \A i \in 1 .. top - bom : mem'[(bom + i - 1) % Size] = mem[(bom + i - 1) % Size]
  <2> TAKE i \in 1 .. top - bom
  <2>1. i - 1 \in 0 .. top - bom - 1 /\ bom + (i - 1) = bom + i - 1
    BY <1>3
  <2>2. mem'[(bom + (i - 1)) % Size] = mem[(bom + (i - 1)) % Size]
    BY <2>1, WriteCopyBytes
  <2> QED BY <2>1, <2>2
<1>5. Stutter
  BY <1>1, <1>4 DEF Stutter, Content
<1>6. Emptied'
  BY <1>1, <1>2 DEF Sound, Data, Emptied, Others, Moved
<1>7. ReadTrue'
  <2> SUFFICES ASSUME NEW h \in Sides, op'[h].at = "rcas", op'[h].old = bom
               PROVE  op'[h].dest = [i \in 1 .. op'[h].sz |-> mem'[(bom + i - 1) % Size]]
    BY <1>1 DEF ReadTrue
  <2>1. op'[h] = op[h]
    BY <1>2 DEF Others, Moved
  <2>2. op[h].dest = [i \in 1 .. op[h].sz |-> mem[(bom + i - 1) % Size]]
    BY <2>1 DEF Sound, Data, ReadTrue
  <2>3. op[h].old + op[h].sz <= top /\ op[h].sz \in 0 .. Size - 1
    BY <2>1, Known DEF SideOK, ReaderOK
  <2>4. \A i \in 1 .. op[h].sz : i \in 1 .. top - bom
    BY <1>3, <2>1, <2>3, FifoAssumption
  <2> QED BY <1>4, <2>1, <2>2, <2>4
<1>8. WriteTrue'
  <2> SUFFICES ASSUME NEW h \in Sides, op'[h].at = "wcas", top = op'[h].old
               PROVE  \A i \in 1 .. op'[h].sz : mem'[(top + i - 1) % Size] = sent + i
    BY <1>1 DEF WriteTrue
  <2>1. h = d
    <3>1. op[h].at \in {"wcopy", "wcas"}
      BY <1>1, <1>2 DEF Others
    <3>2. h = Writer /\ d = Writer
      BY <1>1, <3>1, Known DEF SideOK, WriterOK, Writing
    <3> QED BY <3>2
  <2> QED BY <1>2, <2>1, WriteCopyBytes DEF Moved
<1> QED BY <1>5, <1>6, <1>7, <1>8 DEF Data, Streams

-----------------------------------------------------------------------------
(* The loads and the test.                                                 *)

LEMMA LoadStreams ==
  ASSUME Sound, NEW d \in Sides,
         \/ \E n : ReadTop(d, n) \/ WriteBom(d, n)
         \/ ReadBom(d) \/ ReadOld(d) \/ ReadWrap(d)
         \/ WriteTop(d) \/ WriteOld(d) \/ WritePos(d)
  PROVE  Data' /\ Streams
<1>1. UNCHANGED <<top, bom, mem, sent, out>>
  BY DEF ReadTop, WriteBom, ReadBom, ReadOld, ReadWrap, WriteTop, WriteOld, WritePos
<1>2. DOMAIN op = Sides /\ OpOK(op[d])
  BY Known DEF OpsOK
<1>3. Others(d) /\ op'[d].at \notin {"clear", "rcas", "wcas", "top"}
  <2>1. ASSUME NEW n, ReadTop(d, n) \/ WriteBom(d, n)
        PROVE  Others(d) /\ op'[d].at \notin {"clear", "rcas", "wcas", "top"}
    BY <1>2, <2>1 DEF ReadTop, WriteBom, Others, Idle
  <2>2. CASE ReadBom(d)
    <3> DEFINE sz == AtMost(op[d].sz, Used(op[d].top, bom))
               on == [op[d] EXCEPT !.at = "rold", !.sz = sz, !.bom = bom]
               o == IF sz = 0 /\ d # Linux THEN Idle ELSE on
    <3>1. op' = [op EXCEPT ![d] = o]
      BY <2>2 DEF ReadBom
    <3> HIDE DEF sz
    <3>2. on.at = "rold" /\ (o = Idle \/ o = on)
      BY <1>2 DEF OpOK
    <3> HIDE DEF on, o
    <3>3. o.at \in {"rold", "idle"}
      BY <3>2, IdleOK
    <3> QED BY <1>2, <3>1, <3>3 DEF Others
  <2>5. CASE WriteTop(d)
    <3> DEFINE sz == AtMost(op[d].sz, Free(top, op[d].bom))
               on == [op[d] EXCEPT !.at = "wold", !.sz = sz, !.top = top]
               o == IF sz = 0 /\ d # Linux THEN Idle ELSE on
    <3>1. op' = [op EXCEPT ![d] = o]
      BY <2>5 DEF WriteTop
    <3> HIDE DEF sz
    <3>2. on.at = "wold" /\ (o = Idle \/ o = on)
      BY <1>2 DEF OpOK
    <3> HIDE DEF on, o
    <3>3. o.at \in {"wold", "idle"}
      BY <3>2, IdleOK
    <3> QED BY <1>2, <3>1, <3>3 DEF Others
  <2>3. CASE ReadOld(d) \/ ReadWrap(d)
    BY <1>2, <2>3 DEF ReadOld, ReadWrap, Others, OpOK
  <2>4. CASE WriteOld(d) \/ WritePos(d)
    BY <1>2, <2>4 DEF WriteOld, WritePos, Others, OpOK
  <2> QED BY <2>1, <2>2, <2>3, <2>4, <2>5
<1> QED BY <1>1, <1>3, LocalStep DEF Sound

LEMMA TestStreams ==
  ASSUME Sound, NEW d \in Sides, TestTop(d) \/ TestBom(d)
  PROVE  Data' /\ Streams
<1>1. UNCHANGED <<top, bom, mem, sent, out>>
  BY DEF TestTop, TestBom
<1>2. CASE TestTop(d)
  <2>1. Others(d) /\ op'[d].at = "rempty"
    BY <1>2, Known DEF TestTop, OpsOK, Others, Idle
  <2> QED BY <1>1, <2>1, LocalStep DEF Sound
<1>3. CASE TestBom(d)
  <2>1. /\ Others(d)
        /\ op'[d].at = IF op[d].top = bom THEN "top" ELSE "idle"
    BY <1>3, Known DEF TestBom, OpsOK, Others, Idle
  <2>2. op[d].top = bom => top = bom
    BY <1>3 DEF TestBom, At, Sound, Unmet
  <2> QED BY <1>1, <2>1, <2>2, LocalStep DEF Sound
<1> QED BY <1>2, <1>3

-----------------------------------------------------------------------------
(* The compare-and-swaps: this is where bytes are read and written.        *)

LEMMA NobodyEmpties ==
  ASSUME Sound, NEW d \in Sides, MayStep(d), op[d].at \in {"rcas", "wcas"}
  PROVE  \A h \in Sides : op[h].at \notin {"top", "clear"}
<1> SUFFICES ASSUME NEW h \in Sides, op[h].at \in {"top", "clear"} PROVE FALSE
  OBVIOUS
<1>1. CASE h > d
  BY <1>1 DEF MayStep
<1>2. CASE d > h
  BY <1>2 DEF Sound, Unmet
<1> QED BY <1>1, <1>2, Ordered

LEMMA ReadCasStreams ==
  ASSUME Sound, NEW d \in Sides, ReadCas(d)
  PROVE  Data' /\ Streams
<1>1. UNCHANGED <<top, mem, sent>> /\ op[d].at = "rcas" /\ MayStep(d)
  BY DEF ReadCas, At
<1>2. CASE bom = op[d].old /\ bom' = bom + op[d].sz /\ out' = op[d].dest /\ Goto(d, "rtest")
  <2> DEFINE k == op[d].sz
             n == top - bom
             V == {mem[a] : a \in Nat}
  <2>1. /\ top \in Nat /\ bom \in Nat /\ k \in 0 .. Size - 1 /\ n \in Nat /\ k <= n
        /\ Size \in Nat \ {0}
    <3>1. /\ bom + op[d].sz <= top /\ top \in Nat /\ bom \in Nat
          /\ op[d].sz \in 0 .. Size - 1
      BY <1>1, <1>2, Known DEF SideOK, ReaderOK
    <3> QED BY <3>1, FifoAssumption
  <2>2. op[d].dest = [i \in 1 .. k |-> mem[(bom + i - 1) % Size]]
    BY <1>1, <1>2 DEF Sound, Data, ReadTrue
  <2>3. \A x \in Nat : x % Size \in Nat
    BY <2>1, ModDef
  <2> HIDE DEF k
  <2>4. /\ Content \in [1 .. n -> V]
        /\ Content' \in [1 .. n - k -> V]
        /\ op[d].dest \in [1 .. k -> V]
    <3>1. \A i \in Nat \ {0} : mem[(bom + i - 1) % Size] \in V /\ mem[(bom + k + i - 1) % Size] \in V
      <4> TAKE i \in Nat \ {0}
      <4>1. bom + i - 1 \in Nat /\ bom + k + i - 1 \in Nat
        BY <2>1
      <4> QED BY <2>3, <4>1
    <3> HIDE DEF V
    <3>2. Content = [i \in 1 .. n |-> mem[(bom + i - 1) % Size]]
      BY DEF Content
    <3>3. Content' = [i \in 1 .. n - k |-> mem[(bom + k + i - 1) % Size]]
      <4>1. top' - bom' = n - k /\ bom' = bom + k
        BY <1>1, <1>2, <2>1 DEF k
      <4> QED BY <1>1, <4>1 DEF Content
    <3>4. /\ \A i \in 1 .. n : i \in Nat \ {0}
          /\ \A i \in 1 .. n - k : i \in Nat \ {0}
          /\ \A i \in 1 .. k : i \in Nat \ {0}
      BY <2>1
    <3> HIDE DEF n
    <3>5. Content \in [1 .. n -> V] /\ op[d].dest \in [1 .. k -> V]
      BY <2>2, <3>1, <3>2, <3>4
    <3>6. Content' \in [1 .. n - k -> V]
      BY <3>1, <3>3, <3>4
    <3> QED BY <3>5, <3>6
  <2>5. Stream!Read(k)
    <3>1. \A i \in 1 .. n - k : Content'[i] = Content[k + i]
      <4> TAKE i \in 1 .. n - k
      <4>1. k + i \in 1 .. n /\ bom + k + i - 1 = bom + (k + i) - 1
        BY <2>1
      <4>2. Content[k + i] = mem[(bom + (k + i) - 1) % Size]
        BY <4>1 DEF Content
      <4>3. Content'[i] = mem[(bom + k + i - 1) % Size]
        <5>1. i \in 1 .. top' - bom' /\ bom' = bom + k
          BY <1>1, <1>2, <2>1 DEF k
        <5> QED BY <1>1, <5>1 DEF Content
      <4> QED BY <4>1, <4>2, <4>3
    <3>2. \A i \in 1 .. k : op[d].dest[i] = Content[i]
      <4> TAKE i \in 1 .. k
      <4>1. i \in 1 .. n
        BY <2>1
      <4> QED BY <2>2, <4>1 DEF Content
    <3> HIDE DEF V, n
    <3>3. k \in 0 .. n
      BY <2>1
    <3>4. Content' = SubSeq(Content, k + 1, n) /\ op[d].dest = SubSeq(Content, 1, k)
      <4> DEFINE s == Content
                 u == Content'
                 v == op[d].dest
      <4>1. /\ n \in Nat /\ k \in 0 .. n
            /\ s \in [1 .. n -> V] /\ u \in [1 .. n - k -> V] /\ v \in [1 .. k -> V]
            /\ \A i \in 1 .. n - k : u[i] = s[k + i]
            /\ \A i \in 1 .. k : v[i] = s[i]
        BY <2>1, <2>4, <3>1, <3>2, <3>3
      <4> HIDE DEF s, u, v
      <4>2. u = SubSeq(s, k + 1, n) /\ v = SubSeq(s, 1, k)
        BY <4>1, Split
      <4> QED BY <4>2 DEF s, u, v
    <3>5. Len(Content) = n
      BY <2>1, <2>4, SeqOf
    <3> QED BY <1>1, <1>2, <2>1, <3>4, <3>5 DEF Stream!Read
  <2>6. Others(d) /\ op'[d].at = "rtest"
    BY <1>1, <1>2, Known, GotoMoves DEF Moved, Labels
  <2>7. Emptied'
    <3>1. \A h \in Sides : op'[h].at \notin {"top", "clear"}
      BY <1>1, <2>6, NobodyEmpties DEF Others
    <3> QED BY <3>1 DEF Emptied
  <2>8. ReadTrue'
    <3> SUFFICES ASSUME NEW h \in Sides, op'[h].at = "rcas", op'[h].old = bom'
                 PROVE  op'[h].dest = [i \in 1 .. op'[h].sz |-> mem[(bom' + i - 1) % Size]]
      BY <1>1 DEF ReadTrue
    <3>1. op'[h] = op[h] /\ op[h].at = "rcas"
      BY <2>6 DEF Others
    <3>2. op[h].old <= bom
      BY <3>1, Known DEF SideOK, ReaderOK
    <3>3. bom' = bom
      BY <1>2, <2>1, <3>1, <3>2 DEF k
    <3> QED BY <3>1, <3>3 DEF Sound, Data, ReadTrue
  <2>9. WriteTrue'
    <3> SUFFICES ASSUME NEW h \in Sides, op'[h].at = "wcas", top = op'[h].old
                 PROVE  \A i \in 1 .. op'[h].sz : mem[(top + i - 1) % Size] = sent + i
      BY <1>1 DEF WriteTrue
    <3>1. op'[h] = op[h]
      BY <2>6 DEF Others
    <3> QED BY <3>1 DEF Sound, Data, WriteTrue
  <2> QED BY <2>1, <2>5, <2>7, <2>8, <2>9 DEF Data, Streams
<1>3. CASE Goto(d, "rretry") /\ UNCHANGED <<bom, out>>
  <2>1. Others(d) /\ op'[d].at = "rretry"
    BY <1>1, <1>3, Known, GotoMoves DEF Moved, Labels
  <2>2. UNCHANGED <<top, bom, mem, sent, out>>
    BY <1>1, <1>3
  <2> QED BY <2>1, <2>2, LocalStep DEF Sound
<1> QED BY <1>2, <1>3 DEF ReadCas

LEMMA WriteCasStreams ==
  ASSUME Sound, NEW d \in Sides, WriteCas(d)
  PROVE  Data' /\ Streams
<1>1. UNCHANGED <<bom, mem, out>> /\ op[d].at = "wcas" /\ MayStep(d)
  BY DEF WriteCas, At
<1>2. CASE /\ top = op[d].old /\ top' = op[d].pos + op[d].sz /\ sent' = sent + op[d].sz
           /\ op' = [op EXCEPT ![d] = Idle]
  <2> DEFINE k == op[d].sz
             n == top - bom
             V == {mem[a] : a \in Nat} \cup {sent + i : i \in Nat}
             t == [i \in 1 .. k |-> sent + i]
  <2>1. /\ top \in Nat /\ bom \in Nat /\ k \in 0 .. Size - 1 /\ n \in Nat
        /\ k <= Size - 1 - n /\ Size \in Nat \ {0}
    <3>1. Quiet
      BY <1>1, QuietAt DEF Sound
    <3>2. bom <= top /\ top \in Nat /\ bom \in Nat /\ op[d].sz \in 0 .. Size - 1
      BY <1>1, <3>1, Known DEF Sound, Good, IndicesOK
    <3>3. top # 0 => op[d].sz <= Size - 1 - (top - bom)
      BY <1>1, Known DEF SideOK, WriterOK
    <3> QED BY <3>2, <3>3, FifoAssumption
  <2>2. \A i \in 1 .. k : mem[(top + i - 1) % Size] = sent + i
    BY <1>1, <1>2 DEF Sound, Data, WriteTrue
  <2>3. \A x \in Nat : x % Size \in Nat
    BY <2>1, ModDef
  <2> HIDE DEF k
  <2>4. top' - bom' = n + k /\ bom' = bom /\ mem' = mem
    <3>1. top' = top + k
      BY <1>1, <1>2, Known DEF SideOK, WriterOK, k
    <3> QED BY <1>1, <2>1, <3>1
  <2>5. /\ Content \in [1 .. n -> V]
        /\ t \in [1 .. k -> V]
        /\ Content' \in [1 .. n + k -> V]
    <3>1. \A i \in Nat \ {0} : mem[(bom + i - 1) % Size] \in V /\ sent + i \in V
      <4> TAKE i \in Nat \ {0}
      <4>1. bom + i - 1 \in Nat
        BY <2>1
      <4> QED BY <2>3, <4>1
    <3> HIDE DEF V
    <3>2. Content = [i \in 1 .. n |-> mem[(bom + i - 1) % Size]]
      BY DEF Content
    <3>3. Content' = [i \in 1 .. n + k |-> mem[(bom + i - 1) % Size]]
      BY <2>4 DEF Content
    <3>4. /\ \A i \in 1 .. n : i \in Nat \ {0}
          /\ \A i \in 1 .. n + k : i \in Nat \ {0}
          /\ \A i \in 1 .. k : i \in Nat \ {0}
      BY <2>1
    <3> HIDE DEF n
    <3>5. Content \in [1 .. n -> V] /\ t \in [1 .. k -> V]
      BY <3>1, <3>2, <3>4
    <3>6. Content' \in [1 .. n + k -> V]
      BY <3>1, <3>3, <3>4
    <3> QED BY <3>5, <3>6
  <2>6. Content' = Content \o t
    <3>1. \A i \in 1 .. n : Content'[i] = Content[i]
      <4> TAKE i \in 1 .. n
      <4>1. i \in 1 .. n + k
        BY <2>1
      <4> QED BY <2>4, <4>1 DEF Content
    <3>2. \A i \in 1 .. k : Content'[n + i] = t[i]
      <4> TAKE i \in 1 .. k
      <4>1. n + i \in 1 .. n + k /\ bom + (n + i) - 1 = top + i - 1
        BY <2>1
      <4>2. Content'[n + i] = mem[(bom + (n + i) - 1) % Size]
        BY <2>4, <4>1 DEF Content
      <4> QED BY <2>2, <4>1, <4>2
    <3> HIDE DEF t, n, V
    <3>3. GoesOn(Content', Content, t, n, k, V)
      BY <2>1, <2>5, <3>1, <3>2 DEF GoesOn
    <3> QED BY <3>3, Appended
  <2>7. Stream!Write(k)
    <3>1. Len(Content) = n
      BY <2>1, <2>5, SeqOf
    <3>2. k <= Size - 1 - Len(Content)
      BY <2>1, <3>1
    <3> QED BY <1>1, <1>2, <2>6, <3>2 DEF Stream!Write, k
  <2>8. Others(d) /\ op'[d].at = "idle"
    BY <1>2, Known, Becomes, IdleOK
  <2>9. Emptied'
    <3>1. \A h \in Sides : op'[h].at \notin {"top", "clear"}
      BY <1>1, <2>8, NobodyEmpties DEF Others
    <3> QED BY <3>1 DEF Emptied
  <2>10. ReadTrue'
    <3> SUFFICES ASSUME NEW h \in Sides, op'[h].at = "rcas", op'[h].old = bom
                 PROVE  op'[h].dest = [i \in 1 .. op'[h].sz |-> mem[(bom + i - 1) % Size]]
      BY <1>1 DEF ReadTrue
    <3>1. op'[h] = op[h]
      BY <2>8 DEF Others
    <3> QED BY <3>1 DEF Sound, Data, ReadTrue
  <2>11. WriteTrue'
    <3> SUFFICES ASSUME NEW h \in Sides, op'[h].at = "wcas" PROVE FALSE
      BY DEF WriteTrue
    <3>1. h # d /\ op[h].at = "wcas"
      BY <2>8 DEF Others
    <3>2. h = Writer /\ d = Writer
      BY <1>1, <3>1, Known DEF SideOK, WriterOK, Writing
    <3> QED BY <3>1, <3>2
  <2> QED BY <2>1, <2>7, <2>9, <2>10, <2>11 DEF Data, Streams
<1>3. CASE Goto(d, "wretry") /\ UNCHANGED <<top, sent>>
  <2>1. Others(d) /\ op'[d].at = "wretry"
    BY <1>1, <1>3, Known, GotoMoves DEF Moved, Labels
  <2>2. UNCHANGED <<top, bom, mem, sent, out>>
    BY <1>1, <1>3
  <2> QED BY <2>1, <2>2, LocalStep DEF Sound
<1> QED BY <1>2, <1>3 DEF WriteCas

-----------------------------------------------------------------------------
(* The stores of 0, and the cleared page: nothing is under way.            *)

LEMMA GotoOne ==
  ASSUME Sound, NEW d \in Sides, op[d].at \notin {"rbom", "wtop"}, NEW label \in Labels,
         Goto(d, label)
  PROVE  /\ \A h \in Sides : h # d => op'[h] = op[h]
         /\ op'[d].at = label
  BY Known, GotoMoves DEF Others, Moved

LEMMA ResetAlone ==
  ASSUME Sound, NEW d \in Sides, MayStep(d), op[d].at \in {"top", "bom"}
  PROVE  \A h \in Sides : h # d => op[h].at \notin {"top", "clear", "rcas"}
<1> SUFFICES ASSUME NEW h \in Sides, h # d, op[h].at \in {"top", "clear", "rcas"}
             PROVE  FALSE
  OBVIOUS
<1>1. CASE h > d
  BY <1>1 DEF MayStep
<1>2. CASE d > h
  <2>1. op[d].at = "bom" => ~Quiet
    BY DEF Quiet
  <2>2. op[h].at = "rcas" => Quiet
    BY Known DEF SideOK, ReaderOK, Reading
  <2> QED BY <1>2, <2>1, <2>2 DEF Sound, Unmet, Reading
<1> QED BY <1>1, <1>2, Ordered

LEMMA ResetTopStreams ==
  ASSUME Sound, NEW d \in Sides, ResetTop(d)
  PROVE  Data' /\ Streams
<1>1. /\ UNCHANGED <<bom, mem, sent, out>> /\ top' = 0
      /\ op[d].at = "top" /\ MayStep(d) /\ Goto(d, "bom")
  BY DEF ResetTop, At
<1>2. /\ \A h \in Sides : h # d => op'[h] = op[h]
      /\ op'[d].at = "bom"
  BY <1>1, GotoOne DEF Labels
<1>3. top = bom /\ bom \in Nat
  BY <1>1 DEF Sound, Data, Emptied, FifoTypes
<1>4. Content = <<>> /\ Content' = <<>>
  BY <1>1, <1>3 DEF Content
<1>5. \A h \in Sides : op'[h].at \notin {"top", "clear", "rcas"}
  BY <1>1, <1>2, ResetAlone
<1>6. Emptied' /\ ReadTrue'
  BY <1>5 DEF Emptied, ReadTrue
<1>7. WriteTrue'
  <2> SUFFICES ASSUME NEW h \in Sides, op'[h].at = "wcas", 0 = op'[h].old
               PROVE  \A i \in 1 .. op'[h].sz : mem[(0 + i - 1) % Size] = sent + i
    BY <1>1 DEF WriteTrue
  <2>1. op'[h] = op[h]
    BY <1>2
  <2>2. top = 0
    BY <2>1, Known DEF SideOK, WriterOK
  <2> QED BY <2>1, <2>2 DEF Sound, Data, WriteTrue
<1> QED BY <1>1, <1>4, <1>6, <1>7 DEF Data, Streams, Stutter

LEMMA ResetBomStreams ==
  ASSUME Sound, NEW d \in Sides, ResetBom(d)
  PROVE  Data' /\ Streams
<1>1. /\ UNCHANGED <<top, mem, sent, out>> /\ bom' = 0
      /\ op[d].at = "bom" /\ MayStep(d) /\ Goto(d, "idle")
  BY DEF ResetBom, At
<1>2. /\ \A h \in Sides : h # d => op'[h] = op[h]
      /\ op'[d].at = "idle"
  BY <1>1, GotoOne DEF Labels
<1>3. top = 0 /\ bom \in Nat
  BY <1>1 DEF Sound, Good, IndicesOK, Quiet, FifoTypes
<1>4. Content = <<>> /\ Content' = <<>>
  BY <1>1, <1>3 DEF Content
<1>5. \A h \in Sides : op'[h].at \notin {"top", "clear", "rcas"}
  BY <1>1, <1>2, ResetAlone
<1>6. Emptied' /\ ReadTrue'
  BY <1>5 DEF Emptied, ReadTrue
<1>7. WriteTrue'
  <2> SUFFICES ASSUME NEW h \in Sides, op'[h].at = "wcas", top = op'[h].old
               PROVE  \A i \in 1 .. op'[h].sz : mem[(top + i - 1) % Size] = sent + i
    BY <1>1 DEF WriteTrue
  <2>1. op'[h] = op[h]
    BY <1>2
  <2> QED BY <2>1 DEF Sound, Data, WriteTrue
<1> QED BY <1>1, <1>4, <1>6, <1>7 DEF Data, Streams, Stutter

LEMMA FlushStreams ==
  ASSUME Sound, Unmet', NEW d \in Sides, Flush(d)
  PROVE  Data' /\ Streams
<1>1. UNCHANGED <<bom, mem, sent, out>> /\ top' = 0 /\ Goto(d, "flush") /\ op[d].at = "idle"
  BY DEF Flush, At
<1>2. /\ \A h \in Sides : h # d => op'[h] = op[h]
      /\ op'[d].at = "flush"
  BY <1>1, GotoOne DEF Labels
<1>3. bom \in Nat
  BY DEF Sound, FifoTypes
<1>4. Content' = <<>>
  BY <1>1, <1>3 DEF Content
<1>5. \A h \in Sides : op'[h].at \in {"idle", "flush"}
  BY <1>2 DEF Unmet
<1>6. Data'
  BY <1>5 DEF Data, Emptied, ReadTrue, WriteTrue
<1> QED BY <1>1, <1>4, <1>6 DEF Streams, Stream!Flush

LEMMA FlushBomStreams ==
  ASSUME Sound, NEW d \in Sides, FlushBom(d)
  PROVE  Data' /\ Streams
<1> DEFINE label == IF d = Linux THEN "idle" ELSE "clear"
<1>1. /\ UNCHANGED <<top, mem, sent, out>> /\ bom' = 0
      /\ op[d].at = "flush" /\ Goto(d, label)
  BY DEF FlushBom, At
<1>2. /\ \A h \in Sides : h # d => op'[h] = op[h]
      /\ op'[d].at = label
  BY <1>1, GotoOne DEF Labels
<1>3. top = 0 /\ bom \in Nat
  BY <1>1 DEF Sound, Good, IndicesOK, Quiet, FifoTypes
<1>4. Content = <<>> /\ Content' = <<>>
  BY <1>1, <1>3 DEF Content
<1>5. \A h \in Sides : op'[h].at \in {"idle", "clear"}
  BY <1>1, <1>2 DEF Sound, Unmet
<1>6. Data'
  BY <1>1, <1>3, <1>5 DEF Data, Emptied, ReadTrue, WriteTrue
<1> QED BY <1>1, <1>4, <1>6 DEF Streams, Stutter

LEMMA FlushMemoryStreams ==
  ASSUME Sound, NEW d \in Sides, FlushMemory(d)
  PROVE  Data' /\ Streams
<1>1. UNCHANGED <<top, bom, sent, out>> /\ op[d].at = "clear" /\ Goto(d, "idle")
  BY DEF FlushMemory, At
<1>2. /\ \A h \in Sides : h # d => op'[h] = op[h]
      /\ op'[d].at = "idle"
  BY <1>1, GotoOne DEF Labels
<1>3. top = bom /\ bom \in Nat
  BY <1>1 DEF Sound, Data, Emptied, FifoTypes
<1>4. Content = <<>> /\ Content' = <<>>
  BY <1>1, <1>3 DEF Content
<1>5. \A h \in Sides : op'[h].at = "idle"
  BY <1>1, <1>2 DEF Sound, Unmet
<1>6. Data'
  BY <1>5 DEF Data, Emptied, ReadTrue, WriteTrue
<1> QED BY <1>1, <1>4, <1>6 DEF Streams, Stutter

-----------------------------------------------------------------------------
LEMMA MemoryStays == FifoTypes /\ MemOK /\ [Next]_vars => MemOK'
<1> SUFFICES ASSUME FifoTypes, MemOK, [Next]_vars PROVE MemOK'
  OBVIOUS
<1>1. ASSUME NEW d \in Sides, Start(d) \/ Continue(d) PROVE MemOK'
  <2>1. ASSUME NEW n, Read(d, n) \/ Write(d, n) PROVE MemOK'
    BY <2>1 DEF Read, Write, ReadTop, WriteBom, MemOK
  <2>2. CASE ReadBom(d) \/ ReadOld(d) \/ ReadWrap(d) \/ ReadCopy(d) \/ ReadCas(d) \/ ReadRetry(d)
    BY <2>2 DEF ReadBom, ReadOld, ReadWrap, ReadCopy, ReadCas, ReadRetry, ReadTop, MemOK
  <2>6. CASE TestTop(d) \/ TestBom(d) \/ ResetTop(d) \/ ResetBom(d)
    BY <2>6 DEF TestTop, TestBom, ResetTop, ResetBom, MemOK
  <2>3. CASE WriteTop(d) \/ WriteOld(d) \/ WritePos(d) \/ WriteCopy(d) \/ WriteRetry(d)
    BY <2>3 DEF WriteTop, WriteOld, WritePos, WriteCopy, WriteRetry, WriteBom, MemOK
  <2>4. CASE WriteCas(d)
    <3>1. op[d].sz \in Nat
      BY FifoAssumption DEF FifoTypes, OpsOK, OpOK
    <3> QED BY <2>4, <3>1 DEF WriteCas, MemOK
  <2>5. CASE Flush(d) \/ FlushBom(d) \/ FlushMemory(d)
    BY <2>5 DEF Flush, FlushBom, FlushMemory, MemOK
  <2> QED BY <1>1, <2>1, <2>2, <2>3, <2>4, <2>5, <2>6 DEF Start, Continue
<1>2. CASE UNCHANGED vars
  BY <1>2 DEF vars, MemOK
<1> QED BY <1>1, <1>2 DEF Next

LEMMA StreamNext ==
  StreamInv /\ [Next]_vars => StreamInv' /\ [Stream!Next \/ met']_(Stream!vars)
<1> SUFFICES ASSUME StreamInv, [Next]_vars
             PROVE  StreamInv' /\ [Stream!Next \/ met']_(Stream!vars)
  OBVIOUS
<1>1. FifoInv' /\ MemOK'
  BY FifoNext, MemoryStays DEF StreamInv, FifoInv
<1>2. CASE UNCHANGED vars
  <2>1. UNCHANGED <<top, bom, mem, op, sent, out, met>>
    BY <1>2 DEF vars
  <2>2. Data => Data'
    BY <2>1 DEF Data, Emptied, ReadTrue, WriteTrue
  <2>3. Stutter
    BY <2>1 DEF Stutter, Content
  <2> QED BY <1>1, <2>1, <2>2, <2>3, StreamsAre DEF StreamInv, Streams
<1>3. ASSUME NEW d \in Sides, Start(d) \/ Continue(d)
      PROVE  ~met' => Data' /\ Streams
  <2> SUFFICES ASSUME ~met' PROVE Data' /\ Streams
    OBVIOUS
  <2>1. Sound /\ Unmet'
    <3>1. ~met
      BY <1>3 DEF Start, Continue, Watch
    <3> QED BY <1>1, <3>1 DEF StreamInv, FifoInv, Sound
  <2>2. ASSUME NEW n, Read(d, n) \/ Write(d, n) PROVE Data' /\ Streams
    BY <2>1, <2>2, LoadStreams DEF Read, Write
  <2>3. CASE Flush(d)
    BY <2>1, <2>3, FlushStreams
  <2>4. CASE ReadCopy(d)
    BY <2>1, <2>4, ReadCopyStreams
  <2>5. CASE ReadCas(d)
    BY <2>1, <2>5, ReadCasStreams
  <2>6. CASE ReadRetry(d)
    BY <2>1, <2>6, LoadStreams DEF ReadRetry
  <2>7. CASE TestTop(d) \/ TestBom(d)
    BY <2>1, <2>7, TestStreams
  <2>8. CASE ResetTop(d)
    BY <2>1, <2>8, ResetTopStreams
  <2>9. CASE ResetBom(d)
    BY <2>1, <2>9, ResetBomStreams
  <2>10. CASE WriteCopy(d)
    BY <2>1, <2>10, WriteCopyStreams
  <2>11. CASE WriteCas(d)
    BY <2>1, <2>11, WriteCasStreams
  <2>12. CASE WriteRetry(d)
    BY <2>1, <2>12, LoadStreams DEF WriteRetry
  <2>13. CASE FlushBom(d)
    BY <2>1, <2>13, FlushBomStreams
  <2>14. CASE FlushMemory(d)
    BY <2>1, <2>14, FlushMemoryStreams
  <2>15. CASE \/ ReadBom(d) \/ ReadOld(d) \/ ReadWrap(d)
              \/ WriteTop(d) \/ WriteOld(d) \/ WritePos(d)
    BY <2>1, <2>15, LoadStreams
  <2> QED
    BY <1>3, <2>2, <2>3, <2>4, <2>5, <2>6, <2>7, <2>8, <2>9, <2>10, <2>11, <2>12,
       <2>13, <2>14, <2>15 DEF Start, Continue
<1>4. CASE Next
  BY <1>1, <1>3, <1>4, StreamsAre DEF Next, StreamInv
<1> QED BY <1>2, <1>4

(* Every step of rtfifo.c writes the next bytes of the stream, reads the   *)
(* first ones, drops them all or changes nothing, whoever overtakes whom,  *)
(* until operations meet in a way the FIFO is not made for.                *)
THEOREM ImplementsByteStream == Spec => IsByteStream
<1>1. Init => StreamInv /\ Stream!Init
  BY FifoInit, StreamInit DEF StreamInv
<1> QED BY <1>1, StreamNext, PTL DEF Spec, IsByteStream
=============================================================================
