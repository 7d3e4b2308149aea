------------------------------- MODULE XmFifo -------------------------------
(***************************************************************************)
(* One FIFO of XtratuM: a ring in a page that Linux (rtfifo.c) and the     *)
(* real-time domains (PaRTiKle's devrtf.c, the same code) have mapped.     *)
(*                                                                         *)
(* A side is a domain, numbered by priority, Linux being 0.  There is one  *)
(* processor, so a side that is in the middle of an operation can be       *)
(* overtaken between any two steps, but only by the sides above it, which  *)
(* complete their operations first; the domains turn their events off      *)
(* around an operation, so each side has one in progress at most.          *)
(*                                                                         *)
(* Each load of ff_top and ff_bom is a step, in the order of the source.   *)
(* The fields are not volatile: where one is needed again in the same pass *)
(* of a loop, a build may load it again or keep what it has.  The two      *)
(* FIFO_USED_SIZE of one test, or FIFO_FREE_SIZE, are one: every build is  *)
(* with -O2 and nothing stands between them.                               *)
(***************************************************************************)
EXTENDS Integers, Sequences, Functions

CONSTANTS
  Sides,    (* the domains that have the FIFO open                         *)
  Writer,   (* the side that writes; "reduce the number of task write"     *)
  Readers,  (* the sides that read                                         *)
  Flushers, (* the sides that flush                                        *)
  Size,     (* FIFO_SIZE, PAGE_SIZE in the code                            *)
  MaxBytes  (* bound: bytes that are written in all                        *)

ASSUME FifoAssumption ==
  /\ Sides \subseteq Nat
  /\ Writer \in Sides
  /\ Readers \subseteq Sides /\ Flushers \subseteq Sides
  /\ Size \in Nat \ {0} /\ MaxBytes \in Nat

Linux == 0

VARIABLES
  top,  (* ff_top: where the next byte goes, modulo Size                   *)
  bom,  (* ff_bom: where the first byte is, modulo Size                    *)
  mem,  (* the ring, and the page behind it                                *)
  op,   (* the operation each side has in progress                         *)
  sent, (* bytes the writer has written, byte k of the stream being k      *)
  out,  (* what the last read has returned                                 *)
  met   (* operations have met in a way the FIFO is not made for           *)

vars == <<top, bom, mem, op, sent, out, met>>

(* An operation: where it is, its sz, the ff_top and ff_bom it has loaded, *)
(* its old_top or old_bom, where its copy starts and whether it wraps at   *)
(* the end of the ring, the reader's buffer, and how many passes of its    *)
(* loop it has begun, 3 standing for more.                                 *)
Idle == [at |-> "idle", sz |-> 0, top |-> 0, bom |-> 0, old |-> 0, pos |-> 0,
         wraps |-> FALSE, dest |-> <<>>, passes |-> 0]

Used(t, b) == (t + Size - b) % Size
Free(t, b) == (b + Size - t - 1) % Size

AtMost(n, limit) == IF n > limit THEN limit ELSE n

(* Mutant: a copy never wraps.                                             *)
OffsetStraight(o, i) == (o.pos % Size) + i - 1

(* The offset of byte i of a copy that starts at ring position `pos'.      *)
Offset(o, i) ==
  LET a == (o.pos % Size) + i - 1
  IN  IF o.wraps /\ a >= Size THEN a - Size ELSE a

(* Side d can take a step of its operation: nobody above it is in one.     *)
MayStep(d) == \A h \in Sides : h > d => op[h].at = "idle"

At(d, label) == op[d].at = label /\ MayStep(d)

Goto(d, label) == op' = [op EXCEPT ![d].at = label]

-----------------------------------------------------------------------------
(* rt_fifo_read and rt_fifo_user_read.  A domain returns when there is     *)
(* nothing to read, Linux goes on with sz = 0.                             *)

Begins(o) == IF o.passes = 3 THEN 3 ELSE o.passes + 1

(* A pass begins: ff_top, for FIFO_USED_SIZE.                              *)
ReadTop(d, n) ==
  /\ op' = [op EXCEPT ![d] = [Idle EXCEPT !.at = "rbom", !.sz = n, !.top = top,
                                          !.passes = Begins(op[d])]]
  /\ UNCHANGED <<top, bom, mem, sent, out>>

Read(d, n) == d \in Readers /\ At(d, "idle") /\ ReadTop(d, n)

(* ff_bom, for FIFO_USED_SIZE.                                             *)
ReadBom(d) ==
  LET sz == AtMost(op[d].sz, Used(op[d].top, bom))
  IN  /\ At(d, "rbom")
      /\ op' = [op EXCEPT ![d] = IF sz = 0 /\ d # Linux THEN Idle
                                 ELSE [@ EXCEPT !.at = "rold", !.sz = sz, !.bom = bom]]
      /\ UNCHANGED <<top, bom, mem, sent, out>>

(* old_bom.                                                                *)
ReadOld(d) ==
  /\ At(d, "rold")
  /\ \E b \in {op[d].bom, bom} :
       op' = [op EXCEPT ![d].at = "rwrap", ![d].old = b, ![d].pos = b]
  /\ UNCHANGED <<top, bom, mem, sent, out>>

(* ff_top, to see whether what is in the ring wraps.                       *)
ReadWrap(d) ==
  /\ At(d, "rwrap")
  /\ \E t \in {op[d].top, top} :
       op' = [op EXCEPT ![d].at = "rcopy", ![d].wraps = t % Size < op[d].pos % Size]
  /\ UNCHANGED <<top, bom, mem, sent, out>>

ReadCopy(d) ==
  /\ At(d, "rcopy")
  /\ op' = [op EXCEPT ![d].at = "rcas",
                      ![d].dest = [i \in 1 .. op[d].sz |-> mem[Offset(op[d], i)]]]
  /\ UNCHANGED <<top, bom, mem, sent, out>>

(* CAS(&FIFO_BOM(ff), old_bom, new_bom)                                    *)
ReadCas(d) ==
  /\ At(d, "rcas")
  /\ \/ /\ bom = op[d].old
        /\ bom' = bom + op[d].sz
        /\ out' = op[d].dest
        /\ Goto(d, "rtest")
     \/ /\ bom # op[d].old
        /\ Goto(d, "rretry")
        /\ UNCHANGED <<bom, out>>
  /\ UNCHANGED <<top, mem, sent>>

ReadRetry(d) == At(d, "rretry") /\ ReadTop(d, op[d].sz)

(* An empty ring starts again at 0: ff_top, then ff_bom, are loaded ...    *)
TestTop(d) ==
  /\ At(d, "rtest")
  /\ op' = [op EXCEPT ![d] = [Idle EXCEPT !.at = "rempty", !.top = top]]
  /\ UNCHANGED <<top, bom, mem, sent, out>>

TestBom(d) ==
  /\ At(d, "rempty")
  /\ op' = [op EXCEPT ![d] = IF op[d].top = bom THEN [Idle EXCEPT !.at = "top"] ELSE Idle]
  /\ UNCHANGED <<top, bom, mem, sent, out>>

(* ... and stored.                                                         *)
ResetTop(d) ==
  /\ At(d, "top")
  /\ top' = 0
  /\ Goto(d, "bom")
  /\ UNCHANGED <<bom, mem, sent, out>>

ResetBom(d) ==
  /\ At(d, "bom")
  /\ bom' = 0
  /\ Goto(d, "idle")
  /\ UNCHANGED <<top, mem, sent, out>>

-----------------------------------------------------------------------------
(* rt_fifo_write and rt_fifo_user_write.                                   *)

(* A pass begins: ff_bom, for FIFO_FREE_SIZE.                              *)
WriteBom(d, n) ==
  /\ op' = [op EXCEPT ![d] = [Idle EXCEPT !.at = "wtop", !.sz = n, !.bom = bom,
                                          !.passes = Begins(op[d])]]
  /\ UNCHANGED <<top, bom, mem, sent, out>>

Write(d, n) ==
  d = Writer /\ sent + n <= MaxBytes /\ At(d, "idle") /\ WriteBom(d, n)

(* ff_top, for FIFO_FREE_SIZE.                                             *)
WriteTop(d) ==
  LET sz == AtMost(op[d].sz, Free(top, op[d].bom))
  IN  /\ At(d, "wtop")
      /\ op' = [op EXCEPT ![d] = IF sz = 0 /\ d # Linux THEN Idle
                                 ELSE [@ EXCEPT !.at = "wold", !.sz = sz, !.top = top]]
      /\ UNCHANGED <<top, bom, mem, sent, out>>

(* old_top.                                                                *)
WriteOld(d) ==
  /\ At(d, "wold")
  /\ \E t \in {op[d].top, top} : op' = [op EXCEPT ![d].at = "wpos", ![d].old = t]
  /\ UNCHANGED <<top, bom, mem, sent, out>>

(* ff_top for new_top and top, then ff_bom.  The former changes under the  *)
(* writer only when a reader sets it back: one step for these loads does   *)
(* what they do one by one.                                                *)
WritePos(d) ==
  /\ At(d, "wpos")
  /\ \E t \in {op[d].old, top}, b \in {op[d].bom, bom} :
       op' = [op EXCEPT ![d].at = "wcopy", ![d].pos = t, ![d].wraps = t % Size > b % Size]
  /\ UNCHANGED <<top, bom, mem, sent, out>>

WriteCopy(d) ==
  LET here == {Offset(op[d], i) : i \in 1 .. op[d].sz}
  IN  /\ At(d, "wcopy")
      /\ mem' = [a \in DOMAIN mem |->
            IF a \in here THEN sent + (CHOOSE i \in 1 .. op[d].sz : Offset(op[d], i) = a)
            ELSE mem[a]]
      /\ Goto(d, "wcas")
      /\ UNCHANGED <<top, bom, sent, out>>

(* Mutant: ff_top is stored, not compared and swapped.                     *)
WriteStore(d) ==
  /\ At(d, "wcas")
  /\ top' = op[d].pos + op[d].sz
  /\ sent' = sent + op[d].sz
  /\ op' = [op EXCEPT ![d] = Idle]
  /\ UNCHANGED <<bom, mem, out>>

(* CAS(&FIFO_TOP(ff), old_top, new_top)                                    *)
WriteCas(d) ==
  /\ At(d, "wcas")
  /\ \/ /\ top = op[d].old
        /\ top' = op[d].pos + op[d].sz
        /\ sent' = sent + op[d].sz
        /\ op' = [op EXCEPT ![d] = Idle]
     \/ /\ top # op[d].old
        /\ Goto(d, "wretry")
        /\ UNCHANGED <<top, sent>>
  /\ UNCHANGED <<bom, mem, out>>

(* Mutant: old_top is loaded before the loop.                              *)
WriteRetryStale(d) ==
  /\ At(d, "wretry")
  /\ op' = [op EXCEPT ![d].at = "wpos", ![d].passes = Begins(op[d])]
  /\ UNCHANGED <<top, bom, mem, sent, out>>

WriteRetry(d) == At(d, "wretry") /\ WriteBom(d, op[d].sz)

-----------------------------------------------------------------------------
(* rt_fifo_flush and rt_fifo_user_flush; a domain also clears the page.    *)

Flush(d) ==
  /\ d \in Flushers
  /\ At(d, "idle")
  /\ top' = 0
  /\ Goto(d, "flush")
  /\ UNCHANGED <<bom, mem, sent, out>>

FlushBom(d) ==
  /\ At(d, "flush")
  /\ bom' = 0
  /\ Goto(d, IF d = Linux THEN "idle" ELSE "clear")
  /\ UNCHANGED <<top, mem, sent, out>>

FlushMemory(d) ==
  /\ At(d, "clear")
  /\ mem' = [a \in DOMAIN mem |-> IF a < Size THEN 0 ELSE mem[a]]
  /\ Goto(d, "idle")
  /\ UNCHANGED <<top, bom, sent, out>>

-----------------------------------------------------------------------------
(* fifo_control_init: both indices 0, the page cleared.                    *)
Init ==
  /\ top = 0 /\ bom = 0
  /\ mem = [a \in 0 .. 2 * Size - 1 |-> 0]
  /\ op = [d \in Sides |-> Idle]
  /\ sent = 0
  /\ out = <<>>
  /\ met = FALSE

(* The passes of the loops, between the first load and the index's store.  *)
Reading == {"rbom", "rold", "rwrap", "rcopy", "rcas"}
Writing == {"wtop", "wold", "wpos", "wcopy", "wcas"}

(* A flush and another operation are in progress.                          *)
FlushMeets ==
  \E d, h \in Sides : d # h /\ op[d].at \in {"flush", "clear"} /\ op[h].at # "idle"

(* A reader has emptied the ring, and before it has set both indices back  *)
(* a side above it goes on to write, or between the two stores does        *)
(* anything; or a reader in its loop is overtaken by another one that sets *)
(* them back, and its compare-and-swap may find the index it knows.        *)
ResetMeets ==
  \/ \E d \in Sides : op[d].at = "rempty" /\ op[d].top = bom /\ top # bom
  \/ \E d, h \in Sides : h > d /\
       \/ /\ op[d].at \in {"rtest", "rempty"} /\ top = bom /\ top # 0
          /\ op[h].at \in {"wold", "wpos", "wcopy"} /\ MayStep(h)
       \/ op[d].at \in {"top", "bom"} /\ op[h].at # "idle"
       \/ op[d].at \in Reading /\ op[h].at = "top"

(* A reader is overtaken by another one between its loads: the ff_bom that *)
(* it is about to load is beyond the ff_top it has; or its old_bom is not  *)
(* the ff_bom it has counted from and it takes more than it counted; or    *)
(* the writer has come round the ring before ff_top is loaded again.       *)
LoadsMeet ==
  \E d \in Sides :
    \/ op[d].at = "rbom" /\ bom > op[d].top
    \/ op[d].at = "rwrap" /\ (op[d].old + op[d].sz > op[d].top \/ top - op[d].old >= Size)

(* What the C code makes of the indices after that is not followed.        *)
Watch == ~met /\ met' = (FlushMeets \/ ResetMeets \/ LoadsMeet)'

Start(d) ==
  /\ \/ \E n \in 1 .. Size : Read(d, n) \/ Write(d, n)
     \/ Flush(d)
  /\ Watch

Continue(d) ==
  /\ \/ ReadBom(d) \/ ReadOld(d) \/ ReadWrap(d) \/ ReadCopy(d) \/ ReadCas(d) \/ ReadRetry(d)
     \/ TestTop(d) \/ TestBom(d) \/ ResetTop(d) \/ ResetBom(d)
     \/ WriteTop(d) \/ WriteOld(d) \/ WritePos(d) \/ WriteCopy(d) \/ WriteCas(d) \/ WriteRetry(d)
     \/ FlushBom(d) \/ FlushMemory(d)
  /\ Watch

Next == \E d \in Sides : Start(d) \/ Continue(d)

Spec == Init /\ [][Next]_vars

-----------------------------------------------------------------------------
(* The bytes between the indices, in the order a reader would take them.   *)
Content == [i \in 1 .. top - bom |-> mem[(bom + i - 1) % Size]]

Stream == INSTANCE ByteStream WITH Capacity <- Size - 1, queue <- Content

(* The FIFO is a byte stream: every byte that was written is read once, in *)
(* order, whatever overtakes whom and whoever reads, until a flush meets   *)
(* an operation, or a side an empty ring whose indices are being set back. *)
IsByteStream == Stream!Init /\ [][Stream!Next \/ met']_(Stream!vars)

(* No copy leaves the ring for the page behind it, under the same          *)
(* conditions.                                                             *)
InsideRing ==
  met \/ \A d \in Sides : op[d].at \in {"rcopy", "wcopy"} =>
    \A i \in 1 .. op[d].sz : Offset(op[d], i) < Size

(* The loops are not "blocked" by the sides above: the writer goes through *)
(* its loop twice at most, as an index that a reader has set back stays    *)
(* there, and a reader that no other reader is above goes through it once. *)
(* A reader below another one may be beaten as often as bytes come.        *)
SoonDone ==
  met \/ \A d \in Sides :
    /\ op[d].at \in Writing => op[d].passes <= 2
    /\ op[d].at \in Reading /\ (\A h \in Readers : h <= d) => op[d].passes = 1
=============================================================================
