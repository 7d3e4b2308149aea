------------------------------ MODULE XmTrace ------------------------------
(***************************************************************************)
(* The trace buffers: the kernel (xmtrace_core.c) records events into one  *)
(* buffer of a ring in shared memory and hands it over when it is          *)
(* finalized; a Linux process (tracer.c) polls the ring and dumps what is  *)
(* ready.                                                                  *)
(*                                                                         *)
(* The kernel does its part with interrupts off, in one step.  The process *)
(* is preempted between any two of its steps and may be killed at any of   *)
(* them; a new one finds its positions in the shared memory.  Loading      *)
(* xmtrace_shm.ko again sets the positions back under a running process:   *)
(* the segment is never freed, its owner having opened it twice.           *)
(*                                                                         *)
(* Each access of the process to a position or a bit that a load may come  *)
(* before is a step of its own: reader_ppos is loaded and reader_cpos      *)
(* stored, reader_cpos is loaded for the test, the bit is read, and        *)
(* reader_cpos is loaded again for the dump.  Clearing the bit and storing *)
(* reader_ppos load reader_cpos too; they are one step each, since a load  *)
(* of the module in the middle of one has met a dump, after which nothing  *)
(* is claimed.                                                             *)
(*                                                                         *)
(* The overall counts overwritten and finalize_count, which only a line of *)
(* the tracer's output prints, and the classes of events are left out.     *)
(***************************************************************************)
EXTENDS Integers, Sequences

CONSTANTS
  NBuffers,     (* RTL_TNBUFFERS                                           *)
  NRecords,     (* RTL_TNRECORDS                                           *)
  MaxEvents,    (* bound: events recorded in all                           *)
  MaxFinalizes, (* bound: finalize_count                                   *)
  MaxKills,     (* bound: how often the tracer process is killed           *)
  MaxLoads      (* bound: how often the module is loaded                   *)

ASSUME TraceAssumption ==
  /\ NBuffers \in Nat /\ NBuffers > 1
  /\ NRecords \in Nat \ {0}
  /\ {MaxEvents, MaxFinalizes, MaxKills, MaxLoads} \subseteq Nat

VARIABLES
  buffers,   (* buffers: records and, once finalized, what they amount to  *)
  ready,     (* the bits of trace_data_ready                               *)
  ppos,      (* reader_ppos                                                *)
  cpos,      (* reader_cpos                                                *)
  wpos,      (* writer_cpos, the index of cbuf                             *)
  len,       (* events recorded in cbuf, NRecords at most                  *)
  cur,       (* where the next one goes                                    *)
  timestamp, (* number of the last trace                                   *)
  tracing,   (* rtl_trace is rtl_do_trace                                  *)
  reader,    (* the process: where it is and its locals                    *)
  past       (* history                                                    *)

vars == <<buffers, ready, ppos, cpos, wpos, len, cur, timestamp, tracing,
          reader, past>>

kernel == <<wpos, len, cur, timestamp, tracing>>

Buffers == 0 .. NBuffers - 1
Records == 0 .. NRecords - 1

EmptyBuffer ==
  [trace |-> [r \in Records |-> 0], pos |-> 0, len |-> 0, stamp |-> 0,
   overwritten |-> 0]

Gone == [at |-> "gone", buf |-> 0, s |-> 0, i |-> 0, lost |-> 0]

(* How often things happened; the latest events of the current trace and   *)
(* those of the trace in each buffer; what the last dump has printed; the  *)
(* number of the last trace whose count of lost ones was taken; the lost   *)
(* traces that are still to be printed (those a process had taken when it  *)
(* was killed are not); whether a process was killed between clearing a    *)
(* bit and moving on, and whether a load has met a dump or found counts    *)
(* left behind.                                                            *)
NoPast ==
  [events |-> 0, finalizes |-> 0, kills |-> 0, loads |-> 1,
   recent |-> <<>>, meant |-> [b \in Buffers |-> <<>>], printed |-> <<>>,
   last |-> 0, owed |-> 0,
   skewed |-> FALSE, met |-> FALSE, stale |-> FALSE]

Latest(s) == IF Len(s) <= NRecords THEN s
             ELSE SubSeq(s, Len(s) - NRecords + 1, Len(s))

(* The sums of the counts of the buffers before n, and of all.             *)
Sums(f) == LET upto[n \in 0 .. NBuffers] == IF n = 0 THEN 0 ELSE upto[n - 1] + f[n - 1]
           IN  upto

Total(f) == Sums(f)[NBuffers]

-----------------------------------------------------------------------------
(* The kernel: rtl_do_trace, and rtl_trace_finalize for the event          *)
(* RTL_TRACE_FINALIZE.                                                     *)

NextRecord(c) == IF c + 1 = NRecords THEN 0 ELSE c + 1

DoTrace ==
  /\ tracing
  /\ past.events < MaxEvents
  /\ buffers' = [buffers EXCEPT ![wpos].trace[cur] = past.events + 1]
  /\ len' = IF len < NRecords THEN len + 1 ELSE len
  /\ cur' = NextRecord(cur)
  /\ past' = [past EXCEPT !.events = @ + 1,
                          !.recent = Latest(Append(@, past.events + 1))]
  /\ UNCHANGED <<ready, ppos, cpos, wpos, timestamp, tracing, reader>>

NextBuffer == (wpos + 1) % NBuffers

(* Mutant: the bit of the buffer that starts again stays set.              *)
OverwriteReady ==
  /\ NextBuffer \in ready
  /\ buffers' = [buffers EXCEPT ![wpos].overwritten = @ + 1]
  /\ ready' = ready \cup {wpos}
  /\ past' = [past EXCEPT !.recent = <<>>, !.finalizes = @ + 1, !.owed = @ + 1]
  /\ UNCHANGED wpos

(* Mutant: the buffer that starts again does not count the lost trace.     *)
OverwriteUncounted ==
  /\ NextBuffer \in ready
  /\ ready' = ready \ {wpos}
  /\ past' = [past EXCEPT !.recent = <<>>, !.finalizes = @ + 1, !.owed = @ + 1]
  /\ UNCHANGED <<buffers, wpos>>

(* The next buffer was not dumped yet: this trace is lost and its buffer   *)
(* starts again.                                                           *)
Overwrite ==
  /\ NextBuffer \in ready
  /\ buffers' = [buffers EXCEPT ![wpos].overwritten = @ + 1]
  /\ ready' = ready \ {wpos}
  /\ past' = [past EXCEPT !.recent = <<>>, !.finalizes = @ + 1, !.owed = @ + 1]
  /\ UNCHANGED wpos

HandOver ==
  /\ NextBuffer \notin ready
  /\ ready' = ready \cup {wpos}
  /\ buffers' = [buffers EXCEPT ![wpos].stamp = timestamp + 1,
                                ![wpos].len = len, ![wpos].pos = cur]
  /\ wpos' = NextBuffer
  /\ past' = [past EXCEPT !.recent = <<>>, !.finalizes = @ + 1,
                          !.meant[wpos] = past.recent]

Finalize ==
  /\ tracing
  /\ past.finalizes < MaxFinalizes
  /\ timestamp' = timestamp + 1
  /\ Overwrite \/ HandOver
  /\ len' = 0 /\ cur' = 0
  /\ UNCHANGED <<ppos, cpos, tracing, reader>>

(* rtl_trace_destroy, and init_module with rtl_trace_init and              *)
(* xmtrace_core_setup.  Setup leaves the overwritten counts of the         *)
(* buffers as they are.                                                    *)
Unload ==
  /\ tracing
  /\ tracing' = FALSE
  /\ UNCHANGED <<buffers, ready, ppos, cpos, wpos, len, cur, timestamp, reader,
                 past>>

(* The process holds no position from before, or only one to test.         *)
ReadsAfresh == reader.at \in {"gone", "seek", "test", "bit"}

Load ==
  /\ ~tracing
  /\ past.loads < MaxLoads
  /\ tracing' = TRUE
  /\ ready' = {} /\ ppos' = -1 /\ cpos' = 0
  /\ wpos' = 0 /\ len' = 0 /\ cur' = 0 /\ timestamp' = 0
  /\ past' = [past EXCEPT
        !.loads = @ + 1, !.recent = <<>>, !.last = 0, !.skewed = FALSE,
        !.met = @ \/ ~ReadsAfresh,
        !.stale = @ \/ \E b \in Buffers : buffers[b].overwritten # 0]
  /\ UNCHANGED <<buffers, reader>>

-----------------------------------------------------------------------------
(* The tracer: the loop of main, and rtl_trace_dump.                       *)

At(label) == reader.at = label
Goto(label) == reader' = [reader EXCEPT !.at = label]

Start ==
  /\ At("gone") /\ Goto("seek")
  /\ UNCHANGED <<buffers, ready, ppos, cpos, kernel, past>>

(* A signal: cleanup, which exits.                                         *)
Kill ==
  /\ ~At("gone")
  /\ past.kills < MaxKills
  /\ reader' = Gone
  /\ past' = [past EXCEPT
        !.kills = @ + 1, !.printed = <<>>,
        !.owed = IF At("print") THEN @ - reader.lost ELSE @,
        !.skewed = @ \/ At("advance")]
  /\ UNCHANGED <<buffers, ready, ppos, cpos, kernel>>

(* Mutant: the tracer goes on from where it is, not from what it has done. *)
SeekFromCurrent ==
  /\ At("seek")
  /\ reader' = [reader EXCEPT !.at = "store", !.buf = (cpos + 1) % NBuffers]
  /\ UNCHANGED <<buffers, ready, ppos, cpos, kernel, past>>

Seek ==
  /\ At("seek")
  /\ reader' = [reader EXCEPT !.at = "store", !.buf = (ppos + 1) % NBuffers]
  /\ UNCHANGED <<buffers, ready, ppos, cpos, kernel, past>>

Store ==
  /\ At("store")
  /\ reader' = [Gone EXCEPT !.at = "test"]
  /\ cpos' = reader.buf
  /\ UNCHANGED <<buffers, ready, ppos, kernel, past>>

(* Mutant: the dump starts at the record that was written last.            *)
FirstRecordLast(b) == IF b.pos = 0 THEN NRecords - 1 ELSE b.pos - 1

(* Where the oldest record of a buffer is.                                 *)
FirstRecord(b) ==
  LET s == b.pos - b.len IN IF s < 0 THEN s + NRecords ELSE s

Test ==
  /\ At("test")
  /\ reader' = [reader EXCEPT !.at = "bit", !.buf = cpos]
  /\ UNCHANGED <<buffers, ready, ppos, cpos, kernel, past>>

Bit ==
  /\ At("bit")
  /\ reader' = [Gone EXCEPT !.at = IF reader.buf \in ready THEN "begin" ELSE "seek"]
  /\ UNCHANGED <<buffers, ready, ppos, cpos, kernel, past>>

Begin ==
  /\ At("begin")
  /\ reader' = [at |-> "dump", buf |-> cpos, s |-> FirstRecord(buffers[cpos]),
                i |-> 0, lost |-> 0]
  /\ past' = [past EXCEPT !.printed = <<>>]
  /\ UNCHANGED <<buffers, ready, ppos, cpos, kernel>>

DumpRecord ==
  /\ At("dump")
  /\ reader.i < buffers[reader.buf].len
  /\ reader' = [reader EXCEPT !.i = @ + 1, !.s = NextRecord(@)]
  /\ past' = [past EXCEPT !.printed = Append(@, buffers[reader.buf].trace[reader.s])]
  /\ UNCHANGED <<buffers, ready, ppos, cpos, kernel>>

TakeLost ==
  /\ At("dump")
  /\ reader.i >= buffers[reader.buf].len
  /\ reader' = [reader EXCEPT !.at = "zero", !.lost = buffers[reader.buf].overwritten]
  /\ UNCHANGED <<buffers, ready, ppos, cpos, kernel, past>>

(* Mutant: the count of the buffer is not set back.                        *)
ZeroLostNot ==
  /\ At("zero") /\ Goto("print")
  /\ past' = [past EXCEPT !.last = buffers[reader.buf].stamp]
  /\ UNCHANGED <<buffers, ready, ppos, cpos, kernel>>

ZeroLost ==
  /\ At("zero") /\ Goto("print")
  /\ buffers' = [buffers EXCEPT ![reader.buf].overwritten = 0]
  /\ past' = [past EXCEPT !.last = buffers[reader.buf].stamp]
  /\ UNCHANGED <<ready, ppos, cpos, kernel>>

PrintLost ==
  /\ At("print")
  /\ reader' = [reader EXCEPT !.at = "clear", !.s = 0, !.i = 0, !.lost = 0]
  /\ past' = [past EXCEPT !.owed = @ - reader.lost, !.printed = <<>>]
  /\ UNCHANGED <<buffers, ready, ppos, cpos, kernel>>

Clear ==
  /\ At("clear")
  /\ reader' = [Gone EXCEPT !.at = "advance"]
  /\ ready' = ready \ {cpos}
  /\ UNCHANGED <<buffers, ppos, cpos, kernel, past>>

(* Mutant: the tracer does not move on.                                    *)
AdvanceNot ==
  /\ At("advance") /\ Goto("seek")
  /\ UNCHANGED <<buffers, ready, ppos, cpos, kernel, past>>

Advance ==
  /\ At("advance") /\ Goto("seek")
  /\ ppos' = cpos
  /\ UNCHANGED <<buffers, ready, cpos, kernel, past>>

Tracer == \/ Seek \/ Store \/ Test \/ Bit \/ Begin
          \/ DumpRecord \/ TakeLost \/ ZeroLost \/ PrintLost \/ Clear \/ Advance

-----------------------------------------------------------------------------
Init ==
  /\ buffers = [b \in Buffers |-> EmptyBuffer]
  /\ ready = {} /\ ppos = -1 /\ cpos = 0
  /\ wpos = 0 /\ len = 0 /\ cur = 0 /\ timestamp = 0
  /\ tracing = TRUE
  /\ reader = Gone
  /\ past = NoPast

Next == DoTrace \/ Finalize \/ Unload \/ Load \/ Start \/ Kill \/ Tracer

Spec == Init /\ [][Next]_vars

(* The tracer is given the processor again and again: Linux is the domain  *)
(* of the lowest priority, and the domains above it are not always busy.   *)
FairSpec == Spec /\ WF_vars(Tracer)

-----------------------------------------------------------------------------
(* Unless the module was loaded under a running dump, the kernel never     *)
(* records into the buffer that the tracer is dumping (RTL_TNBUFFERS and   *)
(* the test of the next buffer's bit in rtl_trace_finalize), whoever was   *)
(* killed before.                                                          *)
Apart ==
  At("dump") \/ At("zero") \/ At("print") \/ At("clear")
    => past.met \/ (reader.buf # wpos /\ reader.buf \in ready)

(* A dump prints the events that precede the finalization, the latest      *)
(* RTL_TNRECORDS of them, oldest first (xmtrace/README: "captures 500      *)
(* events preceding the finalization point of a trace").                   *)
DumpsLatest ==
  At("zero") => past.met \/ past.printed = past.meant[reader.buf]

(* Traces are dumped in order, and the count that is printed with one is   *)
(* the number of traces missing between it and the one before (tracer      *)
(* output: "lost %lu traces befor this trace"), zero if it is dumped       *)
(* again after a kill.                                                     *)
GapsReported ==
  At("zero") =>
    \/ past.met \/ past.stale
    \/ LET gap == buffers[reader.buf].stamp - past.last - 1
       IN  gap >= -1 /\ reader.lost = IF gap = -1 THEN 0 ELSE gap

(* Every lost trace is reported once: it was printed, is still counted in  *)
(* a buffer, is in the hands of the tracer, or was when that was killed    *)
(* between setting the count back and printing it.                         *)
LossesCounted ==
  \/ past.met
  \/ past.owed = Total([b \in Buffers |-> buffers[b].overwritten])
                 + (IF At("print") THEN reader.lost ELSE 0)

(* A tracer that is killed between clearing the bit of a buffer and        *)
(* storing reader_ppos is the last one: whoever comes after waits at that  *)
(* buffer, and nothing is dumped until the module is loaded again.         *)
KilledForGood ==
  past.skewed => past.met \/ At("store") \/ ReadsAfresh

(* A buffer that is ready is dumped or its tracer is killed, even if the   *)
(* kernel fills the ring meanwhile.                                        *)
AllDumped ==
  \A b \in Buffers :
    b \in ready ~> b \notin ready \/ At("gone") \/ past.skewed \/ past.met
=============================================================================
