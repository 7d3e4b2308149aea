--------------------------- MODULE XmTraceProofs ---------------------------
(***************************************************************************)
(* The kernel and the tracer keep apart, a tracer that is killed at the    *)
(* wrong place is the last one, every gap between two dumped traces is     *)
(* reported, a dump prints the latest events of its trace, and every lost  *)
(* trace is counted once: for any ring and any number of events, kills and *)
(* loads.  The argument is the shape of the ring: the buffers that are     *)
(* ready are those from the one the tracer looks at next up to the one the *)
(* kernel writes.  On it rest the chain of the buffers' numbers and lost   *)
(* counts, what the records of each buffer amount to, and the sum of the   *)
(* counts.                                                                 *)
(***************************************************************************)
EXTENDS XmTrace, SequenceTheorems, WellFoundedInduction, TLAPS

(* The buffer after b, and how far b is from s around the ring.            *)
After(b) == IF b + 1 = NBuffers THEN 0 ELSE b + 1
Dist(s, b) == IF b >= s THEN b - s ELSE b - s + NBuffers

(* Where the tracer goes on, and where the ready buffers begin: one later  *)
(* when a bit has been cleared and reader_ppos was not stored yet, or      *)
(* never will be.                                                          *)
Following == IF ppos = -1 THEN 0 ELSE After(ppos)
FirstReady == IF past.skewed \/ At("advance") THEN After(Following) ELSE Following

Dumping == At("dump") \/ At("zero") \/ At("print") \/ At("clear")

Shape ==
  /\ ready \subseteq Buffers
  /\ wpos \in Buffers /\ cpos \in Buffers /\ ppos \in Buffers \cup {-1}
  /\ {"at", "buf", "s", "i", "lost"} = DOMAIN reader
  /\ reader.at \in {"gone", "seek", "store", "test", "bit", "begin", "dump", "zero", "print",
                    "clear", "advance"}
  /\ At("store") => reader.buf \in Buffers
  /\ {"events", "finalizes", "kills", "loads", "recent", "meant", "printed",
      "last", "owed", "skewed", "met", "stale"} = DOMAIN past

RingIsInterval ==
  \A b \in Buffers : b \in ready <=> Dist(FirstReady, b) < Dist(FirstReady, wpos)

TracerInPlace ==
  /\ At("store") => reader.buf = Following
  /\ ~At("gone") /\ ~At("seek") /\ ~At("store") => cpos = Following
  /\ At("bit") /\ past.skewed => reader.buf = cpos
  /\ Dumping => reader.buf = cpos
  /\ Dumping \/ At("begin") => cpos \in ready
  /\ Dumping \/ At("begin") \/ At("advance") => ~past.skewed

RingInv == Shape /\ (~past.met => RingIsInterval /\ TracerInPlace)

-----------------------------------------------------------------------------
(* (x + 1) % RTL_TNBUFFERS, which the kernel and the tracer step by.       *)
LEMMA StepAround == \A b \in Buffers : (b + 1) % NBuffers = After(b)
<1> SUFFICES ASSUME NEW b \in Buffers PROVE (b + 1) % NBuffers = After(b)
  OBVIOUS
<1>1. NBuffers \in Nat /\ NBuffers > 1 /\ b \in Nat /\ b < NBuffers
  BY TraceAssumption DEF Buffers
<1>2. CASE b + 1 = NBuffers
  BY <1>1, <1>2 DEF After
<1>3. CASE b + 1 # NBuffers
  BY <1>1, <1>3 DEF After
<1> QED
  BY <1>2, <1>3

LEMMA SeekFollows ==
  ASSUME ppos \in Buffers \cup {-1}
  PROVE  (ppos + 1) % NBuffers = Following /\ Following \in Buffers
<1>1. NBuffers \in Nat /\ NBuffers > 1
  BY TraceAssumption
<1>2. CASE ppos = -1
  BY <1>1, <1>2 DEF Following, Buffers
<1>3. CASE ppos \in Buffers
  BY <1>1, <1>3, StepAround DEF Following, After, Buffers
<1> QED
  BY <1>2, <1>3

(* Distances, for a ring of n buffers.                                     *)
LEMMA Around ==
  ASSUME NEW s \in Buffers, NEW w \in Buffers
  PROVE  /\ After(s) \in Buffers /\ After(s) # s
         /\ Dist(s, s) = 0 /\ Dist(s, w) \in 0 .. NBuffers - 1
         /\ Dist(s, w) = 0 <=> w = s
         /\ Dist(After(s), s) = NBuffers - 1
         /\ w # s => Dist(After(s), w) = Dist(s, w) - 1
         /\ After(w) # s => Dist(s, After(w)) = Dist(s, w) + 1
<1>1. NBuffers \in Nat /\ NBuffers > 1
  BY TraceAssumption
<1> QED
  BY <1>1 DEF After, Dist, Buffers

-----------------------------------------------------------------------------
LEMMA RingInit == Init => RingInv
<1> SUFFICES ASSUME Init PROVE RingInv
  OBVIOUS
<1>1. NBuffers \in Nat /\ NBuffers > 1
  BY TraceAssumption
<1>2. Shape
  BY <1>1 DEF Init, Shape, Gone, NoPast, Buffers, At
<1>3. FirstReady = 0
  BY DEF Init, FirstReady, At, Following, Gone, NoPast
<1>4. RingIsInterval
  BY <1>1, <1>3 DEF Init, RingIsInterval, Dist, Buffers
<1>5. TracerInPlace
  BY DEF Init, TracerInPlace, Dumping, At, Gone, NoPast
<1> QED
  BY <1>2, <1>4, <1>5 DEF RingInv

(* A step of the kernel that hands no buffer over.                         *)
LEMMA RingUntouched ==
  ASSUME RingInv, UNCHANGED <<ready, ppos, cpos, wpos, reader>>,
         DOMAIN past' = DOMAIN past,
         past'.skewed = past.skewed, past'.met = past.met
  PROVE  RingInv'
<1>1. Shape'
  BY DEF RingInv, Shape, At
<1>2. FirstReady' = FirstReady
  BY DEF FirstReady, Following, At
<1>3. ~past.met => RingIsInterval' /\ TracerInPlace'
  BY <1>2 DEF RingInv, RingIsInterval, TracerInPlace, Dumping, At, Following
<1> QED
  BY <1>1, <1>3 DEF RingInv

(* A step of a dump before it clears the bit.                              *)
LEMMA DumpGoesOn ==
  ASSUME RingInv, UNCHANGED <<ready, ppos, cpos, wpos>>,
         Dumping, Dumping', reader'.buf = reader.buf,
         DOMAIN reader' = DOMAIN reader, DOMAIN past' = DOMAIN past,
         past'.skewed = past.skewed, past'.met = past.met
  PROVE  RingInv'
<1>1. Shape'
  BY DEF RingInv, Shape, Dumping, At
<1>2. FirstReady' = FirstReady /\ Following' = Following
  BY DEF FirstReady, Following, At, Dumping
<1>3. ~past.met => RingIsInterval' /\ TracerInPlace'
  BY <1>2 DEF RingInv, RingIsInterval, TracerInPlace, Dumping, At
<1> QED
  BY <1>1, <1>3 DEF RingInv

(* rtl_trace_finalize: the bit of the buffer is clear already, and the     *)
(* first of the ready ones stops the kernel.                               *)
LEMMA FinalizeKeeps == RingInv /\ Finalize => RingInv'
<1> SUFFICES ASSUME RingInv, Finalize PROVE RingInv'
  OBVIOUS
<1>1. UNCHANGED <<ppos, cpos, reader>> /\ Shape
  BY DEF Finalize, RingInv
<1>2. DOMAIN past' = DOMAIN past /\ past'.skewed = past.skewed /\ past'.met = past.met
  BY <1>1 DEF Finalize, Overwrite, HandOver, Shape
<1>3. NextBuffer = After(wpos) /\ After(wpos) \in Buffers
  BY <1>1, StepAround, Around DEF NextBuffer, Shape
<1>4. FirstReady' = FirstReady /\ Following' = Following
  BY <1>1, <1>2 DEF FirstReady, Following, At
<1>5. FirstReady \in Buffers
  BY <1>1, SeekFollows, Around DEF FirstReady, Shape
<1>6. Shape'
  BY <1>1, <1>2, <1>3 DEF Finalize, Overwrite, HandOver, Shape, At
<1>7. ASSUME ~past.met PROVE RingIsInterval' /\ TracerInPlace'
  <2>1. RingIsInterval /\ TracerInPlace
    BY <1>7 DEF RingInv
  <2>2. wpos \notin ready
    BY <1>1, <1>5, <2>1, Around DEF RingIsInterval, Shape
  <2>3. CASE Overwrite
    BY <1>1, <1>2, <1>4, <2>1, <2>2, <2>3
       DEF Overwrite, RingIsInterval, TracerInPlace, Dumping, At
  <2>4. CASE HandOver
    <3>1. ready' = ready \cup {wpos} /\ wpos' = After(wpos)
      BY <1>3, <2>4 DEF HandOver
    <3>2. Dist(FirstReady, wpos) # 0 => FirstReady \in ready
      BY <1>1, <1>5, <2>1, Around DEF RingIsInterval, Shape
    <3>3. After(wpos) # FirstReady
      BY <1>1, <1>3, <1>5, <2>4, <3>2, Around DEF HandOver, Shape
    <3>4. Dist(FirstReady, After(wpos)) = Dist(FirstReady, wpos) + 1
      BY <1>1, <1>5, <3>3, Around DEF Shape
    <3>5. \A b \in Buffers : Dist(FirstReady, b) = Dist(FirstReady, wpos) => b = wpos
      BY <1>1, <1>5, TraceAssumption DEF Dist, Buffers, Shape
    <3>6. \A b \in Buffers : Dist(FirstReady, b) \in Nat
      BY <1>5, TraceAssumption DEF Dist, Buffers
    <3>7. ASSUME NEW b \in Buffers
          PROVE  b \in ready' <=> Dist(FirstReady, b) < Dist(FirstReady, wpos')
      <4>1. Dist(FirstReady, b) \in Nat /\ Dist(FirstReady, wpos) \in Nat
        BY <1>1, <3>6 DEF Shape
      <4>2. b \in ready <=> Dist(FirstReady, b) < Dist(FirstReady, wpos)
        BY <2>1 DEF RingIsInterval
      <4>3. Dist(FirstReady, wpos') = Dist(FirstReady, wpos) + 1
        BY <3>1, <3>4
      <4> QED
        BY <3>1, <3>5, <4>1, <4>2, <4>3
    <3>8. RingIsInterval'
      BY <1>4, <3>7 DEF RingIsInterval, Dist
    <3> QED
      BY <1>1, <1>2, <1>4, <2>1, <3>1, <3>8 DEF TracerInPlace, Dumping, At
  <2> QED
    BY <2>3, <2>4 DEF Finalize
<1> QED
  BY <1>2, <1>6, <1>7 DEF RingInv

(* init_module sets everything back.                                       *)
LEMMA LoadKeeps == RingInv /\ Load => RingInv'
<1> SUFFICES ASSUME RingInv, Load PROVE RingInv'
  OBVIOUS
<1>1. NBuffers \in Nat /\ NBuffers > 1
  BY TraceAssumption
<1>2. /\ DOMAIN past' = DOMAIN past /\ past'.skewed = FALSE
      /\ past'.met = (past.met \/ ~ReadsAfresh)
  BY DEF Load, RingInv, Shape
<1>3. UNCHANGED reader /\ ready' = {} /\ ppos' = -1 /\ cpos' = 0 /\ wpos' = 0
  BY DEF Load
<1>4. Shape'
  BY <1>1, <1>2, <1>3 DEF RingInv, Shape, Buffers, At
<1>5. ASSUME ~past'.met PROVE RingIsInterval' /\ TracerInPlace'
  <2>1. reader'.at \in {"gone", "seek", "test", "bit"}
    BY <1>2, <1>3, <1>5 DEF ReadsAfresh
  <2>2. Following' = 0 /\ FirstReady' = 0
    BY <1>2, <1>3, <2>1 DEF FirstReady, Following, At
  <2>3. RingIsInterval'
    BY <1>1, <1>3, <2>2 DEF RingIsInterval, Dist, Buffers
  <2> QED
    BY <1>2, <1>3, <2>1, <2>2, <2>3 DEF TracerInPlace, Dumping, At
<1> QED
  BY <1>4, <1>5 DEF RingInv

(* A signal between clearing the bit and storing reader_ppos leaves the    *)
(* ring as it is: it begins one buffer after the one a new tracer looks at.*)
LEMMA KillKeeps == RingInv /\ Kill => RingInv'
<1> SUFFICES ASSUME RingInv, Kill PROVE RingInv'
  OBVIOUS
<1>1. UNCHANGED <<ready, ppos, cpos, wpos>> /\ reader' = Gone
  BY DEF Kill, kernel
<1>2. /\ DOMAIN past' = DOMAIN past /\ past'.skewed = (past.skewed \/ At("advance"))
      /\ past'.met = past.met
  BY DEF Kill, RingInv, Shape
<1>3. Shape'
  BY <1>1, <1>2 DEF RingInv, Shape, Gone, At
<1>4. FirstReady' = FirstReady
  BY <1>1, <1>2 DEF FirstReady, Following, At, Gone
<1>5. ~past.met => RingIsInterval' /\ TracerInPlace'
  BY <1>1, <1>4 DEF RingInv, RingIsInterval, TracerInPlace, Dumping, At, Gone
<1> QED
  BY <1>2, <1>3, <1>5 DEF RingInv

-----------------------------------------------------------------------------
(* reader_cpos catches up with reader_ppos, and is loaded for the test.    *)
LEMMA SeekKeeps == RingInv /\ (Start \/ Seek \/ Store \/ Test) => RingInv'
<1> SUFFICES ASSUME RingInv, Start \/ Seek \/ Store \/ Test PROVE RingInv'
  OBVIOUS
<1>1. UNCHANGED <<ready, ppos, wpos, past>> /\ DOMAIN reader' = DOMAIN reader
  <2>1. CASE Start \/ Seek \/ Test
    BY <2>1 DEF Start, Seek, Test, Goto, kernel, RingInv, Shape
  <2>2. CASE Store
    BY <2>2 DEF Store, Gone, kernel, RingInv, Shape
  <2> QED
    BY <2>1, <2>2
<1>2. \/ At("gone") /\ reader'.at = "seek" /\ UNCHANGED cpos
      \/ At("seek") /\ reader'.at = "store" /\ reader'.buf = Following /\ UNCHANGED cpos
      \/ At("store") /\ reader'.at = "test" /\ cpos' = reader.buf
      \/ At("test") /\ reader'.at = "bit" /\ reader'.buf = cpos /\ UNCHANGED cpos
  <2>1. CASE Start \/ Seek \/ Test
    BY <2>1, SeekFollows DEF Start, Seek, Test, Goto, RingInv, Shape
  <2>2. CASE Store
    BY <2>2 DEF Store, Gone
  <2> QED
    BY <2>1, <2>2
<1>3. Shape'
  <2>1. Following \in Buffers
    BY SeekFollows DEF RingInv, Shape
  <2> QED
    BY <1>1, <1>2, <2>1 DEF RingInv, Shape, At
<1>4. FirstReady' = FirstReady /\ Following' = Following
  BY <1>1, <1>2 DEF FirstReady, Following, At
<1>5. ~past.met => RingIsInterval' /\ TracerInPlace'
  BY <1>1, <1>2, <1>4 DEF RingInv, RingIsInterval, TracerInPlace, Dumping, At
<1> QED
  BY <1>1, <1>3, <1>5 DEF RingInv

(* The bit: after a kill at the wrong place it is clear, since that buffer *)
(* is the last of the ring.  Otherwise, if any buffer is ready, the one at *)
(* reader_cpos is, which a load may have set back before the bit was read. *)
LEMMA BitKeeps == RingInv /\ Bit => RingInv'
<1> SUFFICES ASSUME RingInv, Bit PROVE RingInv'
  OBVIOUS
<1>1. UNCHANGED <<ready, ppos, cpos, wpos, past>> /\ At("bit") /\ Shape
  BY DEF Bit, kernel, RingInv
<1>3. /\ DOMAIN reader' = DOMAIN reader
      /\ \/ reader.buf \in ready /\ reader'.at = "begin"
         \/ reader.buf \notin ready /\ reader'.at = "seek"
  BY <1>1 DEF Bit, Gone, Shape
<1>4. Shape'
  BY <1>1, <1>3 DEF Shape, At
<1>5. FirstReady' = FirstReady /\ Following' = Following
  BY <1>1, <1>3 DEF FirstReady, Following, At
<1>6. ASSUME ~past.met PROVE RingIsInterval' /\ TracerInPlace'
  <2>1. RingIsInterval /\ cpos = Following /\ (past.skewed => reader.buf = cpos)
    BY <1>1, <1>6 DEF RingInv, TracerInPlace, At
  <2>2. past.skewed => cpos \notin ready
    <3> SUFFICES ASSUME past.skewed PROVE cpos \notin ready
      OBVIOUS
    <3>1. FirstReady = After(cpos)
      BY <2>1 DEF FirstReady
    <3>2. Dist(FirstReady, cpos) = NBuffers - 1 /\ Dist(FirstReady, wpos) \in 0 .. NBuffers - 1
      BY <1>1, <3>1, Around DEF Shape
    <3>3. ~(Dist(FirstReady, cpos) < Dist(FirstReady, wpos))
      BY <3>2, TraceAssumption
    <3> QED
      BY <1>1, <2>1, <3>3 DEF RingIsInterval, Shape
  <2>3. ~past.skewed /\ reader.buf \in ready => cpos \in ready
    <3> SUFFICES ASSUME ~past.skewed, reader.buf \in ready PROVE cpos \in ready
      OBVIOUS
    <3>1. FirstReady = cpos /\ cpos \in Buffers /\ wpos \in Buffers /\ reader.buf \in Buffers
      BY <1>1, <2>1 DEF FirstReady, Shape, At
    <3>2. /\ Dist(cpos, reader.buf) \in 0 .. NBuffers - 1 /\ Dist(cpos, wpos) \in 0 .. NBuffers - 1
          /\ Dist(cpos, cpos) = 0
      BY <3>1, Around
    <3>3. Dist(cpos, reader.buf) < Dist(cpos, wpos)
      BY <2>1, <3>1 DEF RingIsInterval
    <3>4. Dist(cpos, cpos) < Dist(cpos, wpos)
      BY <3>2, <3>3, TraceAssumption
    <3> QED
      BY <2>1, <3>1, <3>4 DEF RingIsInterval
  <2> QED
    BY <1>1, <1>3, <1>5, <2>1, <2>2, <2>3 DEF RingIsInterval, TracerInPlace, Dumping, At
<1> QED
  BY <1>1, <1>4, <1>6 DEF RingInv

(* The dump begins at reader_cpos.                                         *)
LEMMA BeginKeeps == RingInv /\ Begin => RingInv'
<1> SUFFICES ASSUME RingInv, Begin PROVE RingInv'
  OBVIOUS
<1>1. UNCHANGED <<ready, ppos, cpos, wpos>> /\ At("begin") /\ Shape
  BY DEF Begin, kernel, RingInv
<1>2. DOMAIN past' = DOMAIN past /\ past'.skewed = past.skewed /\ past'.met = past.met
  BY <1>1 DEF Begin, Shape
<1>3. DOMAIN reader' = DOMAIN reader /\ reader'.at = "dump" /\ reader'.buf = cpos
  BY <1>1 DEF Begin, Shape
<1>4. Shape'
  BY <1>1, <1>2, <1>3 DEF Shape, At
<1>5. FirstReady' = FirstReady /\ Following' = Following
  BY <1>1, <1>2, <1>3 DEF FirstReady, Following, At
<1>6. ~past.met => RingIsInterval' /\ TracerInPlace'
  BY <1>1, <1>2, <1>3, <1>5 DEF RingInv, RingIsInterval, TracerInPlace, Dumping, At
<1> QED
  BY <1>2, <1>4, <1>6 DEF RingInv

(* The bit is cleared: the ring begins one buffer later.                   *)
LEMMA ClearKeeps == RingInv /\ Clear => RingInv'
<1> SUFFICES ASSUME RingInv, Clear PROVE RingInv'
  OBVIOUS
<1>1. /\ UNCHANGED <<ppos, cpos, wpos, past>> /\ At("clear") /\ Shape
      /\ ready' = ready \ {cpos}
  BY DEF Clear, kernel, RingInv
<1>2. DOMAIN reader' = DOMAIN reader /\ reader'.at = "advance"
  BY <1>1 DEF Clear, Gone, Shape
<1>3. Shape'
  BY <1>1, <1>2 DEF Shape, At
<1>4. ASSUME ~past.met PROVE RingIsInterval' /\ TracerInPlace'
  <2>1. RingIsInterval /\ cpos = Following /\ cpos \in ready /\ ~past.skewed
    BY <1>1, <1>4 DEF RingInv, TracerInPlace, Dumping, At
  <2>2. FirstReady = cpos /\ FirstReady' = After(cpos)
    BY <1>1, <1>2, <2>1 DEF FirstReady, Following, At, After
  <2>3. wpos # cpos
    BY <1>1, <2>1, <2>2, Around DEF RingIsInterval, Shape
  <2>4. ASSUME NEW b \in Buffers
        PROVE  b \in ready' <=> Dist(After(cpos), b) < Dist(After(cpos), wpos)
    <3>1. b \in ready <=> Dist(cpos, b) < Dist(cpos, wpos)
      BY <2>1, <2>2 DEF RingIsInterval
    <3>2. /\ Dist(cpos, b) \in Int /\ Dist(cpos, wpos) \in 0 .. NBuffers - 1
          /\ Dist(After(cpos), wpos) = Dist(cpos, wpos) - 1
      BY <1>1, <2>3, Around DEF Shape
    <3>3. CASE b = cpos
      <4>1. Dist(After(cpos), b) = NBuffers - 1
        BY <1>1, <3>3, Around DEF Shape
      <4> QED
        BY <1>1, <3>2, <3>3, <4>1, TraceAssumption
    <3>4. CASE b # cpos
      <4>1. Dist(After(cpos), b) = Dist(cpos, b) - 1
        BY <1>1, <3>4, Around DEF Shape
      <4> QED
        BY <1>1, <3>1, <3>2, <3>4, <4>1
    <3> QED
      BY <3>3, <3>4
  <2>5. RingIsInterval'
    BY <1>1, <2>2, <2>4 DEF RingIsInterval, Dist
  <2> QED
    BY <1>1, <1>2, <2>1, <2>5 DEF TracerInPlace, Following, Dumping, At
<1> QED
  BY <1>1, <1>3, <1>4 DEF RingInv

(* reader_ppos catches up.                                                 *)
LEMMA AdvanceKeeps == RingInv /\ Advance => RingInv'
<1> SUFFICES ASSUME RingInv, Advance PROVE RingInv'
  OBVIOUS
<1>1. /\ UNCHANGED <<ready, cpos, wpos, past>> /\ At("advance") /\ Shape
      /\ ppos' = cpos /\ DOMAIN reader' = DOMAIN reader /\ reader'.at = "seek"
  BY DEF Advance, Goto, kernel, RingInv, Shape
<1>2. Shape'
  BY <1>1 DEF Shape, At
<1>3. ASSUME ~past.met PROVE RingIsInterval' /\ TracerInPlace'
  <2>1. RingIsInterval /\ cpos = Following /\ ~past.skewed
    BY <1>1, <1>3 DEF RingInv, TracerInPlace, Dumping, At
  <2>2. cpos # -1
    BY <1>1, TraceAssumption DEF Shape, Buffers
  <2>3. FirstReady = After(cpos) /\ FirstReady' = After(cpos)
    BY <1>1, <2>1, <2>2 DEF FirstReady, Following, At, After
  <2> QED
    BY <1>1, <2>1, <2>3 DEF RingIsInterval, TracerInPlace, Dumping, At, Dist
<1> QED
  BY <1>1, <1>2, <1>3 DEF RingInv

-----------------------------------------------------------------------------
LEMMA RingNext == RingInv /\ [Next]_vars => RingInv'
<1> SUFFICES ASSUME RingInv, [Next]_vars PROVE RingInv'
  OBVIOUS
<1>1. CASE DoTrace \/ Unload \/ UNCHANGED vars
  BY <1>1, RingUntouched DEF DoTrace, Unload, vars, RingInv, Shape
<1>2. CASE Finalize
  BY <1>2, FinalizeKeeps
<1>3. CASE Load
  BY <1>3, LoadKeeps
<1>4. CASE Start \/ Seek \/ Store \/ Test
  BY <1>4, SeekKeeps
<1>5. CASE Kill
  BY <1>5, KillKeeps
<1>6. CASE Bit \/ Begin
  BY <1>6, BitKeeps, BeginKeeps
<1>7. CASE DumpRecord \/ TakeLost \/ ZeroLost \/ PrintLost
  <2>1. UNCHANGED <<ready, ppos, cpos, wpos>> /\ Dumping /\ Dumping'
    <3>1. CASE TakeLost
      BY <3>1 DEF TakeLost, kernel, Dumping, At, RingInv, Shape
    <3>2. CASE DumpRecord
      BY <3>2 DEF DumpRecord, kernel, Dumping, At, RingInv, Shape
    <3>3. CASE ZeroLost
      BY <3>3 DEF ZeroLost, kernel, Dumping, At, Goto, RingInv, Shape
    <3>4. CASE PrintLost
      BY <3>4 DEF PrintLost, kernel, Dumping, At, RingInv, Shape
    <3> QED
      BY <1>7, <3>1, <3>2, <3>3, <3>4
  <2>2. reader'.buf = reader.buf /\ DOMAIN reader' = DOMAIN reader
    BY <1>7 DEF DumpRecord, TakeLost, ZeroLost, PrintLost, Goto, RingInv, Shape
  <2>3. DOMAIN past' = DOMAIN past /\ past'.skewed = past.skewed /\ past'.met = past.met
    <3>1. CASE TakeLost
      BY <3>1 DEF TakeLost
    <3>2. CASE DumpRecord
      BY <3>2 DEF DumpRecord, RingInv, Shape
    <3>3. CASE ZeroLost
      BY <3>3 DEF ZeroLost, RingInv, Shape
    <3>4. CASE PrintLost
      BY <3>4 DEF PrintLost, RingInv, Shape
    <3> QED
      BY <1>7, <3>1, <3>2, <3>3, <3>4
  <2> QED
    BY <2>1, <2>2, <2>3, DumpGoesOn
<1>8. CASE Clear
  BY <1>8, ClearKeeps
<1>9. CASE Advance
  BY <1>9, AdvanceKeeps
<1> QED
  BY <1>1, <1>2, <1>3, <1>4, <1>5, <1>6, <1>7, <1>8, <1>9 DEF Next, Tracer

LEMMA RingInvariant == Spec => []RingInv
BY RingInit, RingNext, PTL DEF Spec

(* rtl_trace_finalize and rtl_trace_dump: the kernel never records into    *)
(* the buffer that is being dumped.                                        *)
THEOREM KeptApart == Spec => []Apart
<1>1. ASSUME RingInv PROVE Apart
  <2> SUFFICES ASSUME Dumping, ~past.met PROVE reader.buf # wpos /\ reader.buf \in ready
    BY DEF Apart, Dumping
  <2>1. reader.buf = cpos /\ cpos \in ready /\ RingIsInterval
    BY <1>1 DEF RingInv, TracerInPlace
  <2>2. wpos \in Buffers /\ ready \subseteq Buffers
    BY <1>1 DEF RingInv, Shape
  <2>3. FirstReady \in Buffers
    BY <1>1, SeekFollows, Around DEF RingInv, Shape, FirstReady
  <2>4. Dist(FirstReady, wpos) \in Int
    BY <2>2, <2>3, Around
  <2> QED
    BY <2>1, <2>2, <2>4 DEF RingIsInterval
<1> QED
  BY <1>1, RingInvariant, PTL

(* The signal handler of tracer.c: after a kill between clearing a bit and *)
(* storing reader_ppos, no tracer gets past the test of that bit.          *)
THEOREM DeadOnceSkewed == Spec => []KilledForGood
<1>1. RingInv => KilledForGood
  BY DEF RingInv, Shape, TracerInPlace, KilledForGood, ReadsAfresh, Dumping, At
<1> QED
  BY <1>1, RingInvariant, PTL


-----------------------------------------------------------------------------
(* The types of what the dumps and the counts are about.                   *)
Cells == [trace : [Records -> Nat], pos : Records, len : 0 .. NRecords,
          stamp : Nat, overwritten : Nat]

ReaderTypes ==
  reader.buf \in Buffers /\ reader.s \in Records /\ reader.i \in Nat /\ reader.lost \in Nat

PastTypes ==
  /\ past.events \in Nat /\ past.last \in Nat
  /\ past.recent \in Seq(Nat) /\ Len(past.recent) <= NRecords /\ past.printed \in Seq(Nat)
  /\ past.meant \in [Buffers -> Seq(Nat)]

Types ==
  /\ buffers \in [Buffers -> Cells]
  /\ timestamp \in Nat /\ len \in 0 .. NRecords /\ cur \in Records
  /\ ReaderTypes /\ PastTypes

LEMMA NextRecordType == \A c \in Records : NextRecord(c) \in Records
BY TraceAssumption DEF NextRecord, Records

LEMMA CellTypes == \A b \in Cells : b.pos \in Records /\ b.len \in 0 .. NRecords
BY DEF Cells

LEMMA FirstRecordType == \A b \in Cells : FirstRecord(b) \in Records
<1> SUFFICES ASSUME NEW b \in Cells PROVE FirstRecord(b) \in Records
  OBVIOUS
<1>1. b.pos \in Records /\ b.len \in 0 .. NRecords
  BY CellTypes
<1> QED
  BY <1>1, TraceAssumption DEF FirstRecord, Records

LEMMA LatestType ==
  ASSUME NEW s \in Seq(Nat), Len(s) <= NRecords + 1
  PROVE  Latest(s) \in Seq(Nat) /\ Len(Latest(s)) <= NRecords
BY TraceAssumption DEF Latest

LEMMA TypesInit == Init => Types
<1>1. NBuffers \in Nat /\ NBuffers > 1 /\ NRecords \in Nat \ {0}
  BY TraceAssumption
<1> QED
  BY <1>1 DEF Init, Types, EmptyBuffer, Cells, Gone, ReaderTypes, NoPast, PastTypes,
     Buffers, Records

LEMMA DoTraceTypes == Shape /\ Types /\ DoTrace => Types'
<1> SUFFICES ASSUME Shape, Types, DoTrace PROVE Types'
  OBVIOUS
<1>1. reader' = reader /\ timestamp' = timestamp /\ wpos \in Buffers
  BY DEF DoTrace, Shape
<1>2. past.events + 1 \in Nat /\ past.recent \in Seq(Nat) /\ Len(past.recent) <= NRecords
  BY DEF Types, PastTypes
<1>3. buffers' \in [Buffers -> Cells]
  BY <1>1, <1>2 DEF DoTrace, Types, Cells
<1>4. /\ Append(past.recent, past.events + 1) \in Seq(Nat)
      /\ Len(Append(past.recent, past.events + 1)) <= NRecords + 1
  BY <1>2, TraceAssumption
<1>5. /\ Latest(Append(past.recent, past.events + 1)) \in Seq(Nat)
      /\ Len(Latest(Append(past.recent, past.events + 1))) <= NRecords
  BY <1>4, LatestType
<1>6. PastTypes'
  BY <1>2, <1>5 DEF DoTrace, Types, PastTypes, Shape
<1>7. len' \in 0 .. NRecords /\ cur' \in Records
  BY NextRecordType, TraceAssumption DEF DoTrace, Types
<1> QED
  BY <1>1, <1>3, <1>6, <1>7 DEF Types, ReaderTypes

LEMMA CellHandedOver ==
  ASSUME NEW c \in Cells, NEW t \in Nat, NEW n \in 0 .. NRecords, NEW p \in Records
  PROVE  [c EXCEPT !.stamp = t + 1, !.len = n, !.pos = p] \in Cells
<1>1. \A x \in Cells, v \in Nat : [x EXCEPT !.stamp = v] \in Cells
  BY DEF Cells
<1>2. \A x \in Cells : [x EXCEPT !.len = n] \in Cells
  BY DEF Cells
<1>3. \A x \in Cells : [x EXCEPT !.pos = p] \in Cells
  BY DEF Cells
<1>4. t + 1 \in Nat
  OBVIOUS
<1> QED
  BY <1>1, <1>2, <1>3, <1>4, Zenon

LEMMA FinalizeTypes == Shape /\ Types /\ Finalize => Types'
<1> SUFFICES ASSUME Shape, Types, Finalize PROVE Types'
  OBVIOUS
<1>1. reader' = reader /\ timestamp' \in Nat /\ wpos \in Buffers
  BY DEF Finalize, Types, Shape
<1>2. len' \in 0 .. NRecords /\ cur' \in Records
  BY TraceAssumption DEF Finalize, Records
<1>3. buffers[wpos] \in Cells
  BY <1>1 DEF Types
<1>4. buffers' \in [Buffers -> Cells]
  <2>1. CASE Overwrite
    BY <1>1, <1>3, <2>1 DEF Overwrite, Types, Cells
  <2>2. CASE HandOver
    <3>1. [buffers[wpos] EXCEPT !.stamp = timestamp + 1, !.len = len, !.pos = cur] \in Cells
      BY <1>3, CellHandedOver DEF Types
    <3>2. buffers' = [buffers EXCEPT ![wpos] =
                        [buffers[wpos] EXCEPT !.stamp = timestamp + 1, !.len = len, !.pos = cur]]
      BY <1>1, <2>2 DEF HandOver, Types
    <3> QED
      BY <3>1, <3>2 DEF Types
  <2> QED
    BY <2>1, <2>2 DEF Finalize
<1>5. PastTypes'
  <2>1. CASE Overwrite
    BY <2>1, TraceAssumption DEF Overwrite, Types, PastTypes, Shape
  <2>2. CASE HandOver
    BY <2>2, TraceAssumption DEF HandOver, Types, PastTypes, Shape
  <2> QED
    BY <2>1, <2>2 DEF Finalize
<1> QED
  BY <1>1, <1>2, <1>4, <1>5 DEF Types, ReaderTypes

LEMMA LoadTypes == Shape /\ Types /\ Load => Types'
<1> SUFFICES ASSUME Shape, Types, Load PROVE Types'
  OBVIOUS
<1>1. PastTypes'
  BY TraceAssumption DEF Load, Types, PastTypes, Shape
<1> QED
  BY <1>1, TraceAssumption DEF Types, ReaderTypes, Load, Records

LEMMA TracerTypes == Shape /\ Types /\ (Start \/ Kill \/ Tracer) => Types'
<1> SUFFICES ASSUME Shape, Types, Start \/ Kill \/ Tracer PROVE Types'
  OBVIOUS
<1>1. /\ reader.buf \in Buffers /\ cpos \in Buffers
      /\ buffers \in [Buffers -> Cells] /\ buffers[reader.buf] \in Cells /\ buffers[cpos] \in Cells
  BY DEF Types, ReaderTypes, Shape
<1>2. buffers' \in [Buffers -> Cells]
  <2>1. CASE ZeroLost
    BY <1>1, <2>1 DEF ZeroLost, Cells
  <2>2. CASE ~ZeroLost
    BY <1>1, <2>2 DEF Start, Kill, Tracer, Seek, Store, Test, Bit, Begin,
       DumpRecord, TakeLost, PrintLost, Clear, Advance
  <2> QED
    BY <2>1, <2>2
<1>3. ReaderTypes'
  <2>1. CASE Start \/ Test \/ ZeroLost \/ Advance
    BY <1>1, <2>1 DEF Start, Test, ZeroLost, Advance, Goto, ReaderTypes, Types, Shape
  <2>7. CASE Seek
    <3>1. (ppos + 1) % NBuffers \in Buffers
      BY SeekFollows DEF Shape
    <3> QED
      BY <2>7, <3>1 DEF Seek, ReaderTypes, Types, Shape
  <2>2. CASE Begin
    BY <1>1, <2>2, FirstRecordType DEF Begin, ReaderTypes, Types, Shape
  <2>3. CASE DumpRecord
    BY <1>1, <2>3, NextRecordType DEF DumpRecord, ReaderTypes, Types, Shape
  <2>4. CASE TakeLost
    BY <1>1, <2>4 DEF TakeLost, ReaderTypes, Types, Shape, Cells
  <2>5. CASE PrintLost
    BY <1>1, <2>5, TraceAssumption DEF PrintLost, ReaderTypes, Types, Shape, Records
  <2>6. CASE Kill \/ Clear \/ Store \/ Bit
    BY <1>1, <2>6, TraceAssumption DEF Kill, Clear, Store, Bit, Gone, ReaderTypes, Buffers, Records
  <2> QED
    BY <2>1, <2>2, <2>3, <2>4, <2>5, <2>6, <2>7 DEF Tracer
<1>4. PastTypes'
  <2>1. CASE Start \/ Seek \/ Store \/ Test \/ Bit \/ TakeLost \/ Clear \/ Advance
    BY <1>1, <2>1 DEF Start, Seek, Store, Test, Bit, TakeLost, Clear, Advance, Types, PastTypes
  <2>2. CASE Kill
    BY <1>1, <2>2 DEF Kill, Types, PastTypes, Shape
  <2>3. CASE Begin
    BY <2>3 DEF Begin, Types, PastTypes, Shape
  <2>6. CASE PrintLost
    BY <2>6 DEF PrintLost, Types, PastTypes, Shape
  <2>4. CASE ZeroLost
    BY <1>1, <2>4 DEF ZeroLost, Types, PastTypes, Shape, Cells
  <2>5. CASE DumpRecord
    <3>1. buffers[reader.buf].trace[reader.s] \in Nat
      BY <1>1 DEF Cells, ReaderTypes, Types
    <3> QED
      BY <1>1, <2>5, <3>1 DEF DumpRecord, Types, PastTypes, Shape
  <2> QED
    BY <2>1, <2>2, <2>3, <2>4, <2>5, <2>6 DEF Tracer
<1> QED
  BY <1>2, <1>3, <1>4 DEF Types, Start, Kill, Tracer, Seek, Store, Test, Bit, Begin,
     DumpRecord, TakeLost, ZeroLost, PrintLost, Clear, Advance, kernel

LEMMA TypesNext == Shape /\ Types /\ [Next]_vars => Types'
<1>1. Types /\ (Unload \/ UNCHANGED vars) => Types'
  BY DEF Unload, vars, Types, ReaderTypes, PastTypes
<1> QED
  BY <1>1, DoTraceTypes, FinalizeTypes, LoadTypes, TracerTypes DEF Next

-----------------------------------------------------------------------------
(* The stamps of the ready buffers and of the trace that is being recorded *)
(* grow along the ring, by one more for every trace that was lost before.  *)
StampOf(b) == IF b = wpos THEN timestamp + 1 ELSE buffers[b].stamp
LostBefore(b) == buffers[b].overwritten

(* The trace of b was dumped already, and its buffer not released.         *)
Again(b) == b \in ready /\ buffers[b].stamp = past.last /\ LostBefore(b) = 0

StampsChained ==
  /\ \A b \in ready : StampOf(After(b)) = buffers[b].stamp + 1 + LostBefore(After(b))
  /\ \A b \in Buffers \ ready : b # wpos => LostBefore(b) = 0
  /\ StampOf(FirstReady) = past.last + 1 + LostBefore(FirstReady) \/ Again(FirstReady)

LostTaken ==
  /\ At("zero") => reader.lost = LostBefore(reader.buf)
  /\ At("print") \/ At("clear") => Again(reader.buf)

GapsInv == ~past.met /\ ~past.stale => StampsChained /\ LostTaken

(* What RingInv says of the place of the tracer and of the kernel.         *)
LEMMA Places ==
  ASSUME RingInv, ~past.met
  PROVE  /\ FirstReady \in Buffers /\ wpos \in Buffers /\ ready \subseteq Buffers
         /\ wpos \notin ready
         /\ FirstReady = wpos \/ FirstReady \in ready
         /\ \A b \in ready : After(b) # FirstReady
         /\ Dumping => reader.buf = FirstReady /\ reader.buf \in ready /\ reader.buf = cpos
<1>1. Shape /\ RingIsInterval /\ TracerInPlace
  BY DEF RingInv
<1>2. FirstReady \in Buffers
  BY <1>1, SeekFollows, Around DEF FirstReady, Shape
<1>3. Dist(FirstReady, wpos) \in 0 .. NBuffers - 1 /\ Dist(FirstReady, FirstReady) = 0
      /\ (Dist(FirstReady, wpos) = 0 <=> wpos = FirstReady)
  BY <1>1, <1>2, Around DEF Shape
<1>4. wpos \notin ready /\ (FirstReady = wpos \/ FirstReady \in ready)
  BY <1>1, <1>2, <1>3 DEF RingIsInterval, Shape
<1>5. ASSUME NEW b \in ready, After(b) = FirstReady PROVE FALSE
  <2>1. b \in Buffers /\ Dist(FirstReady, b) = NBuffers - 1
    BY <1>1, <1>5, Around DEF Shape
  <2> QED
    BY <1>1, <1>3, <2>1, TraceAssumption DEF RingIsInterval
<1>6. Dumping => reader.buf = FirstReady /\ reader.buf \in ready /\ reader.buf = cpos
  BY <1>1 DEF TracerInPlace, Dumping, FirstReady, At
<1> QED
  BY <1>1, <1>2, <1>4, <1>5, <1>6 DEF Shape

(* Only clearing a bit and loading the module move the beginning of the    *)
(* ring.                                                                   *)
LEMMA FirstReadyStays ==
  ASSUME RingInv, ~past.met,
         \/ DoTrace \/ Finalize \/ Unload \/ UNCHANGED vars \/ Kill \/ Start \/ Seek \/ Store \/ Test
         \/ Bit \/ Begin \/ DumpRecord \/ TakeLost \/ ZeroLost \/ PrintLost \/ Advance
  PROVE  FirstReady' = FirstReady
<1>1. Shape /\ TracerInPlace
  BY DEF RingInv
<1>2. CASE DoTrace \/ Finalize \/ Unload \/ UNCHANGED vars
  <2>1. UNCHANGED <<ppos, reader>> /\ past'.skewed = past.skewed
    <3>1. CASE DoTrace
      BY <1>1, <3>1 DEF DoTrace, Shape
    <3>2. CASE Finalize
      BY <1>1, <3>2 DEF Finalize, Overwrite, HandOver, Shape
    <3>3. CASE Unload \/ UNCHANGED vars
      BY <3>3 DEF Unload, vars
    <3> QED
      BY <1>2, <3>1, <3>2, <3>3
  <2> QED
    BY <2>1 DEF FirstReady, Following, At
<1>3. CASE Kill
  BY <1>1, <1>3 DEF Kill, Gone, FirstReady, Following, At, Shape
<1>4. CASE Start \/ Seek \/ Test \/ TakeLost
  BY <1>1, <1>4 DEF Start, Seek, Test, TakeLost, Goto, FirstReady, Following, At, Shape
<1>5. CASE Store \/ Bit
  BY <1>1, <1>5 DEF Store, Bit, Gone, FirstReady, Following, At, Shape
<1>10. CASE Begin
  BY <1>1, <1>10 DEF Begin, FirstReady, Following, At, Shape
<1>9. CASE DumpRecord
  BY <1>1, <1>9 DEF DumpRecord, FirstReady, Following, At, Shape
<1>6. CASE ZeroLost
  BY <1>1, <1>6 DEF ZeroLost, Goto, FirstReady, Following, At, Shape
<1>7. CASE PrintLost
  BY <1>1, <1>7 DEF PrintLost, FirstReady, Following, At, Shape
<1>8. CASE Advance
  <2>1. cpos # -1 /\ cpos = Following /\ ~past.skewed
    BY <1>1, <1>8, TraceAssumption DEF Advance, TracerInPlace, Dumping, At, Shape, Buffers
  <2> QED
    BY <1>1, <1>8, <2>1 DEF Advance, Goto, FirstReady, Following, At, Shape
<1> QED
  BY <1>2, <1>3, <1>4, <1>5, <1>6, <1>7, <1>8, <1>9, <1>10

LEMMA GapsUntouched ==
  ASSUME RingInv, ~past.met, ~past.stale, GapsInv,
         UNCHANGED <<ready, wpos, timestamp>>, FirstReady' = FirstReady,
         \A b \in Buffers : /\ buffers'[b].stamp = buffers[b].stamp
                            /\ LostBefore(b)' = LostBefore(b),
         past'.last = past.last,
         LostTaken'
  PROVE  GapsInv'
<1>1. StampsChained
  BY DEF GapsInv
<1>2. FirstReady \in Buffers /\ ready \subseteq Buffers /\ \A b \in ready : After(b) \in Buffers
  BY Places, Around
<1>3. \A b \in Buffers : StampOf(b)' = StampOf(b)
  BY DEF StampOf
<1>4. \A b \in Buffers : buffers'[b].overwritten = buffers[b].overwritten
  BY DEF LostBefore
<1>5. StampsChained'
  BY <1>1, <1>2, <1>3, <1>4 DEF StampsChained, Again, StampOf, LostBefore
<1> QED
  BY <1>5 DEF GapsInv

(* rtl_trace_finalize: a lost trace adds one to the number of the current  *)
(* one and one to its buffer's count; a trace that is handed over gets its *)
(* number, and the next one starts in a buffer whose count is zero.        *)
LEMMA GapsFinalize ==
  ASSUME RingInv, ~past.met, ~past.stale, Types, GapsInv, Finalize
  PROVE  GapsInv'
<1>1. /\ StampsChained /\ LostTaken /\ reader' = reader /\ timestamp' = timestamp + 1
      /\ timestamp \in Nat /\ buffers \in [Buffers -> Cells]
  BY DEF GapsInv, Finalize, Types
<1>2. /\ FirstReady \in Buffers /\ wpos \in Buffers /\ ready \subseteq Buffers
      /\ wpos \notin ready
      /\ FirstReady = wpos \/ FirstReady \in ready
      /\ \A b \in ready : After(b) # FirstReady
      /\ Dumping => reader.buf \in ready
      /\ \A b \in Buffers : After(b) \in Buffers /\ After(b) # b
  BY Places, Around
<1>3. FirstReady' = FirstReady /\ past'.last = past.last
  <2>1. FirstReady' = FirstReady
    BY FirstReadyStays
  <2> QED
    BY <2>1 DEF Finalize, Overwrite, HandOver, RingInv, Shape
<1>4. NextBuffer = After(wpos)
  BY <1>2, StepAround DEF NextBuffer
<1>5. \A b \in Buffers : buffers[b].stamp \in Nat /\ LostBefore(b) \in Nat
  BY <1>1 DEF Cells, LostBefore
<1>6. At("zero") \/ At("print") \/ At("clear") => reader.buf \in ready
  BY <1>2 DEF Dumping
<1>7. CASE Overwrite
  <2>1. /\ ready' = ready /\ wpos' = wpos
        /\ \A b \in Buffers : /\ buffers'[b].stamp = buffers[b].stamp
                              /\ b # wpos => LostBefore(b)' = LostBefore(b)
        /\ LostBefore(wpos)' = LostBefore(wpos) + 1
    BY <1>1, <1>2, <1>7 DEF Overwrite, Cells, LostBefore
  <2>2. \A b \in Buffers : StampOf(b)' = IF b = wpos THEN StampOf(b) + 1 ELSE StampOf(b)
    BY <1>1, <2>1 DEF StampOf
  <2>3. \A b \in ready : StampOf(After(b))' = buffers'[b].stamp + 1 + LostBefore(After(b))'
    BY <1>1, <1>2, <1>5, <2>1, <2>2 DEF StampsChained, StampOf
  <2>4. \/ StampOf(FirstReady)' = past'.last + 1 + LostBefore(FirstReady)'
        \/ Again(FirstReady)'
    <3>1. CASE Again(FirstReady)
      BY <1>2, <1>3, <2>1, <3>1 DEF Again
    <3>2. CASE StampOf(FirstReady) = past.last + 1 + LostBefore(FirstReady)
      <4>1. past.last \in Nat
        BY DEF Types, PastTypes
      <4> QED
        BY <1>2, <1>3, <1>5, <2>1, <2>2, <3>2, <4>1
    <3> QED
      BY <1>1, <3>1, <3>2 DEF StampsChained
  <2>5. LostTaken'
    BY <1>1, <1>2, <1>3, <1>6, <2>1 DEF LostTaken, Again, At
  <2> QED
    BY <1>1, <1>3, <2>1, <2>3, <2>4, <2>5 DEF GapsInv, StampsChained, After
<1>8. CASE HandOver
  <2>1. /\ ready' = ready \cup {wpos} /\ wpos' = After(wpos) /\ After(wpos) \notin ready
        /\ \A b \in Buffers : /\ b # wpos => buffers'[b].stamp = buffers[b].stamp
                              /\ LostBefore(b)' = LostBefore(b)
        /\ buffers'[wpos].stamp = timestamp + 1
    BY <1>1, <1>2, <1>4, <1>8 DEF HandOver, Cells, LostBefore
  <2>2. \A b \in Buffers : StampOf(b)' = IF b = After(wpos) THEN timestamp + 2 ELSE StampOf(b)
    BY <1>1, <1>2, <2>1 DEF StampOf
  <2>3. LostBefore(After(wpos)) = 0
    BY <1>1, <1>2, <2>1 DEF StampsChained
  <2>4. \A b \in ready : After(b) # After(wpos)
    BY <1>2, TraceAssumption DEF After, Buffers
  <2>5. \A b \in ready' : StampOf(After(b))' = buffers'[b].stamp + 1 + LostBefore(After(b))'
    BY <1>1, <1>2, <2>1, <2>2, <2>3, <2>4 DEF StampsChained
  <2>6. FirstReady # After(wpos)
    BY <1>2, <2>1
  <2>7. \/ StampOf(FirstReady)' = past'.last + 1 + LostBefore(FirstReady)'
        \/ Again(FirstReady)'
    BY <1>1, <1>2, <1>3, <2>1, <2>2, <2>6 DEF StampsChained, Again
  <2>8. LostTaken'
    BY <1>1, <1>2, <1>3, <1>6, <2>1 DEF LostTaken, Again, At
  <2>9. \A b \in Buffers \ ready' : b # wpos' => LostBefore(b)' = 0
    BY <1>1, <2>1 DEF StampsChained
  <2> QED
    BY <1>3, <2>5, <2>7, <2>8, <2>9 DEF GapsInv, StampsChained, After
<1> QED
  BY <1>7, <1>8 DEF Finalize

(* init_module sets the numbers back; counts of lost traces that it finds  *)
(* make the history stale.                                                 *)
LEMMA GapsLoad == ASSUME RingInv, Types, GapsInv, Load PROVE GapsInv'
<1> SUFFICES ASSUME ~past'.met, ~past'.stale PROVE StampsChained' /\ LostTaken'
  BY DEF GapsInv
<1>1. /\ ready' = {} /\ ppos' = -1 /\ wpos' = 0 /\ timestamp' = 0 /\ buffers' = buffers
      /\ reader' = reader /\ past'.last = 0 /\ past'.skewed = FALSE
      /\ past'.met = (past.met \/ ~ReadsAfresh)
      /\ past'.stale = (past.stale \/ \E b \in Buffers : buffers[b].overwritten # 0)
  BY DEF Load, RingInv, Shape
<1>2. /\ reader.at \in {"gone", "seek", "test", "bit"}
      /\ \A b \in Buffers : LostBefore(b)' = 0
  BY <1>1 DEF LostBefore, ReadsAfresh
<1>3. FirstReady' = 0 /\ 0 \in Buffers
  BY <1>1, <1>2, TraceAssumption DEF FirstReady, Following, At, Buffers
<1>4. StampOf(0)' = 1
  BY <1>1 DEF StampOf
<1>5. StampsChained'
  BY <1>1, <1>2, <1>3, <1>4 DEF StampsChained
<1> QED
  BY <1>1, <1>2, <1>5 DEF LostTaken, At

(* Steps that leave the buffers, the ring and what was dumped last alone.  *)
LEMMA GapsSilent ==
  ASSUME RingInv, ~past.met, ~past.stale, Types, GapsInv,
         \/ DoTrace \/ Unload \/ UNCHANGED vars \/ Kill \/ Start \/ Seek \/ Store \/ Test
         \/ Bit \/ Begin \/ DumpRecord \/ TakeLost \/ PrintLost \/ Advance
  PROVE  GapsInv'
<1>1. /\ StampsChained /\ LostTaken /\ Shape /\ wpos \in Buffers
      /\ buffers \in [Buffers -> Cells]
  BY DEF GapsInv, RingInv, Shape, Types
<1>2. FirstReady' = FirstReady
  BY FirstReadyStays
<1>3. UNCHANGED <<ready, wpos, timestamp>>
  BY DEF DoTrace, Unload, vars, Kill, Start, Seek, Store, Test, Bit, Begin, DumpRecord,
     TakeLost, PrintLost, Advance, kernel
<1>4. past'.last = past.last
  <2>1. CASE DoTrace \/ DumpRecord
    BY <1>1, <2>1 DEF DoTrace, DumpRecord, Shape
  <2>2. CASE Kill \/ PrintLost \/ Begin
    BY <1>1, <2>2 DEF Kill, PrintLost, Begin, Shape
  <2>3. CASE ~DoTrace /\ ~DumpRecord /\ ~Kill /\ ~PrintLost /\ ~Begin
    BY <2>3 DEF Unload, vars, Start, Seek, Store, Test, Bit, TakeLost, Advance
  <2> QED
    BY <2>1, <2>2, <2>3
<1>5. \A b \in Buffers : /\ buffers'[b].stamp = buffers[b].stamp
                         /\ LostBefore(b)' = LostBefore(b)
  <2>1. CASE DoTrace
    BY <1>1, <2>1 DEF DoTrace, Cells, LostBefore
  <2>2. CASE ~DoTrace
    BY <2>2 DEF Unload, vars, Kill, Start, Seek, Store, Test, Bit, Begin, DumpRecord,
       TakeLost, PrintLost, Advance, LostBefore
  <2> QED
    BY <2>1, <2>2
<1>6. reader.buf \in Buffers
  BY DEF Types, ReaderTypes
<1>7. LostTaken'
  <2>1. CASE DoTrace \/ Unload \/ UNCHANGED vars
    <3>1. reader' = reader
      BY <2>1 DEF DoTrace, Unload, vars
    <3> QED
      BY <1>1, <1>3, <1>4, <1>5, <1>6, <3>1 DEF LostTaken, Again, At, LostBefore
  <2>2. CASE Kill \/ Start \/ Seek \/ Store \/ Test \/ Bit \/ Begin \/ DumpRecord \/ Advance
    <3>1. reader'.at \notin {"zero", "print", "clear"}
      <4>1. CASE Kill \/ Store \/ Bit \/ Begin
        BY <1>1, <4>1 DEF Kill, Gone, Store, Bit, Begin, Shape
      <4>2. CASE DumpRecord
        BY <1>1, <4>2 DEF DumpRecord, At, Shape
      <4>3. CASE Start \/ Seek \/ Test \/ Advance
        BY <1>1, <4>3 DEF Start, Seek, Test, Advance, Goto, Shape
      <4> QED
        BY <2>2, <4>1, <4>2, <4>3
    <3> QED
      BY <3>1 DEF LostTaken, At
  <2>3. CASE TakeLost
    <3>1. /\ reader'.at = "zero" /\ reader'.lost = LostBefore(reader.buf)
          /\ reader'.buf = reader.buf
      BY <1>1, <2>3 DEF TakeLost, LostBefore, Shape
    <3> QED
      BY <1>5, <1>6, <3>1 DEF LostTaken, At, LostBefore
  <2>4. CASE PrintLost
    <3>1. At("print") /\ reader'.at = "clear" /\ reader'.buf = reader.buf
      BY <1>1, <2>4 DEF PrintLost, Shape
    <3> QED
      BY <1>1, <1>3, <1>4, <1>5, <1>6, <3>1 DEF LostTaken, At, Again, LostBefore
  <2> QED
    BY <2>1, <2>2, <2>3, <2>4
<1> QED
  BY <1>2, <1>3, <1>4, <1>5, <1>7, GapsUntouched

(* rtl_trace_dump sets the count of its buffer back: until the bit is      *)
(* cleared it would dump the same trace again.                             *)
LEMMA GapsZero ==
  ASSUME RingInv, ~past.met, ~past.stale, Types, GapsInv, ZeroLost
  PROVE  GapsInv'
<1>1. /\ StampsChained /\ Shape /\ buffers \in [Buffers -> Cells] /\ At("zero")
  BY DEF GapsInv, RingInv, Types, ZeroLost
<1>2. /\ ready \subseteq Buffers
      /\ \A b \in ready : After(b) # FirstReady /\ After(b) \in Buffers
      /\ reader.buf = FirstReady /\ reader.buf \in ready /\ wpos \notin ready
  BY <1>1, Places, Around DEF Dumping
<1>3. FirstReady' = FirstReady
  BY FirstReadyStays
<1>4. /\ UNCHANGED <<ready, wpos, timestamp>> /\ reader'.buf = reader.buf /\ reader'.at = "print"
      /\ past'.last = buffers[reader.buf].stamp
      /\ \A b \in Buffers : /\ buffers'[b].stamp = buffers[b].stamp
                            /\ b # reader.buf => LostBefore(b)' = LostBefore(b)
      /\ LostBefore(reader.buf)' = 0
  BY <1>1, <1>2 DEF ZeroLost, Goto, kernel, Shape, Cells, LostBefore
<1>5. \A b \in Buffers : StampOf(b)' = StampOf(b)
  BY <1>4 DEF StampOf
<1>6. reader.buf \in ready' /\ buffers'[reader.buf].stamp = past'.last
      /\ buffers'[reader.buf].overwritten = 0
  BY <1>2, <1>4 DEF LostBefore
<1>7. Again(FirstReady)' /\ Again(reader.buf)'
  BY <1>2, <1>3, <1>4, <1>6 DEF Again, LostBefore
<1>8. LostTaken'
  BY <1>4, <1>6 DEF LostTaken, At, Again, LostBefore
<1>9. \A b \in ready : StampOf(After(b))' = buffers'[b].stamp + 1 + LostBefore(After(b))'
  BY <1>1, <1>2, <1>4, <1>5 DEF StampsChained
<1>10. \A b \in Buffers \ ready : b # wpos => LostBefore(b)' = 0
  BY <1>1, <1>4 DEF StampsChained
<1> QED
  BY <1>4, <1>7, <1>8, <1>9, <1>10 DEF GapsInv, StampsChained, After

(* The buffer is released: the ring begins after the trace dumped last.    *)
LEMMA GapsClear ==
  ASSUME RingInv, ~past.met, ~past.stale, Types, GapsInv, Clear
  PROVE  GapsInv'
<1>1. StampsChained /\ LostTaken /\ Shape /\ TracerInPlace /\ At("clear")
  BY DEF GapsInv, RingInv, Clear
<1>2. reader.buf = FirstReady /\ reader.buf \in ready /\ reader.buf = cpos /\ wpos \notin ready
      /\ After(cpos) \in Buffers /\ ready \subseteq Buffers
  BY <1>1, Places, Around DEF Dumping
<1>3. /\ ready' = ready \ {cpos} /\ reader'.at = "advance"
      /\ UNCHANGED <<buffers, wpos, ppos, timestamp, past>>
  BY <1>1 DEF Clear, Gone, kernel
<1>4. FirstReady = Following /\ FirstReady' = After(cpos)
  BY <1>1, <1>2, <1>3 DEF FirstReady, Following, TracerInPlace, Dumping, At, After
<1>5. /\ buffers[cpos].stamp = past.last /\ LostBefore(cpos) = 0
  BY <1>1, <1>2 DEF LostTaken, Again
<1>6. \A b \in Buffers : StampOf(b)' = StampOf(b) /\ LostBefore(b)' = LostBefore(b)
  BY <1>3 DEF StampOf, LostBefore
<1>7. StampOf(After(cpos)) = past.last + 1 + LostBefore(After(cpos))
  BY <1>1, <1>2, <1>5 DEF StampsChained
<1>8. StampOf(FirstReady)' = past'.last + 1 + LostBefore(FirstReady)'
  BY <1>2, <1>3, <1>4, <1>6, <1>7 DEF StampOf, LostBefore
<1>9. \A b \in ready' : StampOf(After(b))' = buffers'[b].stamp + 1 + LostBefore(After(b))'
  BY <1>1, <1>3 DEF StampsChained, StampOf, LostBefore
<1>10. \A b \in Buffers \ ready' : b # wpos' => LostBefore(b)' = 0
  BY <1>1, <1>3, <1>5, <1>6 DEF StampsChained
<1>11. LostTaken'
  BY <1>3 DEF LostTaken, At
<1> QED
  BY <1>8, <1>9, <1>10, <1>11 DEF GapsInv, StampsChained, After

(* Only loading the module makes the histories met and stale true.         *)
LEMMA MetStays ==
  ASSUME RingInv, [Next]_vars, ~Load
  PROVE  past'.met = past.met /\ past'.stale = past.stale
<1>1. Shape
  BY DEF RingInv
<1>2. CASE DoTrace \/ Finalize
  BY <1>1, <1>2 DEF DoTrace, Finalize, Overwrite, HandOver, Shape
<1>3. CASE Kill \/ Begin
  BY <1>1, <1>3 DEF Kill, Begin, Shape
<1>4. CASE DumpRecord
  BY <1>1, <1>4 DEF DumpRecord, Shape
<1>5. CASE ZeroLost \/ PrintLost
  BY <1>1, <1>5 DEF ZeroLost, PrintLost, Shape
<1>6. CASE \/ Unload \/ UNCHANGED vars \/ Start \/ Seek \/ Store \/ Test \/ Bit
            \/ TakeLost \/ Clear \/ Advance
  BY <1>6 DEF Unload, vars, Start, Seek, Store, Test, Bit, TakeLost, Clear, Advance
<1> QED
  BY <1>2, <1>3, <1>4, <1>5, <1>6 DEF Next, Tracer

LEMMA GapsNext == RingInv /\ Types /\ GapsInv /\ [Next]_vars => GapsInv'
<1> SUFFICES ASSUME RingInv, Types, GapsInv, [Next]_vars, ~past'.met, ~past'.stale
             PROVE  GapsInv'
  BY DEF GapsInv
<1>1. CASE Load
  BY <1>1, GapsLoad
<1>2. CASE ~Load
  <2>1. ~past.met /\ ~past.stale
    BY <1>2, MetStays
  <2> QED
    BY <1>2, <2>1, GapsFinalize, GapsSilent, GapsZero, GapsClear DEF Next, Tracer
<1> QED
  BY <1>1, <1>2

LEMMA GapsInit == Init => GapsInv
<1> SUFFICES ASSUME Init PROVE StampsChained /\ LostTaken
  BY DEF GapsInv
<1>1. /\ ready = {} /\ ppos = -1 /\ wpos = 0 /\ timestamp = 0 /\ reader.at = "gone"
      /\ past.last = 0 /\ past.skewed = FALSE
      /\ \A b \in Buffers : buffers[b].overwritten = 0
  BY DEF Init, Gone, NoPast, EmptyBuffer
<1>2. FirstReady = 0 /\ 0 \in Buffers
  BY <1>1, TraceAssumption DEF FirstReady, Following, At, Buffers
<1> QED
  BY <1>1, <1>2 DEF StampsChained, StampOf, LostBefore, LostTaken, At

LEMMA GapsInvariant == Spec => [](RingInv /\ Types /\ GapsInv)
<1>1. Init => RingInv /\ Types /\ GapsInv
  BY RingInit, TypesInit, GapsInit
<1>2. RingInv /\ Types /\ GapsInv /\ [Next]_vars => (RingInv /\ Types /\ GapsInv)'
  BY RingNext, TypesNext, GapsNext DEF RingInv
<1> QED
  BY <1>1, <1>2, PTL DEF Spec

(* "lost %lu traces befor this trace": traces are dumped in their order,   *)
(* and the number printed with one is the number of those missing before.  *)
THEOREM ReportsEveryGap == Spec => []GapsReported
<1>1. RingInv /\ Types /\ GapsInv => GapsReported
  <2> SUFFICES ASSUME RingInv, Types, GapsInv, At("zero"), ~past.met, ~past.stale
               PROVE  LET gap == buffers[reader.buf].stamp - past.last - 1
                      IN  gap >= -1 /\ reader.lost = IF gap = -1 THEN 0 ELSE gap
    BY DEF GapsReported
  <2>1. StampsChained /\ reader.lost = LostBefore(reader.buf)
    BY DEF GapsInv, LostTaken
  <2>2. reader.buf = FirstReady /\ reader.buf \in Buffers /\ wpos # reader.buf
    BY Places DEF Dumping
  <2>3. /\ buffers[reader.buf].stamp \in Nat /\ LostBefore(reader.buf) \in Nat
        /\ past.last \in Nat
    BY <2>2 DEF Types, PastTypes, Cells, LostBefore
  <2>4. StampOf(FirstReady) = buffers[reader.buf].stamp
    BY <2>2 DEF StampOf
  <2> QED
    BY <2>1, <2>2, <2>3, <2>4 DEF StampsChained, Again
<1> QED
  BY <1>1, GapsInvariant, PTL

-----------------------------------------------------------------------------
(* The records of a buffer: n of them before position p, oldest first, are *)
(* the sequence m.                                                         *)
Oldest(p, n) == IF p - n < 0 THEN p - n + NRecords ELSE p - n
Nth(s, k) == IF s + k - 1 >= NRecords THEN s + k - 1 - NRecords ELSE s + k - 1
Keeps(t, p, n, m) == Len(m) = n /\ \A k \in 1 .. n : m[k] = t[Nth(Oldest(p, n), k)]

Recording ==
  /\ Keeps(buffers[wpos].trace, cur, len, past.recent)
  /\ len < NRecords => cur = len

HandedOver ==
  \A b \in ready : Keeps(buffers[b].trace, buffers[b].pos, buffers[b].len, past.meant[b])

(* The loop of rtl_trace_dump has printed the first i of them.             *)
PrintedFirst ==
  LET b == buffers[reader.buf]
  IN  /\ reader.i <= b.len
      /\ reader.s = Nth(Oldest(b.pos, b.len), reader.i + 1)
      /\ Len(past.printed) = reader.i
      /\ \A k \in 1 .. reader.i : past.printed[k] = past.meant[reader.buf][k]

DumpInv ==
  ~past.met =>
    /\ Recording /\ HandedOver
    /\ At("dump") => PrintedFirst
    /\ At("zero") => past.printed = past.meant[reader.buf]

(* rtl_do_trace: the record goes behind the others, and over the oldest    *)
(* one when the buffer is full.                                            *)
LEMMA KeepsOneMore ==
  ASSUME NEW t \in [Records -> Nat], NEW p \in Records, NEW n \in 0 .. NRecords,
         NEW m \in Seq(Nat), NEW e \in Nat,
         Keeps(t, p, n, m), n < NRecords => p = n
  PROVE  LET n1 == IF n < NRecords THEN n + 1 ELSE n
         IN  /\ Keeps([t EXCEPT ![p] = e], NextRecord(p), n1, Latest(Append(m, e)))
             /\ n1 < NRecords => NextRecord(p) = n1
<1> DEFINE u == [t EXCEPT ![p] = e]
           q == NextRecord(p)
<1>1. /\ NRecords \in Nat \ {0} /\ n \in Nat /\ n <= NRecords /\ p \in Nat /\ p < NRecords
      /\ Len(m) = n /\ \A k \in 1 .. n : m[k] = t[Nth(Oldest(p, n), k)]
  BY TraceAssumption DEF Records, Keeps
<1>2. /\ Append(m, e) \in Seq(Nat) /\ Len(Append(m, e)) = n + 1
      /\ Append(m, e)[n + 1] = e /\ \A k \in 1 .. n : Append(m, e)[k] = m[k]
  BY <1>1
<1>3. u[p] = e /\ \A r \in Records : r # p => u[r] = t[r]
  OBVIOUS
<1>4. CASE n < NRecords
  <2>1. Latest(Append(m, e)) = Append(m, e)
    BY <1>1, <1>2, <1>4 DEF Latest
  <2>2. Oldest(p, n) = 0 /\ Oldest(q, n + 1) = 0 /\ (n + 1 < NRecords => q = n + 1)
    BY <1>1, <1>4 DEF Oldest, NextRecord
  <2>3. \A k \in 1 .. n + 1 : Nth(0, k) = k - 1
    BY <1>1, <1>4 DEF Nth
  <2>4. \A k \in 1 .. n : k - 1 \in Records /\ k - 1 # p
    BY <1>1, <1>4 DEF Records
  <2>5. ASSUME NEW k \in 1 .. n + 1 PROVE Append(m, e)[k] = u[Nth(Oldest(q, n + 1), k)]
    <3>1. CASE k = n + 1
      BY <1>1, <1>2, <1>3, <1>4, <2>2, <2>3, <3>1
    <3>2. CASE k # n + 1
      <4>1. k \in 1 .. n
        BY <1>1, <3>2
      <4>2. Append(m, e)[k] = t[k - 1]
        BY <1>1, <1>2, <2>2, <2>3, <4>1
      <4>3. u[k - 1] = t[k - 1]
        BY <1>3, <2>4, <4>1
      <4> QED
        BY <2>2, <2>3, <4>2, <4>3
    <3> QED
      BY <3>1, <3>2
  <2> QED
    BY <1>2, <1>4, <2>1, <2>2, <2>5 DEF Keeps
<1>5. CASE n = NRecords
  <2>1. Latest(Append(m, e)) = SubSeq(Append(m, e), 2, n + 1)
    BY <1>1, <1>2, <1>5 DEF Latest
  <2>2. /\ Len(Latest(Append(m, e))) = n
        /\ \A k \in 1 .. n : Latest(Append(m, e))[k] = Append(m, e)[k + 1]
    BY <1>1, <1>2, <2>1
  <2>3. Oldest(p, n) = p /\ q \in Nat /\ q < NRecords /\ Oldest(q, n) = q
    BY <1>1, <1>5 DEF Oldest, NextRecord
  <2>4. \A k \in 1 .. n - 1 : /\ Nth(q, k) = Nth(p, k + 1) /\ Nth(q, k) # p
                              /\ Nth(q, k) \in Records
    BY <1>1, <1>5, <2>3 DEF Nth, NextRecord, Records
  <2>5. Nth(q, n) = p
    BY <1>1, <1>5 DEF Nth, NextRecord
  <2>6. ASSUME NEW k \in 1 .. n PROVE Latest(Append(m, e))[k] = u[Nth(Oldest(q, n), k)]
    <3>1. CASE k = n
      BY <1>1, <1>2, <1>3, <2>2, <2>3, <2>5, <3>1
    <3>2. CASE k # n
      <4>1. k \in 1 .. n - 1 /\ k + 1 \in 1 .. n
        BY <1>1, <3>2
      <4>2. Latest(Append(m, e))[k] = t[Nth(p, k + 1)]
        BY <1>1, <1>2, <2>2, <2>3, <4>1
      <4> QED
        BY <1>3, <2>3, <2>4, <4>1, <4>2
    <3> QED
      BY <3>1, <3>2
  <2> QED
    BY <1>1, <1>5, <2>2, <2>6 DEF Keeps
<1> QED
  BY <1>1, <1>4, <1>5

(* The dump goes on with the next record.                                  *)
LEMMA NthNext ==
  ASSUME NEW s \in Records, NEW k \in 1 .. NRecords
  PROVE  Nth(s, 1) = s /\ NextRecord(Nth(s, k)) = Nth(s, k + 1)
BY TraceAssumption DEF Nth, NextRecord, Records

LEMMA OldestType ==
  ASSUME NEW b \in Cells
  PROVE  Oldest(b.pos, b.len) \in Records /\ FirstRecord(b) = Oldest(b.pos, b.len)
<1>1. b.pos \in Records /\ b.len \in 0 .. NRecords
  BY CellTypes
<1> QED
  BY <1>1, TraceAssumption DEF Oldest, FirstRecord, Records

-----------------------------------------------------------------------------
(* A new trace has no records yet.                                         *)
LEMMA NothingYet == len' = 0 /\ cur' = 0 /\ past'.recent = <<>> => Recording'
<1> SUFFICES ASSUME len' = 0, cur' = 0, past'.recent = <<>> PROVE Recording'
  OBVIOUS
<1>1. Keeps(buffers'[wpos'].trace, 0, 0, <<>>)
  BY DEF Keeps
<1> QED
  BY <1>1 DEF Recording

LEMMA DumpDoTrace ==
  ASSUME RingInv, ~past.met, Types, DumpInv, DoTrace
  PROVE  DumpInv'
<1>1. /\ Recording /\ HandedOver /\ Shape /\ UNCHANGED <<ready, wpos, reader>>
      /\ (At("dump") => PrintedFirst) /\ (At("zero") => past.printed = past.meant[reader.buf])
  BY DEF DumpInv, DoTrace, RingInv
<1>2. /\ wpos \in Buffers /\ ready \subseteq Buffers /\ wpos \notin ready
      /\ At("dump") \/ At("zero") => reader.buf \in ready
  BY Places DEF Dumping
<1>3. /\ buffers \in [Buffers -> Cells] /\ buffers[wpos].trace \in [Records -> Nat]
      /\ cur \in Records /\ len \in 0 .. NRecords
      /\ past.recent \in Seq(Nat) /\ past.events + 1 \in Nat
  <2>1. buffers \in [Buffers -> Cells] /\ buffers[wpos] \in Cells
    BY <1>2 DEF Types
  <2>2. buffers[wpos].trace \in [Records -> Nat]
    BY <2>1 DEF Cells
  <2>3. past.recent \in Seq(Nat) /\ past.events + 1 \in Nat
    BY DEF Types, PastTypes
  <2> QED
    BY <2>1, <2>2, <2>3 DEF Types
<1>4. /\ past'.recent = Latest(Append(past.recent, past.events + 1))
      /\ past'.meant = past.meant /\ past'.printed = past.printed
  BY <1>1 DEF DoTrace, Shape
<1>5. /\ buffers'[wpos].trace = [buffers[wpos].trace EXCEPT ![cur] = past.events + 1]
      /\ \A b \in Buffers : b # wpos => buffers'[b] = buffers[b]
  BY <1>2, <1>3 DEF DoTrace, Cells
<1>6. len' = (IF len < NRecords THEN len + 1 ELSE len) /\ cur' = NextRecord(cur)
  BY DEF DoTrace
<1>7. Recording'
  <2> DEFINE t == buffers[wpos].trace
             e == past.events + 1
             u == [t EXCEPT ![cur] = e]
             n1 == IF len < NRecords THEN len + 1 ELSE len
  <2>1. Keeps(t, cur, len, past.recent) /\ (len < NRecords => cur = len)
    BY <1>1 DEF Recording
  <2>2. t \in [Records -> Nat] /\ e \in Nat
    BY <1>3
  <2> HIDE DEF t, e
  <2>3. /\ Keeps(u, NextRecord(cur), n1, Latest(Append(past.recent, e)))
        /\ n1 < NRecords => NextRecord(cur) = n1
    BY <1>3, <2>1, <2>2, KeepsOneMore
  <2>4. /\ buffers'[wpos'].trace = u /\ cur' = NextRecord(cur) /\ len' = n1
        /\ past'.recent = Latest(Append(past.recent, e))
    BY <1>1, <1>4, <1>5, <1>6 DEF t, e
  <2> QED
    BY <2>3, <2>4 DEF Recording
<1>8. HandedOver'
  BY <1>1, <1>2, <1>4, <1>5 DEF HandedOver
<1>9. (At("dump") => PrintedFirst)' /\ (At("zero") => past.printed = past.meant[reader.buf])'
  BY <1>1, <1>2, <1>4, <1>5 DEF PrintedFirst, At
<1> QED
  BY <1>7, <1>8, <1>9 DEF DumpInv

LEMMA DumpFinalize ==
  ASSUME RingInv, ~past.met, Types, DumpInv, Finalize
  PROVE  DumpInv'
<1>1. /\ Recording /\ HandedOver /\ Shape /\ reader' = reader
      /\ (At("dump") => PrintedFirst) /\ (At("zero") => past.printed = past.meant[reader.buf])
  BY DEF DumpInv, Finalize, RingInv
<1>2. /\ wpos \in Buffers /\ ready \subseteq Buffers /\ wpos \notin ready
      /\ At("dump") \/ At("zero") => reader.buf \in ready
  BY Places DEF Dumping
<1>3. buffers \in [Buffers -> Cells] /\ past.meant \in [Buffers -> Seq(Nat)]
  BY DEF Types, PastTypes
<1>4. /\ len' = 0 /\ cur' = 0 /\ past'.recent = <<>> /\ past'.printed = past.printed
      /\ \A b \in Buffers : past'.meant[b] = IF b = wpos /\ HandOver THEN past.recent
                                             ELSE past.meant[b]
  <2>1. CASE Overwrite
    BY <1>1, <2>1 DEF Finalize, Overwrite, HandOver, Shape
  <2>2. CASE HandOver
    BY <1>1, <1>2, <1>3, <2>2 DEF Finalize, HandOver, Shape
  <2> QED
    BY <2>1, <2>2 DEF Finalize
<1>5. /\ ready' = IF HandOver THEN ready \cup {wpos} ELSE ready
      /\ \A b \in Buffers : /\ buffers'[b].trace = buffers[b].trace
                            /\ b # wpos => /\ buffers'[b].len = buffers[b].len
                                           /\ buffers'[b].pos = buffers[b].pos
      /\ HandOver => buffers'[wpos].len = len /\ buffers'[wpos].pos = cur
  <2>1. CASE Overwrite
    BY <1>2, <1>3, <2>1 DEF Overwrite, HandOver, Cells
  <2>2. CASE HandOver
    BY <1>2, <1>3, <2>2 DEF HandOver, Cells
  <2> QED
    BY <2>1, <2>2 DEF Finalize
<1>6. Recording'
  BY <1>4, NothingYet
<1>7. HandedOver'
  <2> SUFFICES ASSUME NEW b \in ready'
               PROVE  Keeps(buffers'[b].trace, buffers'[b].pos, buffers'[b].len, past'.meant[b])
    BY DEF HandedOver
  <2>1. CASE b \in ready
    BY <1>1, <1>2, <1>4, <1>5, <2>1 DEF HandedOver
  <2>2. CASE b \notin ready
    BY <1>1, <1>2, <1>4, <1>5, <2>2 DEF Recording
  <2> QED
    BY <2>1, <2>2
<1>8. (At("dump") => PrintedFirst)' /\ (At("zero") => past.printed = past.meant[reader.buf])'
  BY <1>1, <1>2, <1>4, <1>5 DEF PrintedFirst, At
<1> QED
  BY <1>6, <1>7, <1>8 DEF DumpInv

LEMMA DumpLoad == ASSUME RingInv, Load PROVE DumpInv'
<1>1. /\ ready' = {} /\ len' = 0 /\ cur' = 0 /\ reader' = reader /\ past'.recent = <<>>
      /\ past'.met = (past.met \/ ~ReadsAfresh)
  BY DEF Load, RingInv, Shape
<1>2. Recording' /\ HandedOver'
  BY <1>1, NothingYet DEF HandedOver
<1> QED
  BY <1>1, <1>2 DEF DumpInv, At, ReadsAfresh

(* The steps of the tracer and the others that record nothing.             *)
LEMMA DumpTracer ==
  ASSUME RingInv, ~past.met, Types, DumpInv,
         Unload \/ UNCHANGED vars \/ Kill \/ Start \/ Tracer
  PROVE  DumpInv'
<1>1. /\ Recording /\ HandedOver /\ Shape
      /\ (At("dump") => PrintedFirst) /\ (At("zero") => past.printed = past.meant[reader.buf])
      /\ buffers \in [Buffers -> Cells] /\ cpos \in Buffers /\ wpos \in Buffers
  BY DEF DumpInv, RingInv, Shape, Types
<1>2. ready \subseteq Buffers /\ (At("dump") => reader.buf \in ready)
  BY Places DEF Dumping
<1>3. reader.buf \in Buffers
  BY DEF Types, ReaderTypes
<1>4. UNCHANGED <<wpos, len, cur>> /\ ready' \subseteq ready
  BY DEF Unload, vars, Kill, Start, Tracer, Seek, Store, Test, Bit, Begin, DumpRecord,
     TakeLost, ZeroLost, PrintLost, Clear, Advance, kernel
<1>5. past'.recent = past.recent /\ past'.meant = past.meant
  <2>1. CASE \/ Unload \/ UNCHANGED vars \/ Start \/ Seek \/ Store \/ Test \/ Bit
              \/ TakeLost \/ Clear \/ Advance
    BY <2>1 DEF Unload, vars, Start, Seek, Store, Test, Bit, TakeLost, Clear, Advance
  <2>2. CASE Kill \/ Begin
    BY <1>1, <2>2 DEF Kill, Begin, Shape
  <2>3. CASE DumpRecord
    BY <1>1, <2>3 DEF DumpRecord, Shape
  <2>4. CASE ZeroLost \/ PrintLost
    BY <1>1, <2>4 DEF ZeroLost, PrintLost, Shape
  <2> QED
    BY <2>1, <2>2, <2>3, <2>4 DEF Tracer
<1>6. \A b \in Buffers : /\ buffers'[b].trace = buffers[b].trace
                         /\ buffers'[b].len = buffers[b].len
                         /\ buffers'[b].pos = buffers[b].pos
  <2>1. CASE ZeroLost
    BY <1>1, <1>3, <2>1 DEF ZeroLost, Cells
  <2>2. CASE ~ZeroLost
    BY <2>2 DEF Unload, vars, Kill, Start, Tracer, Seek, Store, Test, Bit, Begin, DumpRecord,
       TakeLost, PrintLost, Clear, Advance
  <2> QED
    BY <2>1, <2>2
<1>7. Recording' /\ HandedOver'
  BY <1>1, <1>2, <1>4, <1>5, <1>6 DEF Recording, HandedOver
<1>8. CASE Unload \/ UNCHANGED vars
  <2>1. UNCHANGED <<buffers, reader, past>>
    BY <1>8 DEF Unload, vars
  <2> QED
    BY <1>1, <1>7, <2>1 DEF DumpInv, PrintedFirst, At
<1>9. CASE \/ Kill \/ Start \/ Seek \/ Store \/ Test \/ Bit \/ ZeroLost \/ PrintLost
            \/ Clear \/ Advance
  <2>1. CASE Kill \/ Clear \/ Store \/ Bit
    BY <1>7, <2>1 DEF Kill, Clear, Store, Bit, Gone, DumpInv, At
  <2>2. CASE Start \/ Seek \/ Test \/ ZeroLost \/ Advance
    BY <1>1, <1>7, <2>2 DEF Start, Seek, Test, ZeroLost, Advance, Goto, DumpInv, At, Shape
  <2>3. CASE PrintLost
    BY <1>1, <1>7, <2>3 DEF PrintLost, DumpInv, At, Shape
  <2> QED
    BY <1>9, <2>1, <2>2, <2>3
<1>10. CASE Begin
  <2>1. past'.printed = <<>> /\ buffers' = buffers
    BY <1>1, <1>10 DEF Begin, Shape
  <2>2. /\ reader'.at = "dump" /\ reader'.buf = cpos /\ reader'.i = 0
        /\ reader'.s = FirstRecord(buffers[cpos])
    BY <1>10 DEF Begin
  <2>3. /\ buffers[cpos] \in Cells /\ buffers[cpos].len \in Nat
        /\ Oldest(buffers[cpos].pos, buffers[cpos].len) \in Records
        /\ FirstRecord(buffers[cpos]) = Oldest(buffers[cpos].pos, buffers[cpos].len)
    BY <1>1, OldestType DEF Cells
  <2>4. reader'.s = Nth(Oldest(buffers[cpos].pos, buffers[cpos].len), 1)
    BY <2>2, <2>3, NthNext, TraceAssumption
  <2>5. PrintedFirst'
    BY <2>1, <2>2, <2>3, <2>4 DEF PrintedFirst
  <2> QED
    BY <1>7, <2>2, <2>5 DEF DumpInv, At
<1>11. CASE DumpRecord
  <2> DEFINE b == buffers[reader.buf]
             o == Oldest(b.pos, b.len)
             m == past.meant[reader.buf]
  <2>1. /\ reader.i < b.len /\ reader'.at = "dump" /\ reader'.buf = reader.buf
        /\ reader'.i = reader.i + 1 /\ reader'.s = NextRecord(reader.s)
        /\ past'.printed = Append(past.printed, b.trace[reader.s]) /\ buffers' = buffers
    BY <1>1, <1>11 DEF DumpRecord, At, Shape
  <2>2. PrintedFirst /\ Keeps(b.trace, b.pos, b.len, m)
    BY <1>1, <1>2, <1>11 DEF DumpRecord, HandedOver
  <2>3. /\ b \in Cells /\ b.len \in 0 .. NRecords /\ reader.i \in Nat /\ o \in Records
        /\ past.printed \in Seq(Nat) /\ b.trace[reader.s] \in Nat
    <3>1. b \in Cells /\ reader.i \in Nat /\ reader.s \in Records /\ past.printed \in Seq(Nat)
      BY <1>1, <1>3 DEF Types, ReaderTypes, PastTypes
    <3>2. b.len \in 0 .. NRecords /\ o \in Records
      BY <3>1, CellTypes, OldestType
    <3>3. b.trace \in [Records -> Nat]
      BY <3>1 DEF Cells
    <3> QED
      BY <3>1, <3>2, <3>3
  <2> HIDE DEF b, o, m
  <2>4. reader.i + 1 \in 1 .. b.len /\ reader.i + 1 \in 1 .. NRecords
    <3> DEFINE i == reader.i
               n == b.len
    <3>1. i \in Nat /\ n \in 0 .. NRecords /\ i < n /\ NRecords \in Nat
      BY <2>1, <2>3, TraceAssumption
    <3> HIDE DEF i, n
    <3>2. i + 1 \in 1 .. n /\ i + 1 \in 1 .. NRecords
      BY <3>1
    <3> QED
      BY <3>2 DEF i, n
  <2>5. reader.s = Nth(o, reader.i + 1) /\ Len(past.printed) = reader.i
        /\ \A k \in 1 .. reader.i : past.printed[k] = m[k]
    BY <2>2 DEF PrintedFirst, b, o, m
  <2>6. m[reader.i + 1] = b.trace[reader.s]
    BY <2>2, <2>4, <2>5 DEF Keeps, o
  <2>7. reader'.s = Nth(o, reader'.i + 1)
    BY <2>1, <2>3, <2>4, <2>5, NthNext
  <2>8. Len(past'.printed) = reader'.i /\ \A k \in 1 .. reader'.i : past'.printed[k] = m[k]
    BY <2>1, <2>3, <2>5, <2>6
  <2>9. PrintedFirst'
    BY <1>5, <2>1, <2>3, <2>4, <2>7, <2>8 DEF PrintedFirst, b, o, m
  <2> QED
    BY <1>7, <2>1, <2>9 DEF DumpInv, At
<1>12. CASE TakeLost
  <2> DEFINE b == buffers[reader.buf]
             m == past.meant[reader.buf]
  <2>1. /\ reader.i >= b.len /\ reader'.at = "zero" /\ reader'.buf = reader.buf
        /\ past' = past /\ buffers' = buffers
    BY <1>1, <1>12 DEF TakeLost, Shape
  <2>2. PrintedFirst /\ Keeps(b.trace, b.pos, b.len, m)
    BY <1>1, <1>2, <1>12 DEF TakeLost, HandedOver
  <2>3. b.len \in Nat /\ reader.i \in Nat /\ past.printed \in Seq(Nat) /\ m \in Seq(Nat)
    <3>1. b \in Cells /\ past.meant \in [Buffers -> Seq(Nat)]
      BY <1>1, <1>3 DEF Types, PastTypes
    <3> HIDE DEF b
    <3>2. b.len \in Nat /\ reader.i \in Nat /\ past.printed \in Seq(Nat)
      BY <3>1 DEF Types, ReaderTypes, PastTypes, Cells
    <3> QED
      BY <1>3, <3>1, <3>2
  <2>4. reader.i = b.len
    BY <2>1, <2>2, <2>3 DEF PrintedFirst
  <2>5. Len(past.printed) = Len(m) /\ \A k \in 1 .. Len(m) : past.printed[k] = m[k]
    BY <2>2, <2>4 DEF PrintedFirst, Keeps
  <2> HIDE DEF m
  <2>6. past.printed = m
    BY <2>3, <2>5, SeqEqual
  <2> QED
    BY <1>7, <2>1, <2>6 DEF DumpInv, At, m
<1> QED
  BY <1>8, <1>9, <1>10, <1>11, <1>12 DEF Tracer

LEMMA DumpInit == Init => DumpInv
<1> SUFFICES ASSUME Init PROVE DumpInv
  OBVIOUS
<1>1. /\ ready = {} /\ len = 0 /\ cur = 0 /\ reader.at = "gone" /\ past.recent = <<>>
  BY DEF Init, Gone, NoPast
<1>2. Keeps(buffers[wpos].trace, 0, 0, <<>>)
  BY DEF Keeps
<1> QED
  BY <1>1, <1>2 DEF DumpInv, Recording, HandedOver, At

LEMMA DumpNext == RingInv /\ Types /\ DumpInv /\ [Next]_vars => DumpInv'
<1> SUFFICES ASSUME RingInv, Types, DumpInv, [Next]_vars, ~past'.met PROVE DumpInv'
  BY DEF DumpInv
<1>1. CASE Load
  BY <1>1, DumpLoad
<1>2. CASE ~Load
  <2>1. ~past.met
    BY <1>2, MetStays
  <2> QED
    BY <1>2, <2>1, DumpDoTrace, DumpFinalize, DumpTracer DEF Next
<1> QED
  BY <1>1, <1>2

(* "captures 500 events preceding the finalization point of a trace": a    *)
(* dump prints the latest events of its trace, oldest first.               *)
THEOREM DumpsTheLatest == Spec => []DumpsLatest
<1>1. Init => RingInv /\ Types /\ DumpInv
  BY RingInit, TypesInit, DumpInit
<1>2. RingInv /\ Types /\ DumpInv /\ [Next]_vars => (RingInv /\ Types /\ DumpInv)'
  BY RingNext, TypesNext, DumpNext DEF RingInv
<1>3. DumpInv => DumpsLatest
  BY DEF DumpInv, DumpsLatest
<1> QED
  BY <1>1, <1>2, <1>3, PTL DEF Spec

-----------------------------------------------------------------------------
(* The sum of the buffers' counts.                                         *)

LEMMA LeastNat ==
  ASSUME NEW S \in SUBSET Nat, S # {}
  PROVE  \E x \in S : \A y \in S : x <= y
<1> DEFINE Less == {p \in Nat \X Nat : p[1] < p[2]}
<1>1. IsWellFoundedOn(Less, Nat)
  BY NatLessThanWellFounded DEF OpToRel
<1> HIDE DEF Less
<1>2. PICK x \in S : \A y \in S : ~(<<y, x>> \in Less)
  BY <1>1, WFMin
<1>3. \A y \in S : x <= y
  <2> SUFFICES ASSUME NEW y \in S PROVE x <= y
    OBVIOUS
  <2>1. x \in Nat /\ y \in Nat
    OBVIOUS
  <2>2. y < x => <<y, x>> \in Less
    BY <2>1 DEF Less
  <2> QED
    BY <1>2, <2>1, <2>2
<1> QED
  BY <1>3

(* s are the sums of f up to m.                                            *)
SumsUpto(f, s, m) == s = [n \in 0 .. m |-> IF n = 0 THEN 0 ELSE s[n - 1] + f[n - 1]]

LEMMA SumsExist ==
  ASSUME NEW f, NEW m \in Nat
  PROVE  \E s : SumsUpto(f, s, m)
<1> DEFINE Lacking == {n \in Nat : ~ \E s : SumsUpto(f, s, n)}
<1>1. Lacking = {}
  <2> SUFFICES ASSUME Lacking # {} PROVE FALSE
    OBVIOUS
  <2>1. Lacking \in SUBSET Nat
    OBVIOUS
  <2>2. PICK n \in Lacking : \A x \in Lacking : n <= x
    BY <2>1, LeastNat
  <2>3. n \in Nat /\ ~ \E s : SumsUpto(f, s, n)
    OBVIOUS
  <2>4. n # 0
    <3> DEFINE e == [i \in 0 .. 0 |-> 0]
    <3>1. e = [i \in 0 .. 0 |-> IF i = 0 THEN 0 ELSE e[i - 1] + f[i - 1]]
      <4>1. \A i \in 0 .. 0 : i = 0
        OBVIOUS
      <4> QED
        BY <4>1
    <3> QED
      BY <2>3, <3>1 DEF SumsUpto
  <2>5. n - 1 \in Nat /\ ~(n <= n - 1)
    BY <2>3, <2>4
  <2>6. PICK s : SumsUpto(f, s, n - 1)
    BY <2>2, <2>5
  <2> DEFINE g == [i \in 0 .. n |-> IF i = 0 THEN 0 ELSE s[i - 1] + f[i - 1]]
  <2>7. \A i \in 0 .. n - 1 : g[i] = s[i]
    BY <2>3, <2>6 DEF SumsUpto
  <2>8. \A i \in 0 .. n : i # 0 => i - 1 \in 0 .. n - 1
    BY <2>3
  <2> HIDE DEF g
  <2>9. \A i \in 0 .. n : i # 0 => s[i - 1] + f[i - 1] = g[i - 1] + f[i - 1]
    BY <2>7, <2>8
  <2>10. g = [i \in 0 .. n |-> IF i = 0 THEN 0 ELSE g[i - 1] + f[i - 1]]
    BY <2>9 DEF g
  <2> QED
    BY <2>3, <2>10 DEF SumsUpto
<1> QED
  BY <1>1

LEMMA SumsAre ==
  ASSUME NEW f
  PROVE  /\ Sums(f)[0] = 0
         /\ \A n \in 1 .. NBuffers : Sums(f)[n] = Sums(f)[n - 1] + f[n - 1]
<1> DEFINE s == CHOOSE s : s = [n \in 0 .. NBuffers |-> IF n = 0 THEN 0 ELSE s[n - 1] + f[n - 1]]
<1>1. NBuffers \in Nat
  BY TraceAssumption
<1>2. s = [n \in 0 .. NBuffers |-> IF n = 0 THEN 0 ELSE s[n - 1] + f[n - 1]]
  BY <1>1, SumsExist DEF SumsUpto
<1>3. Sums(f) = s
  BY DEF Sums
<1> HIDE DEF s
<1>4. \A n \in 0 .. NBuffers : s[n] = IF n = 0 THEN 0 ELSE s[n - 1] + f[n - 1]
  BY <1>2
<1>5. s[0] = 0 /\ \A n \in 1 .. NBuffers : s[n] = s[n - 1] + f[n - 1]
  <2>1. 0 \in 0 .. NBuffers /\ \A n \in 1 .. NBuffers : n \in 0 .. NBuffers /\ n # 0
    BY <1>1
  <2> QED
    BY <1>4, <2>1
<1> QED
  BY <1>3, <1>5

LEMMA SumsType ==
  ASSUME NEW f \in [Buffers -> Nat]
  PROVE  \A n \in 0 .. NBuffers : Sums(f)[n] \in Nat
<1> DEFINE s == Sums(f)
           Wrong == {n \in 0 .. NBuffers : s[n] \notin Nat}
<1>1. NBuffers \in Nat
  BY TraceAssumption
<1>2. s[0] = 0 /\ \A n \in 1 .. NBuffers : s[n] = s[n - 1] + f[n - 1]
  BY SumsAre
<1> HIDE DEF s
<1>3. Wrong = {}
  <2> SUFFICES ASSUME Wrong # {} PROVE FALSE
    OBVIOUS
  <2>1. Wrong \in SUBSET Nat
    BY <1>1
  <2>2. PICK n \in Wrong : \A x \in Wrong : n <= x
    BY <2>1, LeastNat
  <2>3. n \in 0 .. NBuffers /\ s[n] \notin Nat
    OBVIOUS
  <2>4. n # 0
    BY <1>2, <2>3
  <2>5. n - 1 \in 0 .. NBuffers /\ n \in 1 .. NBuffers /\ ~(n <= n - 1) /\ n - 1 \in Buffers
    BY <1>1, <2>3, <2>4 DEF Buffers
  <2>6. s[n - 1] \in Nat
    BY <2>2, <2>5
  <2> QED
    BY <1>2, <2>3, <2>5, <2>6
<1> QED
  BY <1>3 DEF s

(* One buffer's count changes.                                             *)
LEMMA TotalChanges ==
  ASSUME NEW f \in [Buffers -> Nat], NEW g \in [Buffers -> Nat], NEW b \in Buffers,
         \A c \in Buffers : c # b => g[c] = f[c]
  PROVE  Total(f) \in Nat /\ Total(g) = Total(f) + g[b] - f[b]
<1> DEFINE s == Sums(f)
           t == Sums(g)
           More(n) == IF n > b THEN g[b] - f[b] ELSE 0
           Wrong == {n \in 0 .. NBuffers : t[n] # s[n] + More(n)}
<1>1. NBuffers \in Nat /\ b \in 0 .. NBuffers - 1
  BY TraceAssumption DEF Buffers
<1>2. /\ s[0] = 0 /\ \A n \in 1 .. NBuffers : s[n] = s[n - 1] + f[n - 1]
      /\ t[0] = 0 /\ \A n \in 1 .. NBuffers : t[n] = t[n - 1] + g[n - 1]
  BY SumsAre
<1>3. \A n \in 0 .. NBuffers : s[n] \in Nat /\ t[n] \in Nat
  BY SumsType
<1> HIDE DEF s, t
<1>4. Wrong = {}
  <2> SUFFICES ASSUME Wrong # {} PROVE FALSE
    OBVIOUS
  <2>1. Wrong \in SUBSET Nat
    BY <1>1
  <2>2. PICK n \in Wrong : \A x \in Wrong : n <= x
    BY <2>1, LeastNat
  <2>3. n \in 0 .. NBuffers /\ t[n] # s[n] + More(n)
    OBVIOUS
  <2>4. n # 0
    BY <1>1, <1>2, <2>3
  <2>5. n - 1 \in 0 .. NBuffers /\ n \in 1 .. NBuffers /\ ~(n <= n - 1) /\ n - 1 \in Buffers
    BY <1>1, <2>3, <2>4 DEF Buffers
  <2>6. t[n - 1] = s[n - 1] + More(n - 1)
    BY <2>2, <2>5
  <2>7. f[b] \in Nat /\ g[b] \in Nat /\ f[n - 1] \in Nat /\ g[n - 1] \in Nat
    BY <2>5
  <2>8. n - 1 # b => g[n - 1] = f[n - 1]
    BY <2>5
  <2>9. t[n] = t[n - 1] + g[n - 1] /\ s[n] = s[n - 1] + f[n - 1]
    BY <1>2, <2>5
  <2>10. s[n - 1] \in Nat /\ n \in Nat /\ b \in Nat
    BY <1>1, <1>3, <2>5
  <2>11. CASE n - 1 = b
    <3>1. More(n - 1) = 0 /\ More(n) = g[b] - f[b]
      BY <2>10, <2>11
    <3> HIDE DEF More
    <3> QED
      BY <2>3, <2>6, <2>7, <2>9, <2>10, <2>11, <3>1
  <2>12. CASE n - 1 # b
    <3>1. More(n - 1) = More(n) /\ More(n) \in Int
      BY <2>7, <2>10, <2>12
    <3> HIDE DEF More
    <3> QED
      BY <2>3, <2>6, <2>7, <2>8, <2>9, <2>10, <2>12, <3>1
  <2> QED
    BY <2>11, <2>12
<1>5. t[NBuffers] = s[NBuffers] + More(NBuffers)
  BY <1>1, <1>4
<1>6. f[b] \in Nat /\ g[b] \in Nat /\ s[NBuffers] \in Nat /\ More(NBuffers) = g[b] - f[b]
  BY <1>1, <1>3
<1> HIDE DEF More
<1> QED
  BY <1>5, <1>6 DEF Total, s, t

(* The count that a tracer has taken and will set back is still that of    *)
(* the buffer, which the kernel does not write meanwhile.                  *)
LossesInv ==
  ~past.met =>
    /\ past.owed = Total([b \in Buffers |-> buffers[b].overwritten])
                   + (IF At("print") THEN reader.lost ELSE 0)
    /\ At("zero") => reader.lost = buffers[reader.buf].overwritten

(* The counts are natural, and so is their sum.                            *)
LEMMA CountsType ==
  ASSUME Types
  PROVE  /\ [b \in Buffers |-> buffers[b].overwritten] \in [Buffers -> Nat]
         /\ Total([b \in Buffers |-> buffers[b].overwritten]) \in Nat
<1> DEFINE f == [b \in Buffers |-> buffers[b].overwritten]
<1>1. f \in [Buffers -> Nat]
  BY DEF Types, Cells
<1>2. NBuffers \in 0 .. NBuffers
  BY TraceAssumption
<1> HIDE DEF f
<1>3. Total(f) \in Nat
  BY <1>1, <1>2, SumsType DEF Total
<1> QED
  BY <1>1, <1>3 DEF f

(* The counts change by those of one buffer.                               *)
LEMMA CountChanges ==
  ASSUME Types, Types', NEW c \in Buffers,
         \A b \in Buffers : b # c => buffers'[b].overwritten = buffers[b].overwritten
  PROVE  Total([b \in Buffers |-> buffers'[b].overwritten])
           = Total([b \in Buffers |-> buffers[b].overwritten])
             + buffers'[c].overwritten - buffers[c].overwritten
<1> DEFINE f == [b \in Buffers |-> buffers[b].overwritten]
           g == [b \in Buffers |-> buffers'[b].overwritten]
<1>1. f \in [Buffers -> Nat] /\ g \in [Buffers -> Nat]
  BY DEF Types, Cells
<1>2. \A b \in Buffers : b # c => g[b] = f[b]
  OBVIOUS
<1>3. f[c] = buffers[c].overwritten /\ g[c] = buffers'[c].overwritten
  OBVIOUS
<1> HIDE DEF f, g
<1>4. Total(g) = Total(f) + g[c] - f[c]
  BY <1>1, <1>2, TotalChanges
<1> QED
  BY <1>3, <1>4 DEF f, g

(* Nothing that is counted changes.                                        *)
LEMMA LossesUntouched ==
  ASSUME LossesInv, ~past.met, past'.owed = past.owed, reader'.at # "zero",
         ~At("print"), reader'.at # "print",
         \A b \in Buffers : buffers'[b].overwritten = buffers[b].overwritten
  PROVE  LossesInv'
<1>1. [b \in Buffers |-> buffers'[b].overwritten] = [b \in Buffers |-> buffers[b].overwritten]
  OBVIOUS
<1> QED
  BY <1>1 DEF LossesInv, At

LEMMA LossesInit == Init => LossesInv
<1> SUFFICES ASSUME Init PROVE LossesInv
  OBVIOUS
<1> DEFINE f == [b \in Buffers |-> buffers[b].overwritten]
           s == Sums(f)
           Wrong == {n \in 0 .. NBuffers : s[n] # 0}
<1>1. NBuffers \in Nat
  BY TraceAssumption
<1>2. reader.at = "gone" /\ past.owed = 0 /\ \A b \in Buffers : f[b] = 0
  BY DEF Init, Gone, NoPast, EmptyBuffer
<1>3. s[0] = 0 /\ \A n \in 1 .. NBuffers : s[n] = s[n - 1] + f[n - 1]
  BY SumsAre
<1> HIDE DEF s, f
<1>4. Wrong = {}
  <2> SUFFICES ASSUME Wrong # {} PROVE FALSE
    OBVIOUS
  <2>1. Wrong \in SUBSET Nat
    BY <1>1
  <2>2. PICK n \in Wrong : \A x \in Wrong : n <= x
    BY <2>1, LeastNat
  <2>3. n \in 0 .. NBuffers /\ s[n] # 0
    OBVIOUS
  <2>4. n # 0
    BY <1>3, <2>3
  <2>5. n - 1 \in 0 .. NBuffers /\ n \in 1 .. NBuffers /\ ~(n <= n - 1) /\ n - 1 \in Buffers
    BY <1>1, <2>3, <2>4 DEF Buffers
  <2>6. s[n - 1] = 0 /\ f[n - 1] = 0
    BY <1>2, <2>2, <2>5
  <2> QED
    BY <1>3, <2>3, <2>5, <2>6
<1>5. Total(f) = 0
  BY <1>1, <1>4 DEF Total, s
<1> QED
  BY <1>2, <1>5 DEF LossesInv, At, f

(* rtl_trace_finalize: a lost trace is one more, and the buffer that a     *)
(* tracer is at is another.                                                *)
LEMMA LossesFinalize ==
  ASSUME RingInv, Types, Types', LossesInv, ~past.met, DoTrace \/ Finalize
  PROVE  LossesInv'
<1>1. /\ Shape /\ wpos \in Buffers /\ reader' = reader
      /\ buffers \in [Buffers -> Cells]
  BY DEF RingInv, Shape, DoTrace, Finalize, Types
<1>2. At("zero") => reader.buf # wpos /\ reader.buf \in Buffers
  BY Places DEF Dumping
<1> DEFINE T == Total([b \in Buffers |-> buffers[b].overwritten])
           T2 == Total([b \in Buffers |-> buffers'[b].overwritten])
<1>3. /\ past.owed = T + (IF At("print") THEN reader.lost ELSE 0)
      /\ At("zero") => reader.lost = buffers[reader.buf].overwritten
  BY DEF LossesInv
<1>4. T \in Nat /\ reader.lost \in Nat /\ buffers[wpos].overwritten \in Nat
  BY <1>1, CountsType DEF Types, ReaderTypes, Cells
<1>5. \A b \in Buffers : b # wpos => buffers'[b].overwritten = buffers[b].overwritten
  BY <1>1 DEF DoTrace, Finalize, Overwrite, HandOver
<1>6. T2 = T + buffers'[wpos].overwritten - buffers[wpos].overwritten
  BY <1>1, <1>5, CountChanges
<1>7. \/ past'.owed = past.owed + 1
         /\ buffers'[wpos].overwritten = buffers[wpos].overwritten + 1
      \/ past'.owed = past.owed
         /\ buffers'[wpos].overwritten = buffers[wpos].overwritten
  <2>1. CASE DoTrace
    BY <1>1, <2>1 DEF DoTrace, Shape, Cells
  <2>2. CASE Finalize /\ Overwrite
    BY <1>1, <2>2 DEF Overwrite, Shape, Cells
  <2>3. CASE Finalize /\ HandOver
    BY <1>1, <2>3 DEF HandOver, Shape, Cells
  <2> QED
    BY <2>1, <2>2, <2>3 DEF Finalize
<1>8. At("zero") => buffers'[reader.buf].overwritten = buffers[reader.buf].overwritten
  BY <1>2, <1>5
<1> HIDE DEF T, T2
<1>9. past'.owed = T2 + (IF At("print") THEN reader.lost ELSE 0)
  BY <1>3, <1>4, <1>6, <1>7
<1> QED
  BY <1>1, <1>3, <1>8, <1>9 DEF LossesInv, At, T2

(* The tracer takes the count, sets it back and prints it.                 *)
LEMMA LossesTracer ==
  ASSUME RingInv, Types, Types', LossesInv, ~past.met, Start \/ Kill \/ Tracer
  PROVE  LossesInv'
<1> DEFINE T == Total([b \in Buffers |-> buffers[b].overwritten])
           T2 == Total([b \in Buffers |-> buffers'[b].overwritten])
<1>1. Shape /\ buffers \in [Buffers -> Cells] /\ reader.lost \in Nat /\ T \in Nat
  BY CountsType DEF RingInv, Types, ReaderTypes
<1>2. /\ past.owed = T + (IF At("print") THEN reader.lost ELSE 0)
      /\ At("zero") => reader.lost = buffers[reader.buf].overwritten
  BY DEF LossesInv
<1>3. CASE Start \/ Seek \/ Store \/ Test \/ Bit \/ DumpRecord \/ Clear \/ Advance
  <2>1. /\ buffers' = buffers /\ past'.owed = past.owed /\ ~At("print")
        /\ reader'.at \notin {"zero", "print"}
    BY <1>1, <1>3 DEF Start, Seek, Store, Test, Bit, DumpRecord, Clear, Advance, Goto, Gone,
       At, Shape
  <2> QED
    BY <2>1, LossesUntouched
<1>4. CASE Begin
  <2>1. /\ buffers' = buffers /\ past'.owed = past.owed /\ ~At("print")
        /\ reader'.at = "dump"
    BY <1>1, <1>4 DEF Begin, At, Shape
  <2> QED
    BY <2>1, LossesUntouched
<1>5. CASE Kill
  <2>1. /\ buffers' = buffers /\ reader'.at = "gone"
        /\ past'.owed = IF At("print") THEN past.owed - reader.lost ELSE past.owed
    BY <1>1, <1>5 DEF Kill, Gone, Shape
  <2>2. T2 = T
    BY <2>1
  <2> HIDE DEF T, T2
  <2>3. past'.owed = T2
    BY <1>1, <1>2, <2>1, <2>2
  <2>4. past'.owed \in Nat /\ T2 + 0 = T2
    BY <1>1, <2>2, <2>3
  <2> QED
    BY <2>1, <2>3, <2>4 DEF LossesInv, At, T2
<1>6. CASE TakeLost
  <2>1. /\ buffers' = buffers /\ past' = past /\ ~At("print")
        /\ reader'.at = "zero" /\ reader'.buf = reader.buf
        /\ reader'.lost = buffers[reader.buf].overwritten
    BY <1>1, <1>6 DEF TakeLost, At, Shape
  <2> QED
    BY <1>2, <2>1 DEF LossesInv, At
<1>7. CASE ZeroLost
  <2>1. reader.buf \in Buffers /\ At("zero") /\ ~At("print")
    BY <1>7 DEF ZeroLost, At, Types, ReaderTypes
  <2>2. /\ reader'.at = "print" /\ reader'.lost = reader.lost /\ past'.owed = past.owed
        /\ buffers' = [buffers EXCEPT ![reader.buf].overwritten = 0]
    BY <1>1, <1>7 DEF ZeroLost, Goto, Shape
  <2>3. /\ buffers'[reader.buf].overwritten = 0
        /\ \A b \in Buffers : b # reader.buf
             => buffers'[b].overwritten = buffers[b].overwritten
    BY <1>1, <2>1, <2>2 DEF Cells
  <2>4. T2 = T + 0 - buffers[reader.buf].overwritten
    BY <2>1, <2>3, CountChanges
  <2> HIDE DEF T, T2
  <2>5. past'.owed = T2 + reader.lost
    BY <1>1, <1>2, <2>1, <2>2, <2>4
  <2> QED
    BY <2>2, <2>5 DEF LossesInv, At, T2
<1>8. CASE PrintLost
  <2>1. /\ buffers' = buffers /\ past'.owed = past.owed - reader.lost /\ At("print")
        /\ reader'.at = "clear"
    BY <1>1, <1>8 DEF PrintLost, Shape
  <2>2. T2 = T
    BY <2>1
  <2> HIDE DEF T, T2
  <2>3. past'.owed = T2 + 0
    BY <1>1, <1>2, <2>1, <2>2
  <2> QED
    BY <2>1, <2>3 DEF LossesInv, At, T2
<1> QED
  BY <1>3, <1>4, <1>5, <1>6, <1>7, <1>8 DEF Tracer

LEMMA LossesNext == RingInv /\ Types /\ LossesInv /\ [Next]_vars => LossesInv'
<1> SUFFICES ASSUME RingInv, Types, LossesInv, [Next]_vars, ~past'.met PROVE LossesInv'
  BY DEF LossesInv
<1>1. Shape /\ Types'
  BY TypesNext DEF RingInv
<1>2. CASE Load
  <2>1. ~past.met /\ reader.at \in {"gone", "seek", "test", "bit"}
    BY <1>1, <1>2 DEF Load, Shape, ReadsAfresh
  <2>2. buffers' = buffers /\ reader' = reader /\ past'.owed = past.owed
    BY <1>1, <1>2 DEF Load, Shape
  <2> QED
    BY <2>1, <2>2, LossesUntouched DEF At
<1>3. CASE ~Load
  <2>1. ~past.met
    BY <1>3, MetStays
  <2>2. CASE Unload \/ UNCHANGED vars
    BY <2>1, <2>2 DEF Unload, vars, LossesInv, At
  <2> QED
    BY <1>1, <1>3, <2>1, <2>2, LossesFinalize, LossesTracer DEF Next
<1> QED
  BY <1>2, <1>3

(* The overwritten counts of the buffers: every lost trace is printed      *)
(* once, or is still counted in a buffer or held by the tracer.            *)
THEOREM CountsEveryLoss == Spec => []LossesCounted
<1>1. Init => RingInv /\ Types /\ LossesInv
  BY RingInit, TypesInit, LossesInit
<1>2. RingInv /\ Types /\ LossesInv /\ [Next]_vars => (RingInv /\ Types /\ LossesInv)'
  BY RingNext, TypesNext, LossesNext DEF RingInv
<1>3. LossesInv => LossesCounted
  BY DEF LossesInv, LossesCounted
<1> QED
  BY <1>1, <1>2, <1>3, PTL DEF Spec
=============================================================================
