------------------------------ MODULE XmSerial ------------------------------
(***************************************************************************)
(* One direction of the serial line between two machines: clients write    *)
(* into their out FIFOs, the driver domain user_tools/serial/serial.c      *)
(* sends packets, and the same driver on the other machine delivers them   *)
(* to in FIFOs.  A packet is the number of the destination's line and at   *)
(* most UART_PACK_SIZE - 1 bytes; where it begins and ends is told by the  *)
(* modem lines (MCR on this side, MSR on the other), not by the bytes.     *)
(*                                                                         *)
(* The driver's handler runs with interrupts on: a client above it may run *)
(* between any two of its steps, while a client below it, and Linux, runs  *)
(* only when the handler is left.  FIFOs have one writer and one reader,   *)
(* whose copies end with one store of top or bom, and are one step each.   *)
(*                                                                         *)
(* Of the UART the model has the transmitter's holding and shift registers *)
(* and the receiver's FIFO.  A receiving driver that is on time takes each *)
(* byte before anything else happens on the line, and sees a change of the *)
(* modem lines before a byte that starts after it has arrived.  One that a *)
(* domain above it delays finds bytes in the UART's FIFO, and takes all of *)
(* them before it looks at the modem lines.                                *)
(***************************************************************************)
EXTENDS Integers, Sequences, FiniteSets, Functions

CONSTANTS
  Lines,    (* virtual lines, each with the line of this number as its peer *)
  Above,    (* the lines whose clients run above the driver                *)
  Prio,     (* prio of each line's out FIFO, 0 the highest                 *)
  Payload,  (* UART_PACK_SIZE - 1                                          *)
  Size,     (* bytes of a FIFO, one of which stays free                    *)
  Data(_, _),  (* what the n-th byte of a line's client is                 *)
  UartSize, (* bytes of the UART's receive FIFO                            *)
  Writes,   (* bound: how many bytes each client writes at once          *)
  MaxBytes, (* bound: bytes that each client writes                        *)
  MaxLate   (* bound: bytes that a delayed receiver leaves in the UART     *)

ASSUME SerialAssumption ==
  /\ Lines \subseteq Nat /\ IsFiniteSet(Lines) /\ Above \subseteq Lines
  /\ Prio \in [Lines -> Nat]
  /\ {Payload, Size, UartSize} \subseteq Nat \ {0}
  /\ MaxBytes \in [Lines -> Nat] /\ MaxLate \in Nat
  /\ Writes \in [Lines -> SUBSET (Nat \ {0})]

VARIABLES
  wrote,    (* bytes each client has written                               *)
  step,     (* how far each client is with rt_serial_write                 *)
  out,      (* what is in each out FIFO                                    *)
  tx,       (* where the sending driver's handler is                       *)
  uout,     (* what the driver has not sent of its packet                  *)
  ie,       (* the THRE interrupt is enabled in IER                        *)
  mcr,      (* the modem lines: a packet is being sent, or not             *)
  thr,      (* the holding register, <<>> if empty                         *)
  shift,    (* the byte on the line                                        *)
  delta,    (* a change of the modem lines the receiver has not seen       *)
  due,      (* that change is older than the byte on the line              *)
  rx,       (* what the receiver's UART has and the driver has not taken   *)
  msc,      (* IIR has told the receiving driver of a change               *)
  uin,      (* the receiving driver's packet                               *)
  in,       (* the in FIFOs: top, and the bytes between bom and top        *)
  got,      (* history: the last byte each reader has read of its peer     *)
  overtook, (* history: a client above the driver wrote between the        *)
            (* driver's look at the FIFOs and its store to IER             *)
  late,     (* history: how many bytes the receiver has left in the UART    *)
  overran   (* history: a packet was copied across the end of a FIFO       *)

sender == <<wrote, step, out, tx, uout, ie, mcr, thr, overtook>>
receiver == <<rx, msc, uin, in, got, late, overran>>
serialVars == <<sender, shift, delta, due, receiver>>

(* The n-th byte of line v's client, the i-th of a packet of len bytes, or *)
(* the number of line v that begins a packet.                              *)
Byte(v, n, i, len) == [of |-> v, n |-> n, i |-> i, len |-> len]
Number(v) == Byte(v, 0, 0, 0)

ClientBusy(v) == step[v] # "idle"
MayRun(v) == IF v \in Above THEN TRUE
             ELSE tx = "out" /\ \A w \in Above : ~ClientBusy(w)
DriverMayRun == \A w \in Above : ~ClientBusy(w)

-----------------------------------------------------------------------------
(* rt_serial_write, linux_uart_write: all of the bytes or none (-ENOMEM)   *)
(* go into the FIFO, then IER and then MCR are written.                    *)
Put(v, k) ==
  /\ MayRun(v) /\ step[v] = "idle"
  /\ wrote[v] + k <= MaxBytes[v] /\ Len(out[v]) + k < Size
  /\ wrote' = [wrote EXCEPT ![v] = @ + k]
  /\ out' = [out EXCEPT ![v] = @ \o [j \in 1 .. k |-> wrote[v] + j]]
  /\ step' = [step EXCEPT ![v] = "ier"]
  /\ overtook' = (overtook \/ tx = "clear")
  /\ UNCHANGED <<tx, uout, ie, mcr, thr, shift, delta, due, receiver>>

(* A change of MCR is a change of the other side's MSR.                    *)
SetModem(m) == mcr' = m /\ delta' = (delta \/ mcr # m)

(* Mutant: IER is not written while the driver sends.                      *)
EnableLazily(v) ==
  /\ MayRun(v) /\ step[v] = "ier"
  /\ ie' = (ie \/ thr # <<>>)
  /\ step' = [step EXCEPT ![v] = "mcr"]
  /\ UNCHANGED <<wrote, out, tx, uout, mcr, thr, overtook, shift, delta, due, receiver>>

EnableTHE(v) ==
  /\ MayRun(v) /\ step[v] = "ier"
  /\ ie' = TRUE
  /\ step' = [step EXCEPT ![v] = "mcr"]
  /\ UNCHANGED <<wrote, out, tx, uout, mcr, thr, overtook, shift, delta, due, receiver>>

RaiseStart(v) ==
  /\ MayRun(v) /\ step[v] = "mcr"
  /\ SetModem("start")
  /\ step' = [step EXCEPT ![v] = "idle"]
  /\ UNCHANGED <<wrote, out, tx, uout, ie, thr, overtook, shift, due, receiver>>

-----------------------------------------------------------------------------
(* The sending driver, uart_THE_handler.                                   *)
THEInterrupt ==
  /\ DriverMayRun /\ tx = "out" /\ ie /\ thr = <<>>
  /\ tx' = "loop"
  /\ UNCHANGED <<wrote, step, out, uout, ie, mcr, thr, overtook, shift, delta, due, receiver>>

SendByte ==
  /\ DriverMayRun /\ tx = "loop" /\ thr = <<>> /\ uout # <<>>
  /\ thr' = <<Head(uout)>> /\ uout' = Tail(uout)
  /\ UNCHANGED <<wrote, step, out, tx, ie, mcr, overtook, shift, delta, due, receiver>>

LeaveHandler ==
  /\ DriverMayRun /\ tx = "loop" /\ thr # <<>>
  /\ tx' = "out"
  /\ UNCHANGED <<wrote, step, out, uout, ie, mcr, thr, overtook, shift, delta, due, receiver>>

RaiseStop ==
  /\ DriverMayRun /\ tx = "loop" /\ thr = <<>> /\ uout = <<>>
  /\ SetModem("stop")
  /\ tx' = "fill"
  /\ UNCHANGED <<wrote, step, out, uout, ie, thr, overtook, shift, due, receiver>>

(* uart_domain_schedule: the first of the lines with bytes that no other   *)
(* one has a higher priority than.                                         *)
Waiting == {v \in Lines : out[v] # <<>>}
Scheduled == CHOOSE v \in Waiting : \A w \in Waiting :
               Prio[v] < Prio[w] \/ (Prio[v] = Prio[w] /\ v <= w)

(* Mutant: the packet that is read stays in the FIFO.                      *)
LeftAfter(v, k) == [out EXCEPT ![v] = SubSeq(@, k, Len(@))]

(* bom moves behind the bytes that were read.                              *)
Left(v, k) == [out EXCEPT ![v] = SubSeq(@, k + 1, Len(@))]

(* uart_fill_out_buff: the number and what the buffer has room for.        *)
Packet(v) ==
  LET k == IF Len(out[v]) < Payload THEN Len(out[v]) ELSE Payload
  IN  <<Number(v)>> \o [i \in 1 .. k |-> Byte(v, out[v][i], i, k)]

(* A packet is filled and announced in MCR, or IER is read.                *)
Fill ==
  /\ DriverMayRun /\ tx = "fill"
  /\ \/ /\ Waiting = {}
        /\ tx' = "clear"
        /\ UNCHANGED <<out, uout, mcr, delta>>
     \/ /\ Waiting # {}
        /\ uout' = Packet(Scheduled)
        /\ out' = Left(Scheduled, Len(uout') - 1)
        /\ SetModem("start")
        /\ tx' = "loop"
  /\ UNCHANGED <<wrote, step, ie, thr, overtook, shift, due, receiver>>

(* The store to IER, and break.                                            *)
DisableTHE ==
  /\ DriverMayRun /\ tx = "clear"
  /\ ie' = FALSE /\ tx' = "out"
  /\ UNCHANGED <<wrote, step, out, uout, mcr, thr, overtook, shift, delta, due, receiver>>

-----------------------------------------------------------------------------
(* The line: a byte goes from the holding register to the shift register,  *)
(* which empties the former, and then arrives.                             *)
Shift ==
  /\ thr # <<>> /\ shift = <<>>
  /\ shift' = thr /\ thr' = <<>>
  /\ due' = delta
  /\ UNCHANGED <<wrote, step, out, tx, uout, ie, mcr, overtook, delta, receiver>>

-----------------------------------------------------------------------------
(* The receiving driver.  dom_serial_fifo_write splits a copy only if bom  *)
(* is below top: into an empty FIFO it copies across the end.              *)
FreeSize(f) == Size - 1 - Len(f.data)

Stored(f, p) ==
  IF Len(p) > FreeSize(f) THEN f
  ELSE [top |-> (f.top + Len(p)) % Size, data |-> f.data \o p]

Bom(f) == (f.top + Size - Len(f.data)) % Size
Crosses(f, p) ==
  Len(p) <= FreeSize(f) /\ Bom(f) >= f.top /\ Len(p) > Size - f.top

(* uart_flush_in_buff: it leaves a packet of less than two bytes, and takes*)
(* the first byte for the number of a line if it can be one.               *)
Value(b) == IF b.i = 0 THEN b.of ELSE Data(b.of, b.n)

Flush(p) ==
  IF Len(p) < 2 \/ Value(p[1]) \notin Lines
  THEN UNCHANGED <<in, overran>>
  ELSE LET v == Value(p[1])
       IN  /\ in' = [in EXCEPT ![v] = Stored(@, Tail(p))]
           /\ overran' = Crosses(in[v], Tail(p))

(* What uart_flush_in_buff leaves in the buffer.                           *)
Reset(p) == IF Len(p) < 2 THEN p ELSE <<>>

(* uart_RDA_handler: a byte goes into the buffer, which is flushed first   *)
(* if it is full.                                                          *)
Receive(b) ==
  IF Len(uin) < Payload + 1
  THEN uin' = uin \o b /\ UNCHANGED <<in, overran>>
  ELSE uin' = Reset(uin) \o b /\ Flush(uin)

(* A byte arrives at a driver that is on time ...                          *)
Arrive ==
  /\ shift # <<>> /\ ~due /\ rx = <<>> /\ ~msc
  /\ shift' = <<>>
  /\ Receive(shift)
  /\ UNCHANGED <<sender, delta, due, rx, msc, got, late>>

(* ... or stays in the UART, which loses what its FIFO has no room for.    *)
Lag ==
  /\ shift # <<>> /\ late < MaxLate
  /\ shift' = <<>> /\ due' = FALSE /\ late' = late + 1
  /\ rx' = IF Len(rx) < UartSize THEN rx \o shift ELSE rx
  /\ UNCHANGED <<sender, delta, msc, uin, in, got, overran>>

(* RDA comes before a change of the modem lines, older bytes or not.       *)
Take ==
  /\ rx # <<>> /\ ~msc
  /\ rx' = Tail(rx)
  /\ Receive(<<Head(rx)>>)
  /\ UNCHANGED <<sender, shift, delta, due, msc, got, late>>

(* uart_irq_handler: IIR names the change only if there is no byte.        *)
SeeIIR ==
  /\ delta /\ rx = <<>> /\ ~msc
  /\ msc' = TRUE
  /\ UNCHANGED <<sender, shift, delta, due, rx, uin, in, got, late, overran>>

(* Mutant: a start is for the sender only.                                 *)
SeeStopOnly ==
  /\ msc
  /\ msc' = FALSE /\ delta' = FALSE /\ due' = FALSE
  /\ IF mcr = "start" THEN UNCHANGED <<uin, in, overran>>
     ELSE Flush(uin) /\ uin' = Reset(uin)
  /\ UNCHANGED <<sender, shift, rx, got, late>>

(* uart_MSC_handler: MSR is read, which acknowledges the change.  A start  *)
(* and a stop flush the buffer, a start empties it in any case.            *)
SeeModem ==
  /\ msc
  /\ msc' = FALSE /\ delta' = FALSE /\ due' = FALSE
  /\ Flush(uin)
  /\ uin' = IF mcr = "start" THEN <<>> ELSE Reset(uin)
  /\ UNCHANGED <<sender, shift, rx, got, late>>

(* rt_serial_user_read, dom_serial_fifo_read: all that is there.           *)
Told(v) == {got[v]} \cup {b.n : b \in {c \in Range(in[v].data) : c.of = v}}

Read(v) ==
  /\ in[v].data # <<>>
  /\ \E n \in Told(v) : /\ \A m \in Told(v) : m <= n
                        /\ got' = [got EXCEPT ![v] = n]
  /\ in' = [in EXCEPT ![v].data = <<>>]
  /\ UNCHANGED <<sender, shift, delta, due, rx, msc, uin, late, overran>>

-----------------------------------------------------------------------------
SerialInit ==
  /\ wrote = [v \in Lines |-> 0] /\ step = [v \in Lines |-> "idle"]
  /\ out = [v \in Lines |-> <<>>] /\ uout = <<>>
  /\ tx = "out" /\ ie = FALSE /\ mcr = "off"
  /\ thr = <<>> /\ shift = <<>> /\ delta = FALSE /\ due = FALSE
  /\ rx = <<>> /\ msc = FALSE /\ uin = <<>>
  /\ in = [v \in Lines |-> [top |-> 0, data |-> <<>>]]
  /\ got = [v \in Lines |-> 0]
  /\ overtook = FALSE /\ late = 0 /\ overran = FALSE

Client(v) == (\E k \in Writes[v] : Put(v, k)) \/ EnableTHE(v) \/ RaiseStart(v)
Driver == THEInterrupt \/ SendByte \/ LeaveHandler \/ RaiseStop \/ Fill \/ DisableTHE
Line == Shift \/ Arrive \/ Lag \/ Take \/ SeeIIR \/ SeeModem
Reader == \E v \in Lines : Read(v)

(* What follows after a copy across the end of a FIFO is not explored.     *)
SerialNext == ~overran /\ ((\E v \in Lines : Client(v)) \/ Driver \/ Line \/ Reader)

SerialSpec == SerialInit /\ [][SerialNext]_serialVars

(* The hardware and the drivers' handlers go on, and a client ends the     *)
(* call it is in.                                                          *)
FairSpec ==
  /\ SerialSpec
  /\ WF_serialVars(~overran /\ Driver) /\ WF_serialVars(~overran /\ Line)
  /\ \A v \in Lines : WF_serialVars(~overran /\ (EnableTHE(v) \/ RaiseStart(v)))
-----------------------------------------------------------------------------
(* What a line's reader finds of its peer's bytes was written, in that     *)
(* order, and nothing is found twice, through all packets, priorities and  *)
(* changes of the modem lines, whatever was lost, joined or misdelivered.  *)
InOrder ==
  \A v \in Lines : LET d == in[v].data IN
    \A i \in DOMAIN d :
      d[i].of = v /\ d[i].i # 0 =>
        /\ got[v] < d[i].n /\ d[i].n <= wrote[v]
        /\ \A j \in 1 .. i - 1 : d[j].of = v => d[j].n < d[i].n

(* A packet that begins with its number is delivered to its own line,      *)
(* whole or without its last byte ("package terminal" is signalled when    *)
(* THR is empty, while that byte is still on the line), never with a hole  *)
(* and never joined to another packet, as long as the receiver is on time. *)
(* The last byte of a packet may come to be taken for a number: then the   *)
(* next packet is delivered to the line of that number.                    *)
WholePackets ==
  [][\A v \in Lines :
       LET old == in[v].data
           add == SubSeq(in'[v].data, Len(old) + 1, Len(in'[v].data))
       IN  late = 0 /\ Len(in'[v].data) > Len(old) /\ uin[1].i = 0 =>
             /\ Len(add) >= add[1].len - 1
             /\ \A i \in DOMAIN add :
                  add[i].of = v /\ add[i].i = i /\ add[i].n = add[1].n + i - 1]_serialVars

(* Bytes that wait in an out FIFO are sent, unless a client above the      *)
(* driver wrote them after the driver had looked and before it cleared the *)
(* interrupt that this client had enabled.                                 *)
AllSent == \A v \in Lines : out[v] # <<>> ~> out[v] = <<>> \/ overtook \/ overran
=============================================================================
