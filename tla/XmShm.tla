------------------------------- MODULE XmShm -------------------------------
(***************************************************************************)
(* Shared memory, devs/shm/shm.c: named segments with an owner, a size and *)
(* a count of users.  Its clients are                                      *)
(*   - PaRTiKle's device devshm.c in each real-time domain: open creates,  *)
(*     mmap truncates and maps, close unmaps and unlinks, each by a system *)
(*     call of its own;                                                    *)
(*   - Linux's device lshm.c, one file for each name;                      *)
(*   - the module of the tracer, xmtrace_shm.c, which opens some names and *)
(*     unlinks as many segments from the first on (two in the code).       *)
(*                                                                         *)
(* A system call runs with interrupts off.  In Linux xm_shm_open runs with *)
(* interrupts on: it looks for the name, looks for a free segment and      *)
(* stores, and a domain may run before each of these.                      *)
(*                                                                         *)
(* A program maps what it opens before it closes it (close without mmap    *)
(* unmaps the address 0), and a PaRTiKle has one segment open at a time    *)
(* (all are mapped at the same address by default).  Domains are numbered  *)
(* by the memory of their domain_t, which a domain loaded later gets       *)
(* again, and a lower number comes before a higher one in the list.        *)
(***************************************************************************)
EXTENDS Integers, Sequences, FiniteSets

CONSTANTS
  N,         (* domains beside Linux                                       *)
  Nil,       (* NULL                                                       *)
  Names,     (* names of segments                                          *)
  TraceNames,(* those the module of the tracer opens, in order             *)
  FileNames, (* those of which Linux programs open the file                *)
  COUNT,     (* XM_SHM_COUNT                                               *)
  MaxPages,  (* SHM_MEM_SIZE in pages                                      *)
  MaxUsers   (* bound: the count of a segment's users                      *)

ASSUME ShmAssumption ==
  /\ N \in Nat /\ TraceNames \in Seq(Names) /\ FileNames \subseteq Names /\ Nil \notin Names \cup 1 .. N + 1
  /\ COUNT \in Nat \ {0} /\ MaxPages \in Nat \ {0} /\ MaxUsers \in Nat

VARIABLES
  loaded,  (* the domains in the list                                      *)
  seg,     (* xshm_list: name, owner, size and users of each segment       *)
  hold,    (* what a domain has open: its name and segment, and how far it *)
           (* is with mapping or closing it                                *)
  page,    (* the segment of each page mapped in a domain, NoSeg if none   *)
  linux,   (* the xm_shm_open in progress in Linux                         *)
  lshm,    (* the segment of each file open in Linux, NoSeg if none        *)
  tracer,  (* the segments the tracer's module has                         *)
  spoilt,  (* history: a race in Linux or the tracer's cleanup has made    *)
           (* the owner or the count of a segment wrong                    *)
  shrunk   (* history: domains with pages behind the end of a segment that *)
           (* another client has truncated                                 *)

vars == <<loaded, seg, hold, page, linux, lshm, tracer, spoilt, shrunk>>

Domains == 1 .. N
Root == N + 1  (* Linux, which is never unloaded *)
Segs == 0 .. COUNT - 1
NoSeg == COUNT
Pages == 1 .. MaxPages
Free == [name |-> Nil, owner |-> Nil, size |-> 0, users |-> 0]
Nothing == [name |-> Nil, seg |-> NoSeg, at |-> "closed"]
Unmapped == [i \in Pages |-> NoSeg]
Idle == [by |-> Nil, name |-> Nil, seg |-> NoSeg, at |-> "idle"]

(* A domain in the middle of mmap or close.                                *)
Busy(n) == hold[n].at \in {"cut", "off"}

(* A system call of domain n, or a step of Linux: it is loaded and no      *)
(* domain before it in the list is between two calls.                      *)
Runs(n) ==
  n \in loaded \cup {Root} /\ \A m \in Domains : m < n => ~Busy(m)

-----------------------------------------------------------------------------
(* xm_get_shm_by_name and the search for a free segment: the first of      *)
(* those that fit, or COUNT.                                               *)
FirstSeg(S) == IF S = {} THEN NoSeg ELSE CHOOSE s \in S : \A t \in S : s <= t
ByName(name) == FirstSeg({s \in Segs : seg[s].name = name})
FreeSeg == FirstSeg({s \in Segs : seg[s].owner = Nil})

Owned(name, n, s) == [name |-> name, owner |-> n, size |-> MaxPages, users |-> seg[s].users + 1]

(* Mutant: a segment that exists has one user more, but does not say so.   *)
CreatedUncounted(name, n) ==
  LET s == IF ByName(name) # NoSeg THEN ByName(name) ELSE FreeSeg
  IN  [index |-> s,
       seg   |-> IF s = NoSeg \/ ByName(name) # NoSeg THEN seg
                 ELSE [seg EXCEPT ![s] = Owned(name, n, s)]]

(* xm_shm_create, when it is not interrupted: the list that it leaves and  *)
(* the index that it returns.                                              *)
Created(name, n) ==
  LET s == IF ByName(name) # NoSeg THEN ByName(name) ELSE FreeSeg
  IN  [index |-> s,
       seg   |-> IF s = NoSeg THEN seg
                 ELSE IF ByName(name) # NoSeg THEN [seg EXCEPT ![s].users = @ + 1]
                 ELSE [seg EXCEPT ![s] = Owned(name, n, s)]]

(* Mutant: an owner does not wait for the other users.                     *)
UnlinkedInUse(n, s) ==
  IF seg[s].owner # n THEN [seg EXCEPT ![s].users = @ - 1]
  ELSE [seg EXCEPT ![s] = [Free EXCEPT !.users = seg[s].users - 1]]

(* xm_shm_unlink: only its owner gives a segment back, when it is the only *)
(* user (-EBUSY otherwise).  size is written as cleared.                   *)
Unlinked(n, s) ==
  IF seg[s].owner # n THEN [seg EXCEPT ![s].users = @ - 1]
  ELSE IF seg[s].users # 1 THEN seg
  ELSE [seg EXCEPT ![s] = [Free EXCEPT !.users = seg[s].users - 1]]

-----------------------------------------------------------------------------
(* prtk_shm_open: shm_open_sys.  A full list gives the index COUNT, which  *)
(* open does not look at; the program then has a descriptor it cannot map. *)
Open(n, name) ==
  /\ Runs(n) /\ hold[n] = Nothing
  /\ LET made == Created(name, n)
     IN  /\ made.index # NoSeg
         /\ made.seg[made.index].users <= MaxUsers
         /\ seg' = made.seg
         /\ hold' = [hold EXCEPT ![n] = [name |-> name, seg |-> made.index, at |-> "open"]]
  /\ UNCHANGED <<loaded, page, linux, lshm, tracer, spoilt, shrunk>>

(* Domains, other than n, with a page of s mapped behind its first k.      *)
Behind(n, s, k) == {m \in Domains \ {n} : \E i \in Pages : i > k /\ page[m][i] = s}

(* prtk_shm_mmap: XM_SHM_TRUNCATE, which only makes segments smaller, ...  *)
Truncate(n, k) ==
  /\ Runs(n) /\ hold[n].at = "open"
  /\ k <= seg[hold[n].seg].size
  /\ seg' = [seg EXCEPT ![hold[n].seg].size = k]
  /\ hold' = [hold EXCEPT ![n].at = "cut"]
  /\ shrunk' = shrunk \cup Behind(n, hold[n].seg, k)
  /\ UNCHANGED <<loaded, page, linux, lshm, tracer, spoilt>>

(* Mutant: all pages of a segment are mapped, whatever its size.           *)
MapWhole(n) ==
  /\ Runs(n) /\ hold[n].at = "cut"
  /\ page' = [page EXCEPT ![n] = [i \in Pages |-> hold[n].seg]]
  /\ hold' = [hold EXCEPT ![n].at = "on"]
  /\ UNCHANGED <<loaded, seg, linux, lshm, tracer, spoilt, shrunk>>

(* ... and XM_SHM_MAP, of the segment's size at that moment.               *)
MapSeg(n) ==
  /\ Runs(n) /\ hold[n].at = "cut"
  /\ page' = [page EXCEPT ![n] = [i \in Pages |-> IF i <= seg[hold[n].seg].size
                                                  THEN hold[n].seg ELSE @[i]]]
  /\ hold' = [hold EXCEPT ![n].at = "on"]
  /\ UNCHANGED <<loaded, seg, linux, lshm, tracer, spoilt, shrunk>>

(* prtk_shm_close: XM_SHM_UNMAP, of the segment's size at that moment, ... *)
UnmapSeg(n) ==
  /\ Runs(n) /\ hold[n].at = "on"
  /\ page' = [page EXCEPT ![n] = [i \in Pages |-> IF i <= seg[hold[n].seg].size
                                                  THEN NoSeg ELSE @[i]]]
  /\ hold' = [hold EXCEPT ![n].at = "off"]
  /\ UNCHANGED <<loaded, seg, linux, lshm, tracer, spoilt, shrunk>>

(* ... and shm_unlink_sys, of the segment that bears the name then.        *)
Unlink(n) ==
  /\ Runs(n) /\ hold[n].at = "off"
  /\ LET s == ByName(hold[n].name)
     IN  seg' = IF s = NoSeg THEN seg ELSE Unlinked(n, s)
  /\ hold' = [hold EXCEPT ![n] = Nothing]
  /\ UNCHANGED <<loaded, page, linux, lshm, tracer, spoilt, shrunk>>

Load(n) ==
  /\ Runs(Root) /\ linux = Idle
  /\ n \in Domains \ loaded /\ loaded' = loaded \cup {n}
  /\ UNCHANGED <<seg, hold, page, linux, lshm, tracer, spoilt, shrunk>>

(* A domain is unloaded with its page directory, and unlinks nothing.      *)
Unload(n) ==
  /\ Runs(Root) /\ linux = Idle
  /\ n \in loaded /\ loaded' = loaded \ {n}
  /\ hold' = [hold EXCEPT ![n] = Nothing]
  /\ page' = [page EXCEPT ![n] = Unmapped]
  /\ shrunk' = shrunk \ {n}
  /\ UNCHANGED <<seg, linux, lshm, tracer, spoilt>>
-----------------------------------------------------------------------------
(* Linux.  xm_shm_open, called by lshm_open or by the module of the        *)
(* tracer, looks for the name.                                             *)
Look(by, name) ==
  /\ Runs(Root) /\ linux = Idle
  /\ IF by = "lshm" THEN name \in FileNames /\ lshm[name] = NoSeg
     ELSE Len(tracer) < Len(TraceNames) /\ name = TraceNames[Len(tracer) + 1]
  /\ linux' = [by |-> by, name |-> name, seg |-> ByName(name), at |-> "found"]
  /\ UNCHANGED <<loaded, seg, hold, page, lshm, tracer, spoilt, shrunk>>

(* It did not find it, and looks for a free segment.  It gives up, with    *)
(* -ENOMEM, if there is none: the tracer's module then fails to load and   *)
(* forgets a segment it has.                                               *)
Pick ==
  /\ Runs(Root) /\ linux.at = "found" /\ linux.seg = NoSeg
  /\ IF FreeSeg = NoSeg
     THEN /\ linux' = Idle
          /\ tracer' = IF linux.by = "trace" THEN <<>> ELSE tracer
     ELSE /\ linux' = [linux EXCEPT !.seg = FreeSeg, !.at = "picked"]
          /\ UNCHANGED tracer
  /\ UNCHANGED <<loaded, seg, hold, page, lshm, spoilt, shrunk>>

(* What it relies on is still so: the name, or that the segment is free    *)
(* and nobody has the name.                                                *)
StillSo ==
  IF linux.at = "found" THEN seg[linux.seg].name = linux.name
  ELSE seg[linux.seg].owner = Nil /\ ByName(linux.name) = NoSeg

(* The stores of xm_shm_create, which counts a user, and the one more that *)
(* xm_shm_open counts.                                                     *)
Take ==
  /\ Runs(Root) /\ linux.at # "idle" /\ linux.seg # NoSeg
  /\ seg[linux.seg].users + 2 <= MaxUsers
  /\ LET s == linux.seg
     IN  /\ seg' = [seg EXCEPT ![s] = [IF linux.at = "found" THEN seg[s]
                                       ELSE Owned(linux.name, Root, s)
                                         EXCEPT !.users = seg[s].users + 2]]
         /\ spoilt' = ~StillSo
         /\ IF linux.by = "lshm"
            THEN lshm' = [lshm EXCEPT ![linux.name] = s] /\ UNCHANGED tracer
            ELSE tracer' = Append(tracer, s) /\ UNCHANGED lshm
  /\ linux' = Idle
  /\ UNCHANGED <<loaded, hold, page, shrunk>>

(* lshm_release.                                                           *)
Release(name) ==
  /\ Runs(Root) /\ linux = Idle /\ lshm[name] # NoSeg
  /\ seg' = Unlinked(Root, lshm[name])
  /\ lshm' = [lshm EXCEPT ![name] = NoSeg]
  /\ UNCHANGED <<loaded, hold, page, linux, tracer, spoilt, shrunk>>

(* cleanup_module of the tracer unlinks the first segments, as many as it  *)
(* opens, whichever it had got; the steps touch different segments.        *)
Firsts == 0 .. Len(TraceNames) - 1

Cleanup ==
  /\ Runs(Root) /\ linux = Idle /\ Len(tracer) = Len(TraceNames)
  /\ seg' = [s \in Segs |-> IF s \in Firsts THEN Unlinked(Root, s)[s] ELSE seg[s]]
  /\ spoilt' = (Firsts # {tracer[i] : i \in DOMAIN tracer})
  /\ tracer' = <<>>
  /\ UNCHANGED <<loaded, hold, page, linux, lshm, shrunk>>

-----------------------------------------------------------------------------
Init ==
  /\ loaded = {}
  /\ seg = [s \in Segs |-> Free]
  /\ hold = [n \in Domains |-> Nothing]
  /\ page = [n \in Domains |-> Unmapped]
  /\ linux = Idle
  /\ lshm = [name \in Names |-> NoSeg]
  /\ tracer = <<>>
  /\ spoilt = FALSE /\ shrunk = {}

LinuxStep ==
  \/ \E name \in Names : (\E by \in {"lshm", "trace"} : Look(by, name)) \/ Release(name)
  \/ Pick \/ Take \/ Cleanup

(* What follows after a segment was spoilt is not explored.                *)
Next ==
  /\ ~spoilt
  /\ \/ LinuxStep
     \/ \E n \in Domains :
          \/ Load(n) \/ Unload(n) \/ MapSeg(n) \/ UnmapSeg(n) \/ Unlink(n)
          \/ (\E name \in Names : Open(n, name)) \/ (\E k \in Pages : Truncate(n, k))

Spec == Init /\ [][Next]_vars
-----------------------------------------------------------------------------
TypeOK ==
  /\ loaded \subseteq Domains
  /\ seg \in [Segs -> [name : Names \cup {Nil}, owner : Domains \cup {Root, Nil},
                       size : 0 .. MaxPages, users : -1 .. MaxUsers]]
  /\ hold \in [Domains -> [name : Names \cup {Nil}, seg : Segs \cup {NoSeg},
                         at : {"closed", "open", "cut", "on", "off"}]]
  /\ page \in [Domains -> [Pages -> Segs \cup {NoSeg}]]
  /\ lshm \in [Names -> Segs \cup {NoSeg}] /\ tracer \in Seq(Segs)
  /\ spoilt \in BOOLEAN /\ shrunk \subseteq Domains

(* Two clients that have opened one name share one segment, which bears    *)
(* that name ("SHM Object Name"), through any sequence of creations,       *)
(* unlinks, unloads and reuses of a node by another domain.                *)
SameSegment ==
  spoilt \/ /\ \A n \in Domains : hold[n] # Nothing => seg[hold[n].seg].name = hold[n].name
            /\ \A name \in Names : lshm[name] # NoSeg => seg[lshm[name]].name = name
            /\ \A s, t \in Segs : s # t /\ seg[s].name # Nil => seg[s].name # seg[t].name

(* Memory that is given back is mapped nowhere: xm_shm_unlink lets only a  *)
(* single user free it.  Excepted are domains whose mapping another        *)
(* client's truncation left them with.                                     *)
NoDanglingPage ==
  spoilt \/ \A n \in Domains \ shrunk, i \in Pages :
              page[n][i] # NoSeg =>
                hold[n].seg = page[n][i] /\ hold[n].at = "on" /\ seg[page[n][i]].owner # Nil
=============================================================================
