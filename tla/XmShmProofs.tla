---------------------------- MODULE XmShmProofs ----------------------------
(***************************************************************************)
(* Clients of one name share one segment, and memory that is given back is *)
(* mapped nowhere, for any number of domains, names, segments and pages.   *)
(* The argument counts: a segment has at least as many users as there are  *)
(* clients that hold it, so the single user that frees it is the last one. *)
(***************************************************************************)
EXTENDS XmShm, FiniteSetTheorems, WellFoundedInduction, TLAPS

Segments == [name : Names \cup {Nil}, owner : Domains \cup {Root, Nil}, size : Int, users : Int]
Holdings == [name : Names \cup {Nil}, seg : Segs \cup {NoSeg},
             at : {"closed", "open", "cut", "on", "off"}]

Types ==
  /\ seg \in [Segs -> Segments]
  /\ hold \in [Domains -> Holdings]
  /\ page \in [Domains -> [Pages -> Segs \cup {NoSeg}]]
  /\ lshm \in [Names -> Segs \cup {NoSeg}]
  /\ tracer \in Seq(Segs)
  /\ linux \in [by : {"lshm", "trace", Nil}, name : Names \cup {Nil},
                seg : Segs \cup {NoSeg}, at : {"idle", "found", "picked"}]
  /\ linux.at # "idle" => linux.name \in Names

(* A segment that has a name has an owner; names are unique; who holds a   *)
(* segment holds the one of its name.                                      *)
NamesAgree ==
  /\ \A s \in Segs : seg[s].name = Nil <=> seg[s].owner = Nil
  /\ \A s, t \in Segs : s # t /\ seg[s].name # Nil => seg[s].name # seg[t].name
  /\ \A n \in Domains : hold[n] # Nothing =>
       hold[n].seg \in Segs /\ hold[n].name \in Names /\ seg[hold[n].seg].name = hold[n].name
  /\ \A m \in Names : lshm[m] # NoSeg => seg[lshm[m]].name = m

(* The clients that hold a segment, and the count of its users.            *)
Held(s) == {n \in Domains : hold[n].seg = s}
File(s) == IF \E m \in Names : lshm[m] = s THEN 1 ELSE 0
Traced(s) == IF \E i \in DOMAIN tracer : tracer[i] = s THEN 1 ELSE 0

UsersCounted ==
  \A s \in Segs : seg[s].users >= Cardinality(Held(s)) + File(s) + Traced(s)

(* A domain maps pages only between mapping and unmapping its segment, and *)
(* none behind its end.                                                    *)
PagesHeld ==
  \A n \in Domains \ shrunk, i \in Pages : page[n][i] # NoSeg =>
    hold[n].seg = page[n][i] /\ hold[n].at = "on" /\ i <= seg[page[n][i]].size

ShmInv == spoilt \/ (Types /\ NamesAgree /\ UsersCounted /\ PagesHeld)

-----------------------------------------------------------------------------
(* The search of xm_get_shm_by_name and of a free segment.                 *)
LEMMA FirstOfSegs ==
  ASSUME NEW S \in SUBSET Segs
  PROVE  /\ S = {} => FirstSeg(S) = NoSeg
         /\ S # {} => FirstSeg(S) \in S
<1>1. CASE S = {}
  BY <1>1 DEF FirstSeg
<1>2. CASE S # {}
  <2>1. S \subseteq Nat
    BY ShmAssumption DEF Segs
  <2> DEFINE Less == {p \in Nat \X Nat : p[1] < p[2]}
  <2>2. IsWellFoundedOn(Less, Nat)
    BY NatLessThanWellFounded DEF OpToRel
  <2> HIDE DEF Less
  <2>3. PICK x \in S : \A y \in S : ~(<<y, x>> \in Less)
    BY <1>2, <2>1, <2>2, WFMin
  <2>4. \A y \in S : x <= y
    <3> SUFFICES ASSUME NEW y \in S PROVE x <= y
      OBVIOUS
    <3>1. x \in Nat /\ y \in Nat
      BY <2>1
    <3>2. y < x => <<y, x>> \in Less
      BY <3>1 DEF Less
    <3> QED
      BY <2>3, <3>1, <3>2
  <2> QED
    BY <1>2, <2>4 DEF FirstSeg
<1> QED
  BY <1>1, <1>2

LEMMA NoSegIsNone == NoSeg \notin Segs /\ NoSeg \in Nat
  BY ShmAssumption DEF NoSeg, Segs

LEMMA ByNameFinds ==
  ASSUME NEW name \in Names
  PROVE  /\ ByName(name) # NoSeg => ByName(name) \in Segs /\ seg[ByName(name)].name = name
         /\ ByName(name) = NoSeg => \A s \in Segs : seg[s].name # name
  BY FirstOfSegs, NoSegIsNone DEF ByName

LEMMA FreeSegFinds ==
  FreeSeg # NoSeg => FreeSeg \in Segs /\ seg[FreeSeg].owner = Nil
  BY FirstOfSegs, NoSegIsNone DEF FreeSeg

LEMMA HeldFinite ==
  ASSUME NEW s
  PROVE  IsFiniteSet(Held(s)) /\ Cardinality(Held(s)) \in Nat
<1>1. IsFiniteSet(Domains)
  BY ShmAssumption, FS_Interval DEF Domains
<1>2. Held(s) \subseteq Domains
  BY DEF Held
<1>3. IsFiniteSet(Held(s))
  BY <1>1, <1>2, FS_Subset
<1> QED
  BY <1>3, FS_CardinalityType

(* xm_shm_unlink of a segment that c clients beside the caller hold: it is *)
(* given back only if there is none.                                       *)
LEMMA UnlinkOne ==
  ASSUME NEW n, NEW s \in Segs, seg \in [Segs -> Segments],
         NEW c \in Nat, seg[s].users >= c + 1
  PROVE  /\ Unlinked(n, s) \in [Segs -> Segments]
         /\ \A t \in Segs : t # s => Unlinked(n, s)[t] = seg[t]
         /\ Unlinked(n, s)[s].users >= c
         /\ \/ /\ Unlinked(n, s)[s].name = seg[s].name
               /\ Unlinked(n, s)[s].owner = seg[s].owner
               /\ Unlinked(n, s)[s].size = seg[s].size
            \/ c = 0 /\ Unlinked(n, s)[s].name = Nil /\ Unlinked(n, s)[s].owner = Nil
<1>1. seg[s] \in Segments /\ seg[s].users \in Int
  BY DEF Segments
<1>2. CASE seg[s].owner # n
  <2>1. Unlinked(n, s) = [seg EXCEPT ![s].users = @ - 1]
    BY <1>2 DEF Unlinked
  <2> QED
    BY <1>1, <2>1 DEF Segments
<1>3. CASE seg[s].owner = n /\ seg[s].users # 1
  <2>1. Unlinked(n, s) = seg
    BY <1>3 DEF Unlinked
  <2> QED
    BY <1>1, <2>1
<1>4. CASE seg[s].owner = n /\ seg[s].users = 1
  <2>1. Unlinked(n, s) = [seg EXCEPT ![s] = [Free EXCEPT !.users = 0]]
    BY <1>1, <1>4 DEF Unlinked
  <2>2. [Free EXCEPT !.users = 0] = [name |-> Nil, owner |-> Nil, size |-> 0, users |-> 0]
    BY DEF Free
  <2>3. [Free EXCEPT !.users = 0] \in Segments
    BY <2>2 DEF Segments
  <2>4. c = 0
    BY <1>4
  <2> QED
    BY <1>1, <2>1, <2>2, <2>3, <2>4
<1> QED
  BY <1>2, <1>3, <1>4

-----------------------------------------------------------------------------
(* Segments given back and clients gone do not confuse names.              *)
LEMMA NamesKept ==
  ASSUME Types, NamesAgree, Types',
         \A s \in Segs :
           \/ seg'[s].name = seg[s].name /\ seg'[s].owner = seg[s].owner
           \/ /\ seg'[s].name = Nil /\ seg'[s].owner = Nil
              /\ \A n \in Domains : hold'[n].seg # s
              /\ \A m \in Names : lshm'[m] # s,
         \A n \in Domains :
           \/ hold'[n] = Nothing
           \/ hold[n] # Nothing /\ hold'[n].seg = hold[n].seg /\ hold'[n].name = hold[n].name,
         \A m \in Names : lshm'[m] = NoSeg \/ lshm'[m] = lshm[m]
  PROVE  NamesAgree'
<1>1. \A s \in Segs : seg'[s].name = Nil <=> seg'[s].owner = Nil
  BY DEF NamesAgree
<1>2. \A s, t \in Segs : s # t /\ seg'[s].name # Nil => seg'[s].name # seg'[t].name
  BY DEF NamesAgree
<1>3. ASSUME NEW n \in Domains, hold'[n] # Nothing
      PROVE  hold'[n].seg \in Segs /\ hold'[n].name \in Names /\ seg'[hold'[n].seg].name = hold'[n].name
  BY <1>3 DEF NamesAgree
<1>4. ASSUME NEW m \in Names, lshm'[m] # NoSeg
      PROVE  seg'[lshm'[m]].name = m
  <2>1. lshm'[m] = lshm[m] /\ lshm[m] \in Segs
    BY <1>4 DEF Types
  <2> QED
    BY <1>4, <2>1 DEF NamesAgree
<1> QED
  BY <1>1, <1>2, <1>3, <1>4 DEF NamesAgree

LEMMA ShmInit == Init => ShmInv
<1> SUFFICES ASSUME Init PROVE Types /\ NamesAgree /\ UsersCounted /\ PagesHeld
  BY DEF ShmInv
<1>1. Types
  BY DEF Init, Types, Segments, Holdings, Free, Nothing, Unmapped, Idle
<1>2. NamesAgree
  BY DEF Init, NamesAgree, Free
<1>3. UsersCounted
  <2> SUFFICES ASSUME NEW s \in Segs
               PROVE  seg[s].users >= Cardinality(Held(s)) + File(s) + Traced(s)
    BY DEF UsersCounted
  <2>1. Held(s) = {} /\ File(s) = 0 /\ Traced(s) = 0 /\ seg[s].users = 0
    BY NoSegIsNone DEF Init, Held, File, Traced, Nothing, Free
  <2>2. Cardinality(Held(s)) = 0
    BY <2>1, FS_EmptySet
  <2> QED
    BY <2>1, <2>2
<1>4. PagesHeld
  BY DEF Init, PagesHeld, Unmapped
<1> QED
  BY <1>1, <1>2, <1>3, <1>4

(* What the steps of a domain in the middle of mapping and closing have in *)
(* common: clients, names and counts stay.                                 *)
LEMMA CountsUntouched ==
  ASSUME UsersCounted, UNCHANGED <<lshm, tracer>>,
         \A n \in Domains : hold'[n].seg = hold[n].seg,
         \A s \in Segs : seg'[s].users = seg[s].users
  PROVE  UsersCounted'
  BY DEF UsersCounted, Held, File, Traced

LEMMA TruncateKeeps ==
  ASSUME NEW n \in Domains, NEW k \in Pages, Truncate(n, k),
         Types, NamesAgree, UsersCounted, PagesHeld
  PROVE  Types' /\ NamesAgree' /\ UsersCounted' /\ PagesHeld'
<1> DEFINE s == hold[n].seg
<1>1. hold[n] # Nothing /\ hold[n].at = "open" /\ s \in Segs
  BY DEF Truncate, Nothing, NamesAgree
<1>2. /\ seg' = [seg EXCEPT ![s].size = k]
      /\ hold' = [hold EXCEPT ![n].at = "cut"]
      /\ shrunk' = shrunk \cup Behind(n, s, k)
      /\ UNCHANGED <<page, linux, lshm, tracer>>
  BY DEF Truncate
<1>3. hold[n] \in Holdings /\ seg[s] \in Segments /\ k \in Int
  BY <1>1 DEF Types, Pages
<1>4. hold' \in [Domains -> Holdings]
  BY <1>2, <1>3 DEF Types, Holdings
<1>5. seg' \in [Segs -> Segments]
  BY <1>1, <1>2, <1>3 DEF Types, Segments
<1>6. Types'
  BY <1>2, <1>4, <1>5 DEF Types
<1>7. \A m \in Domains : hold'[m].seg = hold[m].seg /\ hold'[m].name = hold[m].name
  BY <1>2, <1>3 DEF Types, Holdings
<1>8. \A t \in Segs : /\ seg'[t].name = seg[t].name /\ seg'[t].owner = seg[t].owner
                      /\ seg'[t].users = seg[t].users
                      /\ seg'[t].size = IF t = s THEN k ELSE seg[t].size
  BY <1>1, <1>2, <1>3 DEF Types, Segments
<1>9. \A m \in Domains : hold'[m] = Nothing \/ hold[m] # Nothing
  BY <1>1, <1>2 DEF Types
<1>10. NamesAgree'
  BY <1>2, <1>6, <1>7, <1>8, <1>9, NamesKept
<1>11. UsersCounted'
  BY <1>2, <1>7, <1>8, CountsUntouched
<1>12. ASSUME NEW m \in Domains \ shrunk', NEW i \in Pages, page'[m][i] # NoSeg
       PROVE  hold'[m].seg = page'[m][i] /\ hold'[m].at = "on" /\ i <= seg'[page'[m][i]].size
  <2>1. m \notin shrunk /\ page[m][i] # NoSeg /\ page'[m][i] = page[m][i]
    BY <1>2, <1>12
  <2>2. hold[m].seg = page[m][i] /\ hold[m].at = "on" /\ i <= seg[page[m][i]].size
    BY <2>1 DEF PagesHeld
  <2>3. m # n
    BY <1>1, <2>2
  <2>4. page[m][i] \in Segs
    BY <2>1 DEF Types
  <2>5. page[m][i] = s => i <= k
    BY <1>2, <1>3, <1>12, <2>3 DEF Behind, Pages
  <2> QED
    BY <1>2, <1>8, <2>1, <2>2, <2>3, <2>4, <2>5
<1>13. PagesHeld'
  BY <1>12 DEF PagesHeld
<1> QED
  BY <1>6, <1>10, <1>11, <1>13

LEMMA MapKeeps ==
  ASSUME NEW n \in Domains, MapSeg(n) \/ UnmapSeg(n),
         Types, NamesAgree, UsersCounted, PagesHeld
  PROVE  Types' /\ NamesAgree' /\ UsersCounted' /\ PagesHeld'
<1> DEFINE s == hold[n].seg
<1>1. hold[n] # Nothing /\ s \in Segs /\ hold[n] \in Holdings
  BY DEF MapSeg, UnmapSeg, Nothing, NamesAgree, Types
<1>2. UNCHANGED <<seg, linux, lshm, tracer, shrunk>>
  BY DEF MapSeg, UnmapSeg
<1>3. \A m \in Domains : m # n => hold'[m] = hold[m] /\ page'[m] = page[m]
  BY DEF MapSeg, UnmapSeg, Types
<1>4. hold' \in [Domains -> Holdings] /\ hold'[n] # Nothing
      /\ hold'[n].seg = s /\ hold'[n].name = hold[n].name
  <2>1. CASE MapSeg(n)
    BY <1>1, <2>1 DEF MapSeg, Types, Holdings, Nothing
  <2>2. CASE UnmapSeg(n)
    BY <1>1, <2>2 DEF UnmapSeg, Types, Holdings, Nothing
  <2> QED
    BY <2>1, <2>2
<1>5. page' \in [Domains -> [Pages -> Segs \cup {NoSeg}]]
  BY <1>1 DEF MapSeg, UnmapSeg, Types
<1>6. Types'
  BY <1>2, <1>4, <1>5 DEF Types
<1>7. NamesAgree'
  BY <1>1, <1>2, <1>3, <1>4, <1>6, NamesKept
<1>8. UsersCounted'
  BY <1>2, <1>3, <1>4, CountsUntouched
<1>9. ASSUME NEW i \in Pages, n \notin shrunk, page'[n][i] # NoSeg
      PROVE  s = page'[n][i] /\ hold'[n].at = "on" /\ i <= seg[s].size
  <2>1. CASE MapSeg(n)
    <3>1. page[n][i] = NoSeg
      BY <1>9, <2>1 DEF MapSeg, PagesHeld
    <3> QED
      BY <1>1, <1>9, <2>1, <3>1 DEF MapSeg, Types, Holdings
  <2>2. CASE UnmapSeg(n)
    <3>1. page[n][i] # NoSeg => i <= seg[s].size
      BY <1>9 DEF PagesHeld
    <3> QED
      BY <1>9, <2>2, <3>1 DEF UnmapSeg, Types
  <2> QED
    BY <2>1, <2>2
<1>10. PagesHeld'
  BY <1>2, <1>3, <1>4, <1>9 DEF PagesHeld
<1> QED
  BY <1>6, <1>7, <1>8, <1>10

-----------------------------------------------------------------------------
(* prtk_shm_close: the segment of the name is the one that the domain has, *)
(* and if it is given back nobody else has it.                             *)
LEMMA UnlinkKeeps ==
  ASSUME NEW n \in Domains, Unlink(n),
         Types, NamesAgree, UsersCounted, PagesHeld
  PROVE  Types' /\ NamesAgree' /\ UsersCounted' /\ PagesHeld'
<1> DEFINE s == hold[n].seg
           c == Cardinality(Held(s) \ {n}) + File(s) + Traced(s)
<1>1. hold[n] # Nothing /\ hold[n].at = "off" /\ s \in Segs
      /\ hold[n].name \in Names /\ seg[s].name = hold[n].name
  BY DEF Unlink, Nothing, NamesAgree
<1>2. ByName(hold[n].name) = s
  BY <1>1, ByNameFinds, ShmAssumption DEF NamesAgree
<1>3. /\ seg' = Unlinked(n, s) /\ hold' = [hold EXCEPT ![n] = Nothing]
      /\ UNCHANGED <<page, linux, lshm, tracer, shrunk>>
  BY <1>1, <1>2, NoSegIsNone DEF Unlink
<1>4. Cardinality(Held(s)) = Cardinality(Held(s) \ {n}) + 1
      /\ Cardinality(Held(s) \ {n}) \in Nat
  <2>1. n \in Held(s)
    BY DEF Held
  <2>2. IsFiniteSet(Held(s) \ {n}) /\ Cardinality(Held(s)) \in Nat
        /\ Cardinality(Held(s) \ {n}) = Cardinality(Held(s)) - 1
    BY <2>1, HeldFinite, FS_RemoveElement
  <2>3. Cardinality(Held(s) \ {n}) \in Nat
    BY <2>2, FS_CardinalityType
  <2> QED
    BY <2>2, <2>3
<1>5. File(s) \in Nat /\ Traced(s) \in Nat /\ c \in Nat
  BY <1>4 DEF File, Traced
<1>6. seg[s].users >= c + 1
  <2>1. seg[s].users >= Cardinality(Held(s)) + File(s) + Traced(s)
    BY <1>1 DEF UsersCounted
  <2>2. seg[s].users \in Int
    BY <1>1 DEF Types, Segments
  <2> QED
    BY <1>4, <1>5, <2>1, <2>2
<1>7. /\ seg' \in [Segs -> Segments]
      /\ \A t \in Segs : t # s => seg'[t] = seg[t]
      /\ seg'[s].users >= c
      /\ \/ seg'[s].name = seg[s].name /\ seg'[s].owner = seg[s].owner /\ seg'[s].size = seg[s].size
         \/ c = 0 /\ seg'[s].name = Nil /\ seg'[s].owner = Nil
  <2> HIDE DEF c, s
  <2>1. seg \in [Segs -> Segments] /\ s \in Segs /\ c \in Nat /\ seg[s].users >= c + 1
    BY <1>1, <1>5, <1>6 DEF Types
  <2> QED
    BY <1>3, <2>1, UnlinkOne
<1>8. Types'
  BY <1>3, <1>7 DEF Types, Holdings, Nothing
<1>9. /\ hold'[n].seg = NoSeg
      /\ \A m \in Domains : m # n => hold'[m] = hold[m]
  BY <1>3 DEF Types, Nothing
<1>10. c = 0 => /\ \A m \in Domains : hold'[m].seg # s
                /\ \A m \in Names : lshm'[m] # s
  <2> SUFFICES ASSUME c = 0 PROVE /\ \A m \in Domains : hold'[m].seg # s
                                  /\ \A m \in Names : lshm'[m] # s
    OBVIOUS
  <2>1. Cardinality(Held(s) \ {n}) = 0 /\ File(s) = 0
    BY <1>4, <1>5
  <2> DEFINE others == Held(s) \ {n}
  <2>2. IsFiniteSet(others)
    BY HeldFinite, FS_RemoveElement
  <2>5. others = {}
    <3> HIDE DEF others
    <3>1. IsFiniteSet(others) => (Cardinality(others) = 0 <=> others = {})
      BY FS_EmptySet
    <3>2. Cardinality(others) = 0
      BY <2>1 DEF others
    <3> QED
      BY <2>2, <3>1, <3>2
  <2>3. \A m \in Domains : hold'[m].seg # s
    BY <1>1, <1>9, <2>5, NoSegIsNone DEF Held
  <2>4. \A m \in Names : lshm'[m] # s
    BY <1>3, <2>1 DEF File
  <2> QED
    BY <2>3, <2>4
<1> HIDE DEF c
<1>11. NamesAgree'
  <2>1. \A t \in Segs :
           \/ seg'[t].name = seg[t].name /\ seg'[t].owner = seg[t].owner
           \/ /\ seg'[t].name = Nil /\ seg'[t].owner = Nil
              /\ \A m \in Domains : hold'[m].seg # t
              /\ \A m \in Names : lshm'[m] # t
    <3>1. ASSUME NEW t \in Segs, t # s
          PROVE  seg'[t].name = seg[t].name /\ seg'[t].owner = seg[t].owner
      BY <1>7, <3>1
    <3>2. \/ seg'[s].name = seg[s].name /\ seg'[s].owner = seg[s].owner
          \/ /\ seg'[s].name = Nil /\ seg'[s].owner = Nil
             /\ \A m \in Domains : hold'[m].seg # s
             /\ \A m \in Names : lshm'[m] # s
      BY <1>7, <1>10
    <3> HIDE DEF s
    <3> QED
      BY <3>1, <3>2
  <2>2. \A m \in Domains :
           \/ hold'[m] = Nothing
           \/ hold[m] # Nothing /\ hold'[m].seg = hold[m].seg /\ hold'[m].name = hold[m].name
    BY <1>3, <1>9 DEF Types
  <2> QED
    BY <1>3, <1>8, <2>1, <2>2, NamesKept
<1>12. UsersCounted'
  <2> SUFFICES ASSUME NEW t \in Segs
               PROVE  seg'[t].users >= Cardinality(Held(t)') + File(t)' + Traced(t)'
    BY DEF UsersCounted
  <2>1. File(t)' = File(t) /\ Traced(t)' = Traced(t)
    BY <1>3 DEF File, Traced
  <2>2. CASE t = s
    <3>1. Held(t)' = Held(s) \ {n}
      BY <1>1, <1>9, <2>2, NoSegIsNone DEF Held
    <3> QED
      BY <1>7, <2>1, <2>2, <3>1 DEF c
  <2>3. CASE t # s
    <3>1. Held(t)' = Held(t)
      BY <1>9, <2>3, NoSegIsNone DEF Held
    <3>2. seg'[t] = seg[t]
      BY <1>7, <2>3
    <3>3. seg[t].users >= Cardinality(Held(t)) + File(t) + Traced(t)
      BY DEF UsersCounted
    <3> QED
      BY <2>1, <3>1, <3>2, <3>3
  <2> QED
    BY <2>2, <2>3
<1>13. PagesHeld'
  <2> SUFFICES ASSUME NEW m \in Domains \ shrunk', NEW i \in Pages, page'[m][i] # NoSeg
               PROVE  /\ hold'[m].seg = page'[m][i] /\ hold'[m].at = "on"
                      /\ i <= seg'[page'[m][i]].size
    BY DEF PagesHeld
  <2>1. hold[m].seg = page[m][i] /\ hold[m].at = "on" /\ i <= seg[page[m][i]].size
    BY <1>3 DEF PagesHeld
  <2>2. m # n /\ page[m][i] \in Segs
    BY <1>1, <1>3, <2>1 DEF Types
  <2>3. hold'[m] = hold[m]
    BY <1>9, <2>2
  <2>4. c = 0 => page[m][i] # s
    BY <1>10, <2>1, <2>3
  <2>5. seg'[page[m][i]].size = seg[page[m][i]].size
    BY <1>7, <2>2, <2>4
  <2> QED
    BY <1>3, <2>1, <2>3, <2>5
<1> QED
  BY <1>8, <1>11, <1>12, <1>13

(* A domain is unloaded and unlinks nothing: counts stay too high.         *)
LEMMA UnloadKeeps ==
  ASSUME NEW n \in Domains, Unload(n),
         Types, NamesAgree, UsersCounted, PagesHeld
  PROVE  Types' /\ NamesAgree' /\ UsersCounted' /\ PagesHeld'
<1>1. /\ hold' = [hold EXCEPT ![n] = Nothing] /\ page' = [page EXCEPT ![n] = Unmapped]
      /\ shrunk' = shrunk \ {n} /\ UNCHANGED <<seg, linux, lshm, tracer>>
  BY DEF Unload
<1>2. Types'
  BY <1>1 DEF Types, Holdings, Nothing, Unmapped
<1>3. /\ hold'[n] = Nothing /\ page'[n] = Unmapped
      /\ \A m \in Domains : m # n => hold'[m] = hold[m] /\ page'[m] = page[m]
  BY <1>1 DEF Types
<1>4. NamesAgree'
  BY <1>1, <1>2, <1>3, NamesKept
<1>5. ASSUME NEW s \in Segs
      PROVE  seg'[s].users >= Cardinality(Held(s)') + File(s)' + Traced(s)'
  <2>1. File(s)' = File(s) /\ Traced(s)' = Traced(s) /\ File(s) \in Nat /\ Traced(s) \in Nat
    BY <1>1 DEF File, Traced
  <2>2. Held(s)' \subseteq Held(s)
    BY <1>3, NoSegIsNone DEF Held, Nothing
  <2>3. Cardinality(Held(s)') <= Cardinality(Held(s))
    BY <2>2, HeldFinite, FS_Subset
  <2>4. Cardinality(Held(s)') \in Nat /\ Cardinality(Held(s)) \in Nat
    BY <2>2, HeldFinite, FS_Subset, FS_CardinalityType
  <2>5. seg[s].users >= Cardinality(Held(s)) + File(s) + Traced(s) /\ seg[s].users \in Int
    BY DEF UsersCounted, Types, Segments
  <2> QED
    BY <1>1, <2>1, <2>3, <2>4, <2>5
<1>6. UsersCounted'
  BY <1>5 DEF UsersCounted
<1>7. PagesHeld'
  BY <1>1, <1>3 DEF PagesHeld, Unmapped
<1> QED
  BY <1>2, <1>4, <1>6, <1>7

-----------------------------------------------------------------------------
(* prtk_shm_open.  A segment that is created belonged to nobody, and       *)
(* nobody had its name.                                                    *)
LEMMA OpenKeeps ==
  ASSUME NEW n \in Domains, NEW name \in Names, Open(n, name),
         Types, NamesAgree, UsersCounted, PagesHeld
  PROVE  Types' /\ NamesAgree' /\ UsersCounted' /\ PagesHeld'
<1> DEFINE s == Created(name, n).index
<1>1. hold[n] = Nothing /\ s \in Segs /\ seg' = Created(name, n).seg
      /\ UNCHANGED <<page, linux, lshm, tracer, shrunk>>
      /\ hold' = [hold EXCEPT ![n] = [name |-> name, seg |-> s, at |-> "open"]]
  BY ByNameFinds, FreeSegFinds DEF Open, Created
<1>2. \/ seg[s].name = name /\ seg' = [seg EXCEPT ![s].users = @ + 1]
      \/ /\ \A t \in Segs : seg[t].name # name
         /\ seg[s].owner = Nil /\ seg' = [seg EXCEPT ![s] = Owned(name, n, s)]
  <2>1. CASE ByName(name) # NoSeg
    <3>1. s = ByName(name)
      BY <2>1 DEF Created
    <3>2. seg' = [seg EXCEPT ![s].users = @ + 1]
      BY <1>1, <2>1, <3>1 DEF Created
    <3> QED
      BY <2>1, <3>1, <3>2, ByNameFinds
  <2>2. CASE ByName(name) = NoSeg
    <3>1. s = FreeSeg
      BY <2>2 DEF Created
    <3>2. s # NoSeg
      BY <1>1, NoSegIsNone
    <3>3. seg' = [seg EXCEPT ![s] = Owned(name, n, s)]
      BY <1>1, <2>2, <3>1, <3>2 DEF Created
    <3>4. seg[s].owner = Nil
      BY <3>1, <3>2, FreeSegFinds
    <3> QED
      BY <2>2, <3>3, <3>4, ByNameFinds
  <2> QED
    BY <2>1, <2>2
<1>3. name # Nil /\ n # Nil
  BY ShmAssumption DEF Domains
<1> HIDE DEF s
<1>4. seg[s] \in Segments /\ seg[s].users \in Int
  BY <1>1 DEF Types, Segments
<1>5. /\ seg' \in [Segs -> Segments] /\ \A t \in Segs : t # s => seg'[t] = seg[t]
      /\ seg'[s].users = seg[s].users + 1 /\ seg'[s].name = name
      /\ \/ seg'[s].owner = seg[s].owner /\ seg'[s].size = seg[s].size /\ seg[s].name = name
         \/ /\ seg'[s].owner = n /\ seg[s].owner = Nil
            /\ \A t \in Segs : seg[t].name # name
  <2>1. CASE seg[s].name = name /\ seg' = [seg EXCEPT ![s].users = @ + 1]
    <3>1. seg'[s] = [seg[s] EXCEPT !.users = @ + 1] /\ \A t \in Segs : t # s => seg'[t] = seg[t]
      BY <1>1, <2>1 DEF Types
    <3>4. [seg[s] EXCEPT !.users = @ + 1] \in Segments
      BY <1>4 DEF Segments
    <3>2. seg' \in [Segs -> Segments]
      BY <1>1, <2>1, <3>4 DEF Types
    <3>3. /\ seg'[s].users = seg[s].users + 1 /\ seg'[s].name = seg[s].name
          /\ seg'[s].owner = seg[s].owner /\ seg'[s].size = seg[s].size
      BY <1>4, <3>1 DEF Segments
    <3> QED
      BY <2>1, <3>1, <3>2, <3>3
  <2>2. CASE /\ \A t \in Segs : seg[t].name # name
             /\ seg[s].owner = Nil /\ seg' = [seg EXCEPT ![s] = Owned(name, n, s)]
    <3>1. Owned(name, n, s) \in Segments
      BY <1>4, ShmAssumption DEF Owned, Segments
    <3> QED
      BY <1>1, <1>4, <2>2, <3>1 DEF Types, Owned
  <2> QED
    BY <1>2, <2>1, <2>2
<1>6. /\ hold' \in [Domains -> Holdings] /\ hold'[n] # Nothing
      /\ hold'[n].seg = s /\ hold'[n].name = name /\ hold'[n].at = "open"
      /\ \A m \in Domains : m # n => hold'[m] = hold[m]
  <2> DEFINE h == [name |-> name, seg |-> s, at |-> "open"]
  <2>1. h \in Holdings
    BY <1>1 DEF Holdings
  <2>2. h.seg = s /\ h.name = name /\ h.at = "open" /\ h # Nothing
    BY DEF Nothing
  <2>3. hold' = [hold EXCEPT ![n] = h]
    BY <1>1
  <2> HIDE DEF h
  <2> QED
    BY <2>1, <2>2, <2>3 DEF Types
<1>7. Types'
  BY <1>1, <1>5, <1>6 DEF Types
<1>8. seg[s].owner = Nil => /\ \A m \in Domains : hold[m].seg # s
                            /\ \A m \in Names : lshm[m] # s
  <2> SUFFICES ASSUME seg[s].owner = Nil
               PROVE  /\ \A m \in Domains : hold[m].seg # s
                      /\ \A m \in Names : lshm[m] # s
    OBVIOUS
  <2>1. seg[s].name = Nil
    BY <1>1 DEF NamesAgree
  <2>2. \A m \in Domains : hold[m].seg # s
    BY <1>1, <2>1, NoSegIsNone, ShmAssumption DEF NamesAgree, Nothing
  <2>3. \A m \in Names : lshm[m] # s
    BY <1>1, <2>1, NoSegIsNone, ShmAssumption DEF NamesAgree
  <2> QED
    BY <2>2, <2>3
<1>9. NamesAgree'
  <2>1. \A t \in Segs : seg'[t].name = Nil <=> seg'[t].owner = Nil
    BY <1>1, <1>3, <1>5 DEF NamesAgree
  <2>2. ASSUME NEW t \in Segs, NEW u \in Segs, t # u, seg'[t].name # Nil
        PROVE  seg'[t].name # seg'[u].name
    BY <1>1, <1>5, <2>2 DEF NamesAgree
  <2>3. ASSUME NEW m \in Domains, hold'[m] # Nothing
        PROVE  hold'[m].seg \in Segs /\ hold'[m].name \in Names /\ seg'[hold'[m].seg].name = hold'[m].name
    BY <1>1, <1>5, <1>6, <1>8, <2>3 DEF NamesAgree
  <2>4. ASSUME NEW m \in Names, lshm'[m] # NoSeg
        PROVE  seg'[lshm'[m]].name = m
    <3>1. lshm'[m] = lshm[m] /\ lshm[m] \in Segs /\ seg[lshm[m]].name = m
      BY <1>1, <2>4 DEF Types, NamesAgree
    <3> QED
      BY <1>5, <1>8, <3>1
  <2> QED
    BY <2>1, <2>2, <2>3, <2>4 DEF NamesAgree
<1>10. UsersCounted'
  <2> SUFFICES ASSUME NEW t \in Segs
               PROVE  seg'[t].users >= Cardinality(Held(t)') + File(t)' + Traced(t)'
    BY DEF UsersCounted
  <2>1. File(t)' = File(t) /\ Traced(t)' = Traced(t) /\ File(t) \in Nat /\ Traced(t) \in Nat
    BY <1>1 DEF File, Traced
  <2>2. seg[t].users >= Cardinality(Held(t)) + File(t) + Traced(t) /\ seg[t].users \in Int
    BY DEF UsersCounted, Types, Segments
  <2>3. CASE t = s
    <3>1. Held(t)' = Held(t) \cup {n} /\ n \notin Held(t)
      BY <1>1, <1>6, <2>3, NoSegIsNone DEF Held, Nothing
    <3>2. Cardinality(Held(t)') = Cardinality(Held(t)) + 1
      BY <3>1, HeldFinite, FS_AddElement
    <3> QED
      BY <1>5, <2>1, <2>2, <2>3, <3>2, HeldFinite
  <2>4. CASE t # s
    <3>1. Held(t)' = Held(t)
      BY <1>1, <1>6, <2>4, NoSegIsNone DEF Held, Nothing
    <3>2. seg'[t] = seg[t]
      BY <1>5, <2>4
    <3> QED
      BY <2>1, <2>2, <3>1, <3>2
  <2> QED
    BY <2>3, <2>4
<1>11. PagesHeld'
  <2> SUFFICES ASSUME NEW m \in Domains \ shrunk', NEW i \in Pages, page'[m][i] # NoSeg
               PROVE  /\ hold'[m].seg = page'[m][i] /\ hold'[m].at = "on"
                      /\ i <= seg'[page'[m][i]].size
    BY DEF PagesHeld
  <2>1. hold[m].seg = page[m][i] /\ hold[m].at = "on" /\ i <= seg[page[m][i]].size
    BY <1>1 DEF PagesHeld
  <2>2. m # n /\ page[m][i] \in Segs
    BY <1>1, <2>1 DEF Types, Nothing
  <2>3. seg'[page[m][i]].size = seg[page[m][i]].size
    BY <1>5, <1>8, <2>1, <2>2
  <2> QED
    BY <1>1, <1>6, <2>1, <2>2, <2>3
<1> QED
  BY <1>7, <1>9, <1>10, <1>11

-----------------------------------------------------------------------------
(* lshm_release gives a file's segment back as a domain does.              *)
LEMMA ReleaseKeeps ==
  ASSUME NEW name \in Names, Release(name),
         Types, NamesAgree, UsersCounted, PagesHeld
  PROVE  Types' /\ NamesAgree' /\ UsersCounted' /\ PagesHeld'
<1> DEFINE s == lshm[name]
           c == Cardinality(Held(s)) + Traced(s)
<1>1. s \in Segs /\ seg[s].name = name /\ seg' = Unlinked(Root, s)
      /\ lshm' = [lshm EXCEPT ![name] = NoSeg]
      /\ UNCHANGED <<hold, page, linux, tracer, shrunk>>
  BY DEF Release, Types, NamesAgree
<1>2. c \in Nat /\ Traced(s) \in Nat /\ Cardinality(Held(s)) \in Nat /\ File(s) = 1
  BY HeldFinite DEF Traced, File
<1>3. seg[s].users >= c + 1
  <2>1. seg[s].users >= Cardinality(Held(s)) + File(s) + Traced(s) /\ seg[s].users \in Int
    BY <1>1 DEF UsersCounted, Types, Segments
  <2> QED
    BY <1>2, <2>1
<1>4. /\ seg' \in [Segs -> Segments]
      /\ \A t \in Segs : t # s => seg'[t] = seg[t]
      /\ seg'[s].users >= c
      /\ \/ seg'[s].name = seg[s].name /\ seg'[s].owner = seg[s].owner /\ seg'[s].size = seg[s].size
         \/ c = 0 /\ seg'[s].name = Nil /\ seg'[s].owner = Nil
  <2> HIDE DEF c, s
  <2>1. seg \in [Segs -> Segments] /\ s \in Segs /\ c \in Nat /\ seg[s].users >= c + 1
    BY <1>1, <1>2, <1>3 DEF Types
  <2> QED
    BY <1>1, <2>1, UnlinkOne
<1>5. Types'
  BY <1>1, <1>4 DEF Types
<1>6. lshm'[name] = NoSeg /\ \A m \in Names : m # name => lshm'[m] = lshm[m]
  BY <1>1 DEF Types
<1>7. \A m \in Names : lshm'[m] # s
  BY <1>1, <1>6, NoSegIsNone DEF NamesAgree
<1>8. c = 0 => \A m \in Domains : hold'[m].seg # s
  <2> SUFFICES ASSUME c = 0 PROVE \A m \in Domains : hold'[m].seg # s
    OBVIOUS
  <2>1. Cardinality(Held(s)) = 0
    BY <1>2
  <2>2. Held(s) = {}
    BY <2>1, HeldFinite, FS_EmptySet
  <2> QED
    BY <1>1, <2>2 DEF Held
<1> HIDE DEF c, s
<1>9. NamesAgree'
  <2>1. ASSUME NEW t \in Segs, t # s
        PROVE  seg'[t].name = seg[t].name /\ seg'[t].owner = seg[t].owner
    BY <1>4, <2>1
  <2>2. \A t \in Segs :
           \/ seg'[t].name = seg[t].name /\ seg'[t].owner = seg[t].owner
           \/ /\ seg'[t].name = Nil /\ seg'[t].owner = Nil
              /\ \A m \in Domains : hold'[m].seg # t
              /\ \A m \in Names : lshm'[m] # t
    BY <1>4, <1>7, <1>8, <2>1
  <2>3. \A m \in Domains :
           \/ hold'[m] = Nothing
           \/ hold[m] # Nothing /\ hold'[m].seg = hold[m].seg /\ hold'[m].name = hold[m].name
    BY <1>1
  <2>4. \A m \in Names : lshm'[m] = NoSeg \/ lshm'[m] = lshm[m]
    BY <1>6
  <2> QED
    BY <1>5, <2>2, <2>3, <2>4, NamesKept
<1>10. UsersCounted'
  <2> SUFFICES ASSUME NEW t \in Segs
               PROVE  seg'[t].users >= Cardinality(Held(t)') + File(t)' + Traced(t)'
    BY DEF UsersCounted
  <2>1. Held(t)' = Held(t) /\ Traced(t)' = Traced(t)
    BY <1>1 DEF Held, Traced
  <2>2. CASE t = s
    <3>1. File(t)' = 0
      BY <1>7, <2>2 DEF File
    <3> QED
      BY <1>2, <1>4, <2>1, <2>2, <3>1 DEF c
  <2>3. CASE t # s
    <3>1. File(t)' = File(t)
      BY <1>1, <1>6, <2>3, NoSegIsNone DEF File, s
    <3>2. seg'[t] = seg[t]
      BY <1>4, <2>3
    <3> QED
      BY <2>1, <3>1, <3>2 DEF UsersCounted
  <2> QED
    BY <2>2, <2>3
<1>11. PagesHeld'
  <2> SUFFICES ASSUME NEW m \in Domains \ shrunk', NEW i \in Pages, page'[m][i] # NoSeg
               PROVE  /\ hold'[m].seg = page'[m][i] /\ hold'[m].at = "on"
                      /\ i <= seg'[page'[m][i]].size
    BY DEF PagesHeld
  <2>1. hold[m].seg = page[m][i] /\ hold[m].at = "on" /\ i <= seg[page[m][i]].size
    BY <1>1 DEF PagesHeld
  <2>2. page[m][i] \in Segs
    BY <1>1 DEF Types
  <2>3. seg'[page[m][i]].size = seg[page[m][i]].size
    BY <1>1, <1>4, <1>8, <2>1, <2>2
  <2> QED
    BY <1>1, <2>1, <2>3
<1> QED
  BY <1>5, <1>9, <1>10, <1>11

(* xm_shm_open in Linux stores what it has looked for, if that is still so.*)
LEMMA TakeKeeps ==
  ASSUME Take, StillSo, Types, NamesAgree, UsersCounted, PagesHeld
  PROVE  Types' /\ NamesAgree' /\ UsersCounted' /\ PagesHeld'
<1> DEFINE s == linux.seg
           name == linux.name
           old == IF linux.at = "found" THEN seg[s] ELSE Owned(name, Root, s)
           new == [old EXCEPT !.users = seg[s].users + 2]
<1>1. s \in Segs /\ name \in Names /\ seg[s] \in Segments /\ seg[s].users \in Int
  BY DEF Take, Types, Segments
<1>2. /\ seg' = [seg EXCEPT ![s] = new] /\ linux' = Idle
      /\ UNCHANGED <<hold, page, shrunk>>
      /\ \/ lshm' = [lshm EXCEPT ![name] = s] /\ UNCHANGED tracer
         \/ tracer' = Append(tracer, s) /\ UNCHANGED lshm
  BY DEF Take
<1>3. name # Nil /\ Root # Nil
  BY <1>1, ShmAssumption DEF Root
<1>4. /\ new \in Segments /\ new.users = seg[s].users + 2 /\ new.name = name
      /\ \/ new.owner = seg[s].owner /\ new.size = seg[s].size /\ seg[s].name = name
         \/ /\ new.owner = Root /\ seg[s].owner = Nil
            /\ \A t \in Segs : seg[t].name # name
  <2>1. CASE linux.at = "found"
    <3>1. new = [seg[s] EXCEPT !.users = seg[s].users + 2] /\ seg[s].name = name
      BY <2>1 DEF StillSo
    <3> QED
      BY <1>1, <3>1 DEF Segments
  <2>2. CASE linux.at # "found"
    <3>1. new = [Owned(name, Root, s) EXCEPT !.users = seg[s].users + 2]
      BY <2>2
    <3>2. seg[s].owner = Nil /\ \A t \in Segs : seg[t].name # name
      BY <1>1, <2>2, ByNameFinds DEF StillSo
    <3>3. new = [name |-> name, owner |-> Root, size |-> MaxPages, users |-> seg[s].users + 2]
      BY <3>1 DEF Owned
    <3> QED
      BY <1>1, <3>2, <3>3, ShmAssumption DEF Segments
  <2> QED
    BY <2>1, <2>2
<1> HIDE DEF new, old
<1>5. /\ seg' \in [Segs -> Segments] /\ seg'[s] = new
      /\ \A t \in Segs : t # s => seg'[t] = seg[t]
  BY <1>1, <1>2, <1>4 DEF Types
<1>6. lshm' \in [Names -> Segs \cup {NoSeg}] /\ tracer' \in Seq(Segs)
  <2>1. lshm \in [Names -> Segs \cup {NoSeg}] /\ tracer \in Seq(Segs)
    BY DEF Types
  <2>2. CASE lshm' = [lshm EXCEPT ![name] = s] /\ UNCHANGED tracer
    BY <1>1, <2>1, <2>2
  <2>3. CASE tracer' = Append(tracer, s) /\ UNCHANGED lshm
    <3>1. Append(tracer, s) \in Seq(Segs)
      BY <1>1, <2>1
    <3> QED
      BY <2>1, <2>3, <3>1
  <2> QED
    BY <1>2, <2>2, <2>3
<1>7. Types'
  BY <1>2, <1>5, <1>6 DEF Types, Idle
<1>8. seg[s].owner = Nil => /\ \A m \in Domains : hold[m].seg # s
                            /\ \A m \in Names : lshm[m] # s
  <2> SUFFICES ASSUME seg[s].owner = Nil
               PROVE  /\ \A m \in Domains : hold[m].seg # s
                      /\ \A m \in Names : lshm[m] # s
    OBVIOUS
  <2>1. seg[s].name = Nil
    BY <1>1 DEF NamesAgree
  <2>2. \A m \in Domains : hold[m].seg # s
    BY <1>1, <2>1, NoSegIsNone, ShmAssumption DEF NamesAgree, Nothing
  <2>3. \A m \in Names : lshm[m] # s
    BY <1>1, <2>1, NoSegIsNone, ShmAssumption DEF NamesAgree
  <2> QED
    BY <2>2, <2>3
<1> HIDE DEF s, name
<1>9. NamesAgree'
  <2>1. \A t \in Segs : seg'[t].name = Nil <=> seg'[t].owner = Nil
    BY <1>1, <1>3, <1>4, <1>5 DEF NamesAgree
  <2>2. ASSUME NEW t \in Segs, NEW u \in Segs, t # u, seg'[t].name # Nil
        PROVE  seg'[t].name # seg'[u].name
    BY <1>1, <1>4, <1>5, <2>2 DEF NamesAgree
  <2>3. ASSUME NEW m \in Domains, hold'[m] # Nothing
        PROVE  hold'[m].seg \in Segs /\ hold'[m].name \in Names /\ seg'[hold'[m].seg].name = hold'[m].name
    BY <1>2, <1>4, <1>5, <1>8, <2>3 DEF NamesAgree
  <2>4. ASSUME NEW m \in Names, lshm'[m] # NoSeg
        PROVE  seg'[lshm'[m]].name = m
    <3>1. CASE lshm'[m] = lshm[m]
      <4>1. lshm[m] \in Segs /\ seg[lshm[m]].name = m
        BY <2>4, <3>1 DEF Types, NamesAgree
      <4> QED
        BY <1>4, <1>5, <1>8, <3>1, <4>1
    <3>2. CASE lshm'[m] # lshm[m]
      <4>1. m = name /\ lshm'[m] = s
        BY <1>1, <1>2, <3>2 DEF Types
      <4> QED
        BY <1>4, <1>5, <4>1
    <3> QED
      BY <3>1, <3>2
  <2> QED
    BY <2>1, <2>2, <2>3, <2>4 DEF NamesAgree
<1>10. UsersCounted'
  <2> SUFFICES ASSUME NEW t \in Segs
               PROVE  seg'[t].users >= Cardinality(Held(t)') + File(t)' + Traced(t)'
    BY DEF UsersCounted
  <2>1. Held(t)' = Held(t)
    BY <1>2 DEF Held
  <2>2. /\ seg[t].users >= Cardinality(Held(t)) + File(t) + Traced(t)
        /\ seg[t].users \in Int /\ Cardinality(Held(t)) \in Nat
        /\ File(t) \in {0, 1} /\ Traced(t) \in {0, 1}
        /\ File(t)' \in {0, 1} /\ Traced(t)' \in {0, 1}
    BY HeldFinite DEF UsersCounted, Types, Segments, File, Traced
  <2>3. CASE t = s
    BY <1>2, <1>4, <1>5, <2>1, <2>2, <2>3 DEF File, Traced
  <2>4. CASE t # s
    <3>1. seg'[t] = seg[t]
      BY <1>5, <2>4
    <3>2. (\E m \in Names : lshm'[m] = t) => \E m \in Names : lshm[m] = t
      BY <1>1, <1>2, <2>4 DEF Types
    <3>3. (\E i \in DOMAIN tracer' : tracer'[i] = t) => \E i \in DOMAIN tracer : tracer[i] = t
      BY <1>1, <1>2, <2>4 DEF Types
    <3>4. File(t)' <= File(t) /\ Traced(t)' <= Traced(t)
      BY <3>2, <3>3 DEF File, Traced
    <3> QED
      BY <2>1, <2>2, <3>1, <3>4
  <2> QED
    BY <2>3, <2>4
<1>11. PagesHeld'
  <2> SUFFICES ASSUME NEW m \in Domains \ shrunk', NEW i \in Pages, page'[m][i] # NoSeg
               PROVE  /\ hold'[m].seg = page'[m][i] /\ hold'[m].at = "on"
                      /\ i <= seg'[page'[m][i]].size
    BY DEF PagesHeld
  <2>1. hold[m].seg = page[m][i] /\ hold[m].at = "on" /\ i <= seg[page[m][i]].size
    BY <1>2 DEF PagesHeld
  <2>2. page[m][i] \in Segs
    BY <1>2 DEF Types
  <2>3. seg'[page[m][i]].size = seg[page[m][i]].size
    BY <1>4, <1>5, <1>8, <2>1, <2>2
  <2> QED
    BY <1>2, <2>1, <2>3
<1> QED
  BY <1>7, <1>9, <1>10, <1>11

(* cleanup_module of the tracer, if the segments it unlinks are its own.   *)
LEMMA CleanupKeeps ==
  ASSUME Cleanup, Firsts = {tracer[i] : i \in DOMAIN tracer},
         Types, NamesAgree, UsersCounted, PagesHeld
  PROVE  Types' /\ NamesAgree' /\ UsersCounted' /\ PagesHeld'
<1>1. /\ seg' = [s \in Segs |-> IF s \in Firsts THEN Unlinked(Root, s)[s] ELSE seg[s]]
      /\ tracer' = <<>> /\ UNCHANGED <<hold, page, linux, lshm, shrunk>>
  BY DEF Cleanup
<1>2. ASSUME NEW s \in Segs
      PROVE  /\ seg'[s] \in Segments
             /\ seg'[s].users >= Cardinality(Held(s)) + File(s)
             /\ \/ seg'[s].name = seg[s].name /\ seg'[s].owner = seg[s].owner /\ seg'[s].size = seg[s].size
                \/ /\ seg'[s].name = Nil /\ seg'[s].owner = Nil
                   /\ \A n \in Domains : hold[n].seg # s
                   /\ \A m \in Names : lshm[m] # s
  <2> DEFINE c == Cardinality(Held(s)) + File(s)
  <2>1. /\ c \in Nat /\ Cardinality(Held(s)) \in Nat /\ File(s) \in Nat
        /\ Traced(s) \in {0, 1} /\ seg[s].users \in Int
        /\ seg[s].users >= c + Traced(s)
    BY HeldFinite DEF File, Traced, UsersCounted, Types, Segments
  <2>2. CASE s \notin Firsts
    BY <1>1, <2>1, <2>2 DEF Types
  <2>3. CASE s \in Firsts
    <3>1. Traced(s) = 1
      BY <2>3 DEF Traced
    <3>2. seg[s].users >= c + 1
      BY <2>1, <3>1
    <3>3. seg'[s] = Unlinked(Root, s)[s]
      BY <1>1, <2>3
    <3>4. c = 0 => /\ \A n \in Domains : hold[n].seg # s
                   /\ \A m \in Names : lshm[m] # s
      <4> SUFFICES ASSUME c = 0 PROVE /\ \A n \in Domains : hold[n].seg # s
                                      /\ \A m \in Names : lshm[m] # s
        OBVIOUS
      <4>1. Cardinality(Held(s)) = 0 /\ File(s) = 0
        BY <2>1
      <4>2. Held(s) = {}
        BY <4>1, HeldFinite, FS_EmptySet
      <4> QED
        BY <4>1, <4>2 DEF Held, File
    <3>5. seg \in [Segs -> Segments]
      BY DEF Types
    <3> HIDE DEF c
    <3>6. /\ Unlinked(Root, s) \in [Segs -> Segments]
          /\ Unlinked(Root, s)[s].users >= c
          /\ \/ /\ Unlinked(Root, s)[s].name = seg[s].name
                /\ Unlinked(Root, s)[s].owner = seg[s].owner
                /\ Unlinked(Root, s)[s].size = seg[s].size
             \/ c = 0 /\ Unlinked(Root, s)[s].name = Nil /\ Unlinked(Root, s)[s].owner = Nil
      BY <2>1, <3>2, <3>5, UnlinkOne
    <3> QED
      BY <3>3, <3>4, <3>6 DEF c
  <2> QED
    BY <2>2, <2>3
<1>3. Types'
  <2>1. seg' \in [Segs -> Segments]
    BY <1>1, <1>2
  <2> QED
    BY <1>1, <2>1 DEF Types
<1>4. NamesAgree'
  BY <1>1, <1>2, <1>3, NamesKept
<1>5. UsersCounted'
  <2> SUFFICES ASSUME NEW s \in Segs
               PROVE  seg'[s].users >= Cardinality(Held(s)') + File(s)' + Traced(s)'
    BY DEF UsersCounted
  <2>1. Held(s)' = Held(s) /\ File(s)' = File(s) /\ Traced(s)' = 0
    BY <1>1 DEF Held, File, Traced
  <2>2. Cardinality(Held(s)) \in Nat /\ File(s) \in Nat
    BY HeldFinite DEF File
  <2> QED
    BY <1>2, <2>1, <2>2
<1>6. PagesHeld'
  <2> SUFFICES ASSUME NEW m \in Domains \ shrunk', NEW i \in Pages, page'[m][i] # NoSeg
               PROVE  /\ hold'[m].seg = page'[m][i] /\ hold'[m].at = "on"
                      /\ i <= seg'[page'[m][i]].size
    BY DEF PagesHeld
  <2>1. hold[m].seg = page[m][i] /\ hold[m].at = "on" /\ i <= seg[page[m][i]].size
    BY <1>1 DEF PagesHeld
  <2>2. page[m][i] \in Segs
    BY <1>1 DEF Types
  <2> QED
    BY <1>1, <1>2, <2>1, <2>2
<1> QED
  BY <1>3, <1>4, <1>5, <1>6

-----------------------------------------------------------------------------
(* The steps of Linux that only look.                                      *)
LEMMA LookKeeps ==
  ASSUME (\E name \in Names : \E by \in {"lshm", "trace"} : Look(by, name)) \/ Pick,
         Types, NamesAgree, UsersCounted, PagesHeld
  PROVE  Types' /\ NamesAgree' /\ UsersCounted' /\ PagesHeld'
<1>1. UNCHANGED <<seg, hold, page, lshm, shrunk>> /\ (tracer' = tracer \/ tracer' = <<>>)
  BY DEF Look, Pick
<1>2. Types'
  <2>1. ASSUME NEW name \in Names, NEW by \in {"lshm", "trace"}, Look(by, name)
        PROVE  Types'
    <3>1. ByName(name) \in Segs \cup {NoSeg}
      BY ByNameFinds
    <3> QED
      BY <2>1, <3>1 DEF Look, Types
  <2>2. CASE Pick
    <3>1. CASE FreeSeg = NoSeg
      <4>1. linux' = Idle /\ linux'.at = "idle"
        BY <2>2, <3>1 DEF Pick, Idle
      <4>2. Idle \in [by : {"lshm", "trace", Nil}, name : Names \cup {Nil},
                      seg : Segs \cup {NoSeg}, at : {"idle", "found", "picked"}]
        BY DEF Idle
      <4>3. tracer' \in Seq(Segs)
        <5>1. tracer \in Seq(Segs) /\ << >> \in Seq(Segs)
          BY DEF Types
        <5> QED
          BY <1>1, <5>1
      <4>4. linux' \in [by : {"lshm", "trace", Nil}, name : Names \cup {Nil},
                        seg : Segs \cup {NoSeg}, at : {"idle", "found", "picked"}]
        BY <4>1, <4>2
      <4>5. linux'.at # "idle" => linux'.name \in Names
        BY <4>1
      <4> QED
        BY <1>1, <4>3, <4>4, <4>5 DEF Types
    <3>2. CASE FreeSeg # NoSeg
      BY <2>2, <3>2, FreeSegFinds DEF Pick, Types
    <3> QED
      BY <3>1, <3>2
  <2> QED
    BY <2>1, <2>2
<1>3. NamesAgree' /\ PagesHeld'
  BY <1>1 DEF NamesAgree, PagesHeld
<1>4. UsersCounted'
  <2> SUFFICES ASSUME NEW s \in Segs
               PROVE  seg'[s].users >= Cardinality(Held(s)') + File(s)' + Traced(s)'
    BY DEF UsersCounted
  <2>1. Held(s)' = Held(s) /\ File(s)' = File(s)
    BY <1>1 DEF Held, File
  <2>2. Traced(s)' \in {0, 1} /\ Traced(s) \in {0, 1} /\ Traced(s)' <= Traced(s)
    BY <1>1 DEF Traced
  <2>3. Cardinality(Held(s)) \in Nat /\ File(s) \in Nat /\ seg[s].users \in Int
        /\ seg[s].users >= Cardinality(Held(s)) + File(s) + Traced(s)
    BY HeldFinite DEF File, UsersCounted, Types, Segments
  <2> QED
    BY <1>1, <2>1, <2>2, <2>3
<1> QED
  BY <1>2, <1>3, <1>4

LEMMA ShmNext == ShmInv /\ [Next]_vars => ShmInv'
<1> SUFFICES ASSUME ShmInv, [Next]_vars, ~spoilt'
             PROVE  Types' /\ NamesAgree' /\ UsersCounted' /\ PagesHeld'
  BY DEF ShmInv
<1>1. CASE UNCHANGED <<seg, hold, page, linux, lshm, tracer, shrunk, spoilt>>
  <2>1. Types /\ NamesAgree /\ UsersCounted /\ PagesHeld
    BY <1>1 DEF ShmInv
  <2> QED
    BY <1>1, <2>1 DEF Types, NamesAgree, UsersCounted, PagesHeld, Held, File, Traced
<1>2. ASSUME Next, Types, NamesAgree, UsersCounted, PagesHeld
      PROVE  Types' /\ NamesAgree' /\ UsersCounted' /\ PagesHeld'
  <2>1. ASSUME NEW n \in Domains, Load(n)
        PROVE  Types' /\ NamesAgree' /\ UsersCounted' /\ PagesHeld'
    BY <1>1, <2>1 DEF Load
  <2>2. CASE Take
    <3>1. StillSo
      BY <2>2 DEF Take
    <3> QED
      BY <1>2, <2>2, <3>1, TakeKeeps
  <2>3. CASE Cleanup
    <3>1. Firsts = {tracer[i] : i \in DOMAIN tracer}
      BY <2>3 DEF Cleanup
    <3> QED
      BY <1>2, <2>3, <3>1, CleanupKeeps
  <2> QED
    BY <1>2, <2>1, <2>2, <2>3, OpenKeeps, TruncateKeeps, MapKeeps, UnlinkKeeps, UnloadKeeps,
       ReleaseKeeps, LookKeeps DEF Next, LinuxStep
<1> QED
  BY <1>1, <1>2 DEF ShmInv, Next, vars

LEMMA ShmInvariant == Spec => []ShmInv
BY ShmInit, ShmNext, PTL DEF Spec

(* xm_shm_create, xm_shm_unlink and the clients: two that have opened one  *)
(* name share one segment.                                                 *)
THEOREM OneNameOneSegment == Spec => []SameSegment
<1>1. ShmInv => SameSegment
  BY DEF ShmInv, NamesAgree, SameSegment
<1> QED
  BY <1>1, ShmInvariant, PTL

(* xm_shm_unlink and XM_SHM_MAP: no domain has a page of memory that has   *)
(* been given back.                                                        *)
THEOREM FreedIsUnmapped == Spec => []NoDanglingPage
<1>1. ShmInv => NoDanglingPage
  <2> SUFFICES ASSUME Types, NamesAgree, PagesHeld, ~spoilt,
                      NEW n \in Domains \ shrunk, NEW i \in Pages, page[n][i] # NoSeg
               PROVE  /\ hold[n].seg = page[n][i] /\ hold[n].at = "on"
                      /\ seg[page[n][i]].owner # Nil
    BY DEF ShmInv, NoDanglingPage
  <2>1. hold[n].seg = page[n][i] /\ hold[n].at = "on"
    BY DEF PagesHeld
  <2>2. hold[n] # Nothing
    BY <2>1 DEF Nothing
  <2>3. seg[page[n][i]].name \in Names /\ page[n][i] \in Segs
    BY <2>1, <2>2 DEF NamesAgree
  <2> QED
    BY <2>1, <2>3, ShmAssumption DEF NamesAgree
<1> QED
  BY <1>1, ShmInvariant, PTL

-----------------------------------------------------------------------------
(* The types of the segments, their counts included: a segment is unlinked *)
(* by a client that it counts, and by the tracer's module even if it is    *)
(* not, which is where a count may become negative, once.                  *)
Sized == [name : Names \cup {Nil}, owner : Domains \cup {Root, Nil},
          size : 0 .. MaxPages, users : -1 .. MaxUsers]

LEMMA UnlinkedTyped ==
  ASSUME NEW n, NEW s \in Segs, seg \in [Segs -> Sized], seg[s].users >= 0
  PROVE  Unlinked(n, s) \in [Segs -> Sized]
<1>1. seg[s] \in Sized /\ seg[s].users \in 0 .. MaxUsers /\ MaxUsers \in Nat /\ MaxPages \in Nat
  BY ShmAssumption DEF Sized
<1>2. CASE seg[s].owner # n
  BY <1>1, <1>2 DEF Unlinked, Sized
<1>3. CASE seg[s].owner = n /\ seg[s].users # 1
  BY <1>3 DEF Unlinked
<1>4. CASE seg[s].owner = n /\ seg[s].users = 1
  <2>1. [Free EXCEPT !.users = seg[s].users - 1] = [name |-> Nil, owner |-> Nil, size |-> 0, users |-> 0]
    BY <1>4 DEF Free
  <2>2. [Free EXCEPT !.users = seg[s].users - 1] \in Sized
    BY <1>1, <2>1 DEF Sized
  <2> QED
    BY <1>4, <2>2 DEF Unlinked
<1> QED
  BY <1>2, <1>3, <1>4

LEMMA CountsAreNatural ==
  ASSUME Types, UsersCounted, NEW s \in Segs
  PROVE  seg[s].users >= 0
<1>1. Cardinality(Held(s)) \in Nat /\ File(s) \in Nat /\ Traced(s) \in Nat /\ seg[s].users \in Int
  BY HeldFinite DEF File, Traced, Types, Segments
<1> QED
  BY <1>1 DEF UsersCounted

(* A segment that is created or found, for a domain or for Linux.          *)
LEMMA OwnedTyped ==
  ASSUME NEW n \in Domains \cup {Root}, NEW name \in Names, NEW s \in Segs,
         seg \in [Segs -> Sized], seg[s].users + 1 <= MaxUsers
  PROVE  Owned(name, n, s) \in Sized /\ Owned(name, n, s).users = seg[s].users + 1
<1>1. seg[s].users \in -1 .. MaxUsers /\ MaxUsers \in Nat /\ MaxPages \in Nat
  BY ShmAssumption DEF Sized
<1> QED
  BY <1>1 DEF Owned, Sized

LEMMA SegTyped ==
  ASSUME Next, seg \in [Segs -> Sized], Types, NamesAgree, UsersCounted
  PROVE  seg' \in [Segs -> Sized]
<1>1. ASSUME NEW n \in Domains, NEW name \in Names, Open(n, name)
      PROVE  seg' \in [Segs -> Sized]
  <2> DEFINE s == Created(name, n).index
  <2>1. s # NoSeg /\ seg' = Created(name, n).seg /\ seg'[s].users <= MaxUsers
    BY <1>1 DEF Open
  <2>2. s \in Segs
    BY <2>1, ByNameFinds, FreeSegFinds DEF Created
  <2>3. seg[s] \in Sized /\ MaxUsers \in Nat
    BY <2>2, ShmAssumption
  <2>4. CASE ByName(name) # NoSeg
    <3>1. seg' = [seg EXCEPT ![s].users = @ + 1]
      BY <2>1, <2>4 DEF Created
    <3> QED
      BY <2>1, <2>2, <2>3, <3>1 DEF Sized
  <2>5. CASE ByName(name) = NoSeg
    <3>1. seg' = [seg EXCEPT ![s] = Owned(name, n, s)]
      BY <2>1, <2>5 DEF Created
    <3>2. Owned(name, n, s).users = seg[s].users + 1
      BY DEF Owned
    <3>3. Owned(name, n, s) \in Sized
      BY <2>1, <2>2, <3>1, <3>2, OwnedTyped
    <3> QED
      BY <2>2, <3>1, <3>3
  <2> QED
    BY <2>4, <2>5
<1>2. ASSUME NEW n \in Domains, NEW k \in Pages, Truncate(n, k)
      PROVE  seg' \in [Segs -> Sized]
  <2>1. hold[n] # Nothing
    BY <1>2 DEF Truncate, Nothing
  <2>2. hold[n].seg \in Segs
    BY <2>1 DEF NamesAgree
  <2>3. k \in 0 .. MaxPages
    BY ShmAssumption DEF Pages
  <2> QED
    BY <1>2, <2>2, <2>3 DEF Truncate, Sized
<1>3. ASSUME NEW n \in Domains, Unlink(n)
      PROVE  seg' \in [Segs -> Sized]
  <2>1. hold[n] # Nothing
    BY <1>3 DEF Unlink, Nothing
  <2>2. hold[n].name \in Names
    BY <2>1 DEF NamesAgree
  <2> QED
    BY <1>3, <2>2, ByNameFinds, CountsAreNatural, UnlinkedTyped DEF Unlink
<1>4. CASE Take
  <2> DEFINE s == linux.seg
  <2>1. s \in Segs /\ linux.name \in Names /\ MaxUsers \in Nat
    BY <1>4, ShmAssumption DEF Take, Types
  <2>2. seg[s].users + 2 <= MaxUsers /\ seg[s] \in Sized
        /\ seg[s].users \in -1 .. MaxUsers
    BY <1>4, <2>1 DEF Take, Sized
  <2>3. Owned(linux.name, Root, s) \in Sized
    <3>1. seg[s].users + 1 <= MaxUsers
      BY <2>1, <2>2
    <3> HIDE DEF s
    <3> QED
      BY <2>1, <3>1, OwnedTyped
  <2> DEFINE old == IF linux.at = "found" THEN seg[s] ELSE Owned(linux.name, Root, s)
  <2>4. old \in Sized
    BY <2>2, <2>3
  <2>5. seg' = [seg EXCEPT ![s] = [old EXCEPT !.users = seg[s].users + 2]]
    BY <1>4 DEF Take
  <2> HIDE DEF old
  <2>6. seg[s].users + 2 \in -1 .. MaxUsers
    BY <2>1, <2>2
  <2>7. [old EXCEPT !.users = seg[s].users + 2] \in Sized
    BY <2>4, <2>6 DEF Sized
  <2> QED
    BY <2>1, <2>5, <2>7
<1>5. ASSUME NEW name \in Names, Release(name)
      PROVE  seg' \in [Segs -> Sized]
  <2>1. lshm[name] \in Segs
    BY <1>5 DEF Release, Types
  <2> QED
    BY <1>5, <2>1, CountsAreNatural, UnlinkedTyped DEF Release
<1>6. CASE Cleanup
  <2>1. \A s \in Segs : Unlinked(Root, s) \in [Segs -> Sized]
    BY CountsAreNatural, UnlinkedTyped
  <2> QED
    BY <1>6, <2>1 DEF Cleanup
<1>7. CASE UNCHANGED seg
  BY <1>7
<1> QED
  BY <1>1, <1>2, <1>3, <1>4, <1>5, <1>6, <1>7
     DEF Next, LinuxStep, Load, Unload, MapSeg, UnmapSeg, Look, Pick

LEMMA ShmTyped == ShmInv /\ TypeOK /\ [Next]_vars => TypeOK'
<1> SUFFICES ASSUME ShmInv, TypeOK, [Next]_vars PROVE TypeOK'
  OBVIOUS
<1>1. CASE UNCHANGED vars
  BY <1>1 DEF TypeOK, vars
<1>2. CASE Next
  <2>1. Types /\ NamesAgree /\ UsersCounted /\ PagesHeld /\ seg \in [Segs -> Sized]
    BY <1>2 DEF ShmInv, Next, TypeOK, Sized
  <2>2. seg' \in [Segs -> Sized]
    BY <1>2, <2>1, SegTyped
  <2>3. loaded' \subseteq Domains /\ shrunk' \subseteq Domains /\ spoilt' \in BOOLEAN
    BY <1>2 DEF TypeOK, Next, LinuxStep, Look, Pick, Take, Release, Cleanup, Load, Unload,
       MapSeg, UnmapSeg, Unlink, Open, Truncate, Behind
  <2>4. CASE ~spoilt'
    <3>1. Types'
      BY <1>2, <2>4, ShmNext DEF ShmInv
    <3> QED
      BY <2>2, <2>3, <3>1 DEF TypeOK, Types, Sized, Holdings
  <2>5. CASE spoilt'
    <3>1. Take \/ Cleanup
      BY <1>2, <2>5 DEF Next, LinuxStep, Look, Pick, Release, Load, Unload,
         MapSeg, UnmapSeg, Unlink, Open, Truncate
    <3>2. UNCHANGED <<hold, page>>
      BY <3>1 DEF Take, Cleanup
    <3>3. lshm' \in [Names -> Segs \cup {NoSeg}] /\ tracer' \in Seq(Segs)
      <4>1. lshm \in [Names -> Segs \cup {NoSeg}] /\ tracer \in Seq(Segs)
        BY DEF TypeOK
      <4>2. CASE Take
        <5>1. linux.seg \in Segs
          BY <2>1, <4>2 DEF Take, Types
        <5>2. Append(tracer, linux.seg) \in Seq(Segs)
          BY <4>1, <5>1
        <5> QED
          BY <4>1, <4>2, <5>1, <5>2 DEF Take
      <4>3. CASE Cleanup
        <5>1. tracer' = << >> /\ lshm' = lshm
          BY <4>3 DEF Cleanup
        <5> QED
          BY <4>1, <5>1
      <4> QED
        BY <3>1, <4>2, <4>3
    <3> QED
      BY <2>2, <2>3, <3>2, <3>3 DEF TypeOK, Sized
  <2> QED
    BY <2>4, <2>5
<1> QED
  BY <1>1, <1>2 DEF vars

(* xm_shm_create, xm_shm_unlink, XM_SHM_TRUNCATE and the tracer's cleanup: *)
(* the list, the clients and the pages mapped stay well formed, in a state *)
(* that a race in Linux has spoilt too.                                    *)
THEOREM WellTyped == Spec => []TypeOK
<1>1. Init => TypeOK
  <2> SUFFICES ASSUME Init PROVE TypeOK
    OBVIOUS
  <2>1. Free \in Sized /\ Nothing \in Holdings /\ Unmapped \in [Pages -> Segs \cup {NoSeg}]
    BY ShmAssumption DEF Free, Sized, Nothing, Holdings, Unmapped
  <2>2. << >> \in Seq(Segs)
    OBVIOUS
  <2>3. seg \in [Segs -> Sized] /\ hold \in [Domains -> Holdings]
    BY <2>1 DEF Init
  <2>4. page \in [Domains -> [Pages -> Segs \cup {NoSeg}]] /\ lshm \in [Names -> Segs \cup {NoSeg}]
    BY <2>1 DEF Init
  <2>5. loaded = {} /\ tracer = << >> /\ spoilt = FALSE /\ shrunk = {}
    BY DEF Init
  <2> QED
    BY <2>2, <2>3, <2>4, <2>5 DEF TypeOK, Sized, Holdings
<1> QED
  BY <1>1, ShmTyped, ShmInvariant, PTL DEF Spec
=============================================================================
