------------------------------- MODULE XmLoad -------------------------------
(***************************************************************************)
(* The domains and the devices they count on: load_domain_sys and          *)
(* unload_domain_sys with the list of domains, and the device table of     *)
(* xmdev.c with the modules that register FIFOs and serial lines.  All of  *)
(* it runs in Linux with interrupts off, one call at a time.               *)
(*                                                                         *)
(* A device module is removed only when nobody uses its device: its exit   *)
(* routine is refused by xm_dev_unregister and returns, but the module is  *)
(* gone all the same.                                                      *)
(***************************************************************************)
EXTENDS XmDomList

CONSTANTS
  Devices,  (* devices a load needs, in the order it looks for them        *)
  MaxLeaks  (* bound: failed loads that leave a device counted             *)

ASSUME LoadAssumption == Devices \in Seq(STRING) /\ MaxLeaks \in Nat

VARIABLES
  list,     (* xm_domain_list                                              *)
  devs,     (* the devices in devs, those whose bit is set in devmask      *)
  client,   (* client of each device                                       *)
  leaks     (* history: clients that failed loads have left behind         *)

loadVars == <<list, devs, client, leaks>>

DeviceIds == {Devices[i] : i \in DOMAIN Devices}

Loaded == LET w == Walk(list) IN {w[i] : i \in DOMAIN w}

(* xm_dev_register, by the init routine of a module that starts with a     *)
(* client of 0, and xm_dev_unregister, by its exit routine.                *)
Register(v) ==
  /\ v \notin devs
  /\ devs' = devs \cup {v}
  /\ client' = [client EXCEPT ![v] = 0]
  /\ UNCHANGED <<list, leaks>>

(* Mutant: a device is released whoever uses it.                           *)
UnregisterUsed(v) ==
  /\ v \in devs
  /\ devs' = devs \ {v}
  /\ UNCHANGED <<list, client, leaks>>

Unregister(v) ==
  /\ v \in devs /\ client[v] <= 0
  /\ devs' = devs \ {v}
  /\ UNCHANGED <<list, client, leaks>>

(* The devices before the first that is missing have counted the domain    *)
(* when load_domain_sys gives up.                                          *)
Found == {i \in DOMAIN Devices : \A j \in 1 .. i : Devices[j] \in devs}

CountedIn(D) == [v \in DeviceIds |-> IF v \in D THEN client[v] + 1 ELSE client[v]]

LoadDomain(n, p) ==
  /\ n \notin Loaded
  /\ DeviceIds \subseteq devs
  /\ list' = Inserted(list, n, p)
  /\ client' = CountedIn(DeviceIds)
  /\ UNCHANGED <<devs, leaks>>

(* Out of memory, before the devices are looked for, or a device that is   *)
(* missing: the node is removed again, the clients stay.                   *)
LoadFails(n, p) ==
  /\ n \notin Loaded
  /\ list' = Removed(Inserted(list, n, p), n)
  /\ \/ UNCHANGED <<client, leaks>>
     \/ LET counted == {Devices[i] : i \in Found}
        IN  /\ counted # DeviceIds /\ leaks < MaxLeaks
            /\ client' = CountedIn(counted)
            /\ leaks' = leaks + 1
  /\ UNCHANGED devs

UnloadDomain(n) ==
  /\ n \in Loaded \ {Root}
  /\ list' = Removed(list, n)
  /\ client' = [v \in DeviceIds |-> IF v \in devs THEN client[v] - 1 ELSE client[v]]
  /\ UNCHANGED <<devs, leaks>>

LoadInit ==
  /\ list = RootList
  /\ devs = {}
  /\ client = [v \in DeviceIds |-> 0]
  /\ leaks = 0

DeviceStep == \E v \in DeviceIds : Register(v) \/ Unregister(v)

LoadStep(n) == \E p \in Prios : LoadDomain(n, p) \/ LoadFails(n, p)

-----------------------------------------------------------------------------
(* The list is a list: next and prev mirror each other from the head to    *)
(* the last node, and nothing else is linked.                              *)
Mirrored ==
  /\ list.prev[list.head] = Nil
  /\ \A n \in Loaded : list.next[n] # Nil => list.prev[list.next[n]] = n
  /\ \A n \in Nodes \ Loaded : list.next[n] = Nil /\ list.prev[n] = Nil

(* A domain that was loaded keeps the devices it was given: nobody can     *)
(* unregister them before it is unloaded ("Connot release the device", in  *)
(* xm_dev_unregister), whatever failed loads, unloads and reloads of the   *)
(* device's module came before.                                            *)
DevicesStay == Loaded # {Root} => DeviceIds \subseteq devs

(* The list of nodes as the scheduler sees it.                             *)
Order == INSTANCE DomainOrder
           WITH Domains <- Nodes, First <- Root, Priorities <- Prios,
                LowestPrio <- RootPrio,
                order <- LET w == Walk(list)
                         IN  [i \in DOMAIN w |-> [dom |-> w[i], prio |-> list.prio[w[i]]]]

(* Whatever is loaded and unloaded in whatever order, insert_domain_list   *)
(* and remove_domain_list keep the order that xm_sched and the bypass of   *)
(* events walk along.                                                      *)
IsOrdered == Order!Spec
=============================================================================
