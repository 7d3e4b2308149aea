------------------------------ MODULE XmVuart ------------------------------
(***************************************************************************)
(* Who may use a line of the serial device, devs/serial/serial.c, beside   *)
(* the domains and devices of XmLoad.  The lines do not depend on each     *)
(* other; the model has one.  Its clients are domains, which call          *)
(* suspend_domain (dev, XMDEV_IO_OPEN) and set up their line as            *)
(* user_tools/tests/swrite.c does, and Linux's module luart.c.  The driver *)
(* is a domain of the name XM_SERIAL_DEV_NAME.                             *)
(*                                                                         *)
(* Nothing calls the device with XMDEV_IO_INIT, XMDEV_IO_CLOSE or          *)
(* XMDEV_IO_WKUP.  rt_console_get runs with interrupts on: a domain may    *)
(* open the line between its test and its store.                           *)
(***************************************************************************)
EXTENDS XmLoad

VARIABLES
  used,    (* XM_SERIAL_DEV_USED                                           *)
  dom,     (* the domain_t that opened the line                            *)
  inited,  (* RT_SERIAL_dom_INIT: it is mapped in a domain, or Linux's     *)
  taken,   (* RT_SERIAL_dom_USED                                           *)
  dev,     (* RT_SERIAL_dev_INIT: there is a driver                        *)
  at,      (* how far each domain is with opening the line                 *)
  luart,   (* how far Linux is with it                                     *)
  misled   (* history: a domain opened the line inside rt_console_get, or  *)
           (* one that has it opened it again                              *)

lineVars == <<used, dom, inited, taken, dev, at, luart, misled>>
vars == <<loadVars, lineVars>>

(* Calling again leaves a domain what it has mapped and set up before.     *)
Mapped(n) == at[n] \in {"open", "using", "again", "failed"}
Users == {n \in Nodes : at[n] \in {"using", "again"}}
Reached(n) == at' = [at EXCEPT ![n] = IF n \in Users THEN "again" ELSE "open"]

(* Mutant: a line that somebody uses can be opened.                        *)
OpenUsed(n) ==
  /\ n \in Loaded /\ at[n] \notin {"none", "driver"} /\ "serial" \in devs
  /\ \/ /\ inited
        /\ used' = FALSE /\ dom' = Nil
        /\ misled' = (misled \/ Mapped(n))
        /\ IF Mapped(n) THEN Reached(n) ELSE UNCHANGED at
        /\ UNCHANGED inited
     \/ /\ ~inited
        /\ used' = TRUE /\ dom' = n /\ inited' = TRUE
        /\ Reached(n) /\ UNCHANGED misled
  /\ UNCHANGED <<loadVars, taken, dev, luart>>

(* suspend_domain_sys with XMDEV_IO_OPEN, which any domain may call at any *)
(* time.  A call that fails leaves the domain suspended until an event: it *)
(* has nothing mapped, or what it had mapped before, and goes on with it.  *)
(* If the line is still mapped the call also gives the line up, whoever    *)
(* holds it, the caller too.                                               *)
Open(n) ==
  /\ n \in Loaded /\ at[n] \notin {"none", "driver"} /\ "serial" \in devs
  /\ \/ /\ used /\ dom # n
        /\ IF Mapped(n) THEN Reached(n) ELSE UNCHANGED at
        /\ UNCHANGED <<used, dom, inited, misled>>
     \/ /\ ~(used /\ dom # n) /\ inited
        /\ used' = FALSE /\ dom' = Nil
        /\ misled' = (misled \/ Mapped(n))
        /\ IF Mapped(n) THEN Reached(n) ELSE UNCHANGED at
        /\ UNCHANGED inited
     \/ /\ ~(used /\ dom # n) /\ ~inited
        /\ used' = TRUE /\ dom' = n /\ inited' = TRUE
        /\ Reached(n) /\ UNCHANGED misled
  /\ UNCHANGED <<loadVars, taken, dev, luart>>

(* serial_device_init of the client, after its system call.  A client that *)
(* has set up the line before goes on using it if this fails.              *)
SetUp(n) ==
  /\ at[n] \in {"open", "again"}
  /\ \/ /\ dev /\ ~taken
        /\ taken' = TRUE /\ at' = [at EXCEPT ![n] = "using"]
     \/ /\ ~(dev /\ ~taken)
        /\ at' = [at EXCEPT ![n] = IF n \in Users THEN "using" ELSE "failed"]
        /\ UNCHANGED taken
  /\ UNCHANGED <<loadVars, used, dom, inited, dev, luart, misled>>

(* vuart_init: rt_console_get tests XM_SERIAL_DEV_USED ...                 *)
LuartTest ==
  /\ luart = "out" /\ "serial" \in devs /\ ~used
  /\ luart' = "tested"
  /\ UNCHANGED <<loadVars, used, dom, inited, taken, dev, at, misled>>

(* ... and sets it, and vuart_init sets the other flags.                   *)
LuartGet ==
  /\ luart = "tested"
  /\ luart' = "using" /\ used' = TRUE /\ inited' = TRUE /\ taken' = TRUE
  /\ misled' = (misled \/ used)
  /\ UNCHANGED <<loadVars, dom, dev, at>>

(* rt_console_free sets all flags to 0, the driver's too.                  *)
LuartExit ==
  /\ luart = "using"
  /\ luart' = "out" /\ used' = FALSE /\ inited' = FALSE /\ taken' = FALSE /\ dev' = FALSE
  /\ UNCHANGED <<loadVars, dom, at, misled>>

(* Loading a driver maps all lines in it and marks them.                   *)
Load(n) ==
  /\ LoadStep(n)
  /\ \/ at' = [at EXCEPT ![n] = IF n \in Loaded' THEN "client" ELSE "none"] /\ UNCHANGED dev
     \/ /\ n \in Loaded' /\ \A m \in Nodes : at[m] # "driver"
        /\ at' = [at EXCEPT ![n] = "driver"] /\ dev' = TRUE
  /\ UNCHANGED <<used, dom, inited, taken, luart, misled>>

(* unload_domain_sys unmaps the lines, and clears the driver's flag; what  *)
(* a client has set stays.                                                 *)
Unload(n) ==
  /\ UnloadDomain(n)
  /\ at' = [at EXCEPT ![n] = "none"]
  /\ dev' = (dev /\ at[n] # "driver")
  /\ UNCHANGED <<used, dom, inited, taken, luart, misled>>

(* The module's new pages and flags.  Linux does not let it go while       *)
(* luart.c uses its symbols.                                               *)
Module(v) ==
  /\ v = "serial" => luart = "out"
  /\ \/ /\ Register(v)
        /\ IF v = "serial"
           THEN used' = FALSE /\ dom' = Nil /\ inited' = FALSE /\ taken' = FALSE /\ dev' = FALSE
           ELSE UNCHANGED <<used, dom, inited, taken, dev>>
     \/ Unregister(v) /\ UNCHANGED <<used, dom, inited, taken, dev>>
  /\ UNCHANGED <<at, luart, misled>>

Init ==
  /\ LoadInit
  /\ used = FALSE /\ dom = Nil /\ inited = FALSE /\ taken = FALSE /\ dev = FALSE
  /\ at = [n \in Nodes |-> "none"]
  /\ luart = "out" /\ misled = FALSE

Next ==
  \/ \E n \in Nodes : Load(n) \/ Unload(n) \/ Open(n) \/ SetUp(n)
  \/ \E v \in DeviceIds : Module(v)
  \/ LuartTest \/ LuartGet \/ LuartExit

Spec == Init /\ [][Next]_vars
-----------------------------------------------------------------------------
(* A line has one user ("serial device has been used"), whatever opens     *)
(* failed and whatever domains and modules came and went before, unless a  *)
(* domain opened it inside Linux's rt_console_get or opened again what it  *)
(* has: that fails to map it and marks it as free.                         *)
OneUser ==
  \/ misled
  \/ Cardinality(Users) + (IF luart = "using" THEN 1 ELSE 0) <= 1
=============================================================================
