---------------------------- MODULE IpacmIfaces ----------------------------
(***************************************************************************)
(* The command queue of IPACM, its event dispatcher and the interfaces     *)
(* that come and go on its events: IPACM_CmdQueue.cpp,                     *)
(* IPACM_EvtDispatcher.cpp, IPACM_IfaceManager.cpp and the link events of  *)
(* IPACM_Lan, IPACM_Wlan and IPACM_Wan, in the Android build.              *)
(*                                                                         *)
(* The netlink thread, the thread that reads the IPA driver and the one    *)
(* that watches the configuration file post events; one thread takes them  *)
(* from the queue and calls the listeners of each in registration order.   *)
(* A callback may create an interface, delete the object it belongs to, or *)
(* post an event of its own, which goes to the end of the queue behind     *)
(* what the others posted in the meantime.                                 *)
(*                                                                         *)
(* The registrations of an object are contiguous and an event is           *)
(* registered once, so the dispatcher's list is a sequence of objects,     *)
(* behind the interface manager, which registers first and stays.          *)
(* ProcessEvt copies a node before the callback and goes on to the node    *)
(* the copy names.  When the object deletes itself and the event is not    *)
(* its last registration, that node is its own and has been freed: it may  *)
(* be as it was left, and the walk goes on, or used again, and what the    *)
(* process does then is not defined: the model ends there.                 *)
(*                                                                         *)
(* Left out: eMBMS, ETH and ODU interfaces, station mode (not in this      *)
(* build), failing allocations, an interface index the kernel no longer    *)
(* knows, and all that the handlers do besides (filters, routes, clients). *)
(***************************************************************************)
EXTENDS Naturals, Sequences, FiniteSets, SequencesExt

CONSTANTS
  Wlans,      \* interfaces whose category is UNKNOWN in the configuration file
  Usbs,       \* the others, of category LAN or WAN, which the file may change
  MaxChanges  \* bound: changes of a link or of the file, and repeated messages

Ifaces == Wlans \cup Usbs
Objs == 1 .. Cardinality(Ifaces) + 1
NoIface == "none"
Free == [kind |-> "free"]
Null == Cardinality(Ifaces) + 2

ASSUME IfacesAssumption ==
  /\ Wlans \cap Usbs = {} /\ NoIface \notin Ifaces
  /\ IsFiniteSet(Ifaces)       \* the table of the configuration has a fixed size
  /\ Cardinality(Wlans) <= 2   \* IPACM_cfg.xml has wlan0 and wlan1

VARIABLES
  mQ,         \* the MessageQueue
  thread,     \* where MessageQueue::Process is
  woken,      \* cond_var was signalled while it waited
  cur,        \* the event being processed
  tmp,        \* the listener whose callback is next
  listeners,  \* the list of IPACM_EvtDispatcher, behind the Manager
  managed,    \* the list of IPACM_IfaceManager
  object,     \* the IPACM_Lan, IPACM_Wlan and IPACM_Wan objects
  if_cat,     \* iface_table[i].if_cat
  num_wlan_ap_iface,
  link,       \* environment: the state of each link
  driver,     \* events the reader of the IPA driver is about to post
  file,       \* environment: the categories in IPACM_cfg.xml
  changes,    \* how many there were
  raced,      \* history: interfaces a link event of which overtook an event of its object
  zeroLeft,   \* history: the AP of index 0 left while another one stayed
  lost        \* the callback behind which the walk read a node that was used again

queueVars == <<mQ, thread, woken, cur>>
objVars   == <<listeners, managed, object>>
envVars   == <<link, driver, file, changes>>
vars == <<queueVars, tmp, objVars, if_cat, num_wlan_ap_iface, envVars, raced, zeroLeft, lost>>

Evt(e, i)  == [event |-> e, iface |-> i, self |-> FALSE]
SelfEvt(e, i) == [event |-> e, iface |-> i, self |-> TRUE]
NoEvt == Evt("none", NoIface)
NotLost == [kind |-> "none", event |-> "none"]

Init ==
  /\ mQ = <<>> /\ thread = "loop" /\ woken = FALSE /\ cur = NoEvt
  /\ tmp = Null
  /\ listeners = <<>> /\ managed = {} /\ object = [o \in Objs |-> Free]
  /\ file \in [Usbs -> {"LAN", "WAN"}]
  /\ if_cat = [i \in Ifaces |-> IF i \in Wlans THEN "UNKNOWN" ELSE file[i]]
  /\ num_wlan_ap_iface = 0
  /\ link = [i \in Ifaces |-> "down"] /\ driver = <<>>
  /\ changes = 0
  /\ raced = {} /\ zeroLeft = FALSE /\ lost = NotLost

-----------------------------------------------------------------------------
(* The queue.                                                              *)

(* Mutant: only a queue that is not empty is signalled.                    *)
SignalMore(es) == woken' = (woken \/ (thread = "wait" /\ mQ # <<>>))

(* PostEvt: enqueue and signal, under the mutex.                           *)
Signal(es) == woken' = (woken \/ (thread = "wait" /\ es # <<>>))

PostEvt(es) == mQ' = mQ \o es /\ Signal(es)

NothingPosted == UNCHANGED <<mQ, woken>>

(* Nothing to take: the thread waits, once, and looks again.               *)
WaitForMessage ==
  /\ thread = "loop" /\ mQ = <<>>
  /\ thread' = "wait"
  /\ UNCHANGED <<mQ, woken, cur, tmp, objVars, if_cat, num_wlan_ap_iface, envVars, raced, zeroLeft, lost>>

WakeUp ==
  /\ thread = "wait" /\ woken
  /\ thread' = "loop" /\ woken' = FALSE
  /\ UNCHANGED <<mQ, cur, tmp, objVars, if_cat, num_wlan_ap_iface, envVars, raced, zeroLeft, lost>>

(* The events an object registers for (IPACM_IfaceManager.cpp:226-450).    *)
RegisteredFor(kind) ==
  CASE kind = "LAN"  -> {"CFG_CHANGE", "LINK_DOWN", "LAN_DELETE_SELF"}
    [] kind = "WLAN" -> {"WLAN_LINK_DOWN", "LAN_DELETE_SELF"}
    [] kind \in {"Q6_WAN", "ECM_WAN"} -> {"CFG_CHANGE", "LINK_DOWN"}
    [] OTHER -> {}

(* The last registration of an object, with those for other events.        *)
LastRegistration(kind) ==
  CASE kind = "LAN"  -> "LAN_DELETE_SELF"
    [] kind = "WLAN" -> "TETHERING_STATS_UPDATE"
    [] OTHER -> "LINK_DOWN"

(* Where in the list, from a place on, the listeners of an event are:      *)
(* those that registered for it and do not ignore it as another            *)
(* interface's.                                                            *)
Listening(e, from) ==
  {k \in from .. Len(listeners) :
     /\ e.event \in RegisteredFor(object[listeners[k]].kind)
     /\ e.iface \in {object[listeners[k]].iface, NoIface}}

(* ProcessEvt goes on to the node it has found before the callback; after  *)
(* the last one the event is done.                                         *)
WalkOn(e, from) ==
  IF Listening(e, from) = {}
  THEN tmp' = Null /\ cur' = NoEvt /\ thread' = "loop"
  ELSE tmp' = listeners[Min(Listening(e, from))] /\ cur' = e /\ thread' = "walk"

(* An object is in the list once.                                          *)
Position(o) == CHOOSE k \in DOMAIN listeners : listeners[k] = o

Advance == WalkOn(cur, Position(tmp) + 1)

(* The same when the callback has deleted the object.  Unless the event is *)
(* the last one it registered for, the node that was found is one of its   *)
(* own, which its destructor has freed: it leads on while it is as it was, *)
(* and anywhere when the memory has been used again.                       *)
AdvanceFreed(o) ==
  /\ Advance
  /\ \/ UNCHANGED lost
     \/ /\ cur.event # LastRegistration(object[o].kind)
        /\ lost' = [kind |-> object[o].kind, event |-> cur.event]

(* Process takes an event; the manager, which is the head of the list and  *)
(* posts nothing, is called in the same step.                              *)
Dequeue(e) ==
  /\ thread = "loop" /\ mQ # <<>>
  /\ e = Head(mQ) /\ mQ' = Tail(mQ)
  /\ WalkOn(e, 1)
  /\ UNCHANGED <<woken, envVars, zeroLeft, lost>>

-----------------------------------------------------------------------------
(* Objects.                                                                *)

Alive(o) == object[o] # Free
Instances(i) == {o \in Objs : Alive(o) /\ object[o].iface = i}
Active(i) == \E o \in Instances(i) : object[o].is_active
CatOf(kind) == IF kind = "LAN" THEN "LAN" ELSE IF kind = "WLAN" THEN "WLAN" ELSE "WAN"

(* The registrations with the dispatcher and with the interface manager.   *)
EvtRegistr(o)      == listeners' = Append(listeners, o)
IfaceRegistr(i, o) == managed' = managed \cup {[iface |-> i, obj |-> o]}
EvtDeregistr(o)    == listeners' = RemoveAt(listeners, Position(o))
IfaceDeregistr(o)  == managed' = {m \in managed : m.obj # o}

SearchInstance(i) == \E m \in managed : m.iface = i

(* A new object and its registrations.  A WLAN AP takes the number of the  *)
(* APs there are for its index.                                            *)
NewInstance(i, kind) ==
  LET o == CHOOSE x \in Objs : ~Alive(x) /\ \A y \in Objs : ~Alive(y) => x <= y
  IN /\ object' = [object EXCEPT ![o] =
            [kind |-> kind, iface |-> i, is_active |-> TRUE, is_mode_switch |-> FALSE,
             wlan_ap_index |-> IF kind = "WLAN" THEN num_wlan_ap_iface ELSE 0]]
     /\ num_wlan_ap_iface' = num_wlan_ap_iface + (IF kind = "WLAN" THEN 1 ELSE 0)
     /\ EvtRegistr(o) /\ IfaceRegistr(i, o)

(* Mutant: only an active instance counts as one.                          *)
CreateUnlessActive(i, kind) ==
  IF ~Active(i) /\ kind # "none" /\ \E o \in Objs : ~Alive(o)
  THEN NewInstance(i, kind)
  ELSE UNCHANGED <<objVars, num_wlan_ap_iface>>

(* create_iface_instance: unless the interface has an instance, a new      *)
(* object that registers itself with the dispatcher and the manager.       *)
create_iface_instance(i, kind) ==
  IF ~SearchInstance(i) /\ kind # "none"
  THEN NewInstance(i, kind)
  ELSE UNCHANGED <<objVars, num_wlan_ap_iface>>

(* Mutant: the destructor leaves the object in the dispatcher's list.      *)
DeleteKeepsListener(o) ==
  /\ object' = [object EXCEPT ![o] = Free]
  /\ IfaceDeregistr(o) /\ UNCHANGED listeners

(* delete this: the destructor takes the object out of both lists.         *)
delete(o) ==
  /\ object' = [object EXCEPT ![o] = Free]
  /\ EvtDeregistr(o) /\ IfaceDeregistr(o)

-----------------------------------------------------------------------------
(* The manager's callback.                                                 *)

(* A link-up event that finds an inactive instance is lost, unless that    *)
(* instance will post one itself.  An AP remains lost until an instance is *)
(* created again; the others are put right by their next link event.       *)
RecordUp(e) ==
  raced' = IF e.self THEN raced
           ELSE IF \E o \in Instances(e.iface) : ~object[o].is_active /\ ~object[o].is_mode_switch
           THEN raced \cup {e.iface}
           ELSE IF e.iface \in Wlans /\ ~(e.event = "WLAN_AP_LINK_UP" /\ object' # object)
           THEN raced ELSE raced \ {e.iface}

(* A link-down event is lost when the link-up event of a change of mode is *)
(* still to come.                                                          *)
RecordDown(e) ==
  raced' = IF e.self THEN raced
           ELSE IF \/ \E o \in Instances(e.iface) : object[o].is_mode_switch
                   \/ SelfEvt("USB_LINK_UP", e.iface) \in Range(mQ)
           THEN raced \cup {e.iface}
           ELSE IF e.iface \in Wlans THEN raced ELSE raced \ {e.iface}

(* IPA_LINK_UP_EVENT: only an interface of category WAN.                   *)
LinkUp(i) ==
  /\ create_iface_instance(i, IF if_cat[i] = "WAN" THEN "Q6_WAN" ELSE "none")
  /\ UNCHANGED if_cat

(* IPA_USB_LINK_UP_EVENT: whatever the category is.                        *)
UsbLinkUp(i) ==
  /\ create_iface_instance(i, CASE if_cat[i] = "WAN" -> "ECM_WAN"
                                [] if_cat[i] = "UNKNOWN" -> "none"
                                [] OTHER -> if_cat[i])
  /\ UNCHANGED if_cat

(* IPA_WLAN_AP_LINK_UP_EVENT: only an interface of unknown category, which *)
(* becomes WLAN whether or not an instance is created.                     *)
WlanApLinkUp(i) ==
  IF if_cat[i] = "UNKNOWN"
  THEN /\ if_cat' = [if_cat EXCEPT ![i] = "WLAN"]
       /\ create_iface_instance(i, "WLAN")
  ELSE UNCHANGED <<objVars, if_cat, num_wlan_ap_iface>>

ManagerUp(e) ==
  /\ Dequeue(e)
  /\ \/ e.event = "LINK_UP" /\ LinkUp(e.iface)
     \/ e.event = "USB_LINK_UP" /\ UsbLinkUp(e.iface)
     \/ e.event = "WLAN_AP_LINK_UP" /\ WlanApLinkUp(e.iface)
  /\ RecordUp(e)

(* IPA_CFG_CHANGE_EVENT: the interface table is read again.                *)
ManagerCfgChange(e) ==
  /\ Dequeue(e) /\ e.event = "CFG_CHANGE"
  /\ if_cat' = [i \in Ifaces |-> IF i \in Wlans THEN "UNKNOWN" ELSE file[i]]
  /\ UNCHANGED <<objVars, num_wlan_ap_iface, raced>>

(* The manager is not registered for the other events.                     *)
ManagerSkips(e) ==
  /\ Dequeue(e) /\ e.event \in {"LINK_DOWN", "WLAN_LINK_DOWN", "LAN_DELETE_SELF"}
  /\ RecordDown(e)
  /\ UNCHANGED <<objVars, if_cat, num_wlan_ap_iface>>

-----------------------------------------------------------------------------
(* The callbacks of the objects.                                           *)

Called(o) == thread = "walk" /\ tmp = o
IsLan(o)  == object[o].kind \in {"LAN", "WLAN"}

(* handle_down_evt of IPACM_Lan and IPACM_Wlan: the object is inactive and *)
(* asks to be deleted.                                                     *)
handle_down_evt(o, switch) ==
  /\ object' = [object EXCEPT ![o].is_active = FALSE, ![o].is_mode_switch = switch]
  /\ PostEvt(<<SelfEvt("LAN_DELETE_SELF", object[o].iface)>>)
  /\ UNCHANGED <<listeners, managed>>

(* IPA_LINK_DOWN_EVENT of IPACM_Lan, IPA_WLAN_LINK_DOWN_EVENT of           *)
(* IPACM_Wlan, which gives the category up.                                *)
LanDown(o) ==
  /\ Called(o) /\ IsLan(o)
  /\ cur.event \in {"LINK_DOWN", "WLAN_LINK_DOWN"}
  /\ object[o].is_active
  /\ handle_down_evt(o, FALSE)
  /\ if_cat' = IF object[o].kind = "WLAN" THEN [if_cat EXCEPT ![cur.iface] = "UNKNOWN"] ELSE if_cat
  /\ Advance
  /\ UNCHANGED <<num_wlan_ap_iface, envVars, raced, zeroLeft, lost>>

(* IPA_CFG_CHANGE_EVENT of IPACM_Lan: another category, another object.    *)
LanCfgChange(o) ==
  /\ Called(o) /\ object[o].kind = "LAN" /\ cur.event = "CFG_CHANGE"
  /\ object[o].is_active /\ if_cat[object[o].iface] # "LAN"
  /\ handle_down_evt(o, TRUE)
  /\ Advance
  /\ UNCHANGED <<if_cat, num_wlan_ap_iface, envVars, raced, zeroLeft, lost>>

(* IPA_LAN_DELETE_SELF: after a change of mode the link-up event is posted *)
(* for the other object; a WLAN AP is taken off the count.                 *)
DeleteSelf(o) ==
  /\ Called(o) /\ IsLan(o)
  /\ cur.event = "LAN_DELETE_SELF"
  /\ PostEvt(IF object[o].is_mode_switch THEN <<SelfEvt("USB_LINK_UP", cur.iface)>> ELSE <<>>)
  /\ num_wlan_ap_iface' = num_wlan_ap_iface - (IF object[o].kind = "WLAN" THEN 1 ELSE 0)
  /\ zeroLeft' = IF object[o].kind # "WLAN" THEN zeroLeft
                 ELSE num_wlan_ap_iface' > 0 /\ (zeroLeft \/ object[o].wlan_ap_index = 0)
  /\ delete(o)
  /\ AdvanceFreed(o)
  /\ UNCHANGED <<if_cat, envVars, raced>>

(* IPA_LINK_DOWN_EVENT of IPACM_Wan deletes the object at once.            *)
WanDown(o) ==
  /\ Called(o) /\ ~IsLan(o)
  /\ cur.event = "LINK_DOWN"
  /\ delete(o)
  /\ AdvanceFreed(o)
  /\ NothingPosted
  /\ UNCHANGED <<if_cat, num_wlan_ap_iface, envVars, raced, zeroLeft>>

(* Mutant: the object stays when it has posted the event for the other.    *)
WanCfgChangeKeeps(o) ==
  /\ Called(o) /\ object[o].kind = "ECM_WAN" /\ cur.event = "CFG_CHANGE"
  /\ if_cat[object[o].iface] # "WAN"
  /\ PostEvt(<<SelfEvt("USB_LINK_UP", object[o].iface)>>)
  /\ Advance
  /\ UNCHANGED <<objVars, if_cat, num_wlan_ap_iface, envVars, raced, zeroLeft, lost>>

(* IPA_CFG_CHANGE_EVENT of IPACM_Wan: so does another category, after the  *)
(* link-up event for the other object; only in ECM mode.                   *)
WanCfgChange(o) ==
  /\ Called(o) /\ object[o].kind = "ECM_WAN" /\ cur.event = "CFG_CHANGE"
  /\ if_cat[object[o].iface] # "WAN"
  /\ PostEvt(<<SelfEvt("USB_LINK_UP", object[o].iface)>>)
  /\ delete(o)
  /\ AdvanceFreed(o)
  /\ UNCHANGED <<if_cat, num_wlan_ap_iface, envVars, raced, zeroLeft>>

(* A listener has nothing to do: the object is inactive or the category is *)
(* what it was.                                                            *)
NotForIt(o) ==
  \/ IsLan(o) /\ cur.event # "LAN_DELETE_SELF" /\ ~object[o].is_active
  \/ /\ cur.event = "CFG_CHANGE"
     /\ object[o].kind = "Q6_WAN" \/ if_cat[object[o].iface] = CatOf(object[o].kind)

ListenerSkips(o) ==
  /\ Called(o) /\ NotForIt(o)
  /\ Advance
  /\ NothingPosted
  /\ UNCHANGED <<objVars, if_cat, num_wlan_ap_iface, envVars, raced, zeroLeft, lost>>

-----------------------------------------------------------------------------
(* The threads that post.                                                  *)

Idle == UNCHANGED <<thread, cur, tmp, objVars, if_cat, num_wlan_ap_iface, raced, zeroLeft, lost>>

(* A netlink message: the administrative state when it changed, then what  *)
(* the carrier says (IPACM_Netlink.cpp:654-750).                           *)
NewLinkEvents(i, change, state) ==
  (IF change THEN <<Evt(IF state = "down" THEN "LINK_DOWN" ELSE "LINK_UP", i)>> ELSE <<>>)
  \o <<Evt(IF state = "running" THEN "USB_LINK_UP" ELSE "LINK_DOWN", i)>>

(* A message of the IPA driver, when an AP or a USB function comes or goes.*)
DriverEvents(i, state) ==
  IF (state = "running") = (link[i] = "running") THEN <<>>
  ELSE IF i \in Wlans
  THEN <<Evt(IF state = "running" THEN "WLAN_AP_LINK_UP" ELSE "WLAN_LINK_DOWN", i)>>
  ELSE <<Evt(IF state = "running" THEN "USB_LINK_UP" ELSE "LINK_DOWN", i)>>

LinkChanges(i, state) ==
  /\ changes < MaxChanges /\ state # link[i]
  /\ changes' = changes + 1
  /\ link' = [link EXCEPT ![i] = state]
  /\ i \in Wlans => state # "up"
  /\ PostEvt(NewLinkEvents(i, "down" \in {state, link[i]}, state))
  /\ driver' = driver \o DriverEvents(i, state)
  /\ Idle /\ UNCHANGED <<file>>

LinkRepeated(i) ==
  /\ changes < MaxChanges
  /\ changes' = changes + 1
  /\ PostEvt(NewLinkEvents(i, FALSE, link[i]))
  /\ Idle /\ UNCHANGED <<link, driver, file>>

DriverPosts ==
  /\ driver # <<>>
  /\ PostEvt(<<Head(driver)>>) /\ driver' = Tail(driver)
  /\ Idle /\ UNCHANGED <<link, file, changes>>

(* The configuration file is changed and its watcher posts the event.      *)
CfgChanges(i) ==
  /\ changes < MaxChanges
  /\ changes' = changes + 1
  /\ file' = [file EXCEPT ![i] = IF @ = "LAN" THEN "WAN" ELSE "LAN"]
  /\ PostEvt(<<Evt("CFG_CHANGE", NoIface)>>)
  /\ Idle /\ UNCHANGED <<link, driver>>

Process ==
  \/ WaitForMessage \/ WakeUp
  \/ \E e \in Range(mQ) : ManagerUp(e) \/ ManagerCfgChange(e) \/ ManagerSkips(e)
  \/ \E o \in Objs : \/ LanDown(o) \/ LanCfgChange(o) \/ DeleteSelf(o)
                     \/ WanDown(o) \/ WanCfgChange(o) \/ ListenerSkips(o)

(* The walk has not read a node that was used again.                       *)
Running == lost = NotLost

Next ==
  /\ Running
  /\ \/ Process
     \/ \E i \in Ifaces : \/ \E state \in {"down", "up", "running"} : LinkChanges(i, state)
                          \/ LinkRepeated(i)
     \/ DriverPosts
     \/ \E i \in Usbs : CfgChanges(i)

(* The thread of the command queue goes on; the others may stop.           *)
Fairness == WF_vars(Running /\ Process)

Spec == Init /\ [][Next]_vars /\ Fairness

-----------------------------------------------------------------------------
(* Properties.                                                             *)

Kinds == {"LAN", "WLAN", "Q6_WAN", "ECM_WAN"}
EventNames == {"none", "LINK_UP", "USB_LINK_UP", "WLAN_AP_LINK_UP", "LINK_DOWN", "WLAN_LINK_DOWN",
               "CFG_CHANGE", "LAN_DELETE_SELF"}
Events == [event : EventNames, iface : Ifaces \cup {NoIface}, self : BOOLEAN]

(* Type correctness of the queue, the lists, the objects and the table.    *)
TypeOK ==
  /\ mQ \in Seq(Events) /\ cur \in Events /\ driver \in Seq(Events)
  /\ thread \in {"loop", "wait", "walk"} /\ woken \in BOOLEAN
  /\ tmp \in Objs \cup {Null} /\ (thread = "walk" <=> tmp # Null)
  /\ object \in [Objs -> {Free} \cup
       [kind : Kinds, iface : Ifaces, is_active : BOOLEAN, is_mode_switch : BOOLEAN,
        wlan_ap_index : {0, 1}]]
  /\ if_cat \in [Ifaces -> {"UNKNOWN", "WLAN", "LAN", "WAN"}]
  /\ num_wlan_ap_iface \in 0 .. 2

(* The callbacks whose event is not the last registration of the object    *)
(* they delete: IPA_LAN_DELETE_SELF of an IPACM_Wlan (IPACM_Wlan.cpp:278), *)
(* and IPA_CFG_CHANGE_EVENT of an IPACM_Wan (IPACM_Wan.cpp:634).           *)
FreesNextNode == {[kind |-> "WLAN", event |-> "LAN_DELETE_SELF"],
                  [kind |-> "ECM_WAN", event |-> "CFG_CHANGE"]}

(* Both lists hold the objects that exist, each once, whatever callback    *)
(* deletes or creates one; the dispatcher never calls a deleted object as  *)
(* long as no freed node it read was used again; and it reads one only     *)
(* behind two callbacks: behind every other that deletes its object the    *)
(* next node is another object's                                           *)
(* (IPACM_Lan.cpp:311-316, IPACM_EvtDispatcher.cpp:120-131).               *)
NoDeadListener ==
  /\ \A o \in Objs : Alive(o) <=> o \in Range(listeners)
  /\ IsInjective(listeners)
  /\ {m.obj : m \in managed} = {o \in Objs : Alive(o)}
  /\ Running /\ tmp \in Objs => Alive(tmp)
  /\ lost \in {NotLost} \cup FreesNextNode

(* An interface has one instance at most, also when its link goes down and *)
(* up again before the old instance has deleted itself                     *)
(* (IPACM_IfaceManager.cpp:217).                                           *)
OneInstance == \A i \in Ifaces : Cardinality(Instances(i)) <= 1

(* An instance that has gone down has exactly one request to be deleted    *)
(* under way and an active one has none, so that an instance is never      *)
(* deleted on behalf of its predecessor, however often the link was said   *)
(* to be down (IPACM_Lan.cpp:322, 4525).                                   *)
DeletedOnce ==
  \A i \in Ifaces :
    LET inactive == {o \in Instances(i) : ~object[o].is_active}
        request  == SelfEvt("LAN_DELETE_SELF", i)
    IN Cardinality({n \in 1 .. Len(mQ) : mQ[n] = request})
         + (IF cur = request /\ inactive # {} THEN 1 ELSE 0) = Cardinality(inactive)

(* num_wlan_ap_iface counts the WLAN APs, and as long as no AP of index 0  *)
(* has left another one behind their indices are 0 .. num - 1: the filter  *)
(* rules both share a pipe with are installed once and at places of their  *)
(* own (IPACM_Wlan.cpp:71, 131, 272).                                      *)
ApIndices ==
  LET aps == {o \in Objs : Alive(o) /\ object[o].kind = "WLAN"}
  IN /\ num_wlan_ap_iface = Cardinality(aps)
     /\ ~zeroLeft => {object[o].wlan_ap_index : o \in aps} = 0 .. num_wlan_ap_iface - 1

(* All that was said has been processed.                                   *)
Settled == mQ = <<>> /\ driver = <<>> /\ thread # "walk" /\ Running

(* At rest an interface has an active instance exactly when its link is    *)
(* up, in whatever order the two sources spoke and their events met the    *)
(* requests of the objects -- except an interface whose last event was     *)
(* lost to such a request (IPACM_IfaceManager.cpp:135, 217).               *)
LinkFollowed ==
  Settled => \A i \in Ifaces \ raced : Active(i) <=> link[i] = "running"

(* At rest the instance of an interface whose category was changed in the  *)
(* file is of the new category, unless it came up as a modem interface     *)
(* (IPACM_Lan.cpp:351, IPACM_Wan.cpp:608).                                 *)
CategoryFollowed ==
  Settled => \A i \in Usbs : \A o \in Instances(i) :
    object[o].kind # "Q6_WAN" => CatOf(object[o].kind) = file[i]

(* Every event that is posted is processed, with those the callbacks post: *)
(* no signal is lost between the look at the queue and the wait, and no    *)
(* two objects keep the queue busy (IPACM_CmdQueue.cpp:121-141).           *)
EventsProcessed == (mQ # <<>>) ~> (mQ = <<>> /\ thread # "walk") \/ ~Running

(* An interface has one instance at most, which is deleted once and on its *)
(* own behalf, and the APs are counted and numbered as they come and go.   *)
InstancesSound == TypeOK /\ OneInstance /\ DeletedOnce /\ ApIndices

(* At rest the instances are those the links and the file ask for.         *)
InstancesFollow == LinkFollowed /\ CategoryFollowed
=============================================================================
