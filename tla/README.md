# A TLA+ verification project for the HTC 10 (pme) device tree

The repository is the Android device tree of the HTC 10. Most of it is data
(properties, overlays, policies, key layouts); what is program is a set of
hardware abstraction libraries and daemons in C, C++ and Java. This project
models the ones that keep state and run concurrently with something else,
checks them with TLC on small instances, and proves the most important
invariants with TLAPS for every value of the parameters.

Contents: 1 inventory, 2 the modules, 3 the runs, 4 bounds and fairness,
5 what is proved, 6 where the code disagrees with its comments or intent, 7 what
is not modelled, 8 plan.

To check everything: `tlc -config X.cfg M` for each run of `PROJECT.json`,
and `tlapm` on the eight modules named `*Proofs.tla`. `PROJECT.json`
also gives, for each definition, the source lines it translates ("map"), and
for each checked property a plausible bug in the code that violates it
("mutants": the operator that replaces a definition stands beside it in the
module, with a comment beginning "Mutant").

## 1. Inventory

### 1.1 GPS hardware abstraction (`src/gps`)

The framework calls the HAL (`loc.cpp`), which posts `LocMsg` objects to one
message thread (`MsgTask`); the modem's reports come in on QMI or RPC threads
and are posted to the same queue. So most of the engine is sequential code
driven by a queue in which messages of independent senders cross.

| Component | State | Operations | What is hard | What makes it correct |
|---|---|---|---|---|
| **AGPS interfaces**, `loc_eng_agps.cpp`, handlers in `loc_eng.cpp` | one state machine per interface (agnss, internet, ds): current state and list of subscribers; for ds a retry counter and a data call handle | subscribe, unsubscribe, GRANTED, RELEASED, DENIED, drop all subscribers, retry | grants, denials, releases and forced releases cross with requests; a modem restart clears the lists but not the states; the emergency interface falls back to a normal connection by posting to its own queue; retries from a timer | no client is left believing in a connection nobody can report the loss of; a pending interface is owed an answer; a data call has a subscriber with a client that will close it |
| **Location session**, `loc_eng.cpp` | session flag, engine status, mute state, mask of aiding data to delete | start, stop, engine down and up, reports | engine crash between two messages; the mute state depends on the order of reports; deferred deletions | a session survives a crash; a muted session ends; every deletion asked for happens once |
| **Network initiated requests**, `loc_eng_ni.cpp` | two sessions: request, identifier, answer, flag; a thread each | request, answer, timeout, restart | an answer races the timeout, an emergency request and a restart; fields are touched outside the lock | each request is answered once, with its own answer; a session becomes free again |
| **Synchronous QMI requests**, `loc_api_sync_req.c` | slots with a lock and a condition variable, a global lock and flag | send a request and wait, deliver an indication | an indication before the wait, after the timeout, or for a slot given to another thread | no copy to a dead buffer; a waiting thread owns its slot and hears its indication |
| **QMI client and adapter**, `loc_api_v02_client.c`, `LocApiV02.cpp` | client handle, event masks | open, close, translate | the handle's user data outlives a close | thin |
| **RPC location API**, `libloc_api-rpc-50001` | slots as above, other locking | as above over ONC RPC | a callback as the wait expires; teardown with waiters | as above |
| **Data services client**, `ds_client.c` | handles of the WDS client and of the data call | open, start, stop, close | error paths; callbacks during close | handles released on every path |
| **Threads and messages**, `LocThread.cpp`, `MsgTask.cpp`, `msg_q.c`, `linked_list.c` | reference count, runnable, queue, unblocked flag | start, stop, send, receive, destroy | deletion by the last of two parties; a receiver woken by a message or by the end | the delegate outlives its users; each message is processed once and in order, or freed; the owner's call returns |
| **Timers**, `LocTimer.cpp`, `LocHeap.cpp` | heap of timers, timer descriptor, poll set | start, stop, expire | a timer stopped as it expires; poll and message threads arm and disarm one descriptor | the kernel is armed for the soonest timer; a started timer ends; nothing points at a deleted one |
| **Adapters**, `LocApiBase.cpp` | array of adapters | add, remove, report | changed without a lock while walked | each adapter sees each report once |
| **PPS**, `gnsspps.c` | time stamp, active flag | start, stop, read | the lock is destroyed under a running thread | |

### 1.2 IPA configuration manager (`src/data-ipa-cfg-mgr`)

A daemon that offloads routing and NAT to the IPA hardware. Threads listen to
netlink and to conntrack and put events in a command queue; one thread takes
them out and calls the listeners. A further thread refreshes the kernel's time
stamps of the connections the hardware forwards.

| Component | State | Operations | What is hard | What makes it correct |
|---|---|---|---|---|
| **NAT application**, `IPACM_Conntrack_NATApp.cpp` | cache of rules with hardware handles, temporary rules, clients in power save, table handle and public address | add and delete table and rule, flush temporary rules, power save, disconnect, refresh | cache and hardware must agree over long sequences; hardware calls fail; the address changes; the refresh thread takes no lock | enabled entries and hardware rules are the same; a known connection is offloaded; a closed one is forgotten |
| **Conntrack listener**, `IPACM_ConntrackListener.cpp` | WAN state, lists of NAT and station clients | WAN up and down, neighbours, power save, conntrack messages | the same facts arrive in any order | as above |
| **IPA NAT driver**, `ipa_nat_drvi.c` | base, expansion, index and index-expansion tables, chained by index | add and delete a rule, clean up dead heads | head, middle and last deletions; the two chains; the order of DMA commands; full tables | every live rule is found by its hash from either side; nothing leaks |
| **Queue and dispatcher**, `IPACM_CmdQueue.cpp`, `IPACM_EvtDispatcher.cpp` | linked queue; list of listeners | enqueue, dequeue; register, deregister, dispatch | a callback changes the list being walked | every live listener is called, no dead one |
| **Interfaces**, `IPACM_IfaceManager.cpp`, `IPACM_Iface.cpp` | list of instances | create, delete | deletion is itself a queued event | an interface that is up has one instance |
| **Neighbours**, `IPACM_Neighbor.cpp` | array with a circular index | new, delete | the index at its limit | |
| **WLAN clients**, `IPACM_Wlan.cpp` | per AP an array of clients with addresses, headers, rules and a sleep flag; the addresses NAT and the power save list know | announced, addressed, asleep, awake, gone; link gone, IPv6 WAN gone | an addition is refused half way; a departure moves the array; an AP that had no address is not cleaned up; NAT knows clients by address | what is in the hardware is what the clients hold; rules follow sleep and address; NAT's lists are exact |
| **LAN to LAN, LAN, WAN** | rule handles per client | one handler per event | partial failures, counts of rules | what was installed is removed |
| **Netlink, XML, main, filtering, routing, header** | little | parse, one ioctl each | | I/O |

### 1.3 Small HALs

Amplifier, lights, thermal, fingerprint wrapper, camera shim, RIL database,
init extension, operator properties, library shims; gesture service, key
handler and hardware classes in Java. They are called by one client, mostly
keep no state, and translate calls to files, ioctls or properties. What can go
wrong in them is in the list of hazards.

### 1.4 Interactions

* modem -> engine: OPEN and CLOSE of a data connection, ENGINE_DOWN and UP,
  all as messages; engine -> modem: `atlOpenStatus`, `atlCloseStatus`.
* engine -> framework: `agps_status_cb` REQUEST and RELEASE; framework ->
  engine: GRANTED, RELEASED, DENIED, as messages.
* engine -> data services library: start and stop of the emergency data call;
  library -> engine: `ds_client_event_cb` as GRANTED and RELEASED messages.
* GPS threads -> `loc_sync_send_req` -> QMI; QMI callback thread ->
  `loc_sync_process_ind`.
* kernel -> conntrack and netlink threads -> command queue -> listeners ->
  NatApp -> NAT driver -> hardware; time stamp thread -> NatApp without a queue.

## 2. The modules

### 2.1 AgpsNif: one interface and its queues

State: `mState` is `mStatePtr`, `mSubscribers` the linked list as a set of
identifiers, `msgQ` the engine thread's queue; `client` is what each modem
client has been told; `fwReq` and `fwConn` are the framework's callbacks and
connection, which are outside the repository and modelled from how the engine
uses them. Actions: `ModemOpen`, `ModemClose` and `ModemRestart` post; the six
disjuncts of `Engine` are the `proc` methods of the six kinds of message, each
with the whole of the handler in it (`LocEngReqRelATL`'s `proc` calls
`subscribeRsrc`, which adds the subscriber, calls the state's `onRsrcEvent`,
which calls the framework, and so on); `Framework` takes callbacks in order,
answers a request unless it is withdrawn first, and `FwDrop` drops an open
connection at any time.

Only ATL and BIT subscribers are in AgpsNif. They never wait for a close, so
the state Releasing cannot be reached in it. `NifContract` is the abstract
specification: what an interface promises, without queues, framework or
clients. A step of the engine changes the state and the subscribers together in
one of a few ways; AgpsNif implements it with the obvious mapping.

Taken as they are outside the repository: the framework answers every request
it does not see withdrawn; the modem does not reuse a connection handle while
a message about it is queued, and after a restart only when it has been
registered for events again. `ENGINE_UP` stands for the pair of messages that
an up modem causes (`LocSsrMsg` and `LocEngUp`).

### 2.2 LocEngAtl: the three interfaces together

The same handlers with an interface as parameter, plus the emergency
interface: `DSStateMachine` starts a data call when its NIF is requested,
arms a timer and counts when the service is busy, falls back to a normal
connection by posting a request to the engine's own queue when it is denied,
and waits in Releasing for inactive subscribers after a close. `RetryTimer`,
`DataCallOpened` and `DataCallClosed` are the timer thread and the callbacks
of the data services library. Lists are sequences, as their order decides which
subscriber the retry takes. The `agnss` and `internet` interfaces are shown to
implement `NifContract`, although the emergency interface posts to the first.

A subscriber of the emergency interface that is still active holds the data call:
the call ends when the last of them closes. The code has ways to leave such a
subscriber without a client that will ever close it; `LeftBehind` names the four
messages that do, and `abandoned`, a history variable that no action reads,
collects those subscribers (section 6, item 9). `HolderHasClient` says that there
is no fifth way: every other holder has a client that has not closed, or a restart
is queued.

Two simplifications: `notifySubscribers` compares with an element it may have
deleted just before; the comparison is taken to work. `retryCallback`, which
walks the list on the timer's thread without a lock, is one step.

### 2.3 NatApp and ConntrackListener: the cache of NAT rules

`NatApp` has the state and the methods of class `NatApp` over the hardware
table, `ConntrackListener` EXTENDS it with the listener's state and its event
handlers, the kernel's connections (`live`) and the queue of conntrack
messages. `Next` is there. A connection is a model value with a private
address, a target and, possibly, a port of an ALG.

A method that walks `cache[]` or `temp[]` and calls the hardware for each
element is a sequence of steps of `WalkStep`, one per element; `loop` is what
is left to walk, and the command queue's thread does nothing else before it is
done. Between two of these steps, and between any two handlers, the time stamp
thread takes its own steps: `UdpQuery` reads a slot and asks the kernel,
`UdpUpdateCT` takes the answer, `UdpDeleteEntry` deletes the entry. Handlers
that do not walk are one step, so the interleavings checked are fewer than the
unlocked code has.

Choices: an uninitialised variable takes any value the build can give it
(`pub_ip_addr_pre`, `isStaMode`, the index from which `CacheEntry` searches).
From an index above `max_entries`, or from one below the array where it finds a
zeroed word, `CacheEntry` writes the entry outside `cache[]`: `outside` is set
and the model stops there, since nothing can be said of such a process.
Further:
`curCnt` is left out, it is only logged; the driver has one table, and a
second `ipa_nat_add_ipv4_tbl` fails and zeroes the handle; the list of
non-NAT clients never fills up; the power save list starts empty.

The hardware table of `NatApp` is the one `NatTable` specifies: a set of rules
known by handles, where nobody adds a connection twice or deletes a handle
that is free. `UsesNatTable` says that every step of `NatApp` is one of
`NatTable` or changes no rule, so the assumption under which `IpaNat` is
checked is what its only user is shown to do.

### 2.4 LocApiSyncReq: synchronous requests over QMI

One `pc` per thread; a step is what a thread does while it holds one lock (the
indication callback: what it does while it holds the call mutex).
`slots` is the array of the code, field by field as far as it is read:
`recv_ind_id` stands for the handle and the identifier, `recv_ind_payload_ptr`
names the thread whose stack the buffer is on. `in_use` is the global flag.
`loc_sync_process_ind` is the indication callback, one step although it walks
over the slots and locks them one by one: it holds the call mutex meanwhile, so
that no slot is allocated or freed, a slot is filled and its wait begins and ends
in a thread that holds the slot, and each thread waits for an indication of its
own, so that at most one slot takes this one and the step stands at the moment
it does. Sending may succeed (an indication may then come, once, at any time, or
never), be refused for a reason the code retries, or be refused for good. A
wait ends by signal, by timeout, or spuriously.

History variables, read by no action: `unheard` remembers that some wait ended
without its indication. The code makes its strong promises only before that:
afterwards a slot is freed twice (section 6) and a late answer may be taken for
the next one. `MaxAnswers` bounds the answers on their way at once.

Choices: a payload pointer is never NULL (no caller passes one); a refused
request is never answered; a thread's locals are reset when it returns, as they
are dead; the two frees of a slot are each one step.

### 2.5 LocEngNi: network initiated requests

`rawRequest`, `reqID`, `respRecvd` and `resp` are the fields of the two
sessions; `thread` is the program counter of `ni_thread_proc`, one per request,
`handler` that of the message thread, `user` that of the framework's thread in
`loc_eng_ni_respond`. A step is what a thread does between two accesses of a
field that another thread may access, because `rawRequest` and `reqID` are used
without `tLock`: a request is saved and then gets its identifier, the reset
frees, clears and then signals, the answer finds its session before it locks
it. A thread that holds `tLock` (`checked`, `taken`) bars the others from
locking, not from the fields.

A request stands for its payload and for its identifier. `told` records what
the modem is sent. Two further history variables delimit the promises: `raced`,
a reset met a thread that was taking the request out; `stray`, an answer came
after its request had left the session, or a reset woke one. Beyond these the
code keeps no promise: the payload is freed twice, or the next request is
answered with a stale answer, although the thread's comment says that the flag
is reset "for the next session" (234) and that the restart has made sure that
`rawRequest` is NULL (238-240).

Choices: a message without a payload tells the modem nothing (the code reads
through the NULL pointer); thread creation succeeds (if it failed, 180, the
session would stay busy); times are left out, a thread that has begun to wait
may time out at any moment.

### 2.6 IpaNat and NatTable: the NAT table in the hardware

`NatTable` is the abstract table: a handle stands for a connection or is free.
`IpaNat` is `ipa_nat_drvi.c`: `rules` and `index` are the base and expansion
entries of the rule table and of the index table, `prev_index` the links
backwards of the second, `rule_id_array` the handles. The hardware looks
packets up all the time, so an operation is the sequence `todo` of its writes
(`memcpy`, `memset`, DMA command), one per step, and `FoundFromBothSides`
speaks of every state between two of them. A deletion of a head leaves it dead
in its place or moves the next entry into it, as the code does. The handle
stands for its rule from the write of the handle until the rule stops to match:
with this mapping `IpaNat` implements `NatTable`, between writes too.

### 2.7 MsgThread: a message thread from start to end

One `MsgTask` with its queue, its `LocThreadDelegate` and the thread of the
latter. `thread` and `owner` are program counters; each access to `mRunnable`
is a step since it has no lock; the queue's operations are steps since they
have. `accepted`, `processed`, `freed` and `refused` are histories of the
messages. `MsgInit` has the three outcomes of the constructor: joinable, detached,
no thread. AgpsNif, LocEngAtl, LocEngNi and LocTimer take the queue as a FIFO
that loses nothing while the task lives: `EachMessageOnce` and
`AcceptedIsProcessed` are why they may. `MsgTask::destroy` reads `mThread`
after it unblocked the queue, when the thread may have deleted the task: the
model lets it read what was there (section 6).

### 2.8 LocHeap and LocTimer: the timers

`LocHeap` gives the methods of the heap as recursive operators on trees.
`LocTimer` has the message thread that owns the heap, the poll thread, which
shares the timer descriptor and the poll set with it without a lock (each of
their system calls is a step), the clock, and the clients that start and stop
timers. `Take` hands a message to the thread, `MsgTimerPush`, `MsgTimerRemove`
and `MsgTimerExpire` are the three messages; an expiry is a sequence of
`PopIfOutRanks`, `ReadClient` and `CallBack`, since clients act between them.

Each expire message carries, as a history, the timer it was posted for (`by`).
The code's first pop does not compare times, so the model calls timers before
their time, and `EarlyOnlyIfOvertaken` says exactly when: the timer the message
was posted for was stopped, or the poll thread woke for it beside another expiry
(`Second`); or the client, between the reading of the delegate and the call of
`stop`, stopped its timer and started another, which the expiry then ends. TLC
refutes the property without any one of the three. The second case is possible
because nothing disarms the descriptor when the heap becomes empty: the branch
of `updateSoonestTime` for it is never taken.

### 2.9 IpacmIfaces: queue, dispatcher and interfaces of IPACM

The netlink thread and the driver's thread post link events, a third one
re-reads the configuration, each in any order and to one queue; one thread
takes them out and walks the listeners. A callback may create an
object, delete its own, register or deregister, or post, while the walk has the
node it will go to next in a copy: `tmp`. The objects are IPACM_Lan,
IPACM_Wlan and IPACM_Wan with the fields that decide their lives. 
A callback that deletes its own object frees the nodes of all its registrations.
If the event is the last one the object registered for, the node in the copy is
another object's; if not, it is one of those just freed, and `ProcessEvt` reads
it (129). `AdvanceFreed` lets the freed node lead on as before or, if its memory
was used again, anywhere: `lost` then names the callback, and the model stops
(`Running`), since nothing can be said of the walk. `NoDeadListener` says of which
two callbacks this can happen (`FreesNextNode`) and that behind every other, and
before that, the walk is at an object that exists. Histories: `zeroLeft`, the AP of index 0 left
another behind; `raced`, the interfaces whose last event was lost because it
overtook the request of the old object to be deleted.

What the model shows besides: the WAN side of a USB function comes up as Q6_WAN
or ECM_WAN according to which of LINK_UP and USB_LINK_UP is first, and as
Q6_WAN ignores later changes of category (`IPACM_Wan.cpp:548-608`); a
USB_LINK_UP that an object posts after a change of mode may be for a link that
went down meanwhile; an AP can get the `wlan_ap_index` of another
(`IPACM_Wlan.cpp:71`), which is why `ApIndices` has its premise.

### 2.10 IpacmWlan: the clients of the access points

Each handler of a client event is one action (the queue thread runs one after
the other): `ClientEvent` for added, addressed, asleep, awake and gone, the
link-down clean-up and the loss of the IPv6 WAN. The last reaches, in the
Android build, only the AP that is tethered to this WAN
(`IPA_HANDLE_WAN_DOWN_V6_TETHER`), and resets its clients one by one
(`handle_wlan_client_reset_rt`). For an AP that has no IPv6 address itself the
reset ends with a failure at the first client with IPv6 addresses, after that
client's rules are deleted: it keeps its addresses (`cut`), and those behind it
keep rules and addresses. `ip_type` is the AP's field that decides this. A handle is modelled by what
it stands for and the hardware is the bag `hw`, since nothing keeps the code
from adding a rule twice: a rule refused after others of the same call were
added is not counted and all are added again. Histories delimit the promises:
`denied` (an addition for this client was refused), `mixed` (the client took
over the sleep flag of another when the array was moved up), `leaked` and
`abandoned` (what an AP without an address leaves in the hardware and in NAT's
list); `cut` is a further one, which allows a client addresses without rules
until the next handler that adds them.

Assumed of what is outside: the driver announces a client before anything else
and once until it leaves, addresses are not shared or zero, each AP has one IPv4 and one IPv6 property, and
the hardware deletes what it is given a handle of. Of the last, the code's
part is checked: by `HardwareAccounted` every handle that a client holds is of a
thing that is installed, so no deletion fails because of what the code asked.

### 2.11 Proof and MC modules

`AgpsNifProofs`, `LocEngAtlProofs`, `GpsThreadsProofs` (about LocApiSyncReq and
MsgThread), `LocEngNiProofs`, `NatProofs` (about NatApp with ConntrackListener),
`IpaNatProofs`, `IpacmIfacesProofs` and `IpacmWlanProofs` hold the theorems; each
EXTENDS the modules it is about. So that `GpsThreadsProofs` can extend two,
what both would define has the prefix Msg in MsgThread (`MsgSpec`, `MsgTypeOK`). The MC modules give the constants functions as values, and
symmetry sets; one run restricts the WAN (`WanStaysSpec`).

## 3. The runs

| Run | What is asked | Answer |
|---|---|---|
| `agps_nif` | Do state, list, clients and framework of one interface stay in step; does it keep `NifContract`; is a request always answered? | yes |
| `atl` | The three interfaces together, with and without the emergency PDN (`useEmergencyPdn`, chosen in Init): is a data call always held by an interface and by clients that will close it; do agnss and internet keep their contracts; can a client that was told "open" be told of a loss? | yes, except for the subscribers of `LeftBehind`; yes; yes without the emergency PDN |
| `nat_one_address` | Do cache and hardware agree while the WAN comes and goes with one address, clients come, go and sleep, and the hardware refuses rules and tables; does NatApp use the table as `NatTable` allows? With a list of station clients that gets full and gets holes: no duplicates, the count exact, a listed client found? | yes; a listed client is missed behind a hole of the list only |
| `nat_wan_stays` | Does every open connection of a known and awake client get into the hardware, in whatever order facts arrive? | yes, while the WAN stays up and no array is full |
| `nat_two_threads` | In station mode, with two addresses and the time stamp thread: is a closed connection forgotten? | yes |
| `ipa_nat` | Is a live rule found from both sides after every single write; is no entry lost; does the driver implement `NatTable`? | yes |
| `loc_timer` | Is the kernel armed for the soonest timer although two threads set it; does anything point at a deleted timer; does every timer end, and none early? | yes; early only when the client restarted the timer while the message was on its way, when the message's own timer had been stopped, or when another expiry was under way |
| `msg_thread` | Does the delegate outlive its users, does destroy return, is each message processed once and in order or freed? | yes |
| `ipacm_ifaces` | Does an interface have one instance exactly when its link is up, whatever the order of the sources and of the objects' own events; is a deleted listener ever called? | yes, except a link whose event was overtaken; not unless a freed node that was read behind one of two callbacks had been used again |
| `ipacm_wlan` | Are the rules in the hardware those the clients hold, for their present addresses and state of sleep; are NAT's lists exact? | yes, up to refused additions, moved sleep flags and a reset that is cut short |
| `sync_req` | Are indications copied only into live buffers; has every waiting thread its own slot, and is its indication not lost? | yes; the latter as long as no wait has ended without its indication |
| `ni_sessions` | Is a request answered at most once, with its user's answer; has its payload one owner; does a session become free again? | yes; ownership unless a reset meets the thread that takes the request, the user's answer unless a stale one was left |

Where one question has several sides, its properties are stated one by one in
the module and the run checks their conjunction:

| Property of a run | Its parts |
|---|---|
| `SubscribersAreRight` (AgpsNif) | `TypeOK`, `ReleasedHasNoSubscribers`, `NoGhostSubscribers` |
| `ConnectionsAccounted` (LocEngAtl) | `TypeOK`, `DataCallIsHeld`, `HolderHasClient`, `OpenClientIsSubscribed` |
| `KeepContracts` (LocEngAtl) | `AgnssKeepsContract`, `InternetKeepsContract` |
| `CacheMatchesHardware` (NAT) | `TypeOK`, `EnabledEntryHasRule`, `RuleHasEnabledEntry` |
| `ArraysInOrder` (NAT) | `NoDuplicates`, `StaCntIsExact`, `MissedOnlyBehindHole` |
| `ChainsIntact` (IpaNat) | `TypeOK`, `NothingLeaks`, `LinksAgree`, `HandlesUsable` |
| `HeapIntact` (LocTimer) | `TypeOK`, `NoDanglingDelegate` |
| `EndsWell` (MsgThread) | `MsgTypeOK`, `DelegateOutlivesUsers`, `JoinedBeforeReturn`, `LeakedOnlyIfNeverRan` |
| `InstancesSound` (IpacmIfaces) | `TypeOK`, `OneInstance`, `DeletedOnce`, `ApIndices` |
| `InstancesFollow` (IpacmIfaces) | `LinkFollowed`, `CategoryFollowed` |
| `RulesFit` (IpacmWlan) | `TypeOK`, `ClientsCounted`, `RulesAreCurrent`, `RulesFollowSleep` |
| `NatKnowsClients` (IpacmWlan) | `NatListIsExact`, `NoSleepWithoutSleeper` |

The types of LocApiSyncReq and LocEngNi are proved (`TypeCorrect`) and in no run.

## 4. Bounds and fairness

* `agps_nif`: two clients, since every conflict is between a client that goes
  and one that comes. `QueueBound` 4 allows a restart, an answer, an open and
  a close to be queued together; `ReqBound` 3 lets a request, its withdrawal
  and the next request be on their way. The bounds hold back the modem only:
  answers and the engine's own messages are never refused. 245 562 states.
* `atl`: two handles; `MaxRetries` is 1, so that the bound on retries is
  reached in a few steps. Without the emergency PDN the ds interface is
  never used, a third kind of connection is, and the queue is longer.
* NAT runs: the smallest sizes at which each array can be too small or just
  large enough. Two slots of the cache are needed for a duplicate and three
  connections to overflow them; `nat_wan_stays` has room for everything since
  the property is false by design when an array is full, and the WAN stays up
  since a client announced without a table loses its entries (638). There the
  events that announce a client a second time are off (`ReAnnounce`), because
  they can list one client twice and fill the list of clients (a hazard with its
  own entry). In `nat_one_address` deletions by the hardware succeed: when
  they fail, the rule is lost by the code's own choice (271). Its three
  connections overflow the two slots of the cache, and three station clients
  with three slots fill their list and leave holes before, between and after;
  the three connections, which are of one client, and the two station clients
  that no connection goes to are symmetric. 2 741 708 states. Connections of the
  device itself are in the model, and in the theorems, but in no run.
* `sync_req`: three threads over two slots, so that one thread finds no slot,
  and one retry.

* `ni_sessions`: two requests out of two normal ones and one of emergency SUPL
  (`AskBound`), so that each order of the two kinds occurs and two requests
  share a session; one modem crash, which is enough for two threads to serve
  one session; two messages from the modem at a time. 395 953 states. What
  needs three requests (a request after an ignored one) is not reached.

* `ipa_nat`: five connections, three base and three expansion entries. All
  collide inbound, so that one chain has a head, middle and last entry and
  the fifth addition finds the expansion table full; outbound they make two
  chains.
* `loc_timer`: three clients, three starts, a clock up to 3: two timers in the
  heap and one to be pushed above or below them. With the delays 1 and 3 a timer
  that is restarted can be due before or after the others. The clock stops at `MaxTime`,
  so a timer can be due at the last tick only.
* `msg_thread`: three messages: one in hand, one queued, one refused.
* `ipacm_ifaces`: two APs (the configuration file has two) and one USB
  function; four changes, enough for a link to go and come back while the other
  source and the file change once. The model stops when a freed node that was used
  again has been read; what the two callbacks do otherwise is in the same run.
  675 655 states.
* `ipacm_wlan`: two APs and two clients, enough for one behind the other in an
  array, for one to move up, and for a reset to end before the second; two IPv4
  addresses, one IPv6 address, of which each client takes one at most (the code
  has three), and one fault (`MaxFaults`), so that every leak is traced to one
  cause. The hardware takes two clients; that more clients than
  places never exceed the limit is proved, not run. 910 080 states.

Fairness is assumed where a liveness property is checked. `agps_nif`: the
engine thread takes a message as long as there is one (`MsgTask::run` loops on
`msg_q_rcv`), and the framework takes callbacks and answers (it is outside the
repository; the engine has no timeout of its own and depends on it). No fairness
of clients, restarts or drops. `nat_two_threads`: the command queue's thread
goes on with a walk (weak fairness) and processes a queued conntrack message
(strong fairness, because a walk started by another event disables it for a while
and the real queue is FIFO). `ni_sessions`: the message thread and the request's
threads run, and a wait ends (it is a timed wait); no fairness of users or of
the modem. `loc_timer`: the clock, the poll thread and the message thread go
on; clients need not act. `msg_thread`: the thread and an owner that has called
destroy go on; nobody need send or destroy. `ipacm_ifaces`: the queue's thread
goes on as long as its walk does (`Running`). The other runs check safety only.

Deadlock is not checked in `ni_sessions`, `loc_timer`, `msg_thread`, `ipacm_ifaces`
and `ipacm_wlan`, which stop when the bounded inputs are used up, the thread
has ended, the walk is lost (`ipacm_ifaces`), or nothing more happens, nor in `nat_one_address` and
`nat_two_threads`, which stop when an entry has been written outside `cache[]`.

## 5. What is proved

Every theorem holds for all values of the constants that satisfy the named
assumptions of its module (`NifAssumption`, `WlanAssumption` and so on), which
say that bounds are numbers, that the values standing for "nothing" are none of
the others, and what a configuration may be; a theorem that needs more says so
in its ASSUME. Each proof has one lemma per handler, under it one
step per part of the invariant that the handler can disturb.

For any set of clients and any bounds (AgpsNif), and for any threads, slots,
indications, retries and bounds (LocApiSyncReq):

* `NifInvariant`. The safety properties of AgpsNif are not inductive one by
  one. That an open client is subscribed fails after a restart unless one knows
  that between the restart and its ENGINE_UP every client is idle; that a
  pending interface is owed an answer needs that a framework that is not
  opening and has no callback has an answer in the queue, and that taking any
  other message keeps it there (`AnswerStaysQueued`). `NifInv` is the
  conjunction of types, empty list when Released, answer due, open clients
  subscribed, and idle clients while restarting. One lemma per handler.
  Consequences: `ReleasedIsEmpty`, `PendingIsNeverStuck`,
  `OpenImpliesSubscribed`.
* `SubscribersRight`. That no subscriber is a client that has gone needs that a
  queued open is the first message about its client (`OpensAreNew`): a close
  queued before it would leave the subscriber for ever.
* `NifImplementsContract`: initial states and steps of AgpsNif map to those of
  `NifContract`, using `ReleasedHasNoSubscribers`.
* `TypeCorrect`, `InUseCorrect` (the global flag says whether a slot is in
  use), `BufferCorrect` (an indication is copied only into a buffer whose
  thread is still in its call: in every state a slot that points to a buffer
  belongs to a call that has yet to free it).
* `OwnershipInvariant`, `SlotsOwned`: as long as no wait has ended without its
  indication, a thread between allocation and free is the only one to hold
  its slot. The invariant says of each `pc` which slot the thread holds,
  and that no two threads hold one.
* `HearingInvariant`, `WaitersHear`, `SuccessAnswered`: under the same
  condition and with distinct indications, a thread that waits has been
  signalled, or its indication is still on its way and its slot will match it;
  and a call that returns success with a filled buffer was answered. This is
  the race the code is written around (218: the indication that comes before
  the wait), and the invariant has to follow an indication from the
  request to the slot that will take it.

For any set of messages (MsgThread):

* `LifeCorrect`. `LifeInv` ties the reference count to the places of the
  thread and of the owner, says who may still be at work when the other is about to
  delete, and what a place says of `mRunnable`, `mJoinable` and the task. The
  type of the count is not inductive without it (a decrement could go below 0),
  so types and life are established together. Consequences: `MsgTypeCorrect`,
  `DelegateLives`, `JoinedAtReturn`, `TaskDeleted`, and their conjunction
  `EndsWellCorrect`.
* `FlowCorrect`, `MessagesOnce`. `EachMessageOnce` speaks of a prefix and a
  set; what is inductive is that the accepted messages are the processed ones,
  the one in hand and a rest, in this order and without repetition, and that
  the rest is the queue or, after the end, what was freed. It rests on two
  lemmas about sequences (`TakeHead`, `PutLast`).

For any requests, with either of the two sessions for each, and any bounds (LocEngNi):

* `OnceCorrect`, `NeverAnsweredTwice`. That a request is answered once is not
  inductive: a request travels from the modem's message to the session, to its
  thread's message and to the message thread, and the restart may take it
  anywhere. `OnceInv` says where it can be: a session holds a request of its own
  kind and one thread at a time has its lock (`SessionsFit`), a thread starts
  when its request has been saved (`NewHasNoThread`), no two messages are about one
  request (`QueueOnce`, `ThreadsOnce`), what is in a message or in a session is
  unanswered (`CarriedIsUntold`, `SessionIsUntold`) and what was not made is
  nowhere (`UnbornIsNowhere`).
* `BusyIsServed`: `BusyHasThread` is inductive with the first two parts of it.
* `OwnCorrect`, `AnswersAreOwn`. `OwnInv` follows an answer from the user's
  thread to the session (`AnswerFits`) and on to the modem (`MessagesFit`) as
  long as no stray answer has come. It needs that a thread with the lock keeps
  its session (`LockKeepsSession`), except that the reset, which does not lock
  before it clears, is about to signal.
* `OneHolderEach`. The payload of a request has one owner among the message on
  its way, the session, and the threads that have taken it out. `HolderInv`
  names the holders as positions (a place in a queue, a session, a
  thread) and says that two positions with the same request are equal; the count of
  holders that `OneHolder` bounds is then that of a set with at most one element.
* `TypeCorrect`.

For any handles, any bounds and either value of `useEmergencyPdn` (LocEngAtl):

* `AtlCorrect`, `EveryConnectionAccounted`. `AtlInv` adds to the properties
  what they lean on: one report at most that the data call is down is queued, a
  data call or such a report keeps the emergency interface out of Released
  (`DsOK`), nothing of that interface is used without its PDN (`NoPdnNoCall`),
  and until a restart is handled no client asks for anything. A handler of one
  interface is shown to leave the others' parts alone (`OutsideStep`), so that
  each part is argued for the interface it is about (`HandlerStep`). The lists are
  sequences whose order matters; `Kept`, a recursive function in place of the
  library's `SelectSeq`, of which the prover knows nothing, filters them.
  `EveryConnectionAccounted` needs more than `AtlInv`: that a Pending or Acquired
  emergency interface has an active subscriber (`CallHeld`), that only an
  emergency request makes a handle an active subscriber (`EngineHolds`), and that
  a handler that tells a client of its end is one of `LeftBehind`
  (`ToldIsLeftBehind`), whose list is thereby shown complete.
* `InterfacesKeepContract`: the refinement `KeepContracts` of two `NifContract`s,
  step by step, although the emergency interface posts requests to one of them.

For any connections, slots, addresses and bounds (NatApp and ConntrackListener),
the time stamp thread included unless said otherwise:

* `ArraysCorrect`, `ArraysStayInOrder`. No entry twice in the cache, and the
  count of station clients exact, from which it follows that a listed client is
  missed behind a hole only. `ArraysInv` adds that an empty slot is zeroed (the code tells a free slot by its
  private address) and that a walk is inside its array.
* `EveryRuleHasEntry`, `NatTableUsed`, if the hardware does not refuse a deletion
  (`DelMayFail = FALSE`): a refused deletion drops the entry and keeps the rule
  (`IPACM_Conntrack_NATApp.cpp:271`), which TLC confirms. In the middle of
  AddTable's walk over the cache only the slots already passed are settled
  (`Settled`); the invariant speaks of these. The refinement `UsesNatTable` is a
  consequence.
* `EveryEntryHasRule`, with one WAN address and without the time stamp thread
  (`OneAddress`): with another address Reset leaves stale enabled bits (section
  6, 2), and the thread may delete with a stale handle during the walk (473).
  Refused deletions are allowed here. It needs that what a deleted table left
  enabled will be walked back into the next one (`LeftIsRestored`).
* `CacheAndHardwareAgree`: both directions, under both premises, which are those of
  the run `nat_one_address`.
* `KnownClientsOffloaded`, under the premises of the run `nat_wan_stays`
  (`RoomForAll`, `OneAddress`, and a WAN that stays up, `WanStaysSpec`): an array
  is only required to hold as many as there can be, whatever that number is. The
  property speaks of the moments between two events; `OffloadInv` says how things
  stand in the middle of the walks. An open connection whose last message is
  handled is in the cache or in temp[] (`Located`; `LastSays` is why an old
  "destroy" cannot be the last message); an entry without a rule belongs to a
  client that sleeps or is gone, or a walk is still to come to it (`EntriesWait`,
  `Due`), and so for temp[] (`TempsWait`); a walk that takes something away is
  about such a client, and what FlushTempEntries drops is in the cache
  (`WalkSound`). That a search always finds a free slot, handle or place in the
  list is a count of those in use (`SlotLeft`), which for handles needs that no
  connection has two rules, that is `RulesInv` and `NoDuplicates`.

For any interfaces of which finitely many exist, and any events (IpacmIfaces):

* `IfacesCorrect`, `NoDeletedObjectCalled`. That the dispatcher never calls a
  deleted object rests on who may be deleted while it walks: the object that is
  being called only. `WalkOK` says that the next node, as it was found before the
  callback, is an object that exists and listens to the event, `NodesOK` which
  callbacks free a node that the walk reads, `ListsOK` that both lists hold exactly the objects
  there are, each once.
* `OneInstanceDeletedOnce`. An inactive instance has exactly one request to be
  deleted, queued or being processed, and nobody else has one (`RequestsOK`), so
  that a request never meets a successor of the object that posted it. The
  number of APs is the cardinality of the set of their objects, and their
  indices are the numbers below it unless `zeroLeft`. The lists are cut by
  position, at the first place (`MinOf`, `RemoveOne`).
* `InstancesFollowLinks`, from `LinksAndCategories`. The property speaks of states
  at rest only; the invariant says in every state where the queue is going.
  `LinkInv`: the last thing said of a link, in the driver or else in the queue, is
  how the link is (`HeardLast`); and when nothing is to come, an interface is `Up` exactly
  when its link is, where an instance that is about to come back in another
  mode, or an event posted for a successor, counts as up (`UpFollows`). That a
  down event in hand finds neither (`DownHeard`) is what `raced` is for. `CatInv`: the
  table has the categories of the file or a change is queued (`FileOK`), and an
  object of another category is one that the walk of a change has still to call
  (`KindOK`), for which a deletion must leave the others in their order
  (`RemoveKeepsOrder`) and the walk must go on to the first that listens
  (`WalksToFirst`).

For any APs, clients, addresses and limits (IpacmWlan):

* `WlanCorrect`, `ClientsHaveTheirRules`, `NatIsInStep`. `WlanInv` is four parts: the arrays
  hold a MAC address once (`Apart`); each client `Fits`, which says what rules
  it has for the addresses it has and how that depends on sleep, refusals and moved
  flags; the global count is the number of MAC addresses; an address is one
  client's (`Own`) and NAT's lists are exact. `handle_wlan_client_route_rule` is
  used by four handlers that prepare a client which fits but for the rules of
  the versions to be added (`Fits(c, {4, 6} \ ipv)`), and `RuleHandler` shows that
  it fits afterwards. Leaving, clearing an AP and losing the IPv6 WAN are
  operations on arrays (`Removed`, `Cleared`, `Trimmed`) that become one statement
  about sets of clients (`Leaves`); the last trims one AP's clients, up to the one
  at which the reset ends, which keeps its addresses and is `cut`.
* `NothingElseInstalled`. The bag of the hardware is that of the leaks plus the set
  of what the clients have handles of. It needs that a rule about to be added is not
  there: other clients' things carry other MAC addresses, and the IPv6 addresses of
  a client are distinct (`Distinct`), so that the rules behind the count are
  new (`NeededIsNew`). Three lemmas about bags (`Deleted`, `Added`,
  `Forgotten`) do the arithmetic.

For any sizes of the base and the expansion table, any connections and any two
hashes of them (IpaNat):

* `NatInvAlways`. In the middle of an operation the tables are in no order of
  their own: an entry is written and not linked, or linked past and not cleared.
  What is inductive is where they come from. `NatInv` says that there are tables
  r, x, p, h in order (`Good`), and a rule that may be added to them (`AddOf`)
  or deleted (`DelOf`), such that `todo` is what is left of the writes of this
  operation and the tables in memory are what the writes done so far make of
  r, x, p, h (`AddAt`, six places; `DelAt`, eleven). The earlier tables are bound by
  quantifiers, so no history variable is needed; TLC has checked the invariant
  with them in one. `AddRuleStarts` and `DelRuleStarts` show that the code's
  sequence of writes is this one, `AddStep` and `DelStep` that each write leads
  to the next place, `AddedGood` and `DeletedGood` that the last leaves tables
  in order.
* `Good` is about hash tables with chaining (`Chained`): an entry in use is on
  the chain of its hash, and what an entry links to is in the expansion table, in
  use, of the same hash, and links back. That a chain ends (`ChainEnds`) and has
  one last entry (`OneEnd`) follows, since an entry has one predecessor and the
  head none. `Chain` is a recursive function that follows as many links as there
  are entries; `ChainIsLeast` shows that it is the least set that has its first
  entry and is closed under the links, which needs induction over sets of
  numbers (`EveryNumber`) and a count (`ReachSteps`). After it no proof counts
  links: `ChainGrows` is about an entry linked behind the last one, `Bypass`
  about one that is linked past.
* `RulesAreFound`. At every place of either operation the tables in memory serve
  the rules of r but the one that is being deleted (`RulesServe`, `IndexServes`).
* `ChainsStayIntact`. Between operations from `Good`; that a handle below T + E
  is always left, so that `make_rule_hdl` never gives the one that cannot be
  parsed, is a pigeonhole (`HandleLeft`): there are fewer entries than handles.
* `DriverImplementsTable`, the refinement. Of the writes of a deletion exactly
  one is visible through the table of handles: that which disables or marks a
  rule of the base table, or the one that clears a rule of the expansion table
  (`LastMatch`).

Only model-checked:

* the liveness properties (`OpeningIsAnswered`, `ClosedIsForgotten`,
  `SessionEnds`, `StartedTimerEnds`, `DestroyReturns`, `AcceptedIsProcessed`,
  `EventsProcessed`): the prover does neither fairness nor ENABLED;
* all of LocTimer, whose heap is a tree computed by recursive operators
  (`push`, `pop`, `remove`), which the prover cannot expand.

## 6. Where the code disagrees with its comments or intent

Seen while modelling. The models do what the code does; the properties are
stated so that they say what holds in spite of it, and each premise below is
named where the property is defined.

1. `loc_eng_agps.cpp:562-564`: after the last close the Releasing state asks
   for the data call for its waiting subscribers and becomes Pending whatever
   the answer. The pending state waits for an indication "until we get
   RSRC_GRANTED" (332); none comes if the call was refused.
2. `IPACM_Conntrack_NATApp.cpp:197-200`: "NAT tbl deleted, reset enabled bit"
   compares (`==`) instead of assigning. With the same address as before,
   AddTable overwrites the stale bits; with another they stay.
3. `IPACM_Conntrack_NATApp.cpp:473`: the time stamp thread deletes the entry
   of an open connection that took over a slot while the thread was asking the
   kernel about the closed one.
4. `loc_api_sync_req.c:547`: a "thread safe" call frees its slot a second time
   after a timeout (465), when another thread may own it. `unheard`.
5. `LocTimer.cpp:369`: an expire message pops the first timer without
   comparing its time, although the heap is to be popped "until the top node's
   timeout is in the future" (353). The causes are in `EarlyOnlyIfOvertaken`.
6. `MsgTask.cpp:66`: destroy reads `mThread` of a task its thread may have
   deleted after the queue was unblocked; `MsgTask.h:50` leaves the deletion to
   the thread.
7. `IPACM_Wlan.cpp:2417-2458`: a client that leaves has the later ones moved up
   field by field, without `power_save_set`: a sleeping client may get rules,
   and the next sleep or recovery of the one that took over the slot is ignored
   (cf. the comment at 2119). `mixed`.
8. `loc_eng_ni.cpp:234-240`: the answer flag and the payload are not always
   reset for the next session. `stray` and `raced` of LocEngNi.
9. `loc_eng_agps.cpp:283-292`: a close that the Released state handles is
   answered to the client and leaves the list alone, since "the list should
   really be empty, nothing to remove"; but DSStateMachine keeps its subscriber
   listed while it retries (273), and also after it fell back to a normal
   connection. `loc_eng.cpp:2909-2914` drops the lists of two interfaces on a
   restart and not the third's. And `retryCallback` (837) may ask for a subscriber
   whose client closes before the request is served. Each leaves an active
   subscriber that nobody closes, and a data call that it holds stays up until
   the modem uses the handle again or the network drops the call. `LeftBehind`.
10. `IPACM_EvtDispatcher.cpp:129`: the walk goes on from a copy of the node (122), so
  that a callback may free the node; but one that deletes its object
  also frees the next node when that is the object's own: an IPACM_Wlan on
  IPA_LAN_DELETE_SELF (`IPACM_Wlan.cpp:278`), an IPACM_Wan on a change of category
  (`IPACM_Wan.cpp:634`). `lost`.
11. `IPACM_Wlan.cpp:2873-2944`: "handle reset wifi-client rt-rules" does not reach
  every client: for an AP without an IPv6 address of its own it fails at the first
  client that has one, with that client's rules deleted and its addresses kept.
  `cut`.
12. `IPACM_Conntrack_NATApp.cpp:863-895`: the search for a free entry starts from
  an uninitialised index. `outside`.

## 7. What is not modelled

`PROJECT.json` lists every part with a reason. Pure I/O and translation
(netlink and XML parsing, NMEA, the QMI and RPC adapters), generated code
(QMI tables, RPC stubs: a quarter of all lines) and stateless HALs have
nothing a model checker would find, and the modelled code is therefore a small
share of the repository's lines. In the modelled files:

* AGPS: Wi-Fi requests; the pointers of the subscribers' list, which
  `retryCallback` walks on the timer's thread without a lock
  (`loc_eng_agps.cpp:837`); `loc_eng_agps.cpp:273`, a subscriber that stays
  listed after a failed request of the emergency interface.
* NAT: IPv6 and LAN to LAN traffic of the listener; what happens when arrays are
  full (`IPACM_ConntrackListener.cpp:219`, `IPACM_Conntrack_NATApp.cpp:692`) and
  when a client gets its address while there is no table (638) is in the model,
  but no property holds of it that anyone could want.
* The NAT driver: a DMA command or an allocation that fails in the middle of an
  addition (`ipa_nat_drvi.c:1322, 1462`), a failed deletion of the table
  (907), the layout and checksums of an entry.
* Synchronous requests: with every slot in use the call returns success
  (`loc_api_sync_req.c:497`), a late answer is taken for the next one's (190),
  two threads cannot wait for one indication (206): the model reaches the
  first two; `SuccessIsAnswered` and `WaiterWillHear` exclude them.
* Timers: a client deleted during its expiry (`LocTimer.cpp:524`), the container of
  alarms.
* IPACM interfaces: eMBMS, ETH and ODU, station mode. WLAN clients: filter rules,
  messages to LAN to LAN, SCC and MCC.
* Data races below the granularity of a lock or of an array element.

## 8. Plan

What is left, the most important behaviour first.

1. `LocEngSession`: start, stop, engine down and up, mute sessions, aiding
   data; composed with the AGPS interfaces through the one queue. Hazards:
   `loc_eng.cpp:1326` (a second deletion overwrites the mask of a deferred
   one), `loc_eng.cpp:2838` (the mute state and the order of reports),
   `loc_eng.cpp:2919` (the session after a crash).
2. The WAN's default route (`IPACM_Wan.cpp`) and the peers of LAN to LAN, over
   IpacmIfaces; the clients of IPACM_Lan as in IpacmWlan; `Neighbors`
   (`IPACM_Neighbor.cpp:300`, an index that never wraps).
3. `RpcSyncCall` against the properties of LocApiSyncReq
   (`loc_api_sync_call.c:139, 462`); `DsClient` below LocEngAtl's data call
   (`ds_client.c:681, 704, 777`); adapters (`LocApiBase.cpp:193`), PPS
   (`gnsspps.c:158`), amplifier (`audio_amplifier.c:203`), gestures
   (`HtcGestureService.java:135`), fingerprint (`FingerprintWrapper.cpp:181`).
4. Proofs about LocTimer, with the heap written without recursive operators.
