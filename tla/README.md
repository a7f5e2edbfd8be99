# USBOverIP: a TLA+ verification project

USBOverIP is two small FastAPI programs around the kernel's USB/IP drivers. The
*server* exports USB devices; the *client* attaches them to its host's virtual
ports and keeps them attached through reboots, broken sessions and renumbered
buses. This directory holds TLA+ modules translated from that code, TLC
configurations that check them on small instances, and proofs checked by TLAPS.

## 1. The system

| Component | Source | State | Operations |
|---|---|---|---|
| client attachment table | `client/app/groups.py`, `client/app/main.py` | `servers`, `groups`, `attachments` of `config.json`; `_startup_rebind_requested`; what each suspended handler has read | the watchdog tick every 15 s, pushes from servers, direct and group attach, detach, edit, server and group entries |
| client usbip wrapper | `client/app/usbip_client.py` | none (the kernel's vhci ports) | `attach`, `detach`, `list_ports` |
| stable device nodes | `client/app/usbip_client.py`, `client/app/groups.py` | `/dev/usbip-web`, the `stable_node` of each record, `/etc/tmpfiles.d/usbip-web.conf` | mirror a device, remove a node, rewrite the boot entries, restore at startup |
| client remote calls | `client/app/remote_client.py` | none | device list, request-share, rebind, tunnel registration |
| server device sharing | `server/app/main.py`, `server/app/usb_devices.py` | `shared_devices`, `known_serials`, `device_labels`; the kernel's bindings | share, unshare, rebind, request-share, the startup pass and the 15 s watchdog, pushes to clients |
| wireguard tunnels | `common/wireguard_helper.py`, both `main.py` | keys, peers, `next_host`; the `wireguard` part of a server entry | enable, register, bring up at start |
| tunnel-only firewall | `server/app/firewall_helper.py` | one nftables table | enable, disable |
| usbipd supervisor | `server/app/usbipd_supervisor.py` | one child process | start, watch, stop |
| config store | `common/config_store.py` | one JSON file | `read`, `update` |
| client registry, sessions, throttle | `server/app/main.py`, `common/webauth.py`, `common/security.py` | tokens, password hash, failed attempts | add, rotate, delete, login |
| the rest | `client/app/proxmox.py`, `docker_helper.py`, `systemd_helper.py`, templates, `common/procutil.py` | none | restarts of containers, pages, argument checks |

How they interact. Each program is one asyncio event loop: a handler runs
undisturbed from one `await` to the next, and the subprocess calls block the
loop. Between two awaits anything may happen: another handler, the watchdog, a
push. The client calls a server over HTTP (list, share, rebind); the server
pushes "this device is available" to every client after a share, a rebind and
each repair by its own watchdog; and the USB/IP session itself runs between the
two kernels, which neither program watches.

What is hard: a watchdog tick works through *one* copy of the table and of the
ports while handlers change both; records travel as captured copies across awaits
and are written back whole; port numbers, busids and even "in use" on the server
are names that get used again or outlive what they named (the local busid of a
device is the name of its port, so it comes back with the port); sessions die without
notice to either side; answers and pushes arrive late; timeouts raise an
exception that most callers do not catch. `PROJECT.json` lists each such place
under `hazards`.

What makes it correct:

* attachments: every session of this host is on record, with its device; what the
  user wants attached stays wanted until the user detaches it, and comes back when
  it can; the forced rebind, which cuts whoever holds the device, happens once per
  outage. That a push touches only the device it is about, and that a record does not
  take another record's device for its own, the code promises and does not keep
  (`push_cuts`).
* sharing: what the admin shared stays shared, and what was unshared stays so; a
  renumbered device keeps its share, shares of one serial excepted, which become
  one; clients hear of every device that returns.
* nodes: a live attachment's node, record and boot entry have one number of its
  device; the node of an attachment that is down stays, so that containers start.
* tunnels: one address per client, and a peer for each.
* the store: a call takes effect at one moment or not at all, and survives a kill.

## 2. Modules

| Module | Models |
|---|---|
| `ClientAttachments` | the client's attachment table, and the servers as it sees them |
| `ServerShares` | what a server shares, its watchdog and its pushes |
| `Tunnels` | the wireguard tunnels: both programs' stores and both kernels |
| `StableNodes` | the client's device nodes and boot entries, write by write |
| `ConfigStore` | the file both programs keep their state in, step by step |
| `DurableConfig` | what the callers of the store rely on: the specification `ConfigStore` implements |

Each but the last has a module `MC...` that gives its constants values for TLC and a
module `..._proofs` with its theorems. `ClientAttachments` has three of them, each extending
the one before: `ClientAttachments_proofs` (typing),
`ClientAttachments_kept_proofs` (what leaves the table) and
`ClientAttachments_sessions_proofs` (records and sessions). How they fit together:

* `ClientAttachments` lets the servers' answers and pushes come at any time (`Serve`,
  `Push`, the event `late`), in particular whenever `ServerShares` sends them.
* `StableNodes` lets a restore begin, succeed and fail at any time, in particular when
  `ClientAttachments` does; in exchange it has the single writes of a handler.
* every other module takes `store.update` for one atomic and durable step. That is
  `DurableConfig`, and `ConfigStore` implements it.

### ClientAttachments

| Variable | Code |
|---|---|
| `servers`, `groups`, `att` | `config.json`; a server that is added again has a new id, so an entry goes from `new` to `registered` to `deleted` |
| `vhci` | `usbip_client.live_port_map()`: the local busid at each port, which is `BusidOf` the port |
| `export`, `serialAt`, `reach` | the servers: who holds each device (a port of ours, `foreign`, nobody), which serial is at each busid, which server the network reaches |
| `snap` | the records that the running `_watchdog_tick` has found dropped and not visited yet |
| `frame[t]` | the suspended handler of task `t`: which await it is in, what it captured before it, and the answer once the server has given one |
| `grace`, `requested` | the startup window of 180 s and `_startup_rebind_requested` |

An action is one stretch of code between two awaits, with every call it makes:
for example `WatchdogRestore(id)` and `Push` both run `Restore`, which is
`_restore_dropped_attachment` up to its first wait, `TryRelocated` is its second
half, `TryCandidate` one turn of the loop in `attach_group`. `Serve(t)` is the
server's work for the request task `t` waits for, a step of its own, so that
everything may change both before and after it. `Drop`, `Reap`, `Grab`,
`Release`, `Bind`, `Unbind`, `Renumber`, `Outage`, `ClientRestart` and
`HostReboot` are the world.

A behaviour starts in one of the `Environments` of a run (`env`): which servers and
devices there are, which flags the user gives attachments, and which of the following
events may happen. One run can so ask the same questions of several situations, each
of which stays small:

| Event | Meaning |
|---|---|
| `drop`, `zombie`, `stale` | a session breaks; the port goes on looking attached until the kernel reaps it; the server goes on believing that the device is in use |
| `push`, `late` | servers push; a push may be older than the device's last move |
| `detach`, `edit`, `servers`, `detachfails` | the user's further handlers; `usbip detach` fails while a push uses it |
| `others`, `admin`, `renumber`, `outage` | other clients, the server's admin, a renumbered bus, the network |
| `restart`, `reboot` | the client process, or its host, stops and starts again |
| `lag`, `lost`, `bindfails` | `usbip attach` succeeds after the 3 s poll has given up; request-share's answer is lost; rebind unbinds and cannot bind |

`BusidOf` is how vhci_hcd names a device: for the port of the virtual root hub it is on. A
port that is used again therefore brings its busid back, and the busid that a dropped record
carries says no more than its port number does. So a record whose port has gone to another
attachment passes for live (`groups.py:505-513`, `543-545`, `usbip_client.py:62-70`), in the
model as in the code: the properties below are stated with that in mind, and `push_cuts`
shows what comes of it. The ids of an environment and `Room` are bounds.

`Hanging` are the servers whose usbip port may leave a connection unanswered until
`run()`'s 30 s timeout, `FileOrder` fixes the order of two records in the file
where a property depends on it.

Two abstractions a reader should know. The tick's liveness test reads only the two
copies made at its start, so `WatchdogTick` makes it for all records at once. And
`next_retry` says that a backoff is set, not until when: `WatchdogSkip` and
`WatchdogRestore` are both possible while it is set.

### ServerShares

| Variable | Code |
|---|---|
| `plug`, `bound` | the kernel: the device at each busid, the busids bound to usbip-host |
| `shared`, `known` | `shared_devices` and `known_serials` of `server_config.json` |
| `clients` | the registered clients |
| `frame[t]` | a suspended request or pass: the list and serials it read, the busids still to visit, the clients still to be pushed |
| `up` | startup is over: `on_startup` finishes its own pass before uvicorn serves requests |
| `owed` | for the properties: pushes that somebody has yet to send |

`_ensure_shared_devices_bound` is `BeginPass` (what is missing is looked for and the
list is rewritten), `Visit` for each busid, `PushTo` for each client and
`FinishPass`; a handler (`Share`, `Unshare`, `Rebind`) is one step up to its pushes.
A pass is interrupted only in a push. What it has read at its start is in its frame:
the list, the serials, and which busids were bound then (`ToVisit`). `Relocated(at)` are the
missing busids that make way for where their serials are now: `at` (`BySerial`) gives one busid
for each serial, so that two missing busids with one serial become one share. `Renumber`,
`Reset`, `Restart` and `HostReboot` are the world; with the event `killed` the
process dies between `usbip bind` and the update of the list. `MaxRestarts` bounds
the restarts. Where several devices report the missing serial, the code takes the
last one of the list and the model any.

### Tunnels

| Variable | Code |
|---|---|
| `client`, `nextHost`, `peer`, `order` | the server's store: clients, `next_host`, `peers` and their order in the dictionary, which is the order of the replay |
| `wg0`, `live` | the server's kernel: whether the interface is there, and the address that each key may use on it |
| `skipped` | for the properties: keys that the kernel lacks since the server's last start failed to set them |
| `state`, `token`, `via`, `wg` | a client's store: its entries, whose token and which host they have, the address in their `wireguard` part |
| `iface` | a client's kernel: the address of `wg-<entry>` |
| `frame[t]` | `api_enable_wireguard` before and after the server's answer |

A machine stands for its key pair, which is made once and in the stretch of code that
first needs it. `Register` is the server's handler, which has no `await`; with the
event `lost` the client has given up waiting, with `wgfails` `wg` or `wg-quick` fails
where the code expects it. `ServerStart` and `ClientStart` are a start of the process or of
the host. With `wgfails` the server's interface may not come up, and then no peer is replayed
(`main.py:209-211`), or the kernel refuses single peers, which the replay passes over
(`main.py:216-217`). `Holders` says into which machines a client id's token is pasted;
`Tunnelled`, a bound, which entries are ever edited to the tunnel's address.

### StableNodes

| Variable | Code |
|---|---|
| `att` | `attachments` of `config.json`: the fields a node depends on, and `stable_node` |
| `vhci` | the session at each port: whose it is (which the kernel does not know), the numbers of its raw node and, if there is one, of its serial node |
| `nodes` | `/dev/usbip-web/<key>`, a tmpfs |
| `tmpfiles` | the entries of `/etc/tmpfiles.d/usbip-web.conf` |
| `restoring[t]` | the copy of a record that task `t` (a watchdog visit, a push) has read and is to bring back, and whether it has popped it |
| `asking` | groups that a user's handler is attaching |
| `job` | the handler, or the startup, that is running: its next write |
| `up`, `attaches`, `crashes` | startup is over; how many sessions, and how many kills and reboots, there were |
| `twice` | for the properties: groups that have had two records at a time |

`update_node_for_port` is three steps (`Resolve`, `Place`, `Persist`) followed by `Sync`,
which is `sync_tmpfiles_conf`; a detach is `Detach`, `Remove`, `Sync`; the startup is one
`StartupVisit` per record and a `Sync`. A handler does not wait between them, so no other
handler comes in between (`AtRest`), but a device may go (`Drop`), its driver may make the
serial node late (`TtyAppears`), and the client may be killed or the host rebooted at each, the
client also between `usbip attach` and the record of it. A restore is `Read`, then `Forget`,
`DirectRestored`, or `Pop` and `GroupRestored`, or `NotRestored`. Any number of tasks may do
it for one record side by side, as the watchdog and a push do, and each writes back the copy
it has read (`WrittenBack`), with the `stable_node` the record had then. A number stands for a
major and minor. The local busid is not in the records, because it says no more than the port.
Where two records of a group are on the table, the code takes the later one and the model any.

### ConfigStore and DurableConfig

`ConfigStore` has one caller per thread: `Call`, `Acquire` (the lock), `Load` (read the
file, merge it over the defaults, run `mutate`), `MakeTemp`, `Dump`, `Replace` or
`NotReplaced`, `Return`. `file` is what a process would read, `disk` the contents a power
cut may leave, since nothing is flushed before the rename. `Dump`, `MakeTemp` and the
rename may each fail on a full disk; `Kill` and `PowerCut` may come at any step. An
unreadable file (`Broken`) and a missing one say nothing, a file of an older version lacks
some of the keys, and what is lacking comes from `Defaults`: a set, since `_defaults()` draws
a new `session_secret` each time it is called, so that two reads of a broken file may differ.
A process that is killed leaves its temporary file for good (`left`). Each of today's programs
calls the store from one event loop, without an `await` in a call, so that its calls never meet;
the model has callers that do, as the class allows.

`DurableConfig` has what is stored as one value, with some of the keys or none: a call begins,
and then takes effect in one step, in which it draws its defaults, or fails; `Create` is the
constructor's. Only a power cut may set the configuration back, to what was there since the
last flush, or to nothing. The refinement maps the file to its contents, and a call takes
effect at the rename (an update) or at the load (a read).

## 3. Runs

| Run | Question | Bounds |
|---|---|---|
| `attachments` | Are all sessions of this host on record, what is to be kept kept, and rebound at most once, and a group wanted, whatever the watchdog, a push and the user do side by side? | five environments: `Direct` (two devices of one server, zombies, the server's removal), `Grouped` (a primary and a backup, 3 ids, other clients), `Edited` (a device whose flags the user changes), `Failing` (detaches that fail, attaches that are slow), `Moving` (one record of a device that is renumbered, and late pushes); 2 ports, backoff from the 1st and rebind at the 2nd failure |
| `recovery` | Does a direct attachment come back, with its own device, after drops, stale exports, renumbering, late pushes, failed binds, lost answers, outages, restarts and reboots? | 1 record, 2 busids, 1 port, fairness |
| `shares` | Does a share survive renumbering, resets, restarts and crashes, is nothing bound that is not shared, and does the watchdog get every shared device bound, found, its serial learnt and every push sent? | 1 device, 2 busids, 2 clients, 1 request at a time, 1 restart, fairness |
| `tunnels` | Do stores and kernels of server and clients agree, and has no address two owners, when tunnels are enabled side by side, entries edited and deleted, answers lost, starts half failed on both sides and the pool exhausted? | 2 machines with an entry each, of which one is edited to the tunnel, 3 client ids, 2 requests, 2 valid addresses and one beyond |
| `nodes` | Do node, record and boot entry of a live attachment agree, and do nodes stay, whichever restores run side by side and whatever is killed in between? | 2 ids, 1 group, 2 tasks, 2 ports, 2 raw numbers and 1 serial one, 3 sessions, 2 crashes |
| `store` | Does the store implement `DurableConfig`, leave no temporary file, and always give its lock back? | 2 callers, 2 keys with 2 values, one of them drawn anew by the defaults, 2 updates, every old file |
| `push_cuts` | A push cuts the session of the attachment that has got the dropped one's port | violation of `PushSparesOthers` |
| `group_lost` | The code loses a group for good | violation of `GroupStaysWanted` |
| `group_twice` | The code attaches a group twice | violation of `OneRecordPerGroup` |
| `starved` | The code never restores what follows a hanging server | violation of `RecordsComeBack` |
| `renumbered` | The code loses a share when its busid is taken over | violation of `SharesFollowDevices` |
| `tunnel_edited` | The code forgets a tunnel when its server's entry is edited to use it | violation of `TunnelInUseIsUp` |

Why the bounds are enough. Every hazard of the attachments is a race of at most three
tasks (the watchdog, a push and a user's handler), which is what each environment has,
over two records that fight for one port or for one device. Two ports let a port be
freed, given to the other record and freed again while a copy of the first is still in
use. Thresholds of 1 and 2 put the backoff, the limit and the count
beyond it in reach (`FailureCounts` goes one backoff further); the real 3 and 6 differ
only in how often a failure repeats. `Room` starts new attaches only while record ids are
left; it removes no race between records that exist. Where an event is in one
environment only, it is in the one whose records it can do most to, and `recovery` has
the rest of them together. The startup window may end only where a rule depends on it,
that is where a record with the flag `auto_rebind_on_backoff` is possible: elsewhere the
window is never read. `attachments` turns the deadlock check off: the user may delete the
only server before attaching anything, and then nothing is left to happen.

For `ServerShares`: one device with two busids moves to a busid that is, or is not, on the list,
and back, during and between passes; what becomes of the shares of several devices, with and
without serials, and that nothing else is bound, is proved for any number of devices (section
4), and `renumbered` has two. One request beside the watchdog is every race there is, since
requests touch the same state in single steps; one restart may come at any point, and what it
leaves is a state the next pass starts from. For `Tunnels`: two machines are needed for two
owners of an address, two ids of one machine for a key that is registered anew, two requests for
two answers under way at a time, three registrations to run past two addresses; the entry
that uses its tunnel is that of the machine with two ids (`tunnel_edited` lets both do so). For `StableNodes`: a direct attachment and a group, or two direct ones, over two ports;
two tasks that restore one record side by side; three sessions, so that one may be lost and
another cut short on the way to a third; two crashes, so that one may hit the startup that mends
the other. For `ConfigStore`: two callers are a race, and a lost update needs two keys or two
values; a third caller only waits longer for the lock.

### What the runs found

1. **A push cuts another attachment's session** (`push_cuts`). Before a push detaches the port
   on record, it compares local busids, because "otherwise detaching would kill someone else's
   live connection instead of clearing our own zombie" (`groups.py:489-497`). But a port that is
   used again brings its busid back: the dropped record's port and busid are those of the live
   session of another attachment, and the push ends it. By the same test the watchdog takes the
   dropped record for live and does not restore it (`groups.py:545`), against
   `src/README.md:186-189`.
2. **A group may be forgotten** (`group_lost`). `groups.py:364` says that "the record is only
   removed once a reattach actually" succeeds. A group's record is popped first
   (`groups.py:381`) and put back for `GroupError` only (384-388). A timeout of `usbip attach`
   is another exception, and so is a cancelled task: then nothing brings the group back until
   the user attaches it again.
3. **A group may be attached twice** (`group_twice`). While a restore, the watchdog's or a
   push's, waits with the record popped, a user's attach passes the "group is already attached"
   test, and both store a record.
4. **One hanging server starves the others** (`starved`). The timeout leaves
   `_watchdog_tick`; it is not counted, so no backoff ever starts, and later records
   are never visited.
5. **A share does not follow its device** (`renumbered`). `config.py:24-27` of the server
   promises that "a device dropping off and reappearing at a different busid" keeps its share.
   A pass looks for a device only when its old busid is empty. After the bus-wide shift that
   the comments describe (`main.py:94-98`), another device is there: the share stays behind and
   that other device is bound. (If it has a serial, that also replaces the one remembered,
   `main.py:165-168`; in the run it has none.)
6. **An edited server forgets its tunnel** (`tunnel_edited`). The documented last step
   of the setup, editing the host to the tunnel's address (`client/app/main.py:345-347`), writes
   the entry without its `wireguard` part. After the next reboot of the client the tunnel is not
   brought up, and nothing can reach the server until the host is edited back.

One more came up that `TunnelsAgree` exempts. A client that was deleted on the server and
added again registers its old key under a new id and gets a new address, but
`ensure_interface_up` leaves an interface that exists as it is: the interface keeps the
old address and the tunnel is dead until the host reboots, although
`client/app/config.py:29-31` counts on the address being the one issued. And if it goes
back to the first id, the replay at the server's next start, which goes through the
peers in the order of their first registration, brings back the second address. Hence
the premise `OwnId`: one key for the id, and one id for the key. It speaks of the present
peers only, so `TunnelsAgree` also takes that no id ever had two keys: that a token is pasted
into one machine (`OneHolder` in the proofs, `OwnTokens` in the run). Otherwise two machines
overwrite each other's peer, and an interface that is up keeps the address of the first time.

What else the code does is in no sentence of the repository, so no run claims it, and the
properties are stated around it:

* *Sessions without a record.* `SessionsAreOnRecord` is not asked where attaches are slower than
  their 3 s poll (the session has no record at all), where `usbip detach` fails, or where the
  user edits a record: the tick may have copied it while its `auto_failover` was off, and drops
  the record of a session that a push has made since (`groups.py:372`). And it is asked where
  devices stay (`DevicesStay`: no device changes its busid, no push is late, and the serials of
  a server's devices differ) or where each server has one device, which may move
  (`LoneDevices`). Otherwise a restore that waits for a device list may attach a *second* device
  that it takes for the record's own, by the serial, and its write-back (`groups.py:435`) leaves
  the session that a push has meanwhile made for the first one without a record.
* *The flag in a copy.* `KeptUntilDetached` and `GroupStaysWanted` exempt a record that the
  running tick copied while its `auto_failover` was off: that copy decides, even if the user has
  switched the flag on since.
* *A node in a copy.* The watchdog and a push may restore one direct attachment side by side.
  Whichever comes later writes back the copy it read, with the `stable_node` of that time. If
  that was none, and the handler then dies before it has recorded the node again, or finds no
  device any more, the next `sync` leaves the boot entry out. `NodesStay` therefore lets a record
  lose its node to such a write-back and to nothing else.
* *A dropped attachment's node* may be another's after a startup, which goes by the port number
  (`groups.py:239`); comparing local busids would not tell. `LiveNodesAgree` is about live
  attachments, which are right again as soon as they are attached. It exempts a group that has
  had two records at a time (`twice`), which share one node.
* *Shares of one serial.* Two missing busids that remember one serial are both renamed to one
  new busid (`main.py:111-128`): two shares become one. `SharesFollowSerials` says that no others
  do: what leaves the list in a pass makes way for exactly one busid for each serial that was
  remembered, off the list before, where a device with that serial is.
* *A peer that a start has lost.* If the server's interface, or one peer, fails at a start, the
  server goes on without it. `TunnelsAgree` lets the kernel lack such a key (`skipped`), until the
  client registers again or the server starts again, and asks that it has no other address.
* *Temporary files.* `TempsAreGone` is about calls that end. A process that is killed leaves its
  `.tmp-` file for good.

### Fairness

`FairSpec` assumes that servers answer or calls time out (`WF(Serve)`: httpx has timeouts), that
the event loop runs what is ready (`WF(Resume)`), that the watchdog ticks for ever
(`watchdog_loop` catches every exception), that the startup window ends, and that a backoff
does: ticks that reach a record again and again do not skip it each time (`next_retry_at` is at
most 30 minutes ahead). Nothing is assumed of the world. `RecordsComeBack` therefore says: as
long as the world leaves a record recoverable (which a record is not while its old port is
another's), the code recovers it; and while a stale export stands in the way, only if the one
rebind of this outage has not been spent.

In `ServerShares`, `FairSpec` assumes that the pass goes on and comes again
(`WF(Pass)`: `_watchdog_loop` catches every exception and sleeps 15 s) and that a push
ends (`WF(PushStep(t))`: httpx gives up after 5 s). The properties say "as long as the
device stays plugged in and shared"; nothing is assumed of the admin or the world.

In `ConfigStore`, `FairSpec` assumes that the process starts and that a thread inside a
call goes on; nothing is assumed about who gets the lock, and no caller has to call.
`LockIsReleased` therefore says that the code never keeps the lock, not that every caller
gets it in turn. Every caller of today's programs is on one event loop or at startup, so
the lock is never contended; the module checks what the class promises.

`StableNodes` and `Tunnels` have safety properties only.

## 4. Proofs

Every safety property that a passing run checks, but for `LiveRecordHasItsDevice`, is also a
theorem, for every value of the constants; the liveness properties are not (see the end of
this section).

| Theorem | States | Assumes |
|---|---|---|
| `Typing` | `Spec => []TypeOK` | |
| `DirectKept` | `Spec => KeptUntilDetached` | |
| `RebindOnce` | `Spec => OneRebindPerDropout` | |
| `GroupsWanted` | `Spec => GroupStaysWanted` | `NothingStops` |
| `SessionsRecorded` | `Spec => []SessionsAreOnRecord` | |
| `SharesTyping` | `Spec => []TypeOK` | |
| `OnlySharedBound` | `Spec => OnlySharedAreBound` | |
| `SharesFollow` | `Spec => SharesFollowSerials` | |
| `TunnelsTyping` | `Spec => []TypeOK` | |
| `AddressesApart` | `Spec => []OneMachinePerAddress` | |
| `OneTruth` | `Spec => []TunnelsAgree` | `OneHolder` |
| `NodesTyping` | `Spec => []TypeOK` | |
| `NodesAgree` | `Spec => []LiveNodesAgree` | |
| `NodesKept` | `Spec => NodesStay` | |
| `StoreTyping` | `Spec => []TypeOK` | |
| `TempsGone` | `Spec => []TempsAreGone` | |
| `StoreIsDurable` | `Spec => Durable` | |

### The assumptions

* The named `ASSUME`s of the modules, which TLC evaluates in every run.
* `NothingStops`: no server hangs and the client does not stop, in the middle of a restore or
  else. Both take a group out of the table for good; `group_lost` is the run that shows it.
* `OneHolder`: each client's token is used on one machine (section 3).

The constants of the run `attachments` satisfy `NothingStops`, those of `tunnels` `OneHolder`.
Nothing is assumed of the local busids but that each port has its own (`LocalNamesAssumption`),
which is what vhci_hcd does. `SessionsAreOnRecord` has premises of its own, on the events and
the devices, which section 3 gives the reasons for.

### The core

`ClientAttachments_proofs`. `Typed` is `TypeOK` with the shape of the suspended frames
(`WholeFrames`), in two parts: what handlers change and what they do not. The lemmas show once
for each stretch of code (`Reattached`, `BeginAttachGroup`, `FailDirect`, ...) what it makes of
the table, the ports and the exports, then for each action.

`ClientAttachments_kept_proofs`. The three action properties are about what one step takes out
of the table. The step may be a write-back of an old copy, so the invariant `Kept` says of the
copies that they name one thing: all copies of one id are of the same group (`OneGroup`), and a
suspended handler looks for a direct attachment's device only, or brings back a record of the
group it is attaching (`FramesFit`). Each step is then shown to be `Orderly`: the copies stay
of their groups (`GroupsGrow`), a record that is in the table stays, with its group and with
its failure count unless it has come back, or leaves in one of three ways (`Settled`: a
detach, its `auto_failover`, or its group is being brought back), and a rebind is requested
for the one failure that reaches the limit (`OneRebind`). Direct attachments need no more. A
group that is being brought back is wanted as long as its handler goes on, and only
`TryCandidate` ends that (`OthersGoOn`): it attaches the group, goes on, or puts the record
back (`BroughtBack`); the fourth outcome is the exception that `NothingStops` excludes.

`ClientAttachments_sessions_proofs`. A device keeps its record although the record may be
overwritten, or taken out, by a handler that goes by an older copy of it (`Copy`: in the table,
in the tick's snapshot, in a suspended handler). `Held` says more than the property: the record
that names a session is `Staying`, that is, no copy is about to take it out (the tick has no copy
of it that it would drop, and no handler has it popped), and no two devices are on one
port (`Single`). Nothing says that a port is its record's: a push may cut a session that is not
its record's (`push_cuts`), but the device it cuts is then held no longer, and a new session on
that port is put on record by whoever makes it. What a step must not do is put a record without
the session in place of one with it. A restore that comes late writes back the record under its
own id, so `OneOwner` says that all copies of one id are of one server, group and flag and, where
devices stay, of one device; `Serialled` and `AllInformed`, that records and answers under way
have their devices' serials or none. So the restore can attach nothing but the record's own
device, or the only one its server has, which the server gives only while nobody holds it: then
the record it overwrites had no session. The premises are each used: an answer that is older
than a move breaks `AllInformed`, an edit `OneOwner`, a detach that fails `Staying`. The two cases
of the property, devices that stay and lone devices, share one proof (`m` tells them apart).

### The server and the other components

`ServerShares_proofs`: `SharesTyping`, `OnlySharedBound` (`Spec => OnlySharedAreBound`)
and `SharesFollow` (`Spec => SharesFollowSerials`). The invariant is typing together with
`TodoListed`: a pass visits only busids of the list it has taken. Without it nothing
says that a busid the pass binds was ever shared. `SharesFollow` needs typing only: the new
busids are those of `at`, one for each serial, and none of them was on the list.

`Tunnels_proofs`: `TunnelsTyping` and `AddressesApart` (`Spec => []OneMachinePerAddress`), for
any number of machines, ids and entries, tokens shared between machines, and any pool. An
address is claimed in five places; the strengthening is `Below`: whatever is claimed is below
`next_host`. Each step makes no new claim (`NoNewClaim`) or the claim of `next_host` by the one
machine that registers (`NextClaimed`). Typing is needed for the replay: it gives a machine the
address of a peer with its own key. `OneTruth` (`Spec => []TunnelsAgree`, if `OneHolder`) rests
on `Sound`: whoever registers under an id, or is its peer, has its token (`Rightful`), so that a
registration finds its own peer or none and peers are only ever added; every address in use is a
peer's (`Recorded`); the peers' order is that of their addresses (`Ordered`); and a machine that
has been answered has an address that the pool allows and, with one peer that the last start did
not fail to set, an entry in the kernel's table (`Served`). `Ordered` is what the restart needs:
the replay ends at the first address beyond the pool, and no peer that was ever served comes
after it.

`StableNodes_proofs`: `NodesTyping`, `NodesKept` (`Spec => NodesStay`) and `NodesAgree` (`Spec
=> []LiveNodesAgree`), for any number of tasks that restore one record side by side. The
invariant adds to typing that the job at hand is about a record that exists (`JobFits`) and that
whatever is read or kept under one id is of one group (`CopiesFit`), so that a write-back never
makes a direct record a group's. That is enough for `NodesKept`: only a `Sync` takes boot
entries out, and it keeps those on record; only a removal takes a node out, and it is of a
record that has gone, and a reboot brings back what the entries have; only a write-back takes
the node out of a record, and it is of a copy that had none. For `NodesAgree`, what holds at
rest does not hold in the middle of a handler or of the startup, so `Live` says what holds then:
a record whose node does not agree is the one the handler is about to set right, or is on the
startup's list with its job still to come (`SettledOrDue`); two records of a group have made it
one of `twice` (`OnePerGroup`), a group's copy, which may be put back as it was, is not live
(`CopiesAreDead`), and what the job has read or placed is the device's still (`JobIsFresh`). A
direct record that is written back is due by the same step, whatever the copy says of its node.
After a kill every live record is on the list, which is why the startup must refresh live
attachments and not only recreate nodes.

`ConfigStore_proofs`: `StoreIsDurable` (`Spec => Durable`), the refinement, for any number of
callers, keys and values. The invariant is typing, `LockHeld` (only the holder of the lock is
past `Acquire`, so what it has loaded is still the file's contents over some defaults) and
`CallFits` (what each step holds is what the call will return). Each step of `ConfigStore` is
then one step of `DurableConfig`, with the same defaults drawn, or leaves its state as it was.
`StoreTyping` follows from the same invariant; for `TempsGone` it takes `TempsInUse`, that a
caller has a temporary file only between `MakeTemp` and the rename, in particular none when it
starts to write.

### Only model-checked

`LiveRecordHasItsDevice` is checked with one record (`recovery`): a second may take the port
over, and then it is false. Liveness is beyond the prover: `RecordsComeBack`, `SharedAreBound`,
`MissingAreFound`, `SerialsAreLearnt`, `ReturnsArePushed` and `LockIsReleased` are checked by
TLC, within the bounds of section 3. The properties of the runs that expect a violation are
false and have no theorem.

## 5. Not modelled

In the core: records from before `local_busid` was stored, containers restarted after an attach,
the fields of a server entry that only say how to reach it, a process killed between `usbip
attach` and the store's update (`StableNodes` has it), and which of two ports that appear in one
poll belongs to which attach. In `ServerShares`: labels, which move with the share, the values
of tokens, and usbip commands that time out. In `Tunnels`: the making of keys, endpoints, hosts
without wireguard-tools, and the firewall rule that is replayed with the peers. In
`StableNodes`: the symlink that stands in where `mknod` is not permitted, hosts without
`/etc/tmpfiles.d`, the owner and mode of a node, writes that fail (they are logged and nothing
else), detaches that fail, attaches slower than their poll, and the reason of a restore. In
`ConfigStore`: the single writes of the constructor, and a file that parses but is not a
dictionary.

Components without a module, with the reason, are in `PROJECT.json`: the firewall (one table
replaced as a whole), the supervisor (one child and one loop), the schema migration (a function
run once), logins, event logs, container restarts, argument checks and pages.

## 6. Plan

Done, each with its promise, runs and theorems: `ClientAttachments`, `ServerShares`, `Tunnels`,
`StableNodes`, `ConfigStore`. What would add most next:

1. The composition of `ClientAttachments` with `ServerShares`: a device that returns on the
   server is pushed and attached again, also when request-share pushes to the very client that
   waits for its answer.
2. Labels, which move with a share, and usbip commands of the server that time out.
3. The supervisor and the tunnel-only firewall with its replay at the server's start.
4. What holds in place of the violated properties once the code is mended: a group attached at
   most once if its record stayed in the table during a restore; a push that spares others if a
   session were told by its server and remote busid, which `usbip port` also prints, in place of
   its local busid.
