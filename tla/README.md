# A TLA+ model of the RDK-B hardware abstraction layer

This directory models the hardware abstraction layer (HAL) under `src/source`:
a set of small C libraries that the middleware of a cable gateway links, one for
each subsystem (VLANs, Wi-Fi, DHCP client, cable modem, voice, ...). The reference is
the code; a comment of the code is used only where a property quotes it.
References such as "(265)" in a module are lines of the source file its header names.

## 1. The system

The libraries have no threads, no event loop and no locks. Each function runs in the
thread of its caller and returns. What makes them hard is that nearly all their state is
somewhere else: in the kernel (bridges, ports, VLAN devices), in drivers, in `sysevent`
and `syscfg`, in files under `/tmp`. They read and change it with shell commands
(`popen`, `system`) or by key, one at a time, and several processes (the Wi-Fi agent,
the provisioning application, the PandM process, scripts) link the same library. So a
call is a sequence of steps, and everything else may move between two of them.

| Component | State | Operations | What is hard | Modelled by |
| --- | --- | --- | --- | --- |
| `vlan/vlan_hal.c` | the process's linked list of (group, default VLAN id); bridges, ports and devices in the kernel | `addGroup`, `delGroup`, `addInterface`, `delInterface`, two printers | the list is a cache of the kernel and is lost with the process; tests by `popen` and changes by `system` are separate steps; nobody reads a command's status; bridges come up while they are being deleted; the list has no lock | `VlanHal`, `VlanGroups`, `VlanHalInv`, `VlanConfigList`, proofs |
| `dhcpv4c/dhcpv4c_api.c` | none; reads `sysevent` and `syscfg` | 12 E-router getters served by udhcpc or handed to `dhcp4c_*`, 15 others that only hand on | two or more gets make one answer, and a renewal or a failover comes between; unsigned arithmetic; gets that fail halfway; counts from outside for a fixed array | `Dhcpv4Timers`, `Dhcpv4Answers`, proofs |
| `wifi/wifi_hal.c`: `_syscmd` | a caller's buffer | run a command, keep what fits of its output | the arithmetic of a buffer filled by `fgets` in pieces of at most 127 characters | `WifiSyscmd`, proofs |
| `wifi/wifi_hal.c`: associated devices | `/tmp/ap_N_cli.txt`, the driver's list, the array that is allocated | `wifi_getApAssociatedDeviceDiagnosticResult`, the number of devices, the traffic statistics, the kick by access list | the file is written, counted and read by separate commands and shared by all callers for an access point; lines longer than the buffer; stations that come and go while others are kicked | `WifiAssoc`, proofs |
| `wifi/wifi_hal.c`: access points, hostapd, WPS | the driver and hostapd | create, delete, name, tune (channel, power, thresholds), bridge, bring up, status; start and stop hostapd; push button, PIN, cancel, state | several commands per call, beside other callers' commands; nobody reads a status; replies found by substring; commands the shell does not run | `WifiAp`, proofs |
| `wifi/wifi_hal.c`: the rest | none | about 200 getters and setters | most are stubs; some parse the output of `iwconfig`, `ifconfig`, `athstats` | planned in part |
| `mta/mta_hal.c` | the static log `MtaLog` | line table, calls, service flows, logs, battery | one variable that is both the size of a buffer and the length of the answer; copies whose bound differs from the size of the buffer; tables that the caller has to free | `MtaHal` (battery, tables, logs), proofs |
| `cm/cm_hal.c` | the MDD override and the event log, two static arrays | getters, event log, override | no lock: one thread reads a text up to its zero while another fills it; a log that every call clears and fills again | `CmHal` (override, event log), proofs |
| `moca`, `ethsw`, `epon`, `platform`, `mso_mgmt`, `fwupgrade`, `gwprovappabs`, `bridgeutil` | none | stubs | nothing: they return constants or only check pointers | not modelled |

Components do not call each other. They interact through the kernel: the VLAN HAL's bridges
are what `wifi_pushBridgeInfo` and the bridge utility work on, and the interface whose
`sysevent` keys the DHCP getters read is the one other software chose as the WAN.

What makes each component correct:

* VLAN: the list is a sequence that a call appends one entry to or takes one entry from, and no
  block of it is lost or freed twice; one default id per group, kept as long as the group; a group exists or does not, and
  a call about one group leaves the others alone; a crash leaves nothing a retry cannot
  mend; a call always returns.
* DHCP: an answer comes from what was published; when nothing moves it is exact; a call that
  fails leaves its caller's variables alone; the list of servers stays within its array.
* `_syscmd`: nothing is written outside the buffer, the text kept is a prefix of the
  output and ends in a NUL, and the loop ends.
* Associated devices: an array that is there is never written beyond its end, though the file it is
  filled from may have changed since it was counted, and a caller alone with the file gets every station,
  as far as `fgets` does not split their lines; the access list decides who is asked to leave,
  whoever comes and goes meanwhile.
* Access points: none is left without a name by a call that went on; a call that nobody
  disturbs does what it is for; an error of a WPS call means that it did nothing, unless a reply was lost.
* Voice: an answer stays in the caller's buffer; what a caller is handed is its own to free, and
  nothing is lost. Cable modem: the override can be read while it is set; a call for the log that
  meets no other gets all of it.

## 2. The modules

Every module has the variables, `Init`, one action per step of the code, `Next` and
`Spec`; constants come with named assumptions, and every hazard is a member of a
constant `Hazard`, so that an instance says which it admits. A definition whose comment
says *Variant* is not part of the model. It is the definition that follows it with one
plausible mistake, kept to show that a property would notice the mistake
(`PROJECT.json`, "mutants").

### VLAN groups

`VlanHal` is `vlan_hal.c`. `cfg[p]` is the list of process `p` as a sequence;
`bridges`, `up`, `ports` and `devs` are the kernel's, shared by all. `pc[p]`,
`arg[p]`, `todo[p]`, `ret[p]` are one call's progress, arguments, the lines of
`brctl show` it has still to read, and result. A step is one shell command or one walk of
the list: the list belongs to one process, so that its steps do not interleave with
others. `ag_*` is `vlan_hal_addGroup` (66-113), `dg_*` `vlan_hal_delGroup`
(118-181), `ai_*` `vlan_hal_addInterface` (186-272) and `di_*`
`vlan_hal_delInterface` (278-354), which `delGroup` also calls for each port. `OrFails` is
`system()`, whose status nobody reads, and `Missed` a look at the bridges by `popen`, which when it cannot be
started gives what it gives when nothing is found (446, 527, 597, 648): under `"cmdFail"` a group may then pass for
missing, and `delGroup` may delete a bridge without having emptied it. Around the calls are `Restart` (a process dies, the
kernel stays), `BringUp`, `ExternalDelete` and `AddPlain` (other software).

`VlanGroups` is the promise to callers: groups, members and at most one default id per
group, each changed by one atomic action. `ImplementsGroups` in `VlanHal` says that
`VlanHal` implements it, with the list of the managing process mapped to the default ids.
`Forgetful` is the one concession: after a restart, or when a bridge survives its deletion,
default ids are lost.

`VlanHalInv` holds the inductive invariant `Inv`. `MCVlanHal` gives the instances for TLC.

`VlanConfigList` is the list of one process block by block (674-844): `node[b]` is what a block holds, `head`
is `gpvlan_Config_Head`, and `at`, `task`, `mine`, `prev` and `curr` are the place, the call and the pointers of
each thread. A walk is one step for each entry and a write of a pointer is a step; a block that is freed may be
given out again, and a thread that follows a pointer into a freed one is `"astray"`. `Chain` and `Entries` read
the list back as the sequence that `VlanHal` has for it (`Chain` follows the pointers of the blocks, `ChainFrom` those of any blocks from any first one): `ActsAsSequence` says that this is right for one call at a
time, and what it loses when two calls append at once.

### DHCP client

`Dhcpv4Timers` is the lease time and the three remaining times (184-325).
`held[i]` is the lease udhcpc has on interface `i`, `pub[i]` the two keys its script
has published, set one by one. A getter reads `UDHCPEnable_v2`, then the WAN's name and
`lease_time`, the name again and `start_time`, then the clock. Arithmetic is modulo `Word`.
`Dhcpv4Answers` is name, attempts, state, address, mask, gateway and DNS servers (327-576) and
the public getters around them (669-836, 977-1605), which refuse a NULL (`BadCall`) and hand on to the
other client (`HandOn...`). A getter asks for one key after another; undefined conversions
(`inet_aton` of text that is no address, a shift by the width of the word) are sets of outcomes. The
`struct in_addr` of the DNS getter outlives an iteration of its loop, so that a server that is no address gets
what was stored last (`Held`, 511). `Htonl` is a constant, for the byte order is that of the machine.
`MCDhcpv4` and `MCDhcpv4Answers` are the instances. Each adds a history variable,
`quiet`, that tells the calls during which nothing changed.

### Wi-Fi

`WifiSyscmd` is `_syscmd` (`wifi_hal.c` 180-215): of the output only the length
matters, `fgets` takes any number of characters up to its limit, and three counters say where in the
caller's buffer they go. `WifiAssoc` is
`wifi_getApAssociatedDeviceDiagnosticResult` (2633-2744): the shell empties the file, the
driver lists its stations, `grep` writes them, `wc` counts them, `calloc` allocates, `cat`
reads them back, and entries are filled in; two callers interleave at each of these. When the first command cannot be
started `atoi` reads a buffer nobody wrote (2661-2663): the number is any of `Garbage`, which as an unsigned
`*output_array_size` includes what was negative. `calloc` (2668) is not checked: it gives `Spare` entries in any case and
may refuse more, `array` is then `NULL`, and the first line of the file that is filled in ends the process
(`ret = "died"`, 2703).
`Kick`, `Stations` and `KickNext` are `wifi_kickApAclAssociatedDevices` (1965-2000), which lists the
stations once and then goes through the access list or through the stations; what is kicked is what the driver is
asked to kick, since `wifi_kickApAssociatedDevice` is left to the vendor. `NumDevices` and
`TrafficStats` are the two counts (1321-1369, 1878-1892).
`MCWifiAssoc` adds the history variables `alone` and `stayed`, and a `topic`: a behaviour is about the
array or about kicks and counts, which share no state but the driver's list.

`WifiAp` is the access points, the settings of their radios and bridges, hostapd and WPS (510-533, 628-665,
874-918, 1107-1212, 1484-1508, 1673-1727, 1800-1822, 2053-2136, 2514-2617, 2866-2967). `vap`, `chan`, `power`,
`frag`, `rts` and `tag` are the driver's, `hostapd`, `served`, `wpsState` and `session` hostapd's. A call is a sequence of commands (`Commands`), of which
`todo[p]` are left; a command is one step; `Answer` is what the call makes of what was printed.
`CommandFails` is a command that does nothing, or cannot be started; `ReplyLost` is one that hostapd has carried out and
whose reply did not come. `wifi_createAp` writes the name into its command without quotes (1690), `wifi_pushSSID` with
them (2959): `Plain` and `Quotable` are the names that a shell reads right in the one and in the other, and what
is asked for in any other name makes the access point's name another one or leaves it (`Names`). Two pipelines that a shell
refuses or that stop at once (642, 1184) print nothing in the model either. `MCWifiAp` divides the
operations among four topics (access points, channel and bridge, power and thresholds, WPS), and has
history variables for what happened during a call (`heard`: no reply was lost); that a command has failed, a process has
died or a name was not plain (`faulty`) is kept for the first topic only, which is where two processes create, rename and delete.

### Voice and cable modem

`MtaHal` is the four battery texts (463-495), with `*len` going in as a size and coming out as a length, and the
tables and logs that `malloc` gives and the caller frees (205-229, 328-409). `checked` says whether the build has
the safec library, which refuses a text that does not fit and leaves an empty one, or the plain functions under
the same names; an unchecked instance has only buffers that hold every text, as the comment at 466 says they do.
`OutOfMemory` is a process that dies at a `malloc` nobody checks.

`CmHal` is the MDD override (155-173), copied and read one byte at a time by any number of threads, and the
event log (194-220), cleared, filled and copied one entry at a time. `stored` and `mixed` are history: the text a
call has stored last, and whether two calls have filled the array at once.

`MCMemory` puts `WifiSyscmd`, `VlanConfigList`, `MtaHal` and `CmHal` side by side: they share nothing, and a
behaviour (`topic`) is one of `_syscmd`, of the list, of the battery, of the tables or of the modem. It adds the history
variables `met` (in which ways calls on the list have met), `due` (the id a look-up had to find when it began) and
`alone` (a call for the event log that has met no other).

## 3. What is checked

All runs are in `PROJECT.json`; a run is `tlc -config <cfg> <module>`.

| Run | What it shows |
| --- | --- |
| `vlan_owned` | Two processes, each with a group of its own, sharing an interface; restarts, bridges that come up during deletion, `malloc` failing. The inductive invariant holds; a group has one entry and only while its bridge exists; a device is left outside every bridge only by a process that dies in `addInterface` (no command fails here); no bridge is deleted with a tagged port in it; a call changes the members of its own group only; `VlanGroups` is implemented. |
| `vlan_solo` | One process, two groups whose names contain each other, death at any step: a repeated `addInterface` ends with the device bridged, but for a group that does not exist and passes for another (499); and a `delGroup` that returns 0 left neither bridge nor entry. |
| `vlan_shared` | Two processes about one group, with commands failing, `popen` among them, and others deleting bridges: no step is stuck, and every call returns. |
| `vlan_doc_add_group` | Disagreement: `addGroup` of a group that exists returns 0 without the default id asked for, against 63-65. |
| `vlan_doc_del_if_only` | Disagreement: `delInterface` of `eth0.v` also removes the bare `eth0` from the bridge, against 275. |
| `dhcp_timers` | Every hazard between any two reads: values stay in range, a failing call stores nothing, the remaining time wraps only after the end of the lease that was read, and is exact in quiet times. What quiet calls tell of renewal and rebinding is in order, renewal, rebinding, end, for a lease that fits in a word when multiplied by 7, and for any longer one, an infinite one included, rebinding comes before renewal (305). |
| `dhcp_doc_remain` | Disagreement: after the end of a lease the remaining time is nearly 2^32 seconds and the status is success, against 879-881. |
| `dhcp_answers` | Keys that come and go, failovers, failing gets, callers that pass nothing to write to: the list stays within its array, a failing call stores nothing, every call returns, quiet answers are those published, masks in the order of the network; a server that is no address is answered with one before it or with junk. |
| `memory` | `_syscmd`, on all outputs up to 16 bytes and eight buffer sizes: writes stay in bounds, output is cut only when the buffer is full, the counters agree, the loop ends. The list of the VLAN HAL with two threads: it has an end and no freed block on it as long as no entry is deleted during another call, no block is lost until two calls that change it meet, readers see a sequence, a look-up finds the entry that was there. The voice HAL: texts stay in the buffer, tables and logs have one owner. The cable modem: a reader of the override stays in its array, a stored text is all there, an event log that nobody disturbs is complete. |
| `wifi_ap` | Two processes on two access points: as long as nothing fails and names are plain, a nameless access point has a creator at work; undisturbed calls do what they are for (create, push, read the power, tell up from down, start hostapd), with the name asked for only if it is plain; a WPS call that returns an error and lost no reply has done nothing; calls return. |
| `wifi_doc_channel` | Disagreement: `wifi_getRadioChannel` always answers 0, against 627 ("Get the running channel number"): the pipeline at 642 has an empty stage. |
| `wifi_assoc` | Two callers sharing the file, a garbage count, a `calloc` that refuses: an array that is there is not written beyond its end, and only a call that asked `calloc` for more than it gives in any case writes through NULL; every call comes to an end; a caller alone with the file gets one moment's list, whole if and only if no line but the last is split: otherwise the rest of the long line counts as a station, and the last station is lost (2685). A kick asks of the stations that are there all along exactly those to leave that the list says. |

More disagreements were met and are not runs of their own: `addInterface` returns 0
for a device that is in *another* group (246 looks in every bridge, 183-184 says
"add interface to existing vlan group"); a bridge whose name contains the group's name as a
word passes for the group (499; the constant `Alias` of `vlan_solo` has it); `delInterface` of a device
that is nowhere returns -1 when its group is gone too (300, against 277). Also not runs: the
DNS getter counts servers it could not read (537, 545), the state getter
returns success without a value for a word it does not know (396-406); `wifi_createAp` says "creates a new ap and pushes
these parameters to the hardware" (1672), and does not set a name with a blank in it, or an empty one (1690);
`wifi_getApAssociatedDeviceDiagnosticResult` "should allocate an data structure array" (2631), and when the memory for it
is not there writes through NULL (2668, 2703); an access point whose WPS
state is "not configured" is reported "Configured" (2532, against 2512); `wifi_getApStatus`
reports `ath1` up when only `ath10` is (2119); `wifi_resetApVlanCfg` pushes the bridge again and always returns an error (2060); the MAC address getters always give the
empty string (1184, 1203). In the voice HAL, the copy of `MtaLog` is told that the destination has the size
of one entry while two are asked for (394), so that a build with the library gives entries that are blank but for
their descriptions, and those are copied with a bound of 64 bytes into blocks of `strlen + 1` (400). In the MoCA HAL, which is
not modelled, `GetFullMeshRates` and `GetFlowStatistics` set the pointer `pulCount` to 0 and not the
count that the comment says they answer ("number of entries in the table"), and `GetAssociatedDevices`
returns success without setting its array.

### Bounds

* VLAN: two processes and two groups are what it takes for calls to meet in one group
  or across groups; one interface with two ids gives two devices that share a
  base. Ids are interchangeable, hence the symmetry. `MaxEntries` (3) is above what a
  correct list reaches (one entry per group), so that a list that grows is seen.
* DHCP: `Word` is 64 and `Width` 4 rather than 2^32 and 32. Of the leases, 2 runs out within the clock's bound and
  fits in a word when multiplied by 7; 63 stands for one that never ends, and does not. The array of four
  servers has two entries; a negative number of servers is published as well, which is more than
  any array has, and keys for three; text that is no address, the third server and other numbers on one interface only. Two interfaces are enough to mix
  two leases. One process: calls only read, and write nothing another call reads.
* `_syscmd`: `Chunk` is 4 rather than 128; sizes straddle every multiple of it.
* The list: two threads and three blocks, which is one more than two threads can be inserting, so that
  there is an entry in front of both; two names, and a second id for one of them only. A thread begins a call only until two
  calls that change the list have met: those that are under way then end, and what they have done is seen, but
  the behaviour is not followed further. Blocks are alike, so `malloc` gives the first that is free.
* Voice: texts of 1, 2 and 5 characters and buffers from 1 to 7 bytes, too small and just large enough for each; two
  callers and four blocks, so that a log with its two texts and another table fit and two logs do not.
* Cable modem: an array of 4 bytes rather than 64, with texts of every length from 0 to 4, of which 3 and 4 are
  refused; two threads.
* Access points: `ath1` and `ath10`, whose names begin alike, on two radios; the channel and WPS are
  about one of them. One channel: what is asked is whether it was set. A name that is one word and one with a blank, which
  only `wifi_pushSSID` sets; where names do not matter there is only the first.
* Associated devices: two callers and two stations, one with a line that comes in two pieces; garbage counts of none, of one, and of more than
  there are stations, with a `calloc` that may refuse more than one entry;
  the access list has one station, and the buffer of the kick room for one, so that it is cut.

### Fairness and deadlock

Liveness assumes weak fairness of each call's own steps and nothing of the
environment: a function of the library never waits for anything but a command to
finish, so that a call that has begun goes on. `memory` is the only run in which the system may stop (when
`_syscmd` has returned, or two calls on the list have met and ended), and the only one with `CHECK_DEADLOCK FALSE`.

## 4. What is proved

TLAPS checks these for every value of the constants, from the named `ASSUME`s of the modules and from
what a theorem itself assumes, which is said below. Every invariant and every action property that a
passing run checks is a theorem; each module's header gives its argument.

**VLAN groups.** `VlanTypeProofs`: `TypeCorrect`, `Spec => []TypeOK`, strengthened by `CallOK`: a call's
arguments suit the step it is at (no NULL default is used as an id).

`VlanSafetyProofs` assumes `OwnedGroups`: a group is managed by one process, no command fails, nobody else deletes
bridges. Without that a list need not agree with the bridges, and only types and returns are claimed (`vlan_shared`).
With it, `InvCorrect`, `ListsAgree`, `EntriesHaveBridges`, `DissolvesEmptyCorrect` and
`TouchesOwnGroupsCorrect`. None of these is inductive by itself: that
a list has one entry per group needs that a bridge exists wherever an entry does and that a
call about to insert is the only one about its group; that a bridge is empty
when it goes needs that `delGroup` has still to visit every tagged port left. `Inv` is the
conjunction of these facts with two about what a call knows: `GoneInv` (where nobody brings bridges up again,
`delGroup` finds its bridge down and then gone) and `ReachInv` (the look at the bridges that `addInterface` has
passed stays right). From these:

* `DelGroupRemovesCorrect` assumes that no bridge is brought up while it is being deleted (`"upRace"` is not in
  `Hazard`); with it `delbr` fails and the bridge survives, which the property's run leaves out too.
* `AddInterfaceBridgesCorrect` assumes `OneProcess`: another process about another group may run `vconfig rem` on the
  device between the two commands.
* `NoStrayDeviceCorrect` assumes `Alias = {}`: with a group that passes for another (499) `brctl addif` has no
  bridge.
* `Implementation`: every step of `VlanHal` is one of `VlanGroups` under the mapping of `ImplementsGroups`, or leaves
  it as it is. The maps are one lemma per kind of step (`MapAddGroup`, `MapDelGroup`, `MapInterface`, `MapRestart`,
  `MapElse`); the default id of a group is the first match of the list, so the lemmas need to know what
  an insertion and a removal make of it (`InsertDefaults`, `DeleteDefaults`), which one entry per group gives.

`VlanListProofs`: `ListIntactCorrect`, `GetFindsEntryCorrect` and `ActsAsSequenceCorrect`, about the list of one process
and any number of its threads. They are proved of `RecordedSpec`, which is the list with the history variables `met`
and `due` and nothing else: it does not stop calls from beginning when two have met, as `MCMemory` does to bound TLC's
states, so that the theorems also cover what the run does not follow. `MemoryRecords` shows that the run's
specification implies it. The invariant, `ListInv`, comes in three strengths. Types and the places that calls can be at
hold always. As long as no deletion has met another call, `Good` holds: the list is a sequence of blocks in use in which
every block has one predecessor, a block that is not yet linked is pointed to by nobody, and a deletion knows the entry
before the one it is at. As long as no two changes have met, `Tidy` holds as well: every block in use is on the list or in
one hand, an append is at the last entry, and a look-up is not past what it is looking for. That `Chain`
is a sequence at all, and which one it is after a pointer has been written, is `ChainIs`: if the blocks of `c` follow
each other from the first to NIL and none repeats, then `c` is what `Chain` gives.

**DHCP.** `Dhcpv4Proofs`: `TimersCorrect`, `TimersInOrderCorrect`, `WrapsOnlyAfterEndCorrect`,
`FailureKeepsValueCorrect`, `ExactWhenQuietCorrect`. The
argument is that no start time is later than the clock, wherever it is kept:
held, published, or read by a call (`StartsPast`); then the elapsed time cannot wrap, and
what remains wraps only beyond the lease. `TimersInOrderCorrect` and `ExactWhenQuietCorrect` are about any lease a word
can hold: what the answers of quiet calls add up to is said for leases that overflow at 305 too, and for a clock that
cannot be read, when an answer is as of second 0. Assumed of the constants is a word of at least six
bits and a clock in its lower half (`WordAssumption`, `TimeAssumption`): the system has not been up for 68 years.

`Dhcpv4AnswersProofs`: `AnswersCorrect`, `WithinListCorrect`, `FailureKeepsAnswerCorrect`, `AnswersPublishedCorrect`.
The invariant (`Progress`) says what a call has written at each of its steps: nothing before
the last, except the servers before the one it is asking for; and that number is below `num`,
which `Servers` has cut to the size of the array. For `AnswersPublishedCorrect` it is joined by `ReadInv`: in a quiet
call, what has been read is what is published now. The theorem is about `QuietSpec`, in which a call may be any
getter, and about the instance, in which a behaviour is about one; servers that are no addresses are covered, since
`Listed` says of each entry what it may be. `ValuesAssumption` says that the
numbers published are C ints, which `atoi` makes of any text, and `PowerAssumption` that the powers of two up to `Word`
lie between 1 and `Word`: a fact of arithmetic that the installed provers have no rule for.

**Memory shared with callers.** `MemoryProofs`:

* `CountersAgree`, `SyscmdInBounds` and `SyscmdCutsOnlyWhenFull`. That a write ends inside the
  buffer follows from the sum of the two counters being the size of the buffer, less the byte for the NUL.
* `OverrideIsSound`. A reader stays in the array because its last byte is always zero
  (`EndsInZero`), and it is because a text that is being copied is shorter than the array less one (`CopiesFit`, the
  `- 1` of 166, which looks like one too many). That a stored text is all there needs what the only copier has
  written so far (`OneCopier`).
* `EventLogAloneCorrect`, of `LogSpec` (the cable modem HAL with the history variable `alone`) and of the instance.
* `BatteryStaysInBuffer`, for both builds: the length is at least 1, since the zero of an empty text
  is counted too; and `TablesAreOwned`, from the three shapes a table can have (`IsTable`) and the blocks it then points to.

**Wi-Fi.** `WifiApProofs`: `NamelessHasCreatorCorrect`, `ErrDidNothingCorrect` and `QuietCallsWorkCorrect`, each of
`WatchedSpec` (all operations at once, with the history variables) and of the instance (one topic at a time); and
`NamedCorrect`, under `Hazard = {}` and `Essid \subseteq Plain`, without history variables. `QuietCallsWorkCorrect` promises
the name asked for only of plain names, and `ErrDidNothingCorrect` speaks of calls that lost no reply. The invariant ties the commands that are left to the
operation and to what it was given (`Underway`): then only `wifi_createAp`
makes a nameless access point, the command after it names it, and nothing in between can take
the name away without taking the access point with it. For WPS it adds that sessions are of access points that hostapd
serves, and that a call which has touched one and has not ended is a push that hostapd has said OK to (`SessionInv`,
`ActedInv`). `LevelAssumption` keeps
the power a radio has apart from an empty answer, and `VapAssumption` keeps an access point apart from none.

`WifiAssocProofs`: `TypeCorrect`, `WithinArrayCorrect`, `NobodyDies`, `AnswersSnapshotCorrect` and
`KicksWhoStaysCorrect`; the last two of `WatchedSpec` and of the instance. `NobodyDies` assumes that the first command can be
started and that `calloc` gives an entry for each station there is: then no call writes through NULL, since
what is asked of it is the length of a file that holds no station twice (`Counted`). `StationAssumption` says that the stations are finitely many, so that a list of
them has a length that bounds the file's. That the pieces of the lines are a sequence, and not shorter than the
lines, is `Flattened`; a call alone keeps what the driver listed (`Snapshot`); a kick has asked, or has still ahead, those who
must go (`Kicked`).

Induction over numbers is available although the prover cannot instantiate an operator: the library's theorem on
well-founded relations (`WFMin`, with `NatLessThanWellFounded`) speaks of sets, and gives the least element of a set of
numbers (`MinIsLeast`, `LeastElement`, `UpTo`). That is how the proofs speak of the first entry of a group, of `FlattenSeq` and of `Chain`.

Only model-checked: liveness under fairness (`CallReturns`, `Returns` of three modules, `SyscmdEnds`), because
the prover has no ENABLED; and the disagreements with comments, which are counterexamples.

## 5. Plan

1. `VlanGroups`, `VlanHal` with its invariant and proofs: done.
2. `WifiSyscmd`, `WifiAssoc`: done. `Dhcpv4Timers`, `Dhcpv4Answers`: done.
3. `WifiAp`, and the kick of stations by access list in `WifiAssoc`: done.
4. `MtaHal` and `CmHal` with their proofs, `VlanConfigList`; checked in one run with `WifiSyscmd`, as a system
   that does one or the other: done.
5. Proofs of every safety property and of the refinement of `VlanGroups`: done.
6. Open: that the sequence of `VlanConfigList` is the list of `VlanHal`, as a refinement by steps rather than by the
   property `ActsAsSequence`; it needs one process's calls of `VlanHal` as the threads of `VlanConfigList`.

## 6. What is not modelled

`moca`, `ethsw`, `epon`, `platform`, `mso_mgmt`, `fwupgrade`, `gwprovappabs` and `bridgeutil` answer constants or
only check their pointers: no call changes what a later one sees, and there is no order or failure to model. The same
holds for the getters of the voice and cable modem HALs that `MtaHal` and `CmHal` leave out, and for about 150 functions of
`wifi_hal.c`; the scans of neighbours (1264, 1398) allocate an array of two entries with the same
constants for every caller. `cm_hal.c` also has two numbers that are stored and given back (175-192). `vlan_hal_printGroup` and
`vlan_hal_printAllGroup` print and change nothing. The fields of an associated device and the text of commands are left
out: no property tells them apart. That `cfgVlan` uses a VLAN id it has never set (2893) is in `WifiAp`, and nothing
is claimed about it. `dhcp4c_*`, udhcpc, hostapd, the drivers, the safec library and the shell's tools are not in this
repository; the models have of them what the code's use of them shows, as actions of the environment or as outcomes of
a call. A library that clears the rest of a destination after a copy is not modelled (400 of `mta_hal.c`
would then write behind its block).
The list of `vlan_hal.c` has threads in `VlanConfigList` only: `VlanHal` takes one call at a time from each process.
