# Formal models of symbiosis

`tohd` (the binary of symbiosis) watches the connector of a phone for back covers with electronics
("TOH", the other half), identifies and reads them, exposes their I2C devices, publishes them on
D-Bus, starts and stops their systemd units, and lends the `i2c-dev` device of the TOH bus to one
process at a time. These modules model that service and the tools that prepare a cover's memory
chip. TLC checks them on small instances; TLAPS proves all their invariants, action properties and
refinements for every value of the constants. Liveness stays with TLC.

Paths below are those of the repository (`src/main.rs`, `src/toh/info.rs`, `doc/...`).

## The system

| Component | State | Operations | Talks to |
|---|---|---|---|
| Daemon loop (`main.rs`, `rpm/symbiosis.service`) | where the loop stands, `toh_already_present`, the published object | connect, identify, detect, configure, publish, watch, stop, unpublish, pause; exit on error, restart by systemd | everything below, by calls in one task |
| Back cover (`back_cover.rs`) | typestate: detached, attached, present with or without chip, powered | `wait_connect`, `power_up`, `detect`, `read_chip`, `enable_target_devices`, `wait_disconnect` | ID pin, INT pin, power, bus |
| ID pin (`id.rs`, `read_adc`) | none | five readings, median, identification | IIO ADC |
| INT pin (`interrupt.rs`) | none | state, polled wait | GPIO |
| Power output (`power.rs`) | one GPIO shared by detection, lending and the tools | set, read | GPIO |
| Bus (`bus.rs`) | the kernel's target devices by address | add (replacing), remove, remove all | sysfs |
| TOH object (`dbus/server.rs`) | TOH info, permissions, loan, loan watcher | properties; borrow with or without power, return | clients over D-Bus, power, the bus daemon's `NameHasOwner` and `NameOwnerChanged` |
| Units (`toh/config/configs.rs`, `systemd.rs`) | unit lists, user bus connection | `start_units`, `stop_units` | systemd's job queue, login sessions |
| Configuration (`toh/config/*.rs`) | merged files | find, update, split, apply overrides | file system |
| Chip content (`toh/info.rs`, `toh/value.rs`) | none | `into_bytes`, `parse_from_bytes` | detection, image builder |
| Tools (`bin/*.rs`) | a file, a chip | build an image, write and verify it, read a chip | bus, power, ID and INT pins |
| Client library (`toh/client.rs`) | a proxy, an access | wait for a TOH, fetch info, borrow, return | the TOH object |

What makes it hard:

* **Concurrency.** Every D-Bus call, every loan watcher and `main` is a task; they meet at one lock
  per object, one mutex per loan, and one power output. Between any two awaits people pull the
  cover, clients leave the bus, systemd finishes jobs.
* **Objects outlive their publication.** A call that was dispatched before `main` removes the object
  runs on the removed object.
* **Failure.** Any I/O may fail; most errors in the loop end the process, and systemd starts a new
  one ten seconds later, which finds the bus, the power and the units as they were left.
* **Noisy inputs.** The ID resistor is measured while the connector moves, and INT is also the
  interrupt line of the cover's microcontroller.
* **No timeouts.** Waiting for a systemd job or a login session has none.

What each part has to guarantee:

* Lending: only the owner of the loan uses the device; every loan ends when its owner returns it,
  leaves the bus, or the TOH goes, and then the power is cut if that was asked for; nothing cuts it
  earlier; no call blocks the removal for ever.
* Loop: a readable TOH that stays is published in the end, one that goes is unpublished; while it is
  published its devices are on the bus, whatever was there before; no unit outlasts its publication
  without a stop job or a known reason; an interrupt is not a disconnect.
* Units: no job signal is missed, units start one after the other, and those of a detached TOH end
  if they can be stopped.
* Identification: what is accepted is what was there.
* Configuration: what is published is what the files of the TOH say, in the order of their names, or
  nothing of them; clients get that, as far as D-Bus can express it, of one TOH at a time.
* Chip content: what is accepted is one whole image, and what was written comes back as CBOR
  expresses it.

## The modules

| Module | Models | Lines of the program |
|---|---|---|
| `MainLoop` | the rounds of the loop, and what each step may do to the power output | abstract |
| `TohLoan` | lending: the object, its loans and watchers, its clients, and the part of `main` that publishes and removes objects | `dbus/server.rs`, parts of `main.rs` |
| `LoanContract` | what the interface promises: one borrower, who is the only user | abstract |
| `Daemon`, `MCDaemon` | the loop over the back cover, with pins, bus, power and units as booleans and small sets | `main.rs`, `back_cover.rs`, `bus.rs` |
| `Units`, `MCUnits` | `start_units` and `stop_units` over systemd's job queue | `configs.rs`, `systemd.rs` |
| `Configs` | finding, listing, reading and merging configuration files that change meanwhile | `toh/config/*.rs`, `main.rs` |
| `ExtraValue` | nested values and their way over D-Bus | `toh/value.rs` |
| `TohInfo`, `MCTohInfo` | `Configs` with the property getters and a client that fetches them; `MCTohInfo` gives it the values of `ExtraValue` | `dbus/server.rs`, `toh/client.rs` |
| `AdcReading` | one measurement of the ID pin, value by value | `read_adc`, `id.rs` |
| `ChipContent`, `MCChipContent` | images, `toh_writer`, both ways of `read_chip`, and parsing, racing over one chip | `info.rs`, `value.rs`, `bin/toh_writer.rs`, `read_chip` |
| `X_proofs` | theorems about `X`: `TohLoan`, `Daemon`, `Units`, `Configs`, `TohInfo`, `ChipContent`, `AdcReading` | |
| `ChipReadBack_proofs` | what is written and verified comes back: the theorem about `ReadBack` | |

Definitions whose comment begins with "Mutant of" are faulty variants of the definition named there.
No specification uses them; substituting one breaks the property it is listed with in
`PROJECT.json`, which shows that the property depends on that code.

### MainLoop

`main` is looked at from two sides: by `TohLoan` from the calls on the published object, by `Daemon`
from the back cover. A product of the two would multiply their states; instead each implements the
same `MainLoop`: a round begins with the power off, power comes with `power_up`, publication follows
detection, the object is removed before its loan is ended, and the next round begins after both.
What each of the two leaves open of the other (a `Daemon` does not know when clients switch the
power, a `TohLoan` not why a detection fails) is a step of the other that `MainLoop` allows
(`LoanPower`, `DetectFails`).

### TohLoan

`main` publishes object after object; `cur` is the last one, `phase` where `main` stands. Each
object has a `loan` (owner, power-down wish) and a `watcher` (the task of `LoanWatcher::new` with
its place: subscribing to `NameOwnerChanged`, checking `NameHasOwner`, streaming, finished).
`call[c]` is the method call of client `c` with the await at which it stands: waiting for the write
lock ("borrowing", "returning"), asking whether the owner is alive, asking for the caller's
credentials, waiting for the power to settle. `held[c]` is the object whose file descriptor the
client uses.

One action is what runs from one await to the next. `lend_i2c_dev` is `BeginLend` (lock, previous
loan), `AlreadyBorrowed`, `OwnerGone` and `OwnerCheckFails` (the answer about the owner),
`LendFails` and `Denied` (errors, permission), `PowerOn` and `Lend`. The lock is held while the call
stands at one of the inner awaits (`Inside`); a removed object keeps its calls. Clients borrow, use,
return, and leave the bus at any time; the signal of their departure arrives whenever a watcher is
streaming. `Restart` loses the process with all objects but not the power output nor the clients.

### Daemon

`contact` and `cover` are the connector; `MoveCover` and `Interrupt` change them between any two
steps of the daemon. `pc` is the await at which the loop stands. `bus` gives the name of the target
device at each address. Reading a chip goes over the addresses in `Eeprom`, 0x50 to 0x5f, in their
order: it leaves nothing at those it is through with, and an error leaves a nameless target where it
stands (`ReadUpTo`, `BusesAfterRead`, `ReadFails`). `remove_all_targets` is part of
`WatchDisconnect` and removes nothing: it lists `BUS_PATH`, while the devices appear in the
directory below it. `AdcReads` says which measurements can succeed, as `AdcReading` checks in
detail. `Fault` is any I/O or D-Bus error, and takes the branch that its `?` takes: most end at
"down", from where only `Start` goes on with what was left on bus and power. `Kill` does the same
from anywhere.

`join!` of the wait for the disconnect and of `start_units` is two actions in any order. `StopUnits`
asks for stop jobs and waits for none of them: `stopping` has the TOHs whose units have one, and
`UnitsEnd` is their end, any time later. A request that fails is only logged, a unit that does not
allow to be stopped is skipped, and without the user session the daemon panics (`StopUnitsPanics`);
`left` remembers whose units were left running so, or by an exit. Then come `Remove` (the object
leaves its path) and `AbortWatcher` (its loan is ended, under its lock).

### Units

`at` is the place in `start_units` or `stop_units`, `pos` the position of the current unit among
those of the current `manager`, `removed` what the `JobRemoved` stream of the current unit holds.
The job may be done before the answer with its path arrives (`JobPath`). systemd is external: a
queue with one job per unit where an opposite job replaces the present one (mode "replace"), and
transient units that exist while they are active, failed or have a job. `StopUnit` fails, skips a
unit that systemd does not know (an installed one may be unloaded) or that does not allow it
(`Refusing`), or asks for a stop job. `begun` are the units that came up since `start_units` was
called.

### Configs, ExtraValue, TohInfo

`find` awaits nothing, but the files are other processes' to change between any two of its system
calls, so each is an action: `Find` (is there a directory), `OpenDir`, `ListEntry` (in any order),
`Listed` (sort), `ReadFile` (open, parse, `Configs::update`). Then `EnableTarget` adds the devices
one after the other, and `Publish` does `split` and `apply_overrides`. Any error in `find` publishes
the TOH without its configuration. `Edit` writes, breaks or removes a file. Paths are numbers in the
order of `sort()`. A null is None in a field of `Info` but a value in the flattened map of the
others, where it takes the place of the chip's value and is then dropped on D-Bus. `targets` holds
what the devices of the present TOH make of the bus; what others have left there is part of
`Daemon`.

What the files should lead to is stated without the order of the steps: the info and each address by
the last file that says something about them (`ExpectedInfo`, `ExpectedTargets`), the permissions by
all files, and the units by a numbering of the files that have one (`UnitsInOrder`).

`TohInfo` adds the client. A `Toh` has one proxy for all its detects, made by `NewClient`. zbus
caches properties by default: the first `Fetch` takes all of them from the object published at that
moment, into `cache`, and every later one, of this detect or the next, is answered from there, since
the service never signals a change. `missed` is a proxy that remembers that its first access failed;
whether it does is left open, as zbus is external. `shown` is what was published since the client
was made. The conversions of extra values are constants there (`Sent`, `Received`, `Sendable`,
`Leaves`), with the assumption that what D-Bus can express comes back with all its scalars. In the
run they are `ToDbus`, `FromDbus`, `Convertable` and `Scalars` of `ExtraValue`, which are recursive:
`ToDbus` drops what D-Bus cannot express, at any depth; `Scalars` is the reference for what has to
be left; and TLC evaluates the assumption over the values of the run.

### AdcReading

Five readings are taken one by one while the contact may change between them, and any may fail. The
sorted readings are given as order statistics (the k-th is the least up to which there are k). The
values come from the resistor with noise, from an open pin, or from a bad contact, and lie on both
sides of every limit in `id.rs`.

### ChipContent

A cell of the chip is one unit of the format: magic, checksum, IDs, size, number of entries, entry.
CBOR does not tell all extra values from each other: `Written` gives the value as which another one
is written (an `I64` that is not negative as the `U64`, a tag 2 or 3 over bytes as the number), and
`TypesMatch` accepts what `value.rs` can read, numbers of up to 64 bits. The checksum is the covered
content itself, so collisions of CRC-32 are left out. The size field wraps at `SizeMod`. A chip has
one or more blocks of 256 bytes or, if the ID resistor says so (`wide`), one block of up to 64 kB,
whose true size may be smaller: it then answers round and round. `toh_writer` writes pages (cut at
block ends); its verification sets the address of each block and reads it in a second step
(`VerifyAddress`, `VerifyBlock`). The daemon does the same (`SetAddress`, `ReadBlock`), but reads a
wide chip in chunks that follow the chip's own data address (`pointer`), which any use in between
has moved. A chip that does not answer at a later block ends the chip. The writer can stop anywhere,
the first byte can become zero, and a cell can go bad (not during a verification, because `verified`
means that the image is still there). The order of the keys in an image is that of a `BTreeMap`
(`Before`, any strict total order).

`verified` and `readOf` follow an image from its verification to the detection that reads it.
`alone` is there for chips of up to 64 kB: if the daemon reads from such a chip while `toh_writer`
verifies it, the chunks that are compared are not those that were meant, and a chip with a cell gone
bad can pass, because an older and longer image holds equal cells elsewhere. TLC finds this in 38
steps on a chip of three chunks; so an image counts as verified only if nobody has moved the data
address meanwhile. Chips of blocks do not need it, since a whole block brings their address back to
where it was.

## The runs

| Run | Instance | Shows |
|---|---|---|
| `loan_two` | two clients, two objects, one error | `HolderOwnsLoan`, `LoanGuarded`, `PowerStaysForLoan`, `LoanEndSettled`; the service implements `LoanContract` and `MainLoop` |
| `loan_live` | three clients, one not permitted, one object, no error, fairness | `BorrowedHasPower`, `DepartedOwnerLosesLoan`, `CallsComplete`, `RemovalCompletes` |
| `loan_late` | as `loan_two` | finding: two processes have the access |
| `loan_previous` | one error | finding: a previous loan is dropped without its power-down |
| `daemon` | five covers, two addresses of chips, two errors, one kill, fairness | `DevicesExposed`, `NoUnitForgotten`, `RemovedTohUnitsEnd`, `GoodTohPublished`, `RemovedTohUnpublished`, `SteadyTohStays`; the daemon implements `MainLoop` |
| `daemon_already` | no errors | finding: `toh_already_present` outlives the start |
| `daemon_stuck` | no errors, no promise about systemd jobs | finding: units of a removed TOH stay up |
| `units` | four units, one refusing to be stopped, two cycles, one error, fairness | `JobNotMissed`, `OneStartAtATime`, `InstalledServicesStarted`, `UnitsHandled`, `DetachedUnitsEnd` |
| `units_connection` | one error | finding: the daemon panics in `stop_units` |
| `info` | two TOHs, three files of which two are YAML, one address, one edit, one error | `LastFileWins`, `AllFilesOrNone`, `QuietDiskPublished`, `DetectAgrees` |
| `adc` | three resistors, two noises | `AcceptedWasSteady`, `MajorityIdentified`, `TouchDecides` |
| `chip` | eight images over one or two blocks of five cells or a wide chip of five or ten, two writes, one flaw | `AcceptedIsOneImage`, `ReadBack` |

**Bounds.** Two clients are enough for a conflict over a loan and three for one that waits behind
two; two objects are enough for a call that outlives its object, because later objects meet removed
ones only through the power output, which has no memory of how many there were. One error reaches
each `?`; two in `daemon` let one error meet the left-overs of another. The five covers of
`MCDaemon` are one of each kind that the code tells apart, with devices at shared and at private
addresses; both addresses are of memory chips, so that an error at the second one meets what is left
at the first, and devices of the next TOH lie at either. Two unit cycles let a start meet the stop
before it. Two blocks (or chunks), pages that do not divide them, and two writes give every mixture
of an old and a new image that a longer chip gives. In `info` two YAML files are an earlier and a
later one; they begin with any content or missing, so that the one edit is always a change under the
reader; a TOH with files and one without are exchanged.

**Fairness.** tokio polls every task that can go on: weak fairness of each task's next step
(`WF_vars(LendStep)`, `WatcherStep`, `DaemonStep`, `ProgramStep`). The lock of a zbus object is
first come, first served, so a waiter gets it even though others come and go: strong fairness of
`LockStep` and `AbortWatcher`. `rpm/symbiosis.service` restarts the daemon (`Restart=`), so `Start`
is fair too. systemd kills what does not stop in time, so stop jobs end (`UnitsEnd` for what is in
`stopping` and not in `left`). That it finishes start jobs and that a user logs in is assumed only
where a run says so (`FairUnitsSpec`, `FairSpec` of `Units`). Clients, covers, errors and kills are
never fair.

**Deadlock** is checked except in `Units` (the cycles are bounded, and the panic ends the task) and
`AdcReading` (a measurement ends).

## What is proved

All theorems hold for every value of the constants that satisfies the assumptions in the modules
(bounds are natural numbers; in `Daemon`, the covers have a resistor, a chip and devices of the
kinds listed there).

`TohLoan_proofs` proves `TypeOK`, `HolderOwnsLoan`, `LoanGuarded`, that `Spec` implements
`LoanContract` and `MainLoop`, and the action properties `PowerStaysForLoan` and `LoanEndSettled`.
The inductive invariant `IInv` adds what a call knows at each await: no two calls are inside of an
object (`OneInside`), the loan a call looked at has not been replaced while it holds the lock
(`CallInv`), a watcher guards the loan it was made for (`OwnLoanInv`), a loan without a watcher does
not exist and a watcher is only told of real departures (`WatcherInv`), clients hold descriptors of
published objects only (`ClientInv`), and objects not yet published are untouched (`FreshInv`).
Without `CallInv` the step `Lend` could grant over a loan made meanwhile; without `FreshInv` a new
object could begin with a watcher. There is one lemma per action. The action properties follow from
`IInv` by a lemma for each way in which a loan ends or the power goes. `Powered` proves
`BorrowedHasPower` for `MaxToh = 1`, with any clients and errors: with more TOHs it is false, since
what is left over from a removed object may cut the power (finding 1); `PoweredInv` adds that a call
which waits for the power to settle finds it on.

`Daemon_proofs` proves `TypeOK`, `DevicesExposed`, `NoUnitForgotten` and that `Spec` implements
`MainLoop`. Its `IInv` adds that an object exists exactly while the loop stands at "published" or
"stopping" (`PubInv`), that the state of the wait and of the units fits that (`WaitInv`), and that
outside of a publication with its configuration every running unit has a stop job or is in `left`
(`AskedInv`): that is what stands behind `NoUnitForgotten` when the published TOH becomes another
one.

`Units_proofs` proves `TypeOK`, `JobNotMissed`, `OneStartAtATime` and `InstalledServicesStarted` for
any lists of units. `JobInv` is the exact form of the first: while a start waits, its job is in the
queue if and only if its removal is not in the stream. `StreamInv` says that nothing of one start is
left in the stream for the next. `DoneInv` speaks of the units that `start_units` is done with so
far, by their position: the installed ones among them have come up since it was called. It needs
both, since only the removal of a start job, and of this one, ends a wait without an error.

`Configs_proofs` proves `TypeOK`, `LastFileWins`, `AllFilesOrNone` and `QuietDiskPublished` for any
directories, contents and edits. `FindInv` says that the files read so far are the listed ones that
lie below those left, which is why the last one read is the last in order; `AccessInv` that the
permissions are theirs. `UnitsInv` and `DevicesInv` give each unit and each device of the merged
lists the file, and the place in it, that it came from, in the order of files; that takes the place
of an induction over the lists. `TargetsInv` says that an address has the name of the last device
added there. `QuietInv` says that while nothing was touched, what was seen is what is on the disk.
At `Publish` they meet: all files have been read, all devices have been added, so the last device of
an address is that of the last file that has one (`LastIs`, `PublishedAsWritten`).

`TohInfo_proofs` proves `DetectAgrees` for any fields and any conversions that bring back what they
can express. `ClientInv` says that the properties got so far are, one by one, those of the object in
the cache, that this was published since the client was made, and that nothing has been missed if
there was a TOH all the time. That `InfoSpec` implements `Spec` of `Configs` is a step of it, so
that `TypeOK` need not be proved again.

`ChipContent_proofs` proves `TypeOK` and `AcceptedIsOneImage` for any images, block sizes, chips and
writers. The invariant adds little state (`Progress`: the image in hand is one and not at its end).
The argument is in the lemmas: of all cells of all images only the second is a checksum
(`HeaderCells`), a checksum is of one image's content only (`ChecksumIdentifies`), hence the covered
content is that of a whole image, whatever the cells came from.

`ChipReadBack_proofs` proves `ReadBack` for any infos, page sizes, blocks, chunks and chips.
`BackInv` follows the image cell by cell: `WriterInv` says that the chip holds the cells up to
`done`, at the places where detection will look for them, with the data address in the right place
during a verification; `VerifiedInv` that a verified image is on the chip as a whole; `ReaderInv`
that what detection has read so far of it are its cells. The first cell may be zeroed in each.
`ParsedBack` is about the format alone: `parse_from_bytes` gives back what `into_bytes` was given,
as CBOR expresses it (`ReadAs`), if the image is `Readable`: no extra key takes the place of a known
one and no number has more than 64 bits; its argument is that the map of the entries is the map
whose keys were numbered in their order.

`AdcReading_proofs` proves `TypeOK`, `AcceptedWasSteady`, `MajorityIdentified` and `TouchDecides`
for all readings of a `u16`. `Traces` says that a contact leaves a reading behind; the lemmas are
about the order statistics of five readings and about half a percent: it is less than the distance
between any resistor and an open pin (`OpenAssumption`), less than the distance of a clear reading
to the next limit, and less than the width of a type, so that at most one limit lies between the
smallest and the largest reading and the median has most readings on its side.

Only model-checked:

* Liveness (`DepartedOwnerLosesLoan`, `CallsComplete`, `RemovalCompletes`, `GoodTohPublished`,
  `RemovedTohUnpublished`, `RemovedTohUnitsEnd`, `SteadyTohStays`, `UnitsHandled`,
  `DetachedUnitsEnd`): the arguments need fairness and `ENABLED`.
* That the conversions of `ExtraValue` bring back every nested value (`ConversionAssumption`): they
  are recursive, and the proof would be an induction over values. TLC evaluates it for the values of
  the run `info`.

## Findings

1. `loan_late`: a borrow that waits for the lock while the object is removed lends the access of a
   removed object, and another process can borrow the next object at the same time
   (`doc/dbus_interface.md:35`). `PowerStaysForLoan` therefore has to except the work on removed
   objects.
2. `loan_previous`: errors between taking the previous loan and granting drop it without the
   power-down that its borrower asked for (`server.rs:214`).
3. `daemon_already`: a TOH that replaces the one present at start within the pause of the loop is
   handled as if the service were starting (`main.rs:191`, `doc/configuration.md:86`).
4. `daemon_stuck`: a start job that does not end, or a user that does not log in, keeps the units
   that are up running after the TOH is gone (`doc/dbus_interface.md:41`).
5. `units_connection`: the `expect` at `configs.rs:293` fails when the user session manager could
   not be reached at attach.

Divergences without a run:

* `remove_all_targets` "removes all devices from the bus" (`bus.rs:134`) but lists `BUS_PATH`
  (`bus.rs:142`), while `add_target` finds the devices in the directory of the bus below it
  (`bus.rs:79`, `106`): nothing is removed at disconnect. `DevicesExposed` shows that the next TOH
  gets its devices all the same; those of earlier ones stay beside them.
* `detect` "returns `None` if no TOH is present" (`traits.rs:35`). The proxy of the client keeps the
  properties of the TOH it saw first, so it goes on returning them after that was removed or
  exchanged; `client.rs:117` asks how to notice. `DetectAgrees` therefore speaks of a TOH that was
  published since the client was made.
* Extra values do not all come back as they were given, although `Info` can be compared: an `I64`
  that is not negative comes back as `U64` (`value.rs:198`, `79`), a tag 2 or 3 over bytes as a
  number, and one of more than 64 bits makes the image unreadable (`ReadAs` and `Readable` in
  `ChipContent`).
* A unit with `can_stop` false is left running (`systemd.rs:251`), and so is one whose stop fails,
  with a warning; `doc/dbus_interface.md:41` promises that a service will be stopped.

* `doc/dbus_interface.md:11` says that TOH info becomes available when the configuration was read
  successfully, while `main` publishes the TOH without it (`PublishUnconfigured`).
* `doc/configuration.md:83` says that a transient service is created and started on attach; one that
  is still stopping from the last detach exists, and is not (`InstalledServicesStarted` is about the
  others). The same document asks for `service-type` and then gives it a default.
* Extra members of an override that are null replace the chip's value and are then dropped on D-Bus.
* `Executable` derives `Deserialize`, so that access lists do not go through the check for an
  absolute path that its constructor makes (`parse.rs:108`).
* `into_bytes` makes images without any payload, which `parse_from_bytes` rejects, and lets an extra
  key take the place of a known one (`Readable` in `ChipContent` names both).

## Abstractions to know about

* `Daemon` has two addresses of memory chips in its run, and reads a chip in one step: `read_chip`
  awaits nothing, and a cover that moves during it is a loose one, which can fail at any block
  (`ReadFails`). From there to the publication nothing looks at the cover again, so `Publish` is one
  step as well.
* `AdcReading` assumes that no resistor reads within 0.5 % of an open pin (1750 or more); those of
  the specification do not.
* Permissions are a set of clients (`Allowed`); `/proc` lookup and executable paths are left out.
* In `Units`, service properties, unit names and the D-Bus transport are left out.
* In `Configs`, system and user units are one list treated alike; YAML is a library, and a file that
  does not parse, also for its executables, is `Broken`. A device without a name has the name
  "none".
* The units of a TOH are one in `Daemon` (they run, are being stopped, or some were left); `Units`
  has them one by one.
* In `TohInfo`, the caching of zbus is external: it is modelled with its defaults, as the client
  uses it, and with no signal that ends it, as the service sends none. `Optional` values are what
  zvariant makes of them: the empty text and None are the same.
* CRC-32 has no collisions; extra values are nested in `ExtraValue` and `TohInfo`, not in
  `ChipContent`.

## Not modelled

* `i2cdev.rs`: ioctls on a descriptor, no state.
* The client's `is_present` (one ping) and `is_powered` (one sysfs file): they read one thing and
  keep nothing.
* `toh_reader`: `read_chip` once and a file. The power around the tools' work, and their wait for
  INT.
* Error and trait declarations, the examples, logging, YAML and CBOR parsing as such (libraries),
  finding devices in sysfs.
* Units of a TOH that is removed while no daemon runs: nothing remembers them, and the documentation
  promises nothing. A cover exchanged between two polls of INT: it keeps the identity of the old
  one.

## Plan

Done, in the order of their weight: lending with its contract; the loop; units; configuration and
what clients get of it; identification; chip content; the loop that lending and the daemon have in
common; and the proofs of each.

Left:

1. The power around the tools (`with_power`, `toh_reader`) against the power of the daemon.
2. Proofs: every invariant, action property and refinement that a run checks has a theorem. What
   could follow are lemmas for the safety part of the liveness properties, for instance that a call
   or a removal that waits always has somebody to wait for.
