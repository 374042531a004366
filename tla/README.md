# A verification of pmdapi, the protected mode DOS API translator

`src/` is a port of dosemu's DOS API translator: a resident program that lets a
protected mode DPMI client call `INT 21h` and its friends directly. These modules
model the parts of it that keep state across calls, check them with TLC and prove
what matters most with TLAPS.

## 1. The system

### Components

| component | source | state | operations | modelled by |
|---|---|---|---|---|
| request switch, transfer buffer | `msdos/msdos.c`, `emm.c` | `ems_frame_mapped`, the EMS driver's saved map, `io_buffer`, the PSP's environment word | `msdos_pre_extender`, `msdos_post_extender`, `prepare_ems_frame`, `restore_ems_frame` | `Services`, `Translator`, `TransferBuffer` |
| memory services | `msdos/msdos.c` | `mem_map` of the client | `AH=48h`, `49h`, `4Ah`, `msdos_malloc`, `msdos_free`, `msdos_realloc`, `msdos_free_mem` | `PmMemory`, `MemoryService` |
| client stack and real mode callbacks | `msdos/msdos.c`, `msdos/callbacks.c`, `msdoshlp.c`, `msdh_inc.h` | `msdos_client`, `msdos_client_num`, `rmcb_arg`, the host's callbacks | `msdos_init`, `msdos_done`, `callbacks_init`, `callbacks_done`, the mouse services and callbacks | `ClientPool` |
| long read and write | `rmhlp.S`, `callbacks.c` | registers of the helper, `io_buffer`, `io_error` | the chunk loops, `rmcb_handler` | `LongIo`, `FileTransfer` |
| DTA, PSP, selector cache | `msdos/msdos.c` | `user_dta_sel`, `user_psp_sel`, `seg_sel_map` | `AH=00h`, `1Ah`, `26h`, `2Fh`, `50h`, `51h`, `55h`, `62h`, `old_dos_terminate`, `ConvertSegmentToDescriptor_lim` | `ClientData` |
| LDT alias | `msdos/msdos_ldt.c` | `dpmi_ldt_alias`, `ldt_backbuf`, `entry_upd` | `msdos_ldt_init`, `_done`, `_update`, `_pagefault`, `direct_ldt_write` | `LdtWrites`, `Faults`, `EntryPoints` |
| API and XMS entries | `msdoshlp.c`, `callbacks.c` | `api_arg`, `api_winos2_arg`, `xms_arg` | `get_pm_handler`, `get_pmrm_handler` and what they install | `EntryPoints` |
| segment faults, decoder | `msdos/segreg.c`, `msdos/instr_dec.c`, `instremu.c` | the faulting context | `msdos_fault`, `decode_segreg`, `decode_memop`, `instr_len` | `InstrDec`, `Faults` |
| resident provider | `handlers.c`, `calls.c`, `entry.S` | `sr[]`, `current_client`, `dseg32`, `clnt_is_32`, the thunk, the stacks and static words | `entry`, `done`, `int21_handler`, `do_int`, `do_pm_int_call*`, `handler` | `Resident`, `Calls` |
| startup | `startup.c` | none that outlives it | `main` | left out: a straight line of host calls |
| wrappers | `wrapper.c` | none | pass arguments to the DPMI host | folded into their callers |

### How they interact

A client issues an interrupt. The host calls `msdos_pre_extender`, which answers in
protected mode (`MSDOS_DONE`), declines (`MSDOS_NONE`), or fills a real mode register
structure and copies data into the EMS page frame (`MSDOS_RM`). DOS then runs in real
mode, and `msdos_post_extender` copies back, unmaps the frame and merges the registers.
There is one frame and one flag for all calls, and calls nest in three ways:

- a mouse event interrupts DOS and enters the client's routine through a real mode
  callback, and the routine issues interrupts of its own;
- EXEC runs a child in the middle of its parent's call, and the child may become a
  client itself;
- DOS may abort a program inside a call (Ctrl-C, critical error), and then
  `msdos_post_extender` never runs for it.

Clients share more than the frame. `msdos_client_num` names the client that runs, the
environment word lives in a PSP that DOS copies, and a client of the same bitness as
the one below it borrows that one's three callbacks. The helper keeps a single
argument per callback, a pointer into the slot of whoever allocated last.

### What is hard, and what makes it correct

| component | hard behaviour | property |
|---|---|---|
| transfer buffer | nesting and aborts over one flag | the application's mapping is never lost (`AppMappingSafe`); a call keeps its buffer (`BufferHeld`); the frame is unmapped by the call that mapped it (`FrameReleased`) and in the end (`FrameEventuallyReleased`); one owner at a time (`BufferSpec`) |
| request switch | five tables over the same service codes | no sanity check fires (`NoErrors`), no register comes back with the translator's address (`RegistersRestored`) |
| environment word | a selector for the client, a segment for DOS | never one taken for the other (`EnvSound`) |
| client stack | children push and pop it inside a parent's call | Post runs with the client of Pre (`ClientHeld`) |
| long I/O | a global buffer pointer; 64KB at a time, short answers and errors in the middle | the pointer is the call's own and unset after it (`IoBufferHeld`); what arrives is a prefix in place (`BytesInPlace`), inside the buffer (`ChunksInBuffer`); the count is exact, but where the loops lose a part of it (`CountTrue`); the whole is one transfer with one answer of its own (`TransferSpec`); it ends (`Ends`) |
| memory | freed entries keep their base, lookup is by base | what the map says is true, and all of it until it overflows (`MapTrue`), selectors name own blocks (`SegmentsLive`), an allocator (`MemorySpec`) |
| callbacks | borrowed by bitness, freed by the owner's flag | live and of the right bitness (`CallbacksLive`), freed once (`CallbacksOwned`) |
| DTA, PSP, selector cache | stand-ins below 1MB, children that move them, a map that fills | AH=51h and 2Fh name what the client set (`PspAnswered`, `DtaAnswered`), the map owns its descriptors (`MapSound`), the environment word is what its reader expects at every PSP (`EnvPassed`) |
| mouse events | drivers outlive clients, slots are reused | the routine of whoever set it, while no client starts another (`AloneRouted`) |
| LDT alias | one table kept in two places, written in pieces | programs see what the host has (`AliasTrue`) and what they wrote before, unless the host refused it (`WritesOnly`), the host never gets a system descriptor (`NoSystemDescriptor`), no register keeps a dead selector (`RegistersValid`) |
| decoder | lengths and effects of an instruction, by hand and with prefixes | the context is what the processor would have left, for what the decoder follows (`AsExecuted`, `SegExecuted`) |
| API and XMS entries | one argument for all clients, slots that clients come and go in | descriptors are owned once (`AliasesOwned`), an entry answers a live alias (`EntriesAnswer`), XMS is reached for as long as the slot behind it is not taken anew (`XmsReached`) |
| resident provider | one current client, one flag, one thunk for a stack of clients | the assert holds (`AssertHolds`), the chain ends at a live client's own host vector (`ChainTrue`), selectors are live and owned once (`SelectorsLive`), the thunk is that of the client that runs (`ThunkOff`) |
| calls and callbacks of the provider | one stack and one set of static words for all of them | what nothing comes into returns where it came from, and a call that anything came into never does (`AloneAnswered`), a mouse routine in a call gets the caller's stack (`RoutineOnCaller`) |

The hazards, each at its line, are in `PROJECT.json`.

## 2. Modules

### `Services`

Decision tables as predicates on a request (interrupt, AH, AL, DX): which services
need the buffer (`need_xbuf`, `need_copy_dseg`, `need_copy_eseg`), what
`msdos_pre_extender` returns (`IsDone`, `IsNone`, `IsRm`), which registers the switch of
Pre loads (`LoadsBuffer`, `LoadsOther`) and which Post keeps from the merge (`Keeps`).
Each table is translated from its own `switch`, so their agreement is a theorem and not
an assumption. `DOS_HELPER_INT` is compiled out of the port and is left out.

### `Translator`

`procs` is DOS's stack of processes; `frames` is the stack of interrupted activities,
that is calls between Pre and Post and mouse routines. Control is always at the top of
the stack, as on the real machine.

| action | code |
|---|---|
| `ProgramCall`, `CallbackCall` | `msdos_pre_extender` (`PreStay`: DONE and NONE; `PreRm`: RM) |
| `Post(d)` | `msdos_post_extender`; never for a call that exits |
| `MouseEvent`, `MouseReturn(d)` | `mouse_callback`, `rmcb_ret_handler` |
| `msdos_init`, `msdos_done` | the functions of those names; `msdos_done` also for an aborted client |
| `DosExec`, `RealModeExit` | external: DOS |

`emm` is the EMS driver, external: what the page frame shows, and the mapping saved
under the translator's handle. A save when something is already saved keeps the first
mapping, as EMS refuses it, and a restore with nothing saved does nothing. The bytes in
the buffer are reduced to their owner, the environment word to what it is, a wrong
register to the register's name.

### `TransferBuffer`

Abstract: a buffer that is taken and given back, and a window that shows it exactly in
between. `BufferSpec` maps `holder` to the owner while the flag is set and `window` to
what the driver shows.

### `PmMemory` and `MemoryService`

`mem_map` with the bases and handles that freed entries keep, the blocks as the host
knows them, and the client's selectors by base. `Free` and `Resize` look up the first
entry of the base in ES, in use or not, as the loops do; `Resize` refuses an entry of
size 0. The host may move a block that is resized and give it another handle (`DPMIrealloc`); `CarefulSpec` is the specification in
which it moves none to a base that an earlier entry keeps from a block that was freed
(`NoStaleMove`). What goes wrong otherwise is section 6. `MemoryService` is what the client is promised: blocks that do not overlap, a
free that succeeds for own blocks only, everything given back at exit. The size of a
block is reduced to whether it is 0.

### `ClientPool`

The client array, which keeps what an exited client left until `memset` at the next
entry; callbacks in sets of three; `rmcb_arg`; the two mouse drivers, which go on
calling the callback they hold whatever happened to its client. `setter` is a history
variable, the client that gave a driver its callback. An event calls the routine in the
slot that `rmcb_arg` points into, if `ValidAndUsedSelector` accepts its selector: always
for a live client's routine, never for none, and either way for a dead client's, whose
selector the host may have given out again.

### `ClientData`

The DTA and the PSP that a client set above 1MB are kept as `user_dta` and
`user_psp_sel`; DOS knows `dos_dta` and `dos_psp`, the stand-ins. `env` is the environment
word of each PSP. `set_psp`, `set_dta`, `own` and `answer` are history: what the client set,
which PSPs have the client's environment word, what a query named or DOS read.

A segment is converted in two ways. `ConvertSegmentToDescriptor_lim` (`Convert`;
`msdos.c:221`) is the translator's own, for PSPs and the flat segment: `seg_sel_map` is the
used part of its array, which it fills from the front; segment and limit are one key.
`ConvertSegmentToDescriptor` (`HostConvert`; `wrapper.c:49`), for the environment word, the
DTA of AH=2Fh and the segments that a fault names, is `INT 31h` function 0002h: the host
keeps a map of its own, `host_map`, so that these conversions take no entry of
`seg_sel_map`. Both allocate from one LDT, whose descriptors others take and give back
(`OthersUseLdt`), and both answer 0xffff (`Bad`) when it is full. What DOS reads for a
selector that is none is any segment (`Unknown`).

| action | code |
|---|---|
| `msdos_init`, `msdos_done` | the functions of those names |
| `Exec` | AH=4Bh in Pre and in Post, and the child, which may move the DTA |
| `SetPsp`, `CreatePsp`, `CreateAndSetPsp` | AH=50h, 26h, 55h |
| `PspKill(w)` | AH=00h and INT 20h at a PSP that the client made: `old_dos_terminate` |
| `GetPsp`, `GetDta`, `SetDta` | AH=51h and 62h, 2Fh, 1Ah |
| `SelFault` | `msdos_sel_fault` for the flat segment and for any other real mode one |
| `OthersUseLdt` | external: descriptors of the client, other programs and the host |

### `LongIo`

One request from Pre to Post, with the helper's registers as the loops leave them. Bytes
are named by their offset: `moved` says for each place that was written which byte of the
source is there, so that gaps, overlaps and swapped chunks show. `DosReads`, `DosWrites`
and `DosFails` are DOS, which may move less than asked or fail at any chunk; `Abort` is a
program that dies there. `word` is what `RMLWORD` holds: 16 bits in this port
(`wrapper.h:50`), 32 in dosemu (`callbacks.h:27`). `answer` is history: what the program
was told of this request, if anything.

`FileTransfer` is what the program is promised: bytes that arrive from the front and in
order, and one answer, which is a count, or an error if nothing arrived before it. The
count is all that arrived if the request was met or an error cut it, and no more than
that otherwise. `TransferSpec` maps the chunks, the buffer and the callback away.

| action | code |
|---|---|
| `Pre`, `Post` | AH=3Fh and 40h in `msdos_pre_extender` and `msdos_post_extender` |
| `Chunk`, `NextChunk` | `start_read`, `start_write` and the ends of their loops |
| `CopyRead`, `CopyWrite` | `rmcb_handler`, AL=0 and 1 |
| `DosFails` | `read_set_cf`, `write_set_cf`, `rmcb_handler` with AL=2 |

### `LdtWrites`, `InstrDec` and `Faults`

`LdtWrites` keeps the LDT twice, as the host has it and as programs see it. A descriptor
is the access byte's P and S and the bytes below it: enough to tell a segment from a gate,
and a piece of a descriptor from the rest. `direct_ldt_write` reads the bytes it keeps
from one of the two copies, allocates a free entry, and answers a descriptor that is not a
segment with a marker in the host's LDT and 0 in the registers. The host may refuse
whatever it is given, the marker too. `entry_upd` mutes the callouts of the host for the
entry that is written, which `msdos_ldt_update` asks for at every change.

`InstrDec` has no state: `instr_len` with its table, and `decode_memop` and
`decode_segreg` as changes of EIP, ESP, ESI, EDI and the flags, each beside the
processor's own (`Executed`, `TrueLen`). `int _32bit:1` is what C makes of it, 0 or -1. The
code toggles a size at every prefix; for the processor a prefix counts once, however often
it is there (`TrueIs32`). Where the two differ, `Doubled` says so.

`Faults` composes the two: `msdos_ldt_pagefault` decodes an instruction and makes its
write, `msdos_fault` gives a real mode segment a descriptor. An assert that fails stops the
program.

### `EntryPoints`

`ClientPool` and, beside it, what else `msdos_init` and `msdos_done` allocate and free:
the alias that all clients share, and the second one of each client. `Start` and `Stop`
are the whole functions; `AskMsDos`, `AskWinOs2` and `AskXms` are the services that give
out an entry; a call of an entry reads the slot that its argument points into
(`msdos_api_call`, `msdos_api_winos2_call`, `xms_call`). `EntriesImplementPool` proves
that `ClientPool`'s own behaviour is unchanged.

### `Resident`

The host's clients as a stack of handles with a vector each, and the provider's `sr[]`,
current client, data segment, bitness flag and thunk. A vector is the one that the host
gave a client (`Host(h)`, one for each), or `dos16_int21` or `dos32_int21` in the code
segment of the client that hooked it (`Ours(h, wide)`), so that an inherited or restored
vector of another client shows. `calls` are the INT 21h calls in
flight, since a child starts in the middle of one.

| action | code |
|---|---|
| `Start` | `code16` and `code32` of `entry.S`, `entry` with `term` = 0 |
| `Stop`, `done` | `entry` with `term` = 1, `done` |
| `Switch` | `entry` with `term` = 2 |
| `Int21`, `Return` | `int21_handler` before and after the old handler, `do_pm_int_call*` |

### `Calls`

The way from a program to C and out again. An activity is a call of INT 21h or a mouse
callback between the two halves of `do_pm_int_call*`; `frames` says whose registers and
return address lie at each place where C frames can be. INT 21h and the host's entry use
the top of the provider's own stack (`Ours`), a callback the host's stack, deeper for each.
`tmp_ss_esp`, `tmp_ebp` and `saved_context` are the words that both halves share. When
they do not lead back to the frames, `lost` says that control went where nothing is known.

| action | code |
|---|---|
| `Int21(p)` | `dos32_int21`, `dos16_int21`, `do_int`, `int21_handler`, `do_pm_int_call*` up to the old handler |
| `Callback(valid)` | `MSDOS_rmcb_call1` and `2`, `handler` up to the mouse routine; `valid`: the routine was accepted |
| `Entry` | `common_entry` and the return from it |
| `Return` | the second half of `do_pm_int_call*` and `do_int` |

### `MC...` and `..._proofs`

Instances for TLC, and the theorems of the module each is named after.

## 3. Runs

| run | states | bounds | shows |
|---|---|---|---|
| `nesting` | 226 | 4 processes, 3 clients, 6 nested activities, 7 kinds of request | safety, liveness and refinement of the frame under EXEC in EXEC, calm mouse routines and aborts outside buffered calls |
| `sweep` | 1.7 million | 1 client, 3 nested activities, every AH with every AL that a table looks at | the tables agree, with mouse routines that use the buffer and an LDT that may be full |
| `memory` | 29,981 | 2 entries, 3 addresses, 4 handles, 2 selectors, moves under `NoStaleMove` | the map until and after its overflow, with a host that moves blocks |
| `pool` | 286,315 | 2 clients, 2 sets, one mouse driver and routine, 3 descriptors | every order of entries, exits, requests for an entry and mouse events, until descriptors run out |
| `client_data` | 461,320 | 3 PSPs below 1MB, another program's among them, and 1 above, a DTA on each side, a map of 2, 2 descriptors, at most 2 PSPs with a foreign word | every order of setting, making, killing, asking and faulting, with EXEC, a full map and an LDT that others fill and empty |
| `long_io` | 7,486 | chunks of 3, registers of 11 values, counts 0, 1, 3, 4, 6 and 8, words of 4 and 11, 2 errors | every cut of a request, short answers, errors and deaths at every chunk; one transfer with one answer, and each request ends |
| `faults` | 83,214 | 1 entry, 2 values, 2 registers, writes at the low bytes and at the access byte, every opcode the decoder knows with its prefixes once, twice and three times, stores and loads of 32 bit code | writes in pieces and the context after each fault, against a host that refuses and runs out |
| `resident` | 2.2 million | 3 clients, 2 calls in flight each (1 after a refusal), 3 descriptors, FS only | nesting from within calls, vectors inherited from the client below and from another, switches, an LDT that fills up at any time |
| `calls` | 152,960 | 3 programs, one of them 16 bit, 4 activities deep | what the static words are worth after every order of calls, callbacks and entries |
| `nested_service` | | 2 processes | violation, section 6 |
| `aborted_service` | | 4 processes | violation, section 6 |
| `memory_moves` | | 3 entries, 3 addresses, moves to any base | violation, section 6 |

Why the bounds are enough. In `nesting`, the processes allow a client under a client
under a client, and the activities a mouse routine inside each of their calls; a further
level repeats the same relation between neighbours. It is small because a child can
start only inside EXEC and calls of one program do not overlap. `sweep` needs one
client: the tables do not look at the client. In `memory`, two entries make room for one
stale entry before a live one and for the overflow, and three addresses leave the host
one to choose. In `pool`, borrowing, the shared alias and the arguments look at one
neighbour; three descriptors serve both clients, two of them or one. In `client_data` four segments, three
PSPs and the flat one, ask for a place in a map of two and, with the environment, the DTA
and other segments, for two descriptors, so that both run out, in either order; each kind
of PSP and DTA is there once to be mixed up with the others. `NoAnswer` leaves the last
answer out of the state, which no step reads, and descriptors are interchangeable.
In `long_io` the counts are nothing,
less than a chunk, one chunk, one and a byte, two, and two and a rest, and the smaller word
cuts the larger of them. In `faults` entries do not look at each other, so that there is one
(that a write changes no other is proved and not run), and one write at
the low bytes and one at the access byte are the two halves of a descriptor. In `resident`
three clients are a stack with a middle, the least in which a client inherits from another
than the one below it; the second call in flight is the one that a nested call returns
under. Once a client was refused most is excepted, and `FewCalls` bounds what follows. With GS as well the instance is too large, and the theorems
cover it. In `calls` an activity inside another writes the same
words at any depth; three programs leave one to be mixed up with a caller and its child.
The theorems remove these bounds where they exist.

Deadlock is checked except in `faults` and `resident`, where an assert that fails ends the
program, and in `calls`, where nothing follows once control is lost.

### Fairness

`FairSpec` adds strong fairness of `Post(d)` and `MouseReturn(d)` for each depth. It is a
promise of the environment: DOS answers a service and mouse routines return. It is
strong because each may be interrupted again and again by mouse events, which disable it
for the while, and the depth makes it a promise about that activity and not about
others. Nothing is assumed to be issued, to exit or to be aborted. A program that DOS
aborts is treated as calls that never return, which fairness does not forbid: those
calls leave the stack.

`LongIo` has weak fairness of the helper as a whole, DOS's answers included: it is
straight-line code that nothing in the model disables but the program's death.

### Assumptions on the environment

- DOS is not reentrant: a mouse routine neither runs programs nor exits
  (`CallbackAssumption`).
- A program exits, or is aborted, in a call of its own and not inside its mouse routine.
- When `msdos_done` converts the environment word, the PSP is that of the dying process.
- The host stops at `DPMI_MAX_CLIENTS`, has a free set of callbacks for a client that
  needs one (otherwise the client does not start), never gives a base of 0, and the
  client's other segments do not start at a block's base (`BaseAssumption`).
- In `memory`, and in the theorems about it, the host moves no block to a base that was
  freed earlier (`NoStaleMove`); it is free to allocate there.
- In `ClientData`: a program exits under the PSP that it entered with, DOS starts every
  program with a DTA and an environment of its own and gives the current PSP back after
  EXEC, and AH=00h is called at a PSP that the client made. The host answers function 0002h
  for one segment with one descriptor as long as the client runs; it may drop them after.
- In `LongIo`: the host gives the helper a register structure that is clear, as DPMI does.
- In `Faults`: a write lies in one entry (`InEntry`), and `TrueLen` is what the processor
  executes, not more than 15 bytes of it. `direct_ldt_write` is one step: the host does
  nothing in it but what it calls. When it refuses a descriptor, the entry is left alone.
- In `Resident`: the LDT may be full at any time, since programs use it too; clients nest, the last one ends first, handles are given in that order,
  the host may run any live client in between (`term` = 2), each client has vectors of its
  own, and a new one inherits only from the client that runs. Setting and getting a vector
  does not fail.
- In `Calls`: a program waits for its call, the last activity returns first, and INT 21h is
  not called from a stack in the provider's own data segment, which is not switched.
- `NoXbufAbort` (DOS aborts no call that uses the buffer) and `CalmCallbacks` (no mouse
  routine asks for a service that uses it) are named where a property needs them.
  Section 6 shows what happens without them.

## 4. Proofs

All theorems hold for every value of the constants that the modules' assumptions allow.

| theorem | assumes | rests on |
|---|---|---|
| `Translator_proofs!XbufOnlyForRm`, `BufferUseMatches` | | the tables, by cases |
| `TypeCorrect` | | `StackInv` |
| `AppMappingAlwaysSafe` | | itself, with the types |
| `FrameAlwaysReleased` | `NoXbufAbort` | `FrameReleased`, `StackInv` |
| `BufferAlwaysHeld`, `ReturnsAlwaysMapped` | `CalmCallbacks` | `OneUser`, `HeldErrors` |
| `ExecAlwaysUnmapped` | `NoXbufAbort` | `FrameReleased`, `StackInv` |
| `NeverAnError` | both | the two before it, and `NestedNever` |
| `BufferImplemented` | both | `HeldInv`, a step lemma per action |
| `IoBufferAlwaysOwn` | `CalmCallbacks` | `OneUser`, `IoOwn` |
| `IoBufferAlwaysHeld` | both | `IoInv` |
| `ClientAlwaysHeld` | | `ClientInv` |
| `EnvAlwaysSound` | the LDT is not full | `EnvInv` |
| `RegistersAlwaysRestored` | | `StackInv`, the tables register by register |
| `PmMemory_proofs!MemoryTypeCorrect` | | itself |
| `MapAlwaysTrue`, `SegmentsAlwaysLive`, `FreeAlwaysFrees` | `CarefulSpec` | `IInv`: `Good` always, `Full` until the map overflows |
| `MemoryImplemented` | `CarefulSpec` | `IInv`, a step lemma per action |
| `ClientPool_proofs!PoolTypeCorrect`, `CallbacksAlwaysLive`, `CallbacksAlwaysOwned` | | `IInv` |
| `ClientData_proofs!DataTypeCorrect` | | itself |
| `MapAlwaysSound` | | `MapInv` |
| `PspAlwaysAnswered`, `DtaAlwaysAnswered` | | `MapInv` and `PspInv`; `DtaInv` |
| `EnvAlwaysPassed` | | `MapInv`, `EnvInv` |
| `EntriesImplementPool` (in `ClientPool_proofs`) | | a step is `ClientPool`'s or a stutter of it |
| `EntriesTypeCorrect`, `AliasesAlwaysOwned`, `EntriesAlwaysAnswer` | | `EntryInv` |
| `XmsAlwaysReached` (from a request until the slot behind the entry is taken by a new client, and not after) | | `EntryInv` |
| `AloneAlwaysRouted` | | `AloneInv` |
| `LongIo_proofs!LongIoTypeCorrect`, `BytesAlwaysInPlace`, `ChunksAlwaysInBuffer`, `CountAlwaysTrue`, `ErrorAlwaysTrue` | | `IInv` |
| `TransferImplemented` | | `IInv`, a step lemma per action |
| `RequestsAlwaysProgress` (each step of a request lowers a natural number that starts at 3n + 4) | | `IInv` |
| `Faults_proofs!LdtAlwaysSound`, `NeverSystemDescriptor`, `AliasAlwaysTrue`, `RegistersAlwaysValid` | | `LdtInv` |
| `FaultsImplementLdtWrites` | | a fault is a direct write, a load or a stutter |
| `WritesAlwaysOnly` (an entry that the host refused is excepted, as section 6 says) | | `LdtInv`, `Pieces` |
| `FaultsTypeCorrect` | | `FaultInv` |
| `AlwaysAsExecuted`, `SegAlwaysExecuted` (of what the decoder follows: `Follows`) | | `FaultInv`, the tables by cases |
| `AssertFailsExactly` | | the tables by cases |
| `NarrowCodeNeverAborts` | `Insns` are 16 bit | `AssertFailsExactly` |
| `Resident_proofs!ResidentTypeCorrect`, `AssertAlwaysHolds`, `ChainAlwaysTrue`, `SelectorsAlwaysLive`, `ThunkAlwaysOff` | | `IInv`, `Sound` |
| `CallsAlwaysSized` (every call has a frame of its client's size, with clients of one bitness; not in a run) | | `OneSize` |
| `Calls_proofs!AloneAlwaysAnswered`, `RoutineAlwaysOnCaller` | | `IInv` |

Why the strengthenings are needed. `StackInv` says how the two stacks fit: bases of
processes grow and lie within `frames`, every process but the top one stands at an EXEC
of its parent, and the number of clients is the number of client processes. Without it,
leaving a process could cut into another's calls. `OneUser` says whose call it
is that may use the buffer: the running program's own, directly above the base of its
process. With it a mapped frame that an aborted call has left behind does no harm to who
comes next, which is why `BufferAlwaysHeld` bears aborts, and that nothing is copied
through an unmapped frame (`HeldErrors`) does too. Only that EXEC finds the frame unmapped
needs `NoXbufAbort`, and only that Pre maps no mapped frame needs both. For the memory,
`Good` is what the map says and the segments that are live because it is true: it
survives the overflow, since a block without an entry is one that AH=49h and 4Ah refuse.
`Full`, that every block has an entry and none outlives the client, does not, and with it
the refinement ends. `ClientPool`'s `IInv` adds to the two properties that the helper's
argument is set once a set of callbacks has been allocated: an event needs a slot to
read. `CallbacksLive` needs `CallbacksOwned`, since a client that exits frees a set that
others might have borrowed, which the order of the stack excludes. In `ClientData`,
`MapInv` adds that the map is empty without a client and that the host's conversions are
of their segments; `PspInv` and `DtaInv` tie the history to what the code keeps, and only
with them is an answer more than the value of a variable; `EnvInv` says that every PSP with
the client's word has the one selector that the host made for the environment, since
AH=26h and 55h copy the word and AH=50h may come back.

`IoInv` needs the buffer to be held, since only a call that holds it can set `io_buffer`;
`ClientInv` numbers every activity's client by the process it belongs to; `EnvInv`
(`Translator`) says of each process whether its word is a selector, by what it is and by
what its child is. `LongIo`'s `IInv` is a loop invariant: EDI and ECX add up to the count at
the head of the loop (`ChunkInv`), EDI and ESI inside a chunk (`InChunk`), and the request
fits the buffer while the helper loops (`Fresh`), from which the sum of the bounds check
cannot wrap, and what was moved is within the request (`Within`), so that the answer is. `LdtInv` adds that no entry is
left muted between two writes (`NothingMuted`), since the host's changes would then not
reach the back buffer; `Pieces` is what one write leaves of the bytes it does not write. `FaultInv`
says that a fault was answered by what the decoder makes of one of the instructions, and
the rest is a comparison of its tables with the processor's, opcode by opcode. `EntryInv`
adds which slots hold an alias and that an argument points to one (`AliasesHeld`,
`ArgAnswers`). `Resident`'s `Sound` needs the table (`Table`): the running client is the
provider's and the data segment is the last one's, which is what the assert and the freed
selectors depend on; it holds until a client could not be set up. `ChainTrue` is inductive
with it, handle by handle: that an old vector is a host's follows from the client below. `Calls`'s `IInv` says that only the innermost
activity can be undisturbed (`OnlyLast`), and that the frames and the static words are its
own as long as it is (`Own`): all that `Return` reads. The other half of `AloneAnswered`
needs that what came into a call took its way back or its frames for good (`Spoilt`).

Only model-checked: `FrameEventuallyReleased` and `Ends`, since liveness is out of the
prover's reach. The safety half of `Ends` is `RequestsAlwaysProgress`; what is left to TLC
is that the helper is always able to take its next step.

## 5. What is abstracted, and what is left out

Copied bytes, string contents, descriptors' limits and rights, and what Post copies
from outside the buffer are left out. Registers are
followed only as far as an address of the translator may be left in them; `RMLWORD` cuts
what is returned in them to 16 bits, which only `LongIo` models. The decoder's operand
values are left out, but for what decides on lengths; the bytes that a faulting instruction
stores are any. In `Calls` the registers and the stack of a program are one value, named
after the program; flags and the far call through `cseg32_16` are left out. `mouse_callback`
is modelled by the routine it runs and the stack it gets, not by the words it puts there. Overruns of the client array are excluded by the host's
limit. The startup program, the debug printing and the dosemu half of `msdoshlp.c`
(`#ifdef DOSEMU`) are not modelled.

## 6. Findings

Each is a violation run with a shortest trace; the quotes are in `PROJECT.json`.

1. `nested_service`: a mouse routine that sets the graphics cursor during a buffered
   call maps the frame twice and unmaps it under the outer call (`msdos.c:308`).
2. `aborted_service`: a client aborted inside a buffered call leaves the frame mapped,
   and its parent runs EXEC under it (`msdos.c:201`, `msdos.c:955`).
3. `memory_moves`: after a resize that moves a block to a base that was freed before,
   AH=49h frees the stale entry and reports success (`msdos.c:275`).

### Known limits

Read in the code while modelling, and excluded by an assumption or left out of a property.
No assertion of the code is about them, and no run states them as a violation.

- Clients of one bitness share their callbacks, whose argument points into the slot of the
  one that allocated them: a client that such a client starts never gets its mouse events,
  and the first may get them instead (`msdoshlp.c:180`, `msdos.c:102`). `AloneRouted` leaves
  the case out by `alone`.
- Every INT 21h starts at the top of one static stack, keeps its way back in one static
  context, and the host's entry starts at the same top (`calls.c:63`, `entry.S:97`,
  `entry.S:167`). A call in which DOS runs another DPMI client, or a mouse routine, is never
  answered: its frames or its way back are gone. `AloneAlwaysAnswered`
  proves both: that such a call is never answered, and that the others are.
- A client that sets the PSP of another program and runs EXEC has that program's environment
  word, a segment, taken for a selector, and DOS reads whatever base the host has for it
  (`msdos.c:949`; `Reverted`, `Unknown`). `EnvPassed` is about the words that are the
  client's (`own`), which this leaves alone.
- When the LDT is full the environment word is made 0xffff (`msdos.c:148`, `msdos.c:1544`),
  which nothing tests. A client that starts like that has no environment; one that started
  before keeps it, since the host answers the same segment again.
- The translator keeps an 0xffff that it got for a segment in `seg_sel_map`, and answers it
  from then on with descriptors to spare (`msdos.c:245`; `Unnamed` in `PspAnswered`). With
  the map full it answers selector 0. AH=2Fh answers 0xffff with the LDT full.
- A client that inherits its vectors from another client than the one below it, after the
  host switched to that one, gets the handler of the one and the old vector of the other
  (`handlers.c:168`; the second case of `ChainTrue`).
- After a new client takes the slot of the client that asked last for XMS, the XMS entry
  that other clients hold calls 0:0 (`msdoshlp.c:200`; `Retaken` in `XmsReached`).
- When the host refuses a descriptor that is written through the alias, the back buffer shows
  it all the same, and the next write to the entry, if that is present, starts from the
  host's bytes: what the program wrote before is lost (`msdos_ldt.c:132`, `msdos_ldt.c:122`;
  `refused` in `AliasTrue` and `WritesOnly`).
- When the last of several chunks comes short, the count returned is that chunk's and not
  the sum (`rmhlp.S:82`). `CountTrue` says that this is the only case in which it is wrong.
- `RMLWORD` is 16 bits wide here, so that a request is cut to its low 16 bits, 64KB to
  nothing, and so is the count returned (`wrapper.h:50`; `word` in `LongIo`).
- `ConvertSegmentToDescriptor` fails with FFFFh and `segreg.c:105` tests for 0
  (`SelFault`).
- A size prefix that is there twice is taken for none (`instr_dec.c:103`, `instr_dec.c:107`,
  `instremu.c:253`), and by a processor for one: length, operand and address size are then
  wrong. `AsExecuted` and `SegExecuted` leave these out (`Doubled`).
- `0F B2`, `B4` and `B5` have no length in `instr_len`, so that EIP stays on them
  (`instremu.c:284`; `NoStep`). LES, LDS and those do not load their general register.
- INC and DEC of memory do not set the flags (`Counts`). A SIB byte without a base has a
  displacement that `instr_len` does not count (`HasBase`).
- In 32 bit code the sizes come out as 0, and 6 with a prefix, as the bit field is signed
  (`instr_dec.c:35`), and a store of more than a byte fails an assert (`instr_dec.c:532`),
  unless it is a plain one with a prefix, which is taken to store six bytes
  (`AssertFailsExactly`). In 32 bit code `AsExecuted` is about stores of a byte, and
  `SegExecuted` about mov, les and lds (`WideStore`, `WideLoad`).
- A write that crosses an entry copies past the array `lp` (`InEntry`).
- `handler` calls `do_pm_call` whatever the callback did: after the long I/O callback, or a
  routine whose selector was rejected, that is its own return address (`msdh_inc.h:8`;
  `Callback(FALSE)` in `Calls`).
- A mouse routine that comes while no call is in flight runs on the stack of the last call,
  as high as that was, over what the program has pushed since (`entry.S:13`).
- This port does not build `rmhlp.S`, and gives 0:0 for the address of its helper
  (`msdh_inc.h:39`); nothing in it calls `msdos_pre_extender` yet. The models of both are of
  the code as it stands, called as dosemu calls it.
- `clnt_is_32` and the thunk are not restored for the outer call when a client of the other
  bitness or a nested call returns (`mixed`, `nested` in `Resident`).
- A client that could not be set up makes the assert of `entry` fail when it ends
  (`refused`).

## 7. Not modelled, and what is next

`Startup` (`startup.c`) runs once, before there is any state, and ends or stays: a line of
host calls with early returns. Build files, headers and the register layout have no state.

Modelled in part, and what a next step would take:

1. The stacks that `mouse_callback` and its return handler build and take down, and the
   register structure that the three callbacks of a set share (`callbacks.c:349`): two
   nested mouse events over one structure, an event for a selector that is rejected.
2. Failures of the EMS driver, whose answers `prepare_ems_frame` drops.
3. The far call through `cseg32_16`, which an earlier 16 bit client may find to be gone.
