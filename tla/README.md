# TLA+ specification of pciebench-netfpga

pciebench-netfpga measures PCI Express.  An FPGA design sends memory reads and
writes to the memory of a host; a Linux driver and a benchmark program tell it
what to send and read back how long it took and how much was moved.  A wrong
count, a tag released too early or an operation that ends before its last
completion does not crash anything: it makes a measurement silently wrong.

This directory holds TLA+ models of the design and of the driver, translated
from the sources, with TLC runs over small instances and TLAPS proofs for every
size.  Paths below are relative to `src/`.

## 1. The system

```
 benchmark.c, rwBar.c   user programs            Middleware, RwBar, NfpDriver, DmaSoftware
   | calls
 middleware/ init.c transfer.c huge_page.c       Eal, Etoi, HugePage, Middleware
   | ioctl, mmap, /dev/hugepages
 nfpioctl.c nfpmem.c nfpdma.c nfp.c   driver     NfpDriver, HugePage, MmapRing, NfpProbe
   | reads and writes of BAR0 / BAR2
 pcie_completer_to_bram   pcie_to_axi_reg_...    RegisterAccess, AxiRequester
   | memory interface
 dma_engine_manager  registers, descriptors      DmaEngineManager, DmaLogic
   | VALID_ENGINE, SIZE, TLPS, WINDOW   ^ END_OF_OPERATION, statistics
 dma_rq_logic  requests --RQ--> host             DmaRqLogic, DmaAddress
 dma_rc_logic  <--RC-- completions               DmaRcLogic
```

| component | state | operations | what is hard about it |
|---|---|---|---|
| requester, `FPGA/source/hdl/dma/dma_rq_logic.v` | state machine, busy tags and their sizes, TLP and pass counters, 16-word circular buffer, RQ output registers, statistics | start, write header and data, read request, wait for completions, end | registers that lag each other by a cycle; back pressure at any beat; size of the next TLP computed in three places |
| address generator, same file | address of each mode, pipeline of the random address | one step per clock edge | pipeline latency against a descriptor that changes; page boundaries |
| completion logic, `dma_rc_logic.v` | words counted per tag, "count exceeded" bit, latched tag | one RC beat per edge | completions split and interleaved at will |
| engine manager, `dma_engine_manager.v` | control register, descriptor and statistics memories, active and last index, VALID_ENGINE | register write and read, end of operation | three different latencies from a write to the requester; a second index kept by the driver |
| completer, `pcie_completer_to_bram.sv` | request latched, state machine | read, write, unsupported request | an acknowledge without a tag |
| AXI requester, `controller/pcie_to_axi_reg_requester.sv` | two state machines, five FIFOs | request, completion | data and descriptors joined across two clocks |
| IOCTL interface and registration, `HOST/driver/nfpioctl.c`, `nfpmem.c`, `nfpdma.c` | semaphore, registered buffer, pinned pages, descriptor count | seven commands | early returns, signals, time-outs, several processes |
| huge page buffer, `HOST/middleware/huge_page.c`, `nfpmem.c` | the file all programs share, frames of the pool, pins, table of page addresses | open, map, register, unregister, unlink | programs that are killed between two steps; an address computed in units of three sizes |
| kernel buffer, `nfpioctl.c` | ring of pages | mmap, close, fork | indices moved by whoever closes, and without the semaphore |
| binding, `nfp.c` | what the driver holds of the device | load, probe, remove, open, release, suspend, resume | every step of probe may fail |
| register tool, `HOST/user/rwBar/rwBar.c`, `reg.c` | command line, memory operation, BAR pointers | parse, read or write one register | number formats; conversions to narrower types |
| benchmark, `HOST/user/benchmark/benchmark.c` | loop over descriptors | register, window, write and read descriptors, unregister | its own index, separate from the driver's and the engine's |

`PROJECT.json` lists all the parts (`components`), the lines each definition
stands for (`map`) and the hazards met in the code (`hazards`).

## 2. Modules

Layer 1, the data path.

* `DmaTags` declares what requester and completion logic share (tags, limits).
* `DmaRqLogic` and `DmaRcLogic` are the two Verilog modules, a variable for
  each register an output depends on, and one `...Edge` operator per `always`
  block.  `RqEdge` and `RcEdge` are a rising edge of each.  The two time
  counters the benchmark reads are represented by whether they count this edge
  (`current_latency_counts`, `time_comp_counts`).
* `DmaTransfer` puts both on one clock.  The ports of the manager follow a
  contract (`ManagerEdge`: nothing moves while an operation runs, VALID_ENGINE
  rises only when everything derived from the ports has settled).  The PCIe
  core and host memory are external: TREADY is arbitrary, and requested words
  come back in completions of any split, in any order between tags.
* `DmaAddress` is the address generator, separate because it only reads the
  state of layer 1.  It models one of the two equal halves (read and write).

Layer 2, the whole core with its software.

* `DmaEngineManager` is the manager.  `DmaSoftware` is what drives it, one
  register access at a time (`SetWindowSize`, `WriteNumberOfTlps`, ..., `Poll`,
  `ReadStatus`), and `DmaLogic` puts both on one clock with the same `RqEdge`
  and `RcEdge`.
* **Refinement.**  `DmaLogic` instantiates `DmaTransfer` with the real outputs
  of the manager for `ports`; `DataPathContract == T!Spec` says that the
  composed system implements layer 1.  What is shown or proved of layer 1 under
  the contract therefore holds with the real manager.

The paths from the host: `RegisterAccess` (BAR0: completer, acknowledge and
read path of the manager) and `AxiRequester` (BAR2).

The driver and the programs above it are three compositions, each with what its
questions need.

* `NfpDriver`: semaphore, registration and descriptors.  A process is at `user`,
  `down`, `copy`, `work`, `poll` or `up`, the points of `nfp_ioctl` between
  which another process can run, or at `oops`, dead inside after a division by
  a page size of zero.  Nothing keeps benchmarks apart: they overlap, register
  over each other and quit without unregistering.  Two history variables say
  what has happened: `lost` counts the lists of pages a registration wrote
  over, and `orderly` holds until a benchmark meets another one or what it left.
* `Middleware` runs programs on a buffer of huge pages or of kernel pages; `pc`
  is the next step of each program.  Below it are `Eal` (device and log of a
  process, `init.c`), `HugePage` (the shared file, its frames, `reg_hugemem`
  with its pins and the table `page_address`, and the arithmetic of an address)
  and `MmapRing` (`mmap_kmem` split at `remap_pfn_range` and where it reads and
  writes `last`, `mmap_close` where it reads and writes `first`).  Programs
  fork, are killed and have IOCTLs interrupted; `Restart` reloads the driver.
* `RwBar` runs the register tool on a card that is bound and unbound meanwhile.
  `Etoi` is its number parser, over characters that are digits, `x`, a separator
  or anything else, next to the meaning its comment gives to each format;
  `NfpProbe` is the binding, one action per step of `nfp_probe`, where a failing
  step takes the code's label.  `clean` holds while only failures have happened
  that `nfp_probe` undoes and reports (`kmalloc`, `nfpioctl_probe`); `stale` are
  the files that were open when the card was freed.

Proofs are in modules of their own: `DmaTransferProofs` (types, write path,
volume and statistics), `DmaReadProofs` (read path and measured time),
`DmaSoftwareProofs` and `DmaLogicProofs` (the core with its software, and the
refinement), `HostAccessProofs` (driver, register access, AXI), `RwBarProofs`,
`MiddlewareProofs` and `MmapRingProofs`.

`MC*` modules and `.cfg` files give the constants their values.  Operators
commented "Mutant" are plausible mistakes in the definition below them; they
are used only to see that each property notices one.

Data is abstracted as follows.  Payload is counted in words; a word has no
contents.  A completion header is its tag and its length.  A register value is
kept where a property compares it.  Counters keep their width where they can
wrap (`CountLimit`, the four-bit remainder of the write path).  A read of a
block memory at the address being written returns the old or the new value.

## 3. What the runs check

Twelve runs; all finish in less than three minutes with two workers.

| run | checked | bounds |
|---|---|---|
| `dma_read` | A tag is reported complete only when its last word is in, is busy as long as anything of it is outstanding, at most WINDOW requests are in flight, a read ends only when everything has arrived and does end, volume and statistics are those the benchmark divides by, the time counters run while a word is missing, and the inductive invariant of section 5. | 3 tags, windows 1 to 3, requests up to 8 words (two beats), answers split after 3 or 6 words, operations of 1 to 4 requests in passes of 1 to 3, resets between operations |
| `dma_write` | Beats after a header bring exactly the words announced, TLAST where it belongs, the statistics published lack at most the beat that still waits in the RQ registers, the circular buffer neither overflows nor underflows, and every operation ends. | payload 16 words, so the four-bit remainder wraps as in the build; 0, 1 or 2 words offered per cycle; passes of 1, 6, 12, 17 and 23 words; a circular buffer of 8 words that takes data up to a level of 4, the margin of the build (16 and 12), which passes as well in three minutes |
| `address` | Requests stay in the buffer and in a page. | pages of 16 words, buffer of 4 pages, TLPs of 4 words, sizes of 1, 3, 5 and 20 words, that is below and above a TLP and above a page; two random numbers, one in the last page; the last change of the descriptor six cycles before the start (`Settle`, see below) |
| `dma_logic` | The engine runs what was written, with the size of the active descriptor; the status read is that of the operation just made; the poll ends; the driver returns from a read only when nothing is left; the contract of layer 1. | 2 descriptors (the index wraps), 3 tags with a window of 2, a read of three TLPs, a mixed and a write operation |
| `registers` | A read is answered, with a value its register has held since. | 2 descriptors, control values, statistics and the common block told apart |
| `axi` | A completion carries tag and data of a pending read; addresses and data stay in step with the descriptors; a read made alone is answered. | 3 tags, 2 addresses, writes with one of the tags (`Posted`), FIFOs of two elements, which three reads fill |
| `driver` | One IOCTL at a time; under a registration an operation in flight goes to pages that are pinned, and to those of its own program unless benchmarks have met; every pin is on the driver's list or on one written over. | 3 processes, two with huge pages (symmetric) and one with the kernel's buffer; benchmarks overlap and quit at will, two registrations of a process at a time (`MaxPins`), failing copies |
| `driver_live` | Every IOCTL returns, with signals, failing registrations, time-outs and early exits switched on, unless a process dies inside. | 2 processes, one with and one without huge pages, one registration each at a time |
| `middleware` | When no program uses huge pages the whole pool is free; a descriptor reaches the bytes it names in the program's own, pinned frames; no kernel page is mapped twice; the ring accounts for exactly the mapped pages while all of them lie in the pool; mappings lie in the allocated pages until the ring has gone round. | 2 processes (symmetric), 2 frames of 8 bytes, system pages of 4 bytes, both sizes of huge page, buffers of 1 page, 2 pages and all free pages; ring of 4, mappings of 1 and 3 pages, up to 3 alive, a child; one kill, fork or interrupted IOCTL; reloads of the driver |
| `rwbar` | While `clean`, an unbound device holds nothing, a bound one is ready, a file has a card behind it unless it is `stale`, and the register touched is the one on the command line, through a BAR that is mapped. | 2 processes (symmetric), 2 optional BARs, every step of `nfp_probe` may fail, the card may be removed under an open file; words of 8 bits, digits of 2 bits in groups of 2, a char of 4 bits; 4 spellings of an offset and 3 of a BAR, and the parser alone on every string of up to six characters |
| `driver_signal` (violated) | One IOCTL at a time, with signals. | 2 processes |
| `dma_read_grow` (violated) | A read operation ends, with a window that software enlarges. | 2 tags |

The instances are small and the interesting cases occur in them: tags run out
and are reused, completions of two tags interleave in each cycle of the
pipeline, the descriptor index wraps, the ring wraps and is full, FIFOs are
full, the pool is exhausted, a program is killed between any two of its steps.
The structure does not change with more tags, descriptors or processes; for all
but addresses and liveness the proofs of section 5 make this precise.

`Settle` stands for the time the register writes of the driver take.  The block
size of a random address follows SIZE_AT_DESCRIPTOR through three registers, and
two more until an address uses it, so that an operation must not start sooner
than six cycles after the size has changed: with `Settle = 5` TLC finds
`InOnePage` violated.  Between the two the driver writes the control register,
the last index and the control register again (`nfpdma.c:82` to `104`).  With
writes g cycles apart this is about 3g - 3 cycles; the completer allows g = 2,
and six cycles are writes at least three cycles apart.  Nothing in the source
guarantees this; a write over PCI Express takes longer.

Deadlock is checked in every run but `driver_live`: the clock always ticks, and
a process can always make another call.  In `driver_live` a process that dies
inside `nfp_ioctl` keeps the semaphore, and the others wait for ever.

### Fairness

* `DmaTransfer`, `DmaLogic`: weak fairness of an edge with TREADY, of an edge
  with a completion while one is due, and of an edge with data from the FIFO.
  The PCIe core must accept, the host must answer, and `app` offers data
  whenever it may.  In `DmaLogic` also of an edge at which the software makes
  its next access: the poll loop does not stop by itself.
* `RegisterAccess`: the clock runs, and a completion offered again and again is
  taken at last (strong, because TREADY may come and go).
* `AxiRequester`: the same for its two clocks and the slave.
* `NfpDriver`: the engine ends an operation (what `OperationEnds` shows), a
  process inside `nfp_ioctl` is scheduled, and a semaphore that is released
  again and again is obtained at last (strong; the kernel's queue is first
  come, first served).

### The two violations

* `driver_signal`.  `nfpioctl.c:117` releases the semaphore when
  `down_interruptible` returned because of a signal, without having taken it.
  Its count becomes two, and two IOCTLs run at once; `nfp.c:220` says "We accept
  one IOCTL operation per time."
* `dma_read_grow`.  Tags at or above the window are forced busy
  (`dma_rq_logic.v:1187`) and only a completion clears a tag.  After the window
  has been enlarged the new tags stay busy and WAIT_READ waits for ever;
  `nfpdma.h:88` speaks of adjusting it "dynamically".  `restart.sh` before
  every benchmark hides this.

## 4. Other disagreements

Each line names a property and the change to the constants of the run's `.cfg`
(or to the property) under which TLC finds it violated.  They delimit what the
passing runs and the theorems assume.

| property | change | what happens |
|---|---|---|
| `EndOfReadMeansAllReceived` (`dma_read`) | `IdleTags = {0, 1}` | `dma_rc_logic.v:172` latches the tag from TDATA also when TVALID is low; if the idle bus shows a tag that has not been used yet, a one-beat completion of another tag completes it and the operation ends early ("Wait for all the TLPs", `dma_rq_logic.v:733`) |
| the same | `ResetMidFlight = TRUE` | a user reset with completions due: old words are counted for new requests (`dma_logic.v:160`) |
| `WaitIsMeasured` (`dma_read`) | `ports.TLPS <= boundaries.rd_even` as the condition | the j lower latency tags are compared with a 32-bit -1 (`dma_rq_logic.v:1250`; the busy tags use `{j{1'b1}}`), so only tag 0 ever has a latency bit ("asked tags (memory read) that hasnt been received yet", `dma_rq_logic.v:1204`).  In an operation of one whole pass of two or more requests, which is what the latency test makes of a size that is a multiple of the read request size (`benchmark.c:375`), `time_comp_r` stops when tag 0 is complete ("Time attending completion TLPs", `ioctl_commands.h:91`).  With `j >= 32` dropped from `LatencyTagsEdge` the property holds there too |
| `WriteStatisticsLackOneBeat` (`dma_write`) | without the beat that waits | a write publishes its bytes while the last beat may still wait for TREADY (`dma_rq_logic.v:716`, "Bytes involved in request TLPs", `ioctl_commands.h:92`) |
| `WriteVolumeAsCounted` (`dma_write`) | `Operations <- PartialPassOps` | a write looks at the TLP count at the end of a pass only, the benchmark divides by the count (`dma_rq_logic.v:636`, `benchmark.c:386`) |
| `PageChanges` (`address`) | `Modes = {"RAN"}` | step 4 compares an offset with an absolute address (`dma_rq_logic.v:357`) |
| `SeqContiguous` (`address`) | none | the sequence goes round in the first page ("contiguous positions", `benchmark.c:140`) |
| `FixSameAddress` (`address`) | none | the first pass ignores the offset ("always to the same address", `benchmark.c:139`) |
| `InOnePage` (`address`) | `Settle = 5` | the operation starts before the block size of the random address has followed the size (`dma_rq_logic.v:370`) |
| the same | `Sizes = {9}` | the second address of a sequence is not tested; above half a page it crosses the boundary (`dma_rq_logic.v:442`, `benchmark.c:404`) |
| `UsesActiveDescriptor` (`dma_logic`) | `Chaining = TRUE` | between two queued descriptors VALID_ENGINE rises one cycle before the new size has arrived (`dma_engine_manager.v:253`) |
| `RunsWhatWasWritten` (`dma_logic`) | `RestartFirst = FALSE` | a second run starts at index 0, the engine goes on where it was (`README.md:215` calls the restart recommendable) |
| `ReturnMeansComplete` (`dma_logic`) | `MayTimeOut = TRUE`, or without `request.s2c` | after the time-out, and after a write whose last beat is blocked, the driver unmaps the buffer and returns 0 ("completed successfully", `nfpdma.h:70`) |
| `ReadReturnsItsRegister` (`registers`) | `ReadAfterWrite = {"engine", "stats"}` | a read of statistics right behind a posted write takes the acknowledge of the write (`pcie_completer_to_bram.sv:179`) |
| `ReadsAnswered` (`registers`) | `"below"` in `ReadKinds` | a read below the engine table is never acknowledged (`dma_sriov_top.v:200`) |
| `OneIoctlAtATime` (`driver`) | `MayNotMap = TRUE` | a failing registration releases the semaphore twice (`nfpmem.c:162`) |
| `IoctlReturns` (`driver_live`) | without `oops` | after a registration that failed the buffer has a pointer and a page size of zero; the next descriptor is divided by it (`nfpioctl.c:172`, `nfpioctl.c:185`) with the semaphore taken |
| `DmaTargetPinned` (`driver`) | without `buffer.length` | `virtual` and `page_address` outlive the registration (`nfpmem.c:177`, `nfpioctl.c:170`): a benchmark whose pages another one has released, or one with the kernel's buffer, is sent to pages that are not pinned |
| `DmaTargetOwn` (`driver`) | without `orderly` | descriptors go to whichever buffer was registered last |
| `PinsTracked` (`driver`) | without `lost` | a second registration writes over the list of pages, and nobody releases them any more (`nfpmem.c:160`) |
| `DmaTargetPinned` (`driver`) | `MayTimeOut = TRUE` | pages are released with the operation in flight ("for the duration of the DMA transfer", `nfpmem.c:75`) |
| `DescriptorHitsBuffer` (`middleware`) | without `gigantic \/ ...` | huge pages of 2 MB are announced as 2048 bytes (`huge_page.c:99`, "size: 2MB or 1GB", `huge_page.h:79`), and with a size below the system page every entry of the table is that of page 0 (`nfpmem.c:112`) |
| the same | without `holder = p` | the address is translated under whichever registration is in force (`nfpioctl.c:173`) |
| `PoolReturned` (`middleware`) | without `clean` | a killed program, an interrupted IOCTL or a second registration leaves pins and the file name behind |
| `MappingsDisjoint`, `RingMatchesMappings` (`middleware`) | without `orderly` | two processes inside at once, a fork or a close out of order: `mmap_close` frees the front of the ring whatever is closed (`nfpioctl.c:221`) |
| `RingMatchesMappings`, `InsidePool` (`middleware`) | without the mappings in the pool, without `made < MAX_PAGES` | a mapping near the end of the ring continues behind the allocated pages (`nfpioctl.c:265`) |
| `UnboundMeansFree`, `BoundMeansReady`, `OpenFileHasCard` (`rwbar`) | without `clean` | five failures return zero; `err_out_disable_device` does not free the card; a failing write of the read request size is not noticed (`nfp.c:204`, `nfp.c:311`, `nfp.c:191`) |
| `OpenFileHasCard`, `AccessAsAsked` (`rwbar`) | without `stale` | nothing keeps the card while a file is open: after `nfp_remove` the file points to freed memory (`nfp.c:325`, `nfpioctl.c:53`) |
| `AccessAsAsked` (`rwbar`) | without `Meaning(c.bar) < CHARS` | `bar` is a char, so 256 is BAR0 |
| reads in `axi` | two at a time | the FIFOs are popped while a completion is being sent, and the second answer is lost (`pcie_to_axi_reg_requester.sv:346`); the driver reads one register at a time |

Seen while reading, without a property of their own:

* `first`, an index of pages, is added to an address in bytes (`nfpioctl.c:171`).
* `page_address` has 16 entries and the number of pages is not compared with it
  (`nfp_types.h:162`); `MiddlewareAssumption` excludes larger buffers.
* A second call of `rte_free` logs to a stream that is closed (`init.c:90`), and
  `unsetHugeFreePages` ignores its address (`transfer.c:112`).
* `hugepage_size` looks at which directories exist, not at what is mounted
  (`huge_page.c:92`), and its 0 for no huge pages is not tested; `HugePage`
  leaves both out.
* All programs use the file `/dev/hugepages/test` (`huge_page.h:45`); `HugePage`
  models what follows from it.
* `readArguments` with one argument reads a second one, and -1 from `etoi`, its
  error, is used as a number; the usage text calls BAR1 "the BAR0"
  (`rwBar.c:65`).
* `pci_set_payload(128)` never changes the payload ("the maximum possible",
  `nfp.c:97`).
* With all free huge pages as the buffer, `benchmark.c:337` takes the number of
  free pages after the allocation for its size.

## 5. What is proved

TLAPS checks these for every value of the constants that satisfies the named
assumptions, which TLC evaluates on the instances of the runs: `TagsAssumption`,
`RqAssumption`, `RcAssumption` and `TransferAssumption` for the data path, with
`ManagerAssumption`, `SoftwareAssumption` and `LogicAssumption` for the core,
`DriverAssumption` for the driver, `RegisterAssumption` and
`RequesterAssumption` for the register paths, `ProbeAssumption` and
`ReadAsMeant` for the register tool, `HugeAssumption`, `MiddlewareAssumption`
and `RingAssumption` for the middleware.

| theorem | module | establishes |
|---|---|---|
| `TypeCorrect` | `DmaTransferProofs` | all registers keep their types, with resets at any time |
| `PathInvariant` | `DmaTransferProofs` | `PathInv` is invariant |
| `WritesWellFormed` | `DmaTransferProofs` | the beats after a write header bring exactly the words it announces |
| `BufferBounded` | `DmaTransferProofs` | the circular buffer neither overflows nor underflows, for any size and any level two words below it |
| `WriteStatistics` | `DmaTransferProofs` | a write publishes the words it sent but for one waiting beat |
| `ReadVolume` | `DmaTransferProofs` | a read has requested the volume the benchmark divides by |
| `ReadInvariant` | `DmaReadProofs` | `ReadInv` is invariant |
| `CompletionCorrect` | `DmaReadProofs` | a tag reported complete has nothing outstanding |
| `TagsNotReused` | `DmaReadProofs` | a tag with anything outstanding is busy |
| `CountsCorrect` | `DmaReadProofs` | words counted and words due add up |
| `WindowCorrect` | `DmaReadProofs` | nothing is outstanding outside the window |
| `EndOfReadCorrect` | `DmaReadProofs` | a read ends only when everything has arrived |
| `MeasurementCorrect` | `DmaReadProofs` | while a word is missing the latency counter runs, and `time_comp_r` too in operations of one request or of less than a pass |
| `ReadStatistics` | `DmaReadProofs` | a read publishes every word it put on RQ and every word that came back |
| `RunsTheRequest` | `DmaLogicProofs` | the engine runs the descriptor the driver wrote last |
| `RunsTheActiveDescriptor` | `DmaLogicProofs` | with the size the memory holds for the active descriptor |
| `ReadsTheStatistics` | `DmaLogicProofs` | the status read is that of the operation waited for |
| `KeepsTheContract` | `DmaLogicProofs` | `DmaLogic` implements `DmaTransfer` |
| `ReadPathOfTheCore` | `DmaLogicProofs` | `ReadInv`, the end of a read and its statistics, in the whole core |
| `WritePathOfTheCore` | `DmaLogicProofs` | write TLPs, buffer, statistics and volume, in the whole core |
| `ReturnsComplete` | `DmaLogicProofs` | when the driver returns from a read nothing of it is left |
| `IoctlsExclude` | `HostAccessProofs` | at most one process is inside `nfp_ioctl` |
| `RegistrationIsSound` | `HostAccessProofs` | under a registration operations go to pinned pages, however benchmarks overlap |
| `TargetsAreOwn` | `HostAccessProofs` | and to those of the process that started them, while no benchmark has met another |
| `PinsAreTracked` | `HostAccessProofs` | every pin is on the driver's list or on one written over, whatever fails |
| `ReadsAreTrue` | `HostAccessProofs` | a read of BAR0 returns a value its register has held since |
| `FifosInStep` | `HostAccessProofs` | data and addresses line up with the descriptors, no FIFO overflows |
| `CompletionsMatch` | `HostAccessProofs` | a completion of BAR2 carries tag and data of a pending read |
| `WaitsEndRightly` | `HostAccessProofs` | (action property) a wait ends only by its own answer |
| `LadderInvariant` | `RwBarProofs` | the step `nfp_probe` has reached determines what is held |
| `EverythingReleased` | `RwBarProofs` | while `clean`, an unbound device holds nothing and is not enabled |
| `ReadyWhenBound` | `RwBarProofs` | while `clean`, a bound device has everything the driver needs |
| `CardBehindFile` | `RwBarProofs` | while `clean`, an open file that is not `stale` has a card behind it |
| `AccessThroughMappedBar` | `RwBarProofs` | `rwBar` touches what it parsed, while `clean` and not `stale` through a BAR that is mapped |
| `RwBarCorrect` | `RwBarProofs` | under `ReadAsMeant`, that is the register its command line names |
| `DescriptorsHit` | `MiddlewareProofs` | a descriptor reaches the bytes it names in the program's own, pinned frames |
| `PoolComesBack` | `MiddlewareProofs` | when no program uses huge pages the whole pool is free |
| `MappingsStayApart` | `MmapRingProofs` | no kernel page is mapped twice |
| `RingFollowsMappings` | `MmapRingProofs` | the ring accounts for exactly the mapped pages while all lie in the pool |
| `PagesFromPool` | `MmapRingProofs` | mappings lie in the allocated pages until the ring has gone round |

**Write path, statistics and volume.**  These four hold whatever the host does:
no condition on resets or on the idle bus.  `PathInv` has the parts

* `FsmInv` and `PresentedInv`: while an operation runs the ports and the
  boundaries computed from them hold still;
* `WriteInv`: the words still to come on RQ are those
  `mem_wr_remaining_words_r` counts down, and before a header that register
  holds what the header will announce.  The code computes this size in three
  places, one of them a cycle ahead, and the theorem says that they agree;
* `StatisticsInv`: the published words lag those on RQ by the beat that waits in
  the registers, from the first beat of an operation to its end;
* `VolumeInv`: the words requested so far are the benchmark's formula for the
  requests so far, and the position within a pass is the remainder of their
  number.  The step is `VolumeGrows`, arithmetic of quotient and remainder
  (`DivMod`, `DivModUnique`, `PassWords`, `NextOfPass`).

**The read path.**  The theorems on it assume `~ResetMidFlight` and
`IdleTags \subseteq {0}`; the first two lines of section 4 show that neither
can be dropped.  None of the five properties is inductive.  COMPLETED_TAGS is
computed from `is_tag_count_exceeded_r`, which is computed from `difference_r`,
which lags the counter by one cycle, so the invariant has to say what each of
these registers holds in every phase of a tag's life.  `ReadInv` has four parts:

* `FsmInv`: the state machine leaves IDLE only while VALID_ENGINE is high and
  the registers derived from the ports have settled;
* `StreamInv`: the completion logic knows whether a TLP is under way and of
  which tag, and the tag it remembers is 0 or one that has been used;
* `FirstUseInv`: tag 0 is the first to be used after a reset, which is what
  makes a stale tag 0 on an idle bus harmless;
* `TagInv(j)`: the life of one tag, free, request in the RQ registers, words
  due, last TLP arriving, reported.  While words are due the counter lacks
  exactly these, `difference_r` has caught up and the "exceeded" bit is low;
  when the last TLP is on its way the bit is high.

`DmaReadProofs` starts with what an edge does to the busy set, the sizes, the
counters and the host side of one tag, shows that a clock edge preserves
`TagInv(j)` by cases on the phase of the tag and on the beat, does the other
parts and the reset, and combines them.

`MeasurementCorrect` rests on `ReadInv` and on `MeasureInv`: the counters are
stopped only when no tag is busy or about to be used (`ClockInv`); in an
operation of one request, tag 0 has a latency bit whenever it is busy
(`LatencyTagInv`); and an operation shorter than a pass never leaves its first
pass (`PassInv`).

`ReadStatistics` rests on all of these and on a balance, `AnswersInv`: what
`bytes_comp_r` has counted, the rest of the completion TLP under way, the words
owed for all tags and the request that waits in the RQ registers add up to the
words requested and three words of header for each completion.  The words owed
are a sum over the tags, on which the provers have no induction; they are
counted as the elements of the set `OwedWords` of pairs of a tag and one of its
words, which a request enlarges and a completion reduces (`OwedMore`,
`OwedStep`).  At the end nothing is owed or waits, and the balance is the
property.

**The core with its software.**  `Discipline` is how the engine is used: a
restart before every run, one descriptor at a time, polled to its end without a
time-out, more than one descriptor, and at least one cycle between two register
accesses, which the completer's states guarantee.  Section 4 has what happens
without the first three; with a single descriptor the active index would not
change at the end of an operation, by which the phase `Ended` is told apart.
`LogicInv` says where the software is, which phase the engine is in (`PhaseInv`:
off, armed, running, ended) and how far each value has come on its way: the
indices of benchmark, driver and engine (`IndexInv`), the size through port,
memory, latch and output register (`SizeInv`), the other ports and the
boundaries (`PortsInv`), the window and its masks (`WindowInv`), the statistics
back to the memory (`StatsInv`).  From it `KeepsTheContract` shows that each step
of `DmaLogic` is a step of `DmaTransfer` or a stutter.  `ReadPathOfTheCore` and
`WritePathOfTheCore` carry the theorems of layer 1 over; the former needs
`IdleTags \subseteq {0}`.  A run of the software starts with a restart
(`NewRun`), which `DmaLogic` takes only when nothing is under way; this is the
condition `~ResetMidFlight` of layer 1.  After a read polled to its end nothing
is (`ReturnsComplete`); after a write the restart waits for its last beat.
`ReturnsComplete` adds `DrainInv`: only
read requests can wait for TREADY at the end of a read.

**The driver.**  `Kept` says that a registration is in force exactly while the
driver's list holds pages, that pointer and table then name their buffer, and
that pins are tracked; it is inductive without any condition and gives
`PinsAreTracked`.  `Exclusion` (the semaphore is binary, and whoever is inside
holds it) needs `~MayInterrupt` and `~MayNotMap`.  The other two theorems need
`Quiet`, which adds `~MayTimeOut`; benchmarks of both builds overlap and quit at
will.  `InFlight` says that an operation belongs to the process in `poll`, and
goes to the pages on the list while there are any: by `Exclusion` nobody can
unregister meanwhile.  `Turns` says whose turn it is while `orderly`.  TLC checks
the instances of `driver`; section 4 shows what each condition excludes.

**Register access.**  An acknowledge has no tag, so the property rests on which
acknowledges the pipeline can hold in each state of the completer
(`NoStrayAck`), on the request it works on (`RequestHeld`), and on the value
being one of those on record as far as the acknowledge has come (`OnRecord`).
`ReadAfterWrite \subseteq {"engine", "ctrl"}` excludes the read of statistics
right behind a write (section 4).

**AXI.**  `RequesterInv` says, for any depth of the FIFOs and any number of tags,
that addresses and data on their way line up with the descriptors that wait
(`InStep`), that every tag inside belongs to a read the host waits for
(`TagsPending`) and that none is at two places (`TagsApart`).

**Binding and the register tool.**  `Ladder` says, for each step of `nfp_probe`,
exactly what is held, how often the device is enabled, whether it points to the
card and which read request size is set: none of the four properties mentions
the steps in between, and each needs them.  It is claimed while `clean`, that
is, while only steps have failed that `nfp_probe` undoes.  `RwInv` adds that a
program that has touched a register has the device open, so that it becomes
`stale` when the card is freed (`Orphans`), and that it touched what it parsed.
This much is `AccessThroughMappedBar`.  `RwBarCorrect` goes from there to the
numbers on the command line by `ReadAsMeant`, an assumption: what `etoi`
computes is a fold over a string, on which the provers have no induction.
`MCRwBar` evaluates it for every string of up to six characters, and TLC finds
it true there.

**Huge pages.**  `DescriptorsHit` holds with kills, interrupted IOCTLs, reloads
of the driver and overlapping registrations.  `MwInv` has `Types`; `BuildInv`
(programs of the two builds do not mix); and for each program `ProcInv(p)`.  Its
core is `Describes(p)`: while the registration in force is p's and p is in its
loop, the driver's table has the frames of p's mapping in their order and each
of them is pinned.  That the registration still describes the mapping when
other programs open, shrink and unlink the same file follows from `FileCovers`
(a mapped file keeps the frames it had), and that a program that has not
registered yet is never the holder from `Early`.  `Translates(p)` records the
address the engine was given.  The rest is arithmetic on pages: a request
inside one huge page has all its bytes at the same distance from the start of
one frame.

`PoolComesBack` rests on `LeakInv` besides.  A file that has frames is in use,
and a program has nothing of it before it opens it (`FilesInv`); the name of the
file is there for a program that will remove it (`NameInv`); exactly the pages
of the registration in force are pinned, once, and its program has the device
open (`PinsInv`), so that the driver cannot be unloaded over a pinned page.  The
last two are claimed while `clean`: a kill, an interrupted IOCTL and a
registration over another one leave something behind, and section 4 has them.

**The ring.**  While the programs are `orderly` (one inside at a time, no child,
closes in the order of the mappings) the mappings lie one behind the other in
the `u` slots from some slot `f` on and leave none out (`OrderInv`); `first` is
`f` and `last` is `f + u` on the ring except inside a call, where `CallInv` says
which of them has been read and not yet written.  `PagesFromPool` needs no order:
`PoolInv` bounds `last` plus the pages mapped and not yet counted (`Owed`, a
cardinality) by the pages handed out.

**Model-checked only.**

* Liveness (`OperationEnds`, `PollEnds`, `ReadsAnswered`, `ReadAnswered`,
  `IoctlReturns`): fairness and ENABLED are out of the prover's reach.
* `InOnePage` and `InBuffer`: they hold for the sizes of the run only (section 4
  has a size for which they do not), and in random mode for page and TLP sizes
  that are powers of two.
* What `etoi` computes, a fold over a string (`ReadAsMeant`).

## 6. Not modelled

* `time_req_r` of the requester, which the benchmark does not use
  (`dma_rq_logic.v:1284`), payload contents, and the debugging outputs.
* The interrupt generator of `dma_sriov_top.v`, which nothing enables.
* The flow-control gate of `pcie_controller` on TREADY: TREADY is arbitrary.
* Generated cores, wiring and clocks (`pcie_benchmark`, `pcie_ep_wrapper`).
* The IOMMU mappings.  The huge page file system and `/sys` are external: they
  are modelled by how `huge_page.c` and `nfpmem.c` use them.
* Argument parsing of `benchmark.c`, cache warming and output of the programs;
  scripts.

## 7. Plan

Order in which the models were built: data path, its proofs, manager and
composition, addresses, register paths, driver, binding, middleware with the
ring and the huge pages, register tool, time counters.  What comes next:

1. An abstract specification of a transfer (requested, received, ended) that
   `DmaTransfer` implements.
2. Conditions on the sizes under which addresses stay in a page and in the
   buffer, and a proof of them.
3. Boundaries of the benchmark: the window of 32 accepted against the tags of
   the build, `number_of_tlps` rounded down (`benchmark.c:375`), the index past
   the last descriptor (`benchmark.c:360`).
4. The credit gate of `pcie_controller`, and random addresses under chained
   descriptors.
