# Formal models of the RGBSetMeFree accelerator

RGBSetMeFree is a processor and an image-filter unit ("FPU") in one FPGA
function (AFU) behind Intel's CCI-P interface: a five-stage 32-bit CPU with
interrupts, two caches, a DMA engine, a memory controller with an arbiter, and
the filter unit with its own DMA.  Software on the host loads a program, writes
a few MMIO registers and starts it.  This directory models its control logic in
TLA+, checks it with TLC and proves the most important facts with TLAPS.

All paths below are relative to `src/project/hw/` unless they start with `src/`.

## 1. Inventory

| Component | State | Operations | Talks to | Hard behaviour |
|---|---|---|---|---|
| FIFO `fifo.sv` | RAM, two pointers, two counters, three flags, read port | read, write, reset | DMA engine | read and write in one cycle at empty/full; prefetch through a write-first RAM |
| DMA engine `cci_dma.sv` | remaining/pending counters, address registers, `c0Tx`, `c1Tx`, one delay flop | go, request, response, read, write | memory controller (`dma_if.vh`), CCI-P host | responses cannot be stalled; `c1Empty` is late; several assignments to one register per edge |
| Memory controller `memory/mem_ctrl.sv` | state, `fill_count`, line buffer, `bubble` | accept op, fill, host read, host write | arbiter, DMA engine | the host becomes full in mid-write; `go` may be ignored |
| Arbiter `memory/mem_arbiter.sv` | selected source, latched outputs | rotate, hold | I- and D-cache, FPU MMIO and DMA controllers, memory controller | latches for unselected sources, `tx_done` seen by sources it is not meant for, sources that withdraw their op |
| Cache `memory/cpu_cache*.sv`, `ram_block.sv`, `mem_system.sv` | tag/valid/dirty/data RAMs, state, registered request, latched outputs | hit, miss, write-back | fetch, memory stage, arbiter | synchronous RAM read, write-back of a dirty victim, outputs that some states do not assign |
| FPU DMA/MMIO controllers `memory/fpu_*_ctrl.sv` | state, request counter | burst read, burst write, mapped read | FPU, arbiter | op depends on a one-cycle pulse; shared `tx_done` |
| Request controller `FPU/FPURequestController.sv`, `FPURequestBuffer.sv` | state, address and row counters | request rows, write results | FPU controller, FPU DMA | `rd_wr` pulse, capture of late data |
| FPU controller, loader, buffers `FPU/*.sv` | state, column/row counters, bank selects, RAMs | load configuration, shift, filter, write back, flip | request controller, CPU (done is interrupt 0) | reading one bank while the other fills; pause and rewind with columns in the pipeline; last columns of a row; `done` before the last write |
| FPU arithmetic `FPU/FPUMAC.sv`, `FilterMAC.sv` | accumulators | multiply-accumulate, saturate | FPU controller | width and rounding |
| Interrupt controller `InterruptController.sv` | state, NoOp counter, IMR, IRR, ISR | latch request, prioritise, inject jump, clear | devices, CPU interrupt FSM | requests during service, clear of a changed ISR |
| CPU interrupt FSM `CPU_interrupt_fsm.sv` | state, NoOp counter, saved PC/LR/FL | drain, save, acknowledge, inject, restore | interrupt controller, fetch, decode | two NoOp counters that must agree, branches and stalls in flight, one save slot |
| CPU pipeline `cpu.sv`, `fetch.sv`, `decode.sv`, `execute.sv`, ... | PC, pipeline registers, register file, FL, LR | fetch, flush, stall, forward | caches, interrupt FSM | flush with stall, forwarding priorities |
| Memory map and HAL `memory_map.sv`, `hal.sv` | MMIO registers | go, address, size, done | host software | `go` is a one-cycle pulse; size is free |
| CCI-P glue `ccip_std_afu.sv`, `csr_mgr.sv` | interface registers | route | FPGA shell | none of its own |
| Host tools `src/class` | text, symbol tables | assemble, debug shell | AFU over MMIO | none (sequential) |
| Minilab TPU `src/minilab/hw` | systolic array | multiply | not part of the AFU | none of its own |

What makes each component correct, in a sentence: the FIFO is a queue; the DMA
engine moves exactly the lines asked for, in order, and says done when they
moved; the memory controller is a memory that answers each request once; the
arbiter gives every source in turn its own answers; the cache is
indistinguishable from memory; the FPU writes the filtered image and then says
done; an interrupt is transparent to the program and every request is served;
the pipeline computes what the instructions say.

`PROJECT.json` lists the components with their status, and under `hazards` the
places where this code is hard to test, each with the properties that guard it.

## 2. Plan

Order of work, most important behaviour first:

1. **Host memory path** (done): `Fifo`/`BoundedQueue`, `CciDma`, `DmaClient`,
   `MemCtrl`, `LineMemory`, `HostPath`.
2. **Interrupts** (done): `InterruptController`, `InterruptClient`,
   `CpuInterruptFsm`, `InterruptPath`.
3. **Arbiter and its sources** (done): `MemArbiter` and `FpuMmioCtrl` with
   `MemCtrl` in `ArbiterPath`; `FpuDmaCtrl` with the unit's request controller
   in `FpuPort`.
4. **Cache** (done): `CpuCache` against a perfect memory.
5. **Filter unit** (done): `FpuController`, `FpuRequest`, `FpuBuffers` in
   `Fpu`; `FilterMac` as functions.
6. **Instruction words** (done): `Instruction`, assembler against decode.

Every invariant, every action property and both refinements that the passing
runs check are proved as well; the liveness properties are left to TLC.

Abstract specifications: `BoundedQueue` (what `Fifo` is), `LineMemory` (what
the memory path is), and, as state predicates over a second memory,
the perfect memory of the cache and the reference image of the filter unit.

## 3. Modules and the code

One step of every module is one rising edge of `clk`.  Registers are variables
with the source's names; wires are operators that give the value in the cycle
before the edge; every always block is a conjunct of the step.  A register that
is assigned twice in one edge (`rd_addr_r`, `wr_addr_r`,
`cci_rd_pending_r`, ...) takes the later assignment, as in Verilog; blocking
assignments are nested.

| Module | Models | Remarks |
|---|---|---|
| `BoundedQueue` | the promise in the header of `fifo.sv` | a sequence, its visible head, and "not ready before the first edge after reset" |
| `Fifo` | `fifo.sv` | every register and the RAM; pointers wrap at `WORDS`, counters have one bit more |
| `CciDma` | `cci_dma.sv` | both channels; uses `BoundedQueue` for its FIFO, justified by the proof that `Fifo` implements it; host (MPF and FIU) external |
| `DmaClient` | the protocol of `dma_if.vh` | any client: go with any address and size, also during a transfer; history of what was asked |
| `MemCtrl` | `memory/mem_ctrl.sv` | one action per state and branch; outputs as operators |
| `LineMemory` | the promise of `mem_ctrl.sv` and of the comment at `tx_done` in `afu.sv` | one request, one step, one answer |
| `HostPath` | `afu.sv` 264-312 | `MemCtrl` wired to `CciDma`; a requester as the arbiter's comment describes it |
| `InterruptController` | `InterruptController.sv` | registers as sets of devices |
| `InterruptClient` | how `afu.sv` 177 and the test bench drive the controller | any request, any acknowledge |
| `CpuInterruptFsm` | `CPU_interrupt_fsm.sv` | FL stands for FL and LR, which are saved and restored on the same edges |
| `InterruptPath` | `afu.sv` 177, `cpu.sv` 353-430 and 807-814, `fetch.sv`, `FeDe.sv` .. `MeWb.sv` | an instruction is its kind and the flags or the address it gives; the instruction memory shows any word in any cycle |
| `MemArbiter` | `memory/mem_arbiter.sv` | the outputs to a source are latches, open while it is selected; `rd_valid`, which no source reads, is left out |
| `FpuMmioCtrl` | `memory/fpu_mmio_ctrl.sv` | `mapped_data_valid` is a latch, open in `BUSY` |
| `ArbiterPath` | `afu.sv` 202-289 | `MemCtrl`, `MemArbiter`, `FpuMmioCtrl` and the configuration loader's request; three requesters that keep their op until they see `tx_done` and may ask again at once; the model ends at the DMA engine's ports |
| `CpuCache` | `memory/mem_system.sv`, `cpu_cache_ctrl.sv`, `cpu_cache.sv`, `ram_block.sv` | latched controller outputs, synchronous RAMs; a line is one word |
| `FpuController` | `FPU/FPUController.sv`, `FPUControllerConfigurationLoader.sv` | a disjunct per state; registers that are set on `case(next)` and cleared otherwise are operators on the state |
| `FpuRequest` | `FPU/FPURequestController.sv` | likewise |
| `FpuBuffers` | `FPU/FPURequestBuffer.sv`, `ReadBank.sv`, `WriteBank.sv`, `Single_RAM.sv`, `FPUBuffers.sv`, the registers of `FilterMAC.sv` | a byte is its address in the image, a result the address of its window |
| `Fpu` | `FPU/FPU.sv`; software and DRAM as in `src/project/test/FPU/FPU_tb.sv` | the three above; the memory keeps the set of lines that hold what they should |
| `FpuFrame` | - | what the filter unit keeps in the course of an image: the invariant behind `RightLines` and `FrameComplete`, in parts; no state or action of its own |
| `FilterMac` | `FPU/FilterMAC.sv`, `FPUMAC.sv`, `calc_MAC` of the bench | integers with the wrap of each register's width |
| `FpuDmaCtrl`, `FpuPort` | `memory/fpu_dma_ctrl.sv`, `afu.sv` 190-200 | the request controller on the DMA controller of the design instead of the bench's memory |
| `Instruction` | `generic_mips32_encode` of `src/class/src/mips.cpp`, fields of `decode.sv` | masks, shifts and ors as remainders, products and sums |
| `MC*` | - | instances for TLC |
| `FifoProofs`, `DmaProofs`, `HostPathProofs`, `InterruptProofs`, `InterruptPathProofs`, `ArbiterProofs`, `FpuProofs` (control, arithmetic and frame), `InstructionProofs` | - | theorems |

Abstractions, and why they are harmless:

* **Data** are two model values.  No control depends on the content of a line
  or word.
* **Line addresses** wrap at `NLINES` instead of 2^42, so that increments meet
  the wrap.  `Plus` and the conversions of `cci_dma.sv` (dropping the low six
  bits) are on lines from the start.
* **Address wiring.**  `afu.sv` connects the controller's `raw_address` to
  `cpu_addr`, which is declared nowhere and therefore is an undriven implicit net (its own
  comment says "cpu_addr doesn't exist"); the arbiter's address goes to
  `DMA_Addr`, which is read nowhere.  In `HostPath` the line of a request is what
  the controller has on `raw_address`, whatever drives it.  As built that is one unknown
  line for every request, a special case of the requester modelled, so that the
  properties of the path hold for it too; but that a line is the one a source
  asked for is not stated, and would be false.
* **The host** answers reads in order (the MPF sorts them,
  `cci_mpf_app_conf.vh`), commits writes in any order, delays both as long as it likes and
  raises its almost-full flags at any time, at the latest when `MaxWrites`
  writes are in flight.  `c1Empty` falls as soon as the write has left the
  engine's registers; the delay flop covers the cycle before.
* **Transfers of one line** in `HostPath`: `src/class/src/mmem.cpp:135` and
  `shell_cload.cpp:196` write 1 to `MMIO_SIZE`, and the controller moves one
  line per op.  `DmaClient` has any size.
* **Instructions** are kinds: `OP` writes the flags, `BR` is a taken branch,
  `RIN` returns, `J` is the injected jump.  A branch that is not taken goes
  through the pipeline like a `NOOP`.  Operands, results,
  forwarding and the register file do not influence the interrupt logic.
* **Fetched words.**  `fetch.sv` takes its words from `mem_system`, whose
  controller drives `done` in `IDLE`, before it has looked at the address
  (`cpu_cache_ctrl.sv` 69-75), while `DataOut` still shows the access before: that
  word goes into FeDe without a stall, and the PC moves on.  So words are
  repeated and skipped, and the program is not executed in order even without an
  interrupt.  In `InterruptPath` the fetched word is therefore any word
  in any cycle, stalled or not, and no property is about program order.
* **Sources of the arbiter** keep op, address and data until they see `tx_done`
  ("they will be kept high", `mem_arbiter.sv` 53), and may ask again, or for
  something else, in the next cycle, as in the chart of `mem_arbiter.sv` 65-69.  The
  cache (its op is still `READ` after a
  read miss) and `fpu_dma_ctrl` (its op follows a one-cycle `fpu_ready`) may also
  drop or change a request half-way: what they do is in `CpuCache` and
  `FpuPort`, and the properties of `ArbiterPath` say nothing about that.
* **End of `ArbiterPath`.**  A read is known by the line it was fetched for.  A write
  counts as handed to the DMA engine, not as written: no source waits for
  `wr_done`, and the engine may drop it (`lost_write`).
* **Image bytes** in `Fpu` are known by their address, results by the address
  of their window: equal values never hide a wrong byte.  The filter's
  coefficients do not influence control.  Result rows are whole
  lines, as the demo pads its images (a partial last line spills into the row below,
  or behind the frame).
* **Memory of the filter unit** is the bench's: request and line
  handshakes with any delay.  `FpuPort` replaces it by the design's controller.
* **The cache's host** carries a line over in the cycle of `tx_done`, and an
  access is held until it is done.
* **Reset** of everything but the FIFO is the initial state.

### History variables

`rd_first`, `rd_total`, `wr_first`, `wr_total`, `expect` (`DmaClient`): what the
client asked for.  `seen` (`HostPath`): the values the requested line had in host
memory since the read was requested.  `overlap` (`HostPath`): some request was made
before the previous write was done.  `served`, `overtaken`
(`InterruptClient`): the device of the last jump, and whether a more urgent one
came after it.  `interrupted`, `main_fl`, `left` (`InterruptPath`): the injected jump
was taken and not returned from, the flags as the program wrote them, and the PC at which
the injection began.  `clean` (`InterruptPath`): no stall has so far
fallen into an injection.  `open`, `carried`, `overtaken` (`ArbiterPath`): whether a
source's request has seen `tx_done` low, what was read for it, and how many others
were answered meanwhile.  `filtered` (`Fpu`): the lines of memory that hold the right results.
`ref` (`CpuCache`): the perfect memory.  `kind` (`FpuPort`): what the present
request asked for.  None of them is read by the modelled code.

## 4. What the runs show

| Run | Instance | Shows |
|---|---|---|
| `fifo` | 3 words deep, RAM of 4, almost full at 2, two words | counters, flags and pointers agree (`Occupancy`), the read port is ahead of the reader (`ReadAhead`), the FIFO is a queue (`QueueSpec`) |
| `cci_dma` | FIFO 2, 3 lines, transfers of 0..3 lines, 2 writes in flight | a response always finds room (`NoOverflow`), no line is lost or left behind (`LinesConserved`), words come in order (`InOrder`), `wr_done` means written (`WrittenWhenDone`), transfers end (`ReadsFinish`, `WritesFinish`) |
| `host_path` | FIFO 2, 2 lines, offset 1, 2 writes in flight | the path is a line memory while the requester waits for `wr_done` after a write (`LineMemorySpec`); and for any requester: a read returns a value its own line had (`RegularRead`), nothing is left in the read channel (`ReadDrained`), writes cannot overtake (`OneWriteInFlight`), every request is answered (`RequestsServed`) |
| `lost_write` | the same | **violated**: `WriteTakesEffect` |
| `int_ctrl` | devices 0, 1, 2 with 1 masked | NoOps are always followed by a jump (`JumpForPending`), only served requests are forgotten (`ClearServedOnly`), the most urgent device is entered (`UrgentServed`) |
| `interrupts` | the one device `afu.sv` wires; two addresses, two values of the flags, any word in any cycle | the two machines keep step (`Handshake`), the pipeline is empty when registers are saved and restored (`PipelineCleared`), the flags survive a routine (`FlagsPreserved`), so do the saved registers (`NoNesting`), the fetch returns to where it was (`FetchResumes`), requests get in (`RequestEntersRoutine`) and the processor never hangs in an injection (`InjectionEnds`) |
| `interrupt_stuck` | the same | **violated**: `ServiceCompletes` |
| `arbiter` | three requesters with a read, a read or a write, and a write; the configuration fetch | a request that has seen `tx_done` low sees it high when its own transaction ends, with its own line or its own data handed on (`AnswerAfterLow`); the controller sees one request from beginning to end of a transaction (`TransactionHeld`); a source waits for one turn of each other (`Turns`) and every such request is answered (`RequestsAnswered`) |
| `fpu` | buffers of 64 columns and 4 rows, lines of 16; images of 4x4, 36x3 and 52x2 | the frame is in memory at `done` (`FrameComplete`), every line written is right (`RightLines`), unacknowledged requests find the controller idle (`NoLostRequest`), the bank computed on holds the chunk and the other one will hold the next (`BankInv`), banks change hands between requests (`BanksHeld`), every image is finished (`FrameEnds`) |
| `fpu_wide` | the same unit, an image of 20x3 | **violated**: `FrameComplete` |
| `fpu_write` | rows of three, lines of four, any requests, `tx_done` in any cycle | **violated**: `RequestKind` |
| `cache` | two lines, two addresses for each, two words | **violated**: `PerfectMemory` |

### The disagreements

* **A write reported complete and dropped** (`lost_write`).  `mem_ctrl.sv:104`
  raises `tx_done` and `host_we` when the DMA is not full.  But while the
  previous write is on its way to memory `wr_done` is low, the engine ignores
  `go` (`cci_dma.sv:202`), its remaining count is zero, and `wr_en` has no
  effect (`cci_dma.sv:148`).  `afu.sv:273` shows the guard that prevented this,
  commented out.  The model reaches a relative of this too: when
  `wr_done` rises in the very cycle of `wr_en`, the count is loaded and the
  address is not, and a later write goes to the next line.  `LineMemorySpec`
  is therefore stated in rely/guarantee form: it must hold up to the first step after which
  `overlap` is true, that is for requesters that wait.
* **Only one interrupt** (`interrupt_stuck`).  The controller waits in `WAIT`
  for a second acknowledge "for CPU to execute the service routine"; the
  processor acknowledges once, before the routine.  The test bench of the
  controller drives the second ACK itself.  A consequence for the reader of `interrupts`:
  with the code as it is no second interrupt ever
  leaves the controller (which `NoNesting` rests on), and the checks of that run are about one interrupt per
  reset, at any point of the program.  The trace has a routine whose first
  word is `RIN`.
* **Done after the first row group** (`fpu_wide`).  When the last chunk of a row
  leaves fewer than three columns, `FPUController.sv:98` goes to `WAIT_FINAL`
  and says `done`, whatever `remaining_height` is.  At the real size these are the widths
  169, 340, 510, ... with more than eight rows.  `fpu` uses the widths that
  are supported: those that leave at least three columns (`Supported` in `FpuFrame`).
* **A write carried out as a read** (`fpu_write`).  `rd_wr` is high in the
  cycle of `request` only; the bench's memory keeps a copy, `fpu_dma_ctrl`
  does not, and drives `READ` when the line is ready to be sent.  The trace also uses that the
  controller counts the `tx_done` of another source.
* **A hit on the line before** (`cache`).  In `IDLE` the controller assigns no
  index, so what `CMPRD` compares in the next cycle was read at the index of
  the access before.  The model contains three more places where the cache
  differs from a perfect memory, behind this one: a dirty victim is
  written to the address of the access that evicts it
  (`cpu_cache_ctrl.sv:102`), a store that missed leaves its line clean
  (`cpu_cache.sv:72`), and a read miss asks memory a second time, because `op_host` is
  still `READ` (the comment in `cpu_cache_ctrl.sv:130` guards against that in
  `CACHEWR` only).

### What is reachable and not claimed

These are hazards and not findings: nothing in the repository promises
otherwise, or what it says is not a property of a run.

* **Stalls in an injection.**  The FSM counts its NoOps while the pipeline stands
  still.  `PipelineCleared` and `FlagsPreserved` are stated for runs in which no
  stall falls into an injection; `Handshake`, `NoNesting`, `FetchResumes` and
  `InjectionEnds` for all.
* **Branches in an injection.**  `PC_next` drops the target of a branch that
  reaches ExMe while NoOps are injected (`fetch.sv:94`), although the table in
  `fetch.sv` 117-124 has the PC updated whenever `flush` is up.  The program then goes on,
  and is returned to, on the wrong path.
* **A `RIN` that was not meant.**  The FSM compares the word in fetch, also behind a
  branch or a jump and during a stall, and restores the registers all the same.
* **Words repeated or skipped** by the fetch, see *Fetched words* above.
* **A request made while `tx_done` is still in the latch** of its source is
  answered at once, with what the latch shows (`mem_arbiter.sv:77`).  The
  cache does this after a write-back (`cpu_cache_ctrl.sv` 104-115): it takes the line it
  has just written for the one it asks for.

### Bounds

* `DEPTH = 3`, `WORDS = 4`: the smallest size where pointers and counters wrap
  at different points and almost-full differs from full.
* `FIFO_DEPTH = 2`, transfers up to 3: the transfer is longer than the FIFO, so
  that requests stop for lack of space; both 0-size and wrap occur.
* `MaxWrites = 2`: two writes in flight are the least that can be reordered.
* In `MCDmaClient` the client is half duplex (one channel busy at a time); the
  channels share no register, only host memory.  `DmaProofs` proves all its
  safety properties for the full-duplex client, except `InOrder`, which it
  proves for the half-duplex one (`HalfDuplexSpec`): otherwise the client itself may change a
  line whose old value is already in the FIFO.
* Two lines and an offset of 1 in `HostPath`: a wrong address differs from a
  right one.
* `interrupts`: two addresses and two values of the flags are the least in which a wrong
  one shows; PC wraps, so that a fetch one too many or too few does as well.  The
  fetched words are all there are, so that every sequence of instructions and every
  routine occurs, and the interrupt hits every position.  `afu.sv` ties
  `IO[7:1]` to 0; several devices are the subject of `int_ctrl`.
* `arbiter`: the sources as wired: one that reads (fetch), one that
  reads and writes (data cache), one that writes (filter unit), and
  the configuration fetch.  The lines differ, so that another source's line shows; what is
  written equals a line that is read elsewhere, which keeps the contents of the latches few.
* `fpu`: `MEM_BUFFER_WIDTH` 64 for 512, lines of 16 bytes for 64, words of 4 for
  8, `COL_WIDTH` 4 for 10.  `DELAY` keeps its value of 6, so that a chunk
  is long enough for pause and rewind but short enough for the request
  before to be unfinished.  4x4 has two row groups in one chunk; 36x3 two chunks and
  a partial last group; 52x2 three chunks and one group.  `start_address` 7 and
  `result_address` 5 are unaligned and different.
* `cache`: two tags on two indices are the least where a line is evicted and
  where the access before had another index.

No counter of the code is capped: all state spaces are finite as they stand.

### Fairness

* `cci_dma`: the host infinitely often accepts a request, answers one and
  commits a write, and the client takes or writes words.  This is what a
  memory does and what a client that started a transfer does.
* `host_path`: the same host assumptions as weak fairness, and software writes
  `go`.  A write needs the host not full in two consecutive cycles, and the
  second one counts: strong fairness that the host is infinitely often not full
  in the second cycle.  A host that is full exactly then and for ever would
  starve the write; nothing in the code prevents that.
* `arbiter`: the same host, written as "infinitely often" instead of strong
  fairness of a step that is always possible.
* `fpu`: the memory answers some time (no infinite delay), and so does the
  controller that fetches the configuration.
* `int_ctrl`: the processor acknowledges while it is asked to.
* `interrupts`: infinitely often a cycle without stall, that is, the memories
  answer.

## 5. What is proved

Assumptions: only the named `ASSUME`s of the modules
(`1 < DEPTH <= WORDS`; `FIFO_DEPTH >= 1`, `FIFO_DEPTH < 2 * NLINES`, so that the
pending counter can hold a full FIFO; `MaxSize <= NLINES`; the reserved values
differ from the data and from requests; devices are lines 0 to 7, and the routine of
each has an address; a buffer of the filter unit has
more than 18 columns, three times the filter's delay, where the code has 512, and is whole lines, which are
whole words, more than one).

* `FifoInvariant`: `TypeOK`, `Occupancy` and `ReadAhead` for every depth and RAM
  size.  The inductive invariant adds that the read port mirrors the RAM at the
  read pointer also when the FIFO is empty (`Mirrored`), without which the
  first word could not be shown to appear in time, and that every cell
  between the pointers was written (`Written`).  `CountersMove` shows that
  neither counter wraps; `CellsMove` how the cells of the queue shift.
* `FifoImplementsQueue`: refinement of `BoundedQueue` under the mapping
  `Contents`.  `ContentsStep` shows that a clock edge is the abstract `Clock`,
  `PeekIsReadPort` that the read port is the head.
* `DmaTypeCorrect`, `ReadFifoNeverOverflows`, `ReadLinesConserved`: under every
  client of `DmaClient`, with both channels busy at once.  They
  hold only together: a request is made when `pending < space`, so no overflow
  needs `pending` to be the number of lines on their way (`LinesConserved`), and
  conservation needs that no response is dropped, hence no overflow, and that
  nothing is on its way before the FIFO is ready (the fourth conjunct).
* `DoneMeansWritten`: `WrittenWhenDone` for every memory size, any number of writes in
  flight and any order of commits.  The invariant `WInv` says that memory differs
  from what the client expects exactly at the lines of the writes in flight.
  It needs that no two of them, and none of them and a word still to come,
  are for the same line (`Apart`), so that the order of commits does not matter, and
  that the delay flop mirrors `c1Tx`, so that `wr_done` is not high in the
  cycle in which `c1Empty` does not count the write yet.
* `ReadsComeInOrder`: `InOrder` for the half-duplex client.  The invariant `RInv`
  places the request register: the next line to be asked for is the first line plus
  what was asked for already.  With it the queue of lines (FIFO, host, request in
  flight) only loses its head and gains its successor (`QueueMoves`); the lines keep
  their values because no write is under way during a read.
* `PathTypeCorrect`, `ReadsAreRegular`, `ReadsDrain`, `WritesDoNotOverlap`: of
  `HostPath`, for any requester and host.  The invariant `PInv` goes through the
  life of the one line of a read (`Quiet`, `Started`, `Requested`, `AtHost`,
  `Arrived`), ties each phase to the state of `mem_ctrl` (`ReadPhase`: the word is
  popped in the first of the two cycles of `FILL`), and bounds the writes: armed or in
  flight, never both, at most one (`OneWrite`).  `Recorded` keeps the present value of the
  requested line among those seen, and the value filled in with them.
* `PathImplementsLineMemory`: the refinement, up to the first step after which
  `overlap` is true.  It needs `Waits` besides: while the requester waits, a
  read finds no write in flight, so that its line has had one value only, and a
  write finds the engine idle, or armed for its own line.  The mapping's memory
  is host memory with the write in flight carried out; `MemStable` and
  `MemWritten` say when it changes, and `StepRefines` that every step is one of the line
  memory or a stutter.
* `ControllerInvariant`, `OnlyServedCleared`: for every set of devices and every
  mask.  `ISR` is computed anew from `IRR` at every edge and may change during the service,
  so `JumpForPending` needs that the device in service is pending in every
  state but the one after `CLR` (`InService`), and that the mask is stable when
  the first request arrives (`Masked`: bit 7 is reset to 0 and set by the first
  edge).  `Serving` follows the served request from the jump to the clear.
  `UrgentKept` is the safety half of `UrgentServed`: the most urgent device is not
  displaced before its clear, so that only the acknowledge is left to fairness.
* `PathInvariant`, `SaveSlotKept`, `OneInterrupt`: for any fetched words, requests and
  stalls, also those that disturb an injection.  `Handshake` is inductive once
  `INT_INSTR` is known to be a jump in `INSTR` (`JumpInInstr`, from `Pending`: the set in
  service is not empty).  `NoNesting` holds because a jump in the pipeline, or a routine under
  way, means that the controller is in `WAIT` (`Entered`), and that it
  never leaves it (`OneInterrupt`), which is the disagreement of `interrupt_stuck` seen
  from the other side.
* `PipelineIsCleared`, `FlagsArePreserved`: for any fetched words and requests, as long as
  `clean`.  The properties look at one stage in one cycle, so the invariant `CleanInv`
  describes the pipeline: the NoOp counter says which stages are empty already
  (`Drained`), the injected jump is alone (`JumpAlone`), the saved flags are those the
  program left (`Saved`), and outside of a routine FL is what the program wrote, or will be
  when MeWb has written (`Written`).  `CleanCycle` reduces a clean clock edge to two: the pipeline
  stands, or moves.
* `FetchReturns`: for any fetched words, requests and stalls, disturbed injections included.
  `WayBack` follows the address at which the injection began: it stays in PC until it is
  saved, and in the save slot as long as the controller is in `WAIT`, hence (`Entered`)
  until the routine returns.
* `ArbiterAnswers`, `ArbiterTransactionHeld`, `ArbiterTurns`: for all sets of
  addresses, contents and requests, also when a source asks again in the cycle after
  its answer.  The inductive invariant `IInv` says of a
  source with an open request that is not selected that its latch shows `tx_done` low
  (`Quiet`), and of the selected one, state by state of
  `mem_ctrl`, what was read or taken over for it (`Working`).  `InTurn` relates the
  number of answers to others with the distance in the rotation (`Behind`).
  `Hold` and `Move` treat the edges at which the arbiter stays and turns.
* `NoRequestLost`, `BanksKept`: the sequencer of the filter unit against its request
  controller, for all buffer sizes, images and delays.  A chunk does not wait for
  the request made in its beginning; the code looks once, seven columns before the
  end, and pauses if it is still under way.  So `ColInv` says that in the columns after that look
  (`Late`) the request is over unless the row ends there (`Ready`), that
  results are ten columns behind the columns read, also after the rewind
  (`InStep`), and at which column each state finds the counters (`Places`: a chunk
  begins with column 12, hence the bound on the width).  `Awaits` states which states are
  entered with no request under way; the other bank switches wait for it explicitly.
* `BanksAreFilled`, `LinesAreRight`, `FrameIsComplete`: the data path of the filter unit
  (`BankInv`, `RightLines`, `FrameComplete`), for all buffer, line and word sizes, all delays
  and all sets of supported images.  The invariant `FilterInv` follows every byte; its
  parts are in `FpuFrame` and build on each other:
  `Geometry` and `AddressInv` (the counters and request addresses belong to one place in the
  image, `Top`, `Left`); `SelectInv` (how the two bank selects relate in each state);
  `MemoryInv`, `WordInv`, `FillInv`, `FilledInv` (how far a read has come, in the
  memory, in the line and in the bank); `BankInv` (the bank computed on holds the chunk,
  the other one the next, now or when the request ends); `PipeInv` (the registers
  behind the bank hold consecutive columns; in a pause the last three stand still eleven
  columns before the end of the chunk, where the columns that are read again go
  on); `ResultInv` (the results of the chunk are in one bank, at their
  column); `SendInv` (a write request has the address of the results in its bank, and
  the line is shifted in column by column); `FrameInv` (the lines of the rows and columns
  that the sequencer has passed are in memory or in the request under way).  A step of one
  part uses the earlier ones, `PipeStep` and `ResultStep` also those of the next
  state.  `StoreStep` needs that all lines lie on one grid (`OnGrid`), so
  that no line overwrites half of another.

  The hypothesis is `Supported`, in `FpuFrame`: the image has a row, a result row is
  whole lines, and the last chunk of an input row has 3 to `M - 7` columns
  (`M` is the width of the buffer).  Fewer than three is the defect that `fpu_wide`
  shows.  In a longer one the sequencer may pause although nothing follows it,
  and then goes on to `CHUNK_END` as if something did; with 512 columns and rows
  padded to lines of 64 the last chunk has 2, 66, ..., 386 or 450 columns, so the hypothesis excludes nothing there but the
  widths of `fpu_wide`.  Counters and addresses have no upper bound in the
  model: that a row fits in 19 bits and an image in 32 is taken for granted.
* `FilterMacExact`: no register of the tree overflows (the products fit in 16,
  the sums in 20 bits) and the result equals the bench's reference, for every
  window and filter.
* `RegistersDecoded`, `AddressDecoded`, `JumpDecoded`: what the assembler packs
  is what decode takes out.  `ImmediateDecoded`: for the immediate of `ADDI` and
  `SUBI` this is so when it is not negative; of a negative one decode makes a
  number that is short of 2^31, because it concatenates twenty sign bits with
  eleven, 31 in all (`decode.sv:174`).

Only model-checked: liveness (`ReadsFinish`, `WritesFinish`, `RequestsServed`, `UrgentServed`,
`RequestEntersRoutine`, `InjectionEnds`, `RequestsAnswered`, `FrameEnds`; the prover
has no fairness or `ENABLED` reasoning).  The runs that expect a violation have
nothing to prove.

## 6. Not modelled

* **CPU operands**: register file, ALU, forwarding (`forwarding.sv`) and the
  stages that carry values.  They are selections inside one cycle, and a model needs
  the values of 32 registers to tell a right one from a wrong one.  Noted while
  reading: the selects 1 and 2 of `forwarding.sv` 38-52 are exchanged against the inputs
  of the multiplexer in `execute.sv` 49-50, line 42 negates a register
  number, and `decode.sv:221` compares with 309 instead of 30.
* **Memory map and HAL**: a table of registers that software writes; what they
  drive is an input of the models.
* **CCI-P glue**: vendor templates.
* **Assembler and debug shell** beyond the encoding of a word: parsing,
  symbol tables and interactive I/O, sequential.
* **Minilab TPU, superseded processor, benches, scripts**: not part of the
  design.
* Of `mem_ctrl.sv` an op withdrawn in mid-transaction; of
  `InterruptController.sv` a mask that changes; of the arbiter, sources that
  change or withdraw a request half-way, as the cache and the FPU's DMA controller do.
