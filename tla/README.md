# A TLA+ model of the armbl bootloader

`armbl` is a serial bootloader engine for ARM Cortex-M parts: `armbl.c` and
`armbl.h` hold the engine, `example/stm32f0`, `example/stm32f1` and
`example/tm4c129` three ports (flash, UART and jump hooks, a main loop), and
`example/host_check.c` a self-test on a host. This directory models the engine
with its surroundings, checks it with TLC and proves part of it with TLAPS.

## 1. Inventory

| Component | State | Operations | Talks to |
|---|---|---|---|
| Engine state machine (`armbl.c:284-501`) | `armbl_ctx`: `state`, `timer_ticks`, `retry_left`, `requested_line`, version reply, pending OK / ERR | `armbl_init`, `armbl_tick` (drain, then one of ten states) | calls the hooks; shares `rx_*` and `pending_err*` with the interrupt |
| Receive path (`armbl.c:298-328`) | `rx_buf`, `rx_len`, `rx_overflow`, `rx_line_ready`, `pending_err`, `pending_err_reason` | `armbl_feed_byte` (interrupt), `clear_rx` (main loop) | UART interrupt of the board, the tick |
| Conversions (`armbl.c:64-251`) | none | `parse_s3`, `check_terminator`, `parse_version_line`, `le_word`, `u16_to_dec` | read `rx_buf`; `parse_s3` programs through the hooks |
| Flash hooks (`example/*/hooks.c`) | the region; the controller's lock (STM32) | `hooks_flash_erase` (page loop), `hooks_flash_write`, `hooks_flash_read` | called by the tick, block the main loop |
| Output and jump hooks | the transmitter | `hooks_write_line` (polled), `hooks_jump_to_app` | called by the tick, block the main loop |
| Board main loop (`example/*/main.c`) | `g_tick_10ms_flag`, the watchdog | reload, poll the flag, tick; timer interrupt; UART interrupt | engine, watchdog |
| Layouts (`example/*/armbl_app_layout.h`) | none | constants: region, page size, slots | main loop's configuration, erase hook |
| Host self-test (`example/host_check.c`) | mocks of flash and UART, `fails` | four tests, encoders of S-records, `tick_until`, `feed_line` | engine |
| Application and line | the firmware file, requests, bytes under way | answers `V?` and `L? n` (README.md, "Wire protocol") | external |

What makes it hard, and what has to be right:

* **The interrupt against the tick.** Nothing masks the UART interrupt and the
  fields are not volatile. A line must not change while it is parsed and
  programmed; what is parsed must come from one line; an overlong line must be
  answered.
* **Lines without numbers.** A record does not say which line it answers. With
  lost, late and repeated answers the acknowledged lines must still be in flash
  and `DONE` must mean a whole image.
* **Faults and resets between two steps.** An erase or a word may fail, or not
  take although success is reported; the device may be reset anywhere. No old
  word may survive into a new image, no mix may be booted, the controller must
  be unlocked when it is programmed.
* **Waiting.** Every wait must end, whatever the other side does; a hook that
  hangs must be ended by the watchdog, and a long erase must not be.
* **Handover.** The application must start with time left before the watchdog,
  which runs on, and without an interrupt of the bootloader's pending.
* **Arithmetic at the edges.** One sum byte guards a line; the range check wraps
  around the address space; a terminator's count of zero reads through stale
  bytes; a last word is not full; numbers are cut to 8 or 16 bits.

`PROJECT.json` lists each hazard at its line.

## 2. Modules

| Module | Models | Extends |
|---|---|---|
| `ArmblFlash` | the region as words on pages, erase and program as the hooks do them | |
| `ArmblEngine` | `armbl_feed_byte` and all of `armbl_tick` | `ArmblFlash` |
| `ImageTransfer` | abstract: what an upgrade promises to the sender of the image | |
| `ArmblUpgrade` | the engine with the application, an unreliable line and resets; the properties, and the mapping to `ImageTransfer` | `ArmblEngine` |
| `MCUpgrade` | the instance of `ArmblUpgrade` that TLC checks | `ArmblUpgrade` |
| `ArmblUpgrade_proofs` | theorems about `ArmblUpgrade` | `ArmblUpgrade` |
| `ArmblStm32_proofs` | theorems that need a controller which refuses rewriting | `ArmblUpgrade_proofs` |
| `ArmblTransfer_proofs` | the steps of the refinement | `ArmblStm32_proofs` |
| `ArmblPrompt_proofs` | the same theorems for any controller and a prompt application | `ArmblTransfer_proofs` |
| `ArmblQuiet_proofs` | that such an upgrade fails only after a fault | `ArmblPrompt_proofs` |
| `RxIsr` | the receive path at the grain of single loads and stores | |
| `MCRxIsr`, `RxIsr_proofs` | its instance and its theorems | `RxIsr` |
| `LineFormat` | what the characters of a line mean | |
| `WireLines` | an exchange of lines, character by character, down to the flash | `LineFormat` |
| `MCWireLines`, `WireLines_proofs` | its instance and its theorems | `WireLines` |
| `Board` | main loop, tick flag, timer interrupt, watchdog and handover of the three boards | |
| `Board_proofs` | its theorems | `Board` |
| `HostCheck` | the repository's self-test run on the engine | `ArmblEngine`, uses `LineFormat` |
| `MCHostCheck` | its firmware and memory map | `HostCheck` |

### `ArmblFlash`

A word is one of `erased`, `old`, `new`, `bad`, `set`, `zero`: what the engine
and the properties can tell apart. `new` at an address is the word the image
being downloaded has there, once it was programmed; `bad` is a word that was
programmed and reads back as something else.

What a controller does with a word is not in the repository; the model takes
what the hooks and `mock_write` count on, and otherwise either outcome:

* an erased word is programmed, if the controller is unlocked;
* a word that already holds the value it is to hold is programmed again if
  `Rewrite` (TM4C129, the host mock, which clear bits only). Without `Rewrite`
  (STM32) it is refused, unless it is in `Transparent`, the addresses where the
  image has a word each half of which is 0x0000, which those controllers program
  over anything, or 0xFFFF, which leaves the half erased and so accepts it again;
* over any other contents, a `bad` word for instance, it may be programmed or
  refused, according to the bits they have left;
* after a reported error the word may be as before, right or `bad`
  (`ContentsAfterError`): an STM32 programs two halves, and an error may come
  late. Only a locked controller, or one that refuses what it holds, leaves the
  word certainly alone (`Inert`).

`HasLock` says whether there is a lock, which the erase hook opens and leaves
open on success.

### `ArmblEngine`

Each case of the `switch` is one or more actions (`TickInit`, `TickAskVer`,
...). `armbl_tick` is cut at every hook call, because a hook takes long enough
for bytes to arrive or for a reset; `pc` is the place inside the tick. The
erase is one step per page and a record one step per word, with the read-back.
The drain of the pending OK / ERR comes first in every tick, as in the code.
`armbl_feed_byte` is one step (`FeedByte`): it runs to completion in the
interrupt.

A line is a message: a version, record *n*, a terminator, junk or an overlong
line. Its bytes are tokens `[of |-> message, at |-> place]`, so the buffer is
kept byte by byte, with its bound, the overflow flag and what the interrupt
drops, and a line that lost a byte or was spliced is seen as such by `LineIn`,
which stands for the three parsers: it recognises a message if its body is
complete (a version line also with something after it, as
`parse_version_line` does) and otherwise gives junk, which every parser
refuses. That a damaged line is junk, and what a good line does to the flash,
is what `WireLines` checks character by character.

The image is `Image[n]`, the word addresses of record *n*. It does not program
`done_flag_addr`: that slot is reserved for the bootloader by README.md,
"Memory map". `told` keeps the last OK, ERR or DONE line of the power cycle
for the properties.

### `ArmblUpgrade`

`reqs` is the application's input queue, `wire` the rest of the answer on its
way, and `found` what the region held at this power-up, for `BootsOneImage`. The
application answers requests in order; the queue holds `MaxReqs` and loses the
rest. The line loses or garbles whole answers (`Garble`), loses a
byte (`LoseByte`, the overrun of a receiver during an erase), or turns a byte
into a newline (`StrayNewline`). An answer that begins while `armbl_tick` has
sent its request but not yet cleared `rx_buf` (`EarlyAnswer`) is counted as such
a fault too: the application would have to answer within the few instructions
between the last bit of the request and `clear_rx`. Lines nobody asked for come
without a bound (`UnrelatedLine`). `Reset` keeps the
flash, the queue and the bytes under way, and restarts the engine with the
controller locked.

`Phase`, `Acked` and `Stored` map this state to that of `ImageTransfer`: where
the sender sees the engine, the records acknowledged (`requested_line - 1`), and
the records all of whose words are in flash. In `ImageTransfer` a word that is
programmed may complete or damage records, but none that was acknowledged
(`AckedStay`). `TransferInOrder` says that every step is one of the abstract specification or changes none of the three.

Four specifications:

* `Spec`: anything goes, unrelated lines included.
* `FairSpec`: `Spec` with weak fairness of the main loop. The main loop keeps
  calling `armbl_tick` and the hooks return (`example/*/main.c`); nothing is
  assumed of the application or the line.
* `SettledSpec`: the other end only answers, and a reset finds the line quiet, so
  that no answer to a request of one session comes into the next. The protocol cannot tell
  such an answer from its own, on any controller.
* `PromptSpec`: in addition the application answers before the engine's timer
  runs out and no byte becomes a newline. It is needed where a controller
  accepts rewriting, or the image has records which any controller accepts
  twice; `v_late_answer` shows why.

### `RxIsr`

The tick is reduced to what it does to the shared fields, and each of its loads
and stores is a step; the interrupt falls between any two. `ClearOrders` are
the orders of the three stores of `clear_rx` (the source's, or any: the
compiler may choose), `Burst` the bytes that can arrive during `clear_rx`: one
where the interrupt reads one byte (STM32), more where it drains a FIFO
(TM4C129). A byte is `<<line, place>>`, so a splice is visible.

### `LineFormat` and `WireLines`

A character is a one-character string. `LineFormat` reads a line in `rx_buf` as
`armbl.c` does (`Refusal` is the sequence of checks of `parse_s3`, `InRegion`
its range check with the wrap-around, `check_terminator` with the loop bound of
255 for a count of zero, `VersionIn`, `le_word`) and writes one as
`host_check.c` does (`SRecord`). `At` gives the bytes behind `rx_buf`, which are
`rx_len`'s. Addresses have `AddrBytes` bytes, 4 in the code; the checks use 2
or 3, which keeps every number within TLC's 32-bit integers and leaves the
arithmetic as it is.

In `WireLines` a request is printed, a line is sent, damaged at one place or
not (`OneError`: a character changed, lost or added, or only a beginning or an
end of the line left), stored in `rx_buf` over what was there, parsed and
programmed word by word into the flash of `host_check.c`, which lies on both
sides of the region. The engine's sequence of states is left to `ArmblEngine`:
a request may be either kind at any time.

### `Board`

Time in units of 10 ms. `engine` says what `armbl_tick` is at, `busy` how long
its hook still blocks, `hung` that it never returns. `Elapse` is the timer
interrupt and the watchdog's count. A board is a record of its layout header
and of what its `hooks.c` and `main.c` say: the time to erase a page, the
watchdog's period, one or two stages (`Warn` is the first expiry of the
TM4C129's), and which interrupts the NVIC can disable (SysTick is not one).
`hooks_jump_to_app` is a step per call that silences something (`JumpMask` to
`JumpNvic`), between which a byte may come in or a unit end; `AppUnmasks` is the
application letting interrupts in. `FairSpec` adds that the processor runs and
time passes, also in a loop whose tick is always due at once: the loop comes
around in far less than a unit, which is what the strong fairness of `Elapse`
says.

### `HostCheck`

Each test is a sequence of instructions: call `armbl_tick` until a line was
sent or so many times, feed a line, forget the lines sent, check. The test's
lines are its own characters; `Meaning` is what the parsers of `LineFormat`
take them for, and that is what is fed to the `ArmblEngine`, so the run also
ties the two levels together: a record is refused in the one for the reason the
other gives (`Rejected`).

## 3. Runs

All configurations of `MCUpgrade` have two pages of two words, an image of two
records (two words, one word), lines of two tokens, timers and retries of 1
(0 selects the built-in default of 3 / 100 / 500, `OrDefault`), `MaxReqs` 2
(1 in `nor_any`). Two records are the least for which an answer can be taken for the wrong line
and a record of two words the least that can fail half-way; one retry shows
both the retry and its exhaustion; two pages the least for an erase to be cut
in the middle. `CHECK_DEADLOCK FALSE` throughout: after the jump the bootloader
is gone, in `RxIsr` and `WireLines` the number of lines is bounded, and the
self-test comes to its end.

| Run | Shows | Bounds |
|---|---|---|
| `nor_any` | `NothingOldSurvives`, `RefusedOnlyIfWritten`, `ReadyLineFrozen`, `SessionEnds` under `FairSpec`: fairness of the main loop alone, against a stream of lines that need not end, and resets while the line is busy | unrelated lines unbounded, noise 0, flash faults 1, resets 1 |
| `nor_prompt` | `AckedLinesInFlash`, `DoneMeansWhole`, `BootsOneImage`, `TransferInOrder`, `QuietSessionEndsWell` (TIMEOUT only after a fault) under `PromptSpec`, rewriting accepted, CR LF, any `decide` hook | noise 2, flash faults 1, resets 1 |
| `stm32_any` | `TypeOK`, `NothingOldSurvives`, `RefusedOnlyIfWritten`, `ReadyLineFrozen`, `AckedLinesInFlash`, `DoneMeansWhole`, `BootsOneImage`, `TransferInOrder` under `SettledSpec`, rewriting refused: the controller itself refuses a line that is programmed a second time, although the first word of record 1 is transparent; three contents of the old region | noise 1, flash faults 1, resets 1 |
| `rx_stm32` | `RxTypeOK`, `ParseStable`, `ParsedFromOneLine`, `NeverParsesNothing`; one byte per interrupt, source order | 4 lines of 1, 2 or 4 bytes, buffer 2 |
| `wire_lines` | `AcceptedIsStored`, `OneErrorIsCaught`, `StaleBytesIgnored`, `VersionReadsBack`, `RequestReadsBack`, `RegionOnly`, `WireTypeOK` | 12 messages, 2 exchanges, one of them damaged at any place with one of 10 characters |
| `boards` | `OnlyHangsAreReset`, `HangIsReset`, `AppGetsFullPeriod`, `NoStrayInterrupt` on the three boards as they are configured: 55 and 47 pages of 30 ms, 240 of 20 ms, a watchdog of 3 s | a tick's lines take 20 ms |
| `host_check` | `PrintsAllOK`: the four tests pass, in the ticks they allow | as `host_check.c` |

The messages of `wire_lines` lie at the edges: records that fill two words, end
in one byte, lie below the region, cross its end, begin behind it without data,
are not aligned, or end past the last address; version numbers of 12, 255 and
256; a terminator with a count of zero. Two exchanges are the least for a line
to meet the remains of another in `rx_buf`, or a word to be programmed twice.
The line numbers are 2, 4 and 5 digits long, the last two 65535 and 65536:
`RequestReadsBack` says that the lowest 16 bits are printed, so the last request
asks for line 0.

`rx_stm32` allows one byte inside `clear_rx` and any number while a line is
parsed, so `ParseStable` covers a drained FIFO too as far as the parsing goes;
for a FIFO drained inside `clear_rx` it is proved (section 4), and so is
`NeverParsesNothing`, while `ParsedFromOneLine` does not hold there (see below).

In `boards` the lines of a tick are an answer or `ERR`, a request or `DONE`: 20
ms are some 115 characters at 57600 baud. The watchdog's count needs no margin
larger than that: `Board_proofs` says which margin is enough for every value.

`BootsOneImage` says that a power-up boots what it found in the region or the
whole new image, so none that has begun to erase boots less. It does not say
that what is found is an image: after a reset in mid-erase it is not, and may
still be booted, which is `v_reset_in_erase`.

### Where documents and code differ

Each of these runs ends in a counterexample; the property states what a
document or comment says.

| Run | Said | Done |
|---|---|---|
| `v_late_answer` | DONE: the whole image was committed (README.md:53) | a late duplicate is taken as the next line, also on an STM32 if all its half-words are 0x0000 or 0xFFFF |
| `v_reset_in_erase` | no reply and no sentinel: upgrade (README.md:89); the sentinel marks a successful upgrade (README.md:108-109) | after a reset in mid-erase a region without an image is booted: the sentinel is still set, or erased, and only the value 0 counts as none (armbl.c:267) |
| `v_s0_header` | every line of `firmware.s19` is a frame (README.md:64) | the S0 header is refused until TIMEOUT |
| `v_err_len_lost` | overlong lines get ERR len, ISR-safe (armbl.h:176-178) | lost when an ERR is being sent |
| `v_timeout_no_reset` | the watchdog resets TIMEOUT (README.md:81) | the main loop keeps reloading it |

`v_late_answer` runs under `SettledSpec` with no noise, flash fault or reset at
all, and on an STM32 with `Transparent` holding the words of record 1, which is
the harder case: a rewriting controller does with every record what this one
does with such a record (`Repeats`), so the same steps fail there whatever
record 1 holds.

Other differences are seen in the code and the model, without a run of their
own:

* after line 65535 the engine asks for `L? 0`, which no file has, and then, if it
  is answered all the same, for line 1 again, while `L? <n>` is to request line n,
  1-based (README.md:50, armbl.c:428; `LineRequest`, `RequestReadsBack`). The
  proofs for a prompt application assume `NumbersFit`;
* the sentinel is not read back, so DONE may announce a weak one (README.md:53,
  armbl.c:478; `TickMark`);
* a flash error does not drop to TIMEOUT, the line is asked for again
  (armbl.h:55-56, armbl.c:448; `Reject`);
* the record that uses up the last retry gets no ERR (README.md:52,
  armbl.c:453; `Reject`);
* the region is erased before the first `L?`, not on the first record
  (example/stm32f1/README.md:260-261, armbl.c:409; `TickErase`);
* an overlong line that ends between the stores to `pending_err` and
  `pending_err_reason` gives `ERR ?` (README.md:52, armbl.c:348; `SendErr`);
* a line of `ARMBL_LINE_MAX` bytes *plus* its newline is accepted (armbl.h:47
  counts the newline);
* a jump hook that returns is called again on the next tick (README.md:143
  calls it the last call);
* an empty region is booted when nobody answers, also without a reset: its
  sentinel is erased, not 0 (README.md:89, armbl.c:267);
* a FIFO drain inside `clear_rx` hands over the end of one line and the start of
  the next, which are then parsed as one (`RxIsr` with `Burst` above 1;
  example/tm4c129/main.c:178-179 and README.md:236-238 see no need for gating);
* the type character of a record is not covered by its sum (armbl.c:144,
  armbl.c:196), so one bit makes a `3` a `7` and a data record a terminator:
  DONE is sent in the middle of an image (README.md:53). `OneErrorIsCaught`
  shows it is the only such character;
* an `ERR len` of a line that was dropped during `DONE` may follow it before the
  jump (README.md:53: "jump immediately after");
* the TM4C129's erase of all 240 blocks outlasts its watchdog period; its README
  (257-261) counts on the first expiry to reset and warns (108-119,
  279-285) of a full erase, main.c:147-149 says that the second one does, and the model follows
  main.c: the erase of 4.8 s then fits. `OnlyHangsAreReset` checks it;
* a SysTick that becomes pending while the TM4C129's handover runs is taken by
  the application: `SysTickIntDisable` does not clear it and it has no NVIC bit
  (example/tm4c129/README.md:204-206);
* the STM32F1 hands over with the flash unlocked after an upgrade, while
  example/stm32f0/hooks.c:93-96 locks it;
* the application starts with interrupts masked on all boards (hooks.c,
  `hooks_jump_to_app`).

## 4. Proofs

`ArmblUpgrade_proofs` proves, for every image, region, set of versions and
configuration that meets `FlashAssumption`, `EngineAssumption` and
`UpgradeAssumption`:

* `Typing`: `Spec => []TypeOK`
* `LineFrozen`: `Spec => ReadyLineFrozen`
* `FreshRegion`: `Spec => []NothingOldSurvives`
* `RefusedIfWritten`: `Spec => []RefusedOnlyIfWritten`

The inductive invariant is `IInv == TypeOK /\ ReadyInv /\ RegionInv`.
`NothingOldSurvives` is not inductive: that a region is clean when the first
line is asked for follows only from what the erase loop has done so far, and
that the words being programmed are those of a record only from what `pc` says
about `state` and `rx_buf`. So `RegionInv` adds

* `PlaceInv`: which `state` and which waiting line each `pc` inside the tick
  goes with;
* `EraseInv`: while erasing, every page before `off` is erased and the
  controller is unlocked;
* `TransferInv`: from the first `L?` to the sentinel the controller is
  unlocked, the sentinel is erased, and the rest is `erased`, `new` or `bad`.

`ReadyInv` says that a ready line is not empty and has no overflow, which
is why `FeedByte` cannot reset a line that is being parsed. The proof that a step preserves the
invariant has one step per action; `FeedByte` and `Reject`, which several
actions share, have lemmas of their own, as have the facts about bodies,
buffers and parsed lines.

`ArmblStm32_proofs` proves, if the controller refuses rewriting and each record
of the image has a word that is not transparent (`EachRecordTells`: otherwise
the controller accepts a duplicate of it, which passes for the next line,
`v_late_answer`; a record without data, which `parse_s3` accepts, is such a record
too),

* `AckedIsInFlash`: `SettledSpec => []AckedLinesInFlash`
* `DoneIsWhole`: `SettledSpec => []DoneMeansWhole`
* `OneImageBooted`: `SettledSpec => []BootsOneImage`

The difficulty is that a record does not say which line it is. The argument has
two halves. *Nothing is early*: line *n* is under way, in the queue, on the
wire or in `rx_buf`, only if *n* is at most `requested_line`, and a terminator
only if all lines were asked for (`ArrivingInv`; it needs that the counter never
goes back while the line is busy, hence `PhaseInv` and the quiet resets; the
16-bit wrap of the number in `L?` only makes it smaller). *Nothing is late*:
a record before the requested one was acknowledged, so its words are in flash
(`AckedLinesInFlash`), so the controller refuses the first of them that is not
transparent, and changes nothing when it programs the transparent ones before
it. Hence a record that got past such a word is the requested one (`ProgInv`),
and so is one that was accepted (`AcceptedIsRequested`), a terminator finds every line
acknowledged (`DoneInv`), and no programming, whether it succeeds or fails, damages a
word that is there (`ProgramKeepsNew`, `ErrorKeepsNew`). `OriginInv` follows the
region from each power-up to `ST_BOOT`. TLC finds these parts to hold on
the instance of `stm32_any` too, in a run that is not kept here.

`ArmblTransfer_proofs` proves `TransferImplemented`: under the same assumptions
`SettledSpec => TransferInOrder`, the implementation of `ImageTransfer`. Each
action of the engine is shown to be one abstract step or none; it needs the
invariants above (an acknowledged record is stored, a terminator finds all of
them) and `CountInv`, that the line counter stays within the image.

`ArmblPrompt_proofs` proves the same four for `PromptSpec` and any controller:
`PromptAckedIsInFlash`, `PromptDoneIsWhole`, `PromptOneImageBooted` and
`PromptTransferImplemented`. Here nothing refuses a line that comes a second
time, and the argument is about the line. `PromptInv`: at most one request is
out, nothing but its answer (or what noise made of it) arrives, and nothing is
under way when a line is ready or none is waited for; so a record that is
accepted is the requested one, and a word that fails, and on these controllers
may spoil what was there, is one of the requested record. Two hypotheses:

* `NumbersFit`: the file has fewer than 65535 lines. The number in `L?` is cast
  to `uint16_t`, so past that the application is asked for line 0.
* `RecordsApart`: no two records have a word in common. Without it a word of an
  acknowledged record would be programmed again, and that may fail.

Neither is needed on a controller that refuses rewriting, where
`ArmblStm32_proofs` asks only that each record tells.

`ArmblQuiet_proofs` proves `QuietEndsWell`: under `NumbersFit`, `EachWordOnce` (no
word is in the image twice, in one record or in two: an STM32 would refuse it)
and `Served` (no S0 header, which the engine refuses, and an application that
holds at least one request), `PromptSpec => []QuietSessionEndsWell`. While no fault has
happened a line asked for comes as it was sent (`ExactInv`: `rx_buf` holds what
is not on the wire any more, byte by byte), and from the requested record on no
word has been programmed but those in hand (`UntouchedInv`), so every word is
programmed on erased flash and reads back. So no line is refused and no word
fails, and the timer does not run out on a line that is coming: nothing uses a
retry, and `state` does not reach `TIMEOUT`, which is the third part of
`QuietInv`.

`RxIsr_proofs` proves, for every buffer size and all lines,

* `RxTyping`: `Spec => []RxTypeOK` and `ParsingIsStable`:
  `Spec => []ParseStable`, in whatever order the compiler stores the fields of
  `clear_rx` and for every burst. The invariant is that `rx_line_ready` and
  `rx_overflow` are never both set (`OneOrTheOther`), without which the newline
  of an overlong line would empty a buffer being parsed.
* `ParsesSomething`: `Spec => []NeverParsesNothing`, in the order of the source
  (`SourceOrder`): a ready line has bytes except `Between` the first two stores.
* `NoSplice`: `Spec => []ParsedFromOneLine`, in addition with one byte per
  interrupt (`OneByte`). `OpenInv` says that the next byte continues the buffer
  unless it is dropped; after `clear_rx` has emptied the buffer the one byte
  that can arrive finds it empty (`FreshInv`), so that neither the ready flag
  nor the overflow flag is cleared over bytes of an earlier line.

`WireLines_proofs` proves every property of `wire_lines`, for every region,
flash, set of messages and damage (`WireAssumption`, `MessagesAssumption`):

* `WritesInRegion`: `WireSpec => RegionOnly`. A record whose end wraps around
  the address space passes the range check, but its first word lies behind the
  flash, so the hook refuses it before the second (`ProgramInv`).
* `WireTyped`: `WireSpec => []WireTypeOK`.
* `RequestsRead`: `WireSpec => []RequestReadsBack`, by the digits of
  `u16_to_dec`.
* `StaleBytes`: `WireSpec => []StaleBytesIgnored`. Two buffers that hold the
  same line (`SameLine`) are parsed alike; a count of zero makes
  `check_terminator` read 255 bytes, past the end of any buffer of fewer than
  514 characters, where the byte of `rx_len` ends it (`CountsBytes`).
* `VersionsReadBack`: `WireSpec => []VersionReadsBack`. `VersionRead` takes a
  version line apart as `parse_version_line` does; its sums stop growing past
  255, so they are the numbers or too large, like the numbers (`ParsedIs`).
* `ErrorsCaught`: `WireSpec => []OneErrorIsCaught`. What is accepted is
  `WellFormed`: an S, as many characters as the count says, digits, and the sum.
  A record that lost, gained or kept only some of its characters is not
  (`RecordCaught`: the length is odd, the count is not its own, or it begins
  with a digit); one changed character changes one byte, and one byte changes
  the sum (`SumsDiffer`, `ChecksumTells`, `BytesArrive`), so every byte is read
  as it was written, by digits of either case (`NearIs`).
* `RecordsStored`: `WireSpec => []AcceptedIsStored`. By the same lemmas an
  accepted line is decoded as the address and data it was written from
  (`TakenDecoded`; `AddressRead` puts the bytes of an address together).
  `ProgressInv` says what is in flash at each round of the word loop: the data
  up to where it is, and what was there before everywhere else, also under a
  padded word, because 0xFF is taken only where 0xFF is (`AllOnes`).

Sums, numbers and addresses are folds over sequences of any length. The
library's induction theorems cannot be used, so `UpTo` proves the one induction
needed from the pigeonhole principle, and `FoldRuns` turns a fold into its
sequence of partial results. The hypotheses are

* `CodeWidth`: addresses have one to four bytes (`uint32_t`);
* `ShortLines`: `LINE_MAX` is below 514 (`ARMBL_LINE_MAX` is 128), for the
  terminator with a count of zero;
* `ShortTexts`: what the application sends that is neither a record, a
  terminator nor a version has at most four characters. A text of the
  application's own that is one character away from a record could become one.

`Board_proofs` proves, for every set of boards,

* `OnlyHangs`: `Spec => []OnlyHangsAreReset` and `FullPeriod`:
  `Spec => []AppGetsFullPeriod`, if `Margin` holds: the erase and the lines of a
  tick fit all the watchdog's stages less two units, the lines alone one stage
  less three. `LoopInv` says how much of the period is left at each place of
  the loop, `WarnInv` that only the erase uses up a first stage, `JumpInv` what
  the handover leaves.
* `ExamplesFit`: the three boards have that margin.
* `NoStray`: `Spec => []NoStrayInterrupt`, without assumption.

Only model-checked: liveness (`SessionEnds`, `HangIsReset`), which these provers
cannot show under fairness, and `PrintsAllOK`, which is about one run of a fixed
script. The five counterexamples are of course TLC's.

## 5. Not modelled

* Peripheral bring-up: clock, pin, UART and NVIC register writes in a straight
  line. What it leaves behind is the initial state of `Board`.
* The failure of `armbl_init` (main.c parks for the watchdog): it needs a NULL
  hook or an empty region, and the boards' configuration is constant.
* The `log` hook (no state) and `saw_terminator`, which nothing reads.
* The stack pointer, vector table and clocks of the handover, and what the
  application does afterwards, except for letting interrupts in.
* The Makefile.

## 6. Plan

1. The safety part of `SessionEnds`: a bound on the ticks a session can take, as
   an action property on the timer and the retry counter, and its proof.
2. The tie between the two levels as a theorem: a line that `LineIn` takes for a
   record, a version or junk is one `LineFormat` takes for the same.
3. Three records and two retries in `stm32_any`, if the state space allows.
