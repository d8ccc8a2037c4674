------------------------------- MODULE Board --------------------------------
(***************************************************************************)
(* The main loop of the example boards, their 10 ms timer interrupt, their *)
(* watchdog and their handover to the application, around an engine that   *)
(* is reduced to how long each armbl_tick blocks.                          *)
(*                                                                         *)
(* Time is counted in units of 10 ms.  It passes while a hook blocks and   *)
(* while the main loop spins with no tick pending; a turn of the loop and  *)
(* a tick that calls no hook take none.                                    *)
(***************************************************************************)
EXTENDS Integers

(* What an armbl_app_layout.h, hooks.c and main.c say of a board: the      *)
(* region and its page size, the time to erase a page, the period of the   *)
(* watchdog, the expiries until it resets, and the interrupts that have an *)
(* enable bit in the NVIC.                                                 *)
Stm32f0 ==
  [APP_START_ADDR |-> \h08002000, APP_END_ADDR |-> \h0800FBFF,
   FLASH_PAGE_SIZE |-> 1024, page_units |-> 3,
   watchdog_units |-> (3750 * 32) \div 400, stages |-> 1,
   nvic |-> {"uart", "timer"}]

Stm32f1 == [Stm32f0 EXCEPT !.APP_START_ADDR = \h08004000]

Tm4c129 ==
  [APP_START_ADDR |-> \h00004000, APP_END_ADDR |-> \h0003FFFF,
   FLASH_PAGE_SIZE |-> 1024, page_units |-> 2,
   watchdog_units |-> 3 * 100, stages |-> 2,
   nvic |-> {"uart"}]

ExampleBoards == {Stm32f0, Stm32f1, Tm4c129}

Sources == {"uart", "timer"}

CONSTANTS
  Boards,       (* The boards to run on.                                    *)
  LineUnits     (* Longest time a tick takes for the lines in and out.      *)

ASSUME BoardAssumption ==
  /\ \A b \in Boards :
       /\ b.APP_START_ADDR \in Nat /\ b.APP_END_ADDR \in Nat
       /\ b.APP_START_ADDR <= b.APP_END_ADDR
       /\ b.FLASH_PAGE_SIZE \in Nat \ {0} /\ b.page_units \in Nat
       /\ b.watchdog_units \in Nat \ {0} /\ b.stages \in {1, 2}
       /\ b.nvic \subseteq Sources
  /\ LineUnits \in Nat

VARIABLES
  board,              (* The board this is.                                 *)
  pc,                 (* "kick", "poll": place in main's loop; "busy" in    *)
                      (* armbl_tick; "uart", "timer", "nvic", "enter": next *)
                      (* step of the jump hook; "app" after it.             *)
  g_tick_10ms_flag,
  dog,                (* Units left until the watchdog expires.             *)
  warned,             (* It expired once and was not acknowledged.          *)
  engine,             (* What the engine is at.                             *)
  busy,               (* Units until the hook it called returns.            *)
  hung,               (* The hook it called never returns.                  *)
  masked,             (* The processor takes no interrupt.                  *)
  raises, enabled,    (* Sources on in the peripheral, and in the core.     *)
  pending,            (* Interrupts raised and not taken yet.               *)
  stray               (* Interrupts of the bootloader the application took. *)

irqVars == <<masked, raises, enabled, pending, stray>>
vars == <<board, pc, g_tick_10ms_flag, dog, warned, engine, busy, hung, irqVars>>

W == board.watchdog_units

(* main before its loop; the interrupts are on.                            *)
Init ==
  /\ board \in Boards
  /\ pc = "kick" /\ g_tick_10ms_flag = FALSE
  /\ dog = W /\ warned = FALSE
  /\ engine = "version" /\ busy = 0 /\ hung = FALSE
  /\ masked = FALSE /\ raises = Sources /\ enabled = Sources
  /\ pending = {} /\ stray = {}

-----------------------------------------------------------------------------
(* The engine: how long a tick blocks, and what it is at afterwards.       *)

(* hooks_flash_erase blocks for every page from that of start_addr to that *)
(* of end_addr.                                                            *)
EraseUnits(b) ==
  ((b.APP_END_ADDR \div b.FLASH_PAGE_SIZE)
     - (b.APP_START_ADDR \div b.FLASH_PAGE_SIZE) + 1) * b.page_units

(* An answer that is still pending is sent in any state; an erase that     *)
(* fails ends early.                                                       *)
Longest ==
  IF engine = "erase" THEN EraseUnits(board) + LineUnits ELSE LineUnits

After ==
  CASE engine = "version" -> {"version", "erase", "boot"}
    [] engine = "erase"   -> {"lines", "timeout"}
    [] engine = "lines"   -> {"lines", "timeout", "boot"}
    [] engine = "timeout" -> {"timeout"}

-----------------------------------------------------------------------------
(* main's loop.                                                            *)

(* Two expiries reset a device whose watchdog has two stages.              *)
Expired == dog = 0 /\ (board.stages = 1 \/ warned)

Running == dog > 0 /\ pc # "app"

(* Mutant: the watchdog is reloaded only when a tick is due.               *)
Kick_Late == dog' = IF g_tick_10ms_flag THEN W ELSE dog

(* The reload starts a new period; it does not acknowledge an expiry.      *)
Kick == dog' = W

MainKick ==
  /\ Running /\ pc = "kick"
  /\ pc' = "poll"
  /\ Kick
  /\ UNCHANGED <<board, g_tick_10ms_flag, warned, engine, busy, hung, irqVars>>

MainPoll ==
  /\ Running /\ pc = "poll" /\ ~g_tick_10ms_flag
  /\ pc' = "kick"
  /\ UNCHANGED <<board, g_tick_10ms_flag, dog, warned, engine, busy, hung,
                 irqVars>>

MainTick ==
  /\ Running /\ pc = "poll" /\ g_tick_10ms_flag
  /\ g_tick_10ms_flag' = FALSE
  /\ pc' = "busy"
  /\ busy' \in 0 .. Longest
  /\ hung' \in BOOLEAN
  /\ UNCHANGED <<board, dog, warned, engine, irqVars>>

Returned == Running /\ pc = "busy" /\ busy = 0 /\ ~hung

MainReturn ==
  /\ Returned /\ engine # "boot"
  /\ pc' = "kick"
  /\ engine' \in After
  /\ UNCHANGED <<board, g_tick_10ms_flag, dog, warned, busy, hung, irqVars>>

-----------------------------------------------------------------------------
(* hooks_jump_to_app, and the application it starts.                       *)

Jump(from, to) ==
  /\ Running /\ pc = from /\ pc' = to
  /\ UNCHANGED <<board, g_tick_10ms_flag, dog, warned, engine, busy, hung,
                 pending, stray>>

JumpMask ==
  /\ Returned /\ engine = "boot" /\ Jump("busy", "uart")
  /\ masked' = TRUE
  /\ UNCHANGED <<raises, enabled>>

JumpQuiet(s) == raises' = raises \ {s} /\ UNCHANGED <<masked, enabled>>

JumpUart == Jump("uart", "timer") /\ JumpQuiet("uart")

JumpTimer == Jump("timer", "nvic") /\ JumpQuiet("timer")

(* Mutant: the enable bits in the NVIC are left set.                       *)
DisableIRQ_Not == enabled

DisableIRQ == enabled \ board.nvic

JumpNvic ==
  /\ Jump("nvic", "enter")
  /\ enabled' = DisableIRQ
  /\ UNCHANGED <<masked, raises>>

JumpEnter == Jump("enter", "app") /\ UNCHANGED <<masked, raises, enabled>>

(* The application has installed its vectors and lets interrupts in.       *)
AppUnmasks ==
  /\ pc = "app" /\ masked
  /\ masked' = FALSE
  /\ stray' = pending \cap enabled
  /\ pending' = pending \ enabled
  /\ UNCHANGED <<board, pc, g_tick_10ms_flag, dog, warned, engine, busy, hung,
                 raises, enabled>>

-----------------------------------------------------------------------------
(* Time, with the timer interrupt and the watchdog.                        *)

(* Mutant: the timer interrupt reloads the watchdog as well.               *)
TimerIsr_Reloads == g_tick_10ms_flag' = TRUE /\ dog' = W

TimerIsr == g_tick_10ms_flag' = TRUE /\ dog' = dog - 1

Elapse ==
  /\ Running
  /\ \/ pc = "busy" /\ (busy > 0 \/ hung)
     \/ pc = "poll" /\ ~g_tick_10ms_flag
  /\ TimerIsr
  /\ busy' = IF busy > 0 THEN busy - 1 ELSE 0
  /\ UNCHANGED <<board, pc, warned, engine, hung, irqVars>>

(* While the handover masks interrupts, a byte may come in and a unit end. *)
(* The handover is shorter than a unit, so that happens once.              *)
ByteDuringJump ==
  /\ Running /\ masked /\ "uart" \in raises
  /\ pending' = pending \cup {"uart"}
  /\ UNCHANGED <<board, pc, g_tick_10ms_flag, dog, warned, engine, busy, hung,
                 masked, raises, enabled, stray>>

TimerDuringJump ==
  /\ Running /\ masked /\ "timer" \in raises \ pending
  /\ pending' = pending \cup {"timer"}
  /\ dog' = dog - 1
  /\ UNCHANGED <<board, pc, g_tick_10ms_flag, warned, engine, busy, hung,
                 masked, raises, enabled, stray>>

(* The first expiry of a watchdog with two stages starts another period.   *)
Warn ==
  /\ dog = 0 /\ ~Expired
  /\ warned' = TRUE
  /\ dog' = W
  /\ UNCHANGED <<board, pc, g_tick_10ms_flag, engine, busy, hung, irqVars>>

Bite ==
  /\ Expired
  /\ pc' = "kick" /\ g_tick_10ms_flag' = FALSE
  /\ dog' = W /\ warned' = FALSE
  /\ engine' = "version" /\ busy' = 0 /\ hung' = FALSE
  /\ masked' = FALSE /\ raises' = Sources /\ enabled' = Sources
  /\ pending' = {} /\ stray' = {}
  /\ UNCHANGED board

-----------------------------------------------------------------------------
Main == MainKick \/ MainPoll \/ MainTick \/ MainReturn

Handover == JumpMask \/ JumpUart \/ JumpTimer \/ JumpNvic \/ JumpEnter

Hardware == Elapse \/ ByteDuringJump \/ TimerDuringJump \/ Warn \/ Bite

Next == Main \/ Handover \/ AppUnmasks \/ Hardware

Spec == Init /\ [][Next]_vars

(* The processor runs, and time passes.                                    *)
FairSpec == Spec /\ WF_vars(Next) /\ SF_vars(Elapse)

-----------------------------------------------------------------------------
(* Properties.                                                             *)

(* The watchdog resets only a device whose engine hangs in a hook: on each *)
(* board it leaves time enough for the erase of its whole region and for   *)
(* every other tick, wherever the last reload was.  On the TM4C129 it does *)
(* so only because the first expiry, which does come, does not reset.      *)
OnlyHangsAreReset == Expired => hung

(* README.md of the examples: a tick that hangs in a hook is ended by the  *)
(* watchdog, because no interrupt reloads it.                              *)
HangIsReset == hung ~> ~hung

(* The application starts with all of a watchdog period before it, but for *)
(* the wait for the last tick, the lines that tick sent and the handover.  *)
AppGetsFullPeriod == pc = "app" => dog + LineUnits + 2 >= W

(* stm32f0/hooks.c, hooks_jump_to_app: "no stray IRQ fires after the       *)
(* handover".  When the application lets interrupts in, none that was      *)
(* raised under the bootloader is taken, except one that the NVIC cannot   *)
(* disable: a SysTick that became pending while the handover ran.          *)
NoStrayInterrupt == stray \cap board.nvic = {}

(* README.md, "State machine": TIMEOUT is "terminal; caller's watchdog     *)
(* resets the device".                                                     *)
TimeoutIsReset == engine = "timeout" ~> engine # "timeout"

=============================================================================
