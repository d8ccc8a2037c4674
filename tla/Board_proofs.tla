---------------------------- MODULE Board_proofs ----------------------------
(***************************************************************************)
(* Proofs about Board, for every set of boards whose watchdogs allow for   *)
(* the erase of their regions.                                             *)
(***************************************************************************)
EXTENDS Board, TLAPS

(* What a single tick blocks for, with the unit that may pass before it is *)
(* noticed and the one that may end in the handover, is less than the      *)
(* watchdog allows.                                                        *)
Margin ==
  \A b \in Boards :
    /\ EraseUnits(b) + LineUnits + 2 <= b.stages * b.watchdog_units
    /\ LineUnits + 3 <= b.watchdog_units

Engines == {"version", "erase", "lines", "timeout", "boot"}
Steps == {"uart", "timer", "nvic", "enter"}

(* The variables that count, and the places.                               *)
Counts ==
  /\ board \in Boards
  /\ pc \in {"kick", "poll", "busy", "app"} \cup Steps
  /\ dog \in Nat /\ busy \in Nat
  /\ engine \in Engines
  /\ warned \in BOOLEAN

HangInv == hung => pc = "busy"

(* Nothing but an erase lets the watchdog expire once, and there is one    *)
(* erase, after the version phase.                                         *)
WarnInv ==
  ~hung /\ warned => engine # "version" /\ (engine = "erase" => pc = "busy")

(* Between two reloads at most one unit passes before the tick starts, and *)
(* then as many as its hook needs.                                         *)
LoopInv ==
  ~hung =>
    /\ pc = "kick" => dog >= 1
    /\ pc = "poll" => dog = W \/ (g_tick_10ms_flag /\ dog + 1 >= W)
    /\ pc = "busy" /\ engine # "erase" => dog + LineUnits + 1 >= W + busy
    /\ pc = "busy" /\ engine = "erase" =>
         dog > busy \/ (board.stages = 2 /\ ~warned /\ dog + W > busy)

JumpInv ==
  /\ masked => pc \in Steps \cup {"app"}
  /\ pc \in Steps => dog + LineUnits + 1 >= W
                       \/ ("timer" \in pending /\ dog + LineUnits + 2 >= W)
  /\ pc = "app" => dog + LineUnits + 2 >= W

BoardInv == Counts /\ HangInv /\ WarnInv /\ LoopInv /\ JumpInv

-----------------------------------------------------------------------------
LEMMA Units ==
  ASSUME Margin, Counts
  PROVE  /\ W \in Nat /\ LineUnits \in Nat /\ LineUnits + 3 <= W
         /\ board.stages \in {1, 2}
BY BoardAssumption DEF BoardAssumption, Margin, Counts, W

LEMMA EraseIsInt == ASSUME NEW b \in Boards PROVE EraseUnits(b) \in Int
<1>1. /\ b.APP_START_ADDR \in Nat /\ b.APP_END_ADDR \in Nat
      /\ b.FLASH_PAGE_SIZE \in Nat \ {0} /\ b.page_units \in Nat
  BY BoardAssumption DEF BoardAssumption
<1>2. /\ b.APP_END_ADDR \div b.FLASH_PAGE_SIZE \in Int
      /\ b.APP_START_ADDR \div b.FLASH_PAGE_SIZE \in Int
  BY <1>1
<1> QED  BY <1>1, <1>2 DEF EraseUnits

(* Every tick fits the margin.                                             *)
LEMMA TickFits ==
  ASSUME Margin, Counts, NEW d \in 0 .. Longest
  PROVE  /\ d \in Nat
         /\ engine # "erase" => d <= LineUnits
         /\ engine = "erase" => d + 2 <= board.stages * W
<1>1. CASE engine # "erase"  BY <1>1, Units DEF Longest
<1>2. CASE engine = "erase"
  <2>1. EraseUnits(board) \in Int  BY EraseIsInt DEF Counts
  <2>2. board.stages * W \in Nat
    BY Units
  <2>3. d \in 0 .. EraseUnits(board) + LineUnits  BY <1>2 DEF Longest
  <2>4. EraseUnits(board) + LineUnits + 2 <= board.stages * W
    BY DEF Margin, Counts, W
  <2>5. d \in Int /\ 0 <= d /\ d <= EraseUnits(board) + LineUnits
    BY <2>1, <2>3, Units
  <2> QED  BY <1>2, <2>1, <2>2, <2>4, <2>5, Units
<1> QED  BY <1>1, <1>2

LEMMA TickStep == ASSUME Margin, BoardInv, MainTick PROVE BoardInv'
<1> USE DEF BoardInv, Counts
<1>1. busy' \in 0 .. Longest  BY DEF MainTick
<1>2. /\ busy' \in Nat
      /\ engine # "erase" => busy' <= LineUnits
      /\ engine = "erase" => busy' + 2 <= board.stages * W
  BY <1>1, TickFits
<1>3. dog + 1 >= W /\ ~hung /\ pc = "poll"
  BY Units DEF MainTick, LoopInv, HangInv
<1>4. engine = "erase" => ~warned  BY <1>3 DEF WarnInv
<1>5. Counts' /\ HangInv' /\ WarnInv' /\ JumpInv'
  BY <1>2, <1>3, <1>4 DEF MainTick, HangInv, WarnInv, JumpInv, irqVars, Steps
<1>6. W' = W  BY DEF MainTick, W
<1>7. ASSUME ~hung', engine # "erase"
      PROVE  dog' + LineUnits + 1 >= W' + busy'
  BY <1>2, <1>3, <1>6, <1>7, Units DEF MainTick
<1>8. ASSUME ~hung', engine = "erase"
      PROVE  dog' > busy' \/ (board.stages = 2 /\ ~warned /\ dog' + W' > busy')
  <2>1. dog' = dog  BY DEF MainTick
  <2>2. CASE board.stages = 1
    <3>1. busy' + 2 <= W  BY <1>2, <1>8, <2>2, Units
    <3> QED  BY <1>2, <1>3, <2>1, <3>1, Units
  <2>3. CASE board.stages = 2
    <3>1. busy' + 2 <= 2 * W  BY <1>2, <1>8, <2>3
    <3>2. dog + W > busy'  BY <1>2, <1>3, <3>1, Units
    <3> QED  BY <1>4, <1>6, <1>8, <2>1, <2>3, <3>2
  <2> QED  BY <2>2, <2>3, Units
<1>9. LoopInv'
  BY <1>7, <1>8 DEF MainTick, LoopInv
<1> QED  BY <1>5, <1>9

LEMMA BoardStep ==
  ASSUME Margin, BoardInv, [Next]_vars
  PROVE  BoardInv'
<1> USE DEF BoardInv, Counts, HangInv, WarnInv, LoopInv, JumpInv, Steps
<1> USE Units
<1>1. CASE MainKick  BY <1>1 DEF MainKick, Kick, irqVars, W, Running
<1>2. CASE MainPoll  BY <1>2 DEF MainPoll, irqVars, W
<1>3. CASE MainTick  BY <1>3, TickStep
<1>4. CASE MainReturn
  <2>1. /\ pc' = "kick" /\ dog > 0 /\ ~hung /\ ~hung'
        /\ pc = "busy" /\ engine # "boot"
        /\ dog' = dog /\ busy' = busy /\ board' = board /\ warned' = warned
        /\ engine' \in After /\ masked' = masked
    BY <1>4 DEF MainReturn, Returned, Running, irqVars
  <2>2. /\ engine' \in Engines
        /\ engine' \in {"version", "erase"} => engine = "version"
    <3>1. engine \in {"version", "erase", "lines", "timeout"}
      BY <2>1 DEF Engines
    <3> QED  BY <2>1, <3>1 DEF After, Engines
  <2>3. Counts' /\ HangInv' /\ LoopInv'  BY <2>1, <2>2
  <2>4. WarnInv'  BY <2>1, <2>2
  <2>5. JumpInv'  BY <2>1
  <2> QED  BY <2>3, <2>4, <2>5
<1>5. CASE Handover
  BY <1>5 DEF Handover, JumpMask, JumpUart, JumpTimer, JumpNvic, JumpEnter, Jump,
              Returned, Running, W
<1>6. CASE AppUnmasks  BY <1>6 DEF AppUnmasks, W
<1>7. CASE Elapse  BY <1>7 DEF Elapse, Running, TimerIsr, irqVars, W
<1>8. CASE ByteDuringJump  BY <1>8 DEF ByteDuringJump, Running, W
<1>9. CASE TimerDuringJump
  <2>1. /\ dog > 0 /\ dog' = dog - 1 /\ "timer" \notin pending
        /\ "timer" \in pending' /\ pc # "app"
        /\ UNCHANGED <<board, pc, g_tick_10ms_flag, warned, engine, busy, hung>>
    BY <1>9 DEF TimerDuringJump, Running
  <2>2. pc \in Steps  BY <1>9, <2>1 DEF TimerDuringJump
  <2> QED  BY <2>1, <2>2 DEF W
<1>10. CASE Warn
  BY <1>10 DEF Warn, Expired, irqVars, W
<1>11. CASE Bite
  <2>1. /\ pc' = "kick" /\ dog' = W /\ busy' = 0 /\ ~hung' /\ warned' = FALSE
        /\ engine' = "version" /\ board' = board /\ ~masked'
    BY <1>11 DEF Bite
  <2>2. W \in Nat /\ W >= 3  OBVIOUS
  <2>3. Counts'  BY <2>1, <2>2 DEF Engines
  <2> QED  BY <2>1, <2>2, <2>3
<1>12. CASE UNCHANGED vars  BY <1>12 DEF vars, irqVars, W
<1> QED
  BY <1>1, <1>2, <1>3, <1>4, <1>5, <1>6, <1>7, <1>8, <1>9, <1>10, <1>11, <1>12
  DEF Next, Main, Hardware

LEMMA BoardInit == ASSUME Margin, Init PROVE BoardInv
<1>1. board \in Boards  BY DEF Init
<1>2. W \in Nat /\ W >= 3
  BY <1>1, BoardAssumption DEF BoardAssumption, Margin, W
<1>3. Counts  BY <1>1, <1>2 DEF Init, Counts, Engines
<1>4. HangInv /\ WarnInv /\ JumpInv
  BY DEF Init, HangInv, WarnInv, JumpInv, Steps
<1>5. pc = "kick" /\ dog = W  BY DEF Init
<1>6. LoopInv  BY <1>2, <1>5 DEF LoopInv
<1> QED  BY <1>3, <1>4, <1>6 DEF BoardInv

-----------------------------------------------------------------------------
(* As long as the longest tick fits what a watchdog allows, it resets no   *)
(* device whose hooks all return (IWDG_ReloadCounter and WatchdogReloadSet *)
(* in main's loop).                                                        *)
THEOREM OnlyHangs == ASSUME Margin PROVE Spec => []OnlyHangsAreReset
<1>1. Init => BoardInv  BY BoardInit
<1>2. BoardInv /\ [Next]_vars => BoardInv'  BY BoardStep
<1>3. BoardInv => OnlyHangsAreReset
  BY Units DEF BoardInv, Counts, HangInv, LoopInv, JumpInv, Steps,
               OnlyHangsAreReset, Expired
<1> QED  BY <1>1, <1>2, <1>3, PTL DEF Spec

(* Under the same margin the application starts with a whole period, less  *)
(* what the last tick took.                                                *)
THEOREM FullPeriod == ASSUME Margin PROVE Spec => []AppGetsFullPeriod
<1>1. Init => BoardInv  BY BoardInit
<1>2. BoardInv /\ [Next]_vars => BoardInv'  BY BoardStep
<1>3. BoardInv => AppGetsFullPeriod
  BY DEF BoardInv, JumpInv, AppGetsFullPeriod
<1> QED  BY <1>1, <1>2, <1>3, PTL DEF Spec

(* The three example boards have that margin: 171 and 143 of 300 units,    *)
(* and, with both stages of the TM4C129's watchdog, 484 of 600.            *)
THEOREM ExamplesFit ==
  ASSUME Boards = ExampleBoards, LineUnits <= 2 PROVE Margin
<1>1. LineUnits \in Nat  BY BoardAssumption DEF BoardAssumption
<1>2. EraseUnits(Stm32f0) + LineUnits + 2 <= 300
  BY <1>1 DEF EraseUnits, Stm32f0
<1>3. EraseUnits(Stm32f1) + LineUnits + 2 <= 300
  BY <1>1 DEF EraseUnits, Stm32f1, Stm32f0
<1>4. EraseUnits(Tm4c129) + LineUnits + 2 <= 600
  BY <1>1 DEF EraseUnits, Tm4c129
<1>5. /\ Stm32f0.watchdog_units = 300 /\ Stm32f0.stages = 1
      /\ Stm32f1.watchdog_units = 300 /\ Stm32f1.stages = 1
      /\ Tm4c129.watchdog_units = 300 /\ Tm4c129.stages = 2
  BY DEF Stm32f0, Stm32f1, Tm4c129
<1> QED
  BY <1>1, <1>2, <1>3, <1>4, <1>5 DEF Margin, ExampleBoards

-----------------------------------------------------------------------------
(* The interrupts the NVIC controls are disabled before the application.   *)
QuietInv ==
  /\ board \in Boards
  /\ pc # "app" => stray = {}
  /\ pc \in {"enter", "app"} => enabled \cap board.nvic = {}
  /\ stray \cap board.nvic = {}

(* After the handover the application takes no interrupt of the bootloader *)
(* that the NVIC can disable (hooks_jump_to_app).                          *)
THEOREM NoStray == Spec => []NoStrayInterrupt
<1>1. Init => QuietInv  BY DEF Init, QuietInv
<1>2. QuietInv /\ [Next]_vars => QuietInv'
  <2> SUFFICES ASSUME QuietInv, [Next]_vars PROVE QuietInv'  OBVIOUS
  <2> USE DEF QuietInv
  <2>1. CASE Main
    BY <2>1 DEF Main, MainKick, MainPoll, MainTick, MainReturn, Returned, Running,
                irqVars
  <2>2. CASE JumpMask \/ JumpUart \/ JumpTimer \/ JumpEnter
    BY <2>2 DEF JumpMask, JumpUart, JumpTimer, JumpEnter, Jump, JumpQuiet, Running
  <2>3. CASE JumpNvic
    BY <2>3 DEF JumpNvic, Jump, DisableIRQ, Running
  <2>4. CASE AppUnmasks  BY <2>4 DEF AppUnmasks
  <2>5. CASE Elapse \/ ByteDuringJump \/ TimerDuringJump \/ Warn
    BY <2>5 DEF Elapse, ByteDuringJump, TimerDuringJump, Warn, irqVars
  <2>6. CASE Bite  BY <2>6 DEF Bite
  <2>7. CASE UNCHANGED vars  BY <2>7 DEF vars, irqVars
  <2> QED
    BY <2>1, <2>2, <2>3, <2>4, <2>5, <2>6, <2>7 DEF Next, Handover, Hardware
<1>3. QuietInv => NoStrayInterrupt  BY DEF QuietInv, NoStrayInterrupt
<1> QED  BY <1>1, <1>2, <1>3, PTL DEF Spec

=============================================================================
