------------------------ MODULE ArmblTransfer_proofs -------------------------
(***************************************************************************)
(* On a controller that refuses a word it holds, the engine implements     *)
(* ImageTransfer, for every region, image and configuration in which each  *)
(* record has a word that is not transparent.                              *)
(***************************************************************************)
EXTENDS ArmblStm32_proofs

(* The line counter ends one past the last record, and only there is the   *)
(* terminator taken.                                                       *)
CountInv ==
  /\ requested_line <= Lines + 1
  /\ state \in {"ASK_LINE", "WAIT_LINE", "MARK_DONE"} => requested_line >= 1
  /\ state = "MARK_DONE" => requested_line > Lines

TransferStep == [Sender!TransferNext]_(Sender!transferVars)

-----------------------------------------------------------------------------
(* What the steps do to the mapped variables.                              *)

LEMMA Stutter ==
  ASSUME UNCHANGED <<Phase, Acked, Stored>>
  PROVE  TransferStep
BY DEF TransferStep, Sender!transferVars

LEMMA SameStored ==
  ASSUME UNCHANGED flash
  PROVE  Stored' = Stored
BY DEF Stored

LEMMA SamePlace ==
  ASSUME UNCHANGED <<state, pc, requested_line, flash>>
  PROVE  TransferStep
BY SameStored, Stutter DEF Phase, Acked

LEMMA MoreStored ==
  ASSUME \A a \in Addr : flash[a] = "new" => flash'[a] = "new"
  PROVE  Sender!AckedStay
BY ImageInRegion DEF Stored, Sender!AckedStay

LEMMA LessStored ==
  ASSUME \A a \in Addr : flash'[a] = "new" => flash[a] = "new"
  PROVE  Stored' \subseteq Stored
BY ImageInRegion DEF Stored

(* Within the transfer, up to the terminator, only the stored records may  *)
(* change: no other variable of ImageTransfer sees a tick.                 *)
LEMMA InTransfer ==
  ASSUME state \in {"ASK_LINE", "WAIT_LINE", "MARK_DONE"},
         state' \in {"ASK_LINE", "WAIT_LINE", "MARK_DONE"},
         pc # "app", pc' # "app", requested_line' = requested_line,
         Sender!AckedStay
  PROVE  TransferStep
<1>1. Phase = "transfer" /\ Phase' = "transfer"  BY DEF Phase
<1>2. Acked' = Acked  BY DEF Acked
<1>3. Stored' \subseteq 1 .. Lines  BY DEF Stored
<1> QED
  BY <1>1, <1>2, <1>3 DEF TransferStep, Sender!TransferNext, Sender!Store

(* An upgrade that fails leaves the records that were acknowledged.        *)
LEMMA Fails ==
  ASSUME Phase \in {"deciding", "transfer"}, pc' # "app",
         state' = "TIMEOUT", requested_line' = requested_line,
         Stored' = Stored \/ (Phase = "transfer" /\ Sender!AckedStay)
  PROVE  TransferStep
<1>1. Phase' = "stuck"  BY DEF Phase
<1>2. Acked' = Acked  BY DEF Acked
<1>3. Stored' \subseteq 1 .. Lines  BY DEF Stored
<1> QED
  BY <1>1, <1>2, <1>3 DEF TransferStep, Sender!TransferNext, Sender!GiveUp

-----------------------------------------------------------------------------
LEMMA VersionPhaseTransfer ==
  ASSUME PhaseInv, TickVersionPhase
  PROVE  TransferStep /\ (CountInv => CountInv')
<1>1. /\ requested_line = 0 /\ requested_line' = 0 /\ flash' = flash
      /\ pc # "app" /\ pc' # "app"
      /\ state \in {"INIT", "ASK_VER", "WAIT_VER", "DECIDE"}
      /\ state' \in {"INIT", "ASK_VER", "WAIT_VER", "DECIDE", "ERASE", "BOOT"}
  <2> USE DEF Goto, Case, hwVars, PhaseInv
  <2>1. CASE TickInit  BY <2>1 DEF TickInit
  <2>2. CASE TickAskVer  BY <2>2 DEF TickAskVer
  <2>3. CASE TickAskedVer  BY <2>3 DEF TickAskedVer
  <2>4. CASE TickVersionLine  BY <2>4 DEF TickVersionLine
  <2>5. CASE TickWaitVer  BY <2>5, CountdownPlaces DEF TickWaitVer
  <2>6. CASE TickDecide  BY <2>6 DEF TickDecide
  <2> QED  BY <2>1, <2>2, <2>3, <2>4, <2>5, <2>6 DEF TickVersionPhase
<1>2. Phase' = Phase /\ Acked' = Acked
  <2>1. Phase = "deciding"  BY <1>1 DEF Phase
  <2>2. Phase' = "deciding"  BY <1>1 DEF Phase
  <2> QED  BY <1>1, <2>1, <2>2 DEF Acked
<1>3. CountInv => CountInv'  BY <1>1 DEF CountInv
<1> QED  BY <1>1, <1>2, <1>3, SameStored, Stutter

LEMMA ErasePhaseTransfer ==
  ASSUME IInv, PhaseInv, TickErasePhase
  PROVE  TransferStep /\ (CountInv => CountInv')
<1>0. /\ state = "ERASE" /\ requested_line = 0 /\ Phase = "deciding"
      /\ Acked = 0
  BY DEF TickErasePhase, TickErase, TickErasePage, TickEraseFails,
         TickErased, Case, IInv, RegionInv, PlaceInv, PhaseInv, Phase, Acked
<1>1. CASE TickErase
  <2>1. /\ state' = state /\ requested_line' = 0 /\ pc' = "erase"
        /\ flash' = flash
    BY <1>0, <1>1 DEF TickErase
  <2>2. Phase' = Phase /\ Acked' = Acked
    BY <1>0, <2>1 DEF Phase, Acked
  <2> QED  BY <1>0, <2>1, <2>2, SameStored, Stutter DEF CountInv
<1>2. CASE TickErasePage
  <2>1. /\ state' = state /\ requested_line' = 0 /\ pc' = "erase"
        /\ ErasePage(off)
    BY <1>0, <1>2 DEF TickErasePage
  <2>2. \A a \in Addr : flash'[a] = "new" => flash[a] = "new"
    BY <2>1 DEF ErasePage
  <2>3. Phase' = Phase /\ Acked' = Acked
    BY <1>0, <2>1 DEF Phase, Acked
  <2>4. TransferStep
    BY <1>0, <2>2, <2>3, LessStored
    DEF TransferStep, Sender!TransferNext, Sender!Clear
  <2> QED  BY <1>0, <2>1, <2>4 DEF CountInv
<1>3. CASE TickEraseFails
  <2>1. /\ state' = "TIMEOUT" /\ requested_line' = 0 /\ pc' = "idle"
        /\ flash' = flash
    BY <1>0, <1>3 DEF TickEraseFails, Goto, GiveUp
  <2> QED  BY <1>0, <2>1, SameStored, Fails DEF CountInv
<1>4. CASE TickErased
  <2>1. /\ state' = "ASK_LINE" /\ requested_line' = 1 /\ pc' = "idle"
        /\ flash' = flash
    BY <1>4 DEF TickErased, Goto
  <2>2. Phase' = "transfer" /\ Acked' = Acked
    BY <1>0, <2>1 DEF Phase, Acked
  <2>3. Stored' = Stored  BY <2>1, SameStored
  <2>4. TransferStep
    BY <1>0, <2>2, <2>3 DEF TransferStep, Sender!TransferNext, Sender!Begin
  <2>5. CountInv'  BY <2>1, LinesNat DEF CountInv
  <2> QED  BY <2>4, <2>5
<1> QED  BY <1>1, <1>2, <1>3, <1>4 DEF TickErasePhase

LEMMA RejectTransfer ==
  ASSUME NEW err, state = "WAIT_LINE", pc # "app", Reject(err),
         Sender!AckedStay
  PROVE  TransferStep /\ (CountInv => CountInv')
<1>1. /\ state' \in {"ASK_LINE", "TIMEOUT"} /\ pc' = "idle"
      /\ requested_line' = requested_line
  BY DEF Reject, Goto, GiveUp, NextRequest
<1>2. CountInv => CountInv'  BY <1>1 DEF CountInv
<1>3. CASE state' = "ASK_LINE"
  <2>1. TransferStep  BY <1>1, <1>3, InTransfer
  <2> QED  BY <1>2, <2>1
<1>4. CASE state' = "TIMEOUT"
  <2>1. Phase = "transfer"  BY DEF Phase
  <2>2. TransferStep  BY <1>1, <1>4, <2>1, Fails
  <2> QED  BY <1>2, <2>2
<1> QED  BY <1>1, <1>3, <1>4

(* A record that was accepted to its last word is the requested one, and   *)
(* all of its words are in flash.                                          *)
LEMMA AcceptedIsStored ==
  ASSUME EachRecordTells, IInv, OrderInv, ImageInv, TickProgrammed
  PROVE  requested_line \in Stored
<1>1. pc = "prog" /\ off >= Len(Words)  BY DEF TickProgrammed
<1>2. PICK n \in 1 .. Lines : Line = Record(n) /\ Words = Image[n]
  BY <1>1, RecordInHand
<1>3. Image[n] \in Seq(Addr \ {DoneAddr})  BY ImageInRegion
<1>4. off \in Nat  BY DEF IInv, TypeOK, EngineTypeOK
<1>5. \A i \in DOMAIN Words : i <= off
  BY <1>1, <1>2, <1>3, <1>4
<1>6. \E i \in DOMAIN Words : Words[i] \notin Transparent
  BY <1>2 DEF EachRecordTells
<1>7. n = requested_line
  <2>1. \A i : Record(i).arg[1] = i  BY DEF Record
  <2>2. Record(n) = Record(requested_line)
    BY <1>1, <1>2, <1>5, <1>6 DEF ImageInv, ProgInv
  <2> QED  BY <2>1, <2>2
<1>8. \A a \in AddrsOf(n) : flash[a] = "new"
  BY <1>1, <1>2, <1>5 DEF ImageInv, ProgInv, AddrsOf
<1> QED  BY <1>7, <1>8 DEF Stored

LEMMA LinePhaseTransfer ==
  ASSUME ~Rewrite, EachRecordTells, IInv, OrderInv, ImageInv, CountInv,
         TickLinePhase
  PROVE  TransferStep /\ CountInv'
<1> USE DEF Goto, Case
<1>0. /\ requested_line \in Nat /\ rx_buf \in Seq(Byte)
      /\ flash \in [Addr -> Value]
      /\ PlaceInv
  BY DEF IInv, TypeOK, EngineTypeOK, FlashTypeOK, RegionInv
(* Most steps stay within the transfer and change neither the line counter *)
(* nor what is stored.                                                     *)
<1>1. ASSUME state \in {"ASK_LINE", "WAIT_LINE"}, pc # "app",
             state' \in {"ASK_LINE", "WAIT_LINE"}, pc' # "app",
             requested_line' = requested_line,
             \A a \in Addr : flash[a] = "new" => flash'[a] = "new"
      PROVE  TransferStep /\ CountInv'
  <2>1. CountInv'  BY <1>1 DEF CountInv
  <2> QED  BY <1>1, <2>1, MoreStored, InTransfer
<1>2. CASE TickAskLine
  BY <1>1, <1>2 DEF TickAskLine, hwVars
<1>3. CASE TickAskedLine
  BY <1>1, <1>3 DEF TickAskedLine, hwVars
<1>4. CASE TickTerminator
  <2>1. Due(Line, requested_line)
    BY <1>0, LineDue DEF OrderInv, ArrivingInv, Line
  <2>2. Line = Terminator
    BY <1>0, <1>4, LineTerminator DEF TickTerminator, Line
  <2>3. requested_line > Lines  BY <2>1, <2>2 DEF Due
  <2>4. /\ state = "WAIT_LINE" /\ pc = "switch"
        /\ state' = "MARK_DONE" /\ pc' = "idle" /\ flash' = flash
        /\ requested_line' = requested_line
    BY <1>4 DEF TickTerminator, hwVars
  <2>5. CountInv'  BY <2>3, <2>4 DEF CountInv
  <2> QED  BY <2>4, <2>5, MoreStored, InTransfer
<1>5. CASE TickBadLine
  BY <1>5, MoreStored, RejectTransfer DEF TickBadLine
<1>6. CASE TickRecord
  BY <1>1, <1>6 DEF TickRecord, hwVars
<1>7. CASE TickProgramWord
  <2>1. \A b \in Addr : flash[b] = "new" => flash'[b] = "new"
    BY <1>0, <1>7 DEF TickProgramWord, Program
  <2>2. /\ state = "WAIT_LINE" /\ state' = state
        /\ pc = "prog" /\ pc' = pc /\ requested_line' = requested_line
    BY <1>0, <1>7 DEF TickProgramWord, NextWord, PlaceInv
  <2> QED  BY <1>1, <2>1, <2>2
<1>8. CASE TickProgramFails
  <2>1. \A b \in Addr : flash[b] = "new" => flash'[b] = "new"
    BY <1>0, <1>8, ErrorKeepsNew DEF TickProgramFails
  <2> QED
    BY <1>0, <1>8, <2>1, MoreStored, RejectTransfer
    DEF TickProgramFails, PlaceInv
<1>9. CASE TickProgramWeak
  <2>1. \A b \in Addr : flash[b] = "new" => flash'[b] = "new"
    BY <1>0, <1>9 DEF TickProgramWeak, MayProgram, Inert, Program
  <2> QED
    BY <1>0, <1>9, <2>1, MoreStored, RejectTransfer
    DEF TickProgramWeak, ReadBackDiffers, PlaceInv
<1>10. CASE TickProgrammed
  <2>1. /\ state = "WAIT_LINE" /\ state' = "ASK_LINE"
        /\ pc # "app" /\ pc' = "idle" /\ flash' = flash
        /\ requested_line' = requested_line + 1
    BY <1>0, <1>10 DEF TickProgrammed, NextRequest, PlaceInv, hwVars
  <2>2. requested_line \in Stored  BY <1>10, AcceptedIsStored
  <2>3. requested_line \in 1 .. Lines  BY <2>2 DEF Stored
  <2>4. Phase = "transfer" /\ Phase' = "transfer"  BY <2>1 DEF Phase
  <2>5. Acked = requested_line - 1 /\ Acked' = requested_line
    BY <1>0, <2>1, <2>3 DEF Acked
  <2>6. Acked + 1 \in Stored /\ Acked' = Acked + 1
    BY <1>0, <2>2, <2>5
  <2>7. TransferStep
    BY <2>1, <2>4, <2>6, SameStored
    DEF TransferStep, Sender!TransferNext, Sender!Acknowledge
  <2>8. CountInv'  BY <1>0, <2>1, <2>3, LinesNat DEF CountInv
  <2> QED  BY <2>7, <2>8
<1>11. CASE TickWaitLine
  <2>1. /\ state' \in {"WAIT_LINE", "ASK_LINE", "TIMEOUT"} /\ pc' = "idle"
        /\ state = "WAIT_LINE" /\ pc = "switch" /\ flash' = flash
        /\ requested_line' = requested_line
    BY <1>11, CountdownPlaces DEF TickWaitLine, GiveUp, hwVars
  <2>2. CASE state' # "TIMEOUT"  BY <1>1, <2>1, <2>2
  <2>3. CASE state' = "TIMEOUT"
    <3>1. Phase = "transfer"  BY <2>1 DEF Phase
    <3>2. CountInv'  BY <2>1, <2>3 DEF CountInv
    <3> QED  BY <2>1, <2>3, <3>1, <3>2, SameStored, Fails
  <2> QED  BY <2>2, <2>3
<1> QED
  BY <1>2, <1>3, <1>4, <1>5, <1>6, <1>7, <1>8, <1>9, <1>10, <1>11
  DEF TickLinePhase

LEMMA FinalPhaseTransfer ==
  ASSUME TypeOK, PlaceInv, ImageInv, CountInv, TickFinalPhase
  PROVE  TransferStep /\ CountInv'
<1> USE DEF Goto, Case, hwVars
<1>0. requested_line \in Nat  BY DEF TypeOK, EngineTypeOK
<1>1. CASE TickMark
  <2>1. /\ state = "MARK_DONE" /\ state' = state
        /\ pc = "switch" /\ pc' = "marked" /\ requested_line' = requested_line
    BY <1>1 DEF TickMark
  <2>2. \A a \in Addr \ {DoneAddr} : flash'[a] = flash[a]
    BY <1>1 DEF TickMark, Program, TypeOK, EngineTypeOK, FlashTypeOK
  <2>3. Stored' = Stored  BY <2>2, ImageInRegion DEF Stored
  <2>4. Phase' = Phase /\ Acked' = Acked  BY <2>1 DEF Phase, Acked
  <2> QED  BY <2>1, <2>3, <2>4, Stutter DEF CountInv
<1>2. CASE TickMarkFails
  <2>1. /\ state = "MARK_DONE" /\ state' = "TIMEOUT"
        /\ pc = "switch" /\ pc' = "idle"
        /\ requested_line' = requested_line
    BY <1>2 DEF TickMarkFails
  <2>2. \A a \in Addr \ {DoneAddr} : flash'[a] = flash[a]
    BY <1>2
    DEF TickMarkFails, ReportsError, Program, TypeOK, EngineTypeOK,
        FlashTypeOK
  <2>3. Stored' = Stored  BY <2>2, ImageInRegion DEF Stored
  <2>4. Phase = "transfer"  BY <2>1 DEF Phase
  <2> QED  BY <2>1, <2>3, <2>4, Fails DEF CountInv
<1>3. CASE TickMarked
  <2>1. /\ state = "MARK_DONE" /\ state' = "BOOT"
        /\ pc = "marked" /\ pc' = "idle" /\ flash' = flash
        /\ requested_line' = requested_line
    BY <1>3 DEF TickMarked, PlaceInv
  <2>2. requested_line = Lines + 1
    BY <1>0, <2>1, LinesNat DEF CountInv
  <2>3. Acked = Lines /\ Acked' = Acked
    BY <2>1, <2>2, LinesNat DEF Acked
  <2>4. Phase = "transfer"  BY <2>1 DEF Phase
  <2>5. Phase' = "announced"
    BY <2>1, <2>2, LinesNat DEF Phase
  <2>6. Whole  BY <2>1 DEF ImageInv, DoneInv
  <2>7. Stored = 1 .. Lines  BY <2>6 DEF Stored, Whole, ImageAddrs
  <2>8. TransferStep
    BY <2>1, <2>3, <2>4, <2>5, <2>7, SameStored
    DEF TransferStep, Sender!TransferNext, Sender!Announce
  <2> QED  BY <2>1, <2>8 DEF CountInv
<1>4. CASE TickBoot
  <2>1. /\ state = "BOOT" /\ state' = state /\ pc = "switch" /\ pc' = "app"
        /\ requested_line' = requested_line /\ flash' = flash
    BY <1>4 DEF TickBoot
  <2>2. Phase \in {"deciding", "announced"} /\ Phase' = "running"
    BY <2>1 DEF Phase
  <2>3. TransferStep
    BY <2>1, <2>2, SameStored
    DEF TransferStep, Sender!TransferNext, Sender!Start, Acked
  <2> QED  BY <2>1, <2>3 DEF CountInv
<1>5. CASE TickTimeout
  <2>1. /\ state = "TIMEOUT" /\ state' = state /\ pc = "switch"
        /\ pc' = "idle" /\ requested_line' = requested_line
        /\ flash' = flash
    BY <1>5 DEF TickTimeout
  <2>2. Phase' = Phase /\ Acked' = Acked  BY <2>1 DEF Phase, Acked
  <2> QED  BY <2>1, <2>2, SameStored, Stutter DEF CountInv
<1> QED  BY <1>1, <1>2, <1>3, <1>4, <1>5 DEF TickFinalPhase

LEMMA TransferHolds ==
  ASSUME ~Rewrite, EachRecordTells, IInv, OrderInv, ImageInv, CountInv,
         [SettledNext]_vars
  PROVE  TransferStep /\ CountInv'
<1>1. ASSUME UNCHANGED <<state, pc, requested_line, flash>>
      PROVE  TransferStep /\ CountInv'
  BY <1>1, SamePlace DEF CountInv
<1>2. CASE MainLoop
  <2>1. CASE TickDrainAck \/ TickDrainErr \/ TickDrained
    <3>1. /\ UNCHANGED <<state, requested_line, flash>>
          /\ pc # "app" /\ pc' # "app"
      BY <2>1 DEF TickDrainAck, TickDrainErr, TickDrained, hwVars
    <3>2. Phase' = Phase /\ Acked' = Acked  BY <3>1 DEF Phase, Acked
    <3> QED  BY <3>1, <3>2, SameStored, Stutter DEF CountInv
  <2>2. PhaseInv /\ TypeOK /\ PlaceInv
    BY DEF OrderInv, IInv, RegionInv
  <2> QED
    BY <1>2, <2>1, <2>2, VersionPhaseTransfer, ErasePhaseTransfer,
       LinePhaseTransfer, FinalPhaseTransfer
    DEF MainLoop, Tick
<1>3. CASE Isr
  BY <1>1, <1>3 DEF Isr, FeedByte, hwVars
<1>4. CASE AppAnswer \/ AppSilent \/ EarlyAnswer \/ Garble
  BY <1>1, <1>4
  DEF AppAnswer, AppSilent, EarlyAnswer, Garble, Answer, TakeRequest, hwVars
<1>5. CASE LoseByte \/ StrayNewline \/ UNCHANGED vars
  BY <1>1, <1>5
  DEF LoseByte, StrayNewline, vars, engineVars, hwVars
<1>6. CASE Reset /\ Quiet
  <2>1. /\ state' = "INIT" /\ pc' = "idle" /\ requested_line' = 0
        /\ flash' = flash
    BY <1>6 DEF Reset, RestartContext
  <2>2. Phase' = "deciding" /\ Acked' = 0  BY <2>1 DEF Phase, Acked
  <2>3. TransferStep
    BY <2>1, <2>2, SameStored
    DEF TransferStep, Sender!TransferNext, Sender!Restart
  <2> QED  BY <2>1, <2>3, LinesNat DEF CountInv
<1> QED  BY <1>2, <1>3, <1>4, <1>5, <1>6 DEF SettledNext

-----------------------------------------------------------------------------
(* On a controller that refuses a word it holds, with a word that is not   *)
(* transparent in each record, and when resets find the line quiet,        *)
(* armbl_tick implements ImageTransfer: records are stored in order, each  *)
(* before it is acknowledged, DONE comes after the last, and only a reset  *)
(* takes anything back (ST_ASK_LINE to ST_BOOT).                           *)
THEOREM TransferImplemented ==
  ASSUME ~Rewrite, EachRecordTells
  PROVE  SettledSpec => TransferInOrder
<1>1. Init => CountInv
  BY LinesNat DEF Init, InitContext, CountInv
<1>2. Init => Sender!TransferInit
  BY DEF Init, InitContext, Sender!TransferInit, Phase, Acked, Stored
<1>3. /\ IInv /\ OrderInv /\ ImageInv /\ CountInv /\ [SettledNext]_vars
        => CountInv'
      /\ IInv /\ OrderInv /\ ImageInv /\ CountInv /\ [SettledNext]_vars
        => [Sender!TransferNext]_(Sender!transferVars)
  BY TransferHolds DEF TransferStep
<1> QED
  BY <1>1, <1>2, <1>3, SettledInvariance, PTL
  DEF SettledSpec, TransferInOrder, Sender!TransferSpec

=============================================================================
