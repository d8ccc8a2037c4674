----------------------------- MODULE HostCheck ------------------------------
(***************************************************************************)
(* The repository's self-test, host_check.c: four tests, each a script of  *)
(* lines fed and ticks called, run against the engine of ArmblEngine.  The *)
(* lines are the test's own characters (addresses cut to 24 bits); what    *)
(* the engine takes them for is what the parsers of LineFormat make of     *)
(* them.                                                                   *)
(***************************************************************************)
EXTENDS ArmblEngine

APP_START == \h4000
APP_END == \hFBFF
ARMBL_LINE_MAX == 128

Text == INSTANCE LineFormat
          WITH AddrBytes <- 3, LINE_MAX <- ARMBL_LINE_MAX,
               app_start_addr <- APP_START, app_end_addr <- APP_END

VARIABLES
  test, step,     (* The instruction the test is at.                        *)
  max_ticks,      (* Ticks its tick_until may still call.                   *)
  feed,           (* Bytes its feed_line has still to feed.                 *)
  g_tx_lines,     (* The lines sent since the last clear_tx.                *)
  g_erase_calls, g_jumped,
  fails

hostVars == <<test, step, max_ticks, feed, g_tx_lines, g_erase_calls, g_jumped,
              fails>>

-----------------------------------------------------------------------------
(* The lines.                                                              *)

fw ==
  << 0, 4, 0, 32, 129, 64, 0, 8, 222, 173, 190, 239, 202, 254, 186, 190,
     17, 34, 51, 68, 85, 102, 119, 136, 153, 170, 187, 204, 1, 2, 3, 4 >>

rec1 == Text!SRecord("3", APP_START, SubSeq(fw, 1, 16))
rec2 == Text!SRecord("3", APP_START + 16, SubSeq(fw, 17, 32))
term == Text!SRecord("7", APP_START, <<>>)

data == <<170, 187, 204, 221>>

(* The last character of the checksum is a decimal digit, so changing its  *)
(* lowest bit makes it the other one of a pair of digits.                  *)
bad_checksum ==
  LET rec == Text!SRecord("3", APP_START, data)
      d == Text!Digit(rec[Len(rec)])
  IN  [rec EXCEPT ![Len(rec)] = Text!Dec[(IF d % 2 = 0 THEN d + 1 ELSE d - 1) + 1]]

bad_address == Text!SRecord("3", 0, data)

oversize == [i \in 1 .. ARMBL_LINE_MAX + 16 |-> "X"]

V00 == <<"V", " ", "0", " ", "0">>

(* A line in rx_buf, and what the parsers make of it.                      *)
Buffer(l) ==
  [i \in 1 .. ARMBL_LINE_MAX |-> IF i <= Len(l) THEN l[i] ELSE Text!Other]

Meaning(l) ==
  LET buf == Buffer(l) IN
  IF Len(l) > ARMBL_LINE_MAX THEN Overlong
  ELSE IF Text!VersionIn(buf, Len(l)) # {}
    THEN Version(CHOOSE v \in Text!VersionIn(buf, Len(l)) : TRUE)
  ELSE IF Text!check_terminator(buf, Len(l)) THEN Terminator
  ELSE IF Text!Refusal(buf, Len(l)) # "none" THEN Junk
  ELSE Record(((Text!Decoded(buf).addr - APP_START) \div 16) + 1)

-----------------------------------------------------------------------------
(* The scripts.  Lines sent are written as their words.                    *)

Until(line, n) == [op |-> "until", arg |-> line, n |-> n]
FeedLine(l)    == [op |-> "feed",  arg |-> l, n |-> 0]
ClearTx        == [op |-> "clear", arg |-> <<>>, n |-> 0]
CHECK(what)    == [op |-> "check", arg |-> what, n |-> 0]

armbl_tick == Until(<<>>, 1)

LineReq(n) == <<"L?">> \o Text!u16_to_dec(n)

Acked(n) ==
  <<armbl_tick, armbl_tick, CHECK(<<"OK">>), CHECK(LineReq(n)), ClearTx>>

happy_path ==
  <<Until(<<"V?">>, 5), CHECK(<<"V?">>), FeedLine(V00), ClearTx,
    Until(LineReq(1), 10), CHECK(<<"erased once">>), CHECK(LineReq(1)), ClearTx,
    FeedLine(rec1)>> \o Acked(2) \o <<FeedLine(rec2)>> \o Acked(3) \o
  <<FeedLine(term), Until(<<"DONE">>, 10), armbl_tick,
    CHECK(<<"DONE">>), CHECK(<<"jumped">>), CHECK(<<"image">>),
    CHECK(<<"sentinel">>)>>

prime_for_line_input ==
  <<Until(<<"V?">>, 5), FeedLine(V00), Until(LineReq(1), 10), ClearTx>>

Negative(l, ticks, err) ==
  prime_for_line_input \o <<FeedLine(l)>> \o [i \in 1 .. ticks |-> armbl_tick]
    \o <<CHECK(<<"ERR", err>>)>>

Tests ==
  <<happy_path, Negative(bad_checksum, 2, "csum"),
    Negative(bad_address, 2, "addr"), Negative(oversize, 1, "len")>>

Instr == Tests[test][step]

-----------------------------------------------------------------------------
(* A CHECK holds: something was sent, or is so in the mocks.               *)
Holds(what) ==
  CASE what = <<"erased once">> -> g_erase_calls = 1
    [] what = <<"jumped">> -> g_jumped
    [] what = <<"image">> ->
         \A n \in 1 .. Lines : \A i \in DOMAIN Image[n] :
           flash[Image[n][i]] = "new"
    [] what = <<"sentinel">> -> flash[DoneAddr] = "set"
    [] OTHER -> what \in g_tx_lines

(* What the next step of armbl_tick sends.                                 *)
Output ==
  (IF pc = "idle" /\ pending_ack THEN {<<"OK">>} ELSE {})
    \cup (IF pc = "drain" /\ pending_err # "none"
          THEN {<<"ERR", pending_err>>} ELSE {})
    \cup (IF Case("ASK_VER") THEN {<<"V?">>} ELSE {})
    \cup (IF Case("ASK_LINE") THEN {LineReq(requested_line)} ELSE {})
    \cup (IF pc = "marked" THEN {<<"DONE">>} ELSE {})

(* tick_until stops: saw_v_request, saw_first_line_request,                *)
(* saw_done_or_jumped, or no tick left.                                    *)
Stop ==
  /\ pc \in {"idle", "app"}
  /\ max_ticks = 0 \/ Instr.arg \in g_tx_lines

(* The test goes on to instruction s.                                      *)
Enter(t, s) ==
  LET more == s \in DOMAIN Tests[t]
      i == Tests[t][s]
  IN  /\ step' = s
      /\ max_ticks' = IF more /\ i.op = "until" THEN i.n ELSE 0
      /\ feed' = IF more /\ i.op = "feed" THEN Body(Meaning(i.arg)) \o <<NL>>
                 ELSE <<>>

At(op) == test \in DOMAIN Tests /\ step \in DOMAIN Tests[test] /\ Instr.op = op

(* The line being parsed is the one fed last; it is rejected for the       *)
(* reason that parse_s3 has.                                               *)
Rejected ==
  LET l == Tests[test][step - 1].arg IN
  Case("WAIT_LINE") /\ rx_line_ready /\ Line = Junk =>
    pending_err' = Text!Refusal(Buffer(l), Len(l))

TickUntil ==
  /\ At("until") /\ ~Stop
  /\ Tick /\ Rejected
  /\ max_ticks' = IF pc = "idle" THEN max_ticks - 1 ELSE max_ticks
  /\ g_tx_lines' = g_tx_lines \cup Output
  /\ g_erase_calls' = IF pc' # "erase" /\ pc = "erase" /\ off > LastPage
                      THEN g_erase_calls + 1 ELSE g_erase_calls
  /\ g_jumped' = (g_jumped \/ pc' = "app")
  /\ UNCHANGED <<test, step, feed, fails>>

TickUntilEnds ==
  /\ At("until") /\ Stop
  /\ Enter(test, step + 1)
  /\ UNCHANGED <<engineVars, test, g_tx_lines, g_erase_calls, g_jumped, fails>>

feed_line ==
  /\ At("feed")
  /\ \/ /\ feed # <<>>
        /\ FeedByte(Head(feed))
        /\ feed' = Tail(feed)
        /\ UNCHANGED <<step, max_ticks>>
     \/ /\ feed = <<>>
        /\ Enter(test, step + 1)
        /\ UNCHANGED engineVars
  /\ UNCHANGED <<test, g_tx_lines, g_erase_calls, g_jumped, fails>>

clear_tx ==
  /\ At("clear")
  /\ g_tx_lines' = {}
  /\ Enter(test, step + 1)
  /\ UNCHANGED <<engineVars, test, g_erase_calls, g_jumped, fails>>

Check ==
  /\ At("check")
  /\ fails' = IF Holds(Instr.arg) THEN fails ELSE fails + 1
  /\ Enter(test, step + 1)
  /\ UNCHANGED <<engineVars, test, g_tx_lines, g_erase_calls, g_jumped>>

(* The next test begins with reset_world and armbl_init.                   *)
NextTest ==
  /\ test \in DOMAIN Tests /\ step \notin DOMAIN Tests[test]
  /\ test' = test + 1
  /\ IF test' \in DOMAIN Tests THEN Enter(test', 1)
     ELSE UNCHANGED <<step, max_ticks, feed>>
  /\ RestartContext
  /\ flash' = [a \in Addr |-> "erased"]
  /\ g_tx_lines' = {} /\ g_erase_calls' = 0 /\ g_jumped' = FALSE
  /\ UNCHANGED <<faults_left, reqs, fails>>

-----------------------------------------------------------------------------
HostInit ==
  /\ InitContext
  /\ flash = [a \in Addr |-> "erased"]
  /\ faults_left = 0 /\ reqs = <<>>
  /\ test = 1 /\ step = 1 /\ max_ticks = 5 /\ feed = <<>>
  /\ g_tx_lines = {} /\ g_erase_calls = 0 /\ g_jumped = FALSE
  /\ fails = 0

HostNext == TickUntil \/ TickUntilEnds \/ feed_line \/ clear_tx \/ Check \/ NextTest

HostSpec == HostInit /\ [][HostNext]_<<engineVars, hostVars>>
              /\ WF_<<engineVars, hostVars>>(HostNext)

-----------------------------------------------------------------------------
(* Properties.                                                             *)

(* main of host_check.c comes to its end and prints "armbl: All OK.": the  *)
(* engine as it is modelled passes the test its authors run, in as many    *)
(* ticks as that allows.                                                   *)
PrintsAllOK == <>(test \notin DOMAIN Tests /\ fails = 0)

=============================================================================
