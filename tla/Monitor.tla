------------------------------ MODULE Monitor -------------------------------
(***************************************************************************)
(* The text screen of monitor.c: the cursor, the wrap at the last column,  *)
(* the scroll at the last row, the status texts at the right edge and the  *)
(* hardware cursor.                                                        *)
(*                                                                         *)
(* Until `sti' the boot thread writes undisturbed.  After it, a tick can   *)
(* take the processor away in the middle of __monitor_put(); task_switch() *)
(* saves nothing, so the rest of that put is never executed, and what is   *)
(* written next comes from tasks, through system calls that no interrupt   *)
(* disturbs.                                                               *)
(*                                                                         *)
(* A character stands for its glyph and its colours.                       *)
(***************************************************************************)
EXTENDS Integers, Sequences

CONSTANTS
    Cols, Rows,     \* 80 and 25
    TabStop,        \* 8
    Printable,      \* characters with a glyph
    Status,         \* a status text with its brackets
    BootTexts,      \* lines the boot thread writes after `sti'
    TaskTexts,      \* what tasks write
    MaxTexts        \* bound: number of texts

(* In a text, "status" is the assignment to cur_x before a status text.    *)
Controls == {"nl", "cr", "tab", "bs"}
Chars    == Printable \cup Controls
Texts    == BootTexts \cup TaskTexts

ASSUME MonitorAssumption ==
    /\ Rows \in Nat /\ Rows > 1 /\ Cols \in Nat \ {0} /\ TabStop \in Nat \ {0}
    /\ Cols % TabStop = 0
    /\ Status \in Seq(Printable) /\ Len(Status) \in 1 .. Cols
    /\ Texts \subseteq Seq(Chars \cup {"status"})
    /\ Printable \cap (Controls \cup {"status", "blank"}) = {}

(* The rest of a line from column x on: characters and, before the last    *)
(* column, a line feed, or characters and a status text.                   *)
EndsInNewline(t, x) ==
    /\ t # << >> /\ t[Len(t)] = "nl" /\ x + Len(t) < Cols
    /\ \A i \in 1 .. Len(t) - 1 : t[i] \in Printable
EndsInStatus(t, x) ==
    \E s \in 1 .. Len(t) :
        /\ t[s] = "status" /\ Len(t) - s = Len(Status) /\ x + s <= Cols
        /\ \A i \in 1 .. Len(t) \ {s} : t[i] \in Printable

(* What __kmain() writes after `sti' are such lines; what umode(), umode2() *)
(* and the system calls write begins with a character.                     *)
ASSUME TextsAssumption ==
    /\ Cols > 1
    /\ \A t \in BootTexts : EndsInNewline(t, 0) \/ EndsInStatus(t, 0)
    /\ \A t \in TaskTexts : t \in Seq(Chars) /\ t # << >> /\ t[1] \in Printable

VARIABLES
    mon,        \* the screen, its cursor and what is remembered about them
    todo,       \* what is left of the text being written
    phase,      \* "early" before `sti', "live" after it, "tasks" after a tick
    torn,       \* history: a tick cut a put short
    resumed,    \* history: a put was completed after the tick
    texts       \* number of texts so far

vars == << mon, todo, phase, torn, resumed, texts >>

BlankRow == [c \in 0 .. Cols - 1 |-> "blank"]

(* kmain() begins with monitor_clear(); cur_x and cur_y start as 0.        *)
(* scrolled are the rows that left the screen, below the rows under the    *)
(* screen in which characters were stored.                                 *)
monitor_clear ==
    [screen |-> [r \in 0 .. Rows - 1 |-> BlankRow], x |-> 0, y |-> 0, hw |-> 0,
     scrolled |-> << >>, below |-> {}]

Init ==
    /\ mon = monitor_clear
    /\ todo = << >> /\ phase = "early" /\ torn = FALSE /\ resumed = FALSE
    /\ texts = 0
-----------------------------------------------------------------------------
(* __monitor_put(ch), assignment by assignment, in the order of the        *)
(* source; m is the state so far, at the state in which the put began.     *)

(* Columns are counted on into the next row.                               *)
Store(ch, m) ==
    LET r == m.y + m.x \div Cols
    IN  IF ch \in Controls THEN m
        ELSE IF r < Rows THEN [m EXCEPT !.screen[r][m.x % Cols] = ch]
        ELSE [m EXCEPT !.below = @ \cup {r}]

LineFeed(ch, m) == IF ch = "nl" THEN [m EXCEPT !.y = @ + 1] ELSE m

(* The column after the character, before the wrap.                        *)
MutAdvanceTabOdd(ch, x) ==
    CASE ch = "bs"  -> IF x = 0 THEN 0 ELSE x - 1
      [] ch = "tab" -> x + TabStop
      [] ch \in {"cr", "nl"} -> 0
      [] OTHER -> x + 1
Advance(ch, x) ==
    CASE ch = "bs"  -> IF x = 0 THEN 0 ELSE x - 1
      [] ch = "tab" -> ((x + TabStop) \div TabStop) * TabStop
      [] ch \in {"cr", "nl"} -> 0
      [] OTHER -> x + 1
Wraps(ch, x) == Advance(ch, x) >= Cols

Column(ch, at, m)     == [m EXCEPT !.x = Advance(ch, at.x)]
WrapColumn(ch, at, m) == IF Wraps(ch, at.x) THEN [m EXCEPT !.x = 0] ELSE m
WrapRow(ch, at, m)    == IF Wraps(ch, at.x) THEN [m EXCEPT !.y = @ + 1] ELSE m

(* The first k assignments of scroll(): rows move up one after the other,  *)
(* the last one is made blank, the cursor goes there.                      *)
MutScrollsLate(m) == m.y = Rows + 1
Scrolls(m) == m.y = Rows
scroll(k, m) ==
    IF ~Scrolls(m) THEN m
    ELSE [m EXCEPT
            !.screen = [r \in 0 .. Rows - 1 |->
                          IF r < Rows - 1 THEN m.screen[IF r < k THEN r + 1 ELSE r]
                          ELSE IF k >= Rows THEN BlankRow ELSE m.screen[r]],
            !.y = IF k > Rows THEN Rows - 1 ELSE @,
            !.scrolled = IF k > Rows THEN Append(@, m.screen[0]) ELSE @]

move_cursor(m) == [m EXCEPT !.hw = Cols * m.y + m.x]

(* The state after the first k assignments of a put: five before scroll(), *)
(* one for each row and one more in it, and the hardware cursor.           *)
LastStage == Rows + 7
__monitor_put(ch, k) ==
    LET m1 == Store(ch, mon)
        m2 == IF k < 2 THEN m1 ELSE LineFeed(ch, m1)
        m3 == IF k < 3 THEN m2 ELSE Column(ch, mon, m2)
        m4 == IF k < 4 THEN m3 ELSE WrapColumn(ch, mon, m3)
        m5 == IF k < 5 THEN m4 ELSE WrapRow(ch, mon, m4)
        m6 == IF k < 6 THEN m5 ELSE scroll(k - 5, m5)
    IN  IF k < LastStage THEN m6 ELSE move_cursor(m6)
-----------------------------------------------------------------------------
(* monitor_write(), monitor_put() or monitor_write_status() is called.     *)
EarlyTexts == { << ch >> : ch \in Chars } \cup { << "status" >> \o Status }
monitor_write ==
    /\ todo = << >> /\ texts < MaxTexts
    /\ todo' \in CASE phase = "early" -> EarlyTexts
                   [] phase = "live"  -> BootTexts
                   [] phase = "tasks" -> TaskTexts
    /\ texts' = texts + 1
    /\ UNCHANGED << mon, phase, torn, resumed >>

monitor_put ==
    /\ todo # << >> /\ Head(todo) # "status"
    /\ mon' = __monitor_put(Head(todo), LastStage)
    /\ todo' = Tail(todo)
    /\ resumed' = (phase = "tasks")
    /\ UNCHANGED << phase, torn, texts >>

monitor_write_status ==
    /\ todo # << >> /\ Head(todo) = "status"
    /\ mon' = [mon EXCEPT !.x = Cols - Len(Status)]
    /\ todo' = Tail(todo)
    /\ UNCHANGED << phase, torn, resumed, texts >>

(* `sti' in __kmain(), after a status text: the cursor is in column 0.     *)
sti ==
    /\ phase = "early" /\ todo = << >> /\ mon.x = 0
    /\ phase' = "live"
    /\ UNCHANGED << mon, todo, torn, resumed, texts >>

(* The tick that ends the boot thread, in the middle of a put ...          *)
TickInPut(k) ==
    /\ phase = "live" /\ todo # << >> /\ Head(todo) # "status"
    /\ mon' = __monitor_put(Head(todo), k)
    /\ phase' = "tasks" /\ torn' = TRUE /\ todo' = << >>
    /\ UNCHANGED << resumed, texts >>

(* ... or between two.                                                     *)
Tick ==
    /\ phase = "live"
    /\ phase' = "tasks" /\ todo' = << >>
    /\ UNCHANGED << mon, torn, resumed, texts >>

(* The bound on the number of texts is reached.                            *)
Silent == texts = MaxTexts /\ todo = << >> /\ UNCHANGED vars

Next ==
    \/ monitor_write \/ monitor_put \/ monitor_write_status
    \/ sti
    \/ \E k \in 1 .. LastStage - 1 : TickInPut(k)
    \/ Tick
    \/ Silent

Spec == Init /\ [][Next]_vars
-----------------------------------------------------------------------------
(* After every completed put the hardware cursor is where the next         *)
(* character goes, also when a put before it was cut short.                *)
CursorFollows ==
    todo = << >> /\ (phase = "tasks" => resumed) => mon.hw = Cols * mon.y + mon.x

(* Characters go to the screen, and the hardware cursor follows.  Only a   *)
(* put that a tick cut short leaves the cursor elsewhere: behind the last  *)
(* column, between the step to there and the wrap, or below the screen,    *)
(* between the step to a new line and the scroll.  Then one character may  *)
(* be stored in the row below the screen, and completing that put wraps or *)
(* scrolls and brings the cursor back.  It holds since the texts of the    *)
(* tasks begin with a character that ends no line: scroll() tests for      *)
(* equality, and would never scroll again.                                 *)
OnScreen ==
    /\ mon.x \in 0 .. Cols - 1 \/ (mon.x = Cols /\ torn /\ ~resumed)
    /\ mon.y < Rows \/ (mon.y = Rows /\ mon.x < Cols /\ torn /\ ~resumed)
    /\ mon.below \subseteq (IF torn /\ resumed THEN {Rows} ELSE {})
    /\ CursorFollows

(* Until a put is cut short, the screen and the rows that have left it are *)
(* the sheet of paper of Terminal: wrapping, scrolling and status texts    *)
(* neither lose nor overwrite what should stay.                            *)
Rowwise(m) == m.scrolled \o [r \in 1 .. Rows |-> m.screen[r - 1]]
paper == IF torn THEN << >> ELSE Rowwise(mon)
row   == IF torn THEN 0 ELSE Len(mon.scrolled) + mon.y
col   == IF torn THEN 0 ELSE mon.x
Sheet == INSTANCE Terminal WITH StatusLength <- Len(Status)
IsTerminal == Sheet!Spec
=============================================================================
