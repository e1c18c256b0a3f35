---------------------------- MODULE MonitorProofs ----------------------------
(***************************************************************************)
(* Proofs about Monitor, for every size of the screen and any texts.       *)
(***************************************************************************)
EXTENDS Monitor, DataLemmas

Glyphs   == Printable \cup {"blank"}
RowSet   == [0 .. Cols - 1 -> Glyphs]
Screens  == [screen : [0 .. Rows - 1 -> RowSet], x : Nat, y : Nat, hw : Nat,
             scrolled : Seq(RowSet), below : SUBSET Nat]

TypeOK ==
    /\ mon \in Screens
    /\ todo \in Seq(Chars \cup {"status"})
    /\ phase \in {"early", "live", "tasks"}
    /\ torn \in BOOLEAN /\ resumed \in BOOLEAN

(* A tick ends the boot thread once and for all.                           *)
OnceTorn == phase # "tasks" => ~torn /\ ~resumed

(* What the boot thread still has to write of a line fits the line; what   *)
(* it has written of a status text leaves the rest of it.                  *)
InStatus(t, x) ==
    t # << >> /\ x + Len(t) = Cols /\ \A i \in 1 .. Len(t) : t[i] \in Printable
LineFits ==
    phase = "live" =>
        \/ todo = << >> /\ mon.x = 0
        \/ EndsInNewline(todo, mon.x) \/ EndsInStatus(todo, mon.x) \/ InStatus(todo, mon.x)

(* A status text follows the assignment to cur_x.                          *)
StatusComes == todo # << >> => todo[Len(todo)] # "status"

(* A put that was cut short left the cursor where a character fits, or     *)
(* behind the last column of a row of the screen.                          *)
CutShort ==
    torn /\ ~resumed =>
        /\ mon.y <= Rows /\ (mon.y = Rows => mon.x + 1 < Cols)
        /\ todo # << >> => todo[1] \in Printable

IInv ==
    TypeOK /\ OnceTorn /\ LineFits /\ StatusComes /\ CutShort /\ OnScreen

-----------------------------------------------------------------------------
(* The assignments of a put, one by one.                                   *)

(* Tab stops are multiples of TabStop, and the next one is the next.       *)
LEMMA NextTabStop ==
    ASSUME NEW x \in Nat
    PROVE  /\ (x + TabStop) \div TabStop = x \div TabStop + 1
           /\ ((x + TabStop) \div TabStop) * TabStop \in Nat
<1>1. TabStop \in Nat \ {0}
  BY MonitorAssumption
<1>2. (x + TabStop) \div TabStop = x \div TabStop + 1 /\ x \div TabStop \in Nat
  BY <1>1, NextMultiple, Division
<1> QED BY <1>1, <1>2, SMT

(* What Advance computes, character by character.                          *)
LEMMA AdvanceFacts ==
    ASSUME NEW x \in Nat, NEW ch \in Chars
    PROVE  /\ Advance(ch, x) \in Nat
           /\ ch \in Printable => Advance(ch, x) = x + 1
           /\ ch \in {"nl", "cr"} => Advance(ch, x) = 0
           /\ ch = "bs" => Advance(ch, x) = IF x = 0 THEN 0 ELSE x - 1
           /\ ch = "tab" => Advance(ch, x) = (x \div TabStop + 1) * TabStop
<1>1. Cols \in Nat
  BY MonitorAssumption
<1>2. ch \in Printable => ch \notin Controls
  BY MonitorAssumption
<1>3. ch \in Controls => ch \in {"nl", "cr", "tab", "bs"}
  BY DEF Controls
<1>4. ((x + TabStop) \div TabStop) * TabStop = (x \div TabStop + 1) * TabStop
      /\ ((x + TabStop) \div TabStop) * TabStop \in Nat
  BY <1>1, NextTabStop
<1>5. CASE ch = "tab"
  BY <1>2, <1>4, <1>5 DEF Advance, Controls
<1>6. CASE ch # "tab"
  BY <1>1, <1>2, <1>6 DEF Advance, Controls
<1> QED BY <1>5, <1>6

(* Column Cols is the first one of the next row.                           *)
LEMMA ColumnSplit ==
    ASSUME NEW c \in 0 .. Cols
    PROVE  /\ c % Cols = IF c = Cols THEN 0 ELSE c
           /\ c \div Cols = IF c = Cols THEN 1 ELSE 0
<1>1. Cols \in Nat \ {0} /\ c \in Nat
  BY MonitorAssumption
<1>2. PICK q \in Nat, r \in 0 .. Cols - 1 : q = c \div Cols /\ r = c % Cols /\ c = Cols * q + r
  BY <1>1, Remainder, Division
<1> DEFINE p == IF c = Cols THEN 1 ELSE 0
           s == IF c = Cols THEN 0 ELSE c
<1>3. p \in Nat /\ s \in 0 .. Cols - 1
  BY <1>1
<1>4. c = Cols * p + s
  <2>1. Cols * 1 = Cols /\ Cols * 0 = 0
    BY <1>1, SMT
  <2> QED BY <1>1, <2>1
<1> HIDE DEF p, s
<1>5. q = p
  <2>1. Cols * q + r = Cols * p + s
    BY <1>2, <1>4
  <2> QED BY <1>1, <1>2, <1>3, <2>1, Quotient
<1>6. r = s
  <2>1. Cols * p \in Int
    BY <1>1, <1>3, SMT
  <2>2. Cols * p + r = Cols * p + s
    BY <1>2, <1>4, <1>5
  <2> QED BY <1>1, <1>2, <1>3, <2>1, <2>2
<1> QED BY <1>2, <1>5, <1>6 DEF p, s

(* The character, or nothing, is stored, at most one row further down.     *)
Stored(ch, m, r) ==
    /\ r \in Screens
    /\ r.x = m.x /\ r.y = m.y /\ r.hw = m.hw /\ r.scrolled = m.scrolled
    /\ (m.y < Rows /\ m.x < Cols) \/ ch \in Controls => r.below = m.below
    /\ r.below \subseteq m.below \cup {Rows}
    /\ ch \in Controls => r = m
    /\ ch \in Printable /\ m.y < Rows /\ m.x < Cols =>
         r.screen = [m.screen EXCEPT ![m.y] = [m.screen[m.y] EXCEPT ![m.x] = ch]]

(* What one store to the video buffer changes.                             *)
LEMMA StoreFacts ==
    ASSUME NEW m \in Screens, m.x <= Cols, m.y <= Rows, m.y = Rows => m.x < Cols,
           NEW ch \in Chars, NEW r, r = Store(ch, m)
    PROVE  Stored(ch, m, r)
<1>1. /\ m.y \in Nat /\ m.x \in 0 .. Cols /\ Rows \in Nat /\ Cols \in Nat \ {0}
      /\ m.screen \in [0 .. Rows - 1 -> RowSet]
  BY MonitorAssumption DEF Screens
<1>2. PICK l, c : l = m.y + m.x \div Cols /\ c = m.x % Cols
  OBVIOUS
<1>3. l \in Nat /\ l <= Rows /\ c \in 0 .. Cols - 1 /\ (m.x < Cols => l = m.y /\ c = m.x)
  <2>1. PICK d, e : d = m.x \div Cols /\ e = m.x % Cols
    OBVIOUS
  <2>2. /\ e = IF m.x = Cols THEN 0 ELSE m.x
        /\ d = IF m.x = Cols THEN 1 ELSE 0
    BY <1>1, <2>1, ColumnSplit
  <2>3. l = m.y + d /\ c = e
    BY <1>2, <2>1
  <2> QED BY <1>1, <2>2, <2>3
<1>4. r = IF ch \in Controls THEN m
          ELSE IF l < Rows THEN [m EXCEPT !.screen[l][c] = ch]
          ELSE [m EXCEPT !.below = m.below \cup {l}]
  BY <1>2 DEF Store
<1>5. CASE ch \in Controls
  <2>1. r = m /\ ch \notin Printable
    BY <1>4, <1>5, MonitorAssumption
  <2> QED BY <1>1, <1>5, <2>1 DEF Stored
<1>6. CASE ch \notin Controls /\ l < Rows
  <2> DEFINE line == [m.screen[l] EXCEPT ![c] = ch]
             scr == [m.screen EXCEPT ![l] = line]
  <2>1. l \in 0 .. Rows - 1 /\ m.screen[l] \in RowSet
    BY <1>1, <1>3, <1>6
  <2>2. line \in RowSet
    BY <1>1, <1>3, <1>6, <2>1 DEF RowSet, Glyphs, Chars
  <2>3. scr \in [0 .. Rows - 1 -> RowSet]
    BY <1>1, <2>1, <2>2
  <2>4. r = [m EXCEPT !.screen = scr]
    BY <1>4, <1>6 DEF Screens
  <2> HIDE DEF line, scr
  <2>5. r \in Screens /\ r.screen = scr /\ r.x = m.x /\ r.y = m.y /\ r.hw = m.hw
        /\ r.scrolled = m.scrolled /\ r.below = m.below
    BY <2>3, <2>4 DEF Screens
  <2> QED BY <1>1, <1>3, <1>6, <2>5 DEF Stored, scr, line
<1>7. CASE ch \notin Controls /\ l = Rows
  <2>1. r = [m EXCEPT !.below = m.below \cup {Rows}]
    BY <1>1, <1>4, <1>7 DEF Screens
  <2>2. m.below \cup {Rows} \in SUBSET Nat
    BY <1>1 DEF Screens
  <2>3. r \in Screens /\ r.x = m.x /\ r.y = m.y /\ r.hw = m.hw
        /\ r.scrolled = m.scrolled /\ r.below = m.below \cup {Rows}
    BY <2>1, <2>2 DEF Screens
  <2>4. ~(m.y < Rows /\ m.x < Cols)
    BY <1>1, <1>3, <1>7
  <2> QED BY <1>7, <2>3, <2>4 DEF Stored
<1> QED BY <1>1, <1>3, <1>5, <1>6, <1>7

(* The cursor moves: to the column behind the character, at the end of a   *)
(* row to column 0, then at most a row down.                               *)
Moved(ch, at, m, f, c, v, w) ==
    /\ f \in Screens /\ c \in Screens /\ v \in Screens /\ w \in Screens
    /\ \A r \in {f, c, v, w} : /\ r.screen = m.screen /\ r.scrolled = m.scrolled
                               /\ r.below = m.below /\ r.hw = m.hw
    /\ f.x = m.x
    /\ c.x = Advance(ch, at.x)
    /\ v.x = IF Wraps(ch, at.x) THEN 0 ELSE Advance(ch, at.x)
    /\ w.x = v.x
    /\ f.y = IF ch = "nl" THEN m.y + 1 ELSE m.y
    /\ c.y = f.y /\ v.y = f.y
    /\ w.y = IF Wraps(ch, at.x) THEN f.y + 1 ELSE f.y

(* Where the cursor is after each assignment.                              *)
LEMMA MoveFacts ==
    ASSUME NEW m \in Screens, NEW at \in Screens, NEW ch \in Chars,
           NEW f, f = LineFeed(ch, m), NEW c, c = Column(ch, at, f),
           NEW v, v = WrapColumn(ch, at, c), NEW w, w = WrapRow(ch, at, v)
    PROVE  Moved(ch, at, m, f, c, v, w)
<1>1. at.x \in Nat /\ m.y \in Nat /\ m.y + 1 \in Nat
  BY DEF Screens
<1> DEFINE fy == IF ch = "nl" THEN m.y + 1 ELSE m.y
<1>2. f = [m EXCEPT !.y = fy] /\ fy \in Nat
  BY <1>1 DEF LineFeed, Screens
<1> HIDE DEF fy
<1>3. f \in Screens /\ f.y = fy
      /\ f.screen = m.screen /\ f.scrolled = m.scrolled
      /\ f.below = m.below /\ f.hw = m.hw /\ f.x = m.x
  BY <1>1, <1>2 DEF Screens
<1> DEFINE cx == Advance(ch, at.x)
           vx == IF Wraps(ch, at.x) THEN 0 ELSE Advance(ch, at.x)
           wy == IF Wraps(ch, at.x) THEN f.y + 1 ELSE f.y
<1>4. cx \in Nat /\ vx \in Nat
  BY <1>1, AdvanceFacts
<1>5. wy \in Nat
  BY <1>3 DEF Screens
<1>6. c = [f EXCEPT !.x = cx]
  BY DEF Column
<1>7. v = IF Wraps(ch, at.x) THEN [c EXCEPT !.x = 0] ELSE c
  BY DEF WrapColumn
<1>8. ~Wraps(ch, at.x) => vx = cx
  OBVIOUS
<1>9. Wraps(ch, at.x) => vx = 0
  OBVIOUS
<1> HIDE DEF cx, vx
<1>10. c \in Screens /\ c.x = cx /\ c.y = f.y
       /\ c.screen = f.screen /\ c.scrolled = f.scrolled /\ c.below = f.below /\ c.hw = f.hw
  BY <1>3, <1>4, <1>6 DEF Screens
<1>11. v = [c EXCEPT !.x = vx]
  BY <1>7, <1>8, <1>9, <1>10 DEF Screens
<1>12. v \in Screens /\ v.x = vx /\ v.y = c.y
       /\ v.screen = c.screen /\ v.scrolled = c.scrolled /\ v.below = c.below /\ v.hw = c.hw
  BY <1>4, <1>10, <1>11 DEF Screens
<1>13. w = [v EXCEPT !.y = wy]
  BY <1>10, <1>12 DEF WrapRow, Screens
<1> HIDE DEF wy
<1>14. w \in Screens /\ w.y = wy /\ w.x = v.x
       /\ w.screen = v.screen /\ w.scrolled = v.scrolled /\ w.below = v.below /\ w.hw = v.hw
  BY <1>5, <1>12, <1>13 DEF Screens
<1> QED BY <1>3, <1>10, <1>12, <1>14 DEF fy, cx, vx, wy, Moved

(* scroll() as far as it gets.                                             *)
ScrolledUp(k, m, r) ==
    /\ r \in Screens /\ r.x = m.x /\ r.hw = m.hw /\ r.below = m.below
    /\ m.y # Rows => r = m
    /\ m.y = Rows => r.y = IF k > Rows THEN Rows - 1 ELSE Rows
    /\ m.y = Rows /\ k > Rows =>
         /\ r.scrolled = Append(m.scrolled, m.screen[0])
         /\ \A i \in 0 .. Rows - 1 :
              r.screen[i] = IF i < Rows - 1 THEN m.screen[i + 1] ELSE BlankRow

(* What the screen shows after each copy of scroll().                      *)
LEMMA ScrollFacts ==
    ASSUME NEW m \in Screens, NEW k \in Nat, NEW r, r = scroll(k, m)
    PROVE  ScrolledUp(k, m, r)
<1>1. CASE m.y # Rows
  BY <1>1 DEF scroll, Scrolls, ScrolledUp
<1>2. CASE m.y = Rows
  <2> DEFINE scr == [i \in 0 .. Rows - 1 |->
                       IF i < Rows - 1 THEN m.screen[IF i < k THEN i + 1 ELSE i]
                       ELSE IF k >= Rows THEN BlankRow ELSE m.screen[i]]
             ny == IF k > Rows THEN Rows - 1 ELSE m.y
             sc == IF k > Rows THEN Append(m.scrolled, m.screen[0]) ELSE m.scrolled
  <2>1. Rows \in Nat /\ Rows > 1 /\ m.screen \in [0 .. Rows - 1 -> RowSet]
        /\ m.scrolled \in Seq(RowSet)
    BY MonitorAssumption DEF Screens
  <2>2. BlankRow \in RowSet
    BY DEF BlankRow, RowSet, Glyphs
  <2>3. scr \in [0 .. Rows - 1 -> RowSet]
    <3> SUFFICES ASSUME NEW i \in 0 .. Rows - 1 PROVE scr[i] \in RowSet
      OBVIOUS
    <3>1. CASE i < Rows - 1
      <4>1. (IF i < k THEN i + 1 ELSE i) \in 0 .. Rows - 1
        BY <2>1, <3>1
      <4> QED BY <2>1, <3>1, <4>1
    <3>2. CASE ~(i < Rows - 1)
      BY <2>1, <2>2, <3>2
    <3> QED BY <3>1, <3>2
  <2>4. ny \in Nat /\ sc \in Seq(RowSet)
    <3>1. m.screen[0] \in RowSet
      BY <2>1
    <3> QED BY <1>2, <2>1, <3>1, AppendProperties
  <2>5. r = [m EXCEPT !.screen = scr, !.y = ny, !.scrolled = sc]
    BY <1>2 DEF scroll, Scrolls, Screens
  <2>6. k > Rows => \A i \in 0 .. Rows - 1 :
                      scr[i] = IF i < Rows - 1 THEN m.screen[i + 1] ELSE BlankRow
    BY <2>1
  <2> HIDE DEF scr
  <2>7. r \in Screens /\ r.screen = scr /\ r.y = ny /\ r.scrolled = sc
        /\ r.x = m.x /\ r.hw = m.hw /\ r.below = m.below
    BY <2>3, <2>4, <2>5 DEF Screens
  <2> QED BY <1>2, <2>1, <2>6, <2>7 DEF ScrolledUp
<1> QED BY <1>1, <1>2

-----------------------------------------------------------------------------
(* A whole put.                                                            *)
Ends(ch) == ch = "nl" \/ Wraps(ch, mon.x)
NewX(ch) == IF Wraps(ch, mon.x) THEN 0 ELSE Advance(ch, mon.x)
NewY(ch) == IF Ends(ch) THEN mon.y + 1 ELSE mon.y

(* A line feed does not also wrap, and a completed put leaves the cursor   *)
(* in a column of the screen.                                              *)
LEMMA LineFeedWraps ==
    ASSUME TypeOK, NEW ch \in Chars
    PROVE  /\ ch = "nl" => ~Wraps(ch, mon.x)
           /\ NewX(ch) \in 0 .. Cols - 1
           /\ NewY(ch) \in Nat
<1>1. mon.x \in Nat /\ mon.y \in Nat /\ Cols \in Nat \ {0}
  BY MonitorAssumption DEF TypeOK, Screens
<1> QED BY <1>1, AdvanceFacts DEF Wraps, NewX, NewY

(* When a put is completed.                                                *)
LEMMA PutCompleted ==
    ASSUME TypeOK, mon.x <= Cols, mon.y <= Rows, mon.y = Rows => mon.x < Cols,
           NEW ch \in Chars, NEW r, r = __monitor_put(ch, LastStage)
    PROVE  /\ r \in Screens
           /\ r.x = NewX(ch) /\ r.hw = Cols * r.y + r.x
           /\ r.y = IF NewY(ch) = Rows THEN Rows - 1 ELSE NewY(ch)
           /\ mon.y < Rows /\ mon.x < Cols => r.below = mon.below
           /\ r.below \subseteq mon.below \cup {Rows}
           /\ NewY(ch) # Rows =>
                r.scrolled = mon.scrolled /\ r.screen = Store(ch, mon).screen
           /\ NewY(ch) = Rows =>
                /\ r.scrolled = Append(mon.scrolled, Store(ch, mon).screen[0])
                /\ \A i \in 0 .. Rows - 1 :
                     r.screen[i] = IF i < Rows - 1 THEN Store(ch, mon).screen[i + 1]
                                                   ELSE BlankRow
<1>1. PICK m1 : m1 = Store(ch, mon)
  OBVIOUS
<1>2. PICK m2 : m2 = LineFeed(ch, m1)
  OBVIOUS
<1>3. PICK m3 : m3 = Column(ch, mon, m2)
  OBVIOUS
<1>4. PICK m4 : m4 = WrapColumn(ch, mon, m3)
  OBVIOUS
<1>0. PICK m5 : m5 = WrapRow(ch, mon, m4)
  OBVIOUS
<1>5. PICK m6 : m6 = scroll(LastStage - 5, m5)
  OBVIOUS
<1>6. Rows \in Nat /\ Rows > 1 /\ LastStage \in Nat /\ LastStage >= 6 /\ LastStage - 5 > Rows
  BY MonitorAssumption DEF LastStage
<1>7. r = move_cursor(m6)
  BY <1>0, <1>1, <1>2, <1>3, <1>4, <1>5, <1>6 DEF __monitor_put
<1>8. mon \in Screens
  BY DEF TypeOK
<1>9. /\ m1 \in Screens /\ m1.x = mon.x /\ m1.y = mon.y /\ m1.scrolled = mon.scrolled
      /\ mon.y < Rows /\ mon.x < Cols => m1.below = mon.below
      /\ m1.below \subseteq mon.below \cup {Rows}
  <2>1. Stored(ch, mon, m1)
    BY <1>1, <1>8, StoreFacts
  <2> QED BY <2>1 DEF Stored
<1>10. /\ m5 \in Screens /\ m5.screen = m1.screen /\ m5.scrolled = mon.scrolled
       /\ m5.below = m1.below /\ m5.x = NewX(ch) /\ m5.y = NewY(ch)
  <2>0. Moved(ch, mon, m1, m2, m3, m4, m5)
    BY <1>0, <1>2, <1>3, <1>4, <1>8, <1>9, MoveFacts
  <2>1. /\ m5 \in Screens /\ m5.screen = m1.screen /\ m5.scrolled = m1.scrolled
        /\ m5.below = m1.below
        /\ m5.x = IF Wraps(ch, mon.x) THEN 0 ELSE Advance(ch, mon.x)
    BY <2>0 DEF Moved
  <2>2. /\ m2.y = IF ch = "nl" THEN m1.y + 1 ELSE m1.y
        /\ m5.y = IF Wraps(ch, mon.x) THEN m2.y + 1 ELSE m2.y
    BY <2>0 DEF Moved
  <2>3. m5.y = NewY(ch)
    BY <1>9, <2>2, LineFeedWraps DEF NewY, Ends
  <2> QED BY <1>9, <2>1, <2>3 DEF NewX
<1>11. /\ m6 \in Screens /\ m6.x = m5.x /\ m6.below = m5.below
       /\ m5.y # Rows => m6 = m5
       /\ m5.y = Rows => m6.y = Rows - 1
       /\ m5.y = Rows =>
            /\ m6.scrolled = Append(m5.scrolled, m5.screen[0])
            /\ \A i \in 0 .. Rows - 1 :
                 m6.screen[i] = IF i < Rows - 1 THEN m5.screen[i + 1] ELSE BlankRow
  <2>1. LastStage - 5 \in Nat
    BY <1>6
  <2>2. ScrolledUp(LastStage - 5, m5, m6)
    BY <1>5, <1>10, <2>1, ScrollFacts
  <2> QED BY <1>6, <2>2 DEF ScrolledUp
<1>12. Cols * m6.y + m6.x \in Nat
  <2>1. Cols \in Nat /\ m6.y \in Nat /\ m6.x \in Nat
    BY <1>11, MonitorAssumption DEF Screens
  <2>2. Cols * m6.y \in Nat
    BY <2>1, SMT
  <2> QED BY <2>1, <2>2
<1> DEFINE h == Cols * m6.y + m6.x
<1>13. r = [m6 EXCEPT !.hw = h]
  BY <1>7 DEF move_cursor
<1> HIDE DEF h
<1>14. /\ r \in Screens /\ r.x = m6.x /\ r.y = m6.y /\ r.below = m6.below
       /\ r.screen = m6.screen /\ r.scrolled = m6.scrolled /\ r.hw = h
  BY <1>11, <1>12, <1>13 DEF Screens, h
<1>15. r.hw = Cols * r.y + r.x
  BY <1>14 DEF h
<1>16. m5.y # Rows => m6.y = NewY(ch)
  BY <1>10, <1>11
<1> QED BY <1>1, <1>9, <1>10, <1>11, <1>14, <1>15, <1>16

(* When a tick ends the put before: only between the step to a new line    *)
(* and the end of scroll() is the cursor below the screen, and then not in *)
(* the last column; only between the step behind the last column and the   *)
(* wrap is it there.                                                       *)
LEMMA PutCutShort ==
    ASSUME TypeOK, mon.x < Cols, mon.y < Rows, Cols > 1,
           NEW ch \in Chars, ch \in Printable \/ (ch = "nl" /\ mon.x + 1 < Cols),
           NEW k \in 1 .. LastStage - 1, NEW r, r = __monitor_put(ch, k)
    PROVE  /\ r \in Screens /\ r.below = mon.below
           /\ r.x <= Cols /\ r.y <= Rows /\ (r.y = Rows => r.x + 1 < Cols)
<1>1. PICK m1 : m1 = Store(ch, mon)
  OBVIOUS
<1>2. PICK m2 : m2 = LineFeed(ch, m1)
  OBVIOUS
<1>3. PICK m3 : m3 = Column(ch, mon, m2)
  OBVIOUS
<1>4. PICK m4 : m4 = WrapColumn(ch, mon, m3)
  OBVIOUS
<1>5. PICK m5 : m5 = WrapRow(ch, mon, m4)
  OBVIOUS
<1>6. PICK m6 : m6 = scroll(k - 5, m5)
  OBVIOUS
<1>7. Rows \in Nat /\ Rows > 1 /\ k \in Nat /\ k < LastStage /\ Cols \in Nat
  BY MonitorAssumption DEF LastStage
<1>8. r \in {m1, m2, m3, m4, m5} \/ (k >= 6 /\ r = m6)
  <2>1. r = LET n2 == IF k < 2 THEN m1 ELSE LineFeed(ch, m1)
                n3 == IF k < 3 THEN n2 ELSE Column(ch, mon, n2)
                n4 == IF k < 4 THEN n3 ELSE WrapColumn(ch, mon, n3)
                n5 == IF k < 5 THEN n4 ELSE WrapRow(ch, mon, n4)
            IN  IF k < 6 THEN n5 ELSE scroll(k - 5, n5)
    BY <1>1, <1>7 DEF __monitor_put
  <2>2. k = 1 \/ k = 2 \/ k = 3 \/ k = 4 \/ k = 5 \/ k >= 6
    BY <1>7
  <2>3. k = 1 => r = m1
    BY <2>1
  <2>4. k = 2 => r = m2
    BY <1>2, <2>1
  <2>5. k = 3 => r = m3
    BY <1>2, <1>3, <2>1
  <2>6. k = 4 => r = m4
    BY <1>2, <1>3, <1>4, <2>1
  <2>7. k = 5 => r = m5
    BY <1>2, <1>3, <1>4, <1>5, <2>1
  <2>8. k >= 6 => r = m6
    BY <1>2, <1>3, <1>4, <1>5, <1>6, <1>7, <2>1
  <2> QED BY <2>2, <2>3, <2>4, <2>5, <2>6, <2>7, <2>8
<1>9. mon \in Screens /\ mon.y \in Nat /\ mon.x \in Nat
  BY DEF TypeOK, Screens
<1>10. m1 \in Screens /\ m1.x = mon.x /\ m1.y = mon.y /\ m1.below = mon.below
  <2>1. mon.x <= Cols /\ mon.y <= Rows /\ (mon.y = Rows => mon.x < Cols)
    BY <1>7, <1>9
  <2>2. Stored(ch, mon, m1)
    BY <1>1, <1>9, <2>1, StoreFacts
  <2> QED BY <2>2 DEF Stored
<1>11. /\ m2 \in Screens /\ m3 \in Screens /\ m4 \in Screens /\ m5 \in Screens
       /\ m2.below = m1.below /\ m3.below = m1.below /\ m4.below = m1.below
       /\ m5.below = m1.below
       /\ m2.x = m1.x /\ m3.x = Advance(ch, mon.x) /\ m5.x = m4.x
       /\ m4.x = IF Wraps(ch, mon.x) THEN 0 ELSE Advance(ch, mon.x)
       /\ m2.y = IF ch = "nl" THEN m1.y + 1 ELSE m1.y
       /\ m3.y = m2.y /\ m4.y = m2.y
       /\ m5.y = IF Wraps(ch, mon.x) THEN m2.y + 1 ELSE m2.y
  <2>1. Moved(ch, mon, m1, m2, m3, m4, m5)
    BY <1>2, <1>3, <1>4, <1>5, <1>9, <1>10, MoveFacts
  <2> QED BY <2>1 DEF Moved
<1>12. /\ ch = "nl" => Advance(ch, mon.x) = 0 /\ ~Wraps(ch, mon.x)
       /\ ch # "nl" => Advance(ch, mon.x) = mon.x + 1
       /\ Wraps(ch, mon.x) <=> Advance(ch, mon.x) >= Cols
  <2>1. /\ ch \in Printable => Advance(ch, mon.x) = mon.x + 1
        /\ ch = "nl" => Advance(ch, mon.x) = 0
    BY <1>9, AdvanceFacts
  <2>2. ch = "nl" => ~Wraps(ch, mon.x)
    BY LineFeedWraps
  <2>3. ch \in Printable \/ ch = "nl"
    OBVIOUS
  <2> QED BY <2>1, <2>2, <2>3 DEF Wraps
<1>13. \A m \in {m1, m2, m3, m4, m5} :
          /\ m \in Screens /\ m.below = mon.below
          /\ m.x <= Cols /\ m.y <= Rows /\ (m.y = Rows => m.x + 1 < Cols)
  <2> DEFINE Near(x, y) == x <= Cols /\ y <= Rows /\ (y = Rows => x + 1 < Cols)
  <2>1. mon.x < Cols /\ mon.y < Rows /\ Cols > 1
    OBVIOUS
  <2>2. CASE ch = "nl"
    <3>1. /\ m1.x = mon.x /\ m2.x = mon.x /\ m3.x = 0 /\ m4.x = 0 /\ m5.x = 0
          /\ m1.y = mon.y /\ m2.y = mon.y + 1 /\ m3.y = mon.y + 1 /\ m4.y = mon.y + 1
          /\ m5.y = mon.y + 1
      BY <1>10, <1>11, <1>12, <2>2
    <3>2. mon.x + 1 < Cols
      BY <2>2, MonitorAssumption DEF Controls
    <3>3. /\ Near(mon.x, mon.y) /\ Near(mon.x, mon.y + 1) /\ Near(0, mon.y + 1)
      BY <1>7, <1>9, <2>1, <3>2
    <3> HIDE DEF Near
    <3>4. Near(m1.x, m1.y) /\ Near(m2.x, m2.y) /\ Near(m3.x, m3.y) /\ Near(m4.x, m4.y)
          /\ Near(m5.x, m5.y)
      BY <3>1, <3>3
    <3>5. \A m \in {m1, m2, m3, m4, m5} : m \in Screens /\ m.below = mon.below /\ Near(m.x, m.y)
      BY <1>10, <1>11, <3>4
    <3> QED BY <3>5 DEF Near
  <2>3. CASE ch # "nl"
    <3>1. /\ m1.x = mon.x /\ m2.x = mon.x /\ m3.x = mon.x + 1
          /\ m1.y = mon.y /\ m2.y = mon.y /\ m3.y = mon.y /\ m4.y = mon.y
          /\ m4.x = IF mon.x + 1 >= Cols THEN 0 ELSE mon.x + 1
          /\ m5.x = IF mon.x + 1 >= Cols THEN 0 ELSE mon.x + 1
          /\ m5.y = IF mon.x + 1 >= Cols THEN mon.y + 1 ELSE mon.y
      BY <1>10, <1>11, <1>12, <2>3
    <3>2. /\ Near(mon.x, mon.y) /\ Near(mon.x + 1, mon.y)
          /\ Near(IF mon.x + 1 >= Cols THEN 0 ELSE mon.x + 1, mon.y)
          /\ Near(IF mon.x + 1 >= Cols THEN 0 ELSE mon.x + 1,
                  IF mon.x + 1 >= Cols THEN mon.y + 1 ELSE mon.y)
      BY <1>7, <1>9, <2>1
    <3> HIDE DEF Near
    <3>3. Near(m1.x, m1.y) /\ Near(m2.x, m2.y) /\ Near(m3.x, m3.y) /\ Near(m4.x, m4.y)
          /\ Near(m5.x, m5.y)
      BY <3>1, <3>2
    <3>4. \A m \in {m1, m2, m3, m4, m5} : m \in Screens /\ m.below = mon.below /\ Near(m.x, m.y)
      BY <1>10, <1>11, <3>3
    <3> QED BY <3>4 DEF Near
  <2> QED BY <2>2, <2>3
<1>14. CASE k >= 6 /\ r = m6
  <2>1. k - 5 \in Nat
    BY <1>7, <1>14
  <2>2. /\ m6 \in Screens /\ m6.x = m5.x /\ m6.below = m5.below
        /\ m5.y # Rows => m6 = m5
        /\ m5.y = Rows => m6.y = IF k - 5 > Rows THEN Rows - 1 ELSE Rows
    <3>1. ScrolledUp(k - 5, m5, m6)
      BY <1>6, <1>11, <2>1, ScrollFacts
    <3> QED BY <3>1 DEF ScrolledUp
  <2> QED BY <1>7, <1>13, <1>14, <2>2
<1> QED BY <1>8, <1>13, <1>14
-----------------------------------------------------------------------------
(* What is left of a text.                                                 *)
Symbols == Chars \cup {"status"}
Fits(t, x) == EndsInNewline(t, x) \/ EndsInStatus(t, x) \/ InStatus(t, x)

(* No character with a glyph is a control character or begins a status     *)
(* text.                                                                   *)
LEMMA Alphabets ==
    /\ "status" \notin Chars /\ "nl" \notin Printable /\ "status" \notin Printable
    /\ "nl" \in Chars /\ Printable \subseteq Chars /\ Chars \subseteq Symbols
    /\ \A ch \in Chars : ch \in Printable \/ ch \in Controls
BY MonitorAssumption DEF Chars, Controls, Symbols

(* The first symbol of a text and the rest of it.                          *)
LEMMA HeadTail ==
    ASSUME NEW S, NEW t \in Seq(S), t # << >>
    PROVE  /\ Len(t) \in Nat \ {0}
           /\ Head(t) = t[1] /\ t[1] \in S
           /\ Tail(t) \in Seq(S) /\ Len(Tail(t)) = Len(t) - 1
           /\ \A i \in 1 .. Len(t) - 1 : Tail(t)[i] = t[i + 1]
           /\ Tail(t) = << >> <=> Len(t) = 1
<1>1. Len(t) \in Nat \ {0}
  BY EmptySeq
<1>2. Head(t) = t[1] /\ t[1] \in S
  BY <1>1, ElementOfSeq
<1>3. /\ Tail(t) \in Seq(S) /\ Len(Tail(t)) = Len(t) - 1
      /\ \A i \in 1 .. Len(Tail(t)) : Tail(t)[i] = t[i + 1]
  BY HeadTailProperties
<1>4. Tail(t) = << >> <=> Len(t) = 1
  <2>1. Tail(t) # << >> => Len(Tail(t)) \in Nat \ {0}
    BY <1>3, EmptySeq
  <2>2. Tail(t) = << >> => Len(Tail(t)) = 0
    BY EmptySeq
  <2> QED BY <1>1, <1>3, <2>1, <2>2
<1> QED BY <1>1, <1>2, <1>3, <1>4

(* A character of a line leaves a line that fits, or ends the line.        *)
LEMMA LineGoesOn ==
    ASSUME NEW t \in Seq(Symbols), t # << >>, NEW x \in 0 .. Cols - 1, Fits(t, x),
           t[1] \in Chars
    PROVE  \/ t[1] = "nl" /\ Tail(t) = << >> /\ x + 1 < Cols
           \/ t[1] \in Printable /\ x + 1 < Cols /\ Fits(Tail(t), x + 1)
           \/ t[1] \in Printable /\ x + 1 = Cols /\ Tail(t) = << >>
<1>1. /\ Len(t) \in Nat \ {0}
      /\ Tail(t) \in Seq(Symbols) /\ Len(Tail(t)) = Len(t) - 1
      /\ \A i \in 1 .. Len(t) - 1 : Tail(t)[i] = t[i + 1]
      /\ Tail(t) = << >> <=> Len(t) = 1
  BY HeadTail
<1>2. Cols \in Nat /\ x \in Nat /\ Len(Status) \in Nat \ {0}
  BY MonitorAssumption
<1>3. CASE EndsInNewline(t, x)
  <2>1. /\ t[Len(t)] = "nl" /\ x + Len(t) < Cols
        /\ \A i \in 1 .. Len(t) - 1 : t[i] \in Printable
    BY <1>3 DEF EndsInNewline
  <2>2. CASE Len(t) = 1
    BY <1>1, <1>2, <2>1, <2>2
  <2>3. CASE Len(t) # 1
    <3>1. t[1] \in Printable /\ x + 1 < Cols
      BY <1>1, <1>2, <2>1, <2>3
    <3>2. \A i \in 1 .. Len(Tail(t)) - 1 : Tail(t)[i] \in Printable
      <4> SUFFICES ASSUME NEW i \in 1 .. Len(Tail(t)) - 1 PROVE Tail(t)[i] \in Printable
        OBVIOUS
      <4>1. i \in 1 .. Len(t) - 1 /\ i + 1 \in 1 .. Len(t) - 1
        BY <1>1
      <4> QED BY <1>1, <2>1, <4>1
    <3>3. Tail(t)[Len(Tail(t))] = "nl"
      <4>1. Len(Tail(t)) \in 1 .. Len(t) - 1 /\ Len(Tail(t)) + 1 = Len(t)
        BY <1>1, <2>3
      <4> QED BY <1>1, <2>1, <4>1
    <3>4. x + 1 + Len(Tail(t)) < Cols /\ Tail(t) # << >>
      BY <1>1, <1>2, <2>1, <2>3
    <3> QED BY <3>1, <3>2, <3>3, <3>4 DEF EndsInNewline, Fits
  <2> QED BY <2>2, <2>3
<1>4. CASE EndsInStatus(t, x)
  <2>1. PICK s \in 1 .. Len(t) :
              /\ t[s] = "status" /\ Len(t) - s = Len(Status) /\ x + s <= Cols
              /\ \A i \in 1 .. Len(t) \ {s} : t[i] \in Printable
    BY <1>4 DEF EndsInStatus
  <2>2. s # 1
    BY <2>1, Alphabets
  <2>3. t[1] \in Printable /\ x + 1 < Cols
    BY <1>1, <1>2, <2>1, <2>2
  <2>4. /\ s - 1 \in 1 .. Len(Tail(t)) /\ s - 1 \in 1 .. Len(t) - 1 /\ s - 1 + 1 = s
        /\ Len(Tail(t)) - (s - 1) = Len(Status) /\ x + 1 + (s - 1) <= Cols
    <3>1. s \in Nat /\ s >= 1 /\ s <= Len(t) /\ Len(t) - s = Len(Status) /\ x + s <= Cols
      <4>1. Len(t) - s = Len(Status) /\ x + s <= Cols
        BY <2>1
      <4>2. Len(t) \in Nat
        BY <1>1
      <4> QED BY <4>1, <4>2
    <3>2. Len(Tail(t)) = Len(t) - 1 /\ Len(t) \in Nat
      BY <1>1
    <3> QED BY <1>2, <2>2, <3>1, <3>2
  <2>5. Tail(t)[s - 1] = "status"
    BY <1>1, <2>1, <2>4
  <2>6. \A i \in 1 .. Len(Tail(t)) \ {s - 1} : Tail(t)[i] \in Printable
    <3> SUFFICES ASSUME NEW i \in 1 .. Len(Tail(t)) \ {s - 1} PROVE Tail(t)[i] \in Printable
      OBVIOUS
    <3>1. i \in 1 .. Len(t) - 1 /\ i + 1 \in 1 .. Len(t) \ {s}
      BY <1>1, <2>1
    <3> QED BY <1>1, <2>1, <3>1
  <2> QED BY <2>3, <2>4, <2>5, <2>6 DEF EndsInStatus, Fits
<1>5. CASE InStatus(t, x)
  <2>1. x + Len(t) = Cols /\ \A i \in 1 .. Len(t) : t[i] \in Printable
    BY <1>5 DEF InStatus
  <2>2. t[1] \in Printable
    BY <1>1, <2>1
  <2>3. CASE Len(t) = 1
    BY <1>1, <2>1, <2>2, <2>3
  <2>4. CASE Len(t) # 1
    <3>1. x + 1 < Cols /\ x + 1 + Len(Tail(t)) = Cols /\ Tail(t) # << >>
      <4>1. Tail(t) # << >>
        BY <1>1, <2>4
      <4>2. Len(t) \in Nat /\ Len(t) >= 2 /\ Len(Tail(t)) = Len(t) - 1
        BY <1>1, <2>4
      <4>3. x + Len(t) = Cols
        BY <2>1
      <4> QED BY <1>2, <4>1, <4>2, <4>3
    <3>2. \A i \in 1 .. Len(Tail(t)) : Tail(t)[i] \in Printable
      <4> SUFFICES ASSUME NEW i \in 1 .. Len(Tail(t)) PROVE Tail(t)[i] \in Printable
        OBVIOUS
      <4>1. i \in 1 .. Len(t) - 1 /\ i + 1 \in 1 .. Len(t)
        BY <1>1
      <4> QED BY <1>1, <2>1, <4>1
    <3> QED BY <2>2, <3>1, <3>2 DEF InStatus, Fits
  <2> QED BY <2>3, <2>4
<1> QED BY <1>3, <1>4, <1>5 DEF Fits

(* The assignment to cur_x leaves exactly the columns of the status text.  *)
LEMMA StatusFits ==
    ASSUME NEW t \in Seq(Symbols), t # << >>, NEW x \in 0 .. Cols - 1, Fits(t, x),
           t[1] = "status"
    PROVE  InStatus(Tail(t), Cols - Len(Status))
<1>1. /\ Len(t) \in Nat \ {0}
      /\ Tail(t) \in Seq(Symbols) /\ Len(Tail(t)) = Len(t) - 1
      /\ \A i \in 1 .. Len(t) - 1 : Tail(t)[i] = t[i + 1]
      /\ Tail(t) = << >> <=> Len(t) = 1
  BY HeadTail
<1>2. Cols \in Nat /\ x \in Nat /\ Len(Status) \in Nat \ {0}
  BY MonitorAssumption
<1>3. ~EndsInNewline(t, x)
  <2> SUFFICES ASSUME EndsInNewline(t, x) PROVE FALSE
    OBVIOUS
  <2>1. t[Len(t)] = "nl" /\ \A i \in 1 .. Len(t) - 1 : t[i] \in Printable
    BY DEF EndsInNewline
  <2>2. CASE Len(t) = 1
    BY <2>1, <2>2, Alphabets
  <2>3. CASE Len(t) # 1
    BY <1>1, <2>1, <2>3, Alphabets
  <2> QED BY <2>2, <2>3
<1>4. ~InStatus(t, x)
  BY <1>1, Alphabets DEF InStatus
<1>5. PICK s \in 1 .. Len(t) :
            /\ t[s] = "status" /\ Len(t) - s = Len(Status)
            /\ \A i \in 1 .. Len(t) \ {s} : t[i] \in Printable
  BY <1>3, <1>4 DEF Fits, EndsInStatus
<1>6. s = 1
  <2>1. 1 \in 1 .. Len(t)
    BY <1>1
  <2> QED BY <1>5, <2>1, Alphabets
<1>7. \A i \in 1 .. Len(Tail(t)) : Tail(t)[i] \in Printable
  <2> SUFFICES ASSUME NEW i \in 1 .. Len(Tail(t)) PROVE Tail(t)[i] \in Printable
    OBVIOUS
  <2>1. i \in 1 .. Len(t) - 1 /\ i + 1 \in 1 .. Len(t) \ {1}
    BY <1>1
  <2> QED BY <1>1, <1>5, <1>6, <2>1
<1> QED BY <1>1, <1>2, <1>5, <1>6, <1>7 DEF InStatus
-----------------------------------------------------------------------------
(* The invariant is inductive.                                             *)

(* What the invariant says of the registers in numbers.                    *)
LEMMA CursorFacts ==
    ASSUME IInv
    PROVE  /\ mon \in Screens
           /\ mon.x \in 0 .. Cols /\ mon.y \in Nat /\ mon.y <= Rows
           /\ mon.x = Cols \/ mon.y = Rows => torn /\ ~resumed
           /\ mon.y = Rows => mon.x + 1 < Cols
           /\ todo \in Seq(Symbols)
           /\ Cols \in Nat /\ Cols > 1 /\ Rows \in Nat /\ Rows > 1
           /\ Len(Status) \in 1 .. Cols
<1>1. mon \in Screens /\ todo \in Seq(Symbols)
  BY DEF IInv, TypeOK, Symbols
<1>2. mon.x \in Nat /\ mon.y \in Nat
  BY <1>1 DEF Screens
<1>3. /\ mon.x \in 0 .. Cols - 1 \/ (mon.x = Cols /\ torn /\ ~resumed)
      /\ mon.y < Rows \/ (mon.y = Rows /\ torn /\ ~resumed)
      /\ torn /\ ~resumed => (mon.y = Rows => mon.x + 1 < Cols)
  BY DEF IInv, OnScreen, CutShort
<1> QED BY <1>1, <1>2, <1>3, MonitorAssumption, TextsAssumption

(* The empty screen.                                                       *)
LEMMA InitIInv == Init => IInv
<1> SUFFICES ASSUME Init PROVE IInv
  OBVIOUS
<1>1. /\ Cols \in Nat /\ Cols > 1 /\ Rows \in Nat /\ Rows > 1
  BY MonitorAssumption, TextsAssumption
<1>2. BlankRow \in RowSet
  BY DEF BlankRow, RowSet, Glyphs
<1> DEFINE scr == [r \in 0 .. Rows - 1 |-> BlankRow]
<1>3. scr \in [0 .. Rows - 1 -> RowSet]
  BY <1>2
<1>4. mon = [screen |-> scr, x |-> 0, y |-> 0, hw |-> 0, scrolled |-> << >>, below |-> {}]
  BY DEF Init, monitor_clear
<1> HIDE DEF scr
<1>5. << >> \in Seq(RowSet) /\ << >> \in Seq(Chars \cup {"status"})
  BY EmptySeq
<1>6. mon \in Screens /\ mon.x = 0 /\ mon.y = 0 /\ mon.hw = 0 /\ mon.below = {}
  BY <1>1, <1>3, <1>4, <1>5 DEF Screens
<1>7. todo = << >> /\ phase = "early" /\ torn = FALSE /\ resumed = FALSE
  BY DEF Init
<1>8. TypeOK
  BY <1>5, <1>6, <1>7 DEF TypeOK
<1>9. OnceTorn /\ LineFits /\ StatusComes /\ CutShort
  BY <1>7 DEF OnceTorn, LineFits, StatusComes, CutShort
<1>10. mon.hw = Cols * mon.y + mon.x
  <2>1. Cols * 0 = 0
    BY <1>1, SMT
  <2> QED BY <1>6, <2>1
<1>11. OnScreen
  BY <1>1, <1>6, <1>7, <1>10 DEF OnScreen, CursorFollows
<1> QED BY <1>8, <1>9, <1>11 DEF IInv

(* A new text.                                                             *)
LEMMA NewText ==
    ASSUME IInv, todo = << >>, monitor_write
    PROVE  /\ todo' \in Seq(Symbols)
           /\ todo' # << >> => todo'[Len(todo')] # "status"
           /\ phase = "live" => Fits(todo', 0)
           /\ phase = "tasks" => todo' # << >> /\ todo'[1] \in Printable
<1>1. phase \in {"early", "live", "tasks"}
  BY DEF IInv, TypeOK
<1>2. todo' \in CASE phase = "early" -> EarlyTexts
                  [] phase = "live"  -> BootTexts
                  [] phase = "tasks" -> TaskTexts
  BY DEF monitor_write
<1>3. Status \in Seq(Printable) /\ Len(Status) \in Nat \ {0} /\ Cols \in Nat /\ Cols > 1
      /\ Status \in Seq(Symbols)
  BY MonitorAssumption, TextsAssumption, Alphabets
<1>4. CASE phase = "early"
  <2>1. todo' \in EarlyTexts
    BY <1>2, <1>4
  <2>2. CASE \E ch \in Chars : todo' = << ch >>
    <3>1. PICK ch \in Chars : todo' = << ch >>
      BY <2>2
    <3>2. << ch >> \in Seq(Symbols) /\ Len(<< ch >>) = 1 /\ << ch >>[1] = ch
      BY Alphabets
    <3> QED BY <1>4, <3>1, <3>2, Alphabets
  <2>3. CASE todo' = << "status" >> \o Status
    <3>1. << "status" >> \in Seq(Symbols) /\ Len(<< "status" >>) = 1
      BY DEF Symbols
    <3>2. /\ todo' \in Seq(Symbols) /\ Len(todo') = 1 + Len(Status)
          /\ todo'[1 + Len(Status)] = Status[Len(Status)]
      <4> DEFINE t == << "status" >> \o Status
      <4>1. /\ t \in Seq(Symbols) /\ Len(t) = 1 + Len(Status)
            /\ \A i \in 1 .. 1 + Len(Status) :
                  t[i] = IF i <= 1 THEN << "status" >>[i] ELSE Status[i - 1]
        BY <1>3, <3>1, ConcatProperties
      <4>2. 1 + Len(Status) \in 1 .. 1 + Len(Status) /\ ~(1 + Len(Status) <= 1)
            /\ 1 + Len(Status) - 1 = Len(Status)
        BY <1>3
      <4> HIDE DEF t
      <4>3. t[1 + Len(Status)] = Status[Len(Status)]
        BY <4>1, <4>2
      <4> QED BY <2>3, <4>1, <4>3 DEF t
    <3>3. Status[Len(Status)] \in Printable
      <4>1. Len(Status) \in 1 .. Len(Status)
        BY <1>3
      <4> QED BY <1>3, <4>1, ElementOfSeq
    <3> QED BY <1>4, <3>2, <3>3, Alphabets
  <2> QED BY <2>1, <2>2, <2>3 DEF EarlyTexts
<1>5. CASE phase = "live"
  <2>1. todo' \in BootTexts
    BY <1>2, <1>5
  <2>2. todo' \in Seq(Symbols) /\ (EndsInNewline(todo', 0) \/ EndsInStatus(todo', 0))
    BY <2>1, MonitorAssumption, TextsAssumption DEF Texts, Symbols
  <2>3. todo' # << >> => todo'[Len(todo')] # "status"
    <3>1. CASE EndsInNewline(todo', 0)
      BY <3>1 DEF EndsInNewline
    <3>2. CASE EndsInStatus(todo', 0)
      <4>1. PICK s \in 1 .. Len(todo') :
                  /\ Len(todo') - s = Len(Status)
                  /\ \A i \in 1 .. Len(todo') \ {s} : todo'[i] \in Printable
        BY <3>2 DEF EndsInStatus
      <4>2. Len(todo') \in Nat
        BY <2>2, LenProperties
      <4>3. Len(todo') \in 1 .. Len(todo') \ {s}
        BY <1>3, <4>1, <4>2
      <4> QED BY <4>1, <4>3, Alphabets
    <3> QED BY <2>2, <3>1, <3>2
  <2>4. Fits(todo', 0)
    BY <2>2 DEF Fits
  <2> QED BY <1>5, <2>2, <2>3, <2>4
<1>6. CASE phase = "tasks"
  <2>1. todo' \in TaskTexts
    BY <1>2, <1>6
  <2>2. todo' \in Seq(Chars) /\ todo' # << >> /\ todo'[1] \in Printable
    BY <2>1, TextsAssumption
  <2>3. todo' \in Seq(Symbols)
    BY <2>2, Alphabets
  <2>4. todo'[Len(todo')] \in Chars
    <3>1. Len(todo') \in 1 .. Len(todo')
      BY <2>2, EmptySeq
    <3> QED BY <2>2, <3>1, ElementOfSeq
  <2> QED BY <1>6, <2>2, <2>3, <2>4, Alphabets
<1> QED BY <1>1, <1>4, <1>5, <1>6

(* A new text is begun.                                                    *)
LEMMA WriteIInv == IInv /\ monitor_write => IInv'
<1> SUFFICES ASSUME IInv, monitor_write PROVE IInv'
  OBVIOUS
<1>1. todo = << >> /\ mon' = mon /\ phase' = phase /\ torn' = torn /\ resumed' = resumed
  BY DEF monitor_write
<1>2. /\ todo' \in Seq(Symbols)
      /\ todo' # << >> => todo'[Len(todo')] # "status"
      /\ phase = "live" => Fits(todo', 0)
      /\ phase = "tasks" => todo' # << >> /\ todo'[1] \in Printable
  BY <1>1, NewText
<1>3. TypeOK'
  BY <1>1, <1>2 DEF IInv, TypeOK, Symbols
<1>4. OnceTorn'
  BY <1>1 DEF IInv, OnceTorn
<1>5. LineFits'
  <2>1. phase = "live" => mon.x = 0
    <3>1. Len(<< >>) = 0 /\ 1 .. 0 = {}
      OBVIOUS
    <3> QED BY <1>1, <3>1 DEF IInv, LineFits, EndsInNewline, EndsInStatus, InStatus
  <2> QED BY <1>1, <1>2, <2>1 DEF LineFits, Fits
<1>6. StatusComes'
  BY <1>2 DEF StatusComes
<1>7. CutShort'
  <2>1. torn => phase = "tasks"
    BY DEF IInv, OnceTorn
  <2>2. torn /\ ~resumed => mon.y <= Rows /\ (mon.y = Rows => mon.x + 1 < Cols)
    BY DEF IInv, CutShort
  <2> QED BY <1>1, <1>2, <2>1, <2>2 DEF CutShort
<1>8. OnScreen'
  BY <1>1 DEF IInv, OnScreen, CursorFollows
<1> QED BY <1>3, <1>4, <1>5, <1>6, <1>7, <1>8 DEF IInv

(* A completed put brings the cursor back to the screen.                   *)
LEMMA PutIInv == IInv /\ monitor_put => IInv'
<1> SUFFICES ASSUME IInv, monitor_put PROVE IInv'
  OBVIOUS
<1> DEFINE ch == Head(todo)
<1>1. /\ todo # << >> /\ ch # "status"
      /\ mon' = __monitor_put(ch, LastStage)
      /\ todo' = Tail(todo) /\ resumed' = (phase = "tasks")
      /\ phase' = phase /\ torn' = torn
  BY DEF monitor_put
<1>2. /\ mon \in Screens
      /\ mon.x \in 0 .. Cols /\ mon.y \in Nat /\ mon.y <= Rows
      /\ mon.x = Cols \/ mon.y = Rows => torn /\ ~resumed
      /\ mon.y = Rows => mon.x + 1 < Cols
      /\ todo \in Seq(Symbols)
      /\ Cols \in Nat /\ Cols > 1 /\ Rows \in Nat /\ Rows > 1
  BY CursorFacts
<1>3. /\ TypeOK /\ OnceTorn /\ LineFits /\ StatusComes /\ CutShort /\ OnScreen
      /\ torn \in BOOLEAN /\ resumed \in BOOLEAN
  BY DEF IInv, TypeOK
<1>4. /\ ch = todo[1] /\ todo' \in Seq(Symbols)
      /\ Len(todo) \in Nat \ {0} /\ Len(todo') = Len(todo) - 1
      /\ \A i \in 1 .. Len(todo) - 1 : todo'[i] = todo[i + 1]
      /\ todo' = << >> <=> Len(todo) = 1
  BY <1>1, <1>2, HeadTail
<1>5. ch \in Chars
  BY <1>1, <1>2, HeadTail DEF Symbols
<1> HIDE DEF ch
<1>6. /\ mon' \in Screens
      /\ mon'.x = NewX(ch) /\ mon'.hw = Cols * mon'.y + mon'.x
      /\ mon'.y = IF NewY(ch) = Rows THEN Rows - 1 ELSE NewY(ch)
      /\ mon.y < Rows /\ mon.x < Cols => mon'.below = mon.below
      /\ mon'.below \subseteq mon.below \cup {Rows}
  <2>1. PICK r : r = __monitor_put(ch, LastStage)
    OBVIOUS
  <2>2. /\ r \in Screens
        /\ r.x = NewX(ch) /\ r.hw = Cols * r.y + r.x
        /\ r.y = IF NewY(ch) = Rows THEN Rows - 1 ELSE NewY(ch)
        /\ mon.y < Rows /\ mon.x < Cols => r.below = mon.below
        /\ r.below \subseteq mon.below \cup {Rows}
    <3>1. mon.x <= Cols /\ (mon.y = Rows => mon.x < Cols)
      BY <1>2
    <3> QED BY <1>2, <1>3, <1>5, <2>1, <3>1, PutCompleted
  <2> QED BY <1>1, <2>1, <2>2
<1>7. phase = "tasks" \/ ~torn
  BY <1>3 DEF OnceTorn
<1>8. NewX(ch) \in 0 .. Cols - 1 /\ NewY(ch) \in Nat
  BY <1>3, <1>5, LineFeedWraps
<1>9. TypeOK'
  BY <1>1, <1>3, <1>4, <1>6 DEF TypeOK, Symbols
<1>10. OnceTorn'
  BY <1>1, <1>3 DEF OnceTorn
<1>11. LineFits'
  <2> SUFFICES ASSUME phase = "live"
               PROVE  \/ todo' = << >> /\ mon'.x = 0
                      \/ Fits(todo', mon'.x)
    BY <1>1 DEF LineFits, Fits
  <2>0. mon.x \in 0 .. Cols - 1
    BY <1>2, <1>3 DEF OnceTorn
  <2>1. Fits(todo, mon.x)
    BY <1>1, <1>3 DEF LineFits, Fits
  <2>2. /\ ch \in Printable => Advance(ch, mon.x) = mon.x + 1
        /\ ch = "nl" => Advance(ch, mon.x) = 0
    <3>1. mon.x \in Nat
      BY <1>2
    <3> QED BY <1>5, <3>1, AdvanceFacts
  <2>3. \/ ch = "nl" /\ Tail(todo) = << >> /\ mon.x + 1 < Cols
        \/ ch \in Printable /\ mon.x + 1 < Cols /\ Fits(Tail(todo), mon.x + 1)
        \/ ch \in Printable /\ mon.x + 1 = Cols /\ Tail(todo) = << >>
    BY <1>1, <1>2, <1>4, <1>5, <2>0, <2>1, LineGoesOn
  <2>4. CASE ch = "nl" /\ Tail(todo) = << >> /\ mon.x + 1 < Cols
    BY <1>1, <1>2, <1>6, <2>2, <2>4 DEF NewX, Wraps
  <2>5. CASE ch \in Printable /\ mon.x + 1 < Cols /\ Fits(Tail(todo), mon.x + 1)
    <3>1. NewX(ch) = mon.x + 1
      BY <1>2, <2>2, <2>5 DEF NewX, Wraps
    <3> QED BY <1>1, <1>6, <2>5, <3>1
  <2>6. CASE ch \in Printable /\ mon.x + 1 = Cols /\ Tail(todo) = << >>
    BY <1>1, <1>2, <1>6, <2>2, <2>6 DEF NewX, Wraps
  <2> QED BY <2>3, <2>4, <2>5, <2>6
<1>12. StatusComes'
  <2> SUFFICES ASSUME todo' # << >> PROVE todo'[Len(todo')] # "status"
    BY DEF StatusComes
  <2>1. Len(todo) \in Nat /\ Len(todo) > 1
    BY <1>4
  <2>2. Len(todo') \in 1 .. Len(todo) - 1 /\ Len(todo') + 1 = Len(todo)
    BY <1>4, <2>1
  <2>3. todo'[Len(todo')] = todo[Len(todo)]
    BY <1>4, <2>2
  <2> QED BY <1>1, <1>3, <2>3 DEF StatusComes
<1>13. CutShort'
  BY <1>1, <1>7 DEF CutShort
<1>14. mon'.y < Rows
  <2>1. CASE mon.y < Rows
    BY <1>2, <1>6, <2>1 DEF NewY
  <2>2. CASE mon.y = Rows
    <3>1. mon.x + 1 < Cols /\ ch \in Printable
      BY <1>1, <1>2, <1>3, <1>4, <2>2 DEF CutShort
    <3>2. Advance(ch, mon.x) = mon.x + 1 /\ ch # "nl"
      <4>1. mon.x \in Nat
        BY <1>2
      <4> QED BY <1>5, <3>1, <4>1, AdvanceFacts, Alphabets
    <3>3. NewY(ch) = Rows
      BY <1>2, <2>2, <3>1, <3>2 DEF NewY, Ends, Wraps
    <3> QED BY <1>2, <1>6, <3>3
  <2> QED BY <1>2, <2>1, <2>2
<1>15. mon'.below \subseteq (IF torn' /\ resumed' THEN {Rows} ELSE {})
  <2>1. mon.below \subseteq (IF torn /\ resumed THEN {Rows} ELSE {})
    BY <1>3 DEF OnScreen
  <2>2. CASE mon.y < Rows /\ mon.x < Cols
    <3>1. mon'.below = mon.below /\ (torn => phase = "tasks")
      BY <1>6, <1>7, <2>2
    <3> QED BY <1>1, <2>1, <3>1
  <2>3. CASE mon.y = Rows \/ mon.x = Cols
    <3>1. torn /\ phase = "tasks" /\ ~resumed
      BY <1>2, <1>7, <2>3
    <3> QED BY <1>1, <1>6, <2>1, <3>1
  <2> QED BY <1>2, <2>2, <2>3
<1>16. OnScreen'
  BY <1>6, <1>8, <1>14, <1>15 DEF OnScreen, CursorFollows
<1> QED BY <1>9, <1>10, <1>11, <1>12, <1>13, <1>16 DEF IInv

(* The assignment to cur_x.                                                *)
LEMMA StatusIInv == IInv /\ monitor_write_status => IInv'
<1> SUFFICES ASSUME IInv, monitor_write_status PROVE IInv'
  OBVIOUS
<1> DEFINE nx == Cols - Len(Status)
<1>1. /\ todo # << >> /\ Head(todo) = "status"
      /\ mon' = [mon EXCEPT !.x = nx]
      /\ todo' = Tail(todo)
      /\ phase' = phase /\ torn' = torn /\ resumed' = resumed
  BY DEF monitor_write_status
<1>2. /\ mon \in Screens
      /\ mon.x \in 0 .. Cols /\ mon.y \in Nat /\ mon.y <= Rows
      /\ mon.x = Cols \/ mon.y = Rows => torn /\ ~resumed
      /\ mon.y = Rows => mon.x + 1 < Cols
      /\ todo \in Seq(Symbols)
      /\ Cols \in Nat /\ Cols > 1 /\ Rows \in Nat /\ Rows > 1
      /\ Len(Status) \in 1 .. Cols
  BY CursorFacts
<1>3. /\ TypeOK /\ OnceTorn /\ LineFits /\ StatusComes /\ CutShort /\ OnScreen
  BY DEF IInv
<1>4. /\ todo[1] = "status" /\ todo' \in Seq(Symbols)
      /\ Len(todo) \in Nat \ {0} /\ Len(todo') = Len(todo) - 1
      /\ \A i \in 1 .. Len(todo) - 1 : todo'[i] = todo[i + 1]
      /\ todo' = << >> <=> Len(todo) = 1
  BY <1>1, <1>2, HeadTail
<1>5. nx \in 0 .. Cols - 1
  BY <1>2
<1>6. Len(todo) # 1
  BY <1>1, <1>3, <1>4 DEF StatusComes
<1>7. ~(torn /\ ~resumed)
  BY <1>1, <1>3, <1>4, Alphabets DEF CutShort
<1>8. phase = "live" => InStatus(todo', nx)
  <2> SUFFICES ASSUME phase = "live" PROVE InStatus(todo', nx)
    OBVIOUS
  <2>1. Fits(todo, mon.x)
    BY <1>1, <1>3 DEF LineFits, Fits
  <2>2. mon.x \in 0 .. Cols - 1
    BY <1>2, <1>7
  <2>3. todo \in Seq(Symbols) /\ todo # << >> /\ todo[1] = "status" /\ todo' = Tail(todo)
    BY <1>1, <1>2, <1>4
  <2> QED BY <2>1, <2>2, <2>3, StatusFits
<1> HIDE DEF nx
<1>9. mon' \in Screens /\ mon'.x = nx /\ mon'.y = mon.y /\ mon'.below = mon.below
  <2>1. nx \in Nat
    BY <1>5
  <2> QED BY <1>1, <1>2, <2>1 DEF Screens
<1>10. TypeOK'
  BY <1>1, <1>3, <1>4, <1>9 DEF TypeOK, Symbols
<1>11. OnceTorn'
  BY <1>1, <1>3 DEF OnceTorn
<1>12. LineFits'
  BY <1>1, <1>8, <1>9 DEF LineFits
<1>13. StatusComes'
  <2>1. Len(todo') \in 1 .. Len(todo) - 1 /\ Len(todo') + 1 = Len(todo)
    BY <1>4, <1>6
  <2>2. todo'[Len(todo')] = todo[Len(todo)]
    BY <1>4, <2>1
  <2> QED BY <1>1, <1>3, <2>2 DEF StatusComes
<1>14. CutShort'
  BY <1>1, <1>7 DEF CutShort
<1>15. OnScreen'
  <2>1. mon'.y < Rows
    BY <1>2, <1>7, <1>9
  <2>2. mon'.below \subseteq (IF torn' /\ resumed' THEN {Rows} ELSE {})
    BY <1>1, <1>3, <1>9 DEF OnScreen
  <2>3. CursorFollows'
    BY <1>4, <1>6 DEF CursorFollows
  <2> QED BY <1>5, <1>9, <2>1, <2>2, <2>3 DEF OnScreen
<1> QED BY <1>10, <1>11, <1>12, <1>13, <1>14, <1>15 DEF IInv

(* A tick cuts a put of the boot thread short.                             *)
LEMMA TickInPutIInv ==
    ASSUME IInv, NEW k \in 1 .. LastStage - 1, TickInPut(k)
    PROVE  IInv'
<1> DEFINE ch == Head(todo)
<1>1. /\ phase = "live" /\ todo # << >> /\ ch # "status"
      /\ mon' = __monitor_put(ch, k)
      /\ phase' = "tasks" /\ torn' = TRUE /\ todo' = << >> /\ resumed' = resumed
  BY DEF TickInPut
<1>2. /\ mon \in Screens
      /\ mon.x \in 0 .. Cols /\ mon.y \in Nat /\ mon.y <= Rows
      /\ mon.x = Cols \/ mon.y = Rows => torn /\ ~resumed
      /\ mon.y = Rows => mon.x + 1 < Cols
      /\ todo \in Seq(Symbols)
      /\ Cols \in Nat /\ Cols > 1 /\ Rows \in Nat /\ Rows > 1
  BY CursorFacts
<1>3. TypeOK /\ OnceTorn /\ LineFits /\ OnScreen
  BY DEF IInv
<1>4. resumed = FALSE /\ ~torn
  BY <1>1, <1>3 DEF OnceTorn, TypeOK
<1>5. ch = todo[1] /\ ch \in Chars
  BY <1>1, <1>2, HeadTail DEF Symbols
<1>6. mon.x < Cols /\ mon.y < Rows
  BY <1>2, <1>4
<1>13. ch \in Printable \/ (ch = "nl" /\ mon.x + 1 < Cols)
  <2>1. Fits(todo, mon.x)
    BY <1>1, <1>3 DEF LineFits, Fits
  <2>2. mon.x \in 0 .. Cols - 1
    BY <1>2, <1>6
  <2> QED BY <1>1, <1>2, <1>5, <2>1, <2>2, LineGoesOn, Alphabets
<1> HIDE DEF ch
<1>7. /\ mon' \in Screens /\ mon'.below = mon.below
      /\ mon'.x <= Cols /\ mon'.y <= Rows /\ (mon'.y = Rows => mon'.x + 1 < Cols)
  <2>1. PICK r : r = __monitor_put(ch, k)
    OBVIOUS
  <2>2. /\ r \in Screens /\ r.below = mon.below
        /\ r.x <= Cols /\ r.y <= Rows /\ (r.y = Rows => r.x + 1 < Cols)
    BY <1>2, <1>3, <1>5, <1>6, <1>13, <2>1, PutCutShort
  <2> QED BY <1>1, <2>1, <2>2
<1>8. << >> \in Seq(Chars \cup {"status"})
  BY EmptySeq
<1>9. TypeOK'
  BY <1>1, <1>4, <1>7, <1>8 DEF TypeOK
<1>10. OnceTorn' /\ LineFits' /\ StatusComes'
  BY <1>1 DEF OnceTorn, LineFits, StatusComes
<1>11. CutShort'
  BY <1>1, <1>7 DEF CutShort
<1>12. OnScreen'
  <2>1. mon'.x \in Nat /\ mon'.y \in Nat
    BY <1>7 DEF Screens
  <2>5. mon'.x \in 0 .. Cols - 1 \/ (mon'.x = Cols /\ torn' /\ ~resumed')
    BY <1>1, <1>2, <1>4, <1>7, <2>1
  <2>2. mon'.y < Rows \/ (mon'.y = Rows /\ mon'.x < Cols /\ torn' /\ ~resumed')
    BY <1>1, <1>2, <1>4, <1>7, <2>1
  <2>3. mon'.below \subseteq (IF torn' /\ resumed' THEN {Rows} ELSE {})
    BY <1>1, <1>3, <1>4, <1>7 DEF OnScreen
  <2>4. CursorFollows'
    BY <1>1, <1>4 DEF CursorFollows
  <2> QED BY <2>2, <2>3, <2>4, <2>5 DEF OnScreen
<1> QED BY <1>9, <1>10, <1>11, <1>12 DEF IInv

(* The steps that leave the screen alone.                                  *)
LEMMA OtherStepsIInv == IInv /\ (sti \/ Tick \/ UNCHANGED vars) => IInv'
<1> SUFFICES ASSUME IInv, sti \/ Tick \/ UNCHANGED vars PROVE IInv'
  OBVIOUS
<1>1. TypeOK /\ OnceTorn /\ LineFits /\ StatusComes /\ CutShort /\ OnScreen
  BY DEF IInv
<1>2. CASE sti
  <2>1. /\ phase = "early" /\ todo = << >> /\ mon.x = 0 /\ phase' = "live"
        /\ mon' = mon /\ todo' = todo /\ torn' = torn /\ resumed' = resumed
    BY <1>2 DEF sti
  <2>2. TypeOK' /\ OnceTorn'
    BY <1>1, <2>1 DEF TypeOK, OnceTorn
  <2>3. LineFits' /\ StatusComes'
    BY <2>1 DEF LineFits, StatusComes
  <2>4. CutShort' /\ OnScreen'
    BY <1>1, <2>1 DEF CutShort, OnScreen, CursorFollows
  <2> QED BY <2>2, <2>3, <2>4 DEF IInv
<1>3. CASE Tick
  <2>1. /\ phase = "live" /\ phase' = "tasks" /\ todo' = << >>
        /\ mon' = mon /\ torn' = torn /\ resumed' = resumed
    BY <1>3 DEF Tick
  <2>2. ~torn /\ ~resumed
    BY <1>1, <2>1 DEF OnceTorn
  <2>3. << >> \in Seq(Chars \cup {"status"})
    BY EmptySeq
  <2>4. TypeOK'
    BY <1>1, <2>1, <2>3 DEF TypeOK
  <2>5. OnceTorn' /\ LineFits' /\ StatusComes' /\ CutShort'
    BY <2>1, <2>2 DEF OnceTorn, LineFits, StatusComes, CutShort
  <2>6. OnScreen'
    BY <1>1, <2>1, <2>2 DEF OnScreen, CursorFollows
  <2> QED BY <2>4, <2>5, <2>6 DEF IInv
<1>4. CASE UNCHANGED vars
  BY <1>1, <1>4 DEF vars, IInv, TypeOK, OnceTorn, LineFits, StatusComes, CutShort,
                    OnScreen, CursorFollows
<1> QED BY <1>2, <1>3, <1>4

(* The invariant holds initially and every step preserves it.              *)
THEOREM Inductive == Spec => []IInv
<1>1. Init => IInv
  BY InitIInv
<1>2. IInv /\ [Next]_vars => IInv'
  BY WriteIInv, PutIInv, StatusIInv, TickInPutIInv, OtherStepsIInv DEF Next, Silent
<1> QED BY <1>1, <1>2, PTL DEF Spec

(* Whatever is written, however the tick falls into it: characters go to   *)
(* the screen of monitor.c, and the hardware cursor follows them.          *)
THEOREM StaysOnScreen == Spec => []OnScreen
<1>1. IInv => OnScreen
  BY DEF IInv
<1> QED BY <1>1, Inductive, PTL
-----------------------------------------------------------------------------
(* A function with one value replaced.                                     *)
Replaced(f, i, e) == [f EXCEPT ![i] = e]
IsReplaced(S, n, f, i, e, g) ==
    g \in Seq(S) /\ Len(g) = n /\ \A j \in 1 .. n : g[j] = IF j = i THEN e ELSE f[j]

(* A sequence with one element replaced.                                   *)
LEMMA ReplacedFacts ==
    ASSUME NEW S, NEW f \in Seq(S), NEW n, n = Len(f), NEW i \in 1 .. n, NEW e \in S,
           NEW g, g = Replaced(f, i, e)
    PROVE  IsReplaced(S, n, f, i, e, g)
BY ExceptSeq DEF Replaced, IsReplaced

(* Two sequences in a row.                                                 *)
Cat(a, b) == a \o b
AreJoined(S, a, b, m, n, t) ==
    /\ m \in Nat /\ n \in Nat /\ t \in Seq(S) /\ Len(t) = m + n
    /\ \A i \in 1 .. m : t[i] = a[i]
    /\ \A i \in 1 .. n : t[m + i] = b[i]

(* Length and members of two sequences in a row.                           *)
LEMMA Joined ==
    ASSUME NEW S, NEW a \in Seq(S), NEW b \in Seq(S), NEW t, t = Cat(a, b),
           NEW m, m = Len(a), NEW n, n = Len(b)
    PROVE  AreJoined(S, a, b, m, n, t)
<1>1. m \in Nat /\ n \in Nat
  BY LenProperties
<1>2. /\ t \in Seq(S) /\ Len(t) = m + n
      /\ \A i \in 1 .. m + n : t[i] = IF i <= m THEN a[i] ELSE b[i - m]
  BY ConcatProperties DEF Cat
<1>3. ASSUME NEW i \in 1 .. m PROVE t[i] = a[i]
  <2>1. i \in 1 .. m + n /\ i <= m
    BY <1>1
  <2> QED BY <1>2, <2>1
<1>4. ASSUME NEW i \in 1 .. n PROVE t[m + i] = b[i]
  <2>1. m + i \in 1 .. m + n /\ ~(m + i <= m) /\ m + i - m = i
    BY <1>1
  <2> QED BY <1>2, <2>1
<1> QED BY <1>1, <1>2, <1>3, <1>4 DEF AreJoined

(* An index of two sequences in a row.                                     *)
LEMMA JoinedIndex ==
    ASSUME NEW m \in Nat, NEW n \in Nat, NEW j \in 1 .. m + n
    PROVE  j \in 1 .. m \/ \E i \in 1 .. n : j = m + i
<1>1. CASE j <= m
  BY <1>1
<1>2. CASE ~(j <= m)
  <2>1. j - m \in 1 .. n /\ j = m + (j - m)
    BY <1>2
  <2> QED BY <2>1
<1> QED BY <1>1, <1>2

(* To change the second is to change the whole.                            *)
LEMMA JoinedExcept ==
    ASSUME NEW S, NEW a \in Seq(S), NEW b \in Seq(S), NEW k \in 1 .. Len(b), NEW e \in S,
           NEW c, c = Replaced(b, k, e), NEW t, t = Cat(a, b), NEW p, p = Len(a) + k
    PROVE  Cat(a, c) = Replaced(t, p, e)
<1>1. PICK m, n, u : m = Len(a) /\ n = Len(b) /\ u = Cat(a, c)
  OBVIOUS
<1>2. /\ m \in Nat /\ n \in Nat /\ t \in Seq(S) /\ Len(t) = m + n
      /\ \A i \in 1 .. m : t[i] = a[i]
      /\ \A i \in 1 .. n : t[m + i] = b[i]
  <2>1. AreJoined(S, a, b, m, n, t)
    BY <1>1, Joined
  <2> QED BY <2>1 DEF AreJoined
<1>3. c \in Seq(S) /\ Len(c) = n /\ \A i \in 1 .. n : c[i] = IF i = k THEN e ELSE b[i]
  <2>1. k \in 1 .. n
    BY <1>1
  <2>2. IsReplaced(S, n, b, k, e, c)
    BY <1>1, <2>1, ReplacedFacts
  <2> QED BY <2>2 DEF IsReplaced
<1>4. /\ u \in Seq(S) /\ Len(u) = m + n
      /\ \A i \in 1 .. m : u[i] = a[i]
      /\ \A i \in 1 .. n : u[m + i] = c[i]
  <2>1. AreJoined(S, a, c, m, n, u)
    BY <1>1, <1>3, Joined
  <2> QED BY <2>1 DEF AreJoined
<1>5. k \in 1 .. n /\ m + k \in 1 .. m + n /\ p = m + k
  BY <1>1, <1>2
<1>6. PICK v : v = Replaced(t, p, e)
  OBVIOUS
<1>7. /\ v \in Seq(S) /\ Len(v) = m + n
      /\ \A i \in 1 .. m + n : v[i] = IF i = m + k THEN e ELSE t[i]
  <2>1. PICK l : l = Len(t)
    OBVIOUS
  <2>2. p \in 1 .. l /\ l = m + n
    BY <1>2, <1>5, <2>1
  <2>3. IsReplaced(S, l, t, p, e, v)
    BY <1>2, <1>6, <2>1, <2>2, ReplacedFacts
  <2> QED BY <1>5, <2>2, <2>3 DEF IsReplaced
<1>8. ASSUME NEW j \in 1 .. m + n PROVE u[j] = v[j]
  <2>1. CASE j \in 1 .. m
    <3>1. j # m + k
      BY <1>2, <1>5, <2>1
    <3> QED BY <1>2, <1>4, <1>7, <2>1, <3>1
  <2>2. ASSUME NEW i \in 1 .. n, j = m + i PROVE u[j] = v[j]
    <3>1. j = m + k <=> i = k
      BY <1>2, <1>5, <2>2
    <3>2. u[j] = c[i] /\ t[j] = b[i]
      BY <1>2, <1>4, <2>2
    <3> QED BY <1>3, <1>7, <3>1, <3>2
  <2> QED BY <1>2, <2>1, <2>2, JoinedIndex
<1>9. u = v
  BY <1>4, <1>7, <1>8, SeqEqual
<1> QED BY <1>1, <1>6, <1>9

(* A sequence with one more element.                                       *)
Longer(s, e) == Append(s, e)
IsLonger(S, n, s, e, v) ==
    /\ v \in Seq(S) /\ Len(v) = n + 1 /\ v[n + 1] = e
    /\ \A i \in 1 .. n : v[i] = s[i]

(* A sequence of rows with one more at its end.                            *)
LEMMA LongerFacts ==
    ASSUME NEW S, NEW s \in Seq(S), NEW n, n = Len(s), NEW e \in S, NEW v, v = Longer(s, e)
    PROVE  IsLonger(S, n, s, e, v)
BY AppendProperties DEF Longer, IsLonger

(* The second moves up by one: its first element joins the first, and a    *)
(* new one follows.                                                        *)
LEMMA JoinedShift ==
    ASSUME NEW S, NEW a \in Seq(S), NEW b \in Seq(S), NEW c \in Seq(S), NEW e \in S,
           NEW n, n = Len(b), n > 0, Len(c) = n, c[n] = e,
           \A i \in 1 .. n - 1 : c[i] = b[i + 1],
           NEW d, d = Longer(a, b[1]), NEW t, t = Cat(a, b)
    PROVE  Cat(d, c) = Longer(t, e)
<1>1. PICK m, u, v : m = Len(a) /\ u = Cat(d, c) /\ v = Longer(t, e)
  OBVIOUS
<1>2. /\ m \in Nat /\ n \in Nat /\ t \in Seq(S) /\ Len(t) = m + n
      /\ \A i \in 1 .. m : t[i] = a[i]
      /\ \A i \in 1 .. n : t[m + i] = b[i]
  <2>1. AreJoined(S, a, b, m, n, t)
    BY <1>1, Joined
  <2> QED BY <2>1 DEF AreJoined
<1>3. n > 0 /\ 1 \in 1 .. n /\ b[1] \in S
  <2>1. n > 0 /\ 1 \in 1 .. n
    BY <1>1, <1>2
  <2> QED BY <1>1, <2>1, ElementOfSeq
<1>4. /\ d \in Seq(S) /\ Len(d) = m + 1 /\ d[m + 1] = b[1]
      /\ \A i \in 1 .. m : d[i] = a[i]
  <2>1. IsLonger(S, m, a, b[1], d)
    BY <1>1, <1>3, LongerFacts
  <2> QED BY <2>1 DEF IsLonger
<1>5. /\ u \in Seq(S) /\ Len(u) = m + 1 + n
      /\ \A i \in 1 .. m + 1 : u[i] = d[i]
      /\ \A i \in 1 .. n : u[m + 1 + i] = c[i]
  <2>1. m + 1 = Len(d)
    BY <1>4
  <2>2. PICK l : l = m + 1
    OBVIOUS
  <2>3. AreJoined(S, d, c, l, n, u)
    BY <1>1, <1>4, <2>1, <2>2, Joined
  <2> QED BY <2>2, <2>3 DEF AreJoined
<1>6. /\ v \in Seq(S) /\ Len(v) = m + n + 1 /\ v[m + n + 1] = e
      /\ \A i \in 1 .. m + n : v[i] = t[i]
  <2>1. PICK l : l = m + n
    OBVIOUS
  <2>2. IsLonger(S, l, t, e, v)
    BY <1>1, <1>2, <2>1, LongerFacts
  <2> QED BY <2>1, <2>2 DEF IsLonger
<1>7. c[n] = e /\ \A i \in 1 .. n - 1 : c[i] = b[i + 1]
  BY <1>1
<1>8. ASSUME NEW j \in 1 .. (m + 1) + n PROVE u[j] = v[j]
  <2>1. CASE j \in 1 .. m
    <3>1. j \in 1 .. m + 1 /\ j \in 1 .. m + n
      BY <1>2, <2>1
    <3> QED BY <1>2, <1>4, <1>5, <1>6, <2>1, <3>1
  <2>2. CASE j = m + 1
    <3>1. m + 1 \in 1 .. m + 1 /\ m + 1 \in 1 .. m + n
      BY <1>2, <1>3
    <3>2. t[m + 1] = b[1]
      BY <1>2, <1>3
    <3> QED BY <1>4, <1>5, <1>6, <2>2, <3>1, <3>2
  <2>3. ASSUME NEW i \in 1 .. n, j = (m + 1) + i PROVE u[j] = v[j]
    <3>1. u[j] = c[i]
      BY <1>5, <2>3
    <3>2. CASE i = n
      <4>1. j = m + n + 1
        BY <1>2, <2>3, <3>2
      <4> QED BY <1>6, <1>7, <3>1, <3>2, <4>1
    <3>3. CASE i # n
      <4>1. i \in 1 .. n - 1 /\ i + 1 \in 1 .. n /\ j = m + (i + 1) /\ j \in 1 .. m + n
        BY <1>2, <2>3, <3>3
      <4>2. c[i] = b[i + 1]
        BY <1>7, <4>1
      <4>3. t[j] = b[i + 1]
        BY <1>2, <4>1
      <4>4. v[j] = t[j]
        BY <1>6, <4>1
      <4> QED BY <3>1, <4>2, <4>3, <4>4
    <3> QED BY <3>2, <3>3
  <2>4. m + 1 \in Nat /\ (j \in 1 .. m + 1 => j \in 1 .. m \/ j = m + 1)
    BY <1>2
  <2> QED BY <1>2, <2>1, <2>2, <2>3, <2>4, JoinedIndex
<1>9. u = v
  <2>1. Len(u) = (m + 1) + n /\ Len(v) = (m + 1) + n
    BY <1>2, <1>5, <1>6
  <2> QED BY <1>5, <1>6, <1>8, <2>1, SeqEqual
<1> QED BY <1>1, <1>9

-----------------------------------------------------------------------------
(* The sheet of paper: the rows that have scrolled away and the screen.    *)
ScreenRows(m) == [r \in 1 .. Rows |-> m.screen[r - 1]]

AreRows(b, m) ==
    b \in Seq(RowSet) /\ Len(b) = Rows /\ \A i \in 1 .. Rows : b[i] = m.screen[i - 1]

(* The rows on the screen, from the top to the bottom.                     *)
LEMMA ScreenRowsFacts ==
    ASSUME NEW m \in Screens, NEW b, b = ScreenRows(m)
    PROVE  AreRows(b, m)
<1>1. Rows \in Nat /\ m.screen \in [0 .. Rows - 1 -> RowSet]
  BY MonitorAssumption DEF Screens
<1>2. ASSUME NEW i \in 1 .. Rows PROVE m.screen[i - 1] \in RowSet
  <2>1. i - 1 \in 0 .. Rows - 1
    BY <1>1
  <2> QED BY <1>1, <2>1
<1>3. b = [i \in 1 .. Rows |-> m.screen[i - 1]]
  BY DEF ScreenRows
<1>4. b \in Seq(RowSet) /\ Len(b) = Rows
  BY <1>1, <1>2, <1>3
<1> QED BY <1>3, <1>4 DEF AreRows

(* The paper: its rows that left the screen, and those on it.              *)
LEMMA PaperFacts ==
    ASSUME NEW m \in Screens, NEW b, b = ScreenRows(m)
    PROVE  /\ Rowwise(m) = Cat(m.scrolled, b)
           /\ m.scrolled \in Seq(RowSet) /\ Len(m.scrolled) \in Nat
           /\ Len(Rowwise(m)) = Len(m.scrolled) + Rows
           /\ \A i \in 1 .. Rows : Rowwise(m)[Len(m.scrolled) + i] = m.screen[i - 1]
<1>1. Rowwise(m) = Cat(m.scrolled, b)
  BY DEF Rowwise, ScreenRows, Cat
<1>2. m.scrolled \in Seq(RowSet)
  BY DEF Screens
<1>3. PICK a, t : a = m.scrolled /\ t = Rowwise(m)
  OBVIOUS
<1>4. b \in Seq(RowSet) /\ Len(b) = Rows /\ \A i \in 1 .. Rows : b[i] = m.screen[i - 1]
  <2>1. AreRows(b, m)
    BY ScreenRowsFacts
  <2> QED BY <2>1 DEF AreRows
<1>5. /\ Len(a) \in Nat /\ Len(t) = Len(a) + Rows
      /\ \A i \in 1 .. Rows : t[Len(a) + i] = b[i]
  <2>1. a \in Seq(RowSet) /\ t = Cat(a, b)
    BY <1>1, <1>2, <1>3
  <2>2. PICK m1 : m1 = Len(a)
    OBVIOUS
  <2>3. AreJoined(RowSet, a, b, m1, Rows, t)
    BY <1>4, <2>1, <2>2, Joined
  <2> QED BY <2>2, <2>3 DEF AreJoined
<1> QED BY <1>1, <1>2, <1>3, <1>4, <1>5

(* A character stored on the screen is written on the sheet.               *)
LEMMA SheetStored ==
    ASSUME NEW m \in Screens, m.x < Cols, m.y < Rows,
           NEW q \in Screens, q.scrolled = m.scrolled, NEW ch \in Printable,
           q.screen = Replaced(m.screen, m.y, Replaced(m.screen[m.y], m.x, ch)),
           NEW n, n = Len(m.scrolled) + m.y + 1
    PROVE  Rowwise(q) = Replaced(Rowwise(m), n, Replaced(Rowwise(m)[n], m.x, ch))
<1>1. /\ Rows \in Nat /\ m.y \in Nat /\ m.x \in 0 .. Cols - 1
      /\ m.screen \in [0 .. Rows - 1 -> RowSet]
  <2>1. m.x \in Nat /\ m.y \in Nat /\ m.screen \in [0 .. Rows - 1 -> RowSet]
    BY DEF Screens
  <2>2. Rows \in Nat /\ Cols \in Nat /\ m.x < Cols
    BY MonitorAssumption
  <2>3. \A x \in Nat : x < Cols => x \in 0 .. Cols - 1
    BY <2>2
  <2> QED BY <2>1, <2>2, <2>3
<1>2. PICK a, b, c, y, line, new :
        /\ a = m.scrolled /\ b = ScreenRows(m) /\ c = ScreenRows(q) /\ y = m.y
        /\ line = m.screen[m.y] /\ new = Replaced(line, m.x, ch)
  OBVIOUS
<1>3. /\ b \in Seq(RowSet) /\ Len(b) = Rows
      /\ \A i \in 1 .. Rows : b[i] = m.screen[i - 1]
      /\ c \in Seq(RowSet) /\ Len(c) = Rows
      /\ \A i \in 1 .. Rows : c[i] = q.screen[i - 1]
  <2>1. AreRows(b, m) /\ AreRows(c, q)
    BY <1>2, ScreenRowsFacts
  <2> QED BY <2>1 DEF AreRows
<1>4. y \in Nat /\ y + 1 \in 1 .. Rows /\ y \in 0 .. Rows - 1
  BY <1>1, <1>2
<1>5. line \in RowSet /\ new \in RowSet
  <2>1. line \in RowSet
    BY <1>1, <1>2, <1>4
  <2> QED BY <1>1, <1>2, <2>1 DEF RowSet, Glyphs, Replaced
<1>6. \A i \in 1 .. Rows : c[i] = IF i = y + 1 THEN new ELSE b[i]
  <2> SUFFICES ASSUME NEW i \in 1 .. Rows PROVE c[i] = IF i = y + 1 THEN new ELSE b[i]
    OBVIOUS
  <2>1. i - 1 \in 0 .. Rows - 1 /\ (i = y + 1 <=> i - 1 = y)
    BY <1>1, <1>4
  <2>2. q.screen = Replaced(m.screen, y, new)
    BY <1>2
  <2>3. q.screen[i - 1] = IF i - 1 = y THEN new ELSE m.screen[i - 1]
    BY <1>1, <2>1, <2>2 DEF Replaced
  <2> QED BY <1>3, <2>1, <2>3
<1>7. c = Replaced(b, y + 1, new)
  <2>1. PICK k \in 1 .. Rows : k = y + 1
    BY <1>4
  <2>2. PICK d : d = Replaced(b, k, new)
    OBVIOUS
  <2>3. IsReplaced(RowSet, Rows, b, k, new, d)
    BY <1>3, <1>5, <2>2, ReplacedFacts
  <2>4. /\ d \in Seq(RowSet) /\ Len(d) = Rows /\ \A j \in 1 .. Rows : c[j] = d[j]
    BY <1>6, <2>1, <2>3 DEF IsReplaced
  <2>5. c = d
    BY <1>3, <2>4, SeqEqual
  <2> QED BY <2>1, <2>2, <2>5
<1>8. Rowwise(m) = Cat(a, b) /\ Rowwise(q) = Cat(a, c) /\ a \in Seq(RowSet) /\ Len(a) \in Nat
  BY <1>2, PaperFacts
<1>9. n = Len(a) + (y + 1)
  BY <1>2, <1>4, <1>8
<1>10. Cat(a, c) = Replaced(Cat(a, b), n, new)
  <2>1. y + 1 \in 1 .. Len(b)
    BY <1>3, <1>4
  <2>2. PICK k \in 1 .. Len(b) : k = y + 1
    BY <2>1
  <2>3. PICK t : t = Cat(a, b)
    OBVIOUS
  <2>4. c = Replaced(b, k, new) /\ n = Len(a) + k
    BY <1>7, <1>9, <2>2
  <2>5. a \in Seq(RowSet) /\ b \in Seq(RowSet) /\ new \in RowSet
    BY <1>3, <1>5, <1>8
  <2>6. Cat(a, c) = Replaced(t, n, new)
    BY <2>3, <2>4, <2>5, JoinedExcept
  <2> QED BY <2>3, <2>6
<1>11. Rowwise(m)[n] = line
  <2>1. PICK i \in 1 .. Rows : i = y + 1
    BY <1>4
  <2>2. Rowwise(m)[Len(a) + i] = m.screen[i - 1]
    BY <1>2, PaperFacts
  <2>3. i - 1 = y /\ n = Len(a) + i
    BY <1>4, <1>9, <2>1
  <2> QED BY <1>2, <2>2, <2>3
<1> QED BY <1>2, <1>8, <1>10, <1>11

(* scroll() appends a blank row to the sheet.                              *)
LEMMA SheetScrolled ==
    ASSUME NEW m \in Screens, NEW q \in Screens,
           q.scrolled = Append(m.scrolled, m.screen[0]),
           \A i \in 0 .. Rows - 1 :
               q.screen[i] = IF i < Rows - 1 THEN m.screen[i + 1] ELSE BlankRow
    PROVE  Rowwise(q) = Append(Rowwise(m), BlankRow) /\ Len(q.scrolled) = Len(m.scrolled) + 1
<1>1. Rows \in Nat /\ Rows > 1 /\ m.screen \in [0 .. Rows - 1 -> RowSet]
  BY MonitorAssumption DEF Screens
<1>2. PICK a, b, c : a = m.scrolled /\ b = ScreenRows(m) /\ c = ScreenRows(q)
  OBVIOUS
<1>3. /\ b \in Seq(RowSet) /\ Len(b) = Rows
      /\ \A i \in 1 .. Rows : b[i] = m.screen[i - 1]
      /\ c \in Seq(RowSet) /\ Len(c) = Rows
      /\ \A i \in 1 .. Rows : c[i] = q.screen[i - 1]
  <2>1. AreRows(b, m) /\ AreRows(c, q)
    BY <1>2, ScreenRowsFacts
  <2> QED BY <2>1 DEF AreRows
<1>4. BlankRow \in RowSet /\ m.screen[0] \in RowSet
  BY <1>1 DEF BlankRow, RowSet, Glyphs
<1>5. b[1] = m.screen[0]
  <2>1. 1 \in 1 .. Rows /\ 1 - 1 = 0
    BY <1>1
  <2> QED BY <1>3, <2>1
<1>6. c[Rows] = BlankRow
  <2>1. Rows \in 1 .. Rows /\ Rows - 1 \in 0 .. Rows - 1 /\ ~(Rows - 1 < Rows - 1)
    BY <1>1
  <2> QED BY <1>3, <2>1
<1>7. \A i \in 1 .. Rows - 1 : c[i] = b[i + 1]
  <2> SUFFICES ASSUME NEW i \in 1 .. Rows - 1 PROVE c[i] = b[i + 1]
    OBVIOUS
  <2>1. /\ i \in 1 .. Rows /\ i + 1 \in 1 .. Rows /\ i - 1 \in 0 .. Rows - 1
        /\ i - 1 < Rows - 1 /\ i - 1 + 1 = i /\ i + 1 - 1 = i
    BY <1>1
  <2>2. c[i] = q.screen[i - 1] /\ q.screen[i - 1] = m.screen[i - 1 + 1]
    BY <1>3, <2>1
  <2>3. b[i + 1] = m.screen[i + 1 - 1]
    BY <1>3, <2>1
  <2> QED BY <2>1, <2>2, <2>3
<1>8. /\ Rowwise(m) = Cat(a, b) /\ Rowwise(q) = Cat(q.scrolled, c)
      /\ a \in Seq(RowSet) /\ q.scrolled = Longer(a, b[1])
  BY <1>2, <1>5, PaperFacts DEF Longer
<1>9. Cat(q.scrolled, c) = Longer(Cat(a, b), BlankRow)
  <2>1. a \in Seq(RowSet) /\ b \in Seq(RowSet) /\ c \in Seq(RowSet) /\ BlankRow \in RowSet
    BY <1>3, <1>4, <1>8
  <2>2. Rows = Len(b) /\ Rows > 0 /\ Len(c) = Rows
    BY <1>1, <1>3
  <2>3. PICK d, t : d = q.scrolled /\ t = Cat(a, b)
    OBVIOUS
  <2>4. d = Longer(a, b[1])
    BY <1>8, <2>3
  <2>5. Cat(d, c) = Longer(t, BlankRow)
    BY <1>6, <1>7, <2>1, <2>2, <2>3, <2>4, JoinedShift
  <2> QED BY <2>3, <2>5
<1>10. Len(q.scrolled) = Len(m.scrolled) + 1
  <2>1. PICK n, d : n = Len(a) /\ d = q.scrolled
    OBVIOUS
  <2>2. IsLonger(RowSet, n, a, b[1], d)
    BY <1>4, <1>5, <1>8, <2>1, LongerFacts
  <2> QED BY <1>2, <2>1, <2>2 DEF IsLonger
<1>11. Rowwise(q) = Longer(Rowwise(m), BlankRow)
  BY <1>8, <1>9
<1> QED BY <1>10, <1>11 DEF Longer

-----------------------------------------------------------------------------
(* The refinement of the sheet of paper.                                   *)

(* A completed put whose cursor goes to column c moves the sheet's         *)
(* position there.                                                         *)
LEMMA PutMoves ==
    ASSUME IInv, ~torn, NEW ch \in Chars, NEW m, m = __monitor_put(ch, LastStage),
           NEW c \in 0 .. Cols, NewX(ch) = (IF c = Cols THEN 0 ELSE c), Ends(ch) <=> c = Cols,
           NEW s, s = Rowwise(Store(ch, mon))
    PROVE  /\ m.x = c % Cols
           /\ Len(m.scrolled) + m.y = Len(mon.scrolled) + mon.y + (c \div Cols)
           /\ Rowwise(m) = IF Len(m.scrolled) + m.y = Len(s) THEN Append(s, BlankRow) ELSE s
<1>1. /\ mon \in Screens /\ mon.x \in 0 .. Cols - 1 /\ mon.y \in Nat /\ mon.y < Rows
      /\ Rows \in Nat /\ Rows > 1
      /\ Cols \in Nat
  BY CursorFacts
<1>2. PICK q : q = Store(ch, mon)
  OBVIOUS
<1>3. q \in Screens /\ q.scrolled = mon.scrolled
  <2>1. mon.x <= Cols /\ mon.y <= Rows /\ (mon.y = Rows => mon.x < Cols)
    BY <1>1
  <2>2. Stored(ch, mon, q)
    BY <1>1, <1>2, <2>1, StoreFacts
  <2> QED BY <2>2 DEF Stored
<1>4. /\ m \in Screens /\ m.x = NewX(ch)
      /\ m.y = IF NewY(ch) = Rows THEN Rows - 1 ELSE NewY(ch)
      /\ NewY(ch) # Rows => m.scrolled = q.scrolled /\ m.screen = q.screen
      /\ NewY(ch) = Rows =>
           /\ m.scrolled = Append(q.scrolled, q.screen[0])
           /\ \A i \in 0 .. Rows - 1 :
                m.screen[i] = IF i < Rows - 1 THEN q.screen[i + 1] ELSE BlankRow
  <2>1. TypeOK /\ mon.x <= Cols /\ mon.y <= Rows /\ (mon.y = Rows => mon.x < Cols)
    BY <1>1 DEF IInv
  <2> QED BY <1>2, <1>3, <2>1, PutCompleted
<1>5. NewY(ch) = mon.y + (c \div Cols) /\ NewY(ch) \in Nat
  <2>1. NewY(ch) = IF c = Cols THEN mon.y + 1 ELSE mon.y
    BY DEF NewY
  <2>2. PICK d : d = c \div Cols
    OBVIOUS
  <2>3. d = IF c = Cols THEN 1 ELSE 0
    BY <2>2, ColumnSplit
  <2>4. NewY(ch) = mon.y + d /\ NewY(ch) \in Nat
    BY <1>1, <2>1, <2>3
  <2> QED BY <2>2, <2>4
<1>6. m.x = c % Cols
  BY <1>4, ColumnSplit
<1>7. s = Rowwise(q) /\ Len(s) = Len(mon.scrolled) + Rows /\ Len(mon.scrolled) \in Nat
  <2>1. Len(Rowwise(q)) = Len(q.scrolled) + Rows /\ Len(q.scrolled) \in Nat
    BY <1>3, PaperFacts
  <2> QED BY <1>2, <1>3, <2>1
<1>8. CASE NewY(ch) = Rows
  <2>1. Rowwise(m) = Append(s, BlankRow) /\ Len(m.scrolled) = Len(mon.scrolled) + 1
    <3>1. Rowwise(m) = Append(Rowwise(q), BlankRow) /\ Len(m.scrolled) = Len(q.scrolled) + 1
      BY <1>3, <1>4, <1>8, SheetScrolled
    <3> QED BY <1>3, <1>7, <3>1
  <2>2. PICK l \in Nat : l = Len(mon.scrolled)
    BY <1>7
  <2>3. Len(m.scrolled) + m.y = l + Rows
    <3>1. m.y = Rows - 1 /\ Len(m.scrolled) = l + 1
      BY <1>4, <1>8, <2>1, <2>2
    <3> QED BY <1>1, <3>1
  <2>4. l + mon.y + (c \div Cols) = l + Rows
    <3>1. PICK d \in Nat : d = c \div Cols
      BY ColumnSplit
    <3>2. mon.y + d = Rows
      BY <1>5, <1>8, <3>1
    <3>3. l + mon.y + d = l + Rows
      BY <1>1, <3>2
    <3> QED BY <3>1, <3>3
  <2> QED BY <1>6, <1>7, <2>1, <2>2, <2>3, <2>4
<1>9. CASE NewY(ch) # Rows
  <2>1. Rowwise(m) = s /\ m.scrolled = mon.scrolled /\ m.y = NewY(ch)
    BY <1>3, <1>4, <1>7, <1>9 DEF Rowwise
  <2>2. PICK l \in Nat : l = Len(mon.scrolled)
    BY <1>7
  <2>3. l + mon.y + (c \div Cols) = l + NewY(ch)
    <3>1. PICK d \in Nat : d = c \div Cols
      BY ColumnSplit
    <3>2. NewY(ch) = mon.y + d
      BY <1>5, <3>1
    <3>3. l + mon.y + d = l + NewY(ch)
      BY <1>1, <3>2
    <3> QED BY <3>1, <3>3
  <2>4. l + NewY(ch) # l + Rows
    BY <1>1, <1>5, <1>9
  <2> QED BY <1>6, <1>7, <2>1, <2>2, <2>3, <2>4
<1> QED BY <1>8, <1>9

(* The sheet's variables follow the screen while no put is cut short.      *)
LEMMA SheetFacts ==
    ASSUME torn = FALSE
    PROVE  paper = Rowwise(mon) /\ row = Len(mon.scrolled) + mon.y /\ col = mon.x
BY DEF paper, row, col

(* Moving to a column of the sheet.                                        *)
LEMMA MovesTo ==
    ASSUME torn = FALSE, torn' = FALSE, NEW c, NEW s,
           mon'.x = c % Cols,
           Len(mon'.scrolled) + mon'.y = Len(mon.scrolled) + mon.y + (c \div Cols),
           Rowwise(mon') = IF Len(mon'.scrolled) + mon'.y = Len(s) THEN Append(s, BlankRow) ELSE s
    PROVE  Sheet!MoveTo(s, c)
BY DEF Sheet!MoveTo, Sheet!BlankRow, BlankRow, paper, row, col

(* A put is one of the writes of Terminal.                                 *)
LEMMA PutOnSheet ==
    ASSUME IInv, torn = FALSE, monitor_put
    PROVE  Sheet!Next
<1>0. paper = Rowwise(mon) /\ row = Len(mon.scrolled) + mon.y /\ col = mon.x
  BY SheetFacts
<1>1. PICK ch : ch = Head(todo)
  OBVIOUS
<1>2. /\ todo # << >> /\ ch # "status" /\ mon' = __monitor_put(ch, LastStage)
      /\ torn' = FALSE
  BY <1>1 DEF monitor_put
<1>3. /\ mon \in Screens /\ mon.x \in 0 .. Cols - 1 /\ mon.y \in Nat /\ mon.y < Rows
      /\ mon.x < Cols /\ mon.x <= Cols /\ mon.y <= Rows /\ mon.y # Rows
      /\ todo \in Seq(Symbols) /\ Cols \in Nat /\ Cols > 1
  BY CursorFacts
<1>4. ch \in Chars
  BY <1>1, <1>2, <1>3, HeadTail DEF Symbols
<1>5. PICK s : s = Rowwise(Store(ch, mon))
  OBVIOUS
<1>6. ASSUME NEW c \in 0 .. Cols, NewX(ch) = (IF c = Cols THEN 0 ELSE c), Ends(ch) <=> c = Cols
      PROVE  Sheet!MoveTo(s, c)
  <2>1. PICK m : m = __monitor_put(ch, LastStage)
    OBVIOUS
  <2>2. /\ m.x = c % Cols
        /\ Len(m.scrolled) + m.y = Len(mon.scrolled) + mon.y + (c \div Cols)
        /\ Rowwise(m) = IF Len(m.scrolled) + m.y = Len(s) THEN Append(s, BlankRow) ELSE s
    BY <1>4, <1>5, <1>6, <2>1, PutMoves
  <2>3. mon' = m
    BY <1>2, <2>1
  <2> QED BY <1>2, <2>2, <2>3, MovesTo
<1>7. PICK q : q = Store(ch, mon)
  OBVIOUS
<1>8. Stored(ch, mon, q) /\ s = Rowwise(q)
  BY <1>3, <1>4, <1>5, <1>7, StoreFacts
<1>9. /\ ch \in Printable => Advance(ch, mon.x) = mon.x + 1
      /\ ch \in {"nl", "cr"} => Advance(ch, mon.x) = 0
      /\ ch = "bs" => Advance(ch, mon.x) = IF mon.x = 0 THEN 0 ELSE mon.x - 1
      /\ ch = "tab" => Advance(ch, mon.x) = (mon.x \div TabStop + 1) * TabStop
      /\ Advance(ch, mon.x) \in Nat
  <2>1. mon.x \in Nat
    BY <1>3
  <2> QED BY <1>4, <2>1, AdvanceFacts
<1>10. CASE ch \in Printable
  <2>1. ch # "nl"
    BY <1>10, Alphabets
  <2>2. PICK c \in 0 .. Cols : c = mon.x + 1
    BY <1>3
  <2>3. NewX(ch) = (IF c = Cols THEN 0 ELSE c) /\ (Ends(ch) <=> c = Cols)
    BY <1>3, <1>9, <1>10, <2>1, <2>2 DEF NewX, Ends, Wraps
  <2>4. Sheet!MoveTo(s, c)
    BY <1>6, <2>3
  <2>5. PICK n : n = Len(mon.scrolled) + mon.y + 1
    OBVIOUS
  <2>6. s = Replaced(Rowwise(mon), n, Replaced(Rowwise(mon)[n], mon.x, ch))
    <3>1. /\ q \in Screens /\ q.scrolled = mon.scrolled
          /\ q.screen = Replaced(mon.screen, mon.y, Replaced(mon.screen[mon.y], mon.x, ch))
      BY <1>3, <1>8, <1>10 DEF Stored, Replaced
    <3> QED BY <1>3, <1>8, <1>10, <2>5, <3>1, SheetStored
  <2>7. Sheet!Type(ch)
    <3>1. row + 1 = n /\ col + 1 = c
      BY <1>0, <2>2, <2>5
    <3>2. [paper EXCEPT ![row + 1][col] = ch] = s
      BY <1>0, <2>6, <3>1 DEF Replaced
    <3> QED BY <2>4, <3>1, <3>2 DEF Sheet!Type
  <2> QED BY <1>2, <1>10, <2>7 DEF Sheet!Next
<1>11. CASE ch \notin Printable
  <2>1. ch \in {"nl", "cr", "tab", "bs"}
    BY <1>4, <1>11 DEF Chars, Controls
  <2>2. s = Rowwise(mon)
    BY <1>8, <2>1 DEF Stored, Controls
  <2>3. CASE ch = "nl"
    <3>1. Cols \in 0 .. Cols /\ NewX(ch) = 0 /\ Ends(ch)
      BY <1>3, <1>9, <2>3 DEF NewX, Ends, Wraps
    <3>2. Sheet!MoveTo(s, Cols)
      BY <1>6, <3>1
    <3>3. Sheet!NewLine
      BY <1>0, <2>2, <3>2 DEF Sheet!NewLine
    <3> QED BY <1>2, <3>3 DEF Sheet!Next
  <2>4. CASE ch = "cr"
    <3>1. 0 \in 0 .. Cols /\ NewX(ch) = 0 /\ ~Ends(ch) /\ Cols # 0
      BY <1>3, <1>9, <2>4 DEF NewX, Ends, Wraps
    <3>2. Sheet!MoveTo(s, 0)
      BY <1>6, <3>1
    <3>3. Sheet!Return
      BY <1>0, <2>2, <3>2 DEF Sheet!Return
    <3> QED BY <1>2, <3>3 DEF Sheet!Next
  <2>5. CASE ch = "bs"
    <3>0. PICK c \in 0 .. Cols : c = IF mon.x = 0 THEN 0 ELSE mon.x - 1
      BY <1>3
    <3>1. NewX(ch) = c /\ ~Ends(ch) /\ Cols # c
      BY <1>3, <1>9, <2>5, <3>0 DEF NewX, Ends, Wraps
    <3>2. Sheet!MoveTo(s, c)
      BY <1>6, <3>1
    <3>3. Sheet!Backspace
      BY <1>0, <2>2, <3>0, <3>2 DEF Sheet!Backspace
    <3> QED BY <1>2, <3>3 DEF Sheet!Next
  <2>6. CASE ch = "tab"
    <3>1. PICK stop \in Nat : /\ stop = (mon.x \div TabStop + 1) * TabStop
                              /\ stop = Advance(ch, mon.x)
      BY <1>9, <2>6
    <3>2. PICK c \in 0 .. Cols : c = IF stop < Cols THEN stop ELSE Cols
      BY <1>3
    <3>3. NewX(ch) = (IF c = Cols THEN 0 ELSE c) /\ (Ends(ch) <=> c = Cols)
      BY <1>3, <2>6, <3>1, <3>2 DEF NewX, Ends, Wraps
    <3>4. Sheet!MoveTo(s, c)
      BY <1>6, <3>3
    <3>5. Sheet!Tab
      BY <1>0, <2>2, <3>1, <3>2, <3>4 DEF Sheet!Tab
    <3> QED BY <1>2, <3>5 DEF Sheet!Next
  <2> QED BY <2>1, <2>3, <2>4, <2>5, <2>6
<1> QED BY <1>10, <1>11

(* The assignment to cur_x aligns to the right edge.                       *)
LEMMA StatusOnSheet ==
    ASSUME IInv, torn = FALSE, monitor_write_status
    PROVE  Sheet!Next
<1>1. PICK c : c = Cols - Len(Status)
  OBVIOUS
<1>2. mon' = [mon EXCEPT !.x = c] /\ torn' = FALSE
  BY <1>1 DEF monitor_write_status
<1>3. /\ mon \in Screens /\ mon.y \in Nat /\ mon.y < Rows /\ Rows \in Nat
      /\ Cols \in Nat /\ c \in 0 .. Cols /\ c < Cols
  BY <1>1, CursorFacts
<1>4. /\ mon'.x = c /\ mon'.y = mon.y /\ mon'.scrolled = mon.scrolled
      /\ mon'.screen = mon.screen
  BY <1>2, <1>3 DEF Screens
<1>5. PICK s : s = Rowwise(mon)
  OBVIOUS
<1>6. Rowwise(mon') = s
  BY <1>4, <1>5 DEF Rowwise
<1>7. PICK l \in Nat : l = Len(mon.scrolled) /\ Len(s) = l + Rows
  BY <1>3, <1>5, PaperFacts
<1>8. c % Cols = c /\ c \div Cols = 0
  BY <1>3, ColumnSplit
<1>9. l + mon.y = l + mon.y + 0 /\ l + mon.y # l + Rows
  BY <1>3
<1>10. Sheet!MoveTo(s, c)
  BY <1>2, <1>4, <1>6, <1>7, <1>8, <1>9, MovesTo
<1>11. Sheet!AlignRight
  BY <1>1, <1>5, <1>10, SheetFacts DEF Sheet!AlignRight
<1> QED BY <1>2, <1>11 DEF Sheet!Next

(* The other steps do not touch the sheet, or tear it.                     *)
LEMMA StepOnSheet ==
    ASSUME IInv, [Next]_vars
    PROVE  [Sheet!Next]_Sheet!vars
<1>1. torn \in BOOLEAN
  BY DEF IInv, TypeOK
<1>2. ASSUME mon' = mon, torn' = torn
      PROVE  UNCHANGED Sheet!vars
  BY <1>2 DEF Sheet!vars, paper, row, col
<1>3. ASSUME torn = TRUE, torn' = TRUE
      PROVE  UNCHANGED Sheet!vars
  BY <1>3 DEF Sheet!vars, paper, row, col
<1>4. CASE monitor_write \/ sti \/ Tick \/ UNCHANGED vars
  <2>1. mon' = mon /\ torn' = torn
    BY <1>4 DEF monitor_write, sti, Tick, vars
  <2> QED BY <1>2, <2>1
<1>5. CASE monitor_put
  <2>1. torn' = torn
    BY <1>5 DEF monitor_put
  <2> QED BY <1>1, <1>3, <1>5, <2>1, PutOnSheet
<1>6. CASE monitor_write_status
  <2>1. torn' = torn
    BY <1>6 DEF monitor_write_status
  <2> QED BY <1>1, <1>3, <1>6, <2>1, StatusOnSheet
<1>7. ASSUME NEW k \in 1 .. LastStage - 1, TickInPut(k)
      PROVE  [Sheet!Next]_Sheet!vars
  <2>1. torn' = TRUE
    BY <1>7 DEF TickInPut
  <2>2. Sheet!Tear
    BY <2>1 DEF Sheet!Tear, paper, row, col
  <2> QED BY <2>2 DEF Sheet!Next
<1> QED BY <1>4, <1>5, <1>6, <1>7 DEF Next, Silent

(* The blank screen is the blank sheet.                                    *)
LEMMA InitOnSheet == Init => Sheet!Init
<1> SUFFICES ASSUME Init PROVE Sheet!Init
  OBVIOUS
<1>1. torn = FALSE /\ mon = monitor_clear
  BY DEF Init
<1>2. Rows \in Nat
  BY MonitorAssumption
<1>3. mon.scrolled = << >> /\ mon.y = 0 /\ mon.x = 0 /\ Len(<< >>) = 0
      /\ mon.screen = [r \in 0 .. Rows - 1 |-> BlankRow]
  BY <1>1 DEF monitor_clear
<1>4. [r \in 1 .. Rows |-> mon.screen[r - 1]] = [r \in 1 .. Rows |-> BlankRow]
  <2>1. \A r \in 1 .. Rows : mon.screen[r - 1] = BlankRow
    BY <1>2, <1>3
  <2> QED BY <2>1
<1>5. [r \in 1 .. Rows |-> BlankRow] \in Seq(RowSet)
  <2>1. BlankRow \in RowSet
    BY DEF BlankRow, RowSet, Glyphs
  <2> QED BY <1>2, <2>1
<1>6. Rowwise(mon) = [r \in 1 .. Rows |-> BlankRow]
  BY <1>3, <1>4, <1>5, ConcatEmptySeq DEF Rowwise
<1>7. Sheet!BlankRow = BlankRow
  BY DEF Sheet!BlankRow, BlankRow
<1>8. paper = [r \in 1 .. Rows |-> BlankRow] /\ row = 0 /\ col = 0
  <2>1. Len(mon.scrolled) = 0 /\ mon.y = 0 /\ mon.x = 0
    BY <1>3
  <2>2. paper = Rowwise(mon) /\ row = Len(mon.scrolled) + mon.y /\ col = mon.x
    BY <1>1, SheetFacts
  <2>3. row = 0
    BY <2>1, <2>2
  <2> QED BY <1>6, <2>1, <2>2, <2>3
<1> QED BY <1>1, <1>7, <1>8 DEF Sheet!Init

(* Until a put is cut short, the screen and the rows that have left it are *)
(* a sheet of paper that only grows: what __monitor_put() wraps, scrolls   *)
(* and aligns neither loses nor overwrites what should stay.               *)
THEOREM RefinesTerminal == Spec => IsTerminal
<1>1. Init => Sheet!Init
  BY InitOnSheet
<1>2. IInv /\ [Next]_vars => [Sheet!Next]_Sheet!vars
  BY StepOnSheet
<1> QED BY <1>1, <1>2, Inductive, PTL DEF Spec, IsTerminal, Sheet!Spec
=============================================================================
