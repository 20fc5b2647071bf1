------------------------------ MODULE Console ------------------------------
(***************************************************************************)
(* Input and the console: the PS/2 controller (drivers/ps2.rs), the serial *)
(* line (drivers/serial.rs), the console (env/console.rs) with its display *)
(* (graphics/display.rs), and the schemes through which programs use them, *)
(* debug: (schemes/debug.rs) and display: (schemes/display.rs).            *)
(*                                                                         *)
(* Every handler holds the Intex of the console, or runs with interrupts   *)
(* off, from beginning to end: it is one step.  A character is its name; a *)
(* pixel is its index in the buffer.  The controller (external) has the    *)
(* second byte of a scan code ready when the first one is read.            *)
(***************************************************************************)
EXTENDS Integers, Sequences, SequencesExt, FiniteSets, TLC

CONSTANTS CharW, CharH, Tab,  \* 8, 16 and 64 pixels in the code
          ScreenW, ScreenH,      \* of the display
          NoWidth, NoHeight,  \* what character takes them to be without a display, 80 and 30
          Word,               \* values of a usize, 2^32
          Readers,            \* resources of debug:
          Keys, SerialChars, Texts,  \* what is typed, here and at the serial line, and written by programs
          MaxSteps

ASSUME ConsoleAssumption == /\ CharW \in Nat \ {0} /\ CharH \in Nat \ {0} /\ Tab % CharW = 0
                            /\ ScreenW >= CharW /\ ScreenH >= CharH /\ NoHeight >= CharH
                            /\ Word % 2 = 0 /\ Word > ScreenW * (ScreenH + CharH)

VARIABLES con,     \* the Console
          ps2, serial,
          events,  \* env().events
          screen,  \* the DisplayResource: is it open, and where
          left,    \* command of each DebugResource; the unused ones have none
          held, device,            \* keys that are down; bytes of a mouse packet still to come
          meant,   \* history: what the typist meant and no reader has received; where the pointer went, and
                   \* that no byte of the mouse was lost
          due,     \* history: text handed to a reader that it has not read
          misread, \* history: a reader has read something else
          reach,   \* history: furthest pixel touched
          steps    \* inputs and writes, up to MaxSteps

consoleVars == <<con, ps2, serial, events, screen, left, held, device, meant, due, misread, reach, steps>>

Size == ScreenW * ScreenH
Lesser(a, b) == IF a < b THEN a ELSE b
Greater(a, b) == IF a > b THEN a ELSE b
None == [code |-> "none"]

NewConsole(display) ==
  [display |-> display, x |-> 0, y |-> 0, draw |-> TRUE, redraw |-> TRUE,
   command |-> <<>>, commands |-> <<>>, escape |-> FALSE, escape_sequence |-> FALSE, sequence |-> <<>>,
   raw_mode |-> FALSE, reach |-> 0, astray |-> FALSE]
NewPs2 == [lshift |-> FALSE, rshift |-> FALSE, caps_lock |-> FALSE, caps_lock_toggle |-> FALSE, altgr |-> FALSE,
           mouse_packet |-> <<>>, mouse_x |-> 0, mouse_y |-> 0]
NewSerial == [escape |-> FALSE, cursor_control |-> FALSE]

ConsoleInit ==
  /\ \E d \in BOOLEAN : con = NewConsole(d)
  /\ ps2 = NewPs2 /\ serial = NewSerial
  /\ events = <<>> /\ screen = [open |-> FALSE, seek |-> 0]
  /\ left = <<>>
  /\ held = {} /\ device = <<>>
  /\ meant = [lines |-> <<>>, line |-> <<>>, x |-> 0, y |-> 0, aligned |-> TRUE]
  /\ due = left /\ misread = FALSE /\ reach = 0 /\ steps = 0

----------------------------------------------------------------------------
(* The display: how far into the buffer each operation goes.  Sums wrap as those of usize
   do; a pixel before the buffer has an index that wrapped, past any of the buffer. *)

rect(c, x, y) ==
  LET start_y == Lesser(ScreenH - 1, y)
      end_y == Lesser(ScreenH - 1, (y + CharH) % Word)
      start_x == Lesser(ScreenW - 1, x)
      len == (Lesser(ScreenW - 1, (x + CharW) % Word) - start_x) % Word
  IN IF c.display /\ start_y < end_y THEN [c EXCEPT !.reach = Greater(@, (end_y - 1) * ScreenW + start_x + len)] ELSE c

char(c) == IF c.display /\ (c.x + CharW) % Word <= ScreenW /\ (c.y + CharH) % Word <= ScreenH
           THEN [c EXCEPT !.reach = Greater(@, ((c.y * ScreenW + c.x) % Word) + (CharH - 1) * ScreenW + CharW)] ELSE c
scroll(c) == IF c.display /\ CharH < ScreenH
             THEN [c EXCEPT !.reach = Greater(@, (Size - CharH * ScreenW) + CharH * ScreenW)] ELSE c
set(c) == IF c.display THEN [c EXCEPT !.reach = Greater(@, Size)] ELSE c
flip(c) == [c EXCEPT !.redraw = FALSE, !.reach = IF c.display THEN Greater(@, Size) ELSE @]

----------------------------------------------------------------------------
(* Escape sequences. A parameter is -1 until it has a digit. Colours (CSI m) are left
   out: they do not change what is drawn where. *)
Digits == <<"0", "1", "2", "3", "4", "5", "6", "7", "8", "9">>
Value(d) == (CHOOSE i \in 1..10 : Digits[i] = d) - 1
Param(seq, i) == IF i <= Len(seq) THEN seq[i] ELSE -1
parse_usize(v) == IF v \in 0..(Word - 1) THEN v ELSE 0
parse_isize(v) == IF v \in 0..(Word \div 2 - 1) THEN v ELSE 1

(* The cursor is within a cell of the end of usize: its far edge wraps. *)
Astray(x, y) == x + CharW >= Word \/ y + CharH >= Word

(* CSI H: the cursor is wiped, moved anywhere, and drawn. *)
goto(c) ==
  LET wiped == rect(c, c.x, c.y)
      y == (Greater(0, parse_isize(Param(c.sequence, 1)) - 1) * CharH) % Word
      x == (Greater(0, parse_isize(Param(c.sequence, 2)) - 1) * CharW) % Word
  IN [rect(wiped, x, y) EXCEPT !.x = x, !.y = y, !.redraw = TRUE, !.astray = @ \/ (c.display /\ Astray(x, y))]

erase(c) == IF parse_usize(Param(c.sequence, 1)) = 2 THEN [set(c) EXCEPT !.x = 0, !.y = 0, !.redraw = TRUE] ELSE c

code(c, ch) ==
  IF c.escape_sequence
  THEN CASE ch \in Range(Digits) -> [c EXCEPT !.sequence[Len(c.sequence)] = (IF @ = -1 THEN 0 ELSE @) * 10 + Value(ch)]
         [] ch = ";" -> [c EXCEPT !.sequence = Append(@, -1)]
         [] OTHER -> LET done == CASE ch = "J" -> erase(c)
                                   [] ch \in {"H", "f"} -> goto(c)
                                   [] ch = "r" -> [c EXCEPT !.raw_mode = TRUE]
                                   [] ch = "R" -> [c EXCEPT !.raw_mode = FALSE]
                                   [] OTHER -> c
                     IN [done EXCEPT !.escape_sequence = FALSE, !.sequence = <<>>, !.escape = FALSE]
  ELSE CASE ch = "[" -> [c EXCEPT !.escape_sequence = TRUE, !.sequence = Append(@, -1)]
         [] ch = "c" -> [set(c) EXCEPT !.x = 0, !.y = 0, !.raw_mode = FALSE, !.redraw = TRUE, !.escape = FALSE]
         [] OTHER -> [c EXCEPT !.escape = FALSE]

RECURSIVE scrolled(_, _)
scrolled(c, height) == IF (c.y + CharH) % Word > height THEN scrolled([scroll(c) EXCEPT !.y = @ - CharH], height) ELSE c

(* The cell at the cursor is wiped, or the cursor drawn in it. *)
cell(c) == rect(c, c.x, c.y)
put(c, ch) ==
  CASE ch = "NUL" -> c
    [] ch = "ESC" -> [c EXCEPT !.escape = TRUE]
    [] ch = "NL" -> [c EXCEPT !.x = 0, !.y = (@ + CharH) % Word, !.redraw = TRUE]
    [] ch = "TAB" -> [c EXCEPT !.x = (((@ \div Tab) + 1) * Tab) % Word]
    [] ch = "CR" -> [c EXCEPT !.x = 0]
    [] ch = "BS" -> cell([c EXCEPT !.x = IF @ >= CharW THEN @ - CharW ELSE @])
    [] OTHER -> [char(c) EXCEPT !.x = (@ + CharW) % Word]
wrapped(c) ==
  IF c.x >= (IF c.display THEN ScreenW ELSE NoWidth) THEN [c EXCEPT !.x = 0, !.y = (@ + CharH) % Word] ELSE c

character(c, ch) ==
  cell(scrolled(wrapped(put(cell(c), ch)), IF c.display THEN ScreenH ELSE NoHeight))

flipped(c) == IF c.draw /\ c.redraw THEN flip(c) ELSE c
write(c, bytes) ==
  flipped(FoldLeft(LAMBDA d, ch : IF d.escape THEN code(d, ch) ELSE character(d, ch), c, bytes))

----------------------------------------------------------------------------
(* Events, and how they are converted. *)
KeyToEvent(k) == [code |-> "key", a |-> k.character, b |-> k.scancode, c |-> IF k.pressed THEN 1 ELSE 0]
KeyFromEvent(e) == [character |-> e.a, scancode |-> e.b, pressed |-> e.c > 0]
Bit(b) == IF b THEN 1 ELSE 0
MouseToEvent(m) == [code |-> "mouse", a |-> m.x, b |-> m.y, c |-> Bit(m.left) + 2 * Bit(m.middle) + 4 * Bit(m.right)]
to_option(e) == IF e.code = "key" THEN KeyFromEvent(e) ELSE None

Send(c, line) == [c EXCEPT !.command = <<>>, !.commands = Append(@, line)]
Arrow(k) == CASE k = "UP" -> <<"ESC", "[", "A">> [] k = "BKSP" -> <<"BS">> [] OTHER -> <<>>

Echoed(c, ch) == [write([c EXCEPT !.redraw = TRUE], <<ch>>) EXCEPT !.command = Append(@, ch)]
Finished(c, ch) == IF ch = "NL" THEN Send(c, c.command) ELSE c

(* Mutant: a line is sent and kept. *)
event_Keep(c, e) ==
  LET k == KeyFromEvent(e)
      kept(d) == IF k.character = "NL" THEN [d EXCEPT !.commands = Append(@, d.command)] ELSE d
  IN IF ~k.pressed \/ k.character = "NUL" THEN c ELSE kept(Echoed(c, k.character))

(* Console::event *)
event(c, e) ==
  LET k == to_option(e)
      raw == c.command \o (IF Arrow(k.scancode) # <<>> THEN Arrow(k.scancode)
                           ELSE IF k.character = "NUL" THEN <<>> ELSE <<k.character>>)
  IN CASE k = None -> c
       [] k # None /\ ~k.pressed -> c
       [] k # None /\ k.pressed /\ c.raw_mode -> IF raw = <<>> THEN c ELSE Send(c, raw)
       [] OTHER ->
            CASE k.scancode = "BKSP" -> IF c.command = <<>> THEN c
                                        ELSE [write([c EXCEPT !.redraw = TRUE], <<"BS">>) EXCEPT !.command = Front(@)]
              [] k.scancode # "BKSP" /\ k.character = "NUL" -> c
              [] OTHER -> Finished(Echoed(c, k.character), k.character)

----------------------------------------------------------------------------
(* The PS/2 keyboard: layouts::char_for_scancode and keyboard_interrupt. *)
Scancodes(k) ==
  CASE k = "A" -> <<"a", "A", "a">> [] k = "R" -> <<"r", "R", "r">> [] k = "BRACKET" -> <<"[", "{", "[">>
    [] k = "ENTER" -> <<"NL", "NL", "NL">> [] k = "ESCAPE" -> <<"ESC", "ESC", "ESC">>
    [] OTHER -> <<"NUL", "NUL", "NUL">>
char_for_scancode(k, shift, altgr) == Scancodes(k)[IF altgr THEN 3 ELSE IF shift THEN 2 ELSE 1]

(* The modifiers after a scan code. The second byte of the right Alt key is seen, its
   event is that of the first. *)
modifiers(p, k, down) ==
  CASE k = "LSHIFT" -> [p EXCEPT !.lshift = down]
    [] k = "RSHIFT" -> [p EXCEPT !.rshift = down]
    [] k = "ALTGR" -> [p EXCEPT !.altgr = down]
    [] k = "CAPS" -> IF down THEN IF p.caps_lock THEN [p EXCEPT !.caps_lock_toggle = FALSE]
                                  ELSE [p EXCEPT !.caps_lock = TRUE, !.caps_lock_toggle = TRUE]
                     ELSE IF p.caps_lock_toggle THEN p ELSE [p EXCEPT !.caps_lock = FALSE]
    [] OTHER -> p
keyboard_interrupt(p, k, down) ==
  LET shift == p.caps_lock # (p.lshift \/ p.rshift)
  IN IF k = "ALTGR" THEN [character |-> "NUL", scancode |-> "E0", pressed |-> FALSE]
     ELSE [character |-> char_for_scancode(k, shift, p.altgr), scancode |-> k, pressed |-> down]

(* What the typist means by a key: the lines that are sent, and the one begun. *)
Edit(m, raw, key, ch) ==
  LET text == IF Arrow(key) # <<>> THEN Arrow(key) ELSE IF ch = "NUL" THEN <<>> ELSE <<ch>>
      sent(line) == [m EXCEPT !.lines = Append(@, line), !.line = <<>>]
  IN IF raw THEN IF m.line \o text = <<>> THEN m ELSE sent(m.line \o text)
     ELSE IF key = "BKSP" THEN [m EXCEPT !.line = SubSeq(@, 1, Len(@) - 1)]
     ELSE IF ch = "NL" THEN sent(Append(m.line, "NL"))
     ELSE [m EXCEPT !.line = @ \o (IF ch = "NUL" THEN <<>> ELSE <<ch>>)]
Meant(k) == char_for_scancode(k, ps2'.caps_lock # (held' \cap {"LSHIFT", "RSHIFT"} # {}), "ALTGR" \in held')

(* Where the event of a device goes: to the console while it draws (which ignores the
   mouse). *)
Deliver(e) ==
  IF con.draw
  THEN con' = event(con, e) /\ UNCHANGED events
  ELSE events' = Append(events, e) /\ UNCHANGED con
Act == steps < MaxSteps /\ steps' = steps + 1
Reach == reach' = Greater(reach, con'.reach)

(* A key that is down may repeat. *)
KeyIrq(k, down) ==
  /\ Act /\ (down \/ k \in held)
  /\ held' = IF down THEN held \cup {k} ELSE held \ {k}
  /\ ps2' = modifiers(ps2, k, down)
  /\ Deliver(KeyToEvent(keyboard_interrupt(ps2', k, down))) /\ Reach
  /\ meant' = IF con.draw /\ down /\ k # "ALTGR" THEN Edit(meant, con.raw_mode, k, Meant(k)) ELSE meant
  /\ UNCHANGED <<serial, screen, left, device, due, misread>>

(* The mouse sends three bytes: buttons, signs and overflows with bit 3 set, and how far
   it went. *)
BitOf(byte, n) == (byte \div 2^n) % 2
Encode(dx, dy, l, over) ==
  <<Bit(l) + 8 + 16 * Bit(dx < 0) + 32 * Bit(dy < 0) + 64 * Bit(over) + 128 * Bit(over), dx % 256, dy % 256>>
mouse_x(p, x) == Greater(0, Lesser(ScreenW, p.mouse_x + x))
mouse_y(p, y) == Greater(0, Lesser(ScreenH, p.mouse_y + y))

(* A packet begins with a byte that has bit 3. *)
mouse_interrupt(p, byte) ==
  LET packet == Append(p.mouse_packet, byte)
      x == IF BitOf(packet[1], 6) = 1 \/ packet[2] = 0 THEN 0 ELSE packet[2] - 256 * BitOf(packet[1], 4)
      y == IF BitOf(packet[1], 7) = 1 \/ packet[3] = 0 THEN 0 ELSE 256 * BitOf(packet[1], 5) - packet[3]
      moved == IF con.display THEN [p EXCEPT !.mouse_x = mouse_x(p, x), !.mouse_y = mouse_y(p, y)] ELSE p
      button(n) == BitOf(packet[1], n) = 1
  IN IF p.mouse_packet = <<>> /\ BitOf(byte, 3) = 0 THEN <<p, None>>
     ELSE IF Len(packet) < 3 THEN <<[p EXCEPT !.mouse_packet = packet], None>>
     ELSE <<[moved EXCEPT !.mouse_packet = <<>>],
            MouseToEvent([x |-> moved.mouse_x, y |-> moved.mouse_y, left |-> button(0), middle |-> button(2), right |-> button(1)])>>

(* The mouse moves, further than it can say if over holds; sends a byte that belongs to
   no packet; or a byte of it is lost. *)
MouseMove(dx, dy, l, over) ==
  /\ Act /\ device = <<>>
  /\ device' = Encode(dx, dy, l, over)
  /\ meant' = IF con.display /\ ~over
              THEN [meant EXCEPT !.x = Greater(0, Lesser(ScreenW, @ + dx)), !.y = Greater(0, Lesser(ScreenH, @ - dy))]
              ELSE meant
  /\ UNCHANGED <<con, ps2, serial, events, screen, left, held, due, misread, reach>>
MouseStray(byte) ==
  /\ Act /\ device = <<>>
  /\ device' = <<byte>>
  /\ UNCHANGED <<con, ps2, serial, events, screen, left, held, meant, due, misread, reach>>
MouseLost ==
  /\ Act /\ device # <<>>
  /\ device' = Tail(device) /\ meant' = [meant EXCEPT !.aligned = FALSE]
  /\ UNCHANGED <<con, ps2, serial, events, screen, left, held, due, misread, reach>>
MouseIrq ==
  /\ device # <<>>
  /\ device' = Tail(device)
  /\ LET r == mouse_interrupt(ps2, Head(device))
     IN /\ ps2' = r[1]
        /\ IF r[2] = None THEN UNCHANGED <<con, events>> ELSE Deliver(r[2])
  /\ UNCHANGED <<serial, screen, left, held, meant, due, misread, reach, steps>>

(* Serial::on_irq goes to the console whether it draws or not. *)
SerialIrq(ch) ==
  /\ Act
  /\ LET esc == serial.escape
         cur == ~esc /\ serial.cursor_control
         plain == ~esc /\ ~cur
         sc == IF cur /\ ch = "A" THEN "UP" ELSE IF plain /\ ch = "DEL" THEN "BKSP" ELSE "0"
         c == IF ~plain \/ ch \in {"^C", "ESC", "DEL"} THEN "NUL" ELSE IF ch = "CR" THEN "NL" ELSE ch
         broken == IF plain /\ ch = "^C" THEN LET w == write(con, <<"^", "C", "NL">>) IN [w EXCEPT !.commands = Append(@, <<>>)]
                   ELSE con
         key == c # "NUL" \/ sc # "0"
     IN /\ serial' = [escape |-> plain /\ ch = "ESC", cursor_control |-> esc /\ ch = "["]
        /\ con' = IF key THEN event(broken, KeyToEvent([character |-> c, scancode |-> sc, pressed |-> TRUE])) ELSE broken
        /\ meant' = IF plain /\ ch = "^C" THEN [meant EXCEPT !.lines = Append(@, <<>>)]
                    ELSE IF key THEN Edit(meant, con.raw_mode, sc, c) ELSE meant
  /\ Reach
  /\ UNCHANGED <<ps2, events, screen, left, held, device, due, misread>>

----------------------------------------------------------------------------
(* The resources of debug: what does not fit the buffer is kept for the next read. *)
Taken(r) == IF left[r] = <<>> THEN Head(con.commands) ELSE left[r]

DebugRead(r, n) ==
  /\ r \in DOMAIN left /\ (left[r] # <<>> \/ con.commands # <<>>)
  /\ LET line == Taken(r)
         k == Lesser(n, Len(line))
         fresh == left[r] = <<>>
         owed == IF fresh THEN due[r] \o Head(meant.lines) ELSE due[r]
     IN /\ left' = [left EXCEPT ![r] = SubSeq(line, k + 1, Len(line))]
        /\ con' = IF fresh THEN [con EXCEPT !.commands = Tail(@)] ELSE con
        /\ meant' = IF fresh THEN [meant EXCEPT !.lines = Tail(@)] ELSE meant
        /\ misread' = (misread \/ SubSeq(line, 1, k) # SubSeq(owed, 1, k))
        /\ due' = [due EXCEPT ![r] = SubSeq(owed, k + 1, Len(owed))]
  /\ UNCHANGED <<ps2, serial, events, screen, held, device, reach, steps>>

DebugOpen(r) ==
  /\ r \notin DOMAIN left
  /\ left' = left @@ (r :> <<>>) /\ due' = due @@ (r :> <<>>)
  /\ UNCHANGED <<con, ps2, serial, events, screen, held, device, meant, misread, reach, steps>>

(* dup: the copy has the rest of the line too. *)
DebugDup(r, s) ==
  /\ r \in DOMAIN left /\ s \in Readers \ DOMAIN left
  /\ left' = left @@ (s :> left[r]) /\ due' = due @@ (s :> due[r])
  /\ UNCHANGED <<con, ps2, serial, events, screen, held, device, meant, misread, reach, steps>>

Output(c) ==
  /\ Act /\ con' = c /\ Reach
  /\ UNCHANGED <<ps2, serial, events, screen, left, held, device, meant, due, misread>>
DebugWrite(text) == Output(write(con, text))
DebugSync == Output(write([con EXCEPT !.redraw = TRUE], <<>>))

(* display: can be opened while the console draws; nothing makes it draw again. *)
DisplayOpen ==
  /\ con.draw /\ con.display
  /\ con' = [con EXCEPT !.draw = FALSE]
  /\ screen' = [open |-> TRUE, seek |-> 0]
  /\ UNCHANGED <<ps2, serial, events, left, held, device, meant, due, misread, reach, steps>>
DisplayRead(n) ==
  /\ screen.open /\ events # <<>>
  /\ events' = SubSeq(events, n + 1, Len(events))
  /\ UNCHANGED <<con, ps2, serial, screen, left, held, device, meant, due, misread, reach, steps>>
DisplayWrite(n) ==
  /\ Act /\ screen.open
  /\ LET size == Greater(0, Lesser(Size - screen.seek, n))
     IN reach' = IF size > 0 THEN Greater(reach, screen.seek + size) ELSE reach
  /\ UNCHANGED <<con, ps2, serial, events, screen, left, held, device, meant, due, misread>>
DisplaySeek(offset) ==
  /\ screen.open
  /\ screen' = [screen EXCEPT !.seek = Lesser(Size, Greater(0, offset))]
  /\ UNCHANGED <<con, ps2, serial, events, left, held, device, meant, due, misread, reach, steps>>

(* What is drawn outside the buffer may overwrite anything: nothing is said of the rest. *)
ConsoleNext ==
  /\ ~con.astray
  /\ \/ \E k \in Keys, d \in BOOLEAN : KeyIrq(k, d)
     \/ \E d \in {-1, 1} : MouseMove(d, -d, d = 1, FALSE)
     \/ MouseMove(1, 1, FALSE, TRUE)
     \/ MouseStray(0) \/ MouseLost \/ MouseIrq
     \/ \E ch \in SerialChars : SerialIrq(ch)
     \/ \E r \in Readers, n \in 1..2 : DebugRead(r, n)
     \/ \E r, s \in Readers : DebugDup(r, s)
     \/ \E r \in Readers : DebugOpen(r)
     \/ \E t \in Texts : DebugWrite(t)
     \/ DebugSync \/ DisplayOpen
     \/ \E n \in 1..2 : DisplayRead(n)
     \/ DisplayWrite(Size) \/ DisplaySeek(0) \/ DisplaySeek(Size - 1)
ConsoleSpec == ConsoleInit /\ [][ConsoleNext]_consoleVars

----------------------------------------------------------------------------
(* Every line typed, with the characters that the keys held down give and as it was
   edited, is received by one reader, whole and in order, whatever the sizes of the
   reads, the changes of mode between and within lines, and the echo that runs
   through the escape parser; the pointer is where the mouse moved it, whatever bytes
   came between its packets, as long as none was lost. *)
InputOnce ==
  /\ meant.lines = con.commands /\ meant.line = con.command
  /\ due = left /\ ~misread
  /\ device = <<>> /\ meant.aligned => ps2.mouse_packet = <<>> /\ ps2.mouse_x = meant.x /\ ps2.mouse_y = meant.y

(* Nothing is drawn outside the buffer of the display, wherever on or off the display an
   escape sequence has put the cursor, short of the last cell of usize; a sequence is
   being collected exactly while the parser is inside one.  With the cursor in that last
   cell the sums of rect and char wrap, and the code draws outside the buffer. *)
DrawsInside ==
  /\ con.astray \/ reach <= Size
  /\ (con.sequence # <<>>) = con.escape_sequence /\ (con.escape_sequence => con.escape)

============================================================================
