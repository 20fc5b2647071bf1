------------------------------- MODULE Orbital -------------------------------
(***************************************************************************)
(* The window manager (crates/orbital): two threads, event_loop and        *)
(* server_loop, share the OrbitalScheme under a mutex.  One waits for      *)
(* events of the display, the other for calls of programs; both redraw and *)
(* both answer calls, the first those that the second has put off.         *)
(*                                                                         *)
(* What a thread does with the mutex held is one step.  A rectangle is a   *)
(* record x, y, w, h; a pixel is a pair.  Fonts and colours are left out:  *)
(* a pixel of a title shows whose it is and if it has the focus.  Sums of  *)
(* coordinates are taken to fit an i32.                                    *)
(***************************************************************************)
EXTENDS Integers, Sequences, SequencesExt, FiniteSets, TLC

CONSTANTS Width, Height, TitleH, Close,  \* of the screen; of titles and their button, 18 and 10 in the code
          Gap,                           \* between windows that are placed by orbital, 20 in the code
          Requests,                      \* what windows may be opened
          Points, Batch,                 \* of the mouse; read at once, 128 in the code
          Backlog, MaxCalls, MaxEvents   \* bounds of the input

ASSUME OrbitalAssumption == {Width, Height, TitleH, Close, Gap, Batch} \subseteq Nat \ {0}

VARIABLES orb,       \* the OrbitalScheme
          shown,     \* pixels on the display
          queue,     \* events of the display
          socket,    \* packets from the kernel
          answers,   \* history: answers to each call
          ev, srv,   \* the threads
          status, launcher,  \* main
          issued, given      \* numbers of calls and events

orbVars == <<orb, shown, queue, socket, answers, ev, srv, status, launcher, issued, given>>

AtMost(a, b) == IF a < b THEN a ELSE b
AtLeast(a, b) == IF a > b THEN a ELSE b

----------------------------------------------------------------------------
(* rect.rs: Rect::new asserts that no size is negative, which holds of all but the sizes
   that a program asks for. *)
Rect(x, y, w, h) == [x |-> x, y |-> y, w |-> w, h |-> h]
area(r) == r.w * r.h
right(r) == r.x + r.w
bottom(r) == r.y + r.h
container(r, s) ==
  LET left == AtMost(r.x, s.x)
      top == AtMost(r.y, s.y)
  IN Rect(left, top, AtLeast(right(r), right(s)) - left, AtLeast(bottom(r), bottom(s)) - top)
contains(r, x, y) == r.x <= x /\ right(r) >= x /\ r.y <= y /\ bottom(r) >= y
is_empty(r) == r.w = 0 \/ r.h = 0
intersection(r, s) ==
  LET left == AtLeast(r.x, s.x)
      top == AtLeast(r.y, s.y)
  IN Rect(left, top, AtLeast(0, AtMost(right(r), right(s)) - left), AtLeast(0, AtMost(bottom(r), bottom(s)) - top))
Covers(r, p) == r.x <= p[1] /\ p[1] < right(r) /\ r.y <= p[2] /\ p[2] < bottom(r)

----------------------------------------------------------------------------
(* image.rs and window.rs *)
NewImage(w, h) == [i \in 0..(w * h - 1) |-> 0]
RoiPixel(win, p) == win.image[(p[2] - win.y) * win.w + p[1] - win.x]
Window(q, x, y) == [x |-> x, y |-> y, w |-> q.w, h |-> q.h, title |-> q.title, async |-> q.async,
                    image |-> NewImage(q.w, q.h), events |-> <<>>]
rect_of(win) == Rect(win.x, win.y, win.w, win.h)
title_rect(win) == IF win.title THEN Rect(win.x, win.y - TitleH, win.w, TitleH) ELSE Rect(0, 0, 0, 0)
exit_contains(win, x, y) == /\ win.title /\ x >= AtLeast(win.x, win.x + win.w - Close) /\ y >= win.y - TitleH
                            /\ x < win.x + win.w /\ y < win.y
WindowEvent(win, e) == [win EXCEPT !.events = Append(@, e)]
(* read: events up to the size of the buffer, here one. *)
WindowRead(win) == IF win.events = <<>> THEN win ELSE [win EXCEPT !.events = Tail(@)]
WindowWrite(win, n, v) == [win EXCEPT !.image = [i \in DOMAIN @ |-> IF i < n THEN v ELSE @[i]]]

----------------------------------------------------------------------------
(* Mutant: a request that meets a scheduled rectangle is dropped. *)
schedule_Meet(redraws, request) ==
  IF \E i \in DOMAIN redraws : ~is_empty(intersection(redraws[i], request)) THEN redraws ELSE Append(redraws, request)

(* schedule: the request joins the first rectangle that grows by no more than it. *)
schedule(redraws, request) ==
  LET fits == {i \in DOMAIN redraws : area(container(redraws[i], request)) <= area(redraws[i]) + area(request)}
  IN IF fits = {} THEN Append(redraws, request)
     ELSE LET i == CHOOSE j \in fits : \A k \in fits : j <= k
          IN [redraws EXCEPT ![i] = container(@, request)]

cursor_rect(o) == Rect(o.cursor_x, o.cursor_y, 1, 1)
screen_rect == Rect(0, 0, Width, Height)
Pixels == (0..(Width - 1)) \X (0..(Height - 1))
Damage(o, r) == [o EXCEPT !.redraws = schedule(@, r)]
DamageWindow(o, win) == Damage(Damage(o, title_rect(win)), rect_of(win))
DamageFront(o) == IF o.order = <<>> THEN o ELSE DamageWindow(o, o.windows[Head(o.order)])

OrbitalScheme ==
  [cursor_x |-> 0, cursor_y |-> 0, dragging |-> FALSE, drag_x |-> 0, drag_y |-> 0, next_id |-> 1,
   next_x |-> Gap, next_y |-> Gap, order |-> <<>>, windows |-> <<>>, redraws |-> <<screen_rect>>, todo |-> <<>>]

(* A pixel as redraw paints it: the background, each window from the last in order to
   the first, its title before its image, and the cursor. *)
DrawTitle(win, id, focused, old, p) == IF Covers(title_rect(win), p) THEN <<"title", id, focused>> ELSE old
Draw(win, id, old, p) ==
  IF Covers(rect_of(win), p) THEN <<"image", id, RoiPixel(win, p)>> ELSE old
Painted(o, p) ==
  LET n == Len(o.order)
      paint(old, i) == LET id == o.order[i] IN Draw(o.windows[id], id, DrawTitle(o.windows[id], id, i = 1, old, p), p)
      back == FoldLeft(paint, <<"background">>, [k \in 1..n |-> n + 1 - k])
  IN IF Covers(cursor_rect(o), p) THEN <<"cursor">> ELSE back

redraw ==
  LET parts == {intersection(orb.redraws[i], screen_rect) : i \in DOMAIN orb.redraws}
  IN /\ orb' = [orb EXCEPT !.redraws = <<>>]
     /\ shown' = [p \in Pixels |-> IF \E r \in parts : Covers(r, p) THEN Painted(orb, p) ELSE shown[p]]

----------------------------------------------------------------------------
(* Events: of the keyboard, to the window with the focus. *)
MoveCursor(o, x, y) == LET a == Damage(o, cursor_rect(o))
                           b == [a EXCEPT !.cursor_x = x, !.cursor_y = y]
                       IN Damage(b, cursor_rect(b))
EventToFront(o, e) == IF o.order = <<>> THEN o ELSE [o EXCEPT !.windows[Head(o.order)] = WindowEvent(@, e)]
key_event(o, e) ==
  LET moved == CASE e.c > 0 /\ e.key = "F1" -> MoveCursor(o, 0, 0)
                 [] e.c > 0 /\ e.key = "F2" -> MoveCursor(o, Width, Height)
                 [] OTHER -> o
  IN EventToFront(moved, e)

drag(o, e) ==
  IF e.c = 0 \/ o.order = <<>> THEN [o EXCEPT !.dragging = FALSE]
  ELSE LET id == Head(o.order)
           moved == [DamageWindow(o, o.windows[id]) EXCEPT !.windows[id].x = @ + o.cursor_x - o.drag_x,
                                                           !.windows[id].y = @ + o.cursor_y - o.drag_y,
                                                           !.drag_x = o.cursor_x, !.drag_y = o.cursor_y]
       IN IF o.drag_x = o.cursor_x /\ o.drag_y = o.cursor_y THEN o ELSE DamageWindow(moved, moved.windows[id])

(* The first window under the pointer gets the event, or is dragged or asked to quit. *)
Hits(o, e) == {i \in DOMAIN o.order : LET win == o.windows[o.order[i]]
                                      IN contains(rect_of(win), e.a, e.b) \/ contains(title_rect(win), e.a, e.b)}
press(o, e, i) ==
  LET id == o.order[i]
      win == o.windows[id]
  IN IF contains(rect_of(win), e.a, e.b)
     THEN [o EXCEPT !.windows[id] = WindowEvent(@, [e EXCEPT !.a = @ - win.x, !.b = @ - win.y])]
     ELSE IF e.c = 0 THEN o
     ELSE IF exit_contains(win, e.a, e.b) THEN [o EXCEPT !.windows[id] = WindowEvent(@, [code |-> "quit"])]
     ELSE [o EXCEPT !.dragging = TRUE, !.drag_x = o.cursor_x, !.drag_y = o.cursor_y]
focus(o, i) == LET a == DamageWindow(DamageFront(o), o.windows[o.order[i]])
               IN [a EXCEPT !.order = <<o.order[i]>> \o RemoveAt(@, i)]

refocused(o, e, i) == IF e.c > 0 /\ i > 1 THEN focus(o, i) ELSE o
pointed(o, e) ==
  IF o.dragging THEN drag(o, e)
  ELSE LET hit == Hits(o, e)
       IN IF hit = {} THEN o ELSE LET i == CHOOSE j \in hit : \A k \in hit : j <= k IN refocused(press(o, e, i), e, i)
mouse_event(o, e) ==
  pointed(IF e.a # o.cursor_x \/ e.b # o.cursor_y THEN MoveCursor(o, e.a, e.b) ELSE o, e)

event_of(o, e) == IF e.code = "key" THEN key_event(o, e) ELSE mouse_event(o, e)

----------------------------------------------------------------------------
(* Numbers of calls and of errors: an answer is a result or the negative of an error. *)
SYS_READ == 3
SYS_WRITE == 4
SYS_OPEN == 5
SYS_CLOSE == 6
SYS_LSEEK == 19
SYS_FPATH == 928
EBADF == -9
ENOSYS == -38

(* Calls. The answer of handle takes the place of the number of the call. *)
Placed(q) == q.x < 0 /\ q.y < 0
begun(o, q) ==
  LET step(n, size) == IF n + Gap + Gap >= size THEN Gap ELSE n + Gap
  IN DamageFront([o EXCEPT !.next_id = @ + 1, !.next_x = IF Placed(q) THEN step(@, Width) ELSE @,
                           !.next_y = IF Placed(q) THEN step(@, Height) ELSE @])
open(o, q) ==
  LET win == IF Placed(q) THEN Window(q, o.next_x, o.next_y) ELSE Window(q, q.x, q.y)
      b == DamageWindow(begun(o, q), win)
  IN [b EXCEPT !.order = <<o.next_id>> \o @, !.windows = @ @@ (o.next_id :> win)]
close(o, id) ==
  LET a == DamageFront([o EXCEPT !.order = Remove(@, id)])
      b == DamageWindow(a, o.windows[id])
  IN [b EXCEPT !.windows = [i \in DOMAIN @ \ {id} |-> @[i]]]

read(o, id) == [o EXCEPT !.windows[id] = WindowRead(@)]
write_window(o, id, n, v) == [Damage(o, rect_of(o.windows[id])) EXCEPT !.windows[id] = WindowWrite(@, n, v)]

handle(o, pk) ==
  LET known == pk.b \in DOMAIN o.windows
      result(o2, a) == <<o2, [pk EXCEPT !.a = a]>>
  IN CASE pk.a = SYS_OPEN -> result(open(o, pk.c), o.next_id)
       [] pk.a = SYS_LSEEK \/ (pk.a \in {SYS_READ, SYS_WRITE, SYS_FPATH, SYS_CLOSE} /\ ~known) -> result(o, EBADF)
       [] pk.a = SYS_READ /\ known -> result(read(o, pk.b), AtMost(1, Len(o.windows[pk.b].events)))
       [] pk.a = SYS_WRITE /\ known ->
            result(write_window(o, pk.b, pk.c, pk.id), AtMost(pk.c, o.windows[pk.b].w * o.windows[pk.b].h))
       [] pk.a = SYS_FPATH /\ known -> result(o, 1)
       [] pk.a = SYS_CLOSE /\ known -> result(close(o, pk.b), 0)
       [] OTHER -> result(o, ENOSYS)

(* A read that finds no event is put off, unless the window is asynchronous; with the
   answer 0 in place of its number. *)
answered(s, r, delay) ==
  IF delay /\ r[2].a = 0 THEN [s EXCEPT !.o = [r[1] EXCEPT !.todo = Append(@, r[2])]]
  ELSE [o |-> r[1], responses |-> Append(s.responses, r[2])]
serve(s, pk) ==
  answered(s, handle(s.o, pk), pk.a = SYS_READ /\ (pk.b \in DOMAIN s.o.windows => ~s.o.windows[pk.b].async))

----------------------------------------------------------------------------
Parked == [at |-> "parked", responses |-> <<>>]
OrbitalInit ==
  /\ orb = OrbitalScheme /\ shown = [p \in Pixels |-> <<"boot">>]
  /\ queue = <<>> /\ socket = <<>> /\ answers = [c \in 1..MaxCalls |-> 0]
  /\ ev = Parked /\ srv = Parked
  /\ status = "Starting" /\ launcher = "waiting" /\ issued = 0 /\ given = 0

(* main: the daemon opens the display and runs the loops; the first thread waits for it
   and starts the launcher. *)
StartDaemon ==
  /\ status = "Starting"
  /\ \/ /\ status' = "Running"
        /\ ev' = [ev EXCEPT !.at = "redraw"] /\ srv' = [srv EXCEPT !.at = "redraw"]
     \/ status' = "Stopping" /\ UNCHANGED <<ev, srv>>
  /\ UNCHANGED <<orb, shown, queue, socket, answers, launcher, issued, given>>
Main ==
  /\ launcher = "waiting" /\ status # "Starting"
  /\ launcher' = IF status = "Running" THEN "started" ELSE "none"
  /\ UNCHANGED <<orb, shown, queue, socket, answers, ev, srv, status, issued, given>>

TodoServed(o) == FoldLeft(serve, [o |-> [o EXCEPT !.todo = <<>>], responses |-> <<>>], o.todo)

(* A thread that panics ends with the mutex held, and the other waits for ever. *)
MutexFree == srv.at # "ended"

(* event_loop waits for events, up to Batch, and handles them with the mutex held; then
   it answers, without the mutex, and redraws. The answer changes nothing that the
   threads share, so it is one step with the redraw. *)
EventHandle(k) ==
  /\ ev.at = "receive" /\ k <= Len(queue) /\ MutexFree
  /\ LET s == TodoServed(FoldLeft(event_of, orb, SubSeq(queue, 1, k)))
     IN /\ orb' = s.o
        /\ ev' = [at |-> "redraw", responses |-> s.responses]
  /\ queue' = SubSeq(queue, k + 1, Len(queue))
  /\ UNCHANGED <<shown, socket, answers, srv, status, launcher, issued, given>>

(* server_loop does the same with calls. *)
Asserted(pk) == pk.a = SYS_OPEN => pk.c.w >= 0 /\ pk.c.h >= 0
ServerHandle(k) ==
  /\ srv.at = "receive" /\ k <= Len(socket) /\ \A i \in 1..k : Asserted(socket[i])
  /\ LET s == FoldLeft(serve, [o |-> orb, responses |-> <<>>], SubSeq(socket, 1, k))
     IN /\ orb' = s.o
        /\ srv' = [at |-> "redraw", responses |-> s.responses]
  /\ socket' = SubSeq(socket, k + 1, Len(socket))
  /\ UNCHANGED <<shown, queue, answers, ev, status, launcher, issued, given>>

(* An assertion of Rect::new fails while a window is opened: the thread ends, and with it
   what it had read and not answered. *)
ServerPanic(k) ==
  /\ srv.at = "receive" /\ k <= Len(socket)
  /\ \E j \in 1..k :
       /\ ~Asserted(socket[j]) /\ \A i \in 1..(j - 1) : Asserted(socket[i])
       /\ LET s == FoldLeft(serve, [o |-> orb, responses |-> <<>>], SubSeq(socket, 1, j - 1))
          IN /\ orb' = begun(s.o, socket[j].c)
             /\ srv' = [at |-> "ended", responses |-> s.responses \o SubSeq(socket, j, k)]
  /\ socket' = SubSeq(socket, k + 1, Len(socket))
  /\ UNCHANGED <<shown, queue, answers, ev, status, launcher, issued, given>>

Sent(t) == answers' = [c \in DOMAIN answers |-> answers[c] + Cardinality({i \in DOMAIN t.responses : t.responses[i].id = c})]
EventRedraw ==
  /\ ev.at = "redraw" /\ MutexFree /\ Sent(ev) /\ redraw
  /\ ev' = [at |-> "receive", responses |-> <<>>]
  /\ UNCHANGED <<queue, socket, srv, status, launcher, issued, given>>
ServerRedraw ==
  /\ srv.at = "redraw" /\ Sent(srv) /\ redraw
  /\ srv' = [at |-> "receive", responses |-> <<>>]
  /\ UNCHANGED <<queue, socket, ev, status, launcher, issued, given>>

(* Programs and the devices. *)
Call(a, b, c) ==
  /\ launcher = "started" /\ Len(socket) < Backlog /\ issued < MaxCalls /\ issued' = issued + 1
  /\ socket' = Append(socket, [id |-> issued', a |-> a, b |-> b, c |-> c])
  /\ UNCHANGED <<orb, shown, queue, answers, ev, srv, status, launcher, given>>
Happens(e) ==
  /\ status = "Running" /\ Len(queue) < Backlog /\ given < MaxEvents /\ given' = given + 1
  /\ queue' = Append(queue, e)
  /\ UNCHANGED <<orb, shown, socket, answers, ev, srv, status, launcher, issued>>

OrbitalNext ==
  \/ StartDaemon \/ Main
  \/ EventRedraw \/ ServerRedraw
  \/ \E k \in 1..Batch : EventHandle(k) \/ ServerHandle(k) \/ ServerPanic(k)
  \/ \E q \in Requests : Call(SYS_OPEN, 0, q)
  \/ \E id \in 1..orb.next_id, a \in {SYS_READ, SYS_CLOSE} : Call(a, id, 0)
  \/ \E id \in 1..(orb.next_id - 1) : Call(SYS_WRITE, id, 1)
  \/ issued = 0 /\ \E a \in {SYS_FPATH, SYS_LSEEK} : Call(a, 1, 0)
  \/ \E p \in Points, c \in 0..1 : Happens([code |-> "mouse", a |-> p[1], b |-> p[2], c |-> c])
  \/ \E k \in {"F1", "F2"} : Happens([code |-> "key", key |-> k, c |-> 1])
  \/ Happens([code |-> "key", key |-> "F1", c |-> 0])
OrbitalSpec == OrbitalInit /\ [][OrbitalNext]_orbVars

----------------------------------------------------------------------------
(* What the screen should show at a pixel: the cursor, or the first window in order that
   is there, or the background. *)
Due(p) ==
  LET at == {i \in DOMAIN orb.order : LET win == orb.windows[orb.order[i]]
                                       IN Covers(rect_of(win), p) \/ Covers(title_rect(win), p)}
      top == CHOOSE i \in at : \A j \in at : i <= j
      id == orb.order[top]
      win == orb.windows[id]
  IN IF <<orb.cursor_x, orb.cursor_y>> = p THEN <<"cursor">>
     ELSE IF at = {} THEN <<"background">>
     ELSE IF Covers(rect_of(win), p) THEN <<"image", id, win.image[(p[2] - win.y) * win.w + p[1] - win.x]>>
     ELSE <<"title", id, top = 1>>

(* The display shows the windows, titles and cursor as they are, but where a redraw is
   scheduled: no opening, closing, writing, dragging or change of focus, by either
   thread, leaves a stale pixel behind. *)
ScreenTrue == \A p \in Pixels : shown[p] = Due(p) \/ \E i \in DOMAIN orb.redraws : Covers(orb.redraws[i], p)

(* Every call is in one place: on its way, with a thread (for ever, if that has ended),
   put off, or answered, once. A window is listed in the order of focus exactly while it
   is open. *)
CallsKept ==
  /\ \A c \in 1..MaxCalls :
       LET in(packets) == Cardinality({i \in DOMAIN packets : packets[i].id = c})
       IN answers[c] + in(socket) + in(srv.responses) + in(ev.responses) + in(orb.todo) = (IF c <= issued THEN 1 ELSE 0)
  /\ ToSet(orb.order) = DOMAIN orb.windows /\ IsInjective(orb.order)

============================================================================
