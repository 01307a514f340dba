------------------------------ MODULE ADBManager ------------------------------
(***************************************************************************)
(* The 65816 program that reads the keyboard and the mouse: ADBManager.Poll *)
(* with its modifier tracking, the event queue of EventManager, and the    *)
(* event loop of the Terminal application, over the controller of          *)
(* ADBController and the user.                                             *)
(*                                                                         *)
(* Terminal calls Init, polls twice and discards what it gets, then polls  *)
(* and handles every queued event in turn until Escape.  The processor     *)
(* starts with interrupts masked and nothing here unmasks them, so Poll    *)
(* only runs where Terminal calls it.  Drawing and the cursor's position   *)
(* are left out.                                                           *)
(***************************************************************************)
EXTENDS ADBController

CONSTANTS
  QueueSize,   \* slots of EventManager's ring (32)
  Escape       \* the plain key whose ASCII code is 27

ASSUME QueueConstants == QueueSize \in Nat \ {0, 1} /\ Escape \in PlainKeys

VARIABLES mods, prevButton, queue, phase
osVars == <<mods, prevButton, queue, phase>>
vars == <<kbdVars, mouseVars, response, userVars, host, cpu, lost, osVars>>

Init ==
  /\ ControllerInit
  /\ mods = {} /\ prevButton = FALSE
  /\ queue = <<>>
  /\ phase = "flush1"

-----------------------------------------------------------------------------
(* EventManager: the ring as a sequence; one slot of it is never used. *)

HasRoom(q) == Len(q) < QueueSize - 1

\* PostEvent on the state s of the program; a full ring drops the event.
Post(s, e) ==
  IF HasRoom(s.queue) THEN [s EXCEPT !.queue = Append(@, e)]
                      ELSE [s EXCEPT !.lost = @ \cup {"queue"}]

OsState == [mods |-> mods, queue |-> queue, lost |-> lost]

-----------------------------------------------------------------------------
(* ADBManager. *)

\* Both keys of a pair share a bit; Caps Lock toggles when it goes down.
UpdateModifiers(m, code) ==
  IF code.key \in Shifts
  THEN IF code.down THEN m \cup {"shift"} ELSE m \ {"shift"}
  ELSE IF code.key \in Locks /\ code.down THEN (m \ {"caps"}) \cup ({"caps"} \ m) ELSE m

KeyEvent(code, m) == [kind |-> "key", code |-> code, mods |-> m]

\* One byte of the answer: the modifiers after it, and the event.
ProcessKey(s, code) ==
  LET m == UpdateModifiers(s.mods, code)
  IN  IF code = NoKey THEN s ELSE Post([s EXCEPT !.mods = m], KeyEvent(code, m))

\* The rest of Init, once the reset command is done.
Ready ==
  /\ cpu = "ready" /\ cpu' = "keyboard"
  /\ mods' = {} /\ prevButton' = FALSE
  /\ UNCHANGED <<kbdVars, mouseVars, response, lost, queue, phase>>

\* Poll, after the keyboard's Talk: a keyboard without an answer is skipped.
ReadKeys ==
  /\ cpu = "readKeys" /\ cpu' = "mouse"
  /\ LET s == IF hasResponse THEN ProcessKey(ProcessKey(OsState, response[1]), response[2])
                            ELSE OsState
     IN  mods' = s.mods /\ queue' = s.queue /\ lost' = s.lost
  /\ response' = <<>>
  /\ UNCHANGED <<kbdVars, mouseVars, prevButton, phase>>

Decode7Unsigned(b) == b

Decode7(b) == IF b >= Half THEN b - 2 * Half ELSE b

\* ProcessMouse: an event when the button changed, and one when the mouse moved.
ProcessMouse(s, btn, d) ==
  LET t == IF btn # prevButton THEN Post(s, [kind |-> "button", down |-> btn]) ELSE s
  IN  IF d # 0 THEN Post(t, [kind |-> "move", dx |-> d]) ELSE t

\* Poll, after the mouse's Talk.
ReadMouse ==
  /\ cpu = "readMouse" /\ cpu' = "handle"
  /\ \/ /\ hasResponse
        /\ LET btn == response[1]
               d   == Decode7(response[2])
               s   == ProcessMouse(OsState, btn, d)
           IN  /\ queue' = s.queue /\ lost' = s.lost
               /\ prevButton' = btn
               /\ owed' = owed - d
        /\ response' = <<>>
     \/ /\ ~hasResponse
        /\ UNCHANGED <<queue, lost, prevButton, owed, response>>
  /\ UNCHANGED <<kbdVars, dx, button, moved, mods, phase>>

-----------------------------------------------------------------------------
(* Terminal. *)

QuitKey(e) == e.kind = "key" /\ e.code.down /\ e.code.key = Escape

HandleEvent ==
  /\ cpu = "handle" /\ queue # <<>>
  /\ queue' = Tail(queue)
  /\ phase' = IF phase = "run" /\ QuitKey(Head(queue)) THEN "quit" ELSE phase
  /\ UNCHANGED <<kbdVars, mouseVars, response, lost, mods, prevButton, cpu>>

\* Nothing queued: poll again, or stop after Escape.
Loop ==
  /\ cpu = "handle" /\ queue = <<>>
  /\ \/ phase = "flush1" /\ phase' = "flush2" /\ cpu' = "keyboard"
     \/ phase = "flush2" /\ phase' = "run"    /\ cpu' = "keyboard"
     \/ phase = "run"    /\ phase' = "run"    /\ cpu' = "keyboard"
     \/ phase = "quit"   /\ phase' = "quit"   /\ cpu' = "stopped"
  /\ UNCHANGED <<kbdVars, mouseVars, response, lost, mods, prevButton, queue>>

CpuNext ==
  \/ ControllerNext /\ UNCHANGED osVars
  \/ (Ready \/ ReadKeys \/ ReadMouse \/ HandleEvent \/ Loop) /\ UNCHANGED <<userVars, host>>

Next == CpuNext \/ (HostNext /\ UNCHANGED osVars)

\* The CPU thread never waits, and a handler that has begun returns.
Fairness == WF_vars(CpuNext) /\ WF_vars(HostFinishes /\ UNCHANGED osVars)

Spec == Init /\ [][Next]_vars /\ Fairness

-----------------------------------------------------------------------------
(* What must hold. *)

KeyCodes == [key : PlainKeys \cup Shifts \cup Locks, down : BOOLEAN,
             shift : BOOLEAN, caps : BOOLEAN]

\* The indices stay inside the rings, and an answer is one of the two shapes.
TypeOK ==
  /\ head \in DOMAIN events /\ tail \in DOMAIN events
  /\ \A s \in DOMAIN events : events[s] \in KeyCodes \cup {NoKey}
  /\ pending \in Seq(KeyCodes)
  /\ Len(response) <= 2 /\ Len(queue) < QueueSize
  /\ mods \subseteq {"shift", "caps"} /\ prevButton \in BOOLEAN
  /\ lost \subseteq {"ring", "reset", "race", "clamp", "queue"}

RingContents ==
  [i \in 1 .. ((tail - head) % KbdBufSize) |-> events[(head + i - 1) % KbdBufSize]]

\* The keyboard ring needs no lock: unless a reset cut in on the user, its
\* contents are the keys accepted and not yet taken, in order, at every point of
\* both threads, also when it is full or wraps.
KeysInOrder == "reset" \notin lost => RingContents = pending

\* "modifier flags at time of event": the Shift flag of a queued key event is the
\* one the host had when the key was struck, although both Shift keys share a
\* bit, as long as no key was dropped.
ShiftAtEvent ==
  lost \cap {"ring", "reset"} = {} =>
    \A i \in DOMAIN queue :
      queue[i].kind = "key" => (("shift" \in queue[i].mods) <=> queue[i].code.shift)

\* The same promise for Caps Lock.
CapsAtEvent ==
  lost \cap {"ring", "reset"} = {} =>
    \A i \in DOMAIN queue :
      queue[i].kind = "key" => (("caps" \in queue[i].mods) <=> queue[i].code.caps)

MouseQuiet == host = Idle /\ cpu \notin MouseWindow \cup {"reset", "ready", "readMouse"}

\* Unless a handler overlapped the reading of the mouse, or a report was
\* clamped, the motion reported and the motion accumulated add up to what the
\* user did, through the seven-bit encoding.
MotionConserved == (MouseQuiet /\ lost \cap {"race", "clamp"} = {}) => owed = dx

\* "Trigger SRQ so CPU polls": a release that Poll has not seen keeps the mouse
\* answering, so that the next Poll sees it.
ReleaseIsPolled == (MouseQuiet /\ prevButton /\ ~button) => moved

\* A button change that Poll has not seen keeps the service request up, unless a
\* handler overlapped the reading of the mouse.
ChangeRaisesSRQ ==
  (MouseQuiet /\ "race" \notin lost /\ button # prevButton) => hasSRQ

\* Terminal empties the queue between polls, and one Poll posts at most four
\* events, so PostEvent never drops one.
NoEventDropped == "queue" \notin lost

\* Once the user stops, the keyboard ring empties, unless Terminal has stopped.
KeysGetThrough == <>[](cpu = "stopped" \/ ~hasData)
=============================================================================
