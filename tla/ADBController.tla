---------------------------- MODULE ADBController ----------------------------
(***************************************************************************)
(* em16's ADB microcontroller (em16/src/ADB_Controller.cpp, reached through *)
(* VIA_6522.cpp) and the Cocoa handlers that feed it (em16/src/Video.mm).  *)
(*                                                                         *)
(* Two threads touch it and nothing locks it: the handlers run on the main *)
(* thread, the CPU, and with it every command and answer, on a thread of   *)
(* its own (main.cpp).  A step here is one access to the fields they share *)
(* (accesses to what the other thread cannot observe ride along), and the  *)
(* two threads' steps interleave in program order.  dy is treated exactly  *)
(* like dx and is left out.                                                *)
(*                                                                         *)
(* Ghosts, which no step reads: pending, the keys accepted and not yet     *)
(* taken, as a plain queue; owed, the motion not yet reported; lost, why   *)
(* input may have gone astray so far; and the flags of the host inside     *)
(* each key event.                                                         *)
(***************************************************************************)
EXTENDS Integers, Sequences, SequencesExt

CONSTANTS
  KbdBufSize,   \* slots of the keyboard ring (32)
  PlainKeys,    \* keys that are no modifiers
  Shifts,       \* the Shift keys, left and right (Control, Option and Command alike)
  Locks,        \* the Caps Lock key
  Mouse,        \* the mouse button
  Moves,        \* the motions of one mouseMoved event
  Half,         \* 64: a report carries -Half .. Half-1
  MaxInputs     \* bound on the host's input events

ASSUME ControllerConstants ==
  /\ KbdBufSize \in Nat \ {0, 1} /\ Half \in Nat \ {0} /\ MaxInputs \in Nat
  /\ Moves \subseteq Int \ {0}
  /\ PlainKeys \cap Shifts = {} /\ (PlainKeys \cup Shifts) \cap Locks = {}
  /\ Mouse \notin PlainKeys \cup Shifts
  /\ "none" \notin PlainKeys \cup Shifts \cup Locks   \* 0FFH is no key's code

VARIABLES
  events, head, tail,  \* kbd
  dx, button, moved,   \* mouse
  response,            \* responseBuf from responsePos to responseLen
  held, caps, inputs,  \* the user's side: what is down, the Caps Lock state
  host,                \* the handler the main thread is in, and its local value
  cpu,                 \* where the CPU thread is
  pending, owed, lost

kbdVars   == <<events, head, tail, pending>>
mouseVars == <<dx, button, moved, owed>>
userVars  == <<held, caps, inputs>>

\* The byte 0FFH; it reads as the release of a key there is not.
NoKey == [key |-> "none", down |-> FALSE, shift |-> FALSE, caps |-> FALSE]
KeyCode(k, down) ==
  [key |-> k, down |-> down, shift |-> held' \cap Shifts # {}, caps |-> caps']

Idle        == [pc |-> "idle", val |-> 0]
hasData     == head # tail
hasSRQ      == hasData \/ moved
hasResponse == response # <<>>

ControllerInit ==
  /\ events = [s \in 0 .. (KbdBufSize - 1) |-> NoKey]
  /\ head = 0 /\ tail = 0
  /\ dx = 0 /\ button = FALSE /\ moved = FALSE
  /\ response = <<>>
  /\ held = {} /\ caps = FALSE /\ inputs = 0
  /\ host = Idle /\ cpu = "reset"
  /\ pending = <<>> /\ owed = 0 /\ lost = {}

-----------------------------------------------------------------------------
(* The main thread. *)

Input == host = Idle /\ inputs < MaxInputs /\ inputs' = inputs + 1

KeyStoreAlways(code) ==
  /\ events' = [events EXCEPT ![tail] = code]
  /\ host' = [pc |-> "publish", val |-> (tail + 1) % KbdBufSize]
  /\ UNCHANGED lost

\* keyDown and keyUp, up to the store into the ring, which the CPU cannot see
\* before tail moves.  A full ring drops the key.
KeyStore(code) ==
  LET next == (tail + 1) % KbdBufSize
  IN  \/ /\ next # head
         /\ events' = [events EXCEPT ![tail] = code]
         /\ host' = [pc |-> "publish", val |-> next]
         /\ UNCHANGED lost
      \/ /\ next = head
         /\ lost' = lost \cup {"ring"}
         /\ UNCHANGED <<events, host>>

KeyInput(code) ==
  /\ Input /\ KeyStore(code)
  /\ UNCHANGED <<head, tail, pending, mouseVars, response, cpu>>

KeyPublish ==
  /\ host.pc = "publish"
  /\ tail' = host.val
  /\ pending' = Append(pending, events[tail])
  /\ host' = Idle
  /\ UNCHANGED <<events, head, mouseVars, response, userVars, cpu, lost>>

\* keyDown: (which auto-repeats) and keyUp:.
PlainKey(k) ==
  /\ UNCHANGED caps
  /\ \/ held' = held \cup {k} /\ KeyInput(KeyCode(k, TRUE))
     \/ k \in held /\ held' = held \ {k} /\ KeyInput(KeyCode(k, FALSE))

Toggled(k) == IF k \in held THEN held \ {k} ELSE held \cup {k}

shiftIsPressByKey(k) == k \in held'

\* flagsChanged: calls it a press when the flag is set, whichever key changed.
shiftIsPress(k) == held' \cap Shifts # {}

FlagsChanged(k) ==
  \/ /\ k \in Shifts
     /\ held' = Toggled(k)
     /\ UNCHANGED caps
     /\ KeyInput(KeyCode(k, shiftIsPress(k)))
  \/ /\ k \in Locks
     /\ caps' = ~caps
     /\ UNCHANGED held
     /\ KeyInput(KeyCode(k, caps'))

\* The CPU is between looking at the mouse and having cleared it.
MouseWindow == {"dx", "button", "clearDx", "clearMoved",
                "resetHead", "resetDx", "resetButton", "resetMoved"}
Raced == IF cpu \in MouseWindow THEN {"race"} ELSE {}

\* mouse.dx += dx: the load, the store, and then the flag.
MouseMove(m) ==
  /\ Input
  /\ host' = [pc |-> "store", val |-> dx + m]
  /\ owed' = owed + m
  /\ lost' = lost \cup Raced
  /\ UNCHANGED <<kbdVars, dx, button, moved, response, held, caps, cpu>>

MoveStore ==
  /\ host.pc = "store"
  /\ dx' = host.val
  /\ host' = [pc |-> "flag", val |-> 0]
  /\ UNCHANGED <<kbdVars, button, moved, owed, response, userVars, cpu, lost>>

MouseButton ==
  /\ Input
  /\ held' = Toggled(Mouse)
  /\ button' = (Mouse \in held')
  /\ host' = [pc |-> "flag", val |-> 0]
  /\ lost' = lost \cup Raced
  /\ UNCHANGED <<kbdVars, dx, moved, owed, response, caps, cpu>>

MouseFlag ==
  /\ host.pc = "flag"
  /\ moved' = TRUE
  /\ host' = Idle
  /\ UNCHANGED <<kbdVars, dx, button, owed, response, userVars, cpu, lost>>

HostFinishes == KeyPublish \/ MoveStore \/ MouseFlag

HostNext ==
  \/ \E k \in PlainKeys : PlainKey(k)
  \/ \E k \in Shifts \cup Locks : FlagsChanged(k)
  \/ \E m \in Moves : MouseMove(m)
  \/ MouseButton
  \/ HostFinishes

-----------------------------------------------------------------------------
(* The CPU thread: the commands the VIA's strobe hands to sendCommand. *)

HandlerInMouse == host.pc \in {"store", "flag"}

\* SendReset.  Whatever the user did so far is forgotten.
Reset ==
  \/ /\ cpu = "reset" /\ cpu' = "resetHead"
     /\ response' = <<>>
     /\ tail' = 0 /\ pending' = <<>>
     /\ lost' = lost \cup (IF HandlerInMouse THEN {"race"} ELSE {})
                     \cup (IF inputs > 0 THEN {"reset"} ELSE {})
     /\ UNCHANGED <<events, head, mouseVars>>
  \/ /\ cpu = "resetHead" /\ cpu' = "resetDx"
     /\ head' = 0
     /\ UNCHANGED <<events, tail, pending, mouseVars, response, lost>>
  \/ /\ cpu = "resetDx" /\ cpu' = "resetButton"
     /\ dx' = 0 /\ owed' = 0
     /\ UNCHANGED <<kbdVars, button, moved, response, lost>>
  \/ /\ cpu = "resetButton" /\ cpu' = "resetMoved"
     /\ button' = FALSE
     /\ UNCHANGED <<kbdVars, dx, moved, owed, response, lost>>
  \/ /\ cpu = "resetMoved" /\ cpu' = "ready"
     /\ moved' = FALSE
     /\ UNCHANGED <<kbdVars, dx, button, owed, response, lost>>

TakeKeyAgain ==
  /\ response' = Append(response, events[head])
  /\ UNCHANGED <<head, pending>>

TakeKey ==
  /\ response' = Append(response, events[head])
  /\ head' = (head + 1) % KbdBufSize
  /\ pending' = IF pending = <<>> THEN <<>> ELSE Tail(pending)

\* Talk register 0 of the keyboard: up to two keys, or no answer.
TalkKeyboard ==
  /\ \/ cpu = "keyboard" /\ hasData /\ cpu' = "secondKey" /\ TakeKey
     \/ /\ cpu = "keyboard" /\ ~hasData /\ cpu' = "readKeys"
        /\ UNCHANGED <<response, head, pending>>
     \/ cpu = "secondKey" /\ hasData /\ cpu' = "readKeys" /\ TakeKey
     \/ /\ cpu = "secondKey" /\ ~hasData /\ cpu' = "readKeys"
        /\ response' = Append(response, NoKey)
        /\ UNCHANGED <<head, pending>>
  /\ UNCHANGED <<events, tail, mouseVars, lost>>

Clamp(d)   == IF d < -Half THEN -Half ELSE IF d >= Half THEN Half - 1 ELSE d
Encode7(d) == d % (2 * Half)

\* Talk register 0 of the mouse: the motion so far, clamped to seven bits, and
\* the button; what was reported is cleared, and with it what was clamped off.
TalkMouse ==
  \/ /\ cpu = "mouse" /\ (moved \/ button) /\ cpu' = "dx"
     /\ lost' = lost \cup (IF HandlerInMouse THEN {"race"} ELSE {})
     /\ UNCHANGED <<response, mouseVars>>
  \/ /\ cpu = "mouse" /\ ~moved /\ ~button /\ cpu' = "readMouse"
     /\ UNCHANGED <<response, mouseVars, lost>>
  \/ /\ cpu = "dx" /\ cpu' = "button"
     /\ response' = <<Encode7(Clamp(dx))>>
     /\ lost' = lost \cup (IF Clamp(dx) # dx THEN {"clamp"} ELSE {})
     /\ UNCHANGED mouseVars
  \/ /\ cpu = "button" /\ cpu' = "clearDx"
     /\ response' = <<button>> \o response
     /\ UNCHANGED <<mouseVars, lost>>
  \/ /\ cpu = "clearDx" /\ cpu' = "clearMoved"
     /\ dx' = 0
     /\ UNCHANGED <<button, moved, owed, response, lost>>
  \/ /\ cpu = "clearMoved" /\ cpu' = "readMouse"
     /\ moved' = FALSE
     /\ UNCHANGED <<dx, button, owed, response, lost>>

ControllerNext ==
  /\ Reset \/ TalkKeyboard \/ (TalkMouse /\ UNCHANGED kbdVars)
  /\ UNCHANGED <<userVars, host>>
=============================================================================
