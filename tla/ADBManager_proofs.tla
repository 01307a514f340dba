-------------------------- MODULE ADBManager_proofs --------------------------
(***************************************************************************)
(* The keyboard ring of ADBController, with the main thread adding keys and *)
(* the CPU thread taking them; the types of every variable, Poll's answers *)
(* among them; the Shift flags of the events queued; and the motion that   *)
(* is owed: proved for every size of the rings and any number of inputs.   *)
(***************************************************************************)
EXTENDS ADBManager, TLAPS

Slots == 0 .. (KbdBufSize - 1)
Codes == KeyCodes \cup {NoKey}

\* The slot k places after slot h.
Slot(h, k) == IF h + k < KbdBufSize THEN h + k ELSE h + k - KbdBufSize

ResetSteps == {"reset", "resetHead", "resetDx", "resetButton", "resetMoved"}

\* What the ring's variables range over, whatever has been lost.
RingType ==
  /\ events \in [Slots -> Codes] /\ head \in Slots /\ tail \in Slots
  /\ pending \in Seq(Codes)
  /\ host.pc = "publish" => host.val \in Slots
  /\ caps \in BOOLEAN /\ inputs \in Nat

\* The ring holds the keys of pending from head to tail, and when the main thread
\* has stored one more there is room for it.
RingHolds ==
  /\ Len(pending) < KbdBufSize
  /\ tail = Slot(head, Len(pending))
  /\ \A j \in 1 .. Len(pending) : events[Slot(head, j - 1)] = pending[j]
  /\ host.pc = "publish" =>
       Len(pending) + 1 < KbdBufSize /\ host.val = Slot(tail, 1)

\* SendReset, the first thing the OS does, finds nothing taken yet, and nothing
\* begun unless the user has already struck a key.
BeforeReady ==
  /\ cpu \in ResetSteps => head = 0
  /\ inputs = 0 => host.pc # "publish"

RingInv == RingType /\ BeforeReady /\ ("reset" \notin lost => RingHolds)

-----------------------------------------------------------------------------
(* What the variables range over, whatever has been lost. *)

Reasons == {"ring", "reset", "race", "clamp", "queue"}
Flags   == {"shift", "caps"}

QueuedEvents ==
  [kind : {"key"}, code : Codes, mods : SUBSET Flags]
    \cup [kind : {"button"}, down : BOOLEAN] \cup [kind : {"move"}, dx : Int]

OsStates == [mods : SUBSET Flags, queue : Seq(QueuedEvents), lost : SUBSET Reasons]

Sevens == 0 .. (2 * Half - 1)

QuietSteps == ResetSteps \cup {"ready", "keyboard", "mouse", "dx", "handle", "stopped"}

\* The answer the controller is building or Poll is about to read.
Answered ==
  /\ cpu \in QuietSteps => response = <<>>
  /\ cpu = "secondKey" => \E c \in Codes : response = <<c>>
  /\ cpu = "readKeys" => \/ response = <<>>
                         \/ \E c, d \in Codes : response = <<c, d>>
  /\ cpu = "button" => \E b \in Sevens : response = <<b>>
  /\ cpu \in {"clearDx", "clearMoved"} =>
       \E p \in BOOLEAN, b \in Sevens : response = <<p, b>>
  /\ cpu = "readMouse" => \/ response = <<>>
                          \/ \E p \in BOOLEAN, b \in Sevens : response = <<p, b>>

\* A key that is stored and not published, and the ring's first slot when tail has
\* left it, hold keys: so that what a reset leaves behind is one.
Stored ==
  /\ host.pc = "publish" => events[tail] \in KeyCodes
  /\ host.pc = "publish" \/ tail # 0 => events[0] \in KeyCodes

VarTypes ==
  /\ OsState \in OsStates /\ prevButton \in BOOLEAN
  /\ pending \in Seq(KeyCodes)
  /\ dx \in Int /\ owed \in Int /\ button \in BOOLEAN /\ moved \in BOOLEAN
  /\ host.pc \in {"idle", "publish", "store", "flag"}
  /\ host.pc = "store" => host.val \in Int
  /\ cpu \in QuietSteps \cup {"secondKey", "readKeys", "button", "clearDx",
                             "clearMoved", "readMouse"}

\* Poll starts on an empty queue, and posts at most two events for each device.
QueueRoom ==
  /\ Len(queue) < QueueSize
  /\ cpu \in ResetSteps \cup {"ready", "keyboard", "secondKey", "readKeys", "stopped"} =>
       queue = <<>>
  /\ cpu \notin {"handle"} => Len(queue) <= 2

Sound == VarTypes /\ Answered /\ Stored /\ QueueRoom

-----------------------------------------------------------------------------
(* Arithmetic modulo the size of the ring. *)

LEMMA RingSize == KbdBufSize \in Nat /\ KbdBufSize >= 2 /\ 0 \in Slots /\ 1 \in Slots
  BY ControllerConstants DEF Slots

LEMMA ModBelow ==
  ASSUME NEW n \in Nat, NEW a \in Nat, a < n
  PROVE  a % n = a
  OBVIOUS

LEMMA ModAbove ==
  ASSUME NEW n \in Nat, NEW a \in Nat, n <= a, a < n + n, n > 0
  PROVE  a % n = a - n
  OBVIOUS

LEMMA ModMinus ==
  ASSUME NEW n \in Nat, NEW a \in Int, a < 0, a + n >= 0, n > 0
  PROVE  a % n = a + n
  OBVIOUS

LEMMA SlotMod ==
  ASSUME NEW h \in Slots, NEW k \in Slots
  PROVE  (h + k) % KbdBufSize = Slot(h, k) /\ Slot(h, k) \in Slots
<1>1. h + k \in Nat /\ h + k < KbdBufSize + KbdBufSize
  BY RingSize DEF Slots
<1>2. CASE h + k < KbdBufSize
  BY <1>1, <1>2, RingSize, ModBelow DEF Slot, Slots
<1>3. CASE h + k >= KbdBufSize
  BY <1>1, <1>3, RingSize, ModAbove DEF Slot, Slots
<1>4. QED
  BY <1>1, <1>2, <1>3, RingSize

\* From slot h to the slot k places after it, backwards.
LEMMA SlotDistance ==
  ASSUME NEW h \in Slots, NEW k \in Slots
  PROVE  (Slot(h, k) - h) % KbdBufSize = k
<1>1. CASE h + k < KbdBufSize
  <2>1. Slot(h, k) - h = k
    BY <1>1 DEF Slot, Slots
  <2>2. QED
    BY <2>1, RingSize, ModBelow DEF Slots
<1>2. CASE h + k >= KbdBufSize
  <2>1. Slot(h, k) - h = k - KbdBufSize
    BY <1>2, RingSize DEF Slot, Slots
  <2>2. k - KbdBufSize < 0 /\ k - KbdBufSize + KbdBufSize = k /\ k - KbdBufSize \in Int
    BY RingSize DEF Slots
  <2>3. QED
    BY <2>1, <2>2, RingSize, ModMinus DEF Slots
<1>3. QED
  BY <1>1, <1>2, RingSize DEF Slots

\* Distinct places are distinct slots; going one on and k on is going k + 1 on.
LEMMA SlotApart ==
  ASSUME NEW h \in Slots, NEW j \in Slots, NEW k \in Slots, Slot(h, j) = Slot(h, k)
  PROVE  j = k
  BY RingSize DEF Slot, Slots

LEMMA SlotNext ==
  ASSUME NEW h \in Slots, NEW k \in Slots, k + 1 \in Slots
  PROVE  Slot(Slot(h, k), 1) = Slot(h, k + 1) /\ Slot(Slot(h, 1), k) = Slot(h, k + 1)
  BY RingSize DEF Slot, Slots

-----------------------------------------------------------------------------
(* The operators of ADBManager. *)

LEMMA Posted ==
  ASSUME NEW s \in OsStates, NEW e \in QueuedEvents, Len(s.queue) < QueueSize
  PROVE  /\ Post(s, e) \in OsStates
         /\ Post(s, e).mods = s.mods /\ s.lost \subseteq Post(s, e).lost
         /\ Post(s, e).lost \subseteq s.lost \cup {"queue"}
         /\ Len(Post(s, e).queue) < QueueSize /\ Len(Post(s, e).queue) <= Len(s.queue) + 1
         /\ Len(s.queue) + 1 < QueueSize => Post(s, e).lost = s.lost
         /\ \/ Post(s, e).queue = s.queue
            \/ Post(s, e).queue = Append(s.queue, e)
<1> DEFINE n == Len(s.queue)
<1>0. n \in Nat /\ QueueSize \in Nat /\ s.queue \in Seq(QueuedEvents)
  BY QueueConstants DEF OsStates
<1>1. CASE HasRoom(s.queue)
  <2>1. Post(s, e) = [s EXCEPT !.queue = Append(s.queue, e)]
    BY <1>1 DEF Post
  <2>2. /\ Post(s, e) \in OsStates /\ Post(s, e).mods = s.mods /\ Post(s, e).lost = s.lost
        /\ Post(s, e).queue = Append(s.queue, e)
    <3>1. Append(s.queue, e) \in Seq(QueuedEvents)
      BY <1>0
    <3>2. QED
      BY <2>1, <3>1 DEF OsStates
  <2>3. Len(Post(s, e).queue) = n + 1 /\ n < QueueSize - 1
    BY <1>0, <1>1, <2>2 DEF HasRoom
  <2>4. QED
    BY <1>0, <2>2, <2>3
<1>2. CASE ~HasRoom(s.queue)
  <2>1. Post(s, e) = [s EXCEPT !.lost = s.lost \cup {"queue"}]
    BY <1>2 DEF Post
  <2>2. /\ Post(s, e) \in OsStates /\ Post(s, e).mods = s.mods
        /\ Post(s, e).lost = s.lost \cup {"queue"} /\ Post(s, e).queue = s.queue
    BY <2>1 DEF OsStates, Reasons
  <2>3. ~(n + 1 < QueueSize)
    BY <1>0, <1>2 DEF HasRoom
  <2>4. QED
    BY <1>0, <2>2, <2>3
<1>3. QED
  BY <1>1, <1>2

LEMMA FlagsTyped ==
  ASSUME NEW m \in SUBSET Flags, NEW code \in Codes
  PROVE  UpdateModifiers(m, code) \in SUBSET Flags
  BY DEF UpdateModifiers, Flags

LEMMA KeyProcessed ==
  ASSUME NEW s \in OsStates, NEW code \in Codes, Len(s.queue) < QueueSize
  PROVE  LET t == ProcessKey(s, code)
             m == UpdateModifiers(s.mods, code)
         IN  /\ t \in OsStates
             /\ s.lost \subseteq t.lost /\ t.lost \subseteq s.lost \cup {"queue"}
             /\ Len(t.queue) < QueueSize /\ Len(t.queue) <= Len(s.queue) + 1
             /\ Len(s.queue) + 1 < QueueSize => t.lost = s.lost
             /\ t.mods = IF code = NoKey THEN s.mods ELSE m
             /\ \/ t.queue = s.queue
                \/ code # NoKey /\ t.queue = Append(s.queue, KeyEvent(code, m))
<1> DEFINE m == UpdateModifiers(s.mods, code)
           u == [s EXCEPT !.mods = m]
<1>0. Len(s.queue) \in Nat
  BY DEF OsStates
<1>1. CASE code = NoKey
  BY <1>0, <1>1 DEF ProcessKey
<1>2. CASE code # NoKey
  <2>1. m \in SUBSET Flags
    BY FlagsTyped DEF OsStates
  <2>2. u \in OsStates /\ u.queue = s.queue /\ u.lost = s.lost /\ u.mods = m
    BY <2>1 DEF OsStates
  <2>3. KeyEvent(code, m) \in QueuedEvents
    BY <2>1 DEF KeyEvent, QueuedEvents
  <2>4. ProcessKey(s, code) = Post(u, KeyEvent(code, m))
    BY <1>2 DEF ProcessKey
  <2> HIDE DEF m, u
  <2>5. QED
    BY <1>2, <2>2, <2>3, <2>4, Posted DEF m
<1>3. QED
  BY <1>1, <1>2

LEMMA MouseProcessed ==
  ASSUME NEW s \in OsStates, NEW btn \in BOOLEAN, NEW d \in Int, Len(s.queue) < QueueSize
  PROVE  LET t == ProcessMouse(s, btn, d)
         IN  /\ t \in OsStates /\ t.mods = s.mods
             /\ s.lost \subseteq t.lost /\ t.lost \subseteq s.lost \cup {"queue"}
             /\ Len(t.queue) < QueueSize
             /\ Len(s.queue) + 2 < QueueSize => t.lost = s.lost
             /\ \A i \in DOMAIN t.queue :
                  t.queue[i].kind = "key" => i \in DOMAIN s.queue /\ t.queue[i] = s.queue[i]
<1> DEFINE b == [kind |-> "button", down |-> btn]
           v == [kind |-> "move", dx |-> d]
           u == IF btn # prevButton THEN Post(s, b) ELSE s
           t == IF d # 0 THEN Post(u, v) ELSE u
<1>0. b \in QueuedEvents /\ v \in QueuedEvents /\ b.kind # "key" /\ v.kind # "key"
  BY DEF QueuedEvents
<1>1. ASSUME NEW x \in OsStates, NEW e \in QueuedEvents, Len(x.queue) < QueueSize,
             e.kind # "key"
      PROVE  \A i \in DOMAIN Post(x, e).queue :
               Post(x, e).queue[i].kind = "key" =>
                 i \in DOMAIN x.queue /\ Post(x, e).queue[i] = x.queue[i]
  <2> DEFINE q == Post(x, e).queue
  <2>1. x.queue \in Seq(QueuedEvents)
    BY DEF OsStates
  <2>2. q = x.queue \/ q = Append(x.queue, e)
    BY <1>1, Posted
  <2> HIDE DEF q
  <2>3. CASE q = x.queue
    BY <2>3 DEF q
  <2>4. CASE q = Append(x.queue, e)
    <3>1. \A i \in DOMAIN q : q[i] = e \/ (i \in DOMAIN x.queue /\ q[i] = x.queue[i])
      BY <2>1, <2>4
    <3>2. QED
      BY <1>1, <3>1 DEF q
  <2>5. QED
    BY <2>2, <2>3, <2>4
<1>2. ProcessMouse(s, btn, d) = t
  BY DEF ProcessMouse
<1> HIDE DEF b, v
<1>3. /\ u \in OsStates /\ u.mods = s.mods /\ s.lost \subseteq u.lost
      /\ u.lost \subseteq s.lost \cup {"queue"} /\ Len(u.queue) < QueueSize
      /\ Len(u.queue) <= Len(s.queue) + 1
      /\ Len(s.queue) + 1 < QueueSize => u.lost = s.lost
  <2>1. Len(s.queue) \in Nat
    BY DEF OsStates
  <2>2. QED
    BY <1>0, <2>1, Posted
<1>4. \A i \in DOMAIN u.queue :
        u.queue[i].kind = "key" => i \in DOMAIN s.queue /\ u.queue[i] = s.queue[i]
  BY <1>0, <1>1
<1> HIDE DEF u
<1>5. /\ t \in OsStates /\ t.mods = s.mods /\ s.lost \subseteq t.lost
      /\ t.lost \subseteq s.lost \cup {"queue"} /\ Len(t.queue) < QueueSize
      /\ Len(s.queue) + 2 < QueueSize => t.lost = s.lost
  <2>1. Len(s.queue) \in Nat /\ Len(u.queue) \in Nat /\ QueueSize \in Nat
    BY <1>3, QueueConstants DEF OsStates
  <2>2. CASE d # 0
    BY <1>0, <1>3, <2>1, <2>2, Posted
  <2>3. CASE d = 0
    BY <1>3, <2>1, <2>3
  <2>4. QED
    BY <2>2, <2>3
<1>6. \A i \in DOMAIN t.queue :
        t.queue[i].kind = "key" => i \in DOMAIN s.queue /\ t.queue[i] = s.queue[i]
  BY <1>0, <1>1, <1>3, <1>4
<1>7. QED
  BY <1>2, <1>5, <1>6

\* Nothing that was lost is found again.
LEMMA LostGrows ==
  ASSUME Sound, CpuNext
  PROVE  lost \subseteq lost'
<1>0. OsState \in OsStates /\ Len(OsState.queue) < QueueSize /\ OsState.lost = lost
  BY DEF Sound, VarTypes, QueueRoom, OsState
<1>1. CASE ReadKeys
  <2>1. CASE hasResponse
    <3>1. PICK c \in Codes, d \in Codes : response = <<c, d>>
      BY <1>1, <2>1 DEF Sound, Answered, ReadKeys, hasResponse
    <3> DEFINE s == ProcessKey(OsState, c)
               t == ProcessKey(s, d)
    <3>2. lost' = t.lost
      BY <1>1, <2>1, <3>1 DEF ReadKeys
    <3>3. s \in OsStates /\ Len(s.queue) < QueueSize /\ lost \subseteq s.lost
      BY <1>0, KeyProcessed
    <3> HIDE DEF s
    <3>4. s.lost \subseteq t.lost
      BY <3>3, KeyProcessed
    <3>5. QED
      BY <3>2, <3>3, <3>4
  <2>2. CASE ~hasResponse
    BY <1>0, <1>1, <2>2 DEF ReadKeys
  <2>3. QED
    BY <2>1, <2>2
<1>2. CASE ReadMouse
  <2>1. CASE hasResponse
    <3>1. PICK p \in BOOLEAN, b \in Sevens : response = <<p, b>>
      BY <1>2, <2>1 DEF Sound, Answered, ReadMouse, hasResponse
    <3>2. Decode7(b) \in Int
      BY ControllerConstants DEF Decode7, Sevens
    <3>3. lost' = ProcessMouse(OsState, p, Decode7(b)).lost
      BY <1>2, <2>1, <3>1 DEF ReadMouse
    <3>4. QED
      BY <1>0, <3>2, <3>3, MouseProcessed
  <2>2. CASE ~hasResponse
    BY <1>2, <2>2 DEF ReadMouse
  <2>3. QED
    BY <2>1, <2>2
<1>3. CASE ControllerNext
  BY <1>3 DEF ControllerNext, Reset, TalkKeyboard, TalkMouse
<1>4. CASE Ready \/ HandleEvent \/ Loop
  BY <1>4 DEF Ready, HandleEvent, Loop
<1>5. QED
  BY <1>1, <1>2, <1>3, <1>4 DEF CpuNext

-----------------------------------------------------------------------------
(* The steps that touch the ring. *)

LEMMA InitRing == Init => RingInv
<1> SUFFICES ASSUME Init PROVE RingInv
  OBVIOUS
<1> USE DEF Init, ControllerInit
<1>1. RingType
  BY RingSize DEF RingType, Slots, Codes, Idle
<1>2. BeforeReady
  BY DEF BeforeReady, Idle
<1>3. RingHolds
  BY RingSize DEF RingHolds, Slot, Slots, Idle
<1>4. QED
  BY <1>1, <1>2, <1>3 DEF RingInv

\* keyDown and keyUp store into the slot at tail, where no key waits.
LEMMA KeyInputKeeps ==
  ASSUME RingInv, NEW code \in Codes, KeyInput(code), caps' \in BOOLEAN
  PROVE  RingInv'
<1> USE DEF KeyInput, Input, Idle
<1>0. /\ events \in [Slots -> Codes] /\ head \in Slots /\ tail \in Slots
      /\ pending \in Seq(Codes) /\ inputs \in Nat /\ inputs' \in Nat /\ inputs' # 0
      /\ UNCHANGED <<head, tail, pending, cpu>>
  BY DEF RingInv, RingType
<1>1. (tail + 1) % KbdBufSize = Slot(tail, 1) /\ Slot(tail, 1) \in Slots
  BY <1>0, RingSize, SlotMod
<1>2. \/ /\ Slot(tail, 1) # head /\ lost' = lost
         /\ events' = [events EXCEPT ![tail] = code]
         /\ host' = [pc |-> "publish", val |-> Slot(tail, 1)]
      \/ /\ lost' = lost \cup {"ring"}
         /\ UNCHANGED <<events, host>>
  BY <1>1 DEF KeyStore
<1>3. RingType'
  BY <1>0, <1>1, <1>2 DEF RingType
<1>4. BeforeReady'
  BY <1>0 DEF RingInv, BeforeReady
<1>5. ASSUME "reset" \notin lost'
      PROVE  RingHolds'
  <2>0. RingHolds
    BY <1>2, <1>5 DEF RingInv
  <2> DEFINE n == Len(pending)
  <2>1. n \in Slots /\ tail = Slot(head, n)
    BY <1>0, <2>0, RingSize DEF RingHolds, Slots
  <2>2. CASE Slot(tail, 1) # head /\ events' = [events EXCEPT ![tail] = code]
             /\ host' = [pc |-> "publish", val |-> Slot(tail, 1)]
    <3>1. n + 1 < KbdBufSize
      <4>1. Slot(Slot(head, n), 1) # head
        BY <2>1, <2>2
      <4>2. QED
        BY <1>0, <2>1, <4>1, RingSize DEF Slot, Slots
    <3>2. ASSUME NEW j \in 1 .. n
          PROVE  events'[Slot(head, j - 1)] = pending[j]
      <4>1. j - 1 \in Slots /\ j - 1 # n
        BY <2>1, RingSize DEF Slots
      <4>2. Slot(head, j - 1) # tail /\ Slot(head, j - 1) \in Slots
        BY <1>0, <2>1, <4>1, SlotApart, SlotMod
      <4>3. QED
        BY <1>0, <2>0, <2>2, <4>2 DEF RingHolds
    <3>3. QED
      BY <1>0, <1>1, <2>0, <2>2, <3>1, <3>2 DEF RingHolds
  <2>3. CASE UNCHANGED <<events, host>>
    BY <1>0, <2>0, <2>3 DEF RingHolds
  <2>4. QED
    BY <1>2, <2>2, <2>3
<1>6. QED
  BY <1>3, <1>4, <1>5 DEF RingInv

\* The key is there for the CPU when tail moves past it.
LEMMA KeyPublishKeeps ==
  ASSUME RingInv, KeyPublish
  PROVE  RingInv'
<1> USE DEF KeyPublish, Idle
<1>0. /\ events \in [Slots -> Codes] /\ head \in Slots /\ tail \in Slots
      /\ pending \in Seq(Codes) /\ host.val \in Slots
      /\ UNCHANGED <<events, head, cpu, caps, inputs, lost>>
      /\ tail' = host.val /\ pending' = Append(pending, events[tail]) /\ host'.pc = "idle"
  BY DEF RingInv, RingType, userVars
<1>1. RingType'
  BY <1>0 DEF RingInv, RingType
<1>2. BeforeReady'
  BY <1>0 DEF RingInv, BeforeReady
<1>3. ASSUME "reset" \notin lost'
      PROVE  RingHolds'
  <2>0. RingHolds
    BY <1>0, <1>3 DEF RingInv
  <2> DEFINE n == Len(pending)
  <2>1. /\ n \in Slots /\ n + 1 \in Slots /\ tail = Slot(head, n)
        /\ host.val = Slot(tail, 1)
    BY <1>0, <2>0, RingSize DEF RingHolds, Slots
  <2>2. tail' = Slot(head, n + 1)
    BY <1>0, <2>1, SlotNext
  <2>3. Len(pending') = n + 1
    BY <1>0
  <2>4. ASSUME NEW j \in 1 .. (n + 1)
        PROVE  events[Slot(head, j - 1)] = pending'[j]
    <3>1. CASE j = n + 1
      BY <1>0, <2>1, <3>1 DEF Slots
    <3>2. CASE j \in 1 .. n
      BY <1>0, <2>0, <3>2 DEF RingHolds
    <3>3. QED
      BY <2>1, <3>1, <3>2 DEF Slots
  <2>5. /\ Len(pending') < KbdBufSize
        /\ tail' = Slot(head', Len(pending'))
    BY <1>0, <2>1, <2>2, <2>3, RingSize DEF Slots
  <2>6. \A j \in 1 .. Len(pending') : events'[Slot(head', j - 1)] = pending'[j]
    BY <1>0, <2>3, <2>4
  <2>7. QED
    BY <1>0, <2>5, <2>6 DEF RingHolds
<1>4. QED
  BY <1>1, <1>2, <1>3 DEF RingInv

\* Talk takes the key at head.
LEMMA TakeKeyKeeps ==
  ASSUME RingInv, hasData, TakeKey, cpu' \notin ResetSteps,
         UNCHANGED <<events, tail, lost, host, caps, inputs>>
  PROVE  RingInv'
<1> USE DEF TakeKey
<1>0. /\ events \in [Slots -> Codes] /\ head \in Slots /\ tail \in Slots
      /\ pending \in Seq(Codes) /\ head # tail
      /\ head' = (head + 1) % KbdBufSize
      /\ pending' = IF pending = <<>> THEN <<>> ELSE Tail(pending)
  BY DEF RingInv, RingType, hasData
<1>1. head' = Slot(head, 1) /\ head' \in Slots
  BY <1>0, RingSize, SlotMod
<1>2. RingType'
  BY <1>0, <1>1 DEF RingInv, RingType
<1>3. BeforeReady'
  BY DEF RingInv, BeforeReady
<1>4. ASSUME "reset" \notin lost'
      PROVE  RingHolds'
  <2>0. RingHolds
    BY <1>4 DEF RingInv
  <2> DEFINE n == Len(pending)
  <2>1. n \in Slots /\ n # 0 /\ tail = Slot(head, n)
    BY <1>0, <2>0, RingSize DEF RingHolds, Slots, Slot
  <2>2. n - 1 \in Slots /\ (n - 1) + 1 = n
    BY <2>1, RingSize DEF Slots
  <2>3. pending' = Tail(pending) /\ Len(pending') = n - 1
        /\ \A j \in 1 .. (n - 1) : pending'[j] = pending[j + 1]
    BY <1>0, <2>1
  <2>4. tail = Slot(head', n - 1)
    BY <1>0, <1>1, <2>1, <2>2, SlotNext
  <2>5. ASSUME NEW j \in 1 .. (n - 1)
        PROVE  events[Slot(head', j - 1)] = pending'[j]
    <3>1. j - 1 \in Slots /\ (j - 1) + 1 = j /\ j \in Slots /\ j + 1 \in 1 .. n
      BY <2>1, RingSize DEF Slots
    <3>2. Slot(head', j - 1) = Slot(head, j)
      BY <1>0, <1>1, <3>1, SlotNext
    <3>3. (j + 1) - 1 = j
      OBVIOUS
    <3>4. events[Slot(head, (j + 1) - 1)] = pending[j + 1]
      BY <2>0, <3>1 DEF RingHolds
    <3>5. QED
      BY <2>3, <3>2, <3>3, <3>4
  <2>6. host.pc = "publish" => n + 1 < KbdBufSize /\ host.val = Slot(tail, 1)
    BY <2>0 DEF RingHolds
  <2>7. QED
    BY <2>1, <2>2, <2>3, <2>4, <2>5, <2>6, RingSize DEF RingHolds, Slots
<1>5. QED
  BY <1>2, <1>3, <1>4 DEF RingInv

\* SendReset, one field after the other.
LEMMA ResetKeeps ==
  ASSUME RingInv, Reset, UNCHANGED <<userVars, host>>
  PROVE  RingInv'
<1> USE DEF kbdVars, mouseVars, userVars
<1>1. CASE cpu = "reset" /\ tail' = 0 /\ pending' = <<>> /\ cpu' = "resetHead"
           /\ lost' = lost \cup (IF HandlerInMouse THEN {"race"} ELSE {})
                           \cup (IF inputs > 0 THEN {"reset"} ELSE {})
           /\ UNCHANGED <<events, head, mouseVars>>
  <2>1. RingType'
    BY <1>1, RingSize DEF RingInv, RingType
  <2>2. head = 0 /\ (inputs = 0 => host.pc # "publish")
    BY <1>1 DEF RingInv, BeforeReady, ResetSteps
  <2>3. BeforeReady'
    BY <1>1, <2>2 DEF BeforeReady
  <2>4. ASSUME "reset" \notin lost'
        PROVE  RingHolds'
    <3>1. inputs = 0
      BY <1>1, <2>4 DEF RingInv, RingType
    <3>2. QED
      BY <1>1, <2>2, <3>1, RingSize DEF RingHolds, Slot
  <2>5. QED
    BY <2>1, <2>3, <2>4 DEF RingInv
<1>2. CASE cpu = "resetHead" /\ cpu' = "resetDx" /\ head' = 0
           /\ UNCHANGED <<events, tail, pending, mouseVars, response, lost>>
  <2>1. head = 0
    BY <1>2 DEF RingInv, BeforeReady, ResetSteps
  <2>2. QED
    BY <1>2, <2>1 DEF RingInv, RingType, BeforeReady, RingHolds
<1>3. CASE cpu \in ResetSteps /\ UNCHANGED <<kbdVars, lost>>
  BY <1>3 DEF RingInv, RingType, BeforeReady, RingHolds
<1>4. QED
  BY <1>1, <1>2, <1>3 DEF Reset, ResetSteps

\* The other steps leave the ring alone.
LEMMA RingUntouched ==
  ASSUME RingInv, UNCHANGED <<kbdVars, caps>>, inputs' \in Nat,
         "reset" \in lost => "reset" \in lost',
         cpu' \in ResetSteps => cpu \in ResetSteps,
         host'.pc = "publish" => UNCHANGED host,
         inputs' = 0 => inputs = 0
  PROVE  RingInv'
  BY DEF RingInv, RingType, BeforeReady, RingHolds, kbdVars

\* The codes the handlers make are codes of keys there are.
LEMMA PlainKeyKeeps ==
  ASSUME RingInv, NEW k \in PlainKeys, PlainKey(k)
  PROVE  RingInv'
<1>1. caps \in BOOLEAN /\ caps' \in BOOLEAN
  BY DEF PlainKey, RingInv, RingType
<1>2. \A down \in BOOLEAN : KeyCode(k, down) \in Codes
  BY <1>1 DEF KeyCode, Codes, KeyCodes
<1>3. PICK down \in BOOLEAN : KeyInput(KeyCode(k, down))
  BY DEF PlainKey
<1>4. QED
  BY <1>1, <1>2, <1>3, KeyInputKeeps

LEMMA FlagsChangedKeeps ==
  ASSUME RingInv, NEW k \in Shifts \cup Locks, FlagsChanged(k)
  PROVE  RingInv'
<1>1. caps \in BOOLEAN /\ caps' \in BOOLEAN
  BY DEF FlagsChanged, RingInv, RingType
<1>2. \A down \in BOOLEAN : KeyCode(k, down) \in Codes
  BY <1>1 DEF KeyCode, Codes, KeyCodes
<1>3. PICK down \in BOOLEAN : KeyInput(KeyCode(k, down))
  BY <1>1 DEF FlagsChanged, shiftIsPress
<1>4. QED
  BY <1>1, <1>2, <1>3, KeyInputKeeps

LEMMA HostKeeps ==
  ASSUME RingInv, HostNext, UNCHANGED osVars
  PROVE  RingInv'
<1>0. inputs \in Nat
  BY DEF RingInv, RingType
<1>1. ASSUME NEW k \in PlainKeys, PlainKey(k)
      PROVE  RingInv'
  BY <1>1, PlainKeyKeeps
<1>2. ASSUME NEW k \in Shifts \cup Locks, FlagsChanged(k)
      PROVE  RingInv'
  BY <1>2, FlagsChangedKeeps
<1>3. ASSUME NEW m \in Moves, MouseMove(m)
      PROVE  RingInv'
  BY <1>0, <1>3, RingUntouched DEF MouseMove, Input, kbdVars
<1>4. CASE MouseButton
  BY <1>0, <1>4, RingUntouched DEF MouseButton, Input, kbdVars
<1>5. CASE KeyPublish
  BY <1>5, KeyPublishKeeps
<1>6. CASE MoveStore
  BY <1>0, <1>6, RingUntouched DEF MoveStore, userVars
<1>7. CASE MouseFlag
  BY <1>0, <1>7, RingUntouched DEF MouseFlag, userVars, Idle
<1>8. QED
  BY <1>1, <1>2, <1>3, <1>4, <1>5, <1>6, <1>7 DEF HostNext, HostFinishes

LEMMA TalkKeyboardKeeps ==
  ASSUME RingInv, TalkKeyboard, UNCHANGED <<userVars, host>>
  PROVE  RingInv'
<1>0. inputs \in Nat /\ UNCHANGED <<events, tail, lost, caps, inputs>>
  BY DEF RingInv, RingType, TalkKeyboard, userVars
<1>1. cpu' \notin ResetSteps
  BY DEF TalkKeyboard, ResetSteps
<1>2. CASE hasData /\ TakeKey
  BY <1>0, <1>1, <1>2, TakeKeyKeeps
<1>3. CASE UNCHANGED <<head, pending>>
  BY <1>0, <1>1, <1>3, RingUntouched DEF kbdVars
<1>4. QED
  BY <1>2, <1>3 DEF TalkKeyboard

LEMMA CpuKeeps ==
  ASSUME RingInv, Sound, CpuNext
  PROVE  RingInv'
<1>0. inputs \in Nat
  BY DEF RingInv, RingType
<1>1. CASE Reset /\ UNCHANGED <<userVars, host>>
  BY <1>1, ResetKeeps
<1>2. CASE TalkKeyboard /\ UNCHANGED <<userVars, host>>
  BY <1>2, TalkKeyboardKeeps
<1>3. CASE TalkMouse /\ UNCHANGED <<kbdVars, userVars, host>>
  <2>1. cpu' \notin ResetSteps /\ ("reset" \in lost => "reset" \in lost')
    BY <1>3 DEF TalkMouse, ResetSteps
  <2>2. QED
    BY <1>0, <1>3, <2>1, RingUntouched DEF userVars
<1>4. CASE (Ready \/ ReadKeys \/ ReadMouse \/ HandleEvent \/ Loop) /\ UNCHANGED <<userVars, host>>
  <2>1. UNCHANGED kbdVars
    BY <1>4 DEF Ready, ReadKeys, ReadMouse, HandleEvent, Loop
  <2>2. cpu' \in ResetSteps => cpu \in ResetSteps
    BY <1>4 DEF Ready, ReadKeys, ReadMouse, HandleEvent, Loop, ResetSteps
  <2>3. "reset" \in lost => "reset" \in lost'
    BY LostGrows
  <2>4. QED
    BY <1>0, <1>4, <2>1, <2>2, <2>3, RingUntouched DEF userVars
<1>5. QED
  BY <1>1, <1>2, <1>3, <1>4 DEF CpuNext, ControllerNext

LEMMA NextKeepsRing == RingInv /\ Sound /\ [Next]_vars => RingInv'
<1> SUFFICES ASSUME RingInv, Sound, [Next]_vars PROVE RingInv'
  OBVIOUS
<1>1. CASE CpuNext
  BY <1>1, CpuKeeps
<1>2. CASE HostNext /\ UNCHANGED osVars
  BY <1>2, HostKeeps
<1>3. CASE UNCHANGED vars
  BY <1>3, RingUntouched DEF vars, userVars, RingInv, RingType
<1>4. QED
  BY <1>1, <1>2, <1>3 DEF Next

-----------------------------------------------------------------------------
(* The types. *)

LEMMA HalfSize == Half \in Nat /\ Half >= 1 /\ 2 * Half \in Nat
  BY ControllerConstants

LEMMA KeyCodesTyped ==
  ASSUME RingInv, NEW k \in PlainKeys \cup Shifts \cup Locks, NEW down \in BOOLEAN,
         caps' \in BOOLEAN
  PROVE  KeyCode(k, down) \in KeyCodes
  BY DEF KeyCode, KeyCodes

LEMMA InitSound == Init => Sound
<1> SUFFICES ASSUME Init PROVE Sound
  OBVIOUS
<1> USE DEF Init, ControllerInit, Idle
<1>1. VarTypes
  <2>1. OsState \in OsStates
    <3>1. <<>> \in Seq(QueuedEvents) /\ {} \in SUBSET Flags /\ {} \in SUBSET Reasons
      OBVIOUS
    <3>2. QED
      BY <3>1 DEF OsState, OsStates
  <2>2. <<>> \in Seq(KeyCodes)
    OBVIOUS
  <2>3. cpu \in QuietSteps
    BY DEF QuietSteps, ResetSteps
  <2>4. FALSE \in BOOLEAN /\ 0 \in Int
    OBVIOUS
  <2>5. host.pc = "idle"
    BY DEF Idle
  <2>6. QED
    BY <2>1, <2>2, <2>3, <2>4, <2>5 DEF VarTypes
<1>2. Answered
  BY DEF Answered, QuietSteps, ResetSteps
<1>3. Stored
  BY DEF Stored
<1>4. QueueRoom
  BY QueueConstants DEF QueueRoom, ResetSteps
<1>5. QED
  BY <1>1, <1>2, <1>3, <1>4 DEF Sound

\* The handlers touch neither the answer nor the program's variables.
LEMMA HandlersSound ==
  ASSUME RingInv, Sound, HostNext, UNCHANGED osVars
  PROVE  Sound'
<1>0. caps \in BOOLEAN /\ RingType
  BY DEF RingInv, RingType
<1>1. ASSUME NEW code \in KeyCodes, KeyInput(code)
      PROVE  Sound'
  <2>0. /\ host = Idle /\ UNCHANGED <<head, tail, pending, mouseVars, response, cpu, osVars>>
        /\ \/ /\ events' = [events EXCEPT ![tail] = code]
              /\ host'.pc = "publish" /\ UNCHANGED lost
           \/ /\ lost' = lost \cup {"ring"}
              /\ UNCHANGED <<events, host>>
    BY <1>1 DEF KeyInput, Input, KeyStore
  <2>1. VarTypes'
    BY <2>0 DEF Sound, VarTypes, OsState, OsStates, Reasons, mouseVars, osVars
  <2>2. Answered' /\ QueueRoom'
    BY <2>0 DEF Sound, Answered, QueueRoom, osVars
  <2>3. Stored'
    <3>1. 0 \in Slots /\ tail \in Slots /\ events \in [Slots -> Codes]
      BY <1>0, RingSize DEF RingType
    <3>2. QED
      BY <2>0, <3>1 DEF Sound, Stored, Idle
  <2>4. QED
    BY <2>1, <2>2, <2>3 DEF Sound
<1>2. ASSUME NEW k \in PlainKeys, PlainKey(k)
      PROVE  Sound'
  <2>1. caps' \in BOOLEAN /\ \E down \in BOOLEAN : KeyInput(KeyCode(k, down))
    BY <1>0, <1>2 DEF PlainKey
  <2>2. QED
    BY <1>1, <2>1, KeyCodesTyped
<1>3. ASSUME NEW k \in Shifts \cup Locks, FlagsChanged(k)
      PROVE  Sound'
  <2>1. caps' \in BOOLEAN
    BY <1>0, <1>3 DEF FlagsChanged
  <2>2. \E down \in BOOLEAN : KeyInput(KeyCode(k, down))
    BY <1>3, <2>1 DEF FlagsChanged, shiftIsPress
  <2>3. QED
    BY <1>1, <2>1, <2>2, KeyCodesTyped
<1>4. CASE KeyPublish
  <2>0. /\ host.pc = "publish" /\ host' = Idle /\ pending' = Append(pending, events[tail])
        /\ UNCHANGED <<events, head, mouseVars, response, userVars, cpu, lost, osVars>>
    BY <1>4 DEF KeyPublish
  <2>1. pending' \in Seq(KeyCodes)
    BY <2>0 DEF Sound, Stored, VarTypes
  <2>2. VarTypes'
    BY <2>0, <2>1 DEF Sound, VarTypes, OsState, mouseVars, osVars, Idle
  <2>3. Answered' /\ QueueRoom' /\ Stored'
    BY <2>0 DEF Sound, Answered, QueueRoom, Stored, osVars, Idle
  <2>4. QED
    BY <2>2, <2>3 DEF Sound
<1>5. ASSUME UNCHANGED <<kbdVars, response, cpu, osVars>>, lost' \in SUBSET Reasons,
             host.pc # "publish", host'.pc # "publish", VarTypes'
      PROVE  Sound'
  BY <1>5 DEF Sound, Answered, QueueRoom, Stored, osVars, kbdVars
<1>6. lost \in SUBSET Reasons /\ Raced \in SUBSET Reasons
  BY DEF Sound, VarTypes, OsState, OsStates, Raced, Reasons
<1>7. ASSUME NEW m \in Moves, MouseMove(m)
      PROVE  Sound'
  <2>1. m \in Int
    BY ControllerConstants
  <2>2. VarTypes'
    BY <1>6, <1>7, <2>1 DEF MouseMove, Sound, VarTypes, OsState, OsStates, osVars, kbdVars
  <2>3. QED
    BY <1>5, <1>6, <1>7, <2>2 DEF MouseMove, Input, Idle
<1>8. CASE MouseButton
  <2>1. VarTypes'
    BY <1>6, <1>8 DEF MouseButton, Sound, VarTypes, OsState, OsStates, osVars, kbdVars
  <2>2. QED
    BY <1>5, <1>6, <1>8, <2>1 DEF MouseButton, Input, Idle
<1>9. CASE MoveStore
  <2>1. VarTypes'
    BY <1>9 DEF MoveStore, Sound, VarTypes, OsState, OsStates, osVars, kbdVars
  <2>2. QED
    BY <1>5, <1>6, <1>9, <2>1 DEF MoveStore
<1>10. CASE MouseFlag
  <2>1. VarTypes'
    BY <1>10 DEF MouseFlag, Sound, VarTypes, OsState, OsStates, osVars, kbdVars, Idle
  <2>2. QED
    BY <1>5, <1>6, <1>10, <2>1 DEF MouseFlag, Idle
<1>11. QED
  BY <1>2, <1>3, <1>4, <1>7, <1>8, <1>9, <1>10 DEF HostNext, HostFinishes

LEMMA ResetSound ==
  ASSUME RingInv, Sound, Reset, UNCHANGED <<userVars, host, osVars>>
  PROVE  Sound'
<1>1. cpu \in ResetSteps /\ cpu' \in ResetSteps \cup {"ready"} /\ response' = <<>>
  BY DEF Reset, ResetSteps, Sound, Answered, QuietSteps
<1>2. VarTypes'
  <2>1. pending' \in Seq(KeyCodes)
    <3>1. pending' = <<>> \/ pending' = pending
      BY DEF Reset, kbdVars
    <3>2. <<>> \in Seq(KeyCodes) /\ pending \in Seq(KeyCodes)
      BY DEF Sound, VarTypes
    <3>3. QED
      BY <3>1, <3>2
  <2>2. lost' \in SUBSET Reasons
    BY DEF Reset, Sound, VarTypes, OsState, OsStates, Reasons
  <2>3. dx' \in Int /\ owed' \in Int /\ button' \in BOOLEAN /\ moved' \in BOOLEAN
    <3>1. /\ dx' \in {dx, 0} /\ owed' \in {owed, 0}
          /\ button' \in {button, FALSE} /\ moved' \in {moved, FALSE}
      BY DEF Reset, mouseVars
    <3>2. dx \in Int /\ owed \in Int /\ button \in BOOLEAN /\ moved \in BOOLEAN
      BY DEF Sound, VarTypes
    <3>3. dx' \in Int /\ owed' \in Int
      BY <3>1, <3>2
    <3>4. button' \in BOOLEAN /\ moved' \in BOOLEAN
      BY <3>1, <3>2, Zenon
    <3>5. QED
      BY <3>3, <3>4
  <2>4. QED
    BY <1>1, <2>1, <2>2, <2>3 DEF Sound, VarTypes, OsState, OsStates, osVars, QuietSteps
<1>3. Answered'
  BY <1>1 DEF Answered, ResetSteps, QuietSteps
<1>4. Stored'
  BY DEF Reset, Sound, Stored, kbdVars
<1>5. QueueRoom'
  BY <1>1 DEF Sound, QueueRoom, osVars, ResetSteps
<1>6. QED
  BY <1>2, <1>3, <1>4, <1>5 DEF Sound

LEMMA TalkKeyboardSound ==
  ASSUME RingInv, Sound, TalkKeyboard, UNCHANGED <<userVars, host, osVars>>
  PROVE  Sound'
<1>0. /\ events \in [Slots -> Codes] /\ head \in Slots /\ events[head] \in Codes
      /\ NoKey \in Codes
      /\ cpu \in {"keyboard", "secondKey"} /\ cpu' \in {"secondKey", "readKeys"}
      /\ UNCHANGED <<events, tail, mouseVars, lost>>
  BY DEF RingInv, RingType, Codes, TalkKeyboard
<1>1. VarTypes'
  <2>1. pending' \in Seq(KeyCodes)
    BY DEF TalkKeyboard, TakeKey, Sound, VarTypes
  <2>2. QED
    BY <1>0, <2>1 DEF Sound, VarTypes, OsState, osVars, mouseVars
<1>2. Answered'
  <2>1. CASE cpu = "keyboard"
    <3>1. response = <<>>
      BY <2>1 DEF Sound, Answered, QuietSteps
    <3>2. \/ cpu' = "secondKey" /\ response' = <<events[head]>>
          \/ cpu' = "readKeys" /\ response' = <<>>
      BY <2>1, <3>1 DEF TalkKeyboard, TakeKey
    <3>3. QED
      BY <1>0, <3>2 DEF Answered, QuietSteps, ResetSteps
  <2>2. CASE cpu = "secondKey"
    <3>1. PICK c \in Codes : response = <<c>>
      BY <2>2 DEF Sound, Answered
    <3>2. cpu' = "readKeys" /\ \E d \in Codes : response' = <<c, d>>
      BY <1>0, <2>2, <3>1 DEF TalkKeyboard, TakeKey
    <3>3. QED
      BY <3>2 DEF Answered, QuietSteps, ResetSteps
  <2>3. QED
    BY <1>0, <2>1, <2>2
<1>3. Stored' /\ QueueRoom'
  BY <1>0 DEF Sound, Stored, QueueRoom, osVars, ResetSteps
<1>4. QED
  BY <1>1, <1>2, <1>3 DEF Sound

LEMMA TalkMouseSound ==
  ASSUME RingInv, Sound, TalkMouse, UNCHANGED <<kbdVars, userVars, host, osVars>>
  PROVE  Sound'
<1>0. /\ cpu \in {"mouse", "dx", "button", "clearDx", "clearMoved"}
      /\ cpu' \in {"dx", "readMouse", "button", "clearDx", "clearMoved"}
  BY DEF TalkMouse
<1>1. VarTypes'
  <2>1. lost' \in SUBSET Reasons
    BY DEF TalkMouse, Sound, VarTypes, OsState, OsStates, Reasons
  <2>2. dx' \in Int /\ owed' \in Int /\ button' \in BOOLEAN /\ moved' \in BOOLEAN
    <3>1. /\ dx' \in {dx, 0} /\ owed' \in {owed, 0}
          /\ button' \in {button, FALSE} /\ moved' \in {moved, FALSE}
      BY DEF TalkMouse, mouseVars
    <3>2. dx \in Int /\ owed \in Int /\ button \in BOOLEAN /\ moved \in BOOLEAN
      BY DEF Sound, VarTypes
    <3>3. dx' \in Int /\ owed' \in Int
      BY <3>1, <3>2
    <3>4. button' \in BOOLEAN /\ moved' \in BOOLEAN
      BY <3>1, <3>2, Zenon
    <3>5. QED
      BY <3>3, <3>4
  <2>3. QED
    BY <1>0, <2>1, <2>2 DEF Sound, VarTypes, OsState, OsStates, osVars, kbdVars, QuietSteps
<1>2. Answered'
  <2>1. CASE cpu = "mouse"
    <3>1. response' = <<>> /\ cpu' \in {"dx", "readMouse"}
      BY <2>1 DEF TalkMouse, Sound, Answered, QuietSteps
    <3>2. QED
      BY <3>1 DEF Answered, QuietSteps, ResetSteps
  <2>2. CASE cpu = "dx"
    <3>1. Clamp(dx) \in Int
      BY HalfSize DEF Clamp, Sound, VarTypes
    <3>2. Encode7(Clamp(dx)) \in Sevens
      BY <3>1, HalfSize DEF Encode7, Sevens
    <3>3. cpu' = "button" /\ response' = <<Encode7(Clamp(dx))>>
      BY <2>2 DEF TalkMouse
    <3>4. QED
      BY <3>2, <3>3 DEF Answered, QuietSteps, ResetSteps
  <2>3. CASE cpu = "button"
    <3>1. PICK b \in Sevens : response = <<b>>
      BY <2>3 DEF Sound, Answered
    <3>2. cpu' = "clearDx" /\ response' = <<button, b>> /\ button \in BOOLEAN
      BY <2>3, <3>1 DEF TalkMouse, Sound, VarTypes
    <3>3. QED
      BY <3>2 DEF Answered, QuietSteps, ResetSteps
  <2>4. CASE cpu \in {"clearDx", "clearMoved"}
    <3>1. cpu' \in {"clearMoved", "readMouse"} /\ response' = response
      BY <2>4 DEF TalkMouse
    <3>2. \E p \in BOOLEAN, b \in Sevens : response = <<p, b>>
      BY <2>4 DEF Sound, Answered
    <3>3. QED
      BY <3>1, <3>2 DEF Answered, QuietSteps, ResetSteps
  <2>5. QED
    BY <1>0, <2>1, <2>2, <2>3, <2>4
<1>3. Stored' /\ QueueRoom'
  BY <1>0 DEF Sound, Stored, QueueRoom, osVars, kbdVars, ResetSteps
<1>4. QED
  BY <1>1, <1>2, <1>3 DEF Sound

\* Poll after the keyboard's answer, and after the mouse's.
LEMMA ReadKeysSound ==
  ASSUME RingInv, Sound, ReadKeys, UNCHANGED <<userVars, host>>
  PROVE  Sound'
<1>0. /\ OsState \in OsStates /\ OsState.queue = <<>> /\ Len(OsState.queue) = 0
      /\ QueueSize \in Nat /\ QueueSize >= 2
      /\ cpu' = "mouse" /\ response' = <<>>
      /\ UNCHANGED <<kbdVars, mouseVars, prevButton, phase>>
  BY QueueConstants DEF Sound, VarTypes, QueueRoom, OsState, ReadKeys
<1>1. OsState' \in OsStates /\ Len(queue') < QueueSize /\ Len(queue') <= 2
  <2>1. CASE hasResponse
    <3>1. PICK c \in Codes, d \in Codes : response = <<c, d>>
      BY <2>1 DEF Sound, Answered, ReadKeys, hasResponse
    <3> DEFINE s == ProcessKey(OsState, c)
               t == ProcessKey(s, d)
    <3>2. s \in OsStates /\ Len(s.queue) < QueueSize /\ Len(s.queue) <= 1
      BY <1>0, KeyProcessed
    <3>3. mods' = t.mods /\ queue' = t.queue /\ lost' = t.lost
      BY <2>1, <3>1 DEF ReadKeys
    <3> HIDE DEF s
    <3>4. t \in OsStates /\ Len(t.queue) < QueueSize /\ Len(t.queue) <= Len(s.queue) + 1
      BY <3>2, KeyProcessed
    <3>5. Len(s.queue) \in Nat /\ Len(t.queue) \in Nat
      BY <3>2, <3>4 DEF OsStates
    <3> HIDE DEF t
    <3>6. OsState' \in OsStates
      BY <3>3, <3>4 DEF OsState, OsStates
    <3>7. QED
      BY <3>2, <3>3, <3>4, <3>5, <3>6
  <2>2. CASE ~hasResponse
    BY <1>0, <2>2 DEF ReadKeys, OsState
  <2>3. QED
    BY <2>1, <2>2
<1>2. VarTypes'
  BY <1>0, <1>1 DEF Sound, VarTypes, kbdVars, mouseVars, QuietSteps
<1>3. Answered' /\ Stored' /\ QueueRoom'
  BY <1>0, <1>1 DEF Sound, Answered, Stored, QueueRoom, kbdVars, QuietSteps, ResetSteps
<1>4. QED
  BY <1>2, <1>3 DEF Sound

LEMMA ReadMouseSound ==
  ASSUME RingInv, Sound, ReadMouse, UNCHANGED <<userVars, host>>
  PROVE  Sound'
<1>0. /\ OsState \in OsStates /\ OsState.queue = queue /\ Len(queue) < QueueSize
      /\ cpu = "readMouse" /\ cpu' = "handle"
      /\ UNCHANGED <<kbdVars, dx, button, moved, mods, phase>>
  BY DEF Sound, VarTypes, QueueRoom, OsState, ReadMouse
<1>1. /\ OsState' \in OsStates /\ Len(queue') < QueueSize
      /\ prevButton' \in BOOLEAN /\ owed' \in Int /\ response' = <<>>
  <2>1. CASE hasResponse
    <3>1. PICK p \in BOOLEAN, b \in Sevens : response = <<p, b>>
      BY <1>0, <2>1 DEF Sound, Answered, hasResponse
    <3> DEFINE s == ProcessMouse(OsState, p, Decode7(b))
    <3>2. Decode7(b) \in Int
      BY HalfSize DEF Decode7, Sevens
    <3>3. /\ queue' = s.queue /\ lost' = s.lost /\ prevButton' = p
          /\ owed' = owed - Decode7(b) /\ response' = <<>>
      BY <2>1, <3>1 DEF ReadMouse
    <3>4. s \in OsStates /\ s.mods = mods /\ Len(s.queue) < QueueSize
      BY <1>0, <3>2, MouseProcessed DEF OsState
    <3>5. owed' \in Int
      BY <3>2, <3>3 DEF Sound, VarTypes
    <3> HIDE DEF s
    <3>6. OsState' \in OsStates
      BY <1>0, <3>3, <3>4 DEF OsState, OsStates
    <3>7. QED
      BY <3>3, <3>4, <3>5, <3>6
  <2>2. CASE ~hasResponse
    <3>1. UNCHANGED <<queue, lost, prevButton, owed, response>>
      BY <2>2 DEF ReadMouse
    <3>2. response = <<>>
      BY <2>2 DEF hasResponse
    <3>3. QED
      BY <1>0, <3>1, <3>2 DEF OsState, Sound, VarTypes
  <2>3. QED
    BY <2>1, <2>2
<1>2. VarTypes'
  BY <1>0, <1>1 DEF Sound, VarTypes, kbdVars, QuietSteps
<1>3. Answered' /\ Stored' /\ QueueRoom'
  BY <1>0, <1>1 DEF Sound, Answered, Stored, QueueRoom, kbdVars, QuietSteps, ResetSteps
<1>4. QED
  BY <1>2, <1>3 DEF Sound

LEMMA ProgramSound ==
  ASSUME RingInv, Sound, Ready \/ HandleEvent \/ Loop, UNCHANGED <<userVars, host>>
  PROVE  Sound'
<1>0. OsState \in OsStates /\ queue \in Seq(QueuedEvents) /\ Len(queue) < QueueSize
  BY DEF Sound, VarTypes, OsState, OsStates, QueueRoom
<1>1. UNCHANGED <<kbdVars, mouseVars, response, lost>>
  BY DEF Ready, HandleEvent, Loop
<1>2. \/ cpu = "ready" /\ cpu' = "keyboard" /\ mods' = {} /\ prevButton' = FALSE /\ queue' = queue
      \/ /\ cpu = "handle" /\ cpu' = "handle" /\ queue # <<>> /\ queue' = Tail(queue)
         /\ UNCHANGED <<mods, prevButton>>
      \/ /\ cpu = "handle" /\ cpu' \in {"keyboard", "stopped"} /\ queue = <<>>
         /\ UNCHANGED <<mods, prevButton, queue>>
  BY DEF Ready, HandleEvent, Loop
<1>3. queue' \in Seq(QueuedEvents) /\ Len(queue') < QueueSize
  <2>1. CASE queue # <<>> /\ queue' = Tail(queue)
    <3> DEFINE n == Len(queue)
    <3>1. Tail(queue) \in Seq(QueuedEvents) /\ Len(Tail(queue)) = n - 1 /\ n \in Nat
      BY <1>0, <2>1
    <3>2. QED
      BY <1>0, <2>1, <3>1, QueueConstants
  <2>2. CASE queue' = queue
    BY <1>0, <2>2
  <2>3. QED
    BY <1>2, <2>1, <2>2
<1>4. mods' \in SUBSET Flags /\ prevButton' \in BOOLEAN
  BY <1>0, <1>2 DEF OsState, OsStates, Sound, VarTypes
<1>5. VarTypes'
  <2>1. OsState' \in OsStates
    BY <1>0, <1>1, <1>3, <1>4 DEF OsState, OsStates
  <2>2. QED
    BY <1>1, <1>2, <1>4, <2>1 DEF Sound, VarTypes, kbdVars, mouseVars, QuietSteps
<1>6. Answered' /\ Stored'
  BY <1>1, <1>2 DEF Sound, Answered, Stored, kbdVars, QuietSteps, ResetSteps
<1>7. QueueRoom'
  <2>1. cpu \in {"ready", "handle"} /\ cpu' \in {"handle", "keyboard", "stopped"}
    BY <1>2
  <2>2. cpu' # "handle" => queue' = <<>>
    BY <1>2 DEF Sound, QueueRoom
  <2>3. QED
    BY <1>3, <2>1, <2>2 DEF QueueRoom, ResetSteps
<1>8. QED
  BY <1>5, <1>6, <1>7 DEF Sound

LEMMA NextSound == RingInv /\ Sound /\ [Next]_vars => Sound'
<1> SUFFICES ASSUME RingInv, Sound, [Next]_vars PROVE Sound'
  OBVIOUS
<1>1. CASE ControllerNext /\ UNCHANGED osVars
  BY <1>1, ResetSound, TalkKeyboardSound, TalkMouseSound DEF ControllerNext
<1>2. CASE (Ready \/ ReadKeys \/ ReadMouse \/ HandleEvent \/ Loop) /\ UNCHANGED <<userVars, host>>
  BY <1>2, ReadKeysSound, ReadMouseSound, ProgramSound
<1>3. CASE HostNext /\ UNCHANGED osVars
  BY <1>3, HandlersSound
<1>4. CASE UNCHANGED vars
  BY <1>4 DEF vars, kbdVars, mouseVars, osVars, Sound, VarTypes, OsState, Answered, Stored,
              QueueRoom
<1>5. QED
  BY <1>1, <1>2, <1>3, <1>4 DEF Next, CpuNext

-----------------------------------------------------------------------------
\* The ring's variables keep their ranges and, until a reset cuts in on the user,
\* the slots from head to tail are the keys accepted and not yet taken.
THEOREM RingInvariance == Spec => []RingInv
  BY InitRing, InitSound, NextKeepsRing, NextSound, PTL DEF Spec

\* The keyboard ring needs no lock (ADB_Controller.cpp:63-80 against 151-169):
\* whatever its size, and however the two threads' steps fall, its contents are
\* the keys accepted and not yet taken, in order.
THEOREM RingKeepsOrder == Spec => []KeysInOrder
<1>1. RingInv => KeysInOrder
  <2> SUFFICES ASSUME RingInv, "reset" \notin lost
               PROVE  RingContents = pending
    BY DEF KeysInOrder
  <2>0. RingHolds /\ head \in Slots /\ tail \in Slots /\ pending \in Seq(Codes)
    BY DEF RingInv, RingType
  <2>1. Len(pending) \in Slots
    BY <2>0, RingSize DEF RingHolds, Slots
  <2>2. (tail - head) % KbdBufSize = Len(pending)
    BY <2>0, <2>1, SlotDistance DEF RingHolds
  <2>3. ASSUME NEW j \in 1 .. Len(pending)
        PROVE  events[(head + j - 1) % KbdBufSize] = pending[j]
    <3>1. j - 1 \in Slots /\ head + j - 1 = head + (j - 1)
      BY <2>0, <2>1, RingSize DEF Slots
    <3>2. (head + j - 1) % KbdBufSize = Slot(head, j - 1)
      BY <2>0, <3>1, SlotMod
    <3>3. QED
      BY <2>0, <3>2 DEF RingHolds
  <2>4. RingContents = [j \in 1 .. Len(pending) |-> pending[j]]
    BY <2>2, <2>3 DEF RingContents
  <2>5. QED
    BY <2>0, <2>4
<1>2. QED
  BY <1>1, RingInvariance, PTL
\* The indices, the answers, the queue and the flags keep their types, after any
\* reset, with any interleaving of the handlers.
THEOREM TypesHold == Spec => []TypeOK
<1>1. RingInv /\ Sound => TypeOK
  <2> SUFFICES ASSUME RingInv, Sound PROVE TypeOK
    OBVIOUS
  <2>1. events \in [Slots -> Codes] /\ head \in Slots /\ tail \in Slots
    BY DEF RingInv, RingType
  <2>2. Len(response) <= 2
    <3>1. \A c : Len(<<c>>) = 1
      OBVIOUS
    <3>2. \A c, d : Len(<<c, d>>) = 2
      OBVIOUS
    <3>3. Len(response) \in {0, 1, 2}
      <4>1. \/ response = <<>> \/ \E c : response = <<c>>
            \/ \E c, d : response = <<c, d>>
        BY DEF Sound, VarTypes, Answered
      <4>2. QED
        BY <3>1, <3>2, <4>1
    <3>4. \A m \in {0, 1, 2} : m <= 2
      OBVIOUS
    <3>5. QED
      BY <3>3, <3>4, Zenon
  <2>3. QED
    BY <2>1, <2>2 DEF TypeOK, Sound, VarTypes, QueueRoom, OsState, OsStates, Flags, Reasons,
                      Slots, Codes
<1>2. QED
  BY <1>1, InitRing, InitSound, NextKeepsRing, NextSound, PTL DEF Spec

\* Terminal empties the queue between polls and one Poll posts at most four events,
\* so that PostEvent (EventManager.Mod:35-43) never drops one, whatever is lost
\* before Poll; the queue of the code has 32 slots.
THEOREM QueueNeverFills == ASSUME QueueSize > 4 PROVE Spec => []NoEventDropped
<1>1. Init => NoEventDropped
  BY DEF Init, ControllerInit, NoEventDropped
<1>2. ASSUME Sound, NoEventDropped, [Next]_vars
      PROVE  NoEventDropped'
  <2>0. /\ OsState \in OsStates /\ OsState.queue = queue /\ OsState.lost = lost
        /\ Len(queue) < QueueSize /\ Len(queue) \in Nat /\ QueueSize \in Nat
    BY <1>2, QueueConstants DEF Sound, VarTypes, QueueRoom, OsState, OsStates
  <2>1. CASE ReadKeys /\ hasResponse
    <3>1. PICK c \in Codes, d \in Codes : response = <<c, d>>
      BY <1>2, <2>1 DEF Sound, Answered, ReadKeys, hasResponse
    <3> DEFINE s == ProcessKey(OsState, c)
               t == ProcessKey(s, d)
    <3>2. Len(queue) = 0
      BY <1>2, <2>1 DEF Sound, QueueRoom, ReadKeys
    <3>3. s \in OsStates /\ Len(s.queue) <= 1 /\ Len(s.queue) < QueueSize /\ s.lost = lost
      <4>1. Len(OsState.queue) = 0 /\ 0 + 1 < QueueSize
        BY <2>0, <3>2
      <4>2. QED
        BY <2>0, <4>1, KeyProcessed
    <3>4. lost' = t.lost
      BY <2>1, <3>1 DEF ReadKeys
    <3> HIDE DEF s
    <3>5. Len(s.queue) + 1 < QueueSize
      BY <2>0, <3>3 DEF OsStates
    <3>6. t.lost = s.lost
      BY <3>3, <3>5, KeyProcessed
    <3>7. QED
      BY <1>2, <3>3, <3>4, <3>6 DEF NoEventDropped
  <2>2. CASE ReadMouse /\ hasResponse
    <3>1. PICK p \in BOOLEAN, b \in Sevens : response = <<p, b>>
      BY <1>2, <2>2 DEF Sound, Answered, ReadMouse, hasResponse
    <3>2. Decode7(b) \in Int
      BY HalfSize DEF Decode7, Sevens
    <3>3. Len(queue) <= 2
      BY <1>2, <2>2 DEF Sound, QueueRoom, ReadMouse
    <3>4. lost' = ProcessMouse(OsState, p, Decode7(b)).lost
      BY <2>2, <3>1 DEF ReadMouse
    <3>5. ProcessMouse(OsState, p, Decode7(b)).lost = lost
      BY <2>0, <3>2, <3>3, MouseProcessed
    <3>6. QED
      BY <1>2, <3>4, <3>5 DEF NoEventDropped
  <2>3. CASE (ReadKeys \/ ReadMouse) /\ ~hasResponse
    BY <1>2, <2>0, <2>3 DEF ReadKeys, ReadMouse, NoEventDropped
  <2>4. CASE Ready \/ HandleEvent \/ Loop
    BY <1>2, <2>4 DEF Ready, HandleEvent, Loop, NoEventDropped
  <2>5. CASE ControllerNext
    BY <1>2, <2>5 DEF ControllerNext, Reset, TalkKeyboard, TalkMouse, NoEventDropped
  <2>6. CASE HostNext
    <3>1. lost' = lost \/ lost' = lost \cup {"ring"} \/ lost' = lost \cup {"race"}
      BY <2>6 DEF HostNext, HostFinishes, PlainKey, FlagsChanged, KeyInput, KeyStore, KeyPublish,
                  MouseMove, MoveStore, MouseButton, MouseFlag, Raced
    <3>2. QED
      BY <1>2, <3>1 DEF NoEventDropped
  <2>7. CASE UNCHANGED vars
    BY <1>2, <2>7 DEF vars, NoEventDropped
  <2>8. QED
    BY <1>2, <2>1, <2>2, <2>3, <2>4, <2>5, <2>6, <2>7 DEF Next, CpuNext
<1>3. QED
  BY <1>1, <1>2, InitRing, InitSound, NextKeepsRing, NextSound, PTL DEF Spec

-----------------------------------------------------------------------------
(* The Shift flag.  What Poll has seen of it is in mods; between mods and the *)
(* handlers lie the codes of the answer, those of the ring and the one that  *)
(* is stored and not published.  Each of them carries on from the flag after *)
(* the one before, and after the last of them the flag is the user's.        *)

\* The flag after code, when it was f: ProcessKey skips the byte 0FFH.
After(f, code) == IF code = NoKey THEN f ELSE code.shift

\* A Shift key goes down exactly when the flag is set; other keys leave it alone.
Follows(f, code) == code.shift <=> (IF code.key \in Shifts THEN code.down ELSE f)

FlagTaken ==
  IF cpu = "secondKey" THEN After("shift" \in mods, response[1])
  ELSE IF cpu = "readKeys" /\ response # <<>>
       THEN After(After("shift" \in mods, response[1]), response[2])
       ELSE "shift" \in mods

FlagPending == IF pending = <<>> THEN FlagTaken ELSE pending[Len(pending)].shift

FlagStored == IF host.pc = "publish" THEN events[tail].shift ELSE FlagPending

ShiftChain ==
  /\ cpu = "secondKey" => Follows("shift" \in mods, response[1])
  /\ cpu = "readKeys" /\ response # <<>> =>
       /\ response[1] # NoKey => Follows("shift" \in mods, response[1])
       /\ response[2] # NoKey => Follows(After("shift" \in mods, response[1]), response[2])
  /\ pending # <<>> => Follows(FlagTaken, pending[1])
  /\ \A i \in 1 .. (Len(pending) - 1) : Follows(pending[i].shift, pending[i + 1])
  /\ host.pc = "publish" => Follows(FlagPending, events[tail])
  /\ (held \cap Shifts # {}) <=> FlagStored

\* Nothing is down before the first input, and nothing was read before the reset.
BeforeInput ==
  /\ inputs = 0 => held = {}
  /\ cpu \in ResetSteps \cup {"ready"} => mods = {}

ShiftsKept == lost \cap {"ring", "reset"} = {}

ShiftInv == BeforeInput /\ (ShiftsKept => ShiftChain /\ ShiftAtEvent)
LEMMA KeysApart ==
  /\ \A k \in PlainKeys \cup Locks : k \notin Shifts
  /\ Mouse \notin Shifts /\ NoKey \notin KeyCodes
  BY ControllerConstants DEF NoKey, KeyCodes

LEMMA InitShift == Init => ShiftInv
<1> SUFFICES ASSUME Init PROVE ShiftInv
  OBVIOUS
<1> USE DEF Init, ControllerInit, Idle
<1>1. BeforeInput
  BY DEF BeforeInput
<1>2. pending = <<>> /\ Len(pending) = 0 /\ \A i \in 1 .. (Len(pending) - 1) : FALSE
  OBVIOUS
<1>3. ~FlagTaken /\ ~FlagStored
  BY DEF FlagTaken, FlagPending, FlagStored
<1>4. ShiftChain
  BY <1>2, <1>3 DEF ShiftChain
<1>5. ShiftAtEvent
  <2>1. \A i \in DOMAIN <<>> : FALSE
    OBVIOUS
  <2>2. QED
    BY <2>1 DEF ShiftAtEvent
<1>6. QED
  BY <1>1, <1>4, <1>5 DEF ShiftInv

\* The steps that touch neither the keys nor what Poll makes of them.
LEMMA ChainUntouched ==
  ASSUME ShiftChain, UNCHANGED <<events, tail, pending, mods>>,
         held' \cap Shifts = held \cap Shifts,
         UNCHANGED host \/ (host.pc # "publish" /\ host'.pc # "publish"),
         \/ UNCHANGED <<cpu, response>>
         \/ /\ cpu # "secondKey" /\ (cpu = "readKeys" => response = <<>>)
            /\ cpu' # "secondKey" /\ (cpu' = "readKeys" => response' = <<>>)
  PROVE  ShiftChain'
<1>1. FlagTaken' <=> FlagTaken
  BY DEF FlagTaken, After
<1>2. FlagPending' <=> FlagPending
  BY <1>1 DEF FlagPending
<1>3. FlagStored' <=> FlagStored
  BY <1>2 DEF FlagStored
<1>4. /\ cpu' = "secondKey" => Follows("shift" \in mods, response[1])'
      /\ cpu' = "readKeys" /\ response' # <<>> =>
           /\ response'[1] # NoKey => Follows("shift" \in mods, response[1])'
           /\ response'[2] # NoKey => Follows(After("shift" \in mods, response[1]), response[2])'
  BY DEF ShiftChain, Follows, After
<1>5. /\ pending' # <<>> => Follows(FlagTaken, pending[1])'
      /\ host'.pc = "publish" => Follows(FlagPending, events[tail])'
  BY <1>1, <1>2 DEF ShiftChain, Follows
<1>6. \A i \in 1 .. (Len(pending') - 1) : Follows(pending[i].shift, pending[i + 1])'
  BY DEF ShiftChain, Follows
<1>7. (held' \cap Shifts # {}) <=> FlagStored'
  BY <1>3 DEF ShiftChain
<1>8. QED
  BY <1>4, <1>5, <1>6, <1>7 DEF ShiftChain

\* keyDown, keyUp and flagsChanged, when the ring has room.
LEMMA KeyInputChain ==
  ASSUME RingInv, Sound, ShiftChain, NEW code \in KeyCodes, KeyInput(code),
         "ring" \notin lost', UNCHANGED mods,
         code.shift <=> (held' \cap Shifts # {}),
         Follows(held \cap Shifts # {}, code)
  PROVE  ShiftChain'
<1>0. /\ host.pc = "idle" /\ events' = [events EXCEPT ![tail] = code]
      /\ host'.pc = "publish" /\ UNCHANGED <<tail, pending, mods, cpu, response>>
      /\ events'[tail] = code
  BY DEF KeyInput, Input, KeyStore, Idle, RingInv, RingType
<1>1. (held \cap Shifts # {}) <=> FlagPending
  BY <1>0 DEF ShiftChain, FlagStored
<1>2. FlagTaken' <=> FlagTaken
  BY <1>0 DEF FlagTaken, After
<1>3. FlagPending' <=> FlagPending
  BY <1>0, <1>2 DEF FlagPending
<1>4. FlagStored' <=> code.shift
  BY <1>0 DEF FlagStored
<1>5. /\ cpu' = "secondKey" => Follows("shift" \in mods, response[1])'
      /\ cpu' = "readKeys" /\ response' # <<>> =>
           /\ response'[1] # NoKey => Follows("shift" \in mods, response[1])'
           /\ response'[2] # NoKey => Follows(After("shift" \in mods, response[1]), response[2])'
  BY <1>0 DEF ShiftChain, Follows, After
<1>6. pending' # <<>> => Follows(FlagTaken, pending[1])'
  BY <1>0, <1>2 DEF ShiftChain, Follows
<1>7. \A i \in 1 .. (Len(pending') - 1) : Follows(pending[i].shift, pending[i + 1])'
  BY <1>0 DEF ShiftChain, Follows
<1>8. Follows(FlagPending, events[tail])'
  BY <1>0, <1>1, <1>3 DEF Follows
<1>9. QED
  BY <1>4, <1>5, <1>6, <1>7, <1>8 DEF ShiftChain

LEMMA HandlersChain ==
  ASSUME RingInv, Sound, ShiftChain, HostNext, UNCHANGED osVars, "ring" \notin lost'
  PROVE  ShiftChain'
<1>0. caps \in BOOLEAN /\ RingType /\ UNCHANGED mods
  BY DEF RingInv, RingType, osVars
<1>1. ASSUME NEW k \in PlainKeys, PlainKey(k)
      PROVE  ShiftChain'
  <2>1. PICK down \in BOOLEAN : KeyInput(KeyCode(k, down))
    BY <1>1 DEF PlainKey
  <2>2. caps' \in BOOLEAN /\ held' \cap Shifts = held \cap Shifts
    BY <1>0, <1>1, KeysApart DEF PlainKey
  <2>3. /\ KeyCode(k, down) \in KeyCodes /\ KeyCode(k, down).key \notin Shifts
        /\ KeyCode(k, down).shift <=> (held' \cap Shifts # {})
    BY <2>2, KeysApart, KeyCodesTyped DEF KeyCode
  <2>4. Follows(held \cap Shifts # {}, KeyCode(k, down))
    BY <2>2, <2>3 DEF Follows
  <2>5. QED
    BY <1>0, <2>1, <2>3, <2>4, KeyInputChain
<1>2. ASSUME NEW k \in Shifts, FlagsChanged(k)
      PROVE  ShiftChain'
  <2> DEFINE f == held' \cap Shifts # {}
  <2>1. caps' \in BOOLEAN /\ KeyInput(KeyCode(k, f))
    <3>1. k \notin Locks
      BY KeysApart
    <3>2. QED
      BY <1>0, <1>2, <3>1 DEF FlagsChanged, shiftIsPress
  <2>2. f \in BOOLEAN
    OBVIOUS
  <2>3. KeyCode(k, f) \in KeyCodes
    BY <2>1, <2>2, KeyCodesTyped
  <2>4. /\ KeyCode(k, f).shift <=> f
        /\ KeyCode(k, f).down <=> f
        /\ KeyCode(k, f).key = k
    BY DEF KeyCode
  <2>5. Follows(held \cap Shifts # {}, KeyCode(k, f))
    BY <2>4 DEF Follows
  <2>6. QED
    BY <1>0, <2>1, <2>3, <2>4, <2>5, KeyInputChain
<1>3. ASSUME NEW k \in Locks, FlagsChanged(k)
      PROVE  ShiftChain'
  <2>1. UNCHANGED held /\ caps' \in BOOLEAN /\ KeyInput(KeyCode(k, caps'))
    <3>1. k \notin Shifts
      BY KeysApart
    <3>2. QED
      BY <1>0, <1>3, <3>1 DEF FlagsChanged
  <2>2. /\ KeyCode(k, caps') \in KeyCodes /\ KeyCode(k, caps').key \notin Shifts
        /\ KeyCode(k, caps').shift <=> (held' \cap Shifts # {})
    BY <2>1, KeysApart, KeyCodesTyped DEF KeyCode
  <2>3. Follows(held \cap Shifts # {}, KeyCode(k, caps'))
    BY <2>1, <2>2 DEF Follows
  <2>4. QED
    BY <1>0, <2>1, <2>2, <2>3, KeyInputChain
<1>4. CASE KeyPublish
  <2> DEFINE n == Len(pending)
             c == events[tail]
  <2>0. /\ host.pc = "publish" /\ host'.pc = "idle" /\ pending' = Append(pending, c)
        /\ UNCHANGED <<events, response, held, cpu>> /\ pending \in Seq(KeyCodes)
        /\ c \in KeyCodes
    BY <1>4 DEF KeyPublish, userVars, Idle, Sound, VarTypes, Stored
  <2> HIDE DEF c
  <2>1. /\ n \in Nat /\ Len(pending') = n + 1 /\ pending'[n + 1] = c /\ pending' # <<>>
        /\ \A i \in 1 .. n : pending'[i] = pending[i]
        /\ pending = <<>> <=> n = 0
    BY <2>0
  <2>2. FlagTaken' <=> FlagTaken
    BY <1>0, <2>0 DEF FlagTaken, After
  <2>3. FlagPending' <=> c.shift
    BY <2>1 DEF FlagPending
  <2>4. FlagStored' <=> c.shift
    BY <2>0, <2>3 DEF FlagStored
  <2>5. (held' \cap Shifts # {}) <=> c.shift
    BY <2>0 DEF ShiftChain, FlagStored, c
  <2>6. Follows(FlagPending, c)
    BY <2>0 DEF ShiftChain, c
  <2>7. Follows(FlagTaken, pending[1])'
    <3>1. CASE n = 0
      BY <2>1, <2>2, <2>6, <3>1 DEF Follows, FlagPending
    <3>2. CASE n # 0
      BY <2>1, <2>2, <3>2 DEF Follows, ShiftChain
    <3>3. QED
      BY <3>1, <3>2
  <2>8. \A i \in 1 .. (Len(pending') - 1) : Follows(pending[i].shift, pending[i + 1])'
    <3> SUFFICES ASSUME NEW i \in 1 .. n
                 PROVE  Follows(pending'[i].shift, pending'[i + 1])
      BY <2>1
    <3>1. CASE i = n
      BY <2>1, <2>6, <3>1 DEF Follows, FlagPending
    <3>2. CASE i # n
      <4>1. i \in 1 .. (n - 1) /\ i + 1 \in 1 .. n
        BY <2>1, <3>2
      <4>2. Follows(pending[i].shift, pending[i + 1])
        BY <4>1 DEF ShiftChain
      <4>3. QED
        BY <2>1, <4>1, <4>2
    <3>3. QED
      BY <3>1, <3>2
  <2>9. /\ cpu' = "secondKey" => Follows("shift" \in mods, response[1])'
        /\ cpu' = "readKeys" /\ response' # <<>> =>
             /\ response'[1] # NoKey => Follows("shift" \in mods, response[1])'
             /\ response'[2] # NoKey => Follows(After("shift" \in mods, response[1]), response[2])'
    BY <1>0, <2>0 DEF ShiftChain, Follows, After
  <2>10. QED
    BY <2>0, <2>4, <2>5, <2>7, <2>8, <2>9 DEF ShiftChain
<1>5. CASE (\E m \in Moves : MouseMove(m)) \/ MouseButton \/ MoveStore \/ MouseFlag
  <2>1. UNCHANGED <<events, tail, pending, cpu, response>>
    BY <1>5 DEF MouseMove, MouseButton, MoveStore, MouseFlag, kbdVars
  <2>2. host.pc # "publish" /\ host'.pc # "publish"
    BY <1>5 DEF MouseMove, MouseButton, MoveStore, MouseFlag, Input, Idle
  <2>3. held' \cap Shifts = held \cap Shifts
    BY <1>5, KeysApart DEF MouseMove, MouseButton, MoveStore, MouseFlag, Toggled, userVars
  <2>4. QED
    BY <1>0, <2>1, <2>2, <2>3, ChainUntouched
<1>6. QED
  BY <1>1, <1>2, <1>3, <1>4, <1>5 DEF HostNext, HostFinishes
LEMMA SecondByte ==
  ASSUME NEW r \in Codes, NEW c \in Codes
  PROVE  /\ Append(<<r>>, c) = <<r, c>>
         /\ <<r, c>>[1] = r /\ <<r, c>>[2] = c /\ <<r>>[1] = r /\ <<r, c>> # <<>>
<1>1. Append(<<r>>, c) = <<r, c>>
  <2> DEFINE t == Append(<<r>>, c)
             u == <<r, c>>
  <2>1. <<r>> \in Seq(Codes) /\ u \in Seq(Codes) /\ Len(u) = 2 /\ u[1] = r /\ u[2] = c
    OBVIOUS
  <2>2. t \in Seq(Codes) /\ Len(t) = 2 /\ t[1] = r /\ t[2] = c
    BY <2>1
  <2> HIDE DEF t, u
  <2>3. \A i \in 1 .. 2 : t[i] = u[i]
    <3>1. \A i \in 1 .. 2 : i = 1 \/ i = 2
      OBVIOUS
    <3>2. QED
      BY <2>1, <2>2, <3>1
  <2>4. t = u
    <3>1. t = [i \in 1 .. 2 |-> t[i]]
      BY <2>2
    <3>2. u = [i \in 1 .. 2 |-> u[i]]
      BY <2>1
    <3>3. QED
      BY <2>3, <3>1, <3>2
  <2>5. QED
    BY <2>4 DEF t, u
<1>2. <<r, c>>[1] = r /\ <<r, c>>[2] = c /\ <<r>>[1] = r
  OBVIOUS
<1>3. <<r, c>> # <<>>
  OBVIOUS
<1>4. QED
  BY <1>1, <1>2, <1>3

LEMMA TailOfSeq ==
  ASSUME NEW S, NEW s \in Seq(S), s # <<>>
  PROVE  /\ Len(s) \in Nat \ {0} /\ Len(Tail(s)) = Len(s) - 1
         /\ \A i \in 1 .. (Len(s) - 1) : Tail(s)[i] = s[i + 1]
         /\ Tail(s) = <<>> <=> Len(s) = 1
<1> DEFINE n == Len(s)
<1>1. n \in Nat /\ n # 0 /\ Tail(s) \in Seq(S) /\ Len(Tail(s)) = n - 1
  OBVIOUS
<1>2. \A i \in 1 .. (n - 1) : Tail(s)[i] = s[i + 1]
  OBVIOUS
<1>3. Tail(s) = <<>> <=> Len(Tail(s)) = 0
  <2> DEFINE t == Tail(s)
  <2>1. t \in Seq(S)
    BY <1>1
  <2> HIDE DEF t
  <2>2. t = <<>> <=> Len(t) = 0
    BY <2>1
  <2>3. QED
    BY <2>2 DEF t
<1> HIDE DEF n
<1>4. n - 1 = 0 <=> n = 1
  BY <1>1
<1>5. QED
  BY <1>1, <1>2, <1>3, <1>4 DEF n

\* Talk moves the ring's first key to the end of the answer.
LEMMA TalkKeyboardChain ==
  ASSUME RingInv, Sound, ShiftChain, TalkKeyboard, UNCHANGED <<userVars, host, osVars>>,
         "reset" \notin lost
  PROVE  ShiftChain'
<1>0. /\ UNCHANGED <<events, tail, held, mods, host>>
      /\ pending \in Seq(KeyCodes) /\ RingHolds
      /\ head \in Slots /\ tail \in Slots
  BY DEF TalkKeyboard, userVars, osVars, RingInv, RingType, Sound, VarTypes
<1>1. cpu = "keyboard" => response = <<>>
  BY DEF Sound, Answered, QuietSteps
<1>2. cpu = "secondKey" => \E c \in Codes : response = <<c>>
  BY DEF Sound, Answered
<1>3. ASSUME FlagPending' <=> FlagPending,
             pending' # <<>> => Follows(FlagTaken, pending[1])',
             \A i \in 1 .. (Len(pending') - 1) : Follows(pending[i].shift, pending[i + 1])',
             cpu' = "secondKey" => Follows("shift" \in mods, response'[1]),
             cpu' = "readKeys" /\ response' # <<>> =>
               /\ response'[1] # NoKey => Follows("shift" \in mods, response'[1])
               /\ response'[2] # NoKey => Follows(After("shift" \in mods, response'[1]), response'[2])
      PROVE  ShiftChain'
  <2>1. FlagStored' <=> FlagStored
    BY <1>0, <1>3 DEF FlagStored
  <2>2. (held' \cap Shifts # {}) <=> FlagStored'
    BY <1>0, <2>1 DEF ShiftChain
  <2>3. host'.pc = "publish" => Follows(FlagPending, events[tail])'
    BY <1>0, <1>3 DEF ShiftChain, Follows
  <2>4. QED
    BY <1>0, <1>3, <2>2, <2>3 DEF ShiftChain, Follows, After
<1>4. CASE hasData /\ TakeKey
  <2> DEFINE n == Len(pending)
             c == pending[1]
  <2>1. n \in Nat /\ n # 0 /\ pending # <<>>
    <3>1. head # tail
      BY <1>4 DEF hasData
    <3>2. n \in Nat /\ tail = Slot(head, n)
      BY <1>0 DEF RingHolds
    <3>3. n # 0
      BY <1>0, <3>1, <3>2, RingSize DEF Slot, Slots
    <3>4. QED
      BY <1>0, <3>2, <3>3
  <2>2. events[head] = c /\ c \in KeyCodes
    <3>1. 1 \in 1 .. n /\ Slot(head, 1 - 1) = head
      BY <1>0, <2>1, RingSize DEF Slot, Slots
    <3>2. QED
      BY <1>0, <3>1 DEF RingHolds
  <2>3. c # NoKey
    BY <2>2, KeysApart
  <2>4. /\ response' = Append(response, c) /\ pending' = Tail(pending)
        /\ Len(pending') = n - 1 /\ \A i \in 1 .. (n - 1) : pending'[i] = pending[i + 1]
        /\ pending' = <<>> <=> n = 1
    <3>1. response' = Append(response, c) /\ pending' = Tail(pending)
      BY <1>4, <2>1, <2>2 DEF TakeKey
    <3>2. QED
      BY <1>0, <2>1, <3>1, TailOfSeq
  <2>5. Follows(FlagTaken, c)
    BY <2>1 DEF ShiftChain
  <2> HIDE DEF c
  <2>6. FlagTaken' <=> c.shift
    <3>1. CASE cpu = "keyboard"
      <4>1. cpu' = "secondKey" /\ response' = <<c>>
        BY <1>1, <1>4, <2>4, <3>1 DEF TalkKeyboard
      <4>2. QED
        BY <2>3, <4>1 DEF FlagTaken, After
    <3>2. CASE cpu = "secondKey"
      <4>1. PICK r \in Codes : response = <<r>>
        BY <1>2, <3>2
      <4>2. cpu' = "readKeys"
        BY <1>4, <3>2 DEF TalkKeyboard
      <4>3. /\ response' = <<r, c>> /\ response'[1] = r /\ response[1] = r
            /\ response'[2] = c /\ response' # <<>>
        BY <2>2, <2>4, <4>1, SecondByte DEF Codes
      <4>4. QED
        BY <1>0, <2>3, <3>2, <4>1, <4>2, <4>3 DEF FlagTaken, After
    <3>3. QED
      BY <3>1, <3>2 DEF TalkKeyboard
  <2>7. FlagPending' <=> FlagPending
    <3>1. CASE n = 1
      BY <2>1, <2>4, <2>6, <3>1 DEF FlagPending, c
    <3>2. CASE n # 1
      <4> HIDE DEF n
      <4>1. n - 1 \in 1 .. (n - 1) /\ (n - 1) + 1 = n
        BY <2>1, <3>2
      <4>2. pending'[Len(pending')] = pending[n]
        BY <2>4, <4>1
      <4>3. QED
        BY <2>1, <2>4, <3>2, <4>2 DEF FlagPending, n
    <3>3. QED
      BY <3>1, <3>2
  <2>8. ASSUME pending' # <<>>
        PROVE  Follows(FlagTaken, pending[1])'
    <3>1. 1 \in 1 .. (n - 1) /\ pending'[1] = pending[2]
      BY <2>1, <2>4, <2>8
    <3>2. Follows(pending[1].shift, pending[1 + 1])
      BY <3>1 DEF ShiftChain
    <3>3. QED
      BY <2>6, <3>1, <3>2 DEF Follows, c
  <2>9. ASSUME NEW i \in 1 .. (Len(pending') - 1)
        PROVE  Follows(pending'[i].shift, pending'[i + 1])
    <3>1. /\ i + 1 \in 1 .. (n - 1) /\ i \in 1 .. (n - 1)
          /\ pending'[i] = pending[i + 1] /\ pending'[i + 1] = pending[(i + 1) + 1]
      BY <2>1, <2>4
    <3>2. Follows(pending[i + 1].shift, pending[(i + 1) + 1])
      BY <3>1 DEF ShiftChain
    <3>3. QED
      BY <3>1, <3>2
  <2>10. /\ cpu' = "secondKey" => Follows("shift" \in mods, response'[1])
         /\ cpu' = "readKeys" /\ response' # <<>> =>
              /\ response'[1] # NoKey => Follows("shift" \in mods, response'[1])
              /\ response'[2] # NoKey => Follows(After("shift" \in mods, response'[1]), response'[2])
    <3>1. CASE cpu = "keyboard"
      <4>1. cpu' = "secondKey" /\ response' = <<c>>
        BY <1>1, <1>4, <2>4, <3>1 DEF TalkKeyboard
      <4>2. Follows("shift" \in mods, c)
        BY <2>5, <3>1 DEF FlagTaken, Follows
      <4>3. QED
        BY <4>1, <4>2
    <3>2. CASE cpu = "secondKey"
      <4>1. PICK r \in Codes : response = <<r>>
        BY <1>2, <3>2
      <4>2. /\ cpu' = "readKeys" /\ response' = <<r, c>>
            /\ response'[1] = r /\ response'[2] = c /\ response[1] = r
        <5>1. cpu' = "readKeys"
          BY <1>4, <3>2 DEF TalkKeyboard
        <5>2. QED
          BY <2>2, <2>4, <4>1, <5>1, SecondByte DEF Codes
      <4>3. Follows("shift" \in mods, r)
        BY <3>2, <4>2 DEF ShiftChain
      <4>4. Follows(After("shift" \in mods, r), c)
        BY <2>5, <3>2, <4>2 DEF FlagTaken, Follows
      <4>5. QED
        BY <4>2, <4>3, <4>4
    <3>3. QED
      BY <3>1, <3>2 DEF TalkKeyboard
  <2>11. QED
    BY <1>3, <2>7, <2>8, <2>9, <2>10
<1>5. CASE UNCHANGED pending
  <2>0. ASSUME FlagTaken' <=> FlagTaken
        PROVE  /\ FlagPending' <=> FlagPending
               /\ pending' # <<>> => Follows(FlagTaken, pending[1])'
               /\ \A i \in 1 .. (Len(pending') - 1) : Follows(pending[i].shift, pending[i + 1])'
    BY <1>5, <2>0 DEF FlagPending, ShiftChain, Follows
  <2>1. CASE cpu = "keyboard" /\ cpu' = "readKeys" /\ UNCHANGED response
    <3>1. response = <<>> /\ response' = <<>>
      BY <1>1, <2>1
    <3>2. FlagTaken' <=> FlagTaken
      BY <1>0, <2>1, <3>1 DEF FlagTaken
    <3>3. QED
      BY <1>3, <2>0, <2>1, <3>1, <3>2
  <2>2. CASE cpu = "secondKey" /\ cpu' = "readKeys" /\ response' = Append(response, NoKey)
    <3>1. PICK r \in Codes : response = <<r>>
      BY <1>2, <2>2
    <3>2. /\ response' = <<r, NoKey>>
          /\ response'[1] = r /\ response'[2] = NoKey /\ response[1] = r /\ response' # <<>>
      BY <2>2, <3>1, SecondByte DEF Codes
    <3>3. FlagTaken' <=> FlagTaken
      BY <1>0, <2>2, <3>2 DEF FlagTaken, After
    <3>4. Follows("shift" \in mods, r)
      BY <2>2, <3>2 DEF ShiftChain
    <3>5. QED
      BY <1>3, <2>0, <2>2, <3>2, <3>3, <3>4
  <2>3. CASE hasData /\ TakeKey
    BY <1>4, <2>3
  <2>4. QED
    BY <2>1, <2>2, <2>3 DEF TalkKeyboard
<1>6. QED
  BY <1>4, <1>5 DEF TalkKeyboard
\* The events of q carry the Shift flag of their keys.
ShiftsOf(q) ==
  \A i \in DOMAIN q :
    q[i].kind = "key" => (("shift" \in q[i].mods) <=> q[i].code.shift)

LEMMA ShiftUpdated ==
  ASSUME NEW m, NEW code \in Codes
  PROVE  "shift" \in UpdateModifiers(m, code)
           <=> (IF code.key \in Shifts THEN code.down ELSE "shift" \in m)
<1>1. CASE code.key \in Shifts /\ code.down
  <2>1. UpdateModifiers(m, code) = m \cup {"shift"}
    BY <1>1 DEF UpdateModifiers
  <2>2. QED
    BY <1>1, <2>1
<1>2. CASE code.key \in Shifts /\ ~code.down
  <2>1. UpdateModifiers(m, code) = m \ {"shift"}
    BY <1>2 DEF UpdateModifiers
  <2>2. QED
    BY <1>2, <2>1
<1>3. CASE code.key \notin Shifts
  <2>1. UpdateModifiers(m, code) \in {m, m \ {"caps"}, m \cup {"caps"}}
    BY <1>3 DEF UpdateModifiers
  <2>2. QED
    BY <1>3, <2>1
<1>4. QED
  BY <1>1, <1>2, <1>3

LEMMA KeyShift ==
  ASSUME NEW s \in OsStates, NEW code \in Codes, Len(s.queue) < QueueSize,
         code # NoKey => Follows("shift" \in s.mods, code),
         ShiftsOf(s.queue)
  PROVE  /\ ("shift" \in ProcessKey(s, code).mods) <=> After("shift" \in s.mods, code)
         /\ ShiftsOf(ProcessKey(s, code).queue)
<1> DEFINE t == ProcessKey(s, code)
           m == UpdateModifiers(s.mods, code)
           e == KeyEvent(code, m)
<1>1. /\ t.mods = IF code = NoKey THEN s.mods ELSE m
      /\ \/ t.queue = s.queue
         \/ code # NoKey /\ t.queue = Append(s.queue, e)
  BY KeyProcessed
<1>2. code # NoKey => ("shift" \in m <=> code.shift)
  BY ShiftUpdated DEF Follows
<1>3. e.mods = m /\ e.code = code
  BY DEF KeyEvent
<1> HIDE DEF t, m, e
<1>4. ("shift" \in t.mods) <=> After("shift" \in s.mods, code)
  BY <1>1, <1>2 DEF After
<1>5. ShiftsOf(t.queue)
  <2>1. CASE t.queue = s.queue
    BY <2>1
  <2>2. CASE code # NoKey /\ t.queue = Append(s.queue, e)
    <3>1. s.queue \in Seq(QueuedEvents)
      BY DEF OsStates
    <3>2. \A i \in DOMAIN t.queue :
            t.queue[i] = e \/ (i \in DOMAIN s.queue /\ t.queue[i] = s.queue[i])
      BY <2>2, <3>1
    <3>3. QED
      BY <1>2, <1>3, <2>2, <3>2 DEF ShiftsOf
  <2>3. QED
    BY <1>1, <2>1, <2>2
<1>6. QED
  BY <1>4, <1>5 DEF t

LEMMA ReadKeysShift ==
  ASSUME RingInv, Sound, ShiftChain, ShiftAtEvent, ShiftsKept, ReadKeys,
         UNCHANGED <<userVars, host>>
  PROVE  ShiftChain' /\ ShiftAtEvent'
<1>0. /\ OsState \in OsStates /\ OsState.queue = queue /\ OsState.mods = mods
      /\ Len(queue) < QueueSize /\ cpu = "readKeys" /\ cpu' = "mouse"
      /\ UNCHANGED <<events, tail, pending, held, host>>
  BY DEF Sound, VarTypes, QueueRoom, OsState, ReadKeys, kbdVars, userVars
<1>1. ShiftsOf(queue)
  BY DEF ShiftAtEvent, ShiftsKept, ShiftsOf
<1>2. (("shift" \in mods') <=> FlagTaken) /\ ShiftsOf(queue')
  <2>1. CASE hasResponse
    <3>1. PICK c \in Codes, d \in Codes : response = <<c, d>>
      BY <1>0, <2>1 DEF Sound, Answered, hasResponse
    <3>2. response # <<>> /\ response[1] = c /\ response[2] = d
      BY <3>1, SecondByte
    <3> DEFINE s == ProcessKey(OsState, c)
               t == ProcessKey(s, d)
    <3>3. /\ c # NoKey => Follows("shift" \in mods, c)
          /\ d # NoKey => Follows(After("shift" \in mods, c), d)
      BY <1>0, <3>2 DEF ShiftChain
    <3>4. s \in OsStates /\ Len(s.queue) < QueueSize
      BY <1>0, KeyProcessed
    <3>5. (("shift" \in s.mods) <=> After("shift" \in mods, c)) /\ ShiftsOf(s.queue)
      BY <1>0, <1>1, <3>3, KeyShift
    <3>6. mods' = t.mods /\ queue' = t.queue
      BY <2>1, <3>2 DEF ReadKeys
    <3> HIDE DEF s
    <3>7. d # NoKey => Follows("shift" \in s.mods, d)
      BY <3>3, <3>5 DEF Follows
    <3>8. (("shift" \in t.mods) <=> After("shift" \in s.mods, d)) /\ ShiftsOf(t.queue)
      BY <3>4, <3>5, <3>7, KeyShift
    <3>9. FlagTaken <=> After(After("shift" \in mods, c), d)
      BY <1>0, <3>2 DEF FlagTaken
    <3>10. After("shift" \in s.mods, d) <=> After(After("shift" \in mods, c), d)
      BY <3>5 DEF After
    <3>11. QED
      BY <3>6, <3>8, <3>9, <3>10
  <2>2. CASE ~hasResponse
    <3>1. response = <<>> /\ mods' = mods /\ queue' = queue
      BY <1>0, <2>2 DEF ReadKeys, hasResponse
    <3>2. QED
      BY <1>0, <1>1, <3>1 DEF FlagTaken
  <2>3. QED
    BY <2>1, <2>2
<1>3. FlagTaken' <=> FlagTaken
  BY <1>0, <1>2 DEF FlagTaken
<1>4. FlagPending' <=> FlagPending
  BY <1>0, <1>3 DEF FlagPending
<1>5. FlagStored' <=> FlagStored
  BY <1>0, <1>4 DEF FlagStored
<1>6. ShiftChain'
  BY <1>0, <1>3, <1>4, <1>5 DEF ShiftChain, Follows
<1>7. QED
  BY <1>2, <1>6 DEF ShiftAtEvent, ShiftsOf

\* SendReset meets no key; what follows it does not disturb the chain.
LEMMA ResetShift ==
  ASSUME RingInv, Sound, BeforeInput, ShiftChain, Reset, UNCHANGED <<userVars, host, osVars>>,
         ShiftsKept'
  PROVE  ShiftChain'
<1>0. /\ UNCHANGED <<events, held, mods, host>> /\ cpu \in ResetSteps
      /\ cpu' \in ResetSteps \cup {"ready"} /\ response' = response
  BY DEF Reset, userVars, osVars, ResetSteps, Sound, Answered, QuietSteps, kbdVars
<1>1. CASE cpu = "reset"
  <2>1. inputs = 0
    <3>1. lost' = lost \cup (IF HandlerInMouse THEN {"race"} ELSE {})
                       \cup (IF inputs > 0 THEN {"reset"} ELSE {})
      BY <1>1 DEF Reset
    <3>2. inputs \in Nat /\ "reset" \notin lost'
      BY DEF RingInv, RingType, ShiftsKept
    <3>3. QED
      BY <3>1, <3>2
  <2>2. host.pc # "publish" /\ held = {} /\ mods = {} /\ pending' = <<>>
    BY <1>1, <2>1 DEF RingInv, BeforeReady, BeforeInput, Reset, ResetSteps
  <2>3. ~FlagTaken' /\ ~FlagStored'
    BY <1>0, <2>2 DEF FlagTaken, FlagPending, FlagStored, ResetSteps
  <2>4. \A i \in 1 .. (Len(pending') - 1) : FALSE
    <3>1. Len(pending') = 0 /\ \A i \in 1 .. (0 - 1) : FALSE
      BY <2>2
    <3>2. QED
      BY <3>1
  <2>5. QED
    BY <1>0, <2>2, <2>3, <2>4 DEF ShiftChain, ResetSteps
<1>2. CASE cpu # "reset"
  <2>1. UNCHANGED <<tail, pending>>
    BY <1>2 DEF Reset, kbdVars
  <2>2. QED
    BY <1>0, <2>1, ChainUntouched DEF ResetSteps
<1>3. QED
  BY <1>1, <1>2

LEMMA ProgramShift ==
  ASSUME RingInv, Sound, BeforeInput, ShiftChain, ShiftsOf(queue),
         Ready \/ ReadMouse \/ HandleEvent \/ Loop, UNCHANGED <<userVars, host>>
  PROVE  ShiftChain' /\ ShiftsOf(queue')
<1>1. UNCHANGED <<events, tail, pending, held, host>>
  BY DEF Ready, ReadMouse, HandleEvent, Loop, kbdVars, userVars
<1>2. mods' = mods
  BY DEF Ready, ReadMouse, HandleEvent, Loop, BeforeInput
<1>3. cpu \in {"ready", "readMouse", "handle"} /\ cpu' \in {"keyboard", "handle", "stopped"}
  BY DEF Ready, ReadMouse, HandleEvent, Loop
<1>4. ShiftChain'
  BY <1>1, <1>2, <1>3, ChainUntouched
<1>5. OsState \in OsStates /\ queue \in Seq(QueuedEvents) /\ Len(queue) < QueueSize
      /\ OsState.queue = queue
  BY DEF Sound, VarTypes, QueueRoom, OsState, OsStates
<1>6. ShiftsOf(queue')
  <2>1. CASE UNCHANGED queue
    BY <2>1 DEF ShiftsOf
  <2>2. CASE queue # <<>> /\ queue' = Tail(queue)
    <3> DEFINE n == Len(queue)
    <3>1. /\ n \in Nat \ {0} /\ Len(Tail(queue)) = n - 1
          /\ \A i \in 1 .. (n - 1) : Tail(queue)[i] = queue[i + 1]
          /\ Tail(queue) \in Seq(QueuedEvents)
      BY <1>5, <2>2, TailOfSeq
    <3>2. DOMAIN queue' = 1 .. (n - 1) /\ DOMAIN queue = 1 .. n
      BY <1>5, <2>2, <3>1
    <3> HIDE DEF n
    <3>3. \A i \in 1 .. (n - 1) : i + 1 \in 1 .. n
      BY <3>1
    <3>4. QED
      BY <2>2, <3>1, <3>2, <3>3 DEF ShiftsOf
  <2>3. CASE ReadMouse /\ hasResponse
    <3>1. PICK p \in BOOLEAN, b \in Sevens : response = <<p, b>>
      BY <2>3 DEF Sound, Answered, ReadMouse, hasResponse
    <3>2. Decode7(b) \in Int
      BY HalfSize DEF Decode7, Sevens
    <3>3. queue' = ProcessMouse(OsState, p, Decode7(b)).queue
      BY <2>3, <3>1 DEF ReadMouse
    <3>4. \A i \in DOMAIN queue' :
            queue'[i].kind = "key" => i \in DOMAIN queue /\ queue'[i] = queue[i]
      BY <1>5, <3>2, <3>3, MouseProcessed
    <3>5. QED
      BY <3>4 DEF ShiftsOf
  <2>4. QED
    BY <2>1, <2>2, <2>3 DEF Ready, ReadMouse, HandleEvent, Loop
<1>7. QED
  BY <1>4, <1>6

LEMMA NextBeforeInput == RingInv /\ BeforeInput /\ [Next]_vars => BeforeInput'
<1> SUFFICES ASSUME RingInv, BeforeInput, [Next]_vars PROVE BeforeInput'
  OBVIOUS
<1>0. inputs \in Nat
  BY DEF RingInv, RingType
<1>1. CASE CpuNext
  <2>1. UNCHANGED <<held, inputs>>
    BY <1>1 DEF CpuNext, ControllerNext, userVars
  <2>2. cpu' \in ResetSteps \cup {"ready"} => mods' = {}
    BY <1>1 DEF CpuNext, ControllerNext, Reset, TalkKeyboard, TalkMouse, Ready, ReadKeys, ReadMouse,
                HandleEvent, Loop, osVars, BeforeInput, ResetSteps
  <2>3. QED
    BY <2>1, <2>2 DEF BeforeInput
<1>2. CASE HostNext /\ UNCHANGED osVars
  <2>1. UNCHANGED <<cpu, mods>>
    BY <1>2 DEF HostNext, HostFinishes, PlainKey, FlagsChanged, KeyInput, KeyPublish, MouseMove,
                MoveStore, MouseButton, MouseFlag, osVars
  <2>2. UNCHANGED <<held, inputs>> \/ inputs' = inputs + 1
    BY <1>2 DEF HostNext, HostFinishes, PlainKey, FlagsChanged, KeyInput, KeyPublish, MouseMove,
                MoveStore, MouseButton, MouseFlag, userVars, Input
  <2>3. inputs + 1 # 0
    BY <1>0
  <2>4. QED
    BY <2>1, <2>2, <2>3 DEF BeforeInput
<1>3. CASE UNCHANGED vars
  BY <1>3 DEF vars, userVars, osVars, BeforeInput
<1>4. QED
  BY <1>1, <1>2, <1>3 DEF Next

LEMMA LostNeverFound ==
  ASSUME Sound, [Next]_vars
  PROVE  lost \subseteq lost'
<1>1. CASE CpuNext
  BY <1>1, LostGrows
<1>2. CASE HostNext
  BY <1>2 DEF HostNext, HostFinishes, PlainKey, FlagsChanged, KeyInput, KeyStore, KeyPublish,
              MouseMove, MoveStore, MouseButton, MouseFlag
<1>3. CASE UNCHANGED vars
  BY <1>3 DEF vars
<1>4. QED
  BY <1>1, <1>2, <1>3 DEF Next

LEMMA NextShift == RingInv /\ Sound /\ ShiftInv /\ [Next]_vars => ShiftInv'
<1> SUFFICES ASSUME RingInv, Sound, ShiftInv, [Next]_vars, ShiftsKept'
             PROVE  ShiftChain' /\ ShiftAtEvent'
  BY NextBeforeInput DEF ShiftInv
<1>0. BeforeInput
  BY DEF ShiftInv
<1>1. lost \subseteq lost'
  BY LostNeverFound
<1>2. ShiftsKept /\ "reset" \notin lost /\ "ring" \notin lost'
  BY <1>1 DEF ShiftsKept
<1>3. ShiftChain /\ ShiftAtEvent /\ ShiftsOf(queue)
  BY <1>2 DEF ShiftInv, ShiftAtEvent, ShiftsKept, ShiftsOf
<1>4. ShiftsOf(queue') => ShiftAtEvent'
  BY DEF ShiftAtEvent, ShiftsOf
<1>5. UNCHANGED queue => ShiftsOf(queue')
  BY <1>3 DEF ShiftsOf
<1>6. CASE HostNext /\ UNCHANGED osVars
  BY <1>2, <1>3, <1>4, <1>5, <1>6, HandlersChain DEF osVars
<1>7. CASE ControllerNext /\ UNCHANGED osVars
  <2>1. CASE Reset
    BY <1>0, <1>3, <1>4, <1>5, <1>7, <2>1, ResetShift DEF ControllerNext, osVars
  <2>2. CASE TalkKeyboard
    BY <1>2, <1>3, <1>4, <1>5, <1>7, <2>2, TalkKeyboardChain DEF ControllerNext, osVars
  <2>3. CASE TalkMouse /\ UNCHANGED kbdVars
    <3>1. /\ UNCHANGED <<events, tail, pending, mods, held, host, queue>>
          /\ cpu \in {"mouse", "dx", "button", "clearDx", "clearMoved"}
          /\ cpu' \in {"dx", "readMouse", "button", "clearDx", "clearMoved"}
      BY <1>7, <2>3 DEF ControllerNext, TalkMouse, kbdVars, userVars, osVars
    <3>2. QED
      BY <1>3, <1>4, <1>5, <3>1, ChainUntouched
  <2>4. QED
    BY <1>7, <2>1, <2>2, <2>3 DEF ControllerNext
<1>8. CASE ReadKeys /\ UNCHANGED <<userVars, host>>
  BY <1>2, <1>3, <1>8, ReadKeysShift
<1>9. CASE (Ready \/ ReadMouse \/ HandleEvent \/ Loop) /\ UNCHANGED <<userVars, host>>
  BY <1>0, <1>3, <1>4, <1>9, ProgramShift
<1>10. CASE UNCHANGED vars
  BY <1>3, <1>4, <1>5, <1>10, ChainUntouched DEF vars, kbdVars, userVars, osVars
<1>11. QED
  BY <1>6, <1>7, <1>8, <1>9, <1>10 DEF Next, CpuNext

\* "modifier flags at time of event" (EventManager.Mod:24): as long as no key was
\* dropped, the Shift flag of a queued key event is the one the host had when the
\* key was struck, for any number of Shift keys that share the bit, any size of
\* the rings and any interleaving of flagsChanged: with Poll.
THEOREM ShiftFlagIsOfTheKey == Spec => []ShiftAtEvent
<1>1. RingInv /\ Sound /\ ShiftInv => ShiftAtEvent
  BY DEF ShiftInv, ShiftAtEvent, ShiftsKept
<1>2. QED
  BY <1>1, InitRing, InitSound, InitShift, NextKeepsRing, NextSound, NextShift, PTL DEF Spec
-----------------------------------------------------------------------------
(* The motion.  Without an overlap and without a clamp, dx and what a handler *)
(* is about to store there are all of it that no report carries yet.        *)

Motion == IF host.pc = "store" THEN host.val ELSE dx

MotionKept == lost \cap {"race", "clamp"} = {}

\* While the CPU is in the mouse no handler is; and what was reported and not yet
\* read is what has been taken off dx.
MotionBalance ==
  /\ cpu \in MouseWindow => ~HandlerInMouse
  /\ cpu \notin {"clearMoved", "readMouse"} => owed = Motion
  /\ cpu = "button" => response[1] = Encode7(dx) /\ -Half <= dx /\ dx < Half
  /\ cpu = "clearDx" => response[2] = Encode7(dx) /\ -Half <= dx /\ dx < Half
  /\ cpu = "clearMoved" \/ (cpu = "readMouse" /\ response # <<>>) =>
       LET d == owed - Motion
       IN  response[2] = Encode7(d) /\ -Half <= d /\ d < Half
  /\ cpu = "readMouse" /\ response = <<>> => owed = Motion

MotionInv == MotionKept => MotionBalance

\* The seven bits of a report give the motion back.
LEMMA SevenBits ==
  ASSUME NEW d \in Int, -Half <= d, d < Half
  PROVE  Decode7(Encode7(d)) = d
<1>1. CASE d >= 0
  <2>1. d % (2 * Half) = d
    BY <1>1, HalfSize, ModBelow
  <2>2. QED
    BY <1>1, <2>1, HalfSize DEF Decode7, Encode7
<1>2. CASE d < 0
  <2>1. d % (2 * Half) = d + 2 * Half
    BY <1>2, HalfSize, ModMinus
  <2>2. QED
    BY <1>2, <2>1, HalfSize DEF Decode7, Encode7
<1>3. QED
  BY <1>1, <1>2

LEMMA InitMotion == Init => MotionInv
  BY DEF Init, ControllerInit, Idle, MotionInv, MotionBalance, Motion, HandlerInMouse

LEMMA HandlersMotion ==
  ASSUME Sound, MotionBalance, HostNext, UNCHANGED osVars, MotionKept'
  PROVE  MotionBalance'
<1>0. /\ cpu' = cpu /\ response' = response /\ dx \in Int /\ owed \in Int
  BY DEF Sound, VarTypes, HostNext, HostFinishes, PlainKey, FlagsChanged, KeyInput, KeyPublish,
         MouseMove, MoveStore, MouseButton, MouseFlag
<1>1. ASSUME dx' = dx, HandlerInMouse' => cpu \notin MouseWindow, Motion \in Int,
             NEW m \in Int, Motion' = Motion + m, owed' = owed + m
      PROVE  MotionBalance'
  <2>1. cpu \in MouseWindow => ~HandlerInMouse'
    BY <1>1
  <2>2. owed' - Motion' = owed - Motion /\ (owed = Motion => owed' = Motion')
    <3>1. \A a, b \in Int : (a + m) - (b + m) = a - b
      OBVIOUS
    <3>2. QED
      BY <1>0, <1>1, <3>1, Zenon
  <2>3. QED
    BY <1>0, <1>1, <2>1, <2>2 DEF MotionBalance
<1>2. CASE (\E k \in PlainKeys : PlainKey(k)) \/ (\E k \in Shifts \cup Locks : FlagsChanged(k))
           \/ KeyPublish
  <2>1. /\ UNCHANGED <<dx, owed>>
        /\ host.pc \in {"idle", "publish"} /\ host'.pc \in {"idle", "publish"}
    <3>1. ASSUME NEW code, KeyInput(code)
          PROVE  /\ UNCHANGED <<dx, owed>>
                 /\ host.pc \in {"idle", "publish"} /\ host'.pc \in {"idle", "publish"}
      BY <3>1 DEF KeyInput, KeyStore, Input, Idle, mouseVars
    <3>2. CASE KeyPublish
      BY <3>2 DEF KeyPublish, Idle, mouseVars
    <3>3. KeyPublish \/ \E code : KeyInput(code)
      BY <1>2 DEF PlainKey, FlagsChanged
    <3>4. QED
      BY <3>1, <3>2, <3>3
  <2>2. Motion = dx /\ Motion' = dx' /\ ~HandlerInMouse'
    BY <2>1 DEF Motion, HandlerInMouse
  <2>3. Motion' = Motion + 0 /\ owed' = owed + 0
    BY <1>0, <2>1, <2>2
  <2>4. QED
    BY <1>0, <1>1, <2>1, <2>2, <2>3
<1>3. ASSUME NEW m \in Moves, MouseMove(m)
      PROVE  MotionBalance'
  <2>1. m \in Int
    BY ControllerConstants
  <2>2. cpu \notin MouseWindow
    BY <1>3 DEF MouseMove, Raced, MotionKept
  <2>3. Motion = dx /\ Motion' = dx + m /\ owed' = owed + m /\ dx' = dx
    BY <1>3 DEF MouseMove, Input, Idle, Motion
  <2>4. QED
    BY <1>0, <1>1, <2>1, <2>2, <2>3
<1>4. CASE MouseButton
  <2>1. cpu \notin MouseWindow
    BY <1>4 DEF MouseButton, Raced, MotionKept
  <2>2. Motion = dx /\ Motion' = dx + 0 /\ owed' = owed + 0 /\ dx' = dx
    BY <1>0, <1>4 DEF MouseButton, Input, Idle, Motion
  <2>3. QED
    BY <1>0, <1>1, <2>1, <2>2
<1>5. CASE MoveStore
  <2>1. cpu \notin MouseWindow
    BY <1>5 DEF MoveStore, MotionBalance, HandlerInMouse
  <2>2. Motion = host.val /\ Motion' = host.val /\ owed' = owed
    BY <1>5 DEF MoveStore, Motion
  <2>3. QED
    BY <1>0, <2>1, <2>2 DEF MotionBalance, MouseWindow
<1>6. CASE MouseFlag
  <2>1. Motion = dx /\ Motion' = dx + 0 /\ owed' = owed + 0 /\ dx' = dx /\ ~HandlerInMouse'
    BY <1>0, <1>6 DEF MouseFlag, Motion, Idle, HandlerInMouse
  <2>2. QED
    BY <1>0, <1>1, <2>1
<1>7. QED
  BY <1>2, <1>3, <1>4, <1>5, <1>6 DEF HostNext, HostFinishes

LEMMA ResetMotion ==
  ASSUME Sound, MotionBalance, Reset, UNCHANGED <<host, osVars>>, MotionKept'
  PROVE  MotionBalance'
<1>1. ~HandlerInMouse /\ ~HandlerInMouse'
  BY DEF Reset, MotionKept, MotionBalance, MouseWindow, HandlerInMouse
<1>2. Motion = dx /\ Motion' = dx'
  BY <1>1 DEF Motion, HandlerInMouse
<1>3. owed = Motion
  BY DEF MotionBalance, Reset
<1>4. owed' = dx'
  BY <1>2, <1>3 DEF Reset, mouseVars
<1>5. cpu' \in {"resetHead", "resetDx", "resetButton", "resetMoved", "ready"}
  BY DEF Reset
<1>6. QED
  BY <1>1, <1>2, <1>4, <1>5 DEF MotionBalance

LEMMA TalkMouseMotion ==
  ASSUME Sound, MotionBalance, TalkMouse, UNCHANGED <<kbdVars, host, osVars>>, MotionKept'
  PROVE  MotionBalance'
<1>0. dx \in Int /\ owed \in Int
  BY DEF Sound, VarTypes
<1>1. CASE cpu = "mouse" /\ cpu' = "dx"
  <2>1. ~HandlerInMouse' /\ UNCHANGED <<dx, owed>>
    BY <1>1 DEF TalkMouse, MotionKept, HandlerInMouse, mouseVars
  <2>2. QED
    BY <1>1, <2>1 DEF MotionBalance, Motion
<1>2. CASE cpu = "mouse" /\ cpu' = "readMouse"
  <2>1. response' = <<>> /\ UNCHANGED <<dx, owed>>
    BY <1>2 DEF TalkMouse, mouseVars, Sound, Answered, QuietSteps
  <2>2. QED
    BY <1>2, <2>1 DEF MotionBalance, Motion, MouseWindow
<1>3. ASSUME cpu \in MouseWindow
      PROVE  /\ ~HandlerInMouse /\ ~HandlerInMouse'
             /\ Motion = dx /\ Motion' = dx'
  BY <1>3 DEF MotionBalance, HandlerInMouse, Motion
<1>4. CASE cpu = "dx"
  <2>1. /\ cpu' = "button" /\ response' = <<Encode7(Clamp(dx))>> /\ UNCHANGED <<dx, owed>>
        /\ Clamp(dx) = dx
    BY <1>4 DEF TalkMouse, MotionKept, mouseVars
  <2>2. -Half <= dx /\ dx < Half
    BY <1>0, <2>1, HalfSize DEF Clamp
  <2>3. Encode7(dx)' = Encode7(dx)
    BY <2>1 DEF Encode7
  <2>4. response'[1] = Encode7(dx)
    BY <2>1
  <2>5. cpu \in MouseWindow
    BY <1>4 DEF MouseWindow
  <2>6. owed = dx
    BY <1>3, <1>4, <2>5 DEF MotionBalance
  <2>7. QED
    BY <1>3, <2>1, <2>2, <2>3, <2>4, <2>5, <2>6 DEF MotionBalance
<1>5. CASE cpu = "button"
  <2>1. PICK b \in Sevens : response = <<b>>
    BY <1>5 DEF Sound, Answered
  <2>2. /\ cpu' = "clearDx" /\ response' = <<button, b>> /\ UNCHANGED <<dx, owed>>
        /\ response[1] = b
    BY <1>5, <2>1 DEF TalkMouse, mouseVars
  <2>3. b = Encode7(dx) /\ -Half <= dx /\ dx < Half /\ owed = Motion
    BY <1>5, <2>2 DEF MotionBalance
  <2>4. response'[2] = b
    BY <2>2
  <2>5. cpu \in MouseWindow
    BY <1>5 DEF MouseWindow
  <2>6. Encode7(dx)' = Encode7(dx)
    BY <2>2 DEF Encode7
  <2>7. QED
    BY <1>3, <2>2, <2>3, <2>4, <2>5, <2>6 DEF MotionBalance
<1>6. CASE cpu = "clearDx"
  <2>1. cpu' = "clearMoved" /\ response' = response /\ dx' = 0 /\ owed' = owed
    BY <1>6 DEF TalkMouse
  <2>2. response[2] = Encode7(dx) /\ -Half <= dx /\ dx < Half /\ owed = Motion
    BY <1>6 DEF MotionBalance
  <2>3. cpu \in MouseWindow
    BY <1>6 DEF MouseWindow
  <2>4. owed' - Motion' = dx
    BY <1>0, <1>3, <2>1, <2>2, <2>3
  <2>5. QED
    BY <1>3, <2>1, <2>2, <2>3, <2>4 DEF MotionBalance, Encode7
<1>7. CASE cpu = "clearMoved"
  <2>1. cpu' = "readMouse" /\ response' = response /\ dx' = dx /\ owed' = owed
    BY <1>7 DEF TalkMouse
  <2>2. response # <<>>
    <3>1. \E p \in BOOLEAN, b \in Sevens : response = <<p, b>>
      BY <1>7 DEF Sound, Answered
    <3>2. QED
      BY <3>1
  <2>3. cpu \in MouseWindow
    BY <1>7 DEF MouseWindow
  <2>4. QED
    BY <1>3, <1>7, <2>1, <2>2, <2>3 DEF MotionBalance, Encode7, MouseWindow
<1>8. QED
  BY <1>1, <1>2, <1>4, <1>5, <1>6, <1>7 DEF TalkMouse

LEMMA ReadMouseMotion ==
  ASSUME Sound, MotionBalance, ReadMouse, UNCHANGED <<userVars, host>>
  PROVE  MotionBalance'
<1>0. /\ cpu = "readMouse" /\ cpu' = "handle" /\ UNCHANGED <<dx, host>>
      /\ dx \in Int /\ owed \in Int /\ (host.pc = "store" => host.val \in Int)
  BY DEF Sound, VarTypes, ReadMouse
<1>1. Motion' = Motion /\ Motion \in Int
  BY <1>0 DEF Motion
<1>2. owed' = Motion
  <2>1. CASE hasResponse
    <3>1. PICK p \in BOOLEAN, b \in Sevens : response = <<p, b>>
      BY <1>0, <2>1 DEF Sound, Answered, hasResponse
    <3> DEFINE d == owed - Motion
    <3>2. response # <<>> /\ response[2] = b
      BY <2>1, <3>1 DEF hasResponse
    <3>3. b = Encode7(d) /\ -Half <= d /\ d < Half /\ d \in Int
      BY <1>0, <1>1, <3>2 DEF MotionBalance
    <3>4. owed' = owed - Decode7(b)
      BY <2>1, <3>1 DEF ReadMouse
    <3>5. Decode7(b) = d
      BY <3>3, SevenBits
    <3>6. QED
      BY <1>0, <1>1, <3>4, <3>5
  <2>2. CASE ~hasResponse
    BY <1>0, <2>2 DEF ReadMouse, hasResponse, MotionBalance
  <2>3. QED
    BY <2>1, <2>2
<1>3. QED
  BY <1>0, <1>1, <1>2 DEF MotionBalance, MouseWindow

LEMMA NextMotion == Sound /\ MotionInv /\ [Next]_vars => MotionInv'
<1> SUFFICES ASSUME Sound, MotionInv, [Next]_vars, MotionKept'
             PROVE  MotionBalance'
  BY DEF MotionInv
<1>1. lost \subseteq lost'
  BY LostNeverFound
<1>2. MotionBalance
  BY <1>1 DEF MotionKept, MotionInv
<1>3. CASE HostNext /\ UNCHANGED osVars
  BY <1>2, <1>3, HandlersMotion
<1>4. CASE ControllerNext /\ UNCHANGED osVars
  <2>1. CASE Reset
    BY <1>2, <1>4, <2>1, ResetMotion DEF ControllerNext
  <2>2. CASE TalkKeyboard
    <3>1. /\ UNCHANGED <<dx, owed, host>> /\ cpu \in {"keyboard", "secondKey"}
          /\ cpu' \in {"secondKey", "readKeys"}
      BY <1>4, <2>2 DEF ControllerNext, TalkKeyboard, mouseVars
    <3>2. QED
      BY <1>2, <3>1 DEF MotionBalance, Motion, MouseWindow
  <2>3. CASE TalkMouse /\ UNCHANGED kbdVars
    BY <1>2, <1>4, <2>3, TalkMouseMotion DEF ControllerNext
  <2>4. QED
    BY <1>4, <2>1, <2>2, <2>3 DEF ControllerNext
<1>5. CASE ReadMouse /\ UNCHANGED <<userVars, host>>
  BY <1>2, <1>5, ReadMouseMotion
<1>6. CASE (Ready \/ ReadKeys \/ HandleEvent \/ Loop) /\ UNCHANGED <<userVars, host>>
  <2>1. /\ UNCHANGED <<dx, owed, host>> /\ cpu \in {"ready", "readKeys", "handle"}
        /\ cpu' \in {"keyboard", "mouse", "handle", "stopped"}
    BY <1>6 DEF Ready, ReadKeys, HandleEvent, Loop, mouseVars
  <2>2. QED
    BY <1>2, <2>1 DEF MotionBalance, Motion, MouseWindow
<1>7. CASE UNCHANGED vars
  BY <1>2, <1>7 DEF vars, mouseVars, MotionBalance, Motion, HandlerInMouse, Encode7
<1>8. QED
  BY <1>3, <1>4, <1>5, <1>6, <1>7 DEF Next, CpuNext

\* TALK Register 0 of the mouse (ADB_Controller.cpp) clears what it reports, and
\* mouseMoved: adds to it on the other thread without a lock: unless a handler
\* overlapped the reading or a report was clamped, every motion the user made is
\* either reported, through the seven bits and back, or still in dx.
THEOREM MotionNeverLost == Spec => []MotionConserved
<1>1. Sound /\ MotionInv => MotionConserved
  BY DEF MotionInv, MotionKept, MotionBalance, Motion, MotionConserved, MouseQuiet, MouseWindow,
         Idle
<1>2. QED
  BY <1>1, InitRing, InitSound, InitMotion, NextKeepsRing, NextSound, NextMotion, PTL DEF Spec
=============================================================================
