--------------------------- MODULE Devices_proofs ---------------------------
(***************************************************************************)
(* Keys stay in the order of typing, for any keys and any size of the      *)
(* buffer; the NVRAM survives in its file, for any size of it; a display   *)
(* of any size shows what the guest wrote; the instructions are right in   *)
(* any width; and side by side the devices keep what they keep alone.      *)
(***************************************************************************)
EXTENDS MC_Devices, Disk_proofs, Bus_proofs, Stack_proofs, Timer_proofs, Breakpoints_proofs,
        TLAPS

\* The numbers of the events in a buffer go up, between two bounds.
Rising(buf, low, high) ==
  /\ \A i \in 1 .. Len(buf) : low < buf[i].at /\ buf[i].at <= high
  /\ \A i, j \in 1 .. Len(buf) : i < j => buf[i].at < buf[j].at

\* What the guest holds is older than all that waits.
KInv ==
  /\ KeyboardTypeOK
  /\ Rising(keyboard.keybuffer, keyboard.reg.at, events)
  /\ keyboard.reg.at <= events

USE KeyboardAssumption

-----------------------------------------------------------------------------
\* An event has a number.
LEMMA EventNumbers == ASSUME NEW e \in EventType PROVE e.at \in Nat
  BY DEF EventType

\* A new event goes to the end.
LEMMA AppendRises ==
  ASSUME NEW buf \in Seq(EventType), NEW e \in EventType, NEW low \in Nat,
         NEW high \in Nat, Rising(buf, low, high), low <= high, e.at = high + 1
  PROVE  /\ Append(buf, e) \in Seq(EventType)
         /\ Len(Append(buf, e)) = Len(buf) + 1
         /\ Rising(Append(buf, e), low, high + 1)
<1> DEFINE n == Len(buf)
<1>1. /\ Append(buf, e) \in Seq(EventType) /\ n \in Nat
      /\ Len(Append(buf, e)) = n + 1
      /\ \A i \in 1 .. n : Append(buf, e)[i] = buf[i]
      /\ Append(buf, e)[n + 1] = e
  OBVIOUS
<1>2. \A i \in 1 .. n : buf[i].at \in Nat
  BY EventNumbers
<1> HIDE DEF n
<1>3. \A i \in 1 .. n + 1 : i \in 1 .. n \/ i = n + 1
  BY <1>1
<1>4. \A i \in 1 .. n : low < buf[i].at /\ buf[i].at <= high
  BY DEF Rising, n
<1>5. \A i, j \in 1 .. n : i < j => buf[i].at < buf[j].at
  BY DEF Rising, n
<1>6. \A i \in 1 .. n + 1 :
        low < Append(buf, e)[i].at /\ Append(buf, e)[i].at <= high + 1
  BY <1>1, <1>2, <1>3, <1>4
<1>7. \A i, j \in 1 .. n + 1 : i < j => Append(buf, e)[i].at < Append(buf, e)[j].at
  <2> SUFFICES ASSUME NEW i \in 1 .. n + 1, NEW j \in 1 .. n + 1, i < j
               PROVE  Append(buf, e)[i].at < Append(buf, e)[j].at
    OBVIOUS
  <2>1. i \in 1 .. n
    BY <1>1
  <2>2. CASE j \in 1 .. n
    BY <2>1, <2>2, <1>1, <1>5
  <2>3. CASE j = n + 1
    BY <2>1, <2>3, <1>1, <1>2, <1>4
  <2> QED
    BY <2>2, <2>3, <1>3
<1> QED
  BY <1>1, <1>6, <1>7 DEF Rising

\* Without its first event a buffer begins after it.
LEMMA TailRises ==
  ASSUME NEW buf \in Seq(EventType), buf # << >>, NEW low \in Nat, NEW high \in Nat,
         Rising(buf, low, high)
  PROVE  /\ Tail(buf) \in Seq(EventType) /\ Len(Tail(buf)) = Len(buf) - 1
         /\ Head(buf) \in EventType /\ low < Head(buf).at /\ Head(buf).at <= high
         /\ Rising(Tail(buf), Head(buf).at, high)
         /\ Rising(Tail(buf), low, high)
<1> DEFINE n == Len(buf)
<1>1. /\ Tail(buf) \in Seq(EventType) /\ n \in Nat \ {0}
      /\ Len(Tail(buf)) = n - 1 /\ Head(buf) = buf[1] /\ Head(buf) \in EventType
      /\ \A i \in 1 .. n - 1 : Tail(buf)[i] = buf[i + 1]
  OBVIOUS
<1>2. \A i \in 1 .. n : buf[i].at \in Nat
  BY EventNumbers
<1> HIDE DEF n
<1>3. \A i \in 1 .. n : low < buf[i].at /\ buf[i].at <= high
  BY DEF Rising, n
<1>4. \A i, j \in 1 .. n : i < j => buf[i].at < buf[j].at
  BY DEF Rising, n
<1>5. 1 \in 1 .. n /\ \A i \in 1 .. n - 1 : i + 1 \in 1 .. n /\ 1 < i + 1
  BY <1>1
<1>6. \A i \in 1 .. n - 1 : Head(buf).at < Tail(buf)[i].at /\ low < Tail(buf)[i].at
                              /\ Tail(buf)[i].at <= high
  BY <1>1, <1>3, <1>4, <1>5
<1>7. \A i, j \in 1 .. n - 1 : i < j => Tail(buf)[i].at < Tail(buf)[j].at
  BY <1>1, <1>4, <1>5
<1> QED
  BY <1>1, <1>3, <1>5, <1>6, <1>7 DEF Rising, n

\* The event the guest took goes back to the front.
LEMMA FrontRises ==
  ASSUME NEW buf \in Seq(EventType), NEW e \in EventType, NEW high \in Nat,
         Rising(buf, e.at, high), 0 < e.at, e.at <= high
  PROVE  /\ <<e>> \o buf \in Seq(EventType) /\ Len(<<e>> \o buf) = Len(buf) + 1
         /\ Rising(<<e>> \o buf, 0, high)
<1> DEFINE n == Len(buf)
           s == <<e>> \o buf
<1>1. /\ s \in Seq(EventType) /\ n \in Nat /\ Len(s) = n + 1 /\ s[1] = e
      /\ \A i \in 1 .. n + 1 : i # 1 => s[i] = buf[i - 1]
  OBVIOUS
<1>2. e.at \in Nat /\ \A i \in 1 .. n : buf[i].at \in Nat
  BY EventNumbers
<1> HIDE DEF n, s
<1>3. \A i \in 1 .. n : e.at < buf[i].at /\ buf[i].at <= high
  BY DEF Rising, n
<1>4. \A i, j \in 1 .. n : i < j => buf[i].at < buf[j].at
  BY DEF Rising, n
<1>5. \A i \in 1 .. n + 1 : i # 1 => i - 1 \in 1 .. n
  BY <1>1
<1>6. \A i \in 1 .. n + 1 : 0 < s[i].at /\ s[i].at <= high
  BY <1>1, <1>2, <1>3, <1>5
<1>7. \A i, j \in 1 .. n + 1 : i < j => s[i].at < s[j].at
  <2> SUFFICES ASSUME NEW i \in 1 .. n + 1, NEW j \in 1 .. n + 1, i < j
               PROVE  s[i].at < s[j].at
    OBVIOUS
  <2>1. j # 1
    OBVIOUS
  <2>2. CASE i = 1
    BY <2>1, <2>2, <1>1, <1>3, <1>5
  <2>3. CASE i # 1
    <3>1. i - 1 < j - 1
      OBVIOUS
    <3> QED
      BY <2>1, <2>3, <3>1, <1>1, <1>4, <1>5
  <2> QED
    BY <2>2, <2>3
<1> QED
  BY <1>1, <1>6, <1>7 DEF Rising, n, s

\* A buffer may be bounded more loosely.
LEMMA RisingLoosely ==
  ASSUME NEW buf \in Seq(EventType), NEW low \in Nat, NEW high \in Nat, NEW l \in Nat,
         NEW h \in Nat, Rising(buf, low, high), l <= low, high <= h
  PROVE  Rising(buf, l, h)
<1>1. \A i \in 1 .. Len(buf) : buf[i].at \in Nat
  BY EventNumbers
<1> QED
  BY <1>1 DEF Rising

-----------------------------------------------------------------------------
\* The facts about the state that the steps need.
LEMMA KeyFacts ==
  ASSUME KInv
  PROVE  /\ keyboard.keybuffer \in Seq(EventType) /\ keyboard.reg \in EventType
         /\ keyboard = [keybuffer |-> keyboard.keybuffer, reg |-> keyboard.reg]
         /\ Len(keyboard.keybuffer) <= BSIZE /\ keyboard.reg.at \in Nat
         /\ events \in Nat /\ events <= MaxEvents /\ handler.mod \subseteq Mod
         /\ handler.prev_key \in Key \cup {NoKey} /\ down \subseteq Key
         /\ Rising(keyboard.keybuffer, keyboard.reg.at, events)
         /\ keyboard.reg.at <= events
  BY EventNumbers DEF KInv, KeyboardTypeOK

\* An event of the host comes last.
LEMMA TypedLast ==
  ASSUME KInv, events < MaxEvents, events' = events + 1, NEW k \in Key \cup {NoKey},
         NEW buf \in Seq(EventType), Len(buf) < BSIZE,
         Rising(buf, keyboard.reg.at, events),
         keyboard' = [keyboard EXCEPT !.keybuffer =
                        Append(buf, Event(k, handler.mod, events + 1))]
  PROVE  /\ keyboard' \in [keybuffer : Seq(EventType), reg : EventType]
         /\ Len(keyboard'.keybuffer) <= BSIZE /\ events' \in 0 .. MaxEvents
         /\ Rising(keyboard'.keybuffer, keyboard'.reg.at, events')
         /\ keyboard'.reg.at <= events'
<1> DEFINE e == Event(k, handler.mod, events + 1)
<1>1. e \in EventType /\ e.at = events + 1
  BY KeyFacts DEF EventType, Event
<1> HIDE DEF e
<1> DEFINE longer == Append(buf, e)
<1>2. /\ longer \in Seq(EventType) /\ Len(longer) = Len(buf) + 1
      /\ Rising(longer, keyboard.reg.at, events + 1)
  BY <1>1, KeyFacts, AppendRises
<1>3. keyboard' = [keybuffer |-> longer, reg |-> keyboard.reg]
  BY KeyFacts DEF e
<1>4. keyboard'.keybuffer = longer /\ keyboard'.reg = keyboard.reg
  BY <1>3
<1>5. Len(longer) <= BSIZE
  BY <1>2
<1> HIDE DEF longer
<1>6. /\ Rising(keyboard'.keybuffer, keyboard'.reg.at, events')
      /\ keyboard'.reg.at <= events' /\ events' \in 0 .. MaxEvents
  <2>1. Rising(keyboard'.keybuffer, keyboard'.reg.at, events')
    BY <1>2, <1>4
  <2>2. keyboard'.reg.at <= events' /\ events' \in 0 .. MaxEvents
    BY <1>4, KeyFacts
  <2> QED
    BY <2>1, <2>2
<1>7. keyboard' \in [keybuffer : Seq(EventType), reg : EventType]
  <2>1. longer \in Seq(EventType) /\ keyboard.reg \in EventType
    BY <1>2, KeyFacts
  <2>2. [keybuffer |-> longer, reg |-> keyboard.reg]
          \in [keybuffer : Seq(EventType), reg : EventType]
    BY <2>1
  <2> QED
    BY <2>2, <1>3
<1>8. Len(keyboard'.keybuffer) <= BSIZE
  BY <1>4, <1>5
<1> QED
  BY <1>6, <1>7, <1>8

LEMMA TypeHolds ==
  ASSUME KInv, NEW k \in Key \cup {NoKey}, Type(k),
         handler' \in [prev_key : Key \cup {NoKey}, mod : SUBSET Mod], down' \subseteq Key
  PROVE  KInv'
<1> DEFINE buf == keyboard.keybuffer
           kept == IF Len(buf) >= BSIZE THEN Tail(buf) ELSE buf
<1>1. /\ events < MaxEvents /\ events' = events + 1
      /\ keyboard' = [keyboard EXCEPT !.keybuffer =
                        Append(kept, Event(k, handler.mod, events + 1))]
  BY DEF Type, EnforceSendKeyEvent
<1>2. kept \in Seq(EventType) /\ Len(kept) < BSIZE /\ Rising(kept, keyboard.reg.at, events)
  <2>1. CASE Len(buf) >= BSIZE
    <3>1. buf # << >> /\ Len(buf) <= BSIZE /\ Len(buf) \in Nat
      BY <2>1, KeyFacts
    <3>2. Tail(buf) \in Seq(EventType) /\ Len(Tail(buf)) = Len(buf) - 1
            /\ Rising(Tail(buf), keyboard.reg.at, events)
      BY <3>1, KeyFacts, TailRises
    <3> QED
      BY <2>1, <3>1, <3>2
  <2>2. CASE ~(Len(buf) >= BSIZE)
    BY <2>2, KeyFacts
  <2> QED
    BY <2>1, <2>2
<1> HIDE DEF kept, buf
<1>3. /\ keyboard' \in [keybuffer : Seq(EventType), reg : EventType]
      /\ Len(keyboard'.keybuffer) <= BSIZE /\ events' \in 0 .. MaxEvents
      /\ Rising(keyboard'.keybuffer, keyboard'.reg.at, events')
      /\ keyboard'.reg.at <= events'
  BY <1>1, <1>2, TypedLast
<1> QED
  BY <1>3 DEF KInv, KeyboardTypeOK

\* The host's part.
LEMMA HostKeepsOrder ==
  ASSUME KInv, CharDown \/ SendKeyEvent \/ \E k \in Key : KeyDown(k) \/ KeyUp(k)
  PROVE  KInv'
<1>1. CASE CharDown
  BY <1>1, KeyFacts, TypeHolds DEF CharDown, KInv, KeyboardTypeOK
<1>2. CASE SendKeyEvent
  <2>1. PICK k \in CharKey :
          keyboard' = IF Len(keyboard.keybuffer) >= BSIZE THEN keyboard
                      ELSE [keyboard EXCEPT !.keybuffer =
                              Append(@, Event(k, handler.mod, events + 1))]
    BY <1>2 DEF SendKeyEvent
  <2>2. events < MaxEvents /\ events' = events + 1 /\ UNCHANGED <<handler, down>>
    BY <1>2 DEF SendKeyEvent
  <2>3. CASE Len(keyboard.keybuffer) >= BSIZE
    <3>1. keyboard' = keyboard /\ events' \in 0 .. MaxEvents /\ events \in Nat
      BY <2>1, <2>2, <2>3, KeyFacts
    <3>2. Rising(keyboard.keybuffer, keyboard.reg.at, events + 1)
      BY KeyFacts, RisingLoosely
    <3> QED
      BY <3>1, <3>2, <2>2, KeyFacts DEF KInv, KeyboardTypeOK
  <2>4. CASE ~(Len(keyboard.keybuffer) >= BSIZE)
    <3>1. Len(keyboard.keybuffer) < BSIZE /\ k \in Key \cup {NoKey}
      BY <2>4, KeyFacts DEF Key
    <3>2. keyboard' = [keyboard EXCEPT !.keybuffer =
                         Append(keyboard.keybuffer, Event(k, handler.mod, events + 1))]
      BY <2>1, <2>4
    <3>3. /\ keyboard' \in [keybuffer : Seq(EventType), reg : EventType]
          /\ Len(keyboard'.keybuffer) <= BSIZE /\ events' \in 0 .. MaxEvents
          /\ Rising(keyboard'.keybuffer, keyboard'.reg.at, events')
          /\ keyboard'.reg.at <= events'
      BY <3>1, <3>2, <2>2, KeyFacts, TypedLast
    <3> QED
      BY <3>3, <2>2 DEF KInv, KeyboardTypeOK
  <2> QED
    BY <2>3, <2>4
<1>3. ASSUME NEW k \in Key, KeyDown(k) PROVE KInv'
  <2>1. /\ down' \subseteq Key
        /\ handler' \in [prev_key : Key \cup {NoKey}, mod : SUBSET Mod]
    BY <1>3, KeyFacts DEF KeyDown, Mod
  <2>2. CASE UNCHANGED <<keyboard, events>>
    BY <2>1, <2>2 DEF KInv, KeyboardTypeOK
  <2>3. CASE Type(k)
    BY <2>1, <2>3, TypeHolds
  <2> QED
    BY <1>3, <2>2, <2>3 DEF KeyDown
<1>4. ASSUME NEW k \in Key, KeyUp(k) PROVE KInv'
  <2>1. Released(k) \subseteq Mod
    BY KeyFacts DEF Released
  <2> QED
    BY <1>4, <2>1 DEF KeyUp, KInv, KeyboardTypeOK
<1> QED
  BY <1>1, <1>2, <1>3, <1>4

\* The guest's part: it takes the oldest event, and puts back only that one.
LEMMA GuestKeepsOrder ==
  ASSUME KInv, CLR_BUFFER \/ PULL_KEY \/ PUSH_KEY \/ WriteKey \/ KeyboardReset
  PROVE  KInv'
<1> DEFINE buf == keyboard.keybuffer
           cleared == [keyboard.reg EXCEPT !.at = 0]
<1>0. events' = events /\ down' = down /\ handler' = handler
  BY DEF CLR_BUFFER, PULL_KEY, PUSH_KEY, WriteKey, KeyboardReset
<1>1. ASSUME NEW b \in Seq(EventType), NEW r \in EventType,
             keyboard' = [keybuffer |-> b, reg |-> r], Len(b) <= BSIZE,
             Rising(b, r.at, events), r.at <= events
      PROVE  KInv'
  <2>1. keyboard'.keybuffer = b /\ keyboard'.reg = r
          /\ keyboard' \in [keybuffer : Seq(EventType), reg : EventType]
    BY <1>1
  <2> QED
    BY <1>0, <1>1, <2>1 DEF KInv, KeyboardTypeOK
<1>2. /\ << >> \in Seq(EventType) /\ Len(<< >>) <= BSIZE
      /\ \A n \in Nat : Rising(<< >>, n, events)
  BY DEF Rising
<1>3. /\ NoEvent \in EventType /\ NoEvent.at = 0 /\ NoEvent.at <= events
      /\ cleared \in EventType /\ cleared.at = 0 /\ cleared.at <= events
  BY KeyFacts DEF NoEvent, Event, EventType
<1>4. Rising(buf, 0, events)
  BY KeyFacts, RisingLoosely
<1>5. /\ Rising(buf, NoEvent.at, events) /\ Rising(<< >>, NoEvent.at, events)
      /\ Rising(buf, cleared.at, events)
  BY <1>2, <1>3, <1>4
<1> HIDE DEF cleared
<1>6. CASE CLR_BUFFER
  <2>1. keyboard' = [keybuffer |-> << >>, reg |-> keyboard.reg]
    BY <1>6, KeyFacts DEF CLR_BUFFER
  <2> QED
    BY <2>1, <1>1, <1>2, KeyFacts
<1>7. CASE PULL_KEY
  <2>1. CASE buf = << >>
    <3>1. keyboard' = [keybuffer |-> buf, reg |-> NoEvent]
      BY <1>7, <2>1, KeyFacts DEF PULL_KEY
    <3> QED
      BY <3>1, <1>1, <1>3, <1>5, KeyFacts
  <2>2. CASE buf # << >>
    <3>1. keyboard' = [keybuffer |-> Tail(buf), reg |-> Head(buf)]
      BY <1>7, <2>2 DEF PULL_KEY
    <3>2. /\ Tail(buf) \in Seq(EventType) /\ Len(Tail(buf)) = Len(buf) - 1
          /\ Head(buf) \in EventType /\ Head(buf).at <= events
          /\ Rising(Tail(buf), Head(buf).at, events)
      BY <2>2, KeyFacts, TailRises
    <3>3. Len(Tail(buf)) <= BSIZE
      BY <3>2, KeyFacts
    <3> QED
      BY <3>1, <3>2, <3>3, <1>1
  <2> QED
    BY <2>1, <2>2
<1>8. CASE PUSH_KEY
  <2>1. CASE Len(buf) < BSIZE
    <3>1. keyboard' = [keybuffer |-> <<keyboard.reg>> \o buf,
                       reg |-> cleared]
      BY <1>8, <2>1 DEF PUSH_KEY, cleared
    <3>2. /\ <<keyboard.reg>> \o buf \in Seq(EventType)
          /\ Len(<<keyboard.reg>> \o buf) = Len(buf) + 1
          /\ Rising(<<keyboard.reg>> \o buf, cleared.at, events)
      BY <1>3, <1>8, KeyFacts, FrontRises DEF PUSH_KEY
    <3>3. Len(<<keyboard.reg>> \o buf) <= BSIZE
      BY <2>1, <3>2, KeyFacts
    <3> QED
      BY <3>1, <3>2, <3>3, <1>1, <1>3, KeyFacts
  <2>2. CASE ~(Len(buf) < BSIZE)
    <3>1. keyboard' = [keybuffer |-> buf, reg |-> cleared]
      BY <1>8, <2>2 DEF PUSH_KEY, cleared
    <3> QED
      BY <3>1, <1>1, <1>3, <1>5, KeyFacts
  <2> QED
    BY <2>1, <2>2
<1>9. CASE WriteKey
  <2>1. keyboard' = [keybuffer |-> buf, reg |-> cleared]
    BY <1>9, KeyFacts DEF WriteKey, cleared
  <2> QED
    BY <2>1, <1>1, <1>3, <1>5, KeyFacts
<1>10. CASE KeyboardReset
  <2>1. keyboard' = [keybuffer |-> << >>, reg |-> NoEvent]
    BY <1>10 DEF KeyboardReset
  <2> QED
    BY <2>1, <1>1, <1>2, <1>3, <1>5
<1> QED
  BY <1>6, <1>7, <1>8, <1>9, <1>10

-----------------------------------------------------------------------------
\* The buffer (gkeyb.hpp) holds events in the order of typing, all of them newer than
\* the one the guest holds.
THEOREM KeyboardInvariant == KeyboardSpec => []KInv
<1>1. KeyboardInit => KInv
  BY DEF KeyboardInit, KInv, KeyboardTypeOK, Rising, NoEvent, Event, EventType
<1>2. KInv /\ [KeyboardNext]_keyVars => KInv'
  <2> SUFFICES ASSUME KInv, [KeyboardNext]_keyVars PROVE KInv'
    OBVIOUS
  <2>1. CASE UNCHANGED keyVars
    BY <2>1 DEF keyVars, KInv, KeyboardTypeOK, Rising
  <2>2. CASE KeyboardNext
    BY <2>2, HostKeepsOrder, GuestKeepsOrder DEF KeyboardNext
  <2> QED
    BY <2>1, <2>2
<1> QED
  BY <1>1, <1>2, PTL DEF KeyboardSpec

\* The guest gets the events in the order of typing, and none of them twice.
THEOREM OrderIsKept == KeyboardSpec => []KeysInOrder
<1>1. KInv => KeysInOrder
  <2> SUFFICES ASSUME KInv PROVE KeysInOrder
    OBVIOUS
  <2>1. CASE keyboard.reg.at > 0
    <3> DEFINE s == <<keyboard.reg>> \o keyboard.keybuffer
    <3>1. s \in Seq(EventType) /\ Rising(s, 0, events)
      BY <2>1, KeyFacts, FrontRises
    <3>2. DOMAIN s = 1 .. Len(s)
      BY <3>1
    <3> HIDE DEF s
    <3>3. \A i, j \in DOMAIN s : i < j => s[i].at < s[j].at
      BY <3>1, <3>2 DEF Rising
    <3> QED
      BY <2>1, <3>3 DEF KeysInOrder, s
  <2>2. CASE ~(keyboard.reg.at > 0)
    <3>1. << >> \o keyboard.keybuffer = keyboard.keybuffer
      BY KeyFacts
    <3>2. DOMAIN keyboard.keybuffer = 1 .. Len(keyboard.keybuffer)
      BY KeyFacts
    <3>3. \A i, j \in DOMAIN keyboard.keybuffer :
            i < j => keyboard.keybuffer[i].at < keyboard.keybuffer[j].at
      BY <3>2, KeyFacts DEF Rising
    <3> QED
      BY <2>2, <3>1, <3>3 DEF KeysInOrder
  <2> QED
    BY <2>1, <2>2
<1> QED
  BY <1>1, KeyboardInvariant, PTL

-----------------------------------------------------------------------------
\* The modifiers whose keys are down.
Held == {ModOf(k) : k \in down \cap ModKey}

\* The handler holds no modifier without one of its keys.  A key that comes up takes its
\* modifier along, though the other key of it may still be down.
LEMMA ModIsHeld == KInv /\ handler.mod \subseteq Held /\ [KeyboardNext]_keyVars
                     => (handler.mod \subseteq Held)'
<1> SUFFICES ASSUME KInv, handler.mod \subseteq Held, [KeyboardNext]_keyVars
             PROVE  (handler.mod \subseteq Held)'
  OBVIOUS
<1>1. ASSUME NEW k \in Key, KeyDown(k) PROVE (handler.mod \subseteq Held)'
  BY <1>1 DEF KeyDown, Held
<1>2. ASSUME NEW k \in Key, KeyUp(k) PROVE (handler.mod \subseteq Held)'
  <2>1. handler'.mod = Released(k) /\ down' = down \ {k}
    BY <1>2, KeyFacts DEF KeyUp, KInv, KeyboardTypeOK
  <2> QED
    BY <2>1 DEF Released, Held
<1>3. CASE UNCHANGED <<handler, down>>
  BY <1>3 DEF Held
<1> QED
  BY <1>1, <1>2, <1>3
     DEF KeyboardNext, keyVars, CharDown, SendKeyEvent, CLR_BUFFER, PULL_KEY, PUSH_KEY,
         WriteKey, KeyboardReset

\* An event that a step puts into the buffer is an old one or carries the handler's
\* modifiers.
Marked(e) == e.at <= events \/ e.status \subseteq handler.mod

\* What the handler types is added with its modifiers.
LEMMA TypedIsMarked ==
  ASSUME KInv, NEW k, NEW buf \in Seq(EventType),
         \A i \in 1 .. Len(buf) : buf[i].at <= events
  PROVE  LET longer == Append(buf, Event(k, handler.mod, events + 1)) IN
         \A i \in DOMAIN longer : Marked(longer[i])
<1> DEFINE e == Event(k, handler.mod, events + 1)
           longer == Append(buf, e)
<1>1. e.status = handler.mod
  BY DEF Event
<1> HIDE DEF e
<1>2. /\ DOMAIN longer = 1 .. Len(buf) + 1 /\ Len(buf) \in Nat
      /\ \A i \in 1 .. Len(buf) : longer[i] = buf[i]
      /\ longer[Len(buf) + 1] = e
  OBVIOUS
<1> HIDE DEF longer
<1>3. \A i \in DOMAIN longer : Marked(longer[i])
  BY <1>1, <1>2 DEF Marked
<1> QED
  BY <1>3 DEF longer, e

LEMMA StepsAreMarked ==
  ASSUME KInv, KeyboardNext
  PROVE  \A i \in DOMAIN keyboard'.keybuffer : Marked(keyboard'.keybuffer[i])
<1> DEFINE buf == keyboard.keybuffer
           kept == IF Len(buf) >= BSIZE THEN Tail(buf) ELSE buf
<1>1. /\ buf \in Seq(EventType) /\ Len(buf) \in Nat /\ DOMAIN buf = 1 .. Len(buf)
      /\ \A i \in 1 .. Len(buf) : buf[i].at <= events
  BY KeyFacts DEF Rising
<1>2. buf # << >> => /\ Tail(buf) \in Seq(EventType) /\ DOMAIN Tail(buf) = 1 .. Len(Tail(buf))
                     /\ \A i \in 1 .. Len(Tail(buf)) : Tail(buf)[i].at <= events
  BY KeyFacts, TailRises DEF Rising
<1>3. kept \in Seq(EventType) /\ \A i \in 1 .. Len(kept) : kept[i].at <= events
  <2>1. Len(buf) >= BSIZE => buf # << >>
    BY <1>1
  <2> QED
    BY <2>1, <1>1, <1>2
<1>4. ASSUME NEW k, Type(k)
      PROVE  \A i \in DOMAIN keyboard'.keybuffer : Marked(keyboard'.keybuffer[i])
  <2>1. keyboard'.keybuffer = Append(kept, Event(k, handler.mod, events + 1))
    BY <1>4, KeyFacts DEF Type, EnforceSendKeyEvent
  <2> HIDE DEF kept
  <2> QED
    BY <2>1, <1>3, TypedIsMarked
<1>5. CASE keyboard'.keybuffer = buf \/ keyboard'.keybuffer = << >>
  BY <1>5, <1>1 DEF Marked
<1>6. CASE SendKeyEvent
  <2>1. PICK k \in CharKey :
          keyboard' = IF Len(keyboard.keybuffer) >= BSIZE THEN keyboard
                      ELSE [keyboard EXCEPT !.keybuffer =
                              Append(@, Event(k, handler.mod, events + 1))]
    BY <1>6 DEF SendKeyEvent
  <2>2. keyboard'.keybuffer = buf
          \/ keyboard'.keybuffer = Append(buf, Event(k, handler.mod, events + 1))
    BY <2>1, KeyFacts
  <2> HIDE DEF buf
  <2> QED
    BY <2>2, <1>1, <1>5, TypedIsMarked DEF buf
<1>7. CASE PULL_KEY
  <2>1. keyboard'.keybuffer = buf \/ (buf # << >> /\ keyboard'.keybuffer = Tail(buf))
    BY <1>7, KeyFacts DEF PULL_KEY
  <2> QED
    BY <2>1, <1>2, <1>5 DEF Marked
<1>8. CASE PUSH_KEY
  <2> DEFINE s == <<keyboard.reg>> \o buf
  <2>1. keyboard'.keybuffer = buf \/ keyboard'.keybuffer = s
    BY <1>8 DEF PUSH_KEY
  <2>2. /\ s \in Seq(EventType) /\ DOMAIN s = 1 .. Len(s)
        /\ \A i \in 1 .. Len(s) : s[i].at <= events
    <3>1. Rising(s, 0, events) /\ s \in Seq(EventType)
      BY <1>8, KeyFacts, FrontRises DEF PUSH_KEY
    <3> HIDE DEF s
    <3> QED
      BY <3>1 DEF Rising
  <2> HIDE DEF s
  <2> QED
    BY <2>1, <2>2, <1>5 DEF Marked
<1>9. CASE CLR_BUFFER \/ WriteKey \/ KeyboardReset
  BY <1>9, <1>5, KeyFacts DEF CLR_BUFFER, WriteKey, KeyboardReset
<1>10. CASE \E k \in Key : KeyDown(k) \/ KeyUp(k)
  BY <1>10, <1>4, <1>5 DEF KeyDown, KeyUp
<1>11. CASE CharDown
  BY <1>11, <1>4 DEF CharDown
<1> QED
  BY <1>6, <1>7, <1>8, <1>9, <1>10, <1>11 DEF KeyboardNext

\* An event carries a modifier only when one of its keys was down as it was typed.
THEOREM ModifiersAreHeld == KeyboardSpec => StatusIsHeld
<1> DEFINE HeldMod == handler.mod \subseteq Held
           Status == \A e \in {keyboard'.keybuffer[i] : i \in DOMAIN keyboard'.keybuffer} :
                       e.at > events => e.status \subseteq {ModOf(k) : k \in down \cap ModKey}
<1>1. KeyboardInit => HeldMod
  BY DEF KeyboardInit, Held
<1>2. KInv /\ HeldMod /\ [KeyboardNext]_keyVars => HeldMod'
  BY ModIsHeld
<1>3. KInv /\ HeldMod /\ [KeyboardNext]_keyVars => [Status]_keyVars
  <2> SUFFICES ASSUME KInv, HeldMod, KeyboardNext,
                      NEW i \in DOMAIN keyboard'.keybuffer,
                      keyboard'.keybuffer[i].at > events
               PROVE  keyboard'.keybuffer[i].status
                        \subseteq {ModOf(k) : k \in down \cap ModKey}
    OBVIOUS
  <2>1. Marked(keyboard'.keybuffer[i])
    BY StepsAreMarked
  <2>2. keyboard'.keybuffer[i].at \in Nat /\ events \in Nat
    <3>1. KInv'
      BY HostKeepsOrder, GuestKeepsOrder DEF KeyboardNext
    <3>2. keyboard'.keybuffer \in Seq(EventType)
      BY <3>1 DEF KInv, KeyboardTypeOK
    <3>3. keyboard'.keybuffer[i] \in EventType
      BY <3>2
    <3> QED
      BY <3>3, EventNumbers, KeyFacts
  <2> QED
    BY <2>1, <2>2 DEF Marked, Held
<1> QED
  BY <1>1, <1>2, <1>3, KeyboardInvariant, PTL DEF KeyboardSpec, StatusIsHeld

-----------------------------------------------------------------------------

USE NvramAssumption

\* Where main is.
Place == {"start", "open", "top", "run", "command", "bottom", "exit", "saved", "done"}

\* The file is empty or whole, and so is what the stream holds back; what it holds back
\* is the whole NVRAM, for the next position is the end of it.
StoreTypes ==
  /\ nvram \in [eprom : Contents, dirty : BOOLEAN]
  /\ saves \in [last : Contents, before : Contents, whole : BOOLEAN]
  /\ file \in [exists : BOOLEAN, bytes : Contents \cup {<< >>}]
  /\ stream \in [good : BOOLEAN, pos : Nat, buffer : Contents \cup {<< >>}]
  /\ stream.buffer # << >> => stream.pos = NvramSize
  /\ emu \in [at : Place, loop : BOOLEAN, debug : BOOLEAN, starts : Nat]
  /\ emu.at = "open" => stream.good /\ file.exists
  /\ emu.at \in {"start", "done"} => stream.buffer = << >>

\* The last save is in the file or held back, the one before it in the file, and the
\* NVRAM differs from the last save only while it is dirty.
SaveChain ==
  /\ file.exists
  /\ emu.at = "open" => stream.buffer = << >>
  /\ emu.at \in {"start", "open"} => file.bytes \in {saves.last, saves.before}
  /\ Loaded =>
       /\ stream.good
       /\ IF stream.buffer = << >> THEN file.bytes = saves.last
          ELSE file.bytes = saves.before /\ stream.buffer = saves.last
       /\ nvram.dirty \/ nvram.eprom = saves.last
  /\ emu.at = "top" => ~nvram.dirty
  /\ emu.at \in {"saved", "done"} => nvram.eprom = saves.last

StoreInv == StoreTypes /\ (saves.whole => SaveChain)

-----------------------------------------------------------------------------
\* The contents of the NVRAM are a sequence that is not empty.
LEMMA ContentsAreWhole ==
  ASSUME NEW e \in Contents
  PROVE  /\ e \in Seq(NvramValue) /\ Len(e) = NvramSize /\ e # << >> /\ WholeFile(e)
         /\ << >> \o e = e /\ DOMAIN e = Cells
<1>1. e \in Seq(NvramValue) /\ Len(e) = NvramSize /\ DOMAIN e = Cells
  BY DEF Contents, Cells
<1> QED
  BY <1>1 DEF WholeFile

\* Writing the buffer makes the file whole, whatever was in it.
LEMMA WrittenIsBuffer ==
  ASSUME NEW bytes \in Contents \cup {<< >>},
         NEW st \in [good : BOOLEAN, pos : Nat, buffer : Contents \cup {<< >>}],
         st.buffer # << >> => st.pos = NvramSize
  PROVE  Written(bytes, st) = IF st.buffer = << >> THEN bytes ELSE st.buffer
<1>1. CASE st.buffer = << >>
  BY <1>1 DEF Written
<1>2. CASE st.buffer # << >>
  <2>1. st.buffer \in Contents /\ st.pos = NvramSize
    BY <1>2
  <2>2. Len(st.buffer) = NvramSize /\ Len(bytes) <= NvramSize /\ Len(bytes) \in Nat
    BY <2>1, ContentsAreWhole
  <2>3. Written(bytes, st) = [i \in Cells |-> st.buffer[i]]
    <3>1. /\ st.pos - Len(st.buffer) = 0
          /\ (IF Len(bytes) > st.pos THEN Len(bytes) ELSE st.pos) = NvramSize
      BY <2>1, <2>2
    <3>2. Written(bytes, st)
            = [i \in 1 .. NvramSize |->
                 IF i > 0 /\ i <= NvramSize THEN st.buffer[i - 0]
                 ELSE IF i <= Len(bytes) THEN bytes[i] ELSE ZeroValue]
      BY <1>2, <2>1, <3>1 DEF Written
    <3> QED
      BY <3>2 DEF Cells
  <2> QED
    BY <1>2, <2>1, <2>3 DEF Contents
<1> QED
  BY <1>1, <1>2

\* After a flush the file is whole, or as empty as it was, and in a chain it is the last
\* save.
LEMMA Flushed ==
  ASSUME StoreInv, Flush
  PROVE  /\ file' \in [exists : BOOLEAN, bytes : Contents \cup {<< >>}]
         /\ file'.exists = file.exists
         /\ file'.bytes = IF stream.buffer = << >> THEN file.bytes ELSE stream.buffer
         /\ saves.whole /\ Loaded => file'.bytes = saves.last
<1>1. file'.bytes = Written(file.bytes, stream) /\ file'.exists = file.exists
        /\ file' = [exists |-> file.exists, bytes |-> Written(file.bytes, stream)]
  BY DEF Flush, StoreInv, StoreTypes
<1>2. file'.bytes = IF stream.buffer = << >> THEN file.bytes ELSE stream.buffer
  BY <1>1, WrittenIsBuffer DEF StoreInv, StoreTypes
<1> QED
  BY <1>1, <1>2 DEF StoreInv, StoreTypes, SaveChain

\* A flush and a save move the chain on by one.
LEMMA SaveChainsOn ==
  ASSUME StoreInv, Flush, Save(Sought), Loaded, emu.at # "done",
         NEW p \in {"top", "exit", "saved"}, emu' = [emu EXCEPT !.at = p]
  PROVE  StoreInv'
<1>1. emu' \in [at : Place, loop : BOOLEAN, debug : BOOLEAN, starts : Nat] /\ emu'.at = p
  BY DEF StoreInv, StoreTypes, Place
<1>2. CASE stream.good
  <2>1. Sought = [good |-> stream.good, pos |-> 0, buffer |-> << >>]
    BY <1>2 DEF Sought, StoreInv, StoreTypes
  <2>2. nvram.eprom \in Contents /\ << >> \o nvram.eprom = nvram.eprom
          /\ nvram.eprom # << >>
    BY ContentsAreWhole DEF StoreInv, StoreTypes
  <2>3. stream' = [good |-> stream.good, pos |-> NvramSize, buffer |-> nvram.eprom]
    <3>1. stream' = [Sought EXCEPT !.pos = @ + NvramSize, !.buffer = @ \o nvram.eprom]
      BY <2>1, <1>2 DEF Save
    <3>2. stream' = [good |-> stream.good, pos |-> 0 + NvramSize,
                     buffer |-> << >> \o nvram.eprom]
      BY <3>1, <2>1
    <3> QED
      BY <3>2, <2>2
  <2>4. /\ nvram' = [eprom |-> nvram.eprom, dirty |-> FALSE]
        /\ saves' = [last |-> nvram.eprom, before |-> saves.last, whole |-> saves.whole]
    BY <1>2, <2>1 DEF Save, StoreInv, StoreTypes
  <2>5. StoreTypes'
    BY <1>1, <1>2, <2>2, <2>3, <2>4, Flushed DEF StoreInv, StoreTypes
  <2>6. saves'.whole => SaveChain'
    BY <1>1, <1>2, <2>2, <2>3, <2>4, Flushed DEF StoreInv, StoreTypes, SaveChain, Loaded
  <2> QED
    BY <2>5, <2>6 DEF StoreInv
<1>3. CASE ~stream.good
  <2>1. stream' = stream /\ UNCHANGED <<nvram, saves>>
    BY <1>3 DEF Save, Sought
  <2>2. ~saves.whole
    BY <1>3 DEF StoreInv, SaveChain
  <2> QED
    BY <1>1, <2>1, <2>2, Flushed DEF StoreInv, StoreTypes
<1> QED
  BY <1>2, <1>3

-----------------------------------------------------------------------------
LEMMA OpenKeeps == StoreInv /\ OpenFile => StoreInv'
<1> SUFFICES ASSUME StoreInv, OpenFile PROVE StoreInv'
  OBVIOUS
<1>1. PICK e \in Contents : nvram' = [eprom |-> e, dirty |-> FALSE]
  BY DEF OpenFile
<1>2. Zeros \in Contents /\ Zeros # << >>
  <2>1. Zeros \in Contents
    BY DEF Zeros, Contents
  <2> QED
    BY <2>1, ContentsAreWhole
<1>3. /\ file' \in [exists : BOOLEAN, bytes : Contents \cup {<< >>}]
      /\ file'.exists /\ file'.bytes = file.bytes
  BY DEF OpenFile, StoreInv, StoreTypes
<1>4. /\ stream' = [good |-> TRUE, pos |-> IF file.exists THEN 0 ELSE NvramSize,
                    buffer |-> IF file.exists THEN << >> ELSE Zeros]
      /\ emu' \in [at : Place, loop : BOOLEAN, debug : BOOLEAN, starts : Nat]
      /\ emu'.at = "open" /\ emu.at = "start" /\ saves' = saves
  BY DEF OpenFile, StoreInv, StoreTypes, Place
<1>5. StoreTypes'
  <2>1. stream' \in [good : BOOLEAN, pos : Nat, buffer : Contents \cup {<< >>}]
    BY <1>2, <1>4
  <2>2. /\ stream'.good /\ (stream'.buffer # << >> => stream'.pos = NvramSize)
    BY <1>2, <1>4
  <2> QED
    BY <1>3, <1>1, <1>4, <2>1, <2>2 DEF StoreInv, StoreTypes
<1>6. saves'.whole => SaveChain'
  BY <1>3, <1>4 DEF StoreInv, SaveChain, Loaded
<1> QED
  BY <1>5, <1>6 DEF StoreInv

LEMMA LoadKeeps == StoreInv /\ LoadNVRAM => StoreInv'
<1> SUFFICES ASSUME StoreInv, LoadNVRAM PROVE StoreInv'
  OBVIOUS
<1> DEFINE bytes == file'.bytes
           e == [c \in Cells |-> IF c <= Len(bytes) THEN bytes[c] ELSE nvram.eprom[c]]
<1>1. stream' = [Sought EXCEPT !.good = WholeFile(bytes), !.pos = NvramSize]
  BY DEF LoadNVRAM
<1>2. /\ nvram' = [eprom |-> e, dirty |-> FALSE]
      /\ saves' = [last |-> e, before |-> e, whole |-> WholeFile(bytes)]
      /\ Flush /\ stream.good /\ file.exists
      /\ emu' \in [at : Place, loop : BOOLEAN, debug : BOOLEAN, starts : Nat]
      /\ emu'.at = "top"
  BY DEF LoadNVRAM, StoreInv, StoreTypes, Place
<1>3. bytes \in Contents \cup {<< >>} /\ file' \in [exists : BOOLEAN, bytes : Contents \cup {<< >>}]
        /\ file'.exists
  BY <1>2, Flushed
<1> HIDE DEF bytes
<1>4. stream' = [good |-> WholeFile(bytes), pos |-> NvramSize, buffer |-> << >>]
  BY <1>1, <1>2 DEF Sought, StoreInv, StoreTypes
<1>5. \/ bytes \in Contents /\ WholeFile(bytes) = TRUE
      \/ bytes = << >> /\ WholeFile(bytes) = FALSE
  <2>1. CASE bytes \in Contents
    BY <2>1, ContentsAreWhole
  <2>2. CASE bytes = << >>
    <3>1. Len(bytes) = 0
      BY <2>2
    <3> QED
      BY <2>2, <3>1 DEF WholeFile
  <2> QED
    BY <1>3, <2>1, <2>2
<1>6. e \in Contents /\ (bytes \in Contents => e = bytes)
  <2>1. CASE bytes \in Contents
    <3>1. Len(bytes) = NvramSize
      BY <2>1, ContentsAreWhole
    <3>2. e = [c \in Cells |-> bytes[c]]
      BY <3>1 DEF Cells
    <3>3. e = bytes
      BY <2>1, <3>2 DEF Contents
    <3> QED
      BY <2>1, <3>3
  <2>2. CASE bytes = << >>
    <3>1. Len(bytes) = 0
      BY <2>2
    <3>2. e = [c \in Cells |-> nvram.eprom[c]]
      BY <3>1 DEF Cells
    <3>3. e \in Contents
      BY <3>2 DEF StoreInv, StoreTypes, Contents
    <3> QED
      BY <2>2, <3>3, ContentsAreWhole
  <2> QED
    BY <1>3, <2>1, <2>2
<1> HIDE DEF e
<1>7. nvram' \in [eprom : Contents, dirty : BOOLEAN]
  BY <1>2, <1>6
<1>8. ASSUME NEW whole \in BOOLEAN,
             saves' = [last |-> e, before |-> e, whole |-> whole],
             stream' = [good |-> whole, pos |-> NvramSize, buffer |-> << >>]
      PROVE  StoreTypes'
  <2>1. saves' \in [last : Contents, before : Contents, whole : BOOLEAN]
    BY <1>6, <1>8
  <2>2. /\ stream' \in [good : BOOLEAN, pos : Nat, buffer : Contents \cup {<< >>}]
        /\ stream'.buffer = << >>
    BY <1>8
  <2> QED
    BY <1>2, <1>3, <1>7, <2>1, <2>2 DEF StoreTypes
<1>9. CASE bytes \in Contents /\ WholeFile(bytes) = TRUE
  <2>1. /\ saves' = [last |-> e, before |-> e, whole |-> TRUE]
        /\ stream' = [good |-> TRUE, pos |-> NvramSize, buffer |-> << >>]
    BY <1>2, <1>4, <1>9
  <2>2. file'.bytes = e /\ e \in Contents
    BY <1>6, <1>9 DEF bytes
  <2>3. StoreTypes'
    BY <1>8, <2>1
  <2>4. SaveChain'
    BY <1>2, <1>3, <2>1, <2>2 DEF SaveChain, Loaded
  <2> QED
    BY <2>3, <2>4 DEF StoreInv
<1>10. CASE bytes = << >> /\ WholeFile(bytes) = FALSE
  <2>1. /\ saves' = [last |-> e, before |-> e, whole |-> FALSE]
        /\ stream' = [good |-> FALSE, pos |-> NvramSize, buffer |-> << >>]
    BY <1>2, <1>4, <1>10
  <2>2. StoreTypes' /\ ~saves'.whole
    BY <1>8, <2>1
  <2> QED
    BY <2>2 DEF StoreInv
<1> QED
  BY <1>5, <1>9, <1>10

\* The guest writes, and main goes round its loop.
LEMMA RunKeeps ==
  StoreInv /\ (Closing \/ Update \/ GuestStore \/ Returned \/ DebugCommand) => StoreInv'
<1> SUFFICES ASSUME StoreInv, Closing \/ Update \/ GuestStore \/ Returned \/ DebugCommand
             PROVE  StoreInv'
  OBVIOUS
<1>1. UNCHANGED <<file, stream, saves>>
  BY DEF Closing, Update, GuestStore, Returned, DebugCommand
<1>2. /\ emu' \in [at : Place, loop : BOOLEAN, debug : BOOLEAN, starts : Nat]
      /\ emu.at \in {"top", "run", "command"}
      /\ emu'.at \in {"exit", "run", "command", "bottom"}
  <2>1. CASE Closing \/ Update
    BY <2>1 DEF Closing, Update, StoreInv, StoreTypes, Place
  <2>2. CASE GuestStore
    BY <2>2 DEF GuestStore, StoreInv, StoreTypes, Place
  <2>3. CASE Returned
    BY <2>3 DEF Returned, StoreInv, StoreTypes, Place
  <2>4. CASE DebugCommand
    BY <2>4 DEF DebugCommand, StoreInv, StoreTypes, Place
  <2> QED
    BY <2>1, <2>2, <2>3, <2>4
<1>3. nvram' = nvram \/ \E w \in Contents : nvram' = [eprom |-> w, dirty |-> TRUE]
  <2>1. CASE GuestStore
    <3>1. PICK addr \in 0 .. NvramSize - 1, width \in {1, 2, 4}, v \in Contents :
            nvram' = [eprom |-> [c \in Cells |-> IF c > addr /\ c <= addr + width
                                                 THEN v[c] ELSE nvram.eprom[c]],
                      dirty |-> TRUE]
      BY <2>1 DEF GuestStore
    <3>2. [c \in Cells |-> IF c > addr /\ c <= addr + width
                           THEN v[c] ELSE nvram.eprom[c]] \in Contents
      BY DEF Contents, StoreInv, StoreTypes
    <3> QED
      BY <3>1, <3>2
  <2> QED
    BY <2>1 DEF Closing, Update, Returned, DebugCommand
<1>4. StoreTypes'
  <2>1. nvram' \in [eprom : Contents, dirty : BOOLEAN]
    <3>1. ASSUME NEW w \in Contents, nvram' = [eprom |-> w, dirty |-> TRUE]
          PROVE  nvram' \in [eprom : Contents, dirty : BOOLEAN]
      BY <3>1
    <3> QED
      BY <1>3, <3>1 DEF StoreInv, StoreTypes
  <2> QED
    BY <1>1, <1>2, <2>1 DEF StoreInv, StoreTypes
<1>5. saves'.whole => SaveChain'
  BY <1>1, <1>2, <1>3 DEF StoreInv, StoreTypes, SaveChain, Loaded
<1> QED
  BY <1>4, <1>5 DEF StoreInv

\* Saves, and the ends of main.
LEMMA SavesKeep ==
  StoreInv /\ (SaveIfDirty \/ SaveAtExit \/ CloseFile \/ WriteBuffer) => StoreInv'
<1> SUFFICES ASSUME StoreInv, SaveIfDirty \/ SaveAtExit \/ CloseFile \/ WriteBuffer
             PROVE  StoreInv'
  OBVIOUS
<1>1. CASE SaveIfDirty
  <2>1. PICK p \in {"top", "exit"} : emu' = [emu EXCEPT !.at = p]
    BY <1>1 DEF SaveIfDirty
  <2>2. CASE nvram.dirty
    BY <1>1, <2>1, <2>2, SaveChainsOn DEF SaveIfDirty, Loaded
  <2>3. CASE ~nvram.dirty
    <3>1. UNCHANGED <<file, stream, nvram, saves>> /\ emu.at = "bottom"
      BY <1>1, <2>3 DEF SaveIfDirty
    <3>2. emu' \in [at : Place, loop : BOOLEAN, debug : BOOLEAN, starts : Nat]
            /\ emu'.at = p
      BY <2>1 DEF StoreInv, StoreTypes, Place
    <3> QED
      BY <2>3, <3>1, <3>2 DEF StoreInv, StoreTypes, SaveChain, Loaded
  <2> QED
    BY <2>2, <2>3
<1>2. CASE SaveAtExit
  BY <1>2, SaveChainsOn DEF SaveAtExit, Loaded
<1>3. CASE CloseFile
  <2>1. /\ emu' \in [at : Place, loop : BOOLEAN, debug : BOOLEAN, starts : Nat]
        /\ emu'.at = "done" /\ emu.at = "saved" /\ UNCHANGED <<nvram, saves>> /\ Flush
        /\ stream' = [good |-> stream.good, pos |-> stream.pos, buffer |-> << >>]
    BY <1>3 DEF CloseFile, StoreInv, StoreTypes, Place
  <2>2. StoreTypes'
    BY <2>1, Flushed DEF StoreInv, StoreTypes
  <2>3. saves'.whole => SaveChain'
    BY <2>1, Flushed DEF StoreInv, SaveChain, Loaded
  <2> QED
    BY <2>2, <2>3 DEF StoreInv
<1>4. CASE WriteBuffer
  <2>1. /\ UNCHANGED <<nvram, saves, emu>> /\ Flush /\ stream.buffer # << >>
        /\ stream' = [good |-> stream.good, pos |-> stream.pos, buffer |-> << >>]
    BY <1>4 DEF WriteBuffer, StoreInv, StoreTypes
  <2>2. StoreTypes'
    BY <2>1, Flushed DEF StoreInv, StoreTypes
  <2>3. saves'.whole => SaveChain'
    BY <2>1, Flushed DEF StoreInv, StoreTypes, SaveChain, Loaded
  <2> QED
    BY <2>2, <2>3 DEF StoreInv
<1> QED
  BY <1>1, <1>2, <1>3, <1>4

\* The process dies at any moment, and is started again.
LEMMA RestartKeeps == StoreInv /\ (Kill \/ StartAgain) => StoreInv'
<1> SUFFICES ASSUME StoreInv, Kill \/ StartAgain PROVE StoreInv'
  OBVIOUS
<1>1. /\ emu' \in [at : Place, loop : BOOLEAN, debug : BOOLEAN, starts : Nat]
      /\ emu'.at = "start" /\ UNCHANGED <<file, nvram, saves>>
      /\ stream' = [good |-> stream.good, pos |-> stream.pos, buffer |-> << >>]
  BY DEF Kill, StartAgain, StoreInv, StoreTypes, Place
<1>2. StoreTypes'
  BY <1>1 DEF StoreInv, StoreTypes
<1>3. saves'.whole => SaveChain'
  <2>1. emu.at # "start"
    BY DEF Kill, StartAgain
  <2> QED
    BY <1>1, <2>1 DEF StoreInv, StoreTypes, SaveChain, Loaded
<1> QED
  BY <1>2, <1>3 DEF StoreInv

-----------------------------------------------------------------------------
\* At any place of main, the file and the stream's buffer hold the last save, or the one
\* before it with the last still in the buffer.
THEOREM NvramInvariant == NvramSpec => []StoreInv
<1>1. NvramInit => StoreInv
  <2> SUFFICES ASSUME NvramInit PROVE StoreInv
    OBVIOUS
  <2>1. Zeros \in Contents
    BY DEF Zeros, Contents
  <2>2. file \in [exists : BOOLEAN, bytes : Contents \cup {<< >>}]
    <3>1. PICK b \in Contents \cup {<< >>}, x \in BOOLEAN :
            file = [exists |-> x, bytes |-> b]
      BY <2>1 DEF NvramInit
    <3> QED
      BY <3>1
  <2>3. /\ stream \in [good : BOOLEAN, pos : Nat, buffer : Contents \cup {<< >>}]
        /\ stream.buffer = << >>
    BY DEF NvramInit
  <2>4. nvram \in [eprom : Contents, dirty : BOOLEAN]
    BY <2>1 DEF NvramInit
  <2>6. saves \in [last : Contents, before : Contents, whole : BOOLEAN] /\ ~saves.whole
    BY <2>1 DEF NvramInit
  <2>5. /\ emu \in [at : Place, loop : BOOLEAN, debug : BOOLEAN, starts : Nat]
        /\ emu.at = "start"
    BY DEF NvramInit, Place
  <2> QED
    BY <2>2, <2>3, <2>4, <2>5, <2>6 DEF StoreInv, StoreTypes
<1>2. StoreInv /\ [EmulatorNext]_nvramVars => StoreInv'
  <2> SUFFICES ASSUME StoreInv, [EmulatorNext]_nvramVars PROVE StoreInv'
    OBVIOUS
  <2>1. CASE UNCHANGED nvramVars
    BY <2>1 DEF nvramVars, StoreInv, StoreTypes, SaveChain, Loaded
  <2>2. CASE EmulatorNext
    BY <2>2, OpenKeeps, LoadKeeps, RunKeeps, SavesKeep, RestartKeeps DEF EmulatorNext
  <2> QED
    BY <2>1, <2>2
<1> QED
  BY <1>1, <1>2, PTL DEF NvramSpec

\* Killed or closed at any moment, the emulator leaves in the file what one save wrote,
\* the last or the one before; after a regular exit the file is the NVRAM.
THEOREM NvramSurvives == NvramSpec => []NvramKept
<1>1. StoreInv => NvramKept
  BY DEF StoreInv, StoreTypes, SaveChain, NvramKept, Loaded
<1> QED
  BY <1>1, NvramInvariant, PTL

-----------------------------------------------------------------------------
USE TdaAssumption

\* A sum below the modulus does not wrap; one below zero wraps once.
LEMMA SumsOfDWords ==
  ASSUME NEW a \in Int, NEW b \in Int
  PROVE  /\ 0 <= a + b /\ a + b < TdaSpace => DWordSum(a, b) = a + b
         /\ a + b < 0 /\ 0 - TdaSpace <= a + b => DWordSum(a, b) = a + b + TdaSpace
<1> DEFINE s == a + b
<1>1. s \in Int /\ TdaSpace \in Nat \ {0}
  OBVIOUS
<1>2. 0 <= s /\ s < TdaSpace => s % TdaSpace = s
  BY <1>1
<1>3. s < 0 /\ 0 - TdaSpace <= s => s % TdaSpace = s + TdaSpace
  BY <1>1
<1> QED
  BY <1>2, <1>3 DEF DWordSum

\* What the guest maps is what the display shows, for any sizes.
THEOREM MappedShows == MappedIsShown
<1> SUFFICES ASSUME NEW ramSize \in 0 .. TdaRomStart, NEW romSize \in 0 .. TdaRomStart,
                    NEW addr \in 1 .. TdaSpace - 1
             PROVE  LET text == ShownText(ramSize, MapBuffer(ramSize, 0, addr))
                        font == ShownFont(ramSize, romSize, MapFont(ramSize, romSize, 0, addr))
                    IN  /\ MapBuffer(ramSize, 0, addr) = addr =>
                             /\ text = <<"ram", addr>>
                             /\ \/ addr + TxtBufferSize < ramSize
                                \/ addr + TxtBufferSize >= TdaSpace
                        /\ MapFont(ramSize, romSize, 0, addr) = addr =>
                             \/ /\ font = <<"ram", addr>>
                                /\ addr + FontSize <= ramSize \/ addr + FontSize >= TdaSpace
                             \/ /\ font = <<"rom", addr - TdaRomStart>>
                                /\ addr - TdaRomStart
                                     \in (0 .. romSize - FontSize) \cup (-FontSize .. -1)
  BY DEF MappedIsShown
<1>1. TxtBufferSize \in Nat /\ FontSize \in Nat /\ TdaSpace \in Nat /\ TdaRomStart \in Nat
  BY DEF TxtBufferSize
<1>2. ASSUME MapBuffer(ramSize, 0, addr) = addr
      PROVE  /\ ShownText(ramSize, addr) = <<"ram", addr>>
             /\ addr + TxtBufferSize < ramSize \/ addr + TxtBufferSize >= TdaSpace
  <2>1. DWordSum(addr, TxtBufferSize) < ramSize
    BY <1>2 DEF MapBuffer
  <2>2. addr + TxtBufferSize < TdaSpace => DWordSum(addr, TxtBufferSize) = addr + TxtBufferSize
    BY <1>1, SumsOfDWords
  <2> QED
    BY <1>1, <2>1, <2>2 DEF ShownText
<1>3. ASSUME MapFont(ramSize, romSize, 0, addr) = addr
      PROVE  \/ /\ ShownFont(ramSize, romSize, addr) = <<"ram", addr>>
                /\ addr + FontSize <= ramSize \/ addr + FontSize >= TdaSpace
             \/ /\ ShownFont(ramSize, romSize, addr) = <<"rom", addr - TdaRomStart>>
                /\ addr - TdaRomStart \in (0 .. romSize - FontSize) \cup (-FontSize .. -1)
  <2>1. CASE DWordSum(addr, FontSize) <= ramSize
    <3>1. ShownFont(ramSize, romSize, addr) = <<"ram", addr>>
      BY <2>1 DEF ShownFont
    <3>2. addr + FontSize < TdaSpace => DWordSum(addr, FontSize) = addr + FontSize
      BY <1>1, SumsOfDWords
    <3> QED
      BY <1>1, <2>1, <3>1, <3>2
  <2>2. CASE ~(DWordSum(addr, FontSize) <= ramSize)
    <3> DEFINE o == addr - TdaRomStart
    <3>1. DWordSum(o, FontSize) <= romSize
      BY <1>3, <2>2 DEF MapFont
    <3>2. ShownFont(ramSize, romSize, addr) = <<"rom", o>>
      BY <2>2, <3>1 DEF ShownFont
    <3>3. o \in Int /\ o < TdaSpace - TdaRomStart /\ 1 - TdaRomStart <= o
      BY <1>1
    <3> HIDE DEF o
    <3>4. /\ 0 <= o + FontSize => DWordSum(o, FontSize) = o + FontSize
          /\ o + FontSize < 0 => DWordSum(o, FontSize) = o + FontSize + TdaSpace
      <4>1. o + FontSize < TdaSpace /\ 0 - TdaSpace <= o + FontSize
        BY <1>1, <3>3
      <4> QED
        BY <1>1, <3>3, <4>1, SumsOfDWords
    <3>5. ~(o + FontSize < 0)
      BY <1>1, <3>1, <3>3, <3>4
    <3>6. o \in (0 .. romSize - FontSize) \cup (-FontSize .. -1)
      BY <1>1, <3>1, <3>3, <3>4, <3>5
    <3> QED
      BY <3>2, <3>6 DEF o
  <2> QED
    BY <2>1, <2>2
<1> QED
  BY <1>2, <1>3

-----------------------------------------------------------------------------
(* The picture                                                             *)

\* A number of two digits shows its digits.
LEMMA TwoDigits ==
  ASSUME NEW P \in Nat \ {0}, NEW n \in Nat
  PROVE  n \div P \in Nat /\ n % P \in 0 .. P - 1 /\ n = (n \div P) * P + (n % P)
  OBVIOUS

\* The pixel of a dot of a cell, by its column and its line in the picture.
LEMMA PixelOf ==
  ASSUME NEW c \in TextCells, NEW d \in Dots
  PROVE  /\ c[1] * CharSize + d[1] \in 0 .. WidthChars * CharSize - 1
         /\ c[2] * CharSize + d[2] \in 0 .. HeightChars * CharSize - 1
         /\ PixelAddr(c[1], c[2], d[1], d[2])
              = (c[1] * CharSize + d[1])
                  + WidthChars * CharSize * (c[2] * CharSize + d[2])
<1> DEFINE C == CharSize
<1>1. /\ c[1] \in Nat /\ c[2] \in Nat /\ d[1] \in Nat /\ d[2] \in Nat
      /\ c[1] < WidthChars /\ c[2] < HeightChars /\ d[1] < C /\ d[2] < C
      /\ C \in Nat /\ WidthChars \in Nat /\ HeightChars \in Nat
  BY DEF TextCells, Dots
<1>2. /\ c[1] * C \in Nat /\ c[2] * C \in Nat /\ WidthChars * C \in Nat
      /\ HeightChars * C \in Nat
  BY <1>1
<1>3. c[1] * C + d[1] < WidthChars * C
  BY <1>1, DigitsBelow
<1>4. c[2] * C + d[2] < HeightChars * C
  BY <1>1, DigitsBelow
<1>5. PixelAddr(c[1], c[2], d[1], d[2])
        = (c[1] * C + d[1]) + WidthChars * C * (c[2] * C + d[2])
  <2>1. d[2] + c[2] * C = c[2] * C + d[2] /\ d[1] + c[1] * C = c[1] * C + d[1]
    BY <1>1, <1>2
  <2>2. PixelAddr(c[1], c[2], d[1], d[2]) = d[1] + c[1] * C + WidthChars * C * (d[2] + c[2] * C)
    BY DEF PixelAddr
  <2> QED
    BY <2>1, <2>2
<1> QED
  BY <1>1, <1>2, <1>3, <1>4, <1>5

\* The cell and the dot that pixel i of line j shows.
CellOf(i, j) == <<i \div CharSize, j \div CharSize>>
DotOf(i, j) == <<i % CharSize, j % CharSize>>

\* A number of two digits has a small first digit.
LEMMA SmallQuotient ==
  ASSUME NEW P \in Nat \ {0}, NEW m \in Nat, NEW n \in 0 .. m * P - 1
  PROVE  n \div P \in 0 .. m - 1
<1>0. m * P \in Nat /\ n \in Nat /\ n < m * P
  OBVIOUS
<1>1. n \div P \in Nat /\ n % P \in 0 .. P - 1 /\ n = (n \div P) * P + (n % P)
  BY <1>0, TwoDigits
<1> DEFINE q == n \div P
           r == n % P
<1>2. q \in Nat /\ r \in Nat /\ n = q * P + r /\ n < m * P
  BY <1>0, <1>1
<1> HIDE DEF q, r
<1>3. ~(m <= q)
  <2> SUFFICES ASSUME m <= q PROVE FALSE
    OBVIOUS
  <2>1. q - m \in Nat /\ q = m + (q - m)
    BY <1>2
  <2>2. (q - m) * P \in Nat /\ m * P \in Nat
    BY <2>1
  <2>3. q * P = m * P + (q - m) * P
    BY <1>2, <2>1
  <2> QED
    BY <1>2, <2>2, <2>3
<1>4. q \in 0 .. m - 1
  BY <1>2, <1>3
<1> QED
  BY <1>4 DEF q

\* A pixel shows one dot of one cell.
LEMMA OneDot ==
  ASSUME NEW i \in 0 .. WidthChars * CharSize - 1, NEW j \in 0 .. HeightChars * CharSize - 1
  PROVE  /\ CellOf(i, j) \in TextCells /\ DotOf(i, j) \in Dots
         /\ \A c \in TextCells, d \in Dots :
              PixelAddr(c[1], c[2], d[1], d[2]) = i + WidthChars * CharSize * j
                <=> c = CellOf(i, j) /\ d = DotOf(i, j)
<1> DEFINE C == CharSize
           L == WidthChars * CharSize
<1>1. C \in Nat \ {0} /\ WidthChars \in Nat /\ HeightChars \in Nat /\ L \in Nat
  OBVIOUS
<1>2. i \in Nat /\ j \in Nat /\ i < L
  BY <1>1
<1>3. i \div C \in 0 .. WidthChars - 1 /\ j \div C \in 0 .. HeightChars - 1
  BY <1>1, SmallQuotient
<1>4. /\ i % C \in 0 .. C - 1 /\ j % C \in 0 .. C - 1
      /\ i = (i \div C) * C + (i % C) /\ j = (j \div C) * C + (j % C)
  BY <1>1, <1>2, TwoDigits
<1>5. CellOf(i, j) \in TextCells /\ DotOf(i, j) \in Dots
  BY <1>3, <1>4 DEF CellOf, DotOf, TextCells, Dots
<1>6. ASSUME NEW c \in TextCells, NEW d \in Dots
      PROVE  PixelAddr(c[1], c[2], d[1], d[2]) = i + L * j
               <=> c = CellOf(i, j) /\ d = DotOf(i, j)
  <2> DEFINE x == c[1] * C + d[1]
             y == c[2] * C + d[2]
  <2>1. /\ c[1] \in Nat /\ c[2] \in Nat /\ d[1] \in Nat /\ d[2] \in Nat
        /\ d[1] < C /\ d[2] < C /\ c = <<c[1], c[2]>> /\ d = <<d[1], d[2]>>
    BY DEF TextCells, Dots
  <2>2. /\ x \in Nat /\ y \in Nat /\ x < L
        /\ PixelAddr(c[1], c[2], d[1], d[2]) = x + L * y
    BY <1>1, <2>1, PixelOf
  <2> HIDE DEF x, y
  <2>3. x + L * y = i + L * j <=> x = i /\ y = j
    <3> HIDE DEF L
    <3>1. y * L \in Nat /\ j * L \in Nat /\ L * y = y * L /\ L * j = j * L
      BY <1>1, <1>2, <2>2
    <3>2. x + L * y = i + L * j => y * L + x = j * L + i
      BY <1>2, <2>2, <3>1
    <3>3. y * L + x = j * L + i => y = j /\ x = i
      BY <1>1, <1>2, <2>2, DigitsApart
    <3> QED
      BY <3>2, <3>3
  <2>4. x = i <=> c[1] = i \div C /\ d[1] = i % C
    <3> DEFINE q == i \div C
               r == i % C
               e == c[1]
               p == d[1]
    <3>1. /\ C \in Nat /\ q \in Nat /\ r \in Nat /\ r < C /\ i = q * C + r
          /\ e \in Nat /\ p \in Nat /\ p < C /\ x = e * C + p
      BY <1>1, <1>3, <1>4, <2>1 DEF x
    <3> HIDE DEF C, q, r, e, p
    <3>2. e * C + p = q * C + r => e = q /\ p = r
      BY <3>1, DigitsApart
    <3>3. x = i <=> e = q /\ p = r
      BY <3>1, <3>2
    <3> QED
      BY <3>3 DEF q, r, e, p, C
  <2>5. y = j <=> c[2] = j \div C /\ d[2] = j % C
    <3> DEFINE q == j \div C
               r == j % C
               e == c[2]
               p == d[2]
    <3>1. /\ C \in Nat /\ q \in Nat /\ r \in Nat /\ r < C /\ j = q * C + r
          /\ e \in Nat /\ p \in Nat /\ p < C /\ y = e * C + p
      BY <1>1, <1>3, <1>4, <2>1 DEF y
    <3> HIDE DEF C, q, r, e, p
    <3>2. e * C + p = q * C + r => e = q /\ p = r
      BY <3>1, DigitsApart
    <3>3. y = j <=> e = q /\ p = r
      BY <3>1, <3>2
    <3> QED
      BY <3>3 DEF q, r, e, p, C
  <2>6. /\ c = CellOf(i, j) <=> c[1] = i \div C /\ c[2] = j \div C
        /\ d = DotOf(i, j) <=> d[1] = i % C /\ d[2] = j % C
    <3>1. CellOf(i, j) = <<i \div C, j \div C>> /\ DotOf(i, j) = <<i % C, j % C>>
      BY DEF CellOf, DotOf
    <3> QED
      BY <2>1, <3>1
  <2> QED
    BY <2>2, <2>3, <2>4, <2>5, <2>6
<1> QED
  BY <1>5, <1>6

\* The addresses of pixels are those of the picture.
LEMMA PixelInTexture ==
  ASSUME NEW i \in 0 .. WidthChars * CharSize - 1, NEW j \in 0 .. HeightChars * CharSize - 1
  PROVE  i + WidthChars * CharSize * j \in 0 .. TextureSize - 1
<1> DEFINE L == WidthChars * CharSize
           H == HeightChars * CharSize
<1>1. L \in Nat /\ H \in Nat /\ i \in Nat /\ j \in Nat /\ i < L /\ j < H
  OBVIOUS
<1>2. TextureSize = H * L
  <2>1. WidthChars \in Nat /\ HeightChars \in Nat /\ CharSize \in Nat
    OBVIOUS
  <2> QED
    BY <2>1 DEF TextureSize
<1> HIDE DEF L, H
<1>3. j * L + i < H * L
  BY <1>1, DigitsBelow
<1>4. L * j = j * L /\ j * L \in Nat
  BY <1>1
<1>5. i + L * j \in 0 .. TextureSize - 1
  <2>1. H * L \in Nat
    BY <1>1
  <2> QED
    BY <1>1, <1>2, <1>3, <1>4, <2>1
<1> QED
  BY <1>5 DEF L

\* The colour the text gives a dot, and the dots the cursor paints over.
Ink(txt, font, c, d) == IF d \in font[txt[c].glyph] THEN txt[c].fg ELSE txt[c].bg
Under(cur, frames, c, d) ==
  cur.enabled /\ frames < 8 /\ <<cur.col, cur.row>> = c /\ d[2] \in cur.start .. cur.end

\* A set of writes puts x at address a and nothing else, if P holds, else nothing.
Puts(writes, a, x, P) == \A w : w \in writes /\ w[1] = a <=> w = <<a, x>> /\ P

\* What the text writes at a pixel.
LEMMA TextAt ==
  ASSUME NEW txt, NEW font,
         NEW i \in 0 .. WidthChars * CharSize - 1, NEW j \in 0 .. HeightChars * CharSize - 1
  PROVE  Puts(Text(txt, font), i + WidthChars * CharSize * j,
              Ink(txt, font, CellOf(i, j), DotOf(i, j)), TRUE)
<1> DEFINE a == i + WidthChars * CharSize * j
           c == CellOf(i, j)
           d == DotOf(i, j)
           ink(cc, dd) == Ink(txt, font, cc, dd)
           At(cc, dd) == PixelAddr(cc[1], cc[2], dd[1], dd[2])
<1>1. /\ c \in TextCells /\ d \in Dots
      /\ \A cc \in TextCells, dd \in Dots : At(cc, dd) = a <=> cc = c /\ dd = d
  BY OneDot
<1>2. Text(txt, font) = {<<At(cc, dd), ink(cc, dd)>> : cc \in TextCells, dd \in Dots}
  BY DEF Text, Ink
<1> SUFFICES \A w : w \in Text(txt, font) /\ w[1] = a <=> w = <<a, ink(c, d)>>
  BY DEF Puts
<1> HIDE DEF a, c, d, ink, At
<1> QED
  BY <1>1, <1>2

\* ... and the cursor.
LEMMA CursorAt ==
  ASSUME NEW cur \in Cursors,
         NEW frames \in Nat,
         NEW i \in 0 .. WidthChars * CharSize - 1, NEW j \in 0 .. HeightChars * CharSize - 1
  PROVE  Puts(Cursor(cur, frames), i + WidthChars * CharSize * j, cur.color,
              Under(cur, frames, CellOf(i, j), DotOf(i, j)))
<1> DEFINE a == i + WidthChars * CharSize * j
           c == CellOf(i, j)
           d == DotOf(i, j)
           At(cc, dd) == PixelAddr(cc[1], cc[2], dd[1], dd[2])
<1>1. /\ c \in TextCells /\ d \in Dots
      /\ \A cc \in TextCells, dd \in Dots : At(cc, dd) = a <=> cc = c /\ dd = d
  BY OneDot
<1> SUFFICES \A w : w \in Cursor(cur, frames) /\ w[1] = a <=> w = <<a, cur.color>> /\ Under(cur, frames, c, d)
  BY DEF Puts
<1> HIDE DEF a, c, d, At
<1>2. /\ cur.enabled \in BOOLEAN /\ cur.row \in Nat /\ cur.col \in Nat
      /\ cur.start \in 0 .. CharSize - 1 /\ cur.end \in 0 .. CharSize - 1
  BY DEF Cursors
<1>3. CASE cur.enabled /\ frames < 8 /\ cur.row < HeightChars /\ cur.col < WidthChars
  <2> DEFINE cc == <<cur.col, cur.row>>
  <2>1. cc \in TextCells
    BY <1>2, <1>3 DEF TextCells
  <2>2. Cursor(cur, frames) = {<<PixelAddr(cur.col, cur.row, x, y), cur.color>> :
                            x \in 0 .. CharSize - 1, y \in cur.start .. cur.end}
    BY <1>3 DEF Cursor
  <2>3. \A x \in 0 .. CharSize - 1, y \in cur.start .. cur.end :
          /\ <<x, y>> \in Dots
          /\ PixelAddr(cur.col, cur.row, x, y) = At(cc, <<x, y>>)
    BY <1>2 DEF Dots, At
  <2>4. \A x \in 0 .. CharSize - 1, y \in cur.start .. cur.end :
          PixelAddr(cur.col, cur.row, x, y) = a <=> cc = c /\ <<x, y>> = d
    BY <1>1, <2>1, <2>3
  <2>5. \A w : w \in Cursor(cur, frames) /\ w[1] = a
          <=> \E x \in 0 .. CharSize - 1, y \in cur.start .. cur.end :
                w = <<a, cur.color>> /\ cc = c /\ <<x, y>> = d
    BY <2>2, <2>4
  <2>6. d[1] \in 0 .. CharSize - 1 /\ d = <<d[1], d[2]>>
    BY <1>1 DEF Dots
  <2>7. (\E x \in 0 .. CharSize - 1, y \in cur.start .. cur.end : <<x, y>> = d)
          <=> d[2] \in cur.start .. cur.end
    BY <2>6
  <2>8. \A w : w \in Cursor(cur, frames) /\ w[1] = a
          <=> w = <<a, cur.color>> /\ cc = c /\ d[2] \in cur.start .. cur.end
    BY <2>5, <2>7
  <2> QED
    BY <1>3, <2>8 DEF Under
<1>4. CASE ~(cur.enabled /\ frames < 8 /\ cur.row < HeightChars /\ cur.col < WidthChars)
  <2>1. Cursor(cur, frames) = {}
    BY <1>4 DEF Cursor
  <2>2. ~(cur.enabled /\ frames < 8 /\ <<cur.col, cur.row>> = c)
    BY <1>1, <1>4 DEF TextCells
  <2> QED
    BY <2>1, <2>2 DEF Under
<1> QED
  BY <1>3, <1>4

\* Every pixel has one colour, that of the dot it shows, for a display of any size.
LEMMA PictureHolds == PictureAgrees
<1> SUFFICES ASSUME NEW txt \in Texts, NEW cur \in Cursors, NEW frames \in Frames,
                    NEW i \in 0 .. WidthChars * CharSize - 1,
                    NEW j \in 0 .. HeightChars * CharSize - 1
             PROVE  Texture(txt, Font, cur, frames)[i + WidthChars * CharSize * j]
                      = {Expected(txt, cur, frames, CellOf(i, j), DotOf(i, j))}
  BY DEF PictureAgrees, CellOf, DotOf
<1> DEFINE a == i + WidthChars * CharSize * j
           c == CellOf(i, j)
           d == DotOf(i, j)
           ink == Ink(txt, Font, c, d)
           top == Cursor(cur, frames)
           text == Text(txt, Font)
           writes == {w \in text : \A v \in top : v[1] # w[1]} \cup top
<1>0. frames \in Nat
  BY DEF Frames
<1>1. a \in 0 .. TextureSize - 1
  BY PixelInTexture
<1>2. Texture(txt, Font, cur, frames) = [b \in 0 .. TextureSize - 1 |->
                                      {w[2] : w \in {v \in writes : v[1] = b}}]
  BY DEF Texture
<1>3. Texture(txt, Font, cur, frames)[a] = {w[2] : w \in {v \in writes : v[1] = a}}
  BY <1>1, <1>2
<1>4. \A w : w \in text /\ w[1] = a <=> w = <<a, ink>>
  <2>1. Puts(text, a, ink, TRUE)
    BY TextAt
  <2> HIDE DEF text, a, ink
  <2> QED
    BY <2>1 DEF Puts
<1>5. \A w : w \in top /\ w[1] = a <=> w = <<a, cur.color>> /\ Under(cur, frames, c, d)
  <2>1. Puts(top, a, cur.color, Under(cur, frames, c, d))
    BY <1>0, CursorAt
  <2> HIDE DEF top, a, c, d
  <2> QED
    BY <2>1 DEF Puts
<1>6. Expected(txt, cur, frames, c, d) = IF Under(cur, frames, c, d) THEN cur.color ELSE ink
  BY DEF Expected, Ink, Under
<1> SUFFICES {w[2] : w \in {v \in writes : v[1] = a}} = {Expected(txt, cur, frames, c, d)}
  BY <1>3
<1> HIDE DEF a, c, d, ink, top, text
<1>7. CASE Under(cur, frames, c, d)
  <2>1. \A v : v \in writes /\ v[1] = a <=> v = <<a, cur.color>>
    BY <1>4, <1>5, <1>7
  <2>2. {v \in writes : v[1] = a} = {<<a, cur.color>>}
    BY <2>1
  <2>3. {w[2] : w \in {<<a, cur.color>>}} = {cur.color}
    OBVIOUS
  <2> HIDE DEF writes
  <2> QED
    BY <1>6, <1>7, <2>2, <2>3
<1>8. CASE ~Under(cur, frames, c, d)
  <2>1. \A v : v \in writes /\ v[1] = a <=> v = <<a, ink>>
    BY <1>4, <1>5, <1>8
  <2>2. {v \in writes : v[1] = a} = {<<a, ink>>}
    BY <2>1
  <2>3. {w[2] : w \in {<<a, ink>>}} = {ink}
    OBVIOUS
  <2> HIDE DEF writes
  <2> QED
    BY <1>6, <1>8, <2>2, <2>3
<1> QED
  BY <1>7, <1>8

\* What the guest wrote is what the screen shows, for a display of any size: every pixel
\* shows its dot (tda.cpp), and what is mapped is what is dumped (tda.hpp), from where the
\* sums say.
THEOREM ScreenShows == ScreenAgrees
  BY PictureHolds, MappedShows DEF ScreenAgrees

-----------------------------------------------------------------------------
(* Side by side                                                            *)

\* Side by side, each device and the breakpoints behave as they do alone: what is proved
\* of one holds of them all (the slots of vcomputer.hpp share nothing).
THEOREM DevicesAreAlone ==
  Spec => /\ FloppySpec /\ DiskSpec /\ KeyboardSpec /\ BusSpec
          /\ BlockSpec /\ NvramSpec /\ TimerSpec /\ BreakSpec
<1>1. Init => /\ FloppyInit /\ DiskInit /\ KeyboardInit /\ BusInit
              /\ BlockInit /\ NvramInit /\ TimerInit /\ BreakInit
  BY DEF Init
<1>2. [Next]_vars => /\ [FloppyNext]_floppyVars /\ [DiskNext]_diskVars
                     /\ [KeyboardNext]_keyVars /\ [BusNext]_busVars
                     /\ [BlockNext]_blockVars /\ [EmulatorNext]_nvramVars
                     /\ [TimerNext]_timerVars /\ [BreakNext]_breakVars
  BY DEF Next, vars, MoveFloppy, MoveDisk, MoveKeys, MoveBus, MoveBlock, MoveNvram,
         MoveTimer, MoveDebugger
<1> QED
  BY <1>1, <1>2, PTL
     DEF Spec, FloppySpec, DiskSpec, KeyboardSpec, BusSpec, BlockSpec, NvramSpec, TimerSpec,
         BreakSpec

\* The ranges of the computer and of its host lie in the address space.
RangesOnBus ==
  /\ \A l \in Embedded : l.start \in 0 .. AddrSpace - 1 /\ l.end \in l.start .. AddrSpace - 1
  /\ \A r \in HostRange : r[1] \in 0 .. AddrSpace - 1 /\ r[2] \in r[1] .. AddrSpace - 1

ListenersOnBus ==
  \A l \in listeners : l.start \in 0 .. AddrSpace - 1 /\ l.end \in l.start .. AddrSpace - 1

LEMMA InsertedOnBus ==
  ASSUME ListenersOnBus, NEW new,
         new.start \in 0 .. AddrSpace - 1 /\ new.end \in new.start .. AddrSpace - 1,
         listeners' = Inserted(listeners, new)
  PROVE  ListenersOnBus'
BY DEF ListenersOnBus, Inserted

\* Listeners stay in the address space when the host's do (addr_listener.hpp).
THEOREM BusTypes == ASSUME RangesOnBus PROVE BusSpec => []BusTypeOK
<1> DEFINE Inv == ListenersOnBus /\ asked \in Slot \cup {NoSlot}
<1>1. BusInit => Inv
  BY RangesOnBus DEF BusInit, ListenersOnBus, RangesOnBus
<1>2. Inv /\ [BusNext]_busVars => Inv'
  <2> SUFFICES ASSUME Inv, [BusNext]_busVars PROVE Inv'
    OBVIOUS
  <2>1. ASSUME NEW s \in Slot, RmDevice(s) PROVE Inv'
    BY <2>1 DEF RmDevice, ListenersOnBus
  <2>2. ASSUME NEW s \in Slot, NEW d \in Device, AddDevice(s, d) PROVE Inv'
    <3> DEFINE new == Listener(GetRange(s)[1], GetRange(s)[2], d)
    <3>1. /\ new.start = SlotBase + s * SlotStep
          /\ new.end = SlotBase + s * SlotStep + EnumCtrlBlkSize
      BY DEF Listener, GetRange, BlockStart
    <3>2. s * SlotStep \in Nat /\ SlotBase \in Nat /\ EnumCtrlBlkSize \in Nat
          /\ AddrSpace \in Nat /\ SlotBase + s * SlotStep + EnumCtrlBlkSize < AddrSpace
      BY BusAssumption
    <3>3. new.start \in 0 .. AddrSpace - 1 /\ new.end \in new.start .. AddrSpace - 1
      BY <3>1, <3>2
    <3>4. listeners' = Inserted(listeners, new) /\ asked' = asked
      BY <2>2 DEF AddDevice
    <3> HIDE DEF new
    <3> QED
      BY <3>3, <3>4, InsertedOnBus
  <2>3. CASE AddAddrListener
    <3>1. PICK r \in HostRange : listeners' = Inserted(listeners, Listener(r[1], r[2], "host"))
      BY <2>3 DEF AddAddrListener
    <3> DEFINE new == Listener(r[1], r[2], "host")
    <3>2. new.start \in 0 .. AddrSpace - 1 /\ new.end \in new.start .. AddrSpace - 1
      BY RangesOnBus DEF Listener, RangesOnBus
    <3>3. asked' = asked
      BY <2>3 DEF AddAddrListener
    <3> HIDE DEF new
    <3>4. listeners' = Inserted(listeners, new)
      BY <3>1 DEF new
    <3> QED
      BY <3>2, <3>3, <3>4, InsertedOnBus
  <2>4. CASE RmAddrListener
    <3>1. listeners' \subseteq listeners /\ asked' = asked
      BY <2>4 DEF RmAddrListener
    <3> QED
      BY <3>1 DEF ListenersOnBus
  <2>5. ASSUME NEW a \in 0 .. AddrSpace + RamSize, NEW width \in {1, 2, 4}, Access(a, width)
        PROVE  Inv'
    <3>1. listeners' = listeners
      BY <2>5 DEF Access
    <3>2. asked' = IF BlockOf(a % AddrSpace) = {} THEN NoSlot
                   ELSE CHOOSE s \in BlockOf(a % AddrSpace) : TRUE
      BY <2>5 DEF Access
    <3>3. BlockOf(a % AddrSpace) \subseteq Slot
      BY DEF BlockOf
    <3>4. asked' \in Slot \cup {NoSlot}
      <4> HIDE DEF BlockOf
      <4>1. CASE BlockOf(a % AddrSpace) = {}
        BY <4>1, <3>2
      <4>2. CASE BlockOf(a % AddrSpace) # {}
        BY <4>2, <3>2, <3>3
      <4> QED
        BY <4>1, <4>2
    <3> QED
      BY <3>1, <3>4 DEF ListenersOnBus
  <2>6. CASE UNCHANGED busVars
    BY <2>6 DEF busVars, ListenersOnBus
  <2> QED
    BY <2>1, <2>2, <2>3, <2>4, <2>5, <2>6 DEF BusNext
<1>3. BInv /\ Inv => BusTypeOK
  BY DEF BInv, ListenersOnBus, BusTypeOK
<1> QED
  BY <1>1, <1>2, <1>3, BusInvariant, PTL DEF BusSpec

\* The types of all devices, side by side.
THEOREM DevicesAreTyped == ASSUME RangesOnBus PROVE Spec => []DevicesTypeOK
<1>1. FInv => FloppyTypeOK
  BY DEF FInv
<1>2. FileInv => DiskTypeOK
  BY DEF FileInv
<1>3. KInv => KeyboardTypeOK
  BY DEF KInv
<1>4. BlockInv(block, guest, late) => BlockTypeOK
  BY DEF BlockInv, BlockType, GuestType, BlockTypeOK, Half, Maybe
<1>5. StoreInv => EmulatorTypeOK
  <2> SUFFICES ASSUME StoreTypes PROVE EmulatorTypeOK
    BY DEF StoreInv
  <2>1. \A e \in Contents : e \in Seq(NvramValue)
    BY ContentsAreWhole
  <2>2. << >> \in Seq(NvramValue)
    OBVIOUS
  <2> QED
    BY <2>1, <2>2 DEF StoreTypes, EmulatorTypeOK
<1>6. BusSpec => []BusTypeOK
  BY BusTypes
<1> QED
  BY <1>1, <1>2, <1>3, <1>4, <1>5, <1>6, DevicesAreAlone, FloppyInvariant, FileInvariant,
     KeyboardInvariant, BlockInvariant, NvramInvariant, TimerTypes, TypesAreKept, PTL
     DEF DevicesTypeOK

\* Sectors in an image (media.cpp) do not overlap and all but the last of each track are
\* reached, for every geometry.
THEOREM AddressesHold == Spec => []AddressesAgree
<1>1. AddressesAgree
  BY AddressesAreApart DEF AddressesAgree
<1> QED
  BY <1>1, PTL

\* The screen (tda.cpp) shows what the guest maps and draws, for a display of any size.
THEOREM PicturesHold == Spec => []PicturesAgree
<1>1. PicturesAgree
  BY ScreenShows DEF PicturesAgree
<1> QED
  BY <1>1, PTL

\* Arithmetic, loads and stores, calls, interrupt frames, jumps and swaps compute what they
\* mean, for words of any width.
THEOREM InstructionsAreRight == Spec => []InstructionsAgree
<1>1. InstructionsAgree
  BY InstructionsOfSome DEF InstructionsAgree
<1> QED
  BY <1>1, PTL
=============================================================================
