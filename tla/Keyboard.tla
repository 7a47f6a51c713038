------------------------------ MODULE Keyboard ------------------------------
(***************************************************************************)
(* The keyboard (gkeyb.cpp) between the emulator's key handler (main.cpp), *)
(* which puts events into its buffer, and the guest, which takes them out  *)
(* and may put one back.                                                   *)
(***************************************************************************)
EXTENDS Integers, Sequences

CONSTANTS
  BSIZE,      \* events the buffer holds (64)
  ModKey,     \* keys that change the modifiers
  ModOf(_),   \* the modifier of each
  OtherKey,   \* keys with an event of their own (escape, enter, the arrows ...)
  CharKey,    \* keys that are only seen as characters
  NoKey,      \* no key (0)
  MaxEvents   \* bound on the number of events

Key == ModKey \cup OtherKey \cup CharKey
Mod == {ModOf(k) : k \in ModKey}

ASSUME KeyboardAssumption == BSIZE \in Nat \ {0} /\ MaxEvents \in Nat /\ NoKey \notin Key

VARIABLES
  keyboard,   \* the device's buffer and registers
  handler,    \* the handler's prev_key and mod
  down,       \* history: the keys that are down
  events      \* history: the number of events so far

keyVars == <<keyboard, handler, down, events>>

\* An event names its key and modifiers.  "at" is its number in the order of
\* typing, 0 for one made up by the guest; no code looks at it.
Event(scancode, status, at) == [scancode |-> scancode, status |-> status, at |-> at]
NoEvent == Event(NoKey, {}, 0)

KeyboardInit ==
  /\ keyboard = [keybuffer |-> <<>>, reg |-> NoEvent]
  /\ handler = [prev_key |-> NoKey, mod |-> {}]
  /\ down = {} /\ events = 0

-----------------------------------------------------------------------------
(* The host                                                                *)

\* A full buffer drops its oldest event.
EnforceSendKeyEvent(buf, e) ==
  Append(IF Len(buf) >= BSIZE THEN Tail(buf) ELSE buf, e)

\* Every event of the host carries the modifiers of the moment.
Type(scancode) ==
  /\ events < MaxEvents
  /\ events' = events + 1
  /\ keyboard' = [keyboard EXCEPT !.keybuffer =
                    EnforceSendKeyEvent(@, Event(scancode, handler.mod, events + 1))]

\* SendKeyEvent, for hosts other than the emulator: a full buffer takes no more.
SendKeyEvent ==
  /\ events < MaxEvents
  /\ events' = events + 1
  /\ \E k \in CharKey :
       keyboard' = IF Len(keyboard.keybuffer) >= BSIZE THEN keyboard
                   ELSE [keyboard EXCEPT !.keybuffer =
                           Append(@, Event(k, handler.mod, events + 1))]
  /\ UNCHANGED <<handler, down>>

KeyDown(k) ==
  /\ k \notin down
  /\ down' = down \cup {k}
  /\ handler' = [prev_key |-> k,
                 mod |-> handler.mod \cup (IF k \in ModKey THEN {ModOf(k)} ELSE {})]
  /\ IF k \in CharKey THEN UNCHANGED <<keyboard, events>> ELSE Type(k)

\* Mutant: a modifier key that comes up is forgotten only when it was pressed last.
Released_Last(k) ==
  IF k \in ModKey /\ k = handler.prev_key THEN handler.mod \ {ModOf(k)} ELSE handler.mod

\* Either of the two keys of a modifier clears it.
Released(k) == IF k \in ModKey THEN handler.mod \ {ModOf(k)} ELSE handler.mod

KeyUp(k) ==
  /\ k \in down
  /\ down' = down \ {k}
  /\ handler' = [handler EXCEPT !.mod = Released(k)]
  /\ UNCHANGED <<keyboard, events>>

\* The character of a key that is down, also when it repeats.  Its scancode is
\* that of the key pressed last, whichever key the character is of.
CharDown ==
  /\ down \cap CharKey # {}
  /\ Type(handler.prev_key)
  /\ UNCHANGED <<handler, down>>

-----------------------------------------------------------------------------
(* The guest                                                               *)

CLR_BUFFER ==
  /\ keyboard' = [keyboard EXCEPT !.keybuffer = <<>>]
  /\ UNCHANGED <<handler, down, events>>

PULL_KEY ==
  /\ keyboard' = IF keyboard.keybuffer = <<>>
                 THEN [keyboard EXCEPT !.reg = NoEvent]
                 ELSE [keybuffer |-> Tail(keyboard.keybuffer),
                       reg |-> Head(keyboard.keybuffer)]
  /\ UNCHANGED <<handler, down, events>>

\* Mutant: the event goes to the end of the buffer.
PUSH_KEY_Back ==
  /\ keyboard.reg.at > 0
  /\ keyboard' = [keybuffer |-> IF Len(keyboard.keybuffer) < BSIZE
                                THEN Append(keyboard.keybuffer, keyboard.reg)
                                ELSE keyboard.keybuffer,
                  reg |-> [keyboard.reg EXCEPT !.at = 0]]
  /\ UNCHANGED <<handler, down, events>>

\* The guest puts back what it took, once, and before it takes the next.  There
\* may be no room any more.
PUSH_KEY ==
  /\ keyboard.reg.at > 0
  /\ keyboard' = [keybuffer |-> IF Len(keyboard.keybuffer) < BSIZE
                                THEN <<keyboard.reg>> \o keyboard.keybuffer
                                ELSE keyboard.keybuffer,
                  reg |-> [keyboard.reg EXCEPT !.at = 0]]
  /\ UNCHANGED <<handler, down, events>>

\* The guest writes A, as SET_INT needs it.  C(Word) writes A too, so no guest can
\* set the modifiers of an event it makes up.
WriteKey ==
  /\ keyboard' = [keyboard EXCEPT !.reg.at = 0]
  /\ UNCHANGED <<handler, down, events>>

KeyboardReset ==
  /\ keyboard' = [keybuffer |-> <<>>, reg |-> NoEvent]
  /\ UNCHANGED <<handler, down, events>>

KeyboardNext ==
  \/ \E k \in Key : KeyDown(k) \/ KeyUp(k)
  \/ CharDown \/ SendKeyEvent
  \/ CLR_BUFFER \/ PULL_KEY \/ PUSH_KEY \/ WriteKey \/ KeyboardReset

KeyboardSpec == KeyboardInit /\ [][KeyboardNext]_keyVars

-----------------------------------------------------------------------------
EventType ==
  [scancode : Key \cup {NoKey}, status : SUBSET Mod, at : 0 .. MaxEvents]

KeyboardTypeOK ==
  /\ keyboard \in [keybuffer : Seq(EventType), reg : EventType]
  /\ Len(keyboard.keybuffer) <= BSIZE
  /\ handler \in [prev_key : Key \cup {NoKey}, mod : SUBSET Mod]
  /\ down \subseteq Key
  /\ events \in 0 .. MaxEvents

\* The guest gets the events in the order of typing and none of them twice, though a
\* full buffer drops the oldest and the guest puts events back.
KeysInOrder ==
  LET todo == (IF keyboard.reg.at > 0 THEN <<keyboard.reg>> ELSE <<>>)
                \o keyboard.keybuffer
  IN  \A i, j \in DOMAIN todo : i < j => todo[i].at < todo[j].at

\* An event carries a modifier only when one of the modifier's keys was down as it
\* was typed.
StatusIsHeld ==
  [][\A e \in {keyboard'.keybuffer[i] : i \in DOMAIN keyboard'.keybuffer} :
       e.at > events => e.status \subseteq {ModOf(k) : k \in down \cap ModKey}]_keyVars
=============================================================================
