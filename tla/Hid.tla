--------------------------------- MODULE Hid ---------------------------------
(***************************************************************************)
(* kernel/drivers/hid.c: keyboard and mouse bytes become events in a ring  *)
(* that the main loop of ui/shell.c empties.                               *)
(*                                                                         *)
(* The main loop asks the serial line and the virtio-input devices before  *)
(* it empties the ring.  On the PC (PS2) the interrupt handlers of         *)
(* keyboard and mouse are producers too; they run with interrupts off and  *)
(* cut into the main loop anywhere, also between the accesses of its own   *)
(* push_event.  The devices are modelled from what the handlers read.      *)
(*                                                                         *)
(* Left out of an event: the raw scan code and the deltas, which nothing   *)
(* reads back.  A slot is blank once its event has been read, and          *)
(* mouse_bytes holds the bytes of the packet under way (mouse_cycle is its *)
(* length): what was there before is never read.  Keys, buttons and        *)
(* characters are those the code tells apart; held, dev_buttons, seen,     *)
(* lost, raced and fifo record what happened.                              *)
(***************************************************************************)
EXTENDS Integers, Sequences, SequencesExt

CONSTANTS EVENT_QUEUE_SIZE,       \* 256 in the code
          PS2,                    \* built for x86_64
          Keys, VirtioKeys,       \* keys of the keyboard and of a virtio-input one
          Buttons, VirtioButtons, \* buttons of the mouse and of a virtio-input one
          Deltas, VirtioDeltas,   \* their movements, <<dx, dy>>
          mouse_max_x, mouse_max_y,
          Chars,                  \* characters that come over the serial line
          RxMax                   \* bound: unread characters

VARIABLES ring,                   \* event_queue and eq_head
          eq_tail,
          current_modifiers, mouse_pos, mouse_buttons, kb_extended,
          mouse_bytes,
          stage, copy,            \* main loop: where it is, the event it copied
          call,                   \* its call of a producer and of push_event under way
          stroke, packet, rx,     \* bytes the devices have still to deliver
          held, dev_buttons,      \* what is pressed on the devices
          seen,                   \* what a consumer that follows the events believes
          fifo,                   \* what a bounded queue would hold
          lost, raced             \* an event was dropped; an interrupt cut into a call

devvars == <<stroke, packet, rx, held, dev_buttons>>
ptrvars == <<mouse_pos, mouse_buttons>>
vars    == <<ring, eq_tail, current_modifiers, ptrvars, kb_extended, mouse_bytes,
             stage, copy, call, devvars, seen, fifo, lost, raced>>

NoKey == "none"
Slots == 0 .. EVENT_QUEUE_SIZE - 1
Succ(i) == (i + 1) % EVENT_QUEUE_SIZE

(* What each key sends: an optional 0xE0 and a code, with the high bit set  *)
(* on release.  0x38 is the left Alt key alone and the right one prefixed.  *)
Scan(k) == CASE k = "LALT" -> << "38" >> [] k = "RALT" -> << "E0", "38" >>
             [] k = "A" -> << "1E" >>    [] k = "KP_SLASH" -> << "E0", "35" >>
             [] k = "CAPSLOCK" -> << "3A" >>

scancode_table == [c \in {"38", "1E", "3A", "35"} |->
                     CASE c = "38" -> "LALT" [] c = "1E" -> "A" [] c = "3A" -> "CAPSLOCK"
                       [] c = "35" -> "SLASH"]
extended_table == [c \in {"38", "1E", "3A", "35"} |-> IF c = "38" THEN "RALT" ELSE NoKey]

(* The key code the driver has for a key; unknown ones are ignored.         *)
Known(k) == k # "KP_SLASH"

Modifier(k) == CASE k = "LALT" -> {"MOD_LALT"} [] k = "RALT" -> {"MOD_RALT"} [] OTHER -> {}

-----------------------------------------------------------------------------
(* Mutation: a full ring is not recognised.                                 *)
push_event_Unchecked(r, ev) == [r EXCEPT !.q[r.head] = ev, !.head = Succ(r.head)]

push_event(r, ev) == IF Succ(r.head) = eq_tail THEN r
                     ELSE [r EXCEPT !.q[r.head] = ev, !.head = Succ(r.head)]

(* An interrupt handler pushes: the events go into the ring in turn; fifo   *)
(* and lost follow the rule of a queue with one place less than the ring.   *)
(* It races when the main loop is past the first read of its own push.      *)
Push(evs) == LET room == EVENT_QUEUE_SIZE - 1 - Len(fifo) IN
  /\ ring' = FoldLeft(push_event, ring, evs)
  /\ fifo' = fifo \o SubSeq(evs, 1, IF room < Len(evs) THEN room ELSE Len(evs))
  /\ lost' = (lost \/ room < Len(evs))
  /\ raced' = (raced \/ (evs # << >> /\ call.pc \notin {"none", "check"})
                    \/ (call.pc # "none" /\ current_modifiers' # current_modifiers))

Event(type, kc, mods, pos, buttons, changed) ==
  [type |-> type, keycode |-> kc, modifiers |-> mods, pos |-> pos,
   buttons |-> buttons, changed |-> changed]
Blank == Event(NoKey, NoKey, {}, <<0, 0>>, {}, {})

update_modifiers(mods, kc, pressed) ==
  IF kc = "CAPSLOCK"
  THEN IF ~pressed THEN mods
       ELSE (mods \cup {"MOD_CAPS"}) \ (mods \cap {"MOD_CAPS"})
  ELSE IF pressed THEN mods \cup Modifier(kc) ELSE mods \ Modifier(kc)

KeyEvent(kc, press) ==
  Event(IF press THEN "PRESS" ELSE "RELEASE", kc, current_modifiers',
        mouse_pos, mouse_buttons, {})

(* Mutation: a prefixed code without an entry is taken for a plain one.     *)
KeyOf_Fallback(code) == IF kb_extended /\ extended_table[code] # NoKey THEN extended_table[code]
                      ELSE scancode_table[code]

KeyOf(code) == IF kb_extended THEN extended_table[code] ELSE scancode_table[code]

(* Interrupt 1: one byte.                                                   *)
keyboard_handler(code, released) ==
  \/ /\ code = "E0"
     /\ kb_extended' = TRUE
     /\ UNCHANGED <<ring, fifo, lost, raced, current_modifiers>>
  \/ /\ code # "E0"
     /\ kb_extended' = FALSE
     /\ IF KeyOf(code) = NoKey THEN UNCHANGED <<ring, fifo, lost, raced, current_modifiers>>
        ELSE /\ current_modifiers' = update_modifiers(current_modifiers, KeyOf(code), ~released)
             /\ Push(<< KeyEvent(KeyOf(code), ~released) >>)

Clamp(v, max) == IF v < 0 THEN 0 ELSE IF v >= max THEN max - 1 ELSE v
Moved(d) == << Clamp(mouse_pos[1] + d[1], mouse_max_x), Clamp(mouse_pos[2] + d[2], mouse_max_y) >>

(* One event for every button that changed, lowest bit first.               *)
ButtonEvents(new, pos) ==
  LET One(b) == Event(IF b \in new THEN "BTN_DOWN" ELSE "BTN_UP", NoKey, current_modifiers,
                      pos, new, {b})
      changed == (mouse_buttons \ new) \cup (new \ mouse_buttons)
  IN [i \in 1 .. Len(SetToSortSeq(changed, <)) |-> One(SetToSortSeq(changed, <)[i])]

(* Interrupt 12: one byte of a packet of three: buttons, dx, dy.  The first *)
(* has bit 3 set, which is asked of it alone.                               *)
mouse_handler(byte) ==
  IF Len(mouse_bytes) < 2
  THEN /\ mouse_bytes' = IF mouse_bytes = << >> /\ ~byte.bit3 THEN << >>
                         ELSE Append(mouse_bytes, byte.val)
       /\ UNCHANGED <<ring, fifo, lost, raced, ptrvars>>
  ELSE LET d   == << mouse_bytes[2], 0 - byte.val >>
           new == mouse_bytes[1]
           pos == Moved(d)
           move == Event("MOVE", NoKey, current_modifiers, pos, new, {})
           same == Event("BUTTON", NoKey, current_modifiers, pos, new, {})
       IN /\ mouse_bytes' = << >>
          /\ mouse_pos' = pos /\ mouse_buttons' = new
          /\ Push((IF d # <<0, 0>> THEN << move >> ELSE << >>) \o ButtonEvents(new, pos)
                  \o (IF d = <<0, 0>> /\ new = mouse_buttons THEN << same >> ELSE << >>))

-----------------------------------------------------------------------------
(* push_event as the main loop runs it, with interrupts on: the check, the  *)
(* read of eq_head for the index (it is volatile and read again), the two   *)
(* halves of the copy, and the store of the new head.  The events of a      *)
(* producer are built on entry.                                             *)
NoCall == [pc |-> "none", evs |-> << >>, next |-> 0, at |-> 0, saved |-> {}, alt |-> FALSE]

Enter(evs, alt) == call' = [NoCall EXCEPT !.pc = "check", !.evs = evs, !.alt = alt,
                                          !.saved = IF alt THEN current_modifiers ELSE {}]

FirstHalf(old, ev)  == IF old = Blank THEN ev
                       ELSE [old EXCEPT !.type = ev.type, !.keycode = ev.keycode]
SecondHalf(old, ev) == [ev EXCEPT !.type = old.type, !.keycode = old.keycode]

MainPush ==
  LET ev == Head(call.evs)
      Write(new) == ring' = [ring EXCEPT !.q[call.at] = new]
      Goto(l) == call' = [call EXCEPT !.pc = l]
  IN
  /\ call.evs # << >>
  /\ \/ /\ call.pc = "check" /\ Succ(ring.head) = eq_tail
        /\ call' = [call EXCEPT !.evs = Tail(@)] /\ lost' = TRUE
        /\ UNCHANGED <<ring, fifo>>
     \/ /\ call.pc = "check" /\ Succ(ring.head) # eq_tail
        /\ call' = [call EXCEPT !.pc = "index", !.next = Succ(ring.head)]
        /\ UNCHANGED <<ring, fifo, lost>>
     \/ /\ call.pc = "index"
        /\ call' = [call EXCEPT !.pc = "copy", !.at = ring.head]
        /\ UNCHANGED <<ring, fifo, lost>>
     \/ /\ call.pc = "copy" /\ Write(FirstHalf(ring.q[call.at], ev)) /\ Goto("copying")
        /\ UNCHANGED <<fifo, lost>>
     \/ /\ call.pc = "copying" /\ Write(SecondHalf(ring.q[call.at], ev)) /\ Goto("store")
        /\ UNCHANGED <<fifo, lost>>
     \/ /\ call.pc = "store"
        /\ ring' = [ring EXCEPT !.head = call.next] /\ fifo' = Append(fifo, ev)
        /\ call' = [call EXCEPT !.pc = "check", !.evs = Tail(@), !.next = 0, !.at = 0]
        /\ UNCHANGED lost
  /\ UNCHANGED <<eq_tail, current_modifiers, ptrvars, kb_extended, mouse_bytes, stage, copy,
                 devvars, seen, raced>>

(* The producer is done.  hid_poll_serial takes MOD_LALT back, from the     *)
(* modifiers as they are or as the compiler has kept them since the entry.  *)
MainReturn ==
  /\ call.pc = "check" /\ call.evs = << >> /\ call' = NoCall
  /\ current_modifiers' \in IF call.alt THEN {m \ {"MOD_LALT"} : m \in {current_modifiers, call.saved}}
                            ELSE {current_modifiers}
  /\ stage' = IF stage = "serial" THEN "virtio" ELSE stage
  /\ UNCHANGED <<ring, eq_tail, ptrvars, kb_extended, mouse_bytes, copy, devvars, seen,
                 fifo, lost, raced>>

-----------------------------------------------------------------------------
(* virtio-input: key, button, relative movement and wheel events.           *)
hid_feed_key(kc, press) ==
  /\ current_modifiers' = update_modifiers(current_modifiers, kc, press)
  /\ Enter(<< KeyEvent(kc, press) >>, FALSE)
  /\ UNCHANGED ptrvars

hid_feed_mouse_rel(d) ==
  /\ d # <<0, 0>>
  /\ mouse_pos' = Moved(d)
  /\ Enter(<< Event("MOVE", NoKey, current_modifiers, Moved(d), mouse_buttons, {}) >>, FALSE)
  /\ UNCHANGED <<current_modifiers, mouse_buttons>>

hid_feed_mouse_scroll ==
  /\ Enter(<< Event("SCROLL", NoKey, current_modifiers, mouse_pos, mouse_buttons, {}) >>, FALSE)
  /\ UNCHANGED <<current_modifiers, ptrvars>>

hid_feed_mouse_buttons(new) ==
  /\ mouse_buttons' = new
  /\ Enter(ButtonEvents(new, mouse_pos), FALSE)
  /\ UNCHANGED <<current_modifiers, mouse_pos>>

-----------------------------------------------------------------------------
(* Characters: ESC, those that end a VT100 sequence, a capital and a small  *)
(* letter, a control character, and one that has no key.                    *)
char_to_keycode(c) == CASE c = "ESC" -> "ESC" [] c = "[" -> "LBRACKET" [] c \in {"b", "B"} -> "B"
                        [] c = "3" -> "3" [] OTHER -> NoKey
modifiers_for_char(c) == IF c = "B" THEN {"MOD_LSHIFT"} ELSE {}
Vt100(c) == CASE c = "B" -> "DOWN" [] c = "3" -> "DELETE" [] OTHER -> NoKey
IsCtrl(c) == c = "^B"

At(i) == IF Len(rx) >= i THEN rx[i] ELSE NoKey          \* serial_read, or -1
Drop(i) == SubSeq(rx, i + 1, Len(rx))
Typed(kc, mods) == [i \in 1 .. 2 |-> Event(<<"PRESS", "RELEASE">>[i], kc, mods, mouse_pos, {}, {})]

(* The events of a character with the modifiers in force.                   *)
SerialChar(c, mods) ==
  CASE IsCtrl(c) -> Typed("B", mods \cup {"MOD_LCTRL"})
    [] ~IsCtrl(c) /\ char_to_keycode(c) = NoKey -> << >>
    [] OTHER -> Typed(char_to_keycode(c), mods \cup modifiers_for_char(c))

(* One character, or one escape sequence as far as it has arrived: DELETE   *)
(* and its like have a fourth character that is read and not looked at.  An *)
(* ESC before another character turns MOD_LALT on until MainReturn.         *)
hid_poll_serial ==
  LET vt  == Vt100(At(3))
      alt == current_modifiers \cup {"MOD_LALT"}
  IN
  \/ /\ At(1) = "ESC" /\ At(2) = "["
     /\ rx' = Drop(IF vt = "DELETE" THEN 4 ELSE 3)
     /\ Enter(IF vt = NoKey THEN << >> ELSE Typed(vt, current_modifiers), FALSE)
     /\ UNCHANGED current_modifiers
  \/ /\ At(1) = "ESC" /\ At(2) \notin {"[", NoKey}
     /\ rx' = Drop(2)
     /\ current_modifiers' = alt /\ Enter(SerialChar(At(2), alt), TRUE)
  \/ /\ rx = << "ESC" >>
     /\ rx' = << >>
     /\ Enter(Typed("ESC", current_modifiers), FALSE)
     /\ UNCHANGED current_modifiers
  \/ /\ rx # << >> /\ At(1) # "ESC"
     /\ rx' = Drop(1)
     /\ Enter(SerialChar(At(1), current_modifiers), TRUE)
     /\ UNCHANGED current_modifiers

-----------------------------------------------------------------------------
(* The devices.  A key goes down (again, when it repeats) or up; the bytes  *)
(* of one stroke or packet come as separate interrupts.  Bound: nothing new *)
(* begins after an event was lost or a race; what has begun is delivered.   *)
Calm == ~lost /\ ~raced

Strike(k, up) ==
  /\ PS2 /\ Calm /\ stroke.bytes = << >> /\ (up => k \in held)
  /\ stroke' = [key |-> k, up |-> up, bytes |-> Scan(k)]
  /\ UNCHANGED <<ring, eq_tail, current_modifiers, ptrvars, kb_extended, mouse_bytes, stage, copy,
                 call, packet, rx, held, dev_buttons, seen, fifo, lost, raced>>

NoStroke == [key |-> NoKey, up |-> FALSE, bytes |-> << >>]

HeldAfter(k, up) == IF up THEN held \ {k} ELSE held \cup {k}

KeyboardIrq ==
  /\ PS2 /\ stroke.bytes # << >>
  /\ keyboard_handler(Head(stroke.bytes), stroke.up)
  /\ stroke' = IF Len(stroke.bytes) = 1 THEN NoStroke ELSE [stroke EXCEPT !.bytes = Tail(@)]
  /\ held' = IF Len(stroke.bytes) = 1 THEN HeldAfter(stroke.key, stroke.up) ELSE held
  /\ UNCHANGED <<eq_tail, ptrvars, mouse_bytes, stage, copy, call, packet, rx,
                 dev_buttons, seen>>

MoveMouse(d, b) ==
  /\ PS2 /\ Calm /\ packet = << >>
  /\ packet' = << [val |-> b, bit3 |-> TRUE], [val |-> d[1], bit3 |-> FALSE],
                  [val |-> 0 - d[2], bit3 |-> FALSE] >>
  /\ UNCHANGED <<ring, eq_tail, current_modifiers, ptrvars, kb_extended, mouse_bytes, stage, copy,
                 call, stroke, rx, held, dev_buttons, seen, fifo, lost, raced>>

MouseIrq ==
  /\ PS2 /\ packet # << >>
  /\ UNCHANGED <<eq_tail, current_modifiers, kb_extended, stage, copy, call, stroke, rx, held, seen>>
  /\ mouse_handler(Head(packet))
  /\ packet' = Tail(packet)
  /\ dev_buttons' = IF Len(packet) = 3 THEN Head(packet).val ELSE dev_buttons

(* Characters that come while the loop is elsewhere wait for its next turn: *)
(* they might as well come then.                                            *)
SerialArrives(c) ==
  /\ Calm /\ stage = "serial" /\ call = NoCall /\ Len(rx) < RxMax
  /\ rx' = Append(rx, c)
  /\ UNCHANGED <<ring, eq_tail, current_modifiers, ptrvars, kb_extended, mouse_bytes, stage, copy,
                 call, stroke, packet, held, dev_buttons, seen, fifo, lost, raced>>

-----------------------------------------------------------------------------
(* How a reader of the events keeps track of what is pressed, until one is  *)
(* lost.                                                                    *)
Nothing == [held |-> {}, buttons |-> {}]

Follow(s, ev) ==
  CASE ev.type = "PRESS"    -> [s EXCEPT !.held = @ \cup {ev.keycode}]
    [] ev.type = "RELEASE"  -> [s EXCEPT !.held = @ \ {ev.keycode}]
    [] ev.type = "BTN_DOWN" -> [s EXCEPT !.buttons = @ \cup ev.changed]
    [] ev.type = "BTN_UP"   -> [s EXCEPT !.buttons = @ \ ev.changed]
    [] OTHER -> s

(* The main loop: the serial line, then the virtio-input devices, then the  *)
(* ring until it is empty.                                                  *)
mainvars == <<kb_extended, mouse_bytes, stroke, packet>>

PollSerial ==
  /\ stage = "serial" /\ call = NoCall
  /\ \/ rx = << >> /\ stage' = "virtio" /\ UNCHANGED <<rx, call, current_modifiers>>
     \/ rx # << >> /\ hid_poll_serial /\ UNCHANGED stage
  /\ UNCHANGED <<ring, eq_tail, ptrvars, copy, mainvars, held, dev_buttons, seen, fifo, lost, raced>>

(* vi_handle_evdev on the next event of a device.                           *)
AtVirtio == stage = "virtio" /\ call = NoCall

VirtioKey(k, up) ==
  /\ AtVirtio /\ Calm /\ (up => k \in held)
  /\ hid_feed_key(k, ~up)
  /\ held' = HeldAfter(k, up)
  /\ UNCHANGED <<ring, eq_tail, stage, copy, mainvars, rx, dev_buttons, seen, fifo, lost, raced>>

VirtioButton(b) ==
  /\ AtVirtio /\ Calm
  /\ LET new == IF b \in mouse_buttons THEN mouse_buttons \ {b} ELSE mouse_buttons \cup {b}
     IN hid_feed_mouse_buttons(new) /\ dev_buttons' = new
  /\ UNCHANGED <<ring, eq_tail, stage, copy, mainvars, rx, held, seen, fifo, lost, raced>>

VirtioMove(d) ==
  /\ AtVirtio /\ Calm
  /\ hid_feed_mouse_rel(d) \/ (d = <<0, 0>> /\ hid_feed_mouse_scroll)
  /\ UNCHANGED <<ring, eq_tail, stage, copy, mainvars, rx, held, dev_buttons, seen, fifo, lost, raced>>

VirtioDone ==
  /\ AtVirtio /\ stage' = "drain"
  /\ UNCHANGED <<ring, eq_tail, current_modifiers, ptrvars, copy, call, mainvars, rx, held,
                 dev_buttons, seen, fifo, lost, raced>>

(* input_poll: the copy, and the step that frees the slot.                  *)
input_poll ==
  \/ /\ stage = "drain" /\ eq_tail = ring.head
     /\ stage' = "serial"
     /\ UNCHANGED <<ring, eq_tail, copy, seen, fifo>>
  \/ /\ stage = "drain" /\ eq_tail # ring.head
     /\ copy' = << ring.q[eq_tail] >> /\ stage' = "copied"
     /\ UNCHANGED <<ring, eq_tail, seen, fifo>>
  \/ /\ stage = "copied"
     /\ eq_tail' = Succ(eq_tail) /\ ring' = [ring EXCEPT !.q[eq_tail] = Blank]
     /\ seen' = IF ~Calm THEN Nothing ELSE Follow(seen, copy[1])
     /\ fifo' = Tail(fifo)
     /\ copy' = << >> /\ stage' = "drain"

Poll == input_poll /\ UNCHANGED <<current_modifiers, ptrvars, call, mainvars, rx, held,
                                  dev_buttons, lost, raced>>

hid_init ==
  /\ ring = [q |-> [i \in Slots |-> Blank], head |-> 0] /\ eq_tail = 0
  /\ current_modifiers = {} /\ mouse_pos = <<0, 0>> /\ mouse_buttons = {}
  /\ kb_extended = FALSE /\ mouse_bytes = << >>
  /\ stage = "serial" /\ copy = << >> /\ call = NoCall
  /\ stroke = NoStroke /\ packet = << >> /\ rx = << >>
  /\ held = {} /\ dev_buttons = {} /\ seen = Nothing
  /\ fifo = << >> /\ lost = FALSE /\ raced = FALSE

Next ==
  \/ KeyboardIrq \/ MouseIrq \/ PollSerial \/ MainPush \/ MainReturn \/ VirtioDone \/ Poll
  \/ \E k \in Keys, up \in BOOLEAN : Strike(k, up)
  \/ \E k \in VirtioKeys, up \in BOOLEAN : VirtioKey(k, up)
  \/ \E d \in Deltas, b \in SUBSET Buttons : MoveMouse(d, b)
  \/ \E d \in VirtioDeltas : VirtioMove(d)
  \/ \E b \in VirtioButtons : VirtioButton(b)
  \/ \E c \in Chars : SerialArrives(c)

Spec == hid_init /\ [][Next]_vars

-----------------------------------------------------------------------------
Contents == [i \in 1 .. (ring.head - eq_tail) % EVENT_QUEUE_SIZE |->
               ring.q[(eq_tail + i - 1) % EVENT_QUEUE_SIZE]]

(* The ring holds the events that a queue of EVENT_QUEUE_SIZE - 1 places    *)
(* would hold, in order, and the main loop is handed the oldest, whenever   *)
(* the interrupts come, except inside the push_event of the main loop       *)
(* itself: there an interrupt's push and its own may end in one slot, or    *)
(* the head go back.  Even then the ring never holds more events than were  *)
(* pushed, nor a slot that none was stored in.                              *)
QueueExact ==
  /\ ~raced => Contents = fifo /\ (copy # << >> => copy[1] = Head(fifo))
  /\ Len(Contents) <= Len(fifo)
  /\ \A i \in DOMAIN Contents : Contents[i] # Blank

(* Unless the ring has overflowed or an interrupt has raced with the main   *)
(* loop's own push, a reader that follows press, release, down and up       *)
(* events ends with exactly the keys and buttons that are pressed:          *)
(* keyboard_handler pairs prefixes and codes, mouse_handler lines bytes up  *)
(* with packets, and nothing is reported twice or not at all.  No modifier  *)
(* is in force without its key being down, but for the Alt of an ESC while  *)
(* hid_poll_serial is at it; every way out of it takes that Alt back.       *)
InputTracked ==
  /\ Calm /\ packet = << >> =>
       LET s == FoldLeft(Follow, seen, Contents \o call.evs) IN
       s.held = {k \in held : Known(k)} /\ s.buttons = dev_buttons
  /\ ~raced => current_modifiers \ (IF call.alt THEN {"MOD_CAPS", "MOD_LALT"} ELSE {"MOD_CAPS"})
               \subseteq UNION {Modifier(k) : k \in held}
==============================================================================
