------------------------------ MODULE Keyboard ------------------------------
(***************************************************************************)
(* The sources of the emulated keyboard: the host's keys (libretro.c), the *)
(* pads through Joy2Key (libretro/joystick.c) and the keyboard on screen,  *)
(* the OSD, which pads and pointers work (libretro/keyboard.c).  All of    *)
(* them call send_keycode.                                                 *)
(*                                                                         *)
(* The ring and its way into the program are the queue of KeyQueue, which  *)
(* KeyLine implements: an event that finds it full is lost.                *)
(*                                                                         *)
(* Where the OSD's cursor is, the lamps of the lock keys and the colours   *)
(* of a press are left out: any key may be under the cursor or a pointer.  *)
(* A tick of the repeat finds its timer expired.                           *)
(***************************************************************************)
EXTENDS Integers, FiniteSets, SequencesExt, Functions

CONSTANTS
  Code, Modifier,       \* scancodes; SHIFT, CTRL, OPT.1 and OPT.2 among them
  Repeating,            \* those that repeat: no modifier, no lock key
  NoKey, OsdKeyboard,   \* no scancode; JOY2KEY_OSD_KEYBOARD
  Capacity,             \* events the queue holds
  KeyTable,             \* host key |-> code
  KeyTable1,            \* the same while COMPOSE is held
  Ports,                \* pads: two in the program
  Button,               \* their buttons
  Joy2KeyMap,           \* button |-> code, OsdKeyboard or NoKey
  CONFIRM,              \* the button that presses a key of the OSD
  AuxCode,              \* the buttons with a key of their own there |-> code
  Pointer               \* touches tracked at a time

ASSUME PortAssumption == Ports \in Nat \ {0}
ASSUME SizeAssumption ==
  /\ Capacity \in Nat
  /\ IsFiniteSet(Code) /\ IsFiniteSet(Button) /\ IsFiniteSet(Pointer)
ASSUME CodeAssumption ==
  /\ Modifier \subseteq Code /\ Repeating \subseteq Code \ Modifier
  /\ NoKey \notin Code /\ OsdKeyboard \notin Code \union {NoKey}
ASSUME MapAssumption ==
  /\ IsFiniteSet(DOMAIN KeyTable) /\ IsFiniteSet(DOMAIN KeyTable1)
  /\ Range(KeyTable) \union Range(KeyTable1) \union Range(AuxCode) \subseteq Code
  /\ Joy2KeyMap \in [Button -> Code \union {NoKey, OsdKeyboard}]
  /\ {CONFIRM} \union DOMAIN AuxCode \subseteq Button
  /\ Joy2KeyMap[CONFIRM] # OsdKeyboard

VARIABLES
  key,                  \* what send_keycode and the reference counts hold
  host,                 \* Core_old_Key_State
  joy,                  \* per port: Joy2KeyPrevious, JoyBlock, JoyWasOsd
  visible,              \* sw_keyboard_visible
  pad,                  \* per port: osd_pad_prev, _block, _code, osd_aux_code
  ptr,                  \* per pointer: osd_ptr_down, _wait, _code
  menu,                 \* the emulator's menu is open
  turn                  \* the port retro_run updates next

osdVars == <<visible, pad, ptr>>
vars == <<key, host, joy, osdVars, menu, turn>>

Port == 0 .. Ports - 1
Event == [code : Code, up : BOOLEAN]
HostKey == DOMAIN KeyTable \union DOMAIN KeyTable1
OsdButton == {b \in Button : Joy2KeyMap[b] = OsdKeyboard}
NoAux == [b \in DOMAIN AuxCode |-> NoKey]
NoPad == [prev |-> {}, block |-> {}, code |-> NoKey, aux |-> NoAux]
NoPtr == [down |-> FALSE, wait |-> FALSE, code |-> NoKey]

Init ==
  /\ key = [waiting |-> << >>, down |-> {}, repeat |-> NoKey,
            Joy2KeyRefs |-> [c \in Code |-> 0],
            osd_refs |-> [c \in Code |-> 0], osd_latched |-> {}]
  /\ host = {}
  /\ joy = [p \in Port |-> [Previous |-> [b \in Button |-> NoKey],
                            JoyBlock |-> {}, WasOsd |-> FALSE]]
  /\ visible = FALSE /\ pad = [p \in Port |-> NoPad] /\ ptr = [q \in Pointer |-> NoPtr]
  /\ menu = FALSE /\ turn = 0

(* A loop of the code: `do' for each element of a sequence.  It is FoldLeft *)
(* as a function of the number of iterations, which can be reasoned about. *)
Each(do(_, _), s, seq) ==
  LET after[n \in 0 .. Len(seq)] == IF n = 0 THEN s ELSE do(after[n - 1], seq[n])
  IN  after[Len(seq)]

-----------------------------------------------------------------------------
(* send_keycode and the counts of who holds a key.                         *)

send_keycode(k, c, up) ==
  LET event == [code |-> c, up |-> up]
      sent == IF Len(k.waiting) >= Capacity THEN k.waiting ELSE Append(k.waiting, event)
      arms == c \notin k.down /\ c \in Repeating
  IN  IF up
      THEN [k EXCEPT !.waiting = sent, !.down = @ \ {c},
                     !.repeat = IF @ = c THEN NoKey ELSE @]
      ELSE [k EXCEPT !.waiting = sent, !.down = @ \union {c},
                     !.repeat = IF arms THEN c ELSE @]

Sends(k, events) ==
  LET send(j, event) == send_keycode(j, event.code, event.up)
  IN  Each(send, k, events)

joy2key_press(k, c) ==
  [(IF k.Joy2KeyRefs[c] = 0 THEN send_keycode(k, c, FALSE) ELSE k)
     EXCEPT !.Joy2KeyRefs[c] = @ + 1]

joy2key_release(k, c) ==
  LET left == [k EXCEPT !.Joy2KeyRefs[c] = @ - 1]
  IN  IF k.Joy2KeyRefs[c] = 0 THEN k
      ELSE IF k.Joy2KeyRefs[c] = 1 THEN send_keycode(left, c, TRUE) ELSE left

osd_code_down(k, c) ==
  [(IF k.osd_refs[c] = 0 THEN send_keycode(k, c, FALSE) ELSE k)
     EXCEPT !.osd_refs[c] = @ + 1]

osd_code_up(k, c) ==
  LET left == [k EXCEPT !.osd_refs[c] = @ - 1]
  IN  IF k.osd_refs[c] = 0 THEN k
      ELSE IF k.osd_refs[c] = 1 THEN send_keycode(left, c, TRUE) ELSE left

(* osd_key_press: a modifier is latched or unlatched, any other key is     *)
(* down until the caller releases the code it is told.                     *)
osd_key_press(k, c) ==
  IF c \notin Modifier THEN osd_code_down(k, c)
  ELSE IF c \in k.osd_latched
       THEN osd_code_up([k EXCEPT !.osd_latched = @ \ {c}], c)
       ELSE osd_code_down([k EXCEPT !.osd_latched = @ \union {c}], c)

(* Mutant of ToRelease: a latched modifier is released with its button.    *)
ToRelease_Always(c) == c

ToRelease(c) == IF c \in Modifier THEN NoKey ELSE c

unlatch(k, c) ==
  IF c \in k.osd_latched THEN osd_code_up([k EXCEPT !.osd_latched = @ \ {c}], c) ELSE k

osd_clear_latches(k) == Each(unlatch, k, SetToSeq(Modifier))

(* Mutant of ReleasedKeys: the counts are cleared and no key is released.  *)
ReleasedKeys_Silent(k) ==
  [k EXCEPT !.osd_refs = [c \in Code |-> 0], !.osd_latched = {}]

(* Keyboard_OSDReleaseAll.                                                 *)
ReleasedKeys(k) ==
  LET held == SetToSeq({c \in Code : k.osd_refs[c] > 0})
      ups  == [i \in DOMAIN held |-> [code |-> held[i], up |-> TRUE]]
  IN  [Sends(k, ups) EXCEPT
         !.osd_refs = [c \in Code |-> 0], !.osd_latched = {}]

ReleasedPads(pads) ==
  [p \in Port |-> [pads[p] EXCEPT !.code = NoKey, !.aux = NoAux]]

(* Mutant of ReleasedPtrs: the touches keep the keys they hold.            *)
ReleasedPtrs_KeepCode(ptrs) == ptrs

ReleasedPtrs(ptrs) ==
  [q \in Pointer |-> [ptrs[q] EXCEPT !.down = FALSE, !.code = NoKey]]

-----------------------------------------------------------------------------
(* Keyboard_Init, from WinX68k_Reset: the OSD stays on the screen, Joy2Key *)
(* and the host's keys are not reset.                                      *)
Reset ==
  /\ key' = [key EXCEPT !.waiting = << >>, !.down = {}, !.repeat = NoKey,
                        !.osd_refs = [c \in Code |-> 0], !.osd_latched = {}]
  /\ pad' = [p \in Port |-> NoPad] /\ ptr' = [q \in Pointer |-> NoPtr]
  /\ UNCHANGED <<host, joy, visible, menu, turn>>

(* handle_retrok: the keys of the table in force that changed.             *)
handle_retrok(held) ==
  LET table == IF "COMPOSE" \in held THEN KeyTable1 ELSE KeyTable
      changed == SetToSeq({h \in DOMAIN table : (h \in held) # (h \in host)})
      events == [i \in DOMAIN changed |->
                   [code |-> table[changed[i]], up |-> changed[i] \notin held]]
  IN  /\ key' = Sends(key, events)
      /\ host' = held
      /\ UNCHANGED <<joy, osdVars, menu, turn>>

(* Keyboard_ToggleSwKeyboard; `w' holds the variables it works on.         *)
Keyboard_ToggleSwKeyboard(w) ==
  IF w.visible
  THEN [w EXCEPT !.visible = FALSE, !.key = ReleasedKeys(@),
                 !.pad = ReleasedPads(@), !.ptr = ReleasedPtrs(@)]
  ELSE [w EXCEPT !.visible = TRUE,
                 !.pad = [p \in Port |-> [@[p] EXCEPT !.prev = {}, !.block = Button]],
                 !.ptr = [q \in Pointer |-> [@[q] EXCEPT !.wait = TRUE]]]

(* joy2key_update of a port whose held buttons are `res': of each button    *)
(* the key it holds no more is released, the key it holds now is pressed.  *)
joy2key_action(w, p, b, res, send_keys) ==
  LET code == Joy2KeyMap[b]
      old  == w.joy[p].Previous[b]
      down == b \in res /\ IF code = OsdKeyboard THEN ~menu ELSE send_keys
      let_go == IF old \in Code /\ (~down \/ old # code)
                THEN [w EXCEPT !.key = joy2key_release(@, old)] ELSE w
      pressed == IF ~down \/ code \in {old, NoKey} THEN let_go
                 ELSE IF code = OsdKeyboard THEN Keyboard_ToggleSwKeyboard(let_go)
                 ELSE [let_go EXCEPT !.key = joy2key_press(@, code)]
  IN  [pressed EXCEPT !.joy[p].Previous[b] = IF down THEN code ELSE NoKey]

joy2key_update(w, p, res, send_keys) ==
  LET action(v, b) == joy2key_action(v, p, b, res, send_keys)
  IN  Each(action, w, SetToSeq(Button))

osd_aux(w, b, pressed, released) ==
  IF b \in pressed
  THEN [key |-> osd_code_down(w.key, AuxCode[b]), pad |-> [w.pad EXCEPT !.aux[b] = AuxCode[b]]]
  ELSE IF b \in released /\ w.pad.aux[b] # NoKey
  THEN [key |-> osd_code_up(w.key, w.pad.aux[b]), pad |-> [w.pad EXCEPT !.aux[b] = NoKey]]
  ELSE w

AuxKeys(w, pressed, released) ==
  LET aux(v, b) == osd_aux(v, b, pressed, released)
  IN  Each(aux, w, SetToSeq(DOMAIN AuxCode))

(* Keyboard_OSDPadUpdate, with `c' the key under the cursor and `clears'    *)
(* whether the button that clears the latches went down.                   *)
Keyboard_OSDPadUpdate(k, d, buttons, c, clears) ==
  LET now == buttons \ d.block
      pressed == now \ d.prev
      released == d.prev \ now
      polled == [d EXCEPT !.prev = now, !.block = @ \intersect buttons]
      confirmed ==
        IF CONFIRM \in pressed
        THEN [key |-> osd_key_press(k, c), pad |-> [polled EXCEPT !.code = ToRelease(c)]]
        ELSE IF CONFIRM \in released /\ d.code # NoKey
        THEN [key |-> osd_code_up(k, d.code), pad |-> [polled EXCEPT !.code = NoKey]]
        ELSE [key |-> k, pad |-> polled]
      done == AuxKeys(confirmed, pressed, released)
  IN  IF clears THEN [done EXCEPT !.key = osd_clear_latches(@)] ELSE done

(* Joystick_Update, for the ports in turn; in the menu for the first only. *)
Joystick_Update(held, c, clears) ==
  LET p     == turn
      block == joy[p].JoyBlock \intersect held
      res   == held \ block
      all   == [key |-> key, joy |-> joy, visible |-> visible, pad |-> pad, ptr |-> ptr]
  IN  \E w \in {joy2key_update(all, p, res, ~menu /\ ~visible)} :
        LET buttons == res \ OsdButton
            closed  == ~menu /\ ~w.visible /\ joy[p].WasOsd
            u == IF ~menu /\ w.visible
                 THEN Keyboard_OSDPadUpdate(w.key, w.pad[p], buttons, c, clears)
                 ELSE [key |-> w.key, pad |-> w.pad[p]]
        IN  /\ key' = u.key
            /\ pad' = [w.pad EXCEPT ![p] = u.pad]
            /\ joy' = [w.joy EXCEPT ![p].JoyBlock = IF closed THEN buttons ELSE block,
                                    ![p].WasOsd = IF menu THEN @ ELSE w.visible]
            /\ visible' = w.visible /\ ptr' = w.ptr
            /\ turn' = IF menu THEN 0 ELSE (turn + 1) % Ports
            /\ UNCHANGED <<host, menu>>

(* Joystick_SetKeyMapping: a button whose mapping changes lets go of what  *)
(* it holds.  Where the new mapping leads is not tracked.                  *)
Joystick_SetKeyMapping(p, b) ==
  LET c == joy[p].Previous[b]
  IN  /\ c # NoKey
      /\ key' = IF c = OsdKeyboard THEN key ELSE joy2key_release(key, c)
      /\ joy' = [joy EXCEPT ![p].Previous[b] = NoKey]
      /\ UNCHANGED <<host, osdVars, menu, turn>>

(* Keyboard_OSDPointerUpdate, for one pointer: `c' is the key it is on, or *)
(* NoKey.                                                                  *)
Keyboard_OSDPointerUpdate(q, pressed, c) ==
  /\ visible /\ ~menu
  /\ IF ptr[q].wait
     THEN /\ ptr' = [ptr EXCEPT ![q].wait = pressed]
          /\ UNCHANGED key
     ELSE IF pressed /\ ~ptr[q].down
     THEN /\ ptr' = [ptr EXCEPT ![q].down = TRUE,
                                ![q].code = IF c = NoKey THEN NoKey ELSE ToRelease(c)]
          /\ key' = IF c = NoKey THEN key ELSE osd_key_press(key, c)
     ELSE /\ ~pressed /\ ptr[q].down
          /\ ptr' = [ptr EXCEPT ![q].down = FALSE, ![q].code = NoKey]
          /\ key' = IF ptr[q].code = NoKey THEN key ELSE osd_code_up(key, ptr[q].code)
  /\ UNCHANGED <<host, joy, visible, pad, menu, turn>>

(* Keyboard_RepeatTick: the timer has expired, and the key is sent again,  *)
(* three times at most.                                                    *)
Keyboard_RepeatTick ==
  /\ ~menu /\ key.repeat # NoKey
  /\ \E n \in 1 .. 3 :
       key' = IF key.repeat \notin key.down THEN [key EXCEPT !.repeat = NoKey]
              ELSE Sends(key, [i \in 1 .. n |-> [code |-> key.repeat, up |-> FALSE]])
  /\ UNCHANGED <<host, joy, osdVars, menu, turn>>

(* The core option switches the repeat off and on again.                   *)
Keyboard_SetRepeatOptions ==
  /\ key' = [key EXCEPT !.repeat = NoKey]
  /\ UNCHANGED <<host, joy, osdVars, menu, turn>>

(* The menu opens; retro_run then releases the OSD's keys every frame.     *)
OpenMenu ==
  /\ ~menu /\ turn = 0 /\ menu' = TRUE
  /\ key' = ReleasedKeys(key)
  /\ pad' = ReleasedPads(pad) /\ ptr' = ReleasedPtrs(ptr)
  /\ UNCHANGED <<host, joy, visible, turn>>

CloseMenu ==
  /\ menu /\ menu' = FALSE
  /\ UNCHANGED <<key, host, joy, osdVars, turn>>

(* The program reads the oldest event waiting.                             *)
ProgramReads ==
  /\ ~menu /\ key.waiting # << >>
  /\ key' = [key EXCEPT !.waiting = Tail(@)]
  /\ UNCHANGED <<host, joy, osdVars, menu, turn>>

Next ==
  \/ Reset
  \/ \E held \in SUBSET HostKey : handle_retrok(held)
  \/ \E held \in SUBSET Button, c \in Code, clears \in BOOLEAN :
       Joystick_Update(held, c, clears)
  \/ \E p \in Port, b \in Button : Joystick_SetKeyMapping(p, b)
  \/ \E q \in Pointer, pressed \in BOOLEAN, c \in Code \union {NoKey} :
       Keyboard_OSDPointerUpdate(q, pressed, c)
  \/ Keyboard_RepeatTick
  \/ Keyboard_SetRepeatOptions
  \/ OpenMenu
  \/ CloseMenu
  \/ ProgramReads

Spec == Init /\ [][Next]_vars

-----------------------------------------------------------------------------
(* The variables stay in their ranges.                                     *)
TypeOK ==
  /\ key.waiting \in Seq(Event) /\ Len(key.waiting) <= Capacity
  /\ key.down \subseteq Code /\ key.repeat \in Repeating \union {NoKey}
  /\ key.Joy2KeyRefs \in [Code -> Nat] /\ key.osd_refs \in [Code -> Nat]
  /\ key.osd_latched \subseteq Modifier
  /\ host \subseteq HostKey
  /\ \A p \in Port :
       /\ joy[p].Previous \in [Button -> Code \union {NoKey, OsdKeyboard}]
       /\ joy[p].JoyBlock \subseteq Button /\ joy[p].WasOsd \in BOOLEAN
       /\ pad[p].prev \union pad[p].block \subseteq Button
       /\ pad[p].code \in (Code \ Modifier) \union {NoKey}
  /\ \A q \in Pointer : ptr[q].code # NoKey => ptr[q].down
  /\ visible \in BOOLEAN /\ menu \in BOOLEAN /\ turn \in Port

(* A key's count is the number of its holders: on the screen the pads, the *)
(* pads' own keys, the touches and the latch, and on Joy2Key the buttons.  *)
(* None of the ways to open, close, reset and enter the menu in between    *)
(* loses or doubles one.                                                   *)
OsdHolders(pads, ptrs, latched, c) ==
  Cardinality({p \in Port : pads[p].code = c})
  + Cardinality({pb \in Port \X DOMAIN AuxCode : pads[pb[1]].aux[pb[2]] = c})
  + Cardinality({q \in Pointer : ptrs[q].code = c})
  + Cardinality({c} \intersect latched)
JoyHolders(j, c) == Cardinality({pb \in Port \X Button : j[pb[1]].Previous[pb[2]] = c})

RefsCountHolders ==
  \A c \in Code :
    /\ key.osd_refs[c] = OsdHolders(pad, ptr, key.osd_latched, c)
    /\ key.Joy2KeyRefs[c] = JoyHolders(joy, c)

HeldByHost(c) == \E h \in host \intersect DOMAIN KeyTable : KeyTable[h] = c
Held(c) == key.osd_refs[c] > 0 \/ key.Joy2KeyRefs[c] > 0 \/ HeldByHost(c)

(* A key is down, and repeats, only while some source holds it.  The       *)
(* host's keys are those of the first table: a key let go while COMPOSE is *)
(* held is never sent, so the property is stated of a host without it.     *)
DownOnlyIfHeld ==
  /\ \A c \in key.down : Held(c)
  /\ key.repeat # NoKey => key.repeat \in key.down

(* "Buttons that were held when the OSD keyboard closed stay masked until  *)
(* released, so navigation presses never reach the game afterwards": the   *)
(* first update of a port after the OSD closed presses no key for a button *)
(* the OSD had.                                                            *)
NavigationStaysOut ==
  [][\A p \in Port :
       joy[p].WasOsd /\ ~joy'[p].WasOsd =>
         \A b \in pad[p].prev : joy'[p].Previous[b] \notin Code]_vars

=============================================================================
