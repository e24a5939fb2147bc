------------------------------ MODULE Keyboard ------------------------------
(***************************************************************************)
(* The keyboard driver (devices/kbd.c) behind a keyboard whose keys are    *)
(* pressed, repeated and released in any order: from the scan codes alone  *)
(* it keeps track of the keys that are held and of Caps Lock, and turns    *)
(* the others into characters for the input buffer.                        *)
(*                                                                         *)
(* Of each kind of key in the tables there is one here: Escape, A, 2, [    *)
(* and the Delete of the number block; the Delete beside it is the same    *)
(* code with a prefix, and has no character.                               *)
(***************************************************************************)
EXTENDS Integers, FiniteSets, Sequences, TLC

CONSTANTS
    MaxTyped,      \* BOUND: characters in the input buffer
    MaxHeld        \* BOUND: keys held at a time

ASSUME KeyboardAssumption == {MaxTyped, MaxHeld} \subseteq Nat

VARIABLES
    shiftState,    \* left_shift, right_shift, left_alt, ...: which are depressed
    caps_lock,
    typed,         \* the input buffer
    heldKeys,      \* the keys that are down
    capsOn,        \* the light of Caps Lock, which changes with each press
    wanted,        \* what the layout has for the keys that made the buffer
    rebooted

kbVars == <<shiftState, caps_lock, typed, heldKeys, capsOn, wanted, rebooted>>

PREFIX == 224 * 256
RELEASE == 128

\* The code of each key; the prefix is a byte of its own on the wire.
Key == {"Esc", "A", "2", "[", "NumDel", "Del", "CapsLock",
        "left_shift", "right_shift", "left_alt", "right_alt", "left_ctrl", "right_ctrl"}
Scancode == "Esc" :> 1 @@ "A" :> 30 @@ "2" :> 3 @@ "[" :> 26 @@ "NumDel" :> 83 @@ "Del" :> PREFIX + 83
            @@ "CapsLock" :> 58 @@ "left_shift" :> 42 @@ "right_shift" :> 54 @@ "left_alt" :> 56
            @@ "right_alt" :> PREFIX + 56 @@ "left_ctrl" :> 29 @@ "right_ctrl" :> PREFIX + 29

invariant_keymap == 1 :> 27 @@ 30 :> 65 @@ 83 :> 127
unshifted_keymap == 3 :> 50 @@ 26 :> 91
shifted_keymap   == 3 :> 64 @@ 26 :> 123
shift_keys == 42 :> "left_shift" @@ 54 :> "right_shift" @@ 56 :> "left_alt" @@ (PREFIX + 56) :> "right_alt"
              @@ 29 :> "left_ctrl" @@ (PREFIX + 29) :> "right_ctrl"
DELETE == 127

\* The character of a code, or 0.
map_key(keymap, code) == IF code \in DOMAIN keymap THEN keymap[code] ELSE 0
CharacterOf(code, shift) ==
    IF map_key(invariant_keymap, code) # 0 THEN map_key(invariant_keymap, code)
    ELSE map_key(IF shift THEN shifted_keymap ELSE unshifted_keymap, code)
tolower(c) == IF c \in 65 .. 90 THEN c + 32 ELSE c

\* A modifier counts whichever of its two keys is down.
Depressed(left, right) == left \in shiftState \/ right \in shiftState
\* Ctrl overrides Shift.
Modified(c, ctrl, shift, alt) ==
    (IF ctrl /\ c \in 64 .. 95 THEN c - 64 ELSE IF shift = caps_lock THEN tolower(c) ELSE c) + (IF alt THEN 128 ELSE 0)

\* Raw is the code as it came, with its prefix and its release bit.
keyboard_interrupt(raw) ==
    LET shift == Depressed("left_shift", "right_shift")
        alt == Depressed("left_alt", "right_alt")
        ctrl == Depressed("left_ctrl", "right_ctrl")
        release == raw \div RELEASE % 2 = 1
        code == IF release THEN raw - RELEASE ELSE raw
        c == CharacterOf(code, shift)
    IN  \/ /\ code = Scancode["CapsLock"]
           /\ caps_lock' = (IF release THEN caps_lock ELSE ~caps_lock)
           /\ UNCHANGED <<shiftState, typed, rebooted>>
        \/ /\ code # Scancode["CapsLock"] /\ c # 0 /\ UNCHANGED <<shiftState, caps_lock>>
           /\ rebooted' = (~release /\ c = DELETE /\ ctrl /\ alt)
           /\ typed' = IF release \/ rebooted' \/ Len(typed) >= MaxTyped THEN typed
                       ELSE Append(typed, Modified(c, ctrl, shift, alt))
        \/ /\ code # Scancode["CapsLock"] /\ c = 0 /\ UNCHANGED <<caps_lock, typed, rebooted>>
           /\ shiftState' = IF code \notin DOMAIN shift_keys THEN shiftState
                            ELSE IF release THEN shiftState \ {shift_keys[code]}
                            ELSE shiftState \cup {shift_keys[code]}

----------------------------------------------------------------------------
(* The keyboard and who sits at it.                                        *)

\* What a key means on a US keyboard, by what is held: a number, or the reboot.
Held(keys) == heldKeys \cap keys # {}
Shifted == Held({"left_shift", "right_shift"})
Layout(k) ==
    LET ctrl == Held({"left_ctrl", "right_ctrl"})
        meta == IF Held({"left_alt", "right_alt"}) THEN 128 ELSE 0
    IN  CASE k = "Esc" -> {27 + meta}
          [] k = "A" -> {meta + (IF ctrl THEN 1 ELSE IF Shifted # capsOn THEN 65 ELSE 97)}
          [] k = "2" -> {meta + (IF ~Shifted THEN 50 ELSE IF ctrl THEN 0 ELSE 64)}
          [] k = "[" -> {meta + (IF Shifted THEN 123 ELSE IF ctrl THEN 27 ELSE 91)}
          [] k = "NumDel" -> IF ctrl /\ meta # 0 THEN {} ELSE {127 + meta}
          [] OTHER -> {}

\* A key that stays down is pressed again and again.
Press(k) ==
    /\ ~rebooted /\ (k \in heldKeys \/ Cardinality(heldKeys) < MaxHeld)
    /\ keyboard_interrupt(Scancode[k])
    /\ heldKeys' = heldKeys \cup {k} /\ capsOn' = (capsOn # (k = "CapsLock"))
    /\ wanted' = IF Layout(k) = {} \/ Len(wanted) >= MaxTyped THEN wanted
                 ELSE Append(wanted, CHOOSE c \in Layout(k) : TRUE)
Lift(k) ==
    /\ ~rebooted /\ k \in heldKeys
    /\ keyboard_interrupt(Scancode[k] + RELEASE)
    /\ heldKeys' = heldKeys \ {k} /\ UNCHANGED <<capsOn, wanted>>
\* A process reads a character (input_getc).
TakeKey ==
    /\ typed # <<>> /\ typed' = Tail(typed) /\ wanted' = Tail(wanted)
    /\ UNCHANGED <<shiftState, caps_lock, heldKeys, capsOn, rebooted>>

KeyboardInit ==
    /\ shiftState = {} /\ caps_lock = FALSE /\ typed = <<>> /\ heldKeys = {} /\ capsOn = FALSE /\ wanted = <<>>
    /\ rebooted = FALSE
KeyboardNext == (\E k \in Key : Press(k) \/ Lift(k)) \/ TakeKey

(***************************************************************************)
(* The driver's picture of the keyboard is the keyboard's: its flags are   *)
(* the modifier keys that are down, on either side, whatever was pressed   *)
(* in between; each character read is the one on the key; and the machine  *)
(* reboots for Ctrl, Alt and the Delete of the number block only           *)
(* (kbd.c:99, 119, 123, 137, 142, 191).                                    *)
(***************************************************************************)
KeysRight ==
    /\ shiftState = heldKeys \cap {shift_keys[code] : code \in DOMAIN shift_keys}
    /\ caps_lock = capsOn
    /\ typed = wanted
    /\ rebooted => /\ "NumDel" \in heldKeys
                   /\ Held({"left_ctrl", "right_ctrl"}) /\ Held({"left_alt", "right_alt"})
=============================================================================
