------------------------------ MODULE Keyboard -------------------------------
(***************************************************************************)
(* The keyboard driver (kbd.c).  A key sends its scan code when it goes    *)
(* down and the code with the high bit set when it comes up; the keys of   *)
(* Extended send the byte E0 before each.  kbdgetc() takes one byte per    *)
(* call and keeps the modifiers between calls.                             *)
(***************************************************************************)
EXTENDS Naturals, Sequences

CONSTANTS Plain, Extended,  \* the codes of the keys, below 128
          WIRE              \* bytes that may wait in the controller

ASSUME KeyboardAssumption == Plain \subseteq 0 .. 127 /\ Extended \subseteq 0 .. 127 /\ WIRE \in Nat

VARIABLES wire, held, shift, char

kbdVars == <<wire, held, shift, char>>

E0 == 224
ScanKey == (Plain \X {FALSE}) \cup (Extended \X {TRUE})

shiftcode(data) ==
    CASE data \in {29, 157} -> {"CTL"}
    [] data \in {42, 54} -> {"SHIFT"}
    [] data \in {56, 184} -> {"ALT"}
    [] OTHER -> {}

togglecode(data) == IF data = 58 THEN {"CAPSLOCK"} ELSE {}

\* What the maps give the A key (code 30), the one letter typed here.
charcode(flags, data) ==
    IF data # 30 THEN "" ELSE IF "CTL" \in flags THEN "^A" ELSE IF "SHIFT" \in flags THEN "A" ELSE "a"

Cased(flags, c) ==
    IF "CAPSLOCK" \notin flags THEN c ELSE CASE c = "a" -> "A" [] c = "A" -> "a" [] OTHER -> c

KeyboardInit == wire = <<>> /\ held = {} /\ shift = {} /\ char = ""

\* The keyboard.
Bytes(key, up) == (IF key[2] THEN <<E0>> ELSE <<>>) \o <<IF up THEN key[1] + 128 ELSE key[1]>>

Moves(key) ==
    /\ Len(wire) <= WIRE - 2
    /\ wire' = wire \o Bytes(key, key \in held)
    /\ held' = IF key \in held THEN held \ {key} ELSE held \cup {key}
    /\ UNCHANGED <<shift, char>>

\* A key release.
Released_KeepsE0(data) ==
    shift \ shiftcode(IF "E0ESC" \in shift THEN data ELSE data - 128)

Released(data) ==
    shift \ (shiftcode(IF "E0ESC" \in shift THEN data ELSE data - 128) \cup {"E0ESC"})

\* A key press, as the modifiers it leaves and the character it returns.
Pressed(data) ==
    LET code == IF "E0ESC" \in shift THEN data + 128 ELSE data
        down == (shift \ {"E0ESC"}) \cup shiftcode(code)
        flags == (down \ togglecode(code)) \cup (togglecode(code) \ down)
    IN  [shift |-> flags, char |-> Cased(flags, charcode(flags, code))]

kbdgetc ==
    /\ wire # <<>>
    /\ wire' = Tail(wire)
    /\ LET data == wire[1]
       IN  CASE data = E0 -> shift' = shift \cup {"E0ESC"} /\ char' = ""
           [] data # E0 /\ data >= 128 -> shift' = Released(data) /\ char' = ""
           [] OTHER -> shift' = Pressed(data).shift /\ char' = Pressed(data).char
    /\ UNCHANGED held

KeyboardNext == kbdgetc \/ \E key \in ScanKey : Moves(key)

-----------------------------------------------------------------------------
KeysOf(m) == {key \in ScanKey : m \in shiftcode(IF key[2] THEN key[1] + 128 ELSE key[1])}

\* Once kbdgetc() has taken every byte, a modifier is off when none of its
\* keys is held and on when all of them are: no order of presses and releases,
\* of plain and extended keys, leaves a modifier or an escape behind.
ModifiersFollow ==
    wire = <<>> =>
      /\ "E0ESC" \notin shift
      /\ \A m \in {"CTL", "SHIFT", "ALT"} :
           /\ KeysOf(m) \cap held = {} => m \notin shift
           /\ KeysOf(m) # {} /\ KeysOf(m) \subseteq held => m \in shift
=============================================================================
