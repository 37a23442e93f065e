------------------------------ MODULE Keyboard ------------------------------
(***************************************************************************)
(* kbdgetc() of kbd.c: scan codes, the modifiers it remembers between      *)
(* interrupts, and the tables of kbd.h for the keys below.  The keyboard   *)
(* sends a code when a key goes down, again while it is held, and the code *)
(* with bit 7 set when it goes up; some keys send E0 in front.  The codes  *)
(* arrive one per interrupt.                                               *)
(***************************************************************************)
EXTENDS Integers, Sequences, FiniteSets

CONSTANT MaxDown    \* keys that are held at the same time

VARIABLES
    shift,      \* kbdgetc's static: the modifiers, CAPSLOCK and E0ESC
    down,       \* keys that are held
    codes,      \* codes the keyboard has yet to send
    caps,       \* history: CAPSLOCK was pressed an odd number of times
    c           \* what kbdgetc() returned

vars == <<shift, down, codes, caps, c>>

\* Keys with their codes.  0x1E is the key `a', the E0 keys are on the right.
Code == [lshift |-> <<42>>, rshift |-> <<54>>, lctl |-> <<29>>, rctl |-> <<224, 29>>,
         lalt |-> <<56>>, ralt |-> <<224, 56>>, caps |-> <<58>>, a |-> <<30>>, up |-> <<224, 72>>]
Key == DOMAIN Code

\* shiftcode[] and togglecode[], indexed by code, with 0x80 for an E0 key.
shiftcode(d) == CASE d \in {42, 54} -> {"SHIFT"} [] d \in {29, 157} -> {"CTL"}
                  [] d \in {56, 184} -> {"ALT"} [] OTHER -> {}
togglecode(d) == IF d = 58 THEN {"CAPSLOCK"} ELSE {}

\* charcode[]: the maps for no modifier, SHIFT, CTL and both.
charcode(mods, d) ==
    CASE d = 30 -> IF "CTL" \in mods THEN "^A" ELSE IF "SHIFT" \in mods THEN "A" ELSE "a"
      [] d = 200 -> "KEY_UP"
      [] OTHER -> "NO"

Init == shift = {} /\ down = {} /\ codes = <<>> /\ caps = FALSE /\ c = "NO"

Released(k) == [Code[k] EXCEPT ![Len(Code[k])] = @ + 128]

\* A key goes down, or repeats while it is held.
Press(k) ==
    /\ codes = <<>> /\ Cardinality(down \cup {k}) <= MaxDown
    /\ down' = down \cup {k} /\ codes' = Code[k]
    /\ caps' = IF k = "caps" THEN ~caps ELSE caps
    /\ c' = "NO" /\ UNCHANGED shift

Lift(k) ==
    /\ codes = <<>> /\ k \in down
    /\ down' = down \ {k} /\ codes' = Released(k)
    /\ c' = "NO" /\ UNCHANGED <<shift, caps>>

\* kbdgetc(): E0, a key released, or a key pressed.
Escape == shift' = shift \cup {"E0ESC"} /\ c' = "NO"

\* Mutant: a release leaves E0ESC set.
ReleaseKeepsEscape(data) ==
    LET d == IF "E0ESC" \in shift THEN data ELSE data - 128
    IN  shift' = shift \ shiftcode(d) /\ c' = "NO"

Release(data) ==
    LET d == IF "E0ESC" \in shift THEN data ELSE data - 128
    IN  shift' = shift \ (shiftcode(d) \cup {"E0ESC"}) /\ c' = "NO"

\* shift ^= togglecode[data]
Toggled(mods, d) == (mods \ togglecode(d)) \cup (togglecode(d) \ mods)

Pressed(data) ==
    LET d == IF "E0ESC" \in shift THEN data + 128 ELSE data
        mods == (shift \ {"E0ESC"}) \cup shiftcode(d)
        toggled == Toggled(mods, d)
        char == charcode(toggled \cap {"CTL", "SHIFT"}, d)
    IN  /\ shift' = toggled
        /\ c' = IF "CAPSLOCK" \in toggled /\ char \in {"a", "A"}
                THEN IF char = "a" THEN "A" ELSE "a" ELSE char

kbdgetc ==
    /\ codes # <<>>
    /\ LET data == Head(codes)
       IN  IF data = 224 THEN Escape ELSE IF data >= 128 THEN Release(data) ELSE Pressed(data)
    /\ codes' = Tail(codes)
    /\ UNCHANGED <<down, caps>>

Next == (\E k \in Key : Press(k) \/ Lift(k)) \/ kbdgetc

Spec == Init /\ [][Next]_vars

-----------------------------------------------------------------------------
\* No modifier gets stuck: when the codes have been read, a modifier that
\* kbdgetc() remembers belongs to a key that is held, and no E0 is left over,
\* in whatever order the keys go down and up.
NoStuckModifier ==
    codes = <<>> =>
        /\ "SHIFT" \in shift => down \cap {"lshift", "rshift"} # {}
        /\ "CTL" \in shift => down \cap {"lctl", "rctl"} # {}
        /\ "ALT" \in shift => down \cap {"lalt", "ralt"} # {}
        /\ "E0ESC" \notin shift

\* CAPSLOCK follows the key, and swaps the cases: the letter is a capital when
\* either it or SHIFT is on, but not both; CTL goes before both.
CaseIsRight ==
    /\ codes = <<>> => (caps <=> "CAPSLOCK" \in shift)
    /\ c = "A" => (("SHIFT" \in shift) # ("CAPSLOCK" \in shift))
    /\ c = "a" => (("SHIFT" \in shift) = ("CAPSLOCK" \in shift))
    /\ c \in {"a", "A"} => "CTL" \notin shift

=============================================================================
