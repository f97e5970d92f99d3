------------------------------ MODULE Keyboard ------------------------------
(***************************************************************************)
(* The keyboard driver (keyboard.c), the framebuffer it echoes to          *)
(* (framebuffer.c) and the two system calls that read from it              *)
(* (interrupt.c: 5 for a line, 9 for a text).                              *)
(*                                                                         *)
(* One CPU.  A system call runs with interrupts off until it says sti; the *)
(* keyboard interrupt comes between any two steps of the program in user   *)
(* mode and of the calls after their sti.                                  *)
(***************************************************************************)
EXTENDS Integers, Sequences, SequencesExt

CONSTANTS Letters,              \* keys that type something
          Modifiers,            \* bound: modifier keys pressed
          KEYBOARD_BUFFER_SIZE, \* 256 in the code
          BYTE,                 \* range of uint8_t, 256
          COLUMN, ROW,          \* 80 and 25
          TextSize,             \* bytes the program has for a text
          MaxLine               \* bound: characters of a line

ASSUME KeyboardAssumption ==
    /\ Modifiers \subseteq {"shift_left", "shift_right", "capslock", "ctrl"}
    /\ KEYBOARD_BUFFER_SIZE \in Nat \ {0} /\ BYTE \in Nat \ {0}
    /\ COLUMN \in Nat \ {0} /\ ROW \in Nat \ {0}
    /\ TextSize \in Nat /\ MaxLine \in Nat
    /\ {"nul", "newline", "blank", "prompt"} \cap Letters = {}

\* a character is a key and whether shift or capslock changed it; those that no
\* letter key types have names of their own
Chars   == Letters \X BOOLEAN
NUL     == <<"nul", FALSE>>
Newline == <<"newline", FALSE>>
Blank   == <<"blank", FALSE>>
Prompt  == <<"prompt", FALSE>>

VARIABLES
    keyboard_input_on, text_mode, aborted,      \* keyboard_state
    capslock, shift_left, shift_right, ctrl,
    buffer_index, keyboard_buffer,
    screen, row, col, start_row, start_col,     \* framebuffer and its state
    pc,         \* where the program is: "user", or in call 5 or 9
    allocated,  \* bytes of the text so far
    text,       \* the program's buffer
    typed       \* the lines that were typed for this text

state   == <<keyboard_input_on, text_mode, aborted>>
mods    == <<capslock, shift_left, shift_right, ctrl>>
line    == <<buffer_index, keyboard_buffer>>
display == <<screen, row, col, start_row, start_col>>
call    == <<pc, allocated, text, typed>>
vars    == <<state, mods, line, display, call>>

Index == 0 .. KEYBOARD_BUFFER_SIZE - 1
Cell  == 0 .. ROW * COLUMN - 1
Empty == [k \in Index |-> NUL]

\* the characters in a buffer before its terminator
ContentsOf(b) ==
    LET s == [k \in 1 .. KEYBOARD_BUFFER_SIZE |-> b[k - 1]]
        n == SelectInSeq(s, LAMBDA c : c = NUL)
    IN  IF n = 0 THEN s ELSE SubSeq(s, 1, n - 1)

Contents == ContentsOf(keyboard_buffer)

-----------------------------------------------------------------------------
(* framebuffer.c                                                            *)

Display == [screen |-> screen, row |-> row, col |-> col, start_row |-> start_row]

\* a cell outside the screen is other memory
Draw(s, r, c, char) == [k \in Cell |-> IF k = r * COLUMN + c THEN char ELSE s[k]]

ScrollUp(d) ==
    [d EXCEPT !.screen = [k \in Cell |-> IF k + COLUMN \in Cell THEN @[k + COLUMN] ELSE Blank],
              !.row = @ - 1, !.start_row = @ - 1]

PutChar(d, c) ==
    LET drawn == IF c = Newline THEN d
                 ELSE [d EXCEPT !.screen = Draw(@, d.row, d.col, c)]
        wrapped == [drawn EXCEPT !.row = @ + 1, !.col = 0]
    IN  IF c # Newline /\ d.col # COLUMN - 1 THEN [drawn EXCEPT !.col = @ + 1]
        ELSE IF wrapped.row = ROW THEN ScrollUp(wrapped) ELSE wrapped

\* puts, which ends at a terminator
Puts(d, s) ==
    LET put[k \in 0 .. Len(s)] ==
            IF k = 0 THEN d
            ELSE IF \E j \in 1 .. k : s[j] = NUL THEN put[k - 1] ELSE PutChar(put[k - 1], s[k])
    IN  put[Len(s)]

\* mutant: the last character is not drawn
RestButLast(b, k, count) == [j \in 1 .. count - 1 |-> b[k + j - 1]]

\* what puts is given of buffer b from k on: count characters, or all there are
\* when count is negative and read as a uint32_t
Rest(b, k, count) ==
    [j \in 1 .. (IF count < 0 THEN KEYBOARD_BUFFER_SIZE - k ELSE count) |->
        IF k + j - 1 \in Index THEN b[k + j - 1] ELSE NUL]

-----------------------------------------------------------------------------
(* keyboard_isr, for each key.                                              *)

\* mutant: the rows a line wraps to are not counted
CurrentIndexInRow == (col - start_col) % BYTE

\* get_current_buffer_index
CurrentIndex == (col - start_col + (row - start_row) * COLUMN) % BYTE

\* the interrupt is taken wherever the flag is set
Interruptible == pc \in {"user", "line", "text", "armed", "waiting"}

\* a key that comes while nobody reads
Ignored ==
    /\ Interruptible /\ ~keyboard_input_on
    /\ buffer_index' = 0
    /\ UNCHANGED <<state, mods, keyboard_buffer, display, call>>

Listening == Interruptible /\ keyboard_input_on

\* a modifier key goes down or up
Modify(key, down) ==
    /\ Listening
    /\ capslock'    = IF key = "capslock" /\ down THEN ~capslock ELSE capslock
    /\ shift_left'  = IF key = "shift_left" THEN down ELSE shift_left
    /\ shift_right' = IF key = "shift_right" THEN down ELSE shift_right
    /\ ctrl'        = IF key = "ctrl" THEN down ELSE ctrl
    /\ UNCHANGED <<state, line, display, call>>

LeftArrow ==
    /\ Listening /\ CurrentIndex # 0
    /\ col' = IF col = 0 THEN COLUMN - 1 ELSE col - 1
    /\ row' = IF col = 0 THEN row - 1 ELSE row
    /\ UNCHANGED <<state, mods, line, screen, start_row, start_col, call>>

RightArrow ==
    /\ Listening /\ CurrentIndex # buffer_index
    /\ col' = IF col = COLUMN - 1 THEN 0 ELSE col + 1
    /\ row' = IF col = COLUMN - 1 THEN row + 1 ELSE row
    /\ UNCHANGED <<state, mods, line, screen, start_row, start_col, call>>

\* control and the first letter
Abort ==
    /\ Listening /\ text_mode /\ ctrl
    /\ aborted' = TRUE /\ keyboard_input_on' = FALSE
    /\ UNCHANGED <<text_mode, mods, line, display, call>>

BackspaceKey ==
    LET i     == CurrentIndex
        moved == [k \in Index |-> IF k >= i - 1 /\ k < buffer_index - 1
                                  THEN keyboard_buffer[k + 1] ELSE keyboard_buffer[k]]
        b     == [moved EXCEPT ![buffer_index - 1] = NUL]
        back  == IF col = 0 THEN [Display EXCEPT !.row = @ - 1, !.col = COLUMN - 1]
                 ELSE [Display EXCEPT !.col = @ - 1]
        at    == IF back.row < 0 THEN [back EXCEPT !.row = 0, !.col = 0] ELSE back
        put   == Puts(at, Rest(b, i - 1, buffer_index - i))
    IN  /\ Listening /\ i > 0
        /\ keyboard_buffer' = b
        /\ buffer_index' = (buffer_index - 1) % BYTE
        /\ screen' = Draw(put.screen, put.start_row, start_col + buffer_index - 1, Blank)
        /\ start_row' = put.start_row
        /\ row' = at.row /\ col' = at.col
        /\ UNCHANGED <<state, mods, start_col, call>>

EnterKey ==
    LET put == Puts(Display, <<Newline>>)
    IN  /\ Listening
        /\ keyboard_buffer' = IF text_mode THEN [keyboard_buffer EXCEPT ![buffer_index] = Newline]
                              ELSE keyboard_buffer
        /\ screen' = put.screen /\ row' = put.row /\ col' = put.col
        /\ start_row' = put.start_row
        /\ keyboard_input_on' = FALSE
        /\ UNCHANGED <<text_mode, aborted, mods, buffer_index, start_col, call>>

\* a character is inserted at the cursor, and the rest of the line drawn again
Type(key) ==
    LET i    == CurrentIndex
        c    == <<key, capslock # (shift_left \/ shift_right)>>
        b    == [k \in Index |-> IF k = i THEN c
                                 ELSE IF k > i /\ k <= buffer_index
                                 THEN keyboard_buffer[k - 1] ELSE keyboard_buffer[k]]
        n    == (buffer_index + 1) % BYTE
        put  == Puts(Display, Rest(b, i, n - i))
    IN  /\ Listening
        /\ ~(text_mode /\ ctrl)
        /\ keyboard_buffer' = b
        /\ buffer_index' = n
        /\ screen' = put.screen /\ start_row' = put.start_row
        /\ col' = IF col = COLUMN - 1 THEN 0 ELSE col + 1
        /\ row' = IF col = COLUMN - 1 THEN row + 1 ELSE row
        /\ UNCHANGED <<state, mods, start_col, call>>

-----------------------------------------------------------------------------
(* The program, its system calls and keyboard_state_activate.               *)

Activate ==
    /\ keyboard_buffer' = Empty /\ buffer_index' = 0
    /\ keyboard_input_on' = TRUE
    /\ text_mode' = FALSE /\ aborted' = FALSE
    /\ capslock' = FALSE /\ shift_left' = FALSE /\ shift_right' = FALSE /\ ctrl' = FALSE
    /\ start_col' = col /\ start_row' = row
    /\ UNCHANGED <<screen, row, col>>

\* call 6: the program prints something
PrintPrompt(c) ==
    LET put == Puts(Display, <<c>>)
    IN  /\ pc = "user"
        /\ screen' = put.screen /\ row' = put.row /\ col' = put.col
        /\ start_row' = put.start_row
        /\ UNCHANGED <<state, mods, line, start_col, call>>

\* call 10
ClearScreen ==
    /\ pc = "user"
    /\ screen' = [k \in Cell |-> Blank] /\ row' = 0 /\ col' = 0
    /\ UNCHANGED <<state, mods, line, start_row, start_col, call>>

\* call 5: read a line
ReadLine ==
    /\ pc = "user" /\ pc' = "line"
    /\ Activate
    /\ UNCHANGED <<allocated, text, typed>>

LineRead ==
    /\ pc = "line" /\ ~keyboard_input_on /\ pc' = "user"
    /\ UNCHANGED <<state, mods, line, display, allocated, text, typed>>

\* call 9: read lines until one is aborted or the room is used up
ReadText ==
    /\ pc = "user" /\ pc' = "text"
    /\ allocated' = 0 /\ text' = [k \in 0 .. TextSize - 1 |-> NUL] /\ typed' = <<>>
    /\ UNCHANGED <<state, mods, line, display>>

TextActivate ==
    /\ pc = "text" /\ pc' = "armed"
    /\ Activate
    /\ UNCHANGED <<allocated, text, typed>>

TextMode ==
    /\ pc = "armed" /\ pc' = "waiting"
    /\ text_mode' = TRUE
    /\ UNCHANGED <<keyboard_input_on, aborted, mods, line, display, allocated, text, typed>>

\* mutant: the length is added before the copy, however much room is left
CopyAtAfter(available, n) == allocated + n

\* where a line of n characters is copied to; with less room than a keyboard
\* buffer its length was added first
CopyAt(available, n) ==
    IF available >= KEYBOARD_BUFFER_SIZE THEN allocated ELSE allocated + n

\* a line is copied behind the ones before it; when less than a whole keyboard
\* buffer is left, behind where it should be
LineOfText ==
    LET available == TextSize - allocated
        n  == Len(Contents)
        at == CopyAt(available, n)
        size == IF available >= KEYBOARD_BUFFER_SIZE THEN KEYBOARD_BUFFER_SIZE ELSE available
    IN  /\ pc = "waiting" /\ ~keyboard_input_on
        /\ text' = [k \in DOMAIN text |-> IF k >= at /\ k < at + size THEN keyboard_buffer[k - at]
                                          ELSE text[k]]
        /\ allocated' = allocated + n
        /\ typed' = typed \o Contents
        /\ pc' = IF aborted \/ available <= KEYBOARD_BUFFER_SIZE THEN "user" ELSE "text"
        /\ UNCHANGED <<state, mods, line, display>>

-----------------------------------------------------------------------------
Init ==
    /\ keyboard_input_on = FALSE /\ text_mode = FALSE /\ aborted = FALSE
    /\ capslock = FALSE /\ shift_left = FALSE /\ shift_right = FALSE /\ ctrl = FALSE
    /\ buffer_index = 0 /\ keyboard_buffer = Empty
    /\ screen = [k \in Cell |-> Blank]
    /\ row = 0 /\ col = 0 /\ start_row = 0 /\ start_col = 0
    /\ pc = "user" /\ allocated = 0 /\ typed = <<>>
    /\ text = [k \in 0 .. TextSize - 1 |-> NUL]

Key == \/ Ignored \/ LeftArrow \/ RightArrow \/ Abort \/ BackspaceKey \/ EnterKey
       \/ \E key \in Modifiers, down \in BOOLEAN : Modify(key, down)

Program == \/ \E c \in {Prompt, Newline} : PrintPrompt(c)
           \/ ClearScreen \/ ReadLine \/ LineRead
           \/ ReadText \/ TextActivate \/ TextMode \/ LineOfText

\* the line does not reach the last cell, where drawing it would scroll
Room == start_row * COLUMN + start_col + buffer_index + 1 < ROW * COLUMN

Next == \/ Key
        \/ Program
        \/ \E key \in Letters : buffer_index < MaxLine /\ Room /\ Type(key)

Spec == Init /\ [][Next]_vars

-----------------------------------------------------------------------------

\* The line that is being edited, and the one that was submitted, are what an
\* editor with a cursor would have made of the keys: through left and right,
\* backspace, and lines that wrap over the screen's edge.
E == INSTANCE LineEditor WITH
        on     <- keyboard_input_on,
        line   <- IF keyboard_input_on
                  THEN [k \in 1 .. buffer_index |-> keyboard_buffer[k - 1]] ELSE <<>>,
        cursor <- IF keyboard_input_on THEN CurrentIndex ELSE 0,
        last   <- IF keyboard_input_on THEN <<>> ELSE Contents
ImplementsLineEditor == E!Spec

\* The screen shows the line, from where it started: what is inserted or taken
\* out in its middle is drawn again, on every row it wraps to.
ScreenShowsLine ==
    keyboard_input_on =>
        \A k \in 0 .. buffer_index - 1 :
            screen[start_row * COLUMN + start_col + k] = keyboard_buffer[k]

\* What the call for a text hands over is what was typed, in order, as long as
\* a whole keyboard buffer was left for the last line.
TextIsWhatWasTyped ==
    pc = "user" /\ Len(typed) + KEYBOARD_BUFFER_SIZE <= TextSize =>
        \A k \in 1 .. Len(typed) : text[k - 1] = typed[k]
=============================================================================
