----------------------------- MODULE MCKeyboard -----------------------------
(* The view under which TLC explores Keyboard.                              *)
EXTENDS Keyboard

\* nothing reads the screen, and the invariants only the cells of the line;
\* where it starts is set again before the next line
LiveView ==
    <<state, mods, line, row, col, call,
      IF keyboard_input_on
      THEN <<start_row, start_col,
             {<<k, screen[k]>> : k \in {c \in Cell :
                c >= start_row * COLUMN + start_col
                /\ c < start_row * COLUMN + start_col + buffer_index}} >>
      ELSE <<>> >>
=============================================================================
