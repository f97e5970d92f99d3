----------------------------- MODULE LineEditor -----------------------------
(***************************************************************************)
(* What the keyboard driver promises: a line with a cursor, edited until   *)
(* it is submitted or aborted.  Keyboard implements it.                    *)
(***************************************************************************)
EXTENDS Integers, Sequences

CONSTANTS Chars,    \* what can be typed
          Newline   \* what ends a line of a text

VARIABLES on,       \* a line is being edited
          line,
          cursor,   \* characters before the cursor
          last      \* what the last line was when it was submitted
vars == <<on, line, cursor, last>>

Init == on = FALSE /\ line = <<>> /\ cursor = 0 /\ last = <<>>

Start == ~on /\ on' /\ line' = <<>> /\ cursor' = 0 /\ last' = <<>>

Edit(l, k) == on /\ on' /\ line' = l /\ cursor' = k /\ UNCHANGED last

Before(k) == SubSeq(line, 1, k)
From(k)   == SubSeq(line, k + 1, Len(line))

Insert(c) == Edit(Before(cursor) \o <<c>> \o From(cursor), cursor + 1)
Backspace == cursor > 0 /\ Edit(Before(cursor - 1) \o From(cursor), cursor - 1)
Left      == cursor > 0 /\ Edit(line, cursor - 1)
Right     == cursor < Len(line) /\ Edit(line, cursor + 1)

Submit ==
    /\ on /\ ~on' /\ line' = <<>> /\ cursor' = 0
    /\ last' \in {line, Append(line, Newline)}

Next == Start \/ (\E c \in Chars : Insert(c)) \/ Backspace \/ Left \/ Right \/ Submit

Spec == Init /\ [][Next]_vars
=============================================================================
