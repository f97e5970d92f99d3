SPECIFICATION Spec
CONSTANTS
    Letters = {"x"}
    Modifiers = {"ctrl", "shift_left"}
    KEYBOARD_BUFFER_SIZE = 4
    BYTE = 4
    COLUMN = 3
    ROW = 2
    TextSize = 6
    MaxLine = 3
VIEW LiveView
INVARIANTS
    
    TextIsWhatWasTyped
 
