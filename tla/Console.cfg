SPECIFICATION ConsoleSpec
CONSTANTS
    Threads = {t1, t2}
    WIDTH = 4
    HEIGHT = 2
    TAB = 2
    U8 = 12
INVARIANTS
    ConsoleTypeOK
    CursorOnScreen
