--------------------------------- MODULE Console -------------------------------
(*****************************************************************************)
(* The console (lib/console.cc): console_putc keeps the cursor in two bytes  *)
(* that every thread and the keyboard interrupt (lib/keyboard.cc) use with   *)
(* no lock.  A thread may be interrupted between any two accesses to them;   *)
(* the interrupt handler runs its own console_putc without interruption.     *)
(*                                                                           *)
(* A character is its class.  What is written to the video memory and the    *)
(* hardware cursor do not affect the cursor and are left out.                *)
(*****************************************************************************)
EXTENDS Integers

CONSTANTS
    Threads,
    WIDTH, HEIGHT,  \* 80 x 25
    TAB,            \* 8
    U8              \* values of uint8_t

VARIABLES
    cursor_x, cursor_y,
    pc,             \* the next access of each thread in console_putc
    r               \* the value it has loaded, until it is used

consoleVars == <<cursor_x, cursor_y, pc, r>>

ASSUME ConsoleAssumption ==
    /\ TAB \in Nat \ {0} /\ WIDTH \in Nat \ {0} /\ HEIGHT \in Nat \ {0}
    /\ U8 \in Nat /\ U8 % TAB = 0 /\ WIDTH < U8 /\ HEIGHT < U8

\* "other": a control character or byte above 127 that the switch ignores
Chars == {"backspace", "tab", "return", "newline", "print", "other"}

TabStop(x) == (x + TAB - ((x + TAB) % TAB)) % U8
\* Mutant: a signed column.
Dec8_Signed(x) == x - 1
Dec8(x) == (x - 1) % U8
Inc8(x) == (x + 1) % U8
\* Mutant: > for >=.
PastLine_Late(x) == x > WIDTH
PastLine(x) == x >= WIDTH
\* Mutant: > for >=.
BelowScreen_Late(y) == y > HEIGHT
BelowScreen(y) == y >= HEIGHT

ConsoleInit ==
    /\ cursor_x = 0 /\ cursor_y = 0
    /\ pc = [t \in Threads |-> "idle"]
    /\ r = [t \in Threads |-> 0]

--------------------------------------------------------------------------------
(* console_putc in a thread: each access to a shared byte is a step.         *)

Goto(t, l) == pc' = [pc EXCEPT ![t] = l]
Used(t) == r' = [r EXCEPT ![t] = 0]
Load(t, v, l) ==
    r' = [r EXCEPT ![t] = v] /\ Goto(t, l) /\ UNCHANGED <<cursor_x, cursor_y>>
StoreX(t, v, l) == cursor_x' = v /\ Used(t) /\ Goto(t, l) /\ UNCHANGED cursor_y
StoreY(t, v, l) == cursor_y' = v /\ Used(t) /\ Goto(t, l) /\ UNCHANGED cursor_x
Test(t, b, yes, no) ==
    Goto(t, IF b THEN yes ELSE no) /\ UNCHANGED <<cursor_x, cursor_y, r>>

\* the switch
console_putc(t, c) == pc[t] = "idle" /\ Test(t, TRUE, c, c)

Backspace(t) ==
    \/ pc[t] = "backspace" /\ Test(t, cursor_x # 0, "dec", "wrap")
    \/ pc[t] = "dec" /\ Load(t, cursor_x, "dec store")
    \/ pc[t] = "dec store" /\ StoreX(t, Dec8(r[t]), "wrap")

Tab(t) ==
    \/ pc[t] = "tab" /\ Load(t, cursor_x, "tab store")
    \/ pc[t] = "tab store" /\ StoreX(t, TabStop(r[t]), "wrap")

Return(t) == pc[t] = "return" /\ StoreX(t, 0, "wrap")

Newline(t) ==
    \/ pc[t] = "newline" /\ StoreX(t, 0, "down")
    \/ pc[t] = "down" /\ Load(t, cursor_y, "down store")
    \/ pc[t] = "down store" /\ StoreY(t, Inc8(r[t]), "wrap")

Printable(t) ==
    \/ pc[t] = "print" /\ Load(t, cursor_x, "inc store")
    \/ pc[t] = "inc store" /\ StoreX(t, Inc8(r[t]), "wrap")

Ignored(t) == pc[t] = "other" /\ Test(t, TRUE, "wrap", "wrap")

\* if (cursor_x >= 80) { cursor_x = 0; ++cursor_y; }
Wrap(t) ==
    \/ pc[t] = "wrap" /\ Test(t, PastLine(cursor_x), "first", "scroll")
    \/ pc[t] = "first" /\ StoreX(t, 0, "next")
    \/ pc[t] = "next" /\ Load(t, cursor_y, "next store")
    \/ pc[t] = "next store" /\ StoreY(t, Inc8(r[t]), "scroll")

\* scroll(), then move_cursor()
scroll(t) ==
    \/ pc[t] = "scroll" /\ Test(t, BelowScreen(cursor_y), "last", "idle")
    \/ pc[t] = "last" /\ StoreY(t, HEIGHT - 1, "idle")

\* the last lines of console_clear()
console_clear(t) ==
    \/ pc[t] = "idle" /\ StoreX(t, 0, "clear")
    \/ pc[t] = "clear" /\ StoreY(t, 0, "idle")

Thread(t) ==
    \/ console_clear(t)
    \/ \E c \in Chars : console_putc(t, c)
    \/ Backspace(t) \/ Tab(t) \/ Return(t) \/ Newline(t) \/ Printable(t) \/ Ignored(t)
    \/ Wrap(t) \/ scroll(t)

--------------------------------------------------------------------------------
(* console_putc in the interrupt handler, all at once.                       *)

SwitchX(c, x) ==
    CASE c = "backspace" -> IF x # 0 THEN x - 1 ELSE 0
      [] c = "tab" -> TabStop(x)
      [] c = "print" -> Inc8(x)
      [] c = "other" -> x
      [] OTHER -> 0

SwitchY(c, y) == IF c = "newline" THEN Inc8(y) ELSE y

WrapX(x)     == IF PastLine(x) THEN 0 ELSE x
WrapY(x, y)  == IF PastLine(x) THEN Inc8(y) ELSE y
Scrolled(y)  == IF BelowScreen(y) THEN HEIGHT - 1 ELSE y

\* A key was pressed: printk("%c", ch)
printk(c) ==
    /\ cursor_x' = WrapX(SwitchX(c, cursor_x))
    /\ cursor_y' = Scrolled(WrapY(SwitchX(c, cursor_x), SwitchY(c, cursor_y)))
    /\ UNCHANGED <<pc, r>>

ConsoleNext ==
    \/ \E t \in Threads : Thread(t)
    \/ \E c \in Chars : printk(c)

ConsoleSpec == ConsoleInit /\ [][ConsoleNext]_consoleVars

--------------------------------------------------------------------------------
Labels == Chars \cup {"idle", "dec", "dec store", "tab store", "down", "down store",
                      "inc store", "wrap", "first", "next", "next store", "scroll", "last", "clear"}

ConsoleTypeOK ==
    /\ cursor_x \in 0..(U8 - 1) /\ cursor_y \in 0..(U8 - 1)
    /\ pc \in [Threads -> Labels] /\ r \in [Threads -> 0..(U8 - 1)]

\* Whenever no thread is inside console_putc, the cursor is on the screen,
\* however the threads' putc and the keyboard's were interleaved: each path
\* through console_putc that can push it off ends in the tests that bring it
\* back.
CursorOnScreen ==
    (\A t \in Threads : pc[t] = "idle") => cursor_x < WIDTH /\ cursor_y < HEIGHT

================================================================================
