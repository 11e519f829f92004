------------------------------- MODULE Console -------------------------------
(***************************************************************************)
(* Keyboard, screen and line editor: the loop of kernel_main in            *)
(* src/src/kernel.c, the text buffer of src/src/screen.c, the one key that *)
(* io_keyboard_buffer holds, and the shell that reads keys and echoes them *)
(* (read_keyboard, read_command_line and main of src/programs/shell/c.c).  *)
(*                                                                         *)
(* kernel_main runs with interrupts on, so a tick can come between any two *)
(* of its loads and stores; the build does not optimise, so buffer_end is  *)
(* loaded and stored where the code names it.  A system call of the shell  *)
(* is one step.  Pixels are left out: they follow from the buffer, its end *)
(* and scroll when screen_flush draws them.                                *)
(***************************************************************************)
EXTENDS Integers, Sequences, FiniteSets

CONSTANTS
    Characters,     \* keys that are printable characters
    BUFFER_SIZE,    \* characters of the screen's buffer (0x4000)
    TAB,            \* tab_size (4)
    LINE,           \* bytes of a line (128)
    Prompt,         \* what the shell prints in front of a line
    Message,        \* what kernel_main prints
    Outputs,        \* what commands print
    KEYS            \* bound: keys that are pressed

Controls == {"backspace", "tab", "enter", "up", "down", "f12"}
Keys == Characters \cup Controls

\* No character has the code of another key, and "none" is no key.
ASSUME ConsoleAssumption ==
    /\ BUFFER_SIZE \in Nat \ {0} /\ TAB \in Nat \ {0} /\ LINE \in Nat \ {0}
    /\ KEYS \in Nat
    /\ Characters \subseteq STRING \ (Controls \cup {"none", "newline"})
    /\ Prompt \in Seq(STRING) /\ Message \in Seq(STRING) \ {<<>>} /\ Outputs \subseteq Seq(STRING)

VARIABLES
    buffer, buffer_end, scroll,     \* of screen.c; buffer[BUFFER_SIZE] is what is
                                    \* behind the buffer
    io_keyboard_buffer,             \* a key or "none"
    pressed,                        \* history: how many keys were pressed
    kpc, message, reg,              \* kernel_main: what is left to print, and
                                    \* the value it has loaded
    spc, key, line, counter,        \* the shell
    keys,                           \* history: the characters typed for this line
    mark, quiet                     \* history: where the line begins on the
                                    \* screen, and that only the shell has printed

screenVars == <<buffer, buffer_end, scroll>>
keyVars == <<io_keyboard_buffer, pressed>>
kernelVars == <<kpc, message, reg>>
lineVars == <<line, counter, keys>>
echoVars == <<mark, quiet>>
shellVars == <<spc, key, lineVars>>
vars == <<screenVars, keyVars, kernelVars, shellVars, echoVars>>

-----------------------------------------------------------------------------
(* screen_print as one step, for system calls.                              *)

Put(s, c) == [text |-> [s.text EXCEPT ![s.end] = c], end |-> s.end + 1]

\* n spaces, or as many as the buffer has room for.
Spaces(s, n) ==
    LET end == IF s.end + n <= BUFFER_SIZE THEN s.end + n ELSE BUFFER_SIZE
    IN  [text |-> [i \in DOMAIN s.text |->
                     IF s.end <= i /\ i < end THEN " " ELSE s.text[i]],
         end |-> end]

\* Mistake: a full buffer is noticed one character late.
Room_Late(s) == IF s.end > BUFFER_SIZE THEN [text |-> s.text, end |-> 0] ELSE s

\* "Prevent buffer overflow".
Room(s) == IF s.end >= BUFFER_SIZE THEN [text |-> s.text, end |-> 0] ELSE s

PrintChar(s, c) ==
    CASE c = "backspace" -> IF s.end > 0 THEN [text |-> [s.text EXCEPT ![s.end] = ""],
                                        end |-> s.end - 1] ELSE s
      [] c = "tab" -> Spaces(s, TAB - (s.end % TAB))
      [] OTHER -> Put(s, c)

PrintAll(s, msg) ==
    LET printed[n \in 0 .. Len(msg)] ==
            IF n = 0 THEN s ELSE PrintChar(Room(printed[n - 1]), msg[n])
    IN  printed[Len(msg)]

screen_print(msg) ==
    LET s == PrintAll([text |-> buffer, end |-> buffer_end], msg)
    IN  buffer' = s.text /\ buffer_end' = s.end /\ UNCHANGED scroll

screen_clear ==
    /\ buffer' = [i \in DOMAIN buffer |-> IF i < BUFFER_SIZE THEN "" ELSE buffer[i]]
    /\ buffer_end' = 0 /\ scroll' = 0

-----------------------------------------------------------------------------
(* kernel_main.                                                             *)

Printing == kpc \in {"check", "reset", "load", "bump", "put"}

\* io_keyboard_read returns a key (it skips the codes of released ones), which is
\* put in the buffer whether or not the last has been read; keys that are not
\* characters are handled here.
KeyPressed ==
    /\ kpc = "read" /\ pressed < KEYS
    /\ \E k \in Keys :
         /\ io_keyboard_buffer' = k
         /\ kpc' = CASE k \in {"up", "down"} -> k
                     [] k = "f12" -> "check"
                     [] OTHER -> "read"
         /\ message' = IF k = "f12" THEN Message ELSE <<>>
         /\ quiet' = (quiet /\ k # "f12")
    /\ pressed' = pressed + 1
    /\ UNCHANGED <<screenVars, reg, shellVars, mark>>

\* screen_get_scroll.
LoadScroll ==
    /\ kpc \in {"up", "down"}
    /\ reg' = IF kpc = "up" THEN scroll - 1 ELSE scroll + 1
    /\ kpc' = "scroll"
    /\ UNCHANGED <<screenVars, keyVars, message, shellVars, echoVars>>

\* screen_scroll.
StoreScroll ==
    /\ kpc = "scroll"
    /\ scroll' = IF reg > 0 THEN reg ELSE 0
    /\ reg' = 0
    /\ kpc' = "read"
    /\ UNCHANGED <<buffer, buffer_end, keyVars, message, shellVars, echoVars>>

\* screen_print, step by step: the buffer is full or not.
CheckEnd ==
    /\ kpc = "check"
    /\ kpc' = IF buffer_end >= BUFFER_SIZE THEN "reset" ELSE "load"
    /\ UNCHANGED <<screenVars, keyVars, message, reg, shellVars, echoVars>>

ResetEnd ==
    /\ kpc = "reset"
    /\ buffer_end' = 0
    /\ kpc' = "load"
    /\ UNCHANGED <<buffer, scroll, keyVars, message, reg, shellVars, echoVars>>

\* buffer[buffer_end++] = c: a load and two stores.
LoadEnd ==
    /\ kpc = "load"
    /\ reg' = buffer_end
    /\ kpc' = "bump"
    /\ UNCHANGED <<screenVars, keyVars, message, shellVars, echoVars>>

StoreEnd ==
    /\ kpc = "bump"
    /\ buffer_end' = reg + 1
    /\ kpc' = "put"
    /\ UNCHANGED <<buffer, scroll, keyVars, message, reg, shellVars, echoVars>>

\* The next character, or screen_flush and the next key.
StoreChar ==
    /\ kpc = "put"
    /\ buffer' = [buffer EXCEPT ![reg] = Head(message)]
    /\ message' = Tail(message)
    /\ reg' = 0
    /\ kpc' = IF message' = <<>> THEN "read" ELSE "check"
    /\ UNCHANGED <<buffer_end, scroll, keyVars, shellVars, echoVars>>

-----------------------------------------------------------------------------
(* The shell.                                                               *)

\* main prints the prompt.
PrintPrompt ==
    /\ spc = "prompt"
    /\ screen_print(Prompt)
    /\ mark' = buffer_end' /\ quiet' = ~Printing
    /\ spc' = "read"
    /\ UNCHANGED <<keyVars, kernelVars, key, lineVars>>

\* System call 20 takes the key.
ReadSyscall == io_keyboard_buffer' = "none"

\* read_keyboard, which asks again while there is none.
read_keyboard ==
    /\ spc = "read" /\ io_keyboard_buffer # "none"
    /\ key' = io_keyboard_buffer
    /\ ReadSyscall
    /\ spc' = "key"
    /\ UNCHANGED <<screenVars, pressed, kernelVars, lineVars, echoVars>>

is_character(k) == k \in Characters \cup {"backspace", "tab", "enter"}

Ignore == spc' = "read" /\ key' = "none"

\* A key that is not a character, and a backspace at the beginning of the line.
KeyIgnored ==
    /\ spc = "key"
    /\ ~is_character(key) \/ (key = "backspace" /\ counter <= 0)
    /\ Ignore
    /\ keys' = IF is_character(key) THEN Append(keys, key) ELSE keys
    /\ UNCHANGED <<screenVars, keyVars, kernelVars, line, counter, echoVars>>

\* Mistake: what is erased stays in the line.
Edited_Kept == line

\* Tab and Enter are not stored.
Edited ==
    IF key \in Characters THEN [line EXCEPT ![counter] = key]
    ELSE IF key = "backspace" THEN [line EXCEPT ![counter - 1] = ""]
    ELSE line

\* A full line begins again at its start.
Moved ==
    IF key \in Characters THEN (IF counter + 1 >= LINE THEN 0 ELSE counter + 1)
    ELSE IF key = "backspace" THEN counter - 1 ELSE counter

\* Mistake: a backspace is not shown.
Echo_Silent == IF key = "enter" THEN <<"newline">> ELSE IF key = "backspace" THEN <<>> ELSE <<key>>

Echo == IF key = "enter" THEN <<"newline">> ELSE <<key>>

KeyTyped ==
    /\ spc = "key" /\ is_character(key) /\ (key = "backspace" => counter > 0)
    /\ line' = Edited /\ counter' = Moved
    /\ screen_print(Echo)
    /\ keys' = Append(keys, key)
    /\ quiet' = (quiet /\ buffer_end < BUFFER_SIZE)
    /\ spc' = IF key = "enter" THEN "command" ELSE "read"
    /\ key' = "none"
    /\ UNCHANGED <<keyVars, kernelVars, mark>>

\* read_command_line allocates a line of zeros for every command.
NewLine == [i \in 0 .. LINE - 1 |-> ""]

\* What the command does on the screen (module Shell shows the rest); the line is
\* freed, and the next one is empty.
Command ==
    /\ spc = "command"
    /\ \/ \E msg \in Outputs : screen_print(msg)
       \/ screen_clear
    /\ line' = NewLine /\ counter' = 0 /\ keys' = <<>>
    /\ spc' = "prompt"
    /\ quiet' = FALSE /\ mark' = 0
    /\ UNCHANGED <<keyVars, kernelVars, key>>

-----------------------------------------------------------------------------
\* The kernel has just started the shell, and prints that it has.
Init ==
    /\ buffer = [i \in 0 .. BUFFER_SIZE |-> ""] /\ buffer_end = 0 /\ scroll = 0
    /\ io_keyboard_buffer = "none" /\ pressed = 0
    /\ kpc = "check" /\ message = Message /\ reg = 0
    /\ spc = "prompt" /\ key = "none"
    /\ line = NewLine /\ counter = 0 /\ keys = <<>>
    /\ mark = 0 /\ quiet = FALSE

KernelStep ==
    \/ LoadScroll \/ StoreScroll
    \/ CheckEnd \/ ResetEnd \/ LoadEnd \/ StoreEnd \/ StoreChar

ShellStep == PrintPrompt \/ read_keyboard \/ KeyIgnored \/ KeyTyped \/ Command

Next == KeyPressed \/ KernelStep \/ ShellStep

Spec == Init /\ [][Next]_vars

-----------------------------------------------------------------------------
(* Properties.                                                              *)

\* Of the two that print, the kernel may write one character behind the buffer:
\* it looks whether there is room before it loads the end, and the shell may fill
\* the buffer in between.  It is never more than that one.
AtMostOneBehind ==
    /\ DOMAIN buffer = 0 .. BUFFER_SIZE
    /\ buffer_end \in 0 .. BUFFER_SIZE + 1
    /\ scroll \in Nat
    /\ io_keyboard_buffer \in Keys \cup {"none"}
    /\ key \in Keys \cup {"none"}
    /\ DOMAIN line = 0 .. LINE - 1 /\ counter \in 0 .. LINE - 1

Count(s, from, to, S) == Cardinality({n \in from .. to : s[n] \in S})

\* The characters that no backspace took away.
Kept(s) ==
    LET kept == {n \in DOMAIN s :
                   /\ s[n] \in Characters
                   /\ \A m \in n + 1 .. Len(s) :
                        Count(s, n + 1, m, {"backspace"}) <= Count(s, n + 1, m, Characters)}
    IN  [k \in 1 .. Cardinality(kept) |->
            s[CHOOSE n \in kept : Cardinality({m \in kept : m < n}) = k - 1]]

\* The line was never full.
Short == \A n \in DOMAIN keys : Len(Kept(SubSeq(keys, 1, n))) < LINE

\* Whatever keys come in between, a line that was never full holds the characters
\* that were typed and not erased, and zeros: parse_command_line reads behind the
\* first.
LineIsTyped ==
    Short => \A i \in DOMAIN line :
                line[i] = IF i < Len(Kept(keys)) THEN Kept(keys)[i + 1] ELSE ""

\* What stands on the screen behind the prompt is the line, as long as the kernel
\* prints nothing and the buffer does not begin again: the line editor and the
\* screen erase the same characters, and never the prompt.
EchoIsLine ==
    spc = "read" /\ quiet /\ Short /\ (\A n \in DOMAIN keys : keys[n] # "tab") =>
        /\ buffer_end = mark + Len(Kept(keys))
        /\ \A n \in 1 .. Len(Kept(keys)) : buffer[mark + n - 1] = Kept(keys)[n]
=============================================================================
