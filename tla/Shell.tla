-------------------------------- MODULE Shell --------------------------------
(***************************************************************************)
(* The shell of src/programs/shell/c.c on the file system of module        *)
(* FileSystem: a line is split into a command and arguments, arguments     *)
(* become absolute paths, and the command calls the file system.           *)
(*                                                                         *)
(* A string is the sequence of its characters, without the terminator; a   *)
(* line is the buffer that read_command_line returns (module Console shows *)
(* which buffers those are).  heap counts the blocks malloc has handed out *)
(* and free has not got back.  Only the shell calls the file system.       *)
(***************************************************************************)
EXTENDS Integers, Sequences, FiniteSets, FiniteSetsExt, SequencesExt

CONSTANTS
    SECTORS, SECTOR_SIZE, FILE_TABLE_ENTRIES, FILE_TABLE_SECTORS, COUNT_MOD, WORD,
    Names, Stored, Paths, Data, Sizes,      \* of FileSystem
    Spelling,           \* Spelling[n]: the characters of the name n
    Lines,              \* the lines users type
    LINE,               \* bytes of a line (128)
    WORKING_DIR,        \* bytes of working_dir (128)
    STACK,              \* parts parse_path has room for (64)
    CAPACITY,           \* arguments there is room for at first (10)
    ENTRY,              \* sizeof(dir_entry_t) (64)
    FILE_NAME_LENGTH,   \* 60
    FRAMES,             \* calls of recursive_find the stack has room for
    COMMANDS,           \* bound: lines that are typed
    NUL                 \* the character 0

VARIABLES
    disk, wild, call,   \* of FileSystem; wild also when the shell runs wild
    working_dir, heap, count,
    before,             \* history: heap at the prompt
    pc, line, command, args, args_capacity, arg_start,
    paths, at, stack,   \* of parse_path: paths still to parse, the position in
                        \* the first, and its parts
    parsed,             \* history: what was parsed, with what came of it
    frames,             \* of recursive_find: the calls under way
    out                 \* what the command has printed

FS == INSTANCE FileSystem

diskVars == <<disk, wild, call>>
countVars == <<count, before>>
lineVars == <<line, command, args, args_capacity, arg_start>>
pathVars == <<paths, at, stack, parsed>>
vars == <<diskVars, working_dir, heap, count, before, pc, lineVars, pathVars,
          frames, out>>

-----------------------------------------------------------------------------
(* parse_command_line.  Positions count from 0, as in the code.             *)

\* A byte of the line, or one behind the buffer: beyond is the first of them, and
\* no more than that one is a space.
Char(i, beyond) == IF i < LINE THEN line[i + 1] ELSE IF i = LINE THEN beyond ELSE "x"

\* The first position from i on where a loop over the line stops.
Stop(i, beyond) ==
    Min({j \in i .. Max({i, LINE}) : Char(j, beyond) \in {" ", NUL} \/ j >= LINE})

Slice(i, j) == SubSeq(line, i + 1, j)

\* In the order of the comparisons.
Commands == <<"ls", "echo", "clear", "cd", "touch", "cat", "write", "rm", "man",
              "find", "mkdir", "rmdir", "mv", "stat">>

Letters ==
    [ls |-> <<"l", "s">>, echo |-> <<"e", "c", "h", "o">>,
     clear |-> <<"c", "l", "e", "a", "r">>, cd |-> <<"c", "d">>,
     touch |-> <<"t", "o", "u", "c", "h">>, cat |-> <<"c", "a", "t">>,
     write |-> <<"w", "r", "i", "t", "e">>, rm |-> <<"r", "m">>,
     man |-> <<"m", "a", "n">>, find |-> <<"f", "i", "n", "d">>,
     mkdir |-> <<"m", "k", "d", "i", "r">>, rmdir |-> <<"r", "m", "d", "i", "r">>,
     mv |-> <<"m", "v">>, stat |-> <<"s", "t", "a", "t">>]

\* strncmp(line, name, command_size): a command is known by any prefix of its name,
\* and the first that fits is taken.
Match(word) ==
    LET fit == {n \in DOMAIN Commands : IsPrefix(word, Letters[Commands[n]])}
    IN  IF fit = {} THEN "none" ELSE Commands[Min(fit)]

\* main: the prompt, and a line.
ReadLine ==
    /\ pc = "prompt" /\ ~wild /\ count < COMMANDS
    /\ count' = count + 1
    /\ line' \in Lines
    /\ heap' = heap + 1
    /\ pc' = "parse"
    /\ before' = heap
    /\ out' = <<>> /\ parsed' = {} /\ command' = "none" /\ args' = <<>>
    /\ UNCHANGED <<diskVars, working_dir, args_capacity, arg_start, paths, at, stack,
                   frames>>

\* An empty line, or one with no end.
NoCommand ==
    /\ pc = "parse"
    /\ \/ line[1] = NUL
       \/ \A i \in 1 .. LINE : line[i] \notin {" ", NUL}
    /\ heap' = heap - 1
    /\ pc' = "prompt"
    /\ UNCHANGED <<diskVars, working_dir, countVars, lineVars, pathVars, frames, out>>

\* The line is freed when the arguments are there.
ParseCommand ==
    /\ pc = "parse" /\ line[1] # NUL
    /\ \E beyond \in {" ", "x"} :
         LET size == Stop(0, beyond)
             reached_end == size + 1 >= LINE \/ Char(size + 1, beyond) = NUL
         IN  /\ Char(size, beyond) \in {" ", NUL}
             /\ command' = Match(Slice(0, size))
             /\ arg_start' = size + 1
             /\ heap' = IF reached_end THEN heap ELSE heap + 1
             /\ pc' = IF reached_end THEN "run" ELSE "args"
    /\ args' = <<>> /\ args_capacity' = CAPACITY
    /\ UNCHANGED <<diskVars, working_dir, countVars, line, pathVars, frames, out>>

Grown == IF Len(args) > args_capacity \div 2 THEN 2 * args_capacity ELSE args_capacity

\* Mistake: one character too far.
NextStart_Skip(end) == end + 2

NextStart(end) == end + 1

ParseArgument ==
    /\ pc = "args"
    /\ \E beyond \in {" ", "x"} :
         LET end == Stop(arg_start, beyond)
             reached_end == Char(end, beyond) # " "
         IN  /\ args' = Append(args, Slice(arg_start, end))
             /\ arg_start' = NextStart(end)
             /\ heap' = IF reached_end THEN heap ELSE heap + 1
             /\ pc' = IF reached_end THEN "run" ELSE "args"
    /\ args_capacity' = Grown
    /\ UNCHANGED <<diskVars, working_dir, countVars, line, command, pathVars, frames, out>>

-----------------------------------------------------------------------------
(* execute_command_line                                                     *)

say(what, text) == [what |-> what, text |-> text]

\* The numbers of arguments a command takes.
Arity ==
    [ls |-> {0, 1}, echo |-> {1}, clear |-> {0}, cd |-> {1}, touch |-> {1},
     cat |-> {1}, write |-> {2}, rm |-> {1}, man |-> {0, 1}, find |-> {0, 1},
     mkdir |-> {1}, rmdir |-> {1}, mv |-> {2}, stat |-> {1}]

\* The command is over; main frees the arguments.
Return(said, freed) ==
    /\ out' = out \o said
    /\ heap' = heap - freed - Len(args) - 1
    /\ pc' = "prompt"

NotFound ==
    /\ pc = "run" /\ command = "none"
    /\ Return(<<say("not found", <<>>)>>, 0)
    /\ UNCHANGED <<diskVars, working_dir, countVars, lineVars, pathVars, frames>>

Usage ==
    /\ pc = "run" /\ command # "none" /\ Len(args) \notin Arity[command]
    /\ Return(<<say("usage", <<>>)>>, 0)
    /\ UNCHANGED <<diskVars, working_dir, countVars, lineVars, pathVars, frames>>

Called(names) == pc = "run" /\ command \in names /\ Len(args) \in Arity[command]

\* A command that only prints.
Prints(name) ==
    /\ Called({name})
    /\ Return(<<say(name, IF args = <<>> THEN <<>> ELSE args[1])>>, 0)
    /\ UNCHANGED <<diskVars, working_dir, countVars, lineVars, pathVars, frames>>

cmd_echo == Prints("echo")
cmd_clear == Prints("clear")
cmd_man == Prints("man")

join_working_dir(path) ==
    IF path # <<>> /\ path[1] = "/" THEN path ELSE working_dir \o <<"/">> \o path

\* The arguments that are paths; ls without one lists working_dir.
PathArgs ==
    IF command = "ls" /\ args = <<>> THEN <<working_dir>>
    ELSE [n \in 1 .. IF command = "mv" THEN 2 ELSE 1 |-> join_working_dir(args[n])]

UsePaths ==
    /\ Called({"ls", "cd", "touch", "cat", "write", "rm", "find", "mkdir", "rmdir",
               "mv", "stat"})
    /\ command = "find" => args # <<>>
    /\ paths' = PathArgs
    /\ heap' = heap + Len(paths')
    /\ at' = 1 /\ stack' = <<>>
    /\ pc' = "path"
    /\ UNCHANGED <<diskVars, working_dir, countVars, lineVars, parsed, frames, out>>

\* find without an argument.
FindHere ==
    /\ Called({"find"}) /\ args = <<>>
    /\ paths' = <<working_dir>>
    /\ pc' = "list"
    /\ UNCHANGED <<diskVars, working_dir, heap, countVars, lineVars, at, stack, parsed,
                   frames, out>>

-----------------------------------------------------------------------------
(* parse_path                                                               *)

path == Head(paths)

\* Where the next part begins, and the character behind it.
PartStart == Min({j \in at .. Len(path) + 1 : j > Len(path) \/ path[j] # "/"})
PartEnd == Min({j \in PartStart .. Len(path) + 1 : j > Len(path) \/ path[j] = "/"})
part == SubSeq(path, PartStart, PartEnd - 1)

\* Mistake: ".." takes two parts away.
Popped_Two(s) == IF Len(s) > 1 THEN SubSeq(s, 1, Len(s) - 2) ELSE <<>>

Popped(s) == IF s = <<>> THEN s ELSE Front(s)

\* A part that finds no room is dropped.
Pushed(s) == IF Len(s) = STACK THEN s ELSE Append(s, part)

\* Mistake: and it is not freed.
PartFreed_Kept == IF part = <<".", ".">> THEN 1 + Len(stack) - Len(Popped(stack))
                  ELSE IF part = <<".">> THEN 1 ELSE 0

\* The blocks that are freed, of the part and of the stack.
PartFreed == IF part = <<".", ".">> THEN 1 + Len(stack) - Len(Popped(stack))
             ELSE IF part = <<".">> \/ Len(stack) = STACK THEN 1 ELSE 0

ParsePart ==
    /\ pc = "path" /\ paths # <<>>
    /\ Len(path) > 1 /\ PartStart <= Len(path)
    /\ at' = PartEnd
    /\ stack' = IF part = <<".", ".">> THEN Popped(stack)
                ELSE IF part = <<".">> THEN stack
                ELSE Pushed(stack)
    /\ heap' = heap + 1 - PartFreed
    /\ UNCHANGED <<diskVars, working_dir, countVars, pc, lineVars, paths, parsed, frames,
                   out>>

\* The parts, with a slash in front of each: written over the path.
Joined(s) == IF s = <<>> THEN <<"/">>
             ELSE FlattenSeq([n \in DOMAIN s |-> <<"/">> \o s[n]])

AfterPath == IF command = "find" THEN "list"
             ELSE IF command = "mv" /\ parsed = {} THEN "path" ELSE "call"

\* The path has been read, and is written anew.  The next one, if there is one, or
\* the command goes on with it.
Rebuild ==
    /\ pc = "path" /\ paths # <<>>
    /\ Len(path) <= 1 \/ PartStart > Len(path)
    /\ LET new == IF Len(path) <= 1 THEN path ELSE Joined(stack)
       IN  /\ parsed' = (IF command = "find" THEN {} ELSE parsed)
                          \cup {[from |-> path, to |-> new]}
           /\ paths' = Append(Tail(paths), new)
    /\ pc' = AfterPath
    /\ heap' = heap - Len(stack)
    /\ at' = 1 /\ stack' = <<>>
    /\ UNCHANGED <<diskVars, working_dir, countVars, lineVars, frames, out>>

-----------------------------------------------------------------------------
(* System calls on paths.                                                   *)

\* The elements of a set of numbers, in order.
Ordered(S) ==
    [n \in 1 .. Cardinality(S) |->
        CHOOSE x \in S : Cardinality({y \in S : y < x}) = n - 1]

\* str_split at slashes.
Parts(p) ==
    LET starts == {i \in DOMAIN p : p[i] # "/" /\ (i = 1 \/ p[i - 1] = "/")}
        end(i) == Min({j \in i .. Len(p) + 1 : j > Len(p) \/ p[j] = "/"})
        order == Ordered(starts)
    IN  [n \in DOMAIN order |-> SubSeq(p, order[n], end(order[n]) - 1)]

\* Absolute, and each slash but that of the root followed by a name.
is_valid_path(p) ==
    /\ p # <<>> /\ p[1] = "/"
    /\ \A i \in 2 .. Len(p) : p[i] = "/" => p[i - 1] # "/"
    /\ Len(p) > 1 => p[Len(p)] # "/"
    /\ \A n \in DOMAIN Parts(p) : Len(Parts(p)[n]) <= FILE_NAME_LENGTH

PathNames(p) ==
    [n \in DOMAIN Parts(p) |-> CHOOSE name \in Names : Spelling[name] = Parts(p)[n]]

Resolve(p) ==
    IF is_valid_path(p) THEN FS!resolve_path(disk, disk.table, PathNames(p))
                        ELSE FS!None

Type(i) == disk.table[i].type

\* A file that was touched or written short is smaller than a directory entry; in
\* FileSystem it is one cell.
Short(i) ==
    LET cells == FS!Entries(disk, disk.table, i)
    IN  Type(i) = "FILE" /\ cells # <<>> => cells[1].name # "long"

\* The entries; none for null.
list_dir(p) ==
    LET i == Resolve(p)
    IN  IF i = FS!None THEN <<>>
        ELSE IF Type(i) = "FILE" THEN <<>>
        ELSE FS!Entries(disk, disk.table, i)

\* list_dir takes what the user wrote for indices of the file table.
ListsText(p) == Resolve(p) # FS!None /\ ~Short(Resolve(p))

\* A file is used as a directory, which FileSystem shows for whole entries only.
InFile(p) ==
    /\ is_valid_path(p) /\ Len(p) > 1
    /\ LET i == FS!resolve_path(disk, disk.table, FS!DirPath(PathNames(p)))
       IN  i # FS!None /\ Type(i) = "FILE"

RunWild == wild' = TRUE /\ UNCHANGED <<disk, call>>

Cells(cell) == <<[name |-> cell, idx |-> 0]>>

text == IF Len(args[2]) + 1 >= ENTRY THEN "long" ELSE "short"

\* A call that changes the disk is refused when a path is not valid.
NotCalled ==
    IF \E n \in DOMAIN paths : ~is_valid_path(paths[n])
    THEN call' = [call EXCEPT !.ok = FALSE] /\ UNCHANGED <<disk, wild>>
    ELSE (\E n \in DOMAIN paths : InFile(paths[n])) /\ RunWild

\* The names in the paths of a call that is not (the one element of a set).
CallNames ==
    IF \A n \in DOMAIN paths : is_valid_path(paths[n]) /\ ~InFile(paths[n])
    THEN {[n \in DOMAIN paths |-> PathNames(paths[n])]} ELSE {}

-----------------------------------------------------------------------------
(* The commands that have a path.                                           *)

calling(name) == pc = "call" /\ command = name /\ ~wild

cmd_ls ==
    /\ calling("ls")
    /\ IF ListsText(path) THEN RunWild ELSE UNCHANGED diskVars
    /\ Return(IF list_dir(path) = <<>> THEN <<say("no files", <<>>)>>
              ELSE [n \in DOMAIN list_dir(path) |->
                      say("name", Spelling[list_dir(path)[n].name])], 1)
    /\ UNCHANGED <<working_dir, countVars, lineVars, pathVars, frames>>

\* memcpy to working_dir, whatever its size.
cmd_cd ==
    /\ calling("cd")
    /\ IF Len(path) + 1 > WORKING_DIR THEN RunWild /\ UNCHANGED working_dir
       ELSE working_dir' = path /\ UNCHANGED diskVars
    /\ Return(<<>>, 1)
    /\ UNCHANGED <<countVars, lineVars, pathVars, frames>>

\* What write_file returns is not looked at.
cmd_touch ==
    /\ calling("touch")
    /\ NotCalled \/ \E names \in CallNames : FS!WriteFile(names[1], Cells("nul"))
    /\ Return(<<say("touched", path)>>, 1)
    /\ UNCHANGED <<working_dir, countVars, lineVars, pathVars, frames>>

cmd_cat ==
    /\ calling("cat")
    /\ UNCHANGED diskVars
    /\ Return(<<say(IF Resolve(path) = FS!None THEN "error" ELSE "contents", path)>>, 1)
    /\ UNCHANGED <<working_dir, countVars, lineVars, pathVars, frames>>

\* Mistake: what write_file returns is not looked at.
Wrote_Always == "wrote"

Wrote == IF call'.ok THEN "wrote" ELSE "error"

cmd_write ==
    /\ calling("write")
    /\ IF Resolve(path) = FS!None THEN call' = [call EXCEPT !.ok = FALSE]
                                       /\ UNCHANGED <<disk, wild>>
       ELSE NotCalled \/ \E names \in CallNames : FS!WriteFile(names[1], Cells(text))
    /\ Return(<<say(Wrote, path)>>, 1)
    /\ UNCHANGED <<working_dir, countVars, lineVars, pathVars, frames>>

\* A command that says what came of its call.
SayResult(done, freed) ==
    /\ Return(<<say(IF call'.ok THEN done ELSE "error", path)>>, freed)
    /\ UNCHANGED <<working_dir, countVars, lineVars, pathVars, frames>>

cmd_rm ==
    /\ calling("rm")
    /\ NotCalled \/ \E names \in CallNames : FS!DeleteFile(names[1])
    /\ SayResult("rm", 1)

cmd_mkdir ==
    /\ calling("mkdir")
    /\ NotCalled \/ \E names \in CallNames : FS!CreateDirectory(names[1])
    /\ SayResult("mkdir", 1)

cmd_rmdir ==
    /\ calling("rmdir")
    /\ NotCalled \/ \E names \in CallNames : FS!DeleteDirectory(names[1])
    /\ SayResult("rmdir", 1)

cmd_mv ==
    /\ calling("mv")
    /\ NotCalled \/ \E names \in CallNames : FS!MoveFile(names[1], names[2])
    /\ SayResult("moved", 2)

cmd_stat ==
    /\ calling("stat")
    /\ UNCHANGED diskVars
    /\ Return(<<say(IF Resolve(path) = FS!None THEN "error"
                    ELSE IF Type(Resolve(path)) = "DIRECTORY" THEN "directory"
                    ELSE "file", path)>>, 1)
    /\ UNCHANGED <<working_dir, countVars, lineVars, pathVars, frames>>

-----------------------------------------------------------------------------
(* cmd_find and recursive_find: a frame is a call that lists a directory.   *)

frame == Last(frames)

\* A call ends: the caller frees the path it made, and cmd_find leaves its own.
Leave(left, freed) ==
    IF left = <<>> THEN Return(<<>>, freed)
    ELSE heap' = heap - freed - 1 /\ pc' = "find" /\ UNCHANGED out

\* Mistake: the first entry is left out.
NewFrame_Second == [path |-> path, files |-> list_dir(path), i |-> 2]

NewFrame == [path |-> path, files |-> list_dir(path), i |-> 1]

EnterDirectory ==
    /\ pc = "list" /\ ~wild
    /\ IF ListsText(path) \/ Len(frames) = FRAMES
       THEN RunWild /\ UNCHANGED <<heap, pc, frames, out>>
       ELSE IF list_dir(path) = <<>>
       THEN Leave(frames, 0) /\ UNCHANGED <<diskVars, frames>>
       ELSE /\ frames' = Append(frames, NewFrame)
            /\ heap' = heap + 1
            /\ pc' = "find"
            /\ UNCHANGED <<diskVars, out>>
    /\ UNCHANGED <<working_dir, countVars, lineVars, pathVars>>

ChildPath(name) == frame.path \o <<"/">> \o name

\* An entry is printed, and listed in turn when it is a directory.
FindEntry ==
    /\ pc = "find" /\ frame.i <= Len(frame.files)
    /\ LET file == frame.files[frame.i]
       IN  /\ out' = Append(out, say("name", Spelling[file.name]))
           /\ IF Type(file.idx) = "DIRECTORY"
              THEN /\ paths' = <<ChildPath(Spelling[file.name])>>
                   /\ heap' = heap + 1
                   /\ pc' = "path"
              ELSE UNCHANGED <<paths, heap, pc>>
    /\ frames' = [frames EXCEPT ![Len(frames)].i = @ + 1]
    /\ UNCHANGED <<diskVars, working_dir, countVars, lineVars, at, stack, parsed>>

LeaveDirectory ==
    /\ pc = "find" /\ frame.i > Len(frame.files)
    /\ frames' = Front(frames)
    /\ Leave(frames', 1)
    /\ UNCHANGED <<diskVars, working_dir, countVars, lineVars, pathVars>>

-----------------------------------------------------------------------------
Init ==
    /\ FS!Init
    /\ working_dir = <<"/">> /\ heap = 0 /\ count = 0 /\ before = 0
    /\ pc = "prompt" /\ out = <<>>
    /\ line = [i \in 1 .. LINE |-> NUL]
    /\ command = "none" /\ args = <<>> /\ args_capacity = CAPACITY /\ arg_start = 0
    /\ paths = <<>> /\ at = 1 /\ stack = <<>> /\ parsed = {} /\ frames = <<>>

Step ==
    \/ NoCommand \/ ParseCommand \/ ParseArgument
    \/ NotFound \/ Usage \/ cmd_echo \/ cmd_clear \/ cmd_man
    \/ UsePaths \/ FindHere
    \/ ParsePart \/ Rebuild
    \/ cmd_ls \/ cmd_cd \/ cmd_touch \/ cmd_cat \/ cmd_write \/ cmd_rm
    \/ cmd_mkdir \/ cmd_rmdir \/ cmd_mv \/ cmd_stat
    \/ EnterDirectory \/ FindEntry \/ LeaveDirectory

Busy == pc # "prompt" /\ ~wild

\* The user need not type, and nothing is said of a shell that has run wild.
Idle == ~Busy /\ UNCHANGED vars

Next == ReadLine \/ Step \/ Idle

Spec == Init /\ [][Next]_vars

-----------------------------------------------------------------------------
(* Properties.                                                              *)

\* The line as read_command_line leaves it when the user typed less than a buffer.
Plain == \E n \in 0 .. LINE - 1 : \A i \in 1 .. LINE : line[i] = NUL <=> i > n
Typed == SelectSeq(line, LAMBDA c : c # NUL)

\* What stands between the spaces.
Fields(s) ==
    LET bounds == Ordered({0, Len(s) + 1} \cup {i \in DOMAIN s : s[i] = " "})
    IN  [n \in 1 .. Len(bounds) - 1 |-> SubSeq(s, bounds[n] + 1, bounds[n + 1] - 1)]

\* The arguments of a command are the fields behind the first, empty ones too,
\* but that a single space behind the command is none: parse_command_line steps
\* over the terminator of a line without arguments, and finds nothing there.  They
\* have room, although the array grows when it is more than half full and is not
\* looked at when one is stored.  Who types the name of a command gets that
\* command, although every prefix of a name is accepted too: no name is the prefix
\* of one that is compared earlier.
LineMeant ==
    /\ Len(args) <= args_capacity
    /\ pc = "run" /\ Plain =>
         /\ args = IF Tail(Fields(Typed)) = <<<<>>>> THEN <<>> ELSE Tail(Fields(Typed))
         /\ \A c \in ToSet(Commands) : Fields(Typed)[1] = Letters[c] => command = c

Up(p) == p = <<".", ".">>
Name(p) == p \notin {<<".", ".">>, <<".">>}

UpsIn(parts, from, to) == Cardinality({k \in from .. to : Up(parts[k])})
NamesIn(parts, from, to) == Cardinality({k \in from .. to : Name(parts[k])})

\* The names a path leads through: a name is undone by the ".." that closes it.
Surviving(parts) ==
    LET kept == {k \in DOMAIN parts :
                   /\ Name(parts[k])
                   /\ \A m \in k + 1 .. Len(parts) :
                        UpsIn(parts, k + 1, m) <= NamesIn(parts, k + 1, m)}
        order == Ordered(kept)
    IN  [n \in DOMAIN order |-> parts[order[n]]]

Shallow(parts) ==
    \A k \in DOMAIN parts : Len(Surviving(SubSeq(parts, 1, k))) <= STACK

\* parse_path does not change what a path means, as long as the path is nowhere
\* deeper than the stack, and what it makes of any path fits where the path was and,
\* if its names are not too long, is accepted by is_valid_path.  So is the working
\* directory, which find uses as it is and every relative path begins with.
PathsMeant ==
    /\ \A p \in parsed :
         /\ Shallow(Parts(p.from)) => Parts(p.to) = Surviving(Parts(p.from))
         /\ Len(p.to) <= Len(p.from)
    /\ \A p \in {q.to : q \in parsed} \cup {working_dir} :
         /\ \A n \in DOMAIN Parts(p) : Name(Parts(p)[n])
         /\ (\A n \in DOMAIN Parts(p) : Len(Parts(p)[n]) <= FILE_NAME_LENGTH)
              => is_valid_path(p)

\* A command frees all that it allocates, but for the path of find.
HeapBalanced ==
    pc = "prompt" /\ ~wild =>
        heap = before + IF command = "find" /\ Len(args) = 1 THEN 1 ELSE 0

NoNamesakes ==
    \A l, m \in FS!Listings :
        /\ l[1] = m[1]
        /\ FS!Entries(disk, disk.table, l[1])[l[2]].name
             = FS!Entries(disk, disk.table, m[1])[m[2]].name
        => l = m

\* Where find starts.
Start == IF args = <<>> THEN working_dir
         ELSE Joined(Surviving(Parts(join_working_dir(args[1]))))

\* find prints as many names as there are files below the directory, however deep,
\* when no directory lists a name twice.
FindComplete ==
    pc = "prompt" /\ command = "find" /\ Len(args) <= 1 /\ ~wild /\ NoNamesakes
      /\ (args # <<>> => Shallow(Parts(join_working_dir(args[1]))))
    =>  LET i == Resolve(Start)
        IN  Len(out) = IF i = FS!None THEN 0
                       ELSE IF Type(i) = "FILE" THEN 0
                       ELSE Cardinality(FS!Nested(i))

\* What a command says it did has happened: a file that was written holds the
\* text, what was removed is not there, and what was created is.
ReportsTrue ==
    pc = "prompt" /\ ~wild /\ out # <<>> =>
        LET said == out[1]
            i == Resolve(said.text)
        IN  /\ said.what = "wrote" =>
                 i # FS!None /\ FS!Entries(disk, disk.table, i) = Cells(text)
            /\ said.what = "mkdir" => i # FS!None
            /\ said.what \in {"rm", "rmdir"} /\ NoNamesakes => i = FS!None
=============================================================================
