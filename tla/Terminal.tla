------------------------------ MODULE Terminal ------------------------------
(***************************************************************************)
(* The terminal of pelikanOS: the console (src/vga.c), the line editor and  *)
(* the commands of the shell (src/shell.c), and those who write to the      *)
(* console beside it: a worker that says it ran, the reaper, whose kfree    *)
(* reports, and the clock (src/clock.c) in a corner of the screen.          *)
(*                                                                         *)
(* print runs with interrupts off and is one piece.  removeChar and         *)
(* print_at do not: another task may print between any two accesses of      *)
(* theirs to the cursor and the screen.  The build does not optimise, so    *)
(* vga.row--  is a load, and later a store.                                 *)
(*                                                                         *)
(* A character typed in the line at hand stands for itself on the screen;   *)
(* Text stands for any other character printed since the kernel started,    *)
(* Boot for what the screen showed before.  The output of a command is the  *)
(* list of strings that it prints; what ps and mem compute is in TaskRing   *)
(* and Pmm, and how a key gets to the shell in Keyboard.                    *)
(***************************************************************************)
EXTENDS Integers, Sequences

CONSTANTS
    Rows, Cols,      \* 25 and 80
    LineMax,         \* 127: the characters a line may have
    Letter,          \* the characters that keys give, without space
    commands,        \* the names of the commands, as sequences of letters
    spawnables,      \* the names of what can be spawned
    ClockCol,        \* where clock_thread prints, in row 0
    ClockLen,        \* how many characters it prints
    Lines,           \* bound: the lines that the user types, or parts of them
    MaxSpawns        \* bound on the tasks that are spawned

\* A line that is full fits on two rows of the screen.
ASSUME TerminalAssumption ==
    /\ Rows \in Nat /\ Rows >= 3 /\ Cols \in Nat /\ Cols >= 2
    /\ LineMax \in Cols..(2 * Cols - 1)
    /\ ClockCol \in 1..(Cols - 1) /\ ClockLen \in Nat
    /\ DOMAIN commands = {"help", "clear", "ps", "mem", "spawn"}
    /\ DOMAIN spawnables = {"counter", "once"}
    /\ \A n \in DOMAIN spawnables : spawnables[n] # <<>>
    /\ MaxSpawns \in Nat

Blank == " "
NL == "nl"
Text == "text"
Boot == "boot"
Clock == "clock"

\* No key gives one of the other symbols.
ASSUME LetterAssumption == Letter \cap {Blank, NL, Text, Boot, Clock} = {}

VARIABLES
    vga,             \* row, col, the cells, and whether a store missed them
    pc, tmp,         \* where the shell is; what removeChar has loaded
    linebuf,         \* the line; its length is linebuf_index
    spawn_arg,
    out,             \* the strings that the command has yet to print
    erasures,        \* the calls of removeChar that cmd_clear has yet to make
    next_spawn_id,   \* tasks spawned so far
    workers, corpses,   \* tasks that have yet to print, and to be reaped
    at,              \* the column at which print_at is
    mixed,           \* history: another task printed since the line began, or
                     \* since the clear before it did
    torn             \* history: another task printed inside of removeChar

vars == <<vga, pc, tmp, linebuf, spawn_arg, out, erasures, next_spawn_id,
          workers, corpses, at, mixed, torn>>

Cell == 0..(Rows * Cols - 1)

-----------------------------------------------------------------------------
(* vga.c                                                                   *)

\* A store to the screen, or beside it.
Put(v, i, s) ==
    IF i \in Cell THEN [v EXCEPT !.cells[i] = s] ELSE [v EXCEPT !.stray = TRUE]

\* Every row takes the contents of the next.
makeSpace(v) ==
    [v EXCEPT !.row = Rows - 1, !.col = 0,
              !.cells = [i \in Cell |-> IF i \div Cols = Rows - 1 THEN Blank
                                        ELSE v.cells[i + Cols]]]

mapToVGA(v, s) ==
    CASE s = NL /\ v.row # Rows - 1 -> [v EXCEPT !.col = 0, !.row = @ + 1]
      [] s = NL /\ v.row = Rows - 1 -> makeSpace(v)
      [] s # NL /\ v.row >= Rows -> v
      [] OTHER ->
           LET w == IF v.col < Cols THEN Put(v, v.row * Cols + v.col, s) ELSE v
               u == IF v.col + 1 < Cols THEN [w EXCEPT !.col = @ + 1]
                    ELSE [w EXCEPT !.col = 0, !.row = @ + 1]
           IN  IF u.row >= Rows THEN makeSpace(u) ELSE u

\* Where the cursor is, as a number of cells.
Cursor == vga.row * Cols + vga.col

\* The screen after the characters of s, one by one.
Printed(v, s) ==
    LET after[n \in 0..Len(s)] ==
            IF n = 0 THEN v ELSE mapToVGA(after[n - 1], s[n])
    IN  after[Len(s)]

print(s) == vga' = Printed(vga, s)

-----------------------------------------------------------------------------
Init ==
    /\ vga = [row |-> 0, col |-> 0, cells |-> [i \in Cell |-> Boot], stray |-> FALSE]
    /\ pc = "poll" /\ tmp = 0
    /\ linebuf = <<>> /\ spawn_arg = <<>> /\ out = <<>>
    /\ erasures = 0 /\ next_spawn_id = 0 /\ workers = 0 /\ corpses = 0
    /\ at = ClockCol
    /\ mixed = FALSE /\ torn = FALSE

\* What the steps of the shell leave alone.
others == <<workers, corpses, at, mixed, torn>>
command == <<spawn_arg, out, erasures, next_spawn_id>>

(* shell_run: the character that kbd_getchar returned.                      *)

Full(line) == Len(line) >= LineMax

\* A character is stored and echoed, or dropped.
shell_run_char(c) ==
    /\ pc = "poll"
    /\ ~Full(linebuf)
    /\ \E line \in Lines : \E n \in 1..Len(line) :
          Append(linebuf, c) = SubSeq(line, 1, n)
    /\ linebuf' = Append(linebuf, c)
    /\ print(<<c>>)
    /\ UNCHANGED <<pc, tmp, command, others>>

\* Backspace at the start of a line erases what is before it.
BadCanErase(line) == TRUE

CanErase(line) == Len(line) > 0

shell_run_backspace ==
    /\ pc = "poll"
    /\ CanErase(linebuf)
    /\ linebuf' = SubSeq(linebuf, 1, Len(linebuf) - 1)
    /\ pc' = "remove"
    /\ UNCHANGED <<vga, tmp, command, others>>

-----------------------------------------------------------------------------
(* removeChar, one access after the other.                                  *)

\* Row 0 is not special.
BadBelowTop(row) == TRUE

\* The second row is taken for the first.
BadBelowSecond(row) == row > 1

BelowTop(row) == row > 0

Access(from, to) == pc = from /\ pc' = to /\ UNCHANGED <<linebuf, command, others>>

\* Nothing is erased.
remove_nothing == pc' = "removed" /\ UNCHANGED <<linebuf, command, others, vga, tmp>>

remove_row ==
    /\ \/ BelowTop(vga.row) /\ Access("remove", "below")
       \/ ~BelowTop(vga.row) /\ Access("remove", "top")
    /\ UNCHANGED <<vga, tmp>>

remove_below ==
    /\ \/ vga.col = 0 /\ Access("below", "up")
       \/ vga.col # 0 /\ Access("below", "top")
    /\ UNCHANGED <<vga, tmp>>

\* if(vga.col > 0), in both branches.
remove_col ==
    \/ vga.col > 0 /\ Access("top", "left") /\ UNCHANGED <<vga, tmp>>
    \/ pc = "top" /\ vga.col <= 0 /\ remove_nothing

\* vga.row-- and vga.col = 79.
remove_up_load == Access("up", "up_store") /\ tmp' = vga.row /\ UNCHANGED vga

remove_up_store ==
    /\ Access("up_store", "last_col")
    /\ vga' = [vga EXCEPT !.row = tmp - 1] /\ tmp' = 0

remove_last_col ==
    /\ Access("last_col", "erase_row")
    /\ vga' = [vga EXCEPT !.col = Cols - 1] /\ UNCHANGED tmp

\* vga.col--.
remove_left_load == Access("left", "left_store") /\ tmp' = vga.col /\ UNCHANGED vga

remove_left_store ==
    /\ Access("left_store", "erase_row")
    /\ vga' = [vga EXCEPT !.col = tmp - 1] /\ tmp' = 0

\* vga.addr[vga.row * 80 + vga.col] = ' '.
remove_erase_row == Access("erase_row", "erase_col") /\ tmp' = vga.row * Cols /\ UNCHANGED vga

remove_erase_col == Access("erase_col", "erase") /\ tmp' = tmp + vga.col /\ UNCHANGED vga

remove_erase ==
    /\ Access("erase", "removed")
    /\ vga' = Put(vga, tmp, Blank) /\ tmp' = 0

\* clear goes on until the cursor is at the top.
BadCountdown(n) == IF Cursor = 0 THEN 1 ELSE n

\* The loop of cmd_clear counts its calls.
Countdown(n) == n - 1

\* Back to the loop of cmd_clear, or to shell_run.
remove_return ==
    /\ pc = "removed"
    /\ \/ erasures > 1 /\ pc' = "remove" /\ erasures' = Countdown(erasures)
       \/ erasures = 1 /\ pc' = "cleared" /\ erasures' = 0
       \/ erasures = 0 /\ pc' = "poll" /\ UNCHANGED erasures
    /\ UNCHANGED <<vga, tmp, linebuf, spawn_arg, out, next_spawn_id, others>>

removeChar ==
    \/ remove_row \/ remove_below \/ remove_col
    \/ remove_up_load \/ remove_up_store \/ remove_last_col
    \/ remove_left_load \/ remove_left_store
    \/ remove_erase_row \/ remove_erase_col \/ remove_erase
    \/ remove_return

-----------------------------------------------------------------------------
(* dispatch                                                                *)

Spaces(line) == {i \in 1..Len(line) : line[i] = Blank}

\* The first word, and what follows the space behind it.
FirstSpace(line) == CHOOSE i \in Spaces(line) : \A j \in Spaces(line) : i <= j

CommandWord(line) ==
    IF Spaces(line) = {} THEN line ELSE SubSeq(line, 1, FirstSpace(line) - 1)

\* Without an argument, the last one stays.
BadArgument(line) ==
    IF Spaces(line) = {} THEN spawn_arg
    ELSE SubSeq(line, FirstSpace(line) + 1, Len(line))

Argument(line) ==
    IF Spaces(line) = {} THEN <<>> ELSE SubSeq(line, FirstSpace(line) + 1, Len(line))

Word == <<Text>>
EndOfLine == <<NL>>
Phrase(line) == [i \in 1..Len(line) |-> Text]

IsSpawn(cmd, arg) ==
    cmd = commands["spawn"] /\ arg \in {spawnables[n] : n \in DOMAIN spawnables}

\* The strings that a command prints one by one.
Output(cmd, arg) ==
    CASE cmd = commands["help"] -> <<<<Text, NL>>, Word, EndOfLine, Word, EndOfLine>>
      [] cmd \in {commands["ps"], commands["mem"]} -> <<Word, Word, EndOfLine>>
      [] cmd = commands["spawn"] /\ arg = <<>> -> <<<<Text, NL>>>>
      [] IsSpawn(cmd, arg) -> <<Word, Phrase(arg), Word, Word, EndOfLine>>
      [] cmd = commands["spawn"] /\ arg # <<>> /\ ~IsSpawn(cmd, arg) ->
             <<Word, Phrase(arg), EndOfLine>>
      [] OTHER -> <<Word, Phrase(cmd), EndOfLine>>

\* create_task in cmd_spawn, before its first print; only one of the two
\* workers prints.  The id, which the shell alone reads, counts on at once.
cmd_spawn(cmd, arg) ==
    \/ /\ IsSpawn(cmd, arg)
       /\ next_spawn_id' = next_spawn_id + 1
       /\ workers' = IF arg = spawnables["once"] THEN workers + 1 ELSE workers
    \/ /\ ~IsSpawn(cmd, arg)
       /\ UNCHANGED <<next_spawn_id, workers>>

\* What is on the screen is no longer the line at hand.
Aged(v) == [v EXCEPT !.cells = [i \in Cell |->
               IF v.cells[i] \in Letter THEN Text ELSE v.cells[i]]]

shell_run_enter ==
    /\ pc = "poll"
    /\ IsSpawn(CommandWord(linebuf), Argument(linebuf)) => next_spawn_id < MaxSpawns
    /\ vga' = mapToVGA(Aged(vga), NL)
    /\ pc' = "dispatch"
    /\ UNCHANGED <<tmp, linebuf, command, others>>

dispatch ==
    /\ pc = "dispatch" /\ linebuf # <<>>
    /\ LET cmd == CommandWord(linebuf)
           arg == Argument(linebuf)
       IN  /\ spawn_arg' = arg
           /\ \/ /\ cmd = commands["clear"]
                 /\ erasures' = Rows * Cols /\ pc' = "remove"
                 /\ UNCHANGED <<out, next_spawn_id, workers>>
              \/ /\ cmd # commands["clear"]
                 /\ cmd_spawn(cmd, arg)
                 /\ out' = Output(cmd, arg)
                 /\ pc' = "print"
                 /\ UNCHANGED erasures
    /\ UNCHANGED <<vga, tmp, linebuf, corpses, at, mixed, torn>>

dispatch_print ==
    /\ pc = "print" /\ out # <<>>
    /\ print(Head(out))
    /\ out' = Tail(out)
    /\ UNCHANGED <<pc, tmp, linebuf, spawn_arg, erasures, next_spawn_id, others>>

\* The line is over, or was empty.
shell_run_next ==
    /\ \/ pc = "print" /\ out = <<>>
       \/ pc = "cleared"
       \/ pc = "dispatch" /\ linebuf = <<>>
    /\ pc' = "poll" /\ linebuf' = <<>>
    /\ mixed' = (mixed /\ pc = "cleared")
    /\ UNCHANGED <<vga, tmp, command, workers, corpses, at, torn>>

shell_run ==
    \/ \E c \in Letter \cup {Blank} : shell_run_char(c)
    \/ shell_run_backspace \/ shell_run_enter \/ shell_run_next
    \/ dispatch \/ dispatch_print \/ removeChar

-----------------------------------------------------------------------------
(* The other tasks.                                                         *)

WorkerText == <<Text, NL>>

Inside == pc \notin {"poll", "dispatch", "print", "cleared", "remove", "removed"}

elsewhere == <<pc, tmp, linebuf, command, at>>

worker_once ==
    /\ workers > 0
    /\ print(WorkerText)
    /\ workers' = workers - 1 /\ corpses' = corpses + 1
    /\ mixed' = TRUE /\ torn' = (torn \/ Inside)
    /\ UNCHANGED elsewhere

\* What kfree prints, with interrupts off: one line.
KfreeText == <<Text, Text, NL>>

reaper_thread ==
    /\ corpses > 0
    /\ print(KfreeText)
    /\ corpses' = corpses - 1
    /\ mixed' = TRUE /\ torn' = (torn \/ Inside)
    /\ UNCHANGED <<elsewhere, workers>>

\* The string or the row ends.
AtEnd(col) == col = ClockCol + ClockLen \/ col >= Cols

\* print_at: one character.
print_at ==
    /\ ~AtEnd(at)
    /\ at' = at + 1
    /\ vga' = Put(vga, at, Clock)
    /\ UNCHANGED <<pc, tmp, linebuf, command, workers, corpses, mixed, torn>>

\* The loop draws again.  Its two strings overlap, and are one here.
clock_thread ==
    /\ AtEnd(at)
    /\ at' = ClockCol
    /\ UNCHANGED <<vga, pc, tmp, linebuf, command, workers, corpses, mixed, torn>>

-----------------------------------------------------------------------------
Next == shell_run \/ worker_once \/ reaper_thread \/ print_at \/ clock_thread

Spec == Init /\ [][Next]_vars

\* The shell runs on (ReadyRuns of MutexLock); nothing makes the user type.
FairSpec ==
    Spec /\ WF_vars(shell_run_next \/ dispatch \/ dispatch_print \/ removeChar)

-----------------------------------------------------------------------------
(* Properties                                                              *)

\* No store ever misses the screen, and the cursor stays in its rows, although a task that prints between two
\* accesses of removeChar may leave the cursor in column -1: printing reaches
\* column 0 only in a later row, so the row is not the first then.
WritesOnScreen == ~vga.stray /\ vga.row \in 0..(Rows - 1) /\ vga.col < Cols

\* The cells that the clock overwrites.
ClockCells == ClockCol..(Cols - 1)

\* The line fits in its buffer, and the screen shows it: the cells before the cursor are its characters,
\* over the end of a row, after scrolling and after erasing, unless another
\* task printed since the line began.
ScreenShowsLine ==
    /\ Len(linebuf) <= LineMax
    /\ pc = "poll" /\ ~mixed =>
        /\ Cursor >= Len(linebuf)
        /\ (Cursor - Len(linebuf)) % Cols = 0
        /\ \A i \in 1..Len(linebuf) :
              LET cell == Cursor - Len(linebuf) + i - 1
              IN  cell \in ClockCells \/ vga.cells[cell] = linebuf[i]

\* clear takes away everything printed since the kernel started, though it
\* only erases backwards from the cursor: nothing is behind it.
ClearWipes ==
    pc = "cleared" /\ ~mixed /\ ~torn =>
        Cursor = 0 /\ \A i \in Cell : vga.cells[i] # Text

\* A task is spawned only by a line that names it: spawn_arg never survives
\* from an earlier line.
SpawnedByName ==
    [][next_spawn_id' # next_spawn_id =>
         \E n \in DOMAIN spawnables :
            linebuf = commands["spawn"] \o <<Blank>> \o spawnables[n]]_vars

\* The shell comes back to the keyboard, whatever others print meanwhile.
ShellReturns == pc # "poll" ~> pc = "poll"

=============================================================================
