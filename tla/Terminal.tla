------------------------------ MODULE Terminal ------------------------------
(***************************************************************************)
(* The terminal window (kernel/terminal_app.c): the line being typed, the  *)
(* recall list of earlier commands, and the window's last lines of output. *)
(*                                                                         *)
(* A character is a model value and Means says which command a line spells.*)
(* What a command does elsewhere (ping, files, packages, processes) is in  *)
(* the modules of those parts; here a command counts for the lines it      *)
(* appends.  A line of output is its serial number, and 0 a blank one.     *)
(***************************************************************************)
EXTENDS Integers, Sequences

CONSTANTS Chars,          \* characters the keyboard types
          Means,          \* the command a line spells
          HISTORY_LINES,  \* lines of output the window keeps (8)
          CMD_HIST_SIZE,  \* commands the recall list keeps (8)
          INPUT_MAX,      \* characters a line may have (30)
          MaxLines,       \* bound of the runs: lines of output
          MAX_PROCESSES, ARP_CACHE_SIZE,
          APP_NAMES,      \* programs on the disk
          PACKAGES,       \* packages of the database
          PACKAGE_FILES   \* files of a package

VARIABLES input,      \* term_input[0 .. term_input_len - 1]
          cmd_hist,   \* cmd_hist[0 .. cmd_hist_count - 1]: newest first
          idx,        \* cmd_hist_idx: -1 when not browsing
          extended,   \* extended_key_pending
          history,    \* term_history, oldest first
          halted,     \* reboot has been asked for and the machine waits for it
          serial,     \* history variable: lines appended so far
          cleared,    \* history variable: serial when the window was last cleared
          echo,       \* history variable: serial of the last command's echo
          command,    \* history variable: the last command executed
          entered,    \* history variable: the commands entered, newest first
          scancode    \* history variable: the last scancode handled

terminalVars == <<input, cmd_hist, idx, extended, history, halted, serial,
                  cleared, echo, command, entered, scancode>>

Lines == UNION {[1 .. n -> Chars] : n \in 0 .. INPUT_MAX}

Blank == [i \in 1 .. HISTORY_LINES |-> 0]

(***************************************************************************)
(* append_history.                                                         *)
(***************************************************************************)
\* The window after n lines more.
Appended(n) ==
  [i \in 1 .. HISTORY_LINES |->
     IF i + n <= HISTORY_LINES THEN history[i + n] ELSE serial + i + n - HISTORY_LINES]

(***************************************************************************)
(* push_cmd_hist: empty lines are not saved; a full list drops its oldest. *)
(***************************************************************************)
push_cmd_hist_Mut(cmd) ==
  IF Len(cmd_hist) < CMD_HIST_SIZE THEN <<cmd>> \o cmd_hist
                                   ELSE <<cmd>> \o Tail(cmd_hist)

push_cmd_hist(cmd) ==
  IF Len(cmd_hist) < CMD_HIST_SIZE
  THEN <<cmd>> \o cmd_hist
  ELSE <<cmd>> \o SubSeq(cmd_hist, 1, CMD_HIST_SIZE - 1)

(***************************************************************************)
(* The numbers of lines a command may answer with, by its name.  A count   *)
(* depends on the tables it prints: cached addresses, processes, files,    *)
(* programs on the disk, packages.                                         *)
(***************************************************************************)
HelpAnswer == {6}

NetworkAnswer ==
  [net      |-> {1, 6},                       \* without and with an adapter
   ethernet |-> {3},
   ipconfig |-> {3},
   arp      |-> 1 .. ARP_CACHE_SIZE,          \* one line when it is empty
   arp_ip   |-> {1},
   arp_x    |-> {0}]                          \* begins with arp, means nothing

PingAnswer == {1, 2}

PagingAnswer == {1, 4}

SyscallAnswer == {6}

ProcessAnswer == 2 .. MAX_PROCESSES + 1

MemoryAnswer == {4}

DiskAnswer ==
  [files |-> {2, 3, 4, 5, 6},
   apps  |-> {2} \cup {1 + n : n \in 1 .. APP_NAMES},
   run   |-> {2, 3, 4}]                      \* load_program's own lines included

ScreenshotAnswer == {2}

\* no adapter or no address; no connection; no answer or up to 4 lines of it
HttpAnswer == {1, 2} \cup 3 .. 6

\* sqpkg_execute by its subcommand, the bare word and unknown ones last; a
\* download that fails appends a line of its own when nobody answers.
SqpkgAnswer ==
  [sqpkg_update  |-> {2, 3},
   sqpkg_search  |-> {1} \cup 1 .. PACKAGES,
   sqpkg_install |-> {1, 2, 3} \cup 3 .. PACKAGE_FILES + 4,
   sqpkg_remove  |-> {1, 2},
   sqpkg_list    |-> {2} \cup {1 + n : n \in 1 .. APP_NAMES},
   sqpkg         |-> {2}]

OtherAnswer == [about |-> {2}, version |-> {2}, empty |-> {0}, reboot |-> {1},
                unknown |-> {2}]

CommandNames ==
  {"help", "ping", "paging", "syscalls", "proc", "mem", "screenshot", "http", "clear",
   "net", "ethernet", "ipconfig", "arp", "arp_ip", "arp_x", "files", "apps", "run",
   "about", "version", "empty", "reboot", "unknown",
   "sqpkg_update", "sqpkg_search", "sqpkg_install", "sqpkg_remove", "sqpkg_list", "sqpkg"}

\* The commands that print a table, a line for each entry.
Listings == {"proc", "apps", "arp", "sqpkg_search", "sqpkg_install", "sqpkg_list"}

\* The window has a line more than the longest answer of a fixed length.
ASSUME TerminalAssumption ==
  /\ HISTORY_LINES \in Nat /\ HISTORY_LINES > 6
  /\ CMD_HIST_SIZE \in Nat \ {0} /\ INPUT_MAX \in Nat
  /\ MaxLines \in Nat /\ MaxLines >= 4
  /\ {MAX_PROCESSES, ARP_CACHE_SIZE, APP_NAMES, PACKAGES, PACKAGE_FILES} \subseteq Nat
  /\ Means \in [Lines -> CommandNames]
  /\ Chars \cap {"release", "prefix", "enter", "backspace", "up", "down"} = {}

Answer(cmd) ==
  CASE cmd = "help" -> HelpAnswer
    [] cmd \in DOMAIN NetworkAnswer -> NetworkAnswer[cmd]
    [] cmd = "ping" -> PingAnswer
    [] cmd = "paging" -> PagingAnswer
    [] cmd = "syscalls" -> SyscallAnswer
    [] cmd = "proc" -> ProcessAnswer
    [] cmd = "mem" -> MemoryAnswer
    [] cmd \in DOMAIN DiskAnswer -> DiskAnswer[cmd]
    [] cmd = "screenshot" -> ScreenshotAnswer
    [] cmd = "http" -> HttpAnswer
    [] cmd \in DOMAIN SqpkgAnswer -> SqpkgAnswer[cmd]
    [] cmd \in DOMAIN OtherAnswer -> OtherAnswer[cmd]
    [] cmd = "clear" -> {0}

(***************************************************************************)
(* terminal_execute_command: the echo of the command, then its answer.     *)
(***************************************************************************)
Execute(cmd) ==
  \E n \in Answer(cmd) :
    /\ serial + 1 + n <= MaxLines
    /\ serial' = serial + 1 + n
    /\ echo' = serial + 1
    /\ command' = cmd
    /\ history' = IF cmd = "clear" THEN Blank ELSE Appended(1 + n)
    /\ cleared' = IF cmd = "clear" THEN serial' ELSE cleared
    /\ halted' = (cmd = "reboot")

(***************************************************************************)
(* terminal_handle_key.  A scancode has its high bit set when it is a      *)
(* release, and also when it is the prefix 0xE0 of the arrow keys.         *)
(***************************************************************************)
HighBit == {"release", "prefix"}

\* The arrows' part: recall of an older or a newer command.
Recall(x, code) ==
  CASE code = "up" /\ x.idx + 1 < Len(cmd_hist) ->
         [input |-> cmd_hist[x.idx + 2], idx |-> x.idx + 1, extended |-> FALSE]
    [] code = "down" /\ x.idx - 1 >= 0 ->
         [input |-> cmd_hist[x.idx], idx |-> x.idx - 1, extended |-> FALSE]
    [] code = "down" /\ x.idx - 1 < 0 ->
         [input |-> <<>>, idx |-> -1, extended |-> FALSE]
    [] OTHER -> [x EXCEPT !.extended = FALSE]

\* A key that edits the line.  The arrows' codes without a prefix type nothing.
Edited(x, code) ==
  CASE code = "backspace" ->
         [x EXCEPT !.input = SubSeq(@, 1, Len(@) - 1), !.idx = -1]
    [] code \in Chars ->
         [x EXCEPT !.input = IF Len(@) < INPUT_MAX THEN Append(@, code) ELSE @,
                   !.idx = -1]
    [] OTHER -> x

HandleKey(x, code) ==
  CASE code \in HighBit -> [x EXCEPT !.extended = FALSE]
    [] code = "prefix" /\ code \notin HighBit -> [x EXCEPT !.extended = TRUE]
    [] code \notin HighBit \cup {"prefix"} /\ x.extended -> Recall(x, code)
    [] OTHER -> Edited(x, code)

Line == [input |-> input, idx |-> idx, extended |-> extended]

Type(code) ==
  /\ ~halted
  /\ code # scancode \/ code \in Chars   \* a repeated release or arrow changes nothing
  /\ input' = HandleKey(Line, code).input
  /\ idx' = HandleKey(Line, code).idx
  /\ extended' = HandleKey(Line, code).extended
  /\ scancode' = code
  /\ UNCHANGED <<cmd_hist, history, halted, serial, cleared, echo, command, entered>>

Enter ==
  /\ ~halted /\ ~extended
  /\ Execute(Means[input])
  /\ IF input = <<>> THEN UNCHANGED <<cmd_hist, idx, entered>>
                     ELSE /\ cmd_hist' = push_cmd_hist(input)
                          /\ idx' = -1
                          /\ entered' = <<input>> \o entered
  /\ input' = <<>>
  /\ extended' = FALSE
  /\ scancode' = "enter"

\* Clicking a program's file in the files window executes its run command.
RunFromFiles ==
  /\ ~halted
  /\ Execute("run")
  /\ UNCHANGED <<input, cmd_hist, idx, extended, entered, scancode>>

\* A program's sys_print, its end, or the loader's message.
OthersAppend ==
  /\ ~halted
  /\ serial < MaxLines
  /\ serial' = serial + 1
  /\ history' = Appended(1)
  /\ UNCHANGED <<input, cmd_hist, idx, extended, halted, cleared, echo, command,
                 entered, scancode>>

(***************************************************************************)
(* init_terminal_app, at the start of the desktop and again whenever the   *)
(* gui command enters it: four lines of greeting.                          *)
(***************************************************************************)
Greeting == 4

Greeted ==
  [i \in 1 .. HISTORY_LINES |->
     IF i + Greeting > HISTORY_LINES THEN i + Greeting - HISTORY_LINES ELSE 0]

TermInit ==
  /\ input = <<>> /\ cmd_hist = <<>> /\ idx = -1 /\ extended = FALSE
  /\ history = Greeted /\ serial = Greeting /\ cleared = 0 /\ echo = 0
  /\ command = "empty" /\ halted = FALSE /\ entered = <<>> /\ scancode = "release"

init_terminal_app ==
  /\ ~halted
  /\ serial > Greeting
  /\ input' = <<>> /\ cmd_hist' = <<>> /\ idx' = -1
  /\ history' = Greeted /\ serial' = Greeting /\ cleared' = 0 /\ echo' = 0
  /\ command' = "empty" /\ entered' = <<>>
  /\ UNCHANGED <<extended, halted, scancode>>

TermNext ==
  \/ \E code \in Chars \cup HighBit \cup {"backspace", "up", "down"} : Type(code)
  \/ Enter
  \/ RunFromFiles
  \/ OthersAppend
  \/ init_terminal_app

TermSpec == TermInit /\ [][TermNext]_terminalVars

-----------------------------------------------------------------------------
(***************************************************************************)
(* Properties.                                                             *)
(***************************************************************************)
\* Types; in particular term_input never holds more than it has room for,
\* whatever is typed, recalled and erased.
TermTypeOK ==
  /\ input \in Lines
  /\ cmd_hist \in Seq(Lines) /\ Len(cmd_hist) <= CMD_HIST_SIZE
  /\ idx \in -1 .. CMD_HIST_SIZE - 1 /\ extended \in BOOLEAN
  /\ history \in [1 .. HISTORY_LINES -> 0 .. MaxLines]
  /\ halted \in BOOLEAN

\* The recall list is the newest commands entered, newest first and without a
\* gap, also when the list has been full for several commands (push_cmd_hist).
RecallIsNewestFirst ==
  cmd_hist = SubSeq(entered, 1, IF Len(entered) < CMD_HIST_SIZE
                                THEN Len(entered) ELSE CMD_HIST_SIZE)

\* The window shows the last lines written to it since it was cleared, in the
\* order they were written, whoever wrote them (append_history).
ShowsLastLines ==
  \A i \in 1 .. HISTORY_LINES :
    LET n == serial - HISTORY_LINES + i
    IN  history[i] = IF n > cleared THEN n ELSE 0

\* A command whose answer has a fixed length leaves its echo in the window:
\* the longest fixed answer fits under it.
EchoStays ==
  (/\ command \notin Listings \cup {"clear", "empty"}
   /\ echo > cleared
   /\ \E n \in Answer(command) : serial = echo + n)
    => \E i \in 1 .. HISTORY_LINES : history[i] = echo

\* The window and the recall list show what was entered and answered.
TerminalSound == TermTypeOK /\ RecallIsNewestFirst /\ ShowsLastLines /\ EchoStays
=============================================================================
