----------------------------- MODULE MCDevices -----------------------------
(* What is behind the schemes: files, disks, the console and the windows of  *)
(* orbital, each with an instance of its own.  A behaviour is one of the     *)
(* part that which names, and the others keep one first state.               *)
EXTENDS MCFiles, Disk, Console, Orbital

VARIABLE which

(* Text with every control character, sequences that put the cursor off the display, at
   a place that wraps and at the end of usize, change colours or the mode, and one that
   is not finished. *)
MCTexts == {<<"a", "TAB", "a", "a", "a", "CR", "BS", "NL", "a", "NL", "a", "NUL">>,
            <<"ESC", "[", "9", ";", "9", "H", "a">>,
            <<"ESC", "[", "1", ";", "3", "1", "f", "TAB">>,
            <<"ESC", "[", "3", "4", ";", "9", "9", "H", "a">>,
            <<"ESC", "[", ";", "3", "2", "H">>,
            <<"ESC", "[", "3", "8", ";", "5", "m", "ESC", "[", "2", "J">>,
            <<"ESC", "[", "r">>, <<"ESC", "[", "R">>, <<"ESC", "[", "2", ";">>, <<"ESC", "c">>}

(* Windows: two with a title, one of them placed by orbital and one that reaches over
   the edge; one bare; and one of a negative size. *)
MCPoints == {<<1, 0>>, <<2, 1>>, <<3, 2>>}
MCRequests == {[x |-> -1, y |-> -1, w |-> 2, h |-> 1, title |-> TRUE, async |-> FALSE],
               [x |-> 2, y |-> 1, w |-> 3, h |-> 1, title |-> TRUE, async |-> TRUE],
               [x |-> 0, y |-> 1, w |-> 2, h |-> 1, title |-> FALSE, async |-> FALSE],
               [x |-> 0, y |-> 0, w |-> -1, h |-> -1, title |-> FALSE, async |-> FALSE]}

DevicesInit ==
  /\ which \in {"files", "disk", "console", "orbital"}
  /\ which # "disk" => ctl = "ide" /\ drive = [sts |-> "none", data |-> <<>>]
  /\ which # "console" => con = NewConsole(FALSE)
  /\ FilesInit /\ ConsoleInit /\ OrbitalInit
  /\ IF which = "disk" THEN DiskInit
     ELSE /\ ram = <<>> /\ req = [at |-> "absent"] /\ engine = NoEngine
          /\ ci = {} /\ halted = FALSE /\ before = <<>> /\ requests = 0

DevicesNext ==
  \/ which = "files" /\ FilesNext /\ UNCHANGED <<which, diskVars, consoleVars, orbVars>>
  \/ which = "disk" /\ DiskNext /\ UNCHANGED <<which, filesVars, consoleVars, orbVars>>
  \/ which = "console" /\ ConsoleNext /\ UNCHANGED <<which, filesVars, diskVars, orbVars>>
  \/ which = "orbital" /\ OrbitalNext /\ UNCHANGED <<which, filesVars, diskVars, consoleVars>>

DevicesSpec == DevicesInit /\ [][DevicesNext]_<<which, filesVars, diskVars, consoleVars, orbVars>>

-----------------------------------------------------------------------------
(* No block of the disk belongs to two files, what was synced is what is     *)
(* read, restart or not, and directories list each entry once (file.rs,      *)
(* redoxfs).                                                                 *)
FilesSound == which = "files" => BlocksOwned /\ SyncedIsRead /\ ListedOnce

(* What is typed is received once, and nothing is drawn outside the display, *)
(* whatever keys, serial bytes and programs' output mix (console.rs,         *)
(* display.rs, ps2.rs, serial.rs), until a program puts the cursor into the  *)
(* last cell of usize: what is drawn there may overwrite anything.           *)
ConsoleSound == which = "console" => InputOnce /\ DrawsInside

(* The display shows the windows as they are, but where a redraw is due, and *)
(* every call is in one place until answered, with both threads of orbital   *)
(* at work (orbital/main.rs).                                                *)
OrbitalSound == which = "orbital" => ScreenTrue /\ CallsKept
=============================================================================
