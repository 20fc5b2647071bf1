------------------------------- MODULE MCStd -------------------------------
(* The parts of libstd that a program uses on its own: maps and sets, paths, *)
(* readers, writers, commands and durations, each with instances of its own. *)
(* A behaviour is one of the part that which names, and the others keep one  *)
(* first state.                                                              *)
EXTENDS HashSet, Path, StdRead, MCStdWrite, Process, Durations

VARIABLE which

KeySymmetry == Permutations(Keys)

MCFiles == {<<"a","r","n","h","t">>, <<"h","n">>}
MCSecond == <<"n","a">>

tableVars == <<mapVars, dict, due>>

StdInit ==
  /\ which \in {"map", "path", "read", "write", "process", "durations"}
  /\ which # "map" => hash = [k \in Keys |-> 2]
  /\ which # "path" => buf = << >>
  /\ which # "read" => file = MCSecond /\ rd = with_capacity("buf", 0)
  /\ which # "write" => wr = BufWriter("buf", TRUE)
  /\ which # "durations" => clock = kernel_new(0, 0) /\ other = clock /\ factor = 0
  /\ MapInit /\ PathInit
  /\ (which # "read" /\ call = Resting /\ faults = 0) \/ ReadInit
  /\ WriteInit /\ ProcessInit /\ DurationsInit

StdNext ==
  \/ which = "map" /\ MapNext /\ UNCHANGED <<which, pathVars, readVars, writeVars, processVars, durationVars>>
  \/ which = "path" /\ PathNext /\ UNCHANGED <<which, tableVars, readVars, writeVars, processVars, durationVars>>
  \/ which = "read" /\ ReadNext /\ UNCHANGED <<which, tableVars, pathVars, writeVars, processVars, durationVars>>
  \/ which = "write" /\ WriteNext /\ UNCHANGED <<which, tableVars, pathVars, readVars, processVars, durationVars>>
  \/ which = "process" /\ ProcessNext /\ UNCHANGED <<which, tableVars, pathVars, readVars, writeVars, durationVars>>
  \/ which = "durations" /\ Tick /\ UNCHANGED <<which, tableVars, pathVars, readVars, writeVars, processVars>>

StdSpec == StdInit /\ [][StdNext]_<<which, tableVars, pathVars, readVars, writeVars, processVars, durationVars>>

-----------------------------------------------------------------------------
(* A HashMap, whatever its table went through, answers as a finite map does; *)
(* its entries stay where a search finds them, its assertions hold, its      *)
(* draining iterators move each entry out once, and a HashSet's operators    *)
(* are those of sets (hash_map.rs, table.rs, hash_set.rs).                   *)
MapSound == which = "map" =>
  AnswersAsDictionary /\ EntriesReachable /\ AssertionsHold /\ MovedOutOnce /\ SetAlgebra

(* Components are the same from both ends, and the methods of Path and       *)
(* PathBuf undo each other as they promise (path.rs).                        *)
PathSound == which = "path" => EitherEndAgrees /\ PathLaws

(* No byte of a source is skipped, repeated or reordered by buffering, short *)
(* reads, retries and seeks, and text read into a String stays UTF-8         *)
(* (io/mod.rs, io/buffered.rs).                                              *)
ReadSound == which = "read" => NothingSkipped /\ TextIntact

(* A buffered writer, after short writes, failures, retries, seeks and       *)
(* drops, has written what an unbuffered one would, and tells its caller     *)
(* the truth (io/buffered.rs).                                               *)
WriteSound == which = "write" => WrittenOnce /\ ToldTruth
=============================================================================
