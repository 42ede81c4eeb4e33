------------------------------ MODULE JsonFile ------------------------------
(***************************************************************************)
(* The JSON files of Run Memory (memory/run_memory.py): _write_json opens  *)
(* the file, which empties it, and then writes it; _read_json answers with *)
(* a default when the file is missing or does not parse. Neither locks.    *)
(*                                                                         *)
(* While a writer has a file open, "content" is still what was in it; a    *)
(* reader gets it only when the file is whole.                             *)
(***************************************************************************)

FileStates == {"absent", "empty", "mixed", "whole"}

File(contents) == [state : FileStates, content : contents]

NoFile(nothing)   == [state |-> "absent", content |-> nothing]
WholeFile(value)  == [state |-> "whole", content |-> value]

Exists(file)   == file.state # "absent"
Readable(file) == file.state = "whole"

Load(file, default) == IF Readable(file) THEN file.content ELSE default

Truncated(file) == [file EXCEPT !.state = "empty"]

(* What the file can be after a writer that has emptied it writes. When    *)
(* another writer came between, the shorter text leaves the tail of the    *)
(* longer one behind, and the mixture does not parse.                      *)
Written(file, value, nothing) ==
  {WholeFile(value)} \cup
  {f \in {[state |-> "mixed", content |-> nothing]} : file.state # "empty"}

=============================================================================
