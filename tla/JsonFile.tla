------------------------------ MODULE JsonFile ------------------------------
(***************************************************************************)
(* A value kept in one JSON file: LoadJson and StoreJson of                *)
(* src/src/rh56/persistent_store.hpp.  StoreJson writes a temporary file   *)
(* next to the file and renames it over the file; a process may die        *)
(* between any two of its steps, and either step may fail.                 *)
(***************************************************************************)
CONSTANTS
  Absent,      \* there is no such file
  Torn,        \* a file whose text was cut off
  StoreFaults  \* "write": an error the stream reports before StoreJson tests
               \* it; "flush": one it meets when its destructor writes the
               \* buffer out; "rename": the file cannot be replaced

ASSUME StoreFaultsAssumption == StoreFaults \subseteq {"write", "flush", "rename"}

VARIABLES
  file,        \* what is at path
  temporary    \* what is at path.tmp-<pid>

fileVars == <<file, temporary>>

FileInit == file = Absent /\ temporary = Absent

\* The temporary file is written.  The text is short enough for the stream's
\* buffer, so the test of the stream sees no error that comes with the flush.
WriteTemporary(value) ==
  /\ \/ temporary' = value
     \/ "flush" \in StoreFaults /\ temporary' = Torn
  /\ UNCHANGED file

WriteFails ==
  /\ "write" \in StoreFaults
  /\ temporary' = Torn
  /\ UNCHANGED file

Replace == file' = temporary /\ temporary' = Absent

ReplaceFails ==
  /\ "rename" \in StoreFaults
  /\ temporary' = Absent
  /\ UNCHANGED file

LoadedUnchecked(fallback) == file

\* What LoadJson may return.  A text that was cut off makes it throw, or reads
\* as the fallback if nothing of it was written.
Loaded(fallback) == IF file \in {Absent, Torn} THEN fallback ELSE file
=============================================================================
