----------------------------- MODULE SelfUpdate -----------------------------
(***************************************************************************)
(* outpost/updater.py: the agent replaces its own binary and exits, and    *)
(* the service manager (Restart=always) starts what it then finds at the   *)
(* path.  The process may be killed between any two of its system calls.   *)
(***************************************************************************)
EXTENDS Integers

CONSTANT MaxVersion    \* bound: releases there are

Versions == 1..MaxVersion

VARIABLES
  running,  \* version of the process image
  binary,   \* the file at the binary's path: its version, whether it is whole
  scratch,  \* the file at path.new
  step,     \* where self_update is
  target    \* the version it was called with

vars == <<running, binary, scratch, step, target>>

File == [version : Versions, whole : BOOLEAN]
NoFile == [version |-> 1, whole |-> FALSE]

Init ==
  /\ running = 1
  /\ binary = [version |-> 1, whole |-> TRUE]
  /\ scratch = NoFile
  /\ step = "idle"
  /\ target = 1

\* self_update(client, v) is awaiting the download.
Begin(v) ==
  /\ step = "idle"
  /\ step' = "downloading" /\ target' = v
  /\ UNCHANGED <<running, binary, scratch>>

WritesInPlace ==           \* mutant: the download goes to the path itself
  /\ step = "downloading"
  /\ step' = "writing"
  /\ binary' = [version |-> target, whole |-> FALSE]
  /\ UNCHANGED <<running, scratch, target>>

\* The bytes are here; path.new is opened, which empties an older one.
OpenScratch ==
  /\ step = "downloading"
  /\ step' = "writing"
  /\ scratch' = [version |-> target, whole |-> FALSE]
  /\ UNCHANGED <<running, binary, target>>

\* write, close and chmod.
FillScratch ==
  /\ step = "writing"
  /\ step' = "replacing"
  /\ scratch' = [version |-> target, whole |-> TRUE]
  /\ UNCHANGED <<running, binary, target>>

ReplacesAndReturns ==      \* mutant: the old image goes on running
  /\ step = "replacing"
  /\ step' = "idle"
  /\ binary' = scratch
  /\ scratch' = NoFile
  /\ UNCHANGED <<running, target>>

\* os.replace: path is the old file or the new one, never a mixture.
Replace ==
  /\ step = "replacing"
  /\ step' = "leaving"
  /\ binary' = scratch
  /\ scratch' = NoFile
  /\ UNCHANGED <<running, target>>

\* The download, the open, the write, the chmod or the replace raises.
Raise ==
  /\ step \in {"downloading", "writing", "replacing"}
  /\ step' = "idle"
  /\ UNCHANGED <<running, binary, scratch, target>>

\* The service manager starts what is at the path.
Start ==
  /\ running' = binary.version
  /\ step' = "idle"
  /\ UNCHANGED <<binary, scratch, target>>

Advance == OpenScratch \/ FillScratch \/ Replace

-----------------------------------------------------------------------------

TypeOK ==
  /\ running \in Versions /\ target \in Versions
  /\ binary \in File /\ scratch \in File
  /\ step \in {"idle", "downloading", "writing", "replacing", "leaving"}

\* Whatever call the process dies at or fails in, a whole release is at the
\* path it is started from (updater.py:38-44).
BinaryIsWhole == binary.whole

\* A process whose binary has been replaced does nothing but exit: the image
\* that runs and the release installed differ at no other time, so what hello
\* reports is what is installed (updater.py:43-46).
RunsWhatIsInstalled == binary.version # running => step = "leaving"
=============================================================================
