------------------------------- MODULE FileBench -------------------------------
(***************************************************************************)
(* file_systems/file_meta.c and read.c, run again and again: what a run    *)
(* leaves on the disk, because it failed or was killed, the next one       *)
(* finds.                                                                  *)
(*                                                                         *)
(* Both programs ignore most results.  A step that fails unnoticed counts  *)
(* in ignored.                                                             *)
(***************************************************************************)
EXTENDS Standalone

CONSTANTS
  NumFiles,    \* NUM_FILES; for read.c, how many buffers the file has
  MaxRuns      \* bound on the runs

ASSUME FilesAssumption == NumFiles \in Nat \ {0}
ASSUME RunsAssumption == MaxRuns \in Nat \ {0}

FilePrograms == {"file_meta", "read"}
Absent == -1

\* The names in DIR_NAME.
File(k) == <<"file", k>>
Renamed(k) == <<"renamed", k>>
Foreign == <<"foreign", 0>>
Rounds == 0..(NumFiles - 1)
Names == {File(k) : k \in Rounds} \union {Renamed(k) : k \in Rounds}
           \union {Foreign}

VARIABLES
  dir,        \* whether DIR_NAME exists
  files,      \* the names in it
  testfile,   \* the length of FILE_NAME in buffers, or Absent
  swept,      \* whether this run's cleanup worked
  written,    \* buffers this run wrote, Absent if it could not open the file
  nread,      \* buffers this run read
  ignored,    \* failures that this run ignored
  runs

fileVars == <<dir, files, testfile, swept, written, nread, ignored, runs>>

StartOf(p) == IF p = "file_meta" THEN "cleanup" ELSE "open_write"

FileInit ==
  /\ program \in FilePrograms
  /\ main = StartOf(program)
  /\ i = 0
  /\ faults = 0
  /\ dir \in BOOLEAN
  /\ files \in IF dir THEN {{}, {Foreign}, {File(0), Renamed(0)}} ELSE {{}}
  /\ testfile \in {Absent, NumFiles + 1}
  /\ swept = FALSE
  /\ written = Absent
  /\ nread = 0
  /\ ignored = 0
  /\ runs = 1

Ignore == Fault /\ ignored' = ignored + 1
NoFault == UNCHANGED <<faults, ignored>>

------------------------------------------------------------------------------
(* file_meta.c                                                             *)

OnlyDir == UNCHANGED <<program, testfile, written, nread, runs>>

\* Variant: the leftovers of an earlier run stay.
CleanupSkipped ==
  /\ main = "cleanup"
  /\ main' = "mkdir"
  /\ swept' = TRUE
  /\ UNCHANGED <<i, dir, files>> /\ NoFault /\ OnlyDir

\* system("rm -rf ..."), whose result is ignored.
Cleanup ==
  /\ main = "cleanup"
  /\ main' = "mkdir"
  /\ \/ dir' = FALSE /\ files' = {} /\ swept' = TRUE /\ NoFault
     \/ Ignore /\ swept' = FALSE /\ UNCHANGED <<dir, files>>
  /\ UNCHANGED i /\ OnlyDir

\* mkdir fails if the directory exists, and then the program uses that one.
MakeDir ==
  /\ main = "mkdir"
  /\ main' = "create"
  /\ \/ dir' = TRUE /\ NoFault
     \/ Ignore /\ UNCHANGED dir
  /\ UNCHANGED <<i, files, swept>> /\ OnlyDir

Create ==
  /\ main = "create"
  /\ dir
  /\ files' = files \union {File(i)}
  /\ EndRound(NumFiles, "rename")
  /\ UNCHANGED <<dir, swept>> /\ NoFault /\ OnlyDir

\* fopen fails: return 1, and the directory stays.
CreateFails ==
  /\ main = "create"
  /\ main' = "failed"
  /\ IF dir THEN Fault ELSE UNCHANGED faults
  /\ UNCHANGED <<i, dir, files, swept, ignored>> /\ OnlyDir

\* rename, and unlink below, act on a name that is there, or fail unnoticed.
Rename ==
  /\ main = "rename"
  /\ \/ /\ File(i) \in files
        /\ files' = (files \ {File(i)}) \union {Renamed(i)}
        /\ NoFault
     \/ Ignore /\ UNCHANGED files
  /\ EndRound(NumFiles, "delete")
  /\ UNCHANGED <<dir, swept>> /\ OnlyDir

\* Variant: the files are deleted under the names they were created with.
DeleteOldNames ==
  /\ main = "delete"
  /\ files' = files \ {File(i)}
  /\ EndRound(NumFiles, "rmdir")
  /\ UNCHANGED <<dir, swept>> /\ NoFault /\ OnlyDir

Delete ==
  /\ main = "delete"
  /\ \/ files' = files \ {Renamed(i)} /\ NoFault
     \/ Ignore /\ UNCHANGED files
  /\ EndRound(NumFiles, "rmdir")
  /\ UNCHANGED <<dir, swept>> /\ OnlyDir

\* rmdir removes an empty directory only; then the times are printed.
RemoveDir ==
  /\ main = "rmdir"
  /\ main' = "done"
  /\ \/ dir' = (files # {}) /\ NoFault
     \/ Ignore /\ UNCHANGED dir
  /\ UNCHANGED <<i, files, swept>> /\ OnlyDir

------------------------------------------------------------------------------
(* read.c                                                                  *)

OnlyFile == UNCHANGED <<program, dir, files, swept, runs>>

\* fopen(FILE_NAME, "wb") truncates.  If it fails write_test returns, and main
\* goes on with read_test.
OpenToWrite ==
  /\ main = "open_write"
  /\ \/ testfile' = 0 /\ written' = 0 /\ main' = "write" /\ NoFault
     \/ Ignore /\ main' = "open_read" /\ UNCHANGED <<testfile, written>>
  /\ UNCHANGED <<i, nread>> /\ OnlyFile

\* fwrite, whose result is ignored.
Write ==
  /\ main = "write"
  /\ \/ /\ testfile' = testfile + 1
        /\ written' = written + 1
        /\ NoFault
     \/ Ignore /\ UNCHANGED <<testfile, written>>
  /\ EndRound(NumFiles, "open_read")
  /\ UNCHANGED nread /\ OnlyFile

OpenToRead ==
  /\ main = "open_read"
  /\ \/ testfile # Absent /\ main' = "read" /\ NoFault
     \/ testfile = Absent /\ main' = "remove" /\ NoFault
     \/ Ignore /\ main' = "remove"
  /\ UNCHANGED <<i, testfile, written, nread>> /\ OnlyFile

\* while (fread(...) > 0): an error ends the loop like the end of the file.
Read ==
  /\ main = "read"
  /\ \/ nread < testfile /\ nread' = nread + 1 /\ UNCHANGED main /\ NoFault
     \/ nread = testfile /\ main' = "remove" /\ UNCHANGED nread /\ NoFault
     \/ Ignore /\ main' = "remove" /\ UNCHANGED nread
  /\ UNCHANGED <<i, testfile, written>> /\ OnlyFile

RemoveTestFile ==
  /\ main = "remove"
  /\ main' = "done"
  /\ \/ testfile' = Absent /\ NoFault
     \/ Ignore /\ UNCHANGED testfile
  /\ UNCHANGED <<i, written, nread>> /\ OnlyFile

------------------------------------------------------------------------------
FileSteps ==
  \/ Cleanup \/ MakeDir \/ Create \/ CreateFails \/ Rename \/ Delete \/ RemoveDir
  \/ OpenToWrite \/ Write \/ OpenToRead \/ Read
  \/ RemoveTestFile

\* Somebody interrupts the program.
FileKill ==
  /\ main \notin Ended
  /\ main' = "killed"
  /\ UNCHANGED <<program, i, faults, fileVars>>

FileRerun ==
  /\ main \in Ended
  /\ runs < MaxRuns
  /\ runs' = runs + 1
  /\ program' \in FilePrograms
  /\ main' = StartOf(program')
  /\ i' = 0
  /\ swept' = FALSE
  /\ written' = Absent
  /\ nread' = 0
  /\ ignored' = 0
  /\ UNCHANGED <<faults, dir, files, testfile>>

FileNext == FileSteps \/ FileKill \/ FileRerun

FileSpec == FileInit /\ [][FileNext]_<<shared, fileVars>>

------------------------------------------------------------------------------
(* Properties.                                                             *)

\* Every variable keeps its type; a name needs the directory.
FileTypeOK ==
  /\ program \in FilePrograms
  /\ main \in {"cleanup", "mkdir", "create", "rename", "delete", "rmdir",
               "open_write", "write", "open_read", "read", "remove"}
              \union Ended
  /\ i \in Rounds
  /\ dir \in BOOLEAN
  /\ files \in IF dir THEN SUBSET Names ELSE {{}}
  /\ testfile \in Nat \union {Absent}
  /\ swept \in BOOLEAN
  /\ written \in 0..NumFiles \union {Absent}
  /\ nread \in Nat
  /\ ignored \in Nat
  /\ runs \in 1..MaxRuns

\* Whatever killed or failing runs left behind, a run measures its own files.
\* file_meta.c, once its cleanup has worked, times the creation of files that
\* are new and the renaming of as many as it created, each exactly once;
\* read.c, if it could write, reads what this run wrote and nothing more.
FromScratch ==
  /\ swept /\ main = "create" => files = {File(k) : k \in 0..(i - 1)}
  /\ swept /\ main = "rename" =>
       /\ \A k \in Rounds : (File(k) \in files) # (Renamed(k) \in files)
       /\ \A k \in i..(NumFiles - 1) : File(k) \in files
       /\ Foreign \notin files
  /\ main = "read" /\ written # Absent =>
       testfile = written /\ nread <= written

\* A run that comes to its end leaves nothing behind for which it does not
\* have an ignored failure: one failure for each file that is still there, and
\* one at least for a directory or for the test file.
NothingLeft ==
  /\ main = "done" /\ swept =>
       Cardinality(files) <= ignored /\ (dir => ignored > 0)
  /\ main = "done" /\ program = "read" /\ testfile # Absent => ignored > 0
==============================================================================
