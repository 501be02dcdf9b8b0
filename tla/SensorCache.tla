---------------------------- MODULE SensorCache ----------------------------
(* Sensors::dump and Sensors::load (src/src/Sensors.C): the .cac file of    *)
(* one sensor_list_crc, shared by every process run with the same -C        *)
(* directory (mkOne.py starts several at a time).  A dumper holds a data    *)
(* file with the sensor list in its header; a loader holds a factored one.  *)
(*                                                                          *)
(* There is no lock.  A dumper writes a temporary file and renames it; a    *)
(* loader opens whatever the name stands for.  Names and files are kept     *)
(* apart: a rename moves a name, and an open file keeps being read.         *)
EXTENDS Integers, FiniteSets

CONSTANTS
    Dumpers, Loaders,  \* the processes
    Suffixes,          \* uniqueTempSuffix: 900000 values in the code
    ListLen,           \* lines of the sensor list
    SuffixesDistinct,  \* assume no two running dumpers draw one suffix
    CloseMayFail,      \* may close() lose data that write() took?
    None               \* no file

Proc == Dumpers \cup Loaders
Names == Suffixes \cup {"final"}

ASSUME RolesAssumption == Dumpers \cap Loaders = {}
ASSUME ListAssumption == ListLen \in Nat \ {0}
ASSUME NoneAssumption == None \notin Proc
ASSUME NamesAssumption == "final" \notin Suffixes /\ None \notin Suffixes
ASSUME FlagsAssumption == SuffixesDistinct \in BOOLEAN /\ CloseMayFail \in BOOLEAN

\* A file: complete lines, and how the last one was cut.  A line cut inside
\* its unit still parses ("unit"); cut before, it does not ("bad").
Whole == [lines |-> ListLen, tail |-> "none"]
Empty == [lines |-> 0, tail |-> "none"]
Cut == [lines: 0 .. ListLen - 1, tail: {"none", "bad", "unit"}]
Content == Cut \cup {Whole}

VARIABLES
    dir,     \* does the cache directory exist?
    names,   \* name -> the file it stands for
    files,   \* file -> content; a file is called by the dumper that created it
    pc,      \* where each process is
    fd,      \* the file each process has open
    sfx,     \* the suffix each dumper drew
    taken    \* lines each loader has read

vars == <<dir, names, files, pc, fd, sfx, taken>>

Init ==
    /\ dir \in BOOLEAN
    /\ names = [n \in Names |-> None]
    /\ files = [p \in Dumpers |-> Empty]
    /\ pc = [p \in Proc |-> "idle"]
    /\ fd = [p \in Proc |-> None]
    /\ sfx = [p \in Dumpers |-> None]
    /\ taken = [p \in Loaders |-> 0]

Goto(p, l) == pc' = [pc EXCEPT ![p] = l]

-----------------------------------------------------------------------------
(* Sensors::dump *)

\* The directory is there, or this process makes it.
DirThere(p) ==
    /\ pc[p] = "idle"
    /\ dir
    /\ Goto(p, "list")
    /\ UNCHANGED <<dir, names, files, fd, sfx, taken>>

DirMissing(p) ==
    /\ pc[p] = "idle"
    /\ ~dir
    /\ Goto(p, "mkdir")
    /\ UNCHANGED <<dir, names, files, fd, sfx, taken>>

\* create_directories is true only for the process that did create it; to the
\* one that comes second dump reports an error and caches nothing.
MakeDir(p) ==
    /\ pc[p] = "mkdir"
    /\ dir' = TRUE
    /\ Goto(p, IF dir THEN "refused" ELSE "list")
    /\ UNCHANGED <<names, files, fd, sfx, taken>>

\* ... and if the directory cannot be made at all.
MakeDirFails(p) ==
    /\ pc[p] = "mkdir"
    /\ Goto(p, "refused")
    /\ UNCHANGED <<dir, names, files, fd, sfx, taken>>

\* mkFilename and the existence check: a list is written once and never again.
CheckTemps(p) ==
    /\ pc[p] = "list"
    /\ Goto(p, IF \E n \in Names : names[n] # None THEN "dumped" ELSE "create")
    /\ UNCHANGED <<dir, names, files, fd, sfx, taken>>
CheckExists(p) ==
    /\ pc[p] = "list"
    /\ Goto(p, IF names["final"] # None THEN "dumped" ELSE "create")
    /\ UNCHANGED <<dir, names, files, fd, sfx, taken>>

Running(q) == pc[q] \in {"write", "close", "rename"}

\* Open for writing truncates: the temporary file of another dumper too, if
\* both drew one suffix, or one left behind by a crash.
OpenFinal(p) ==
    /\ pc[p] = "create"
    /\ \E s \in Suffixes :
          /\ sfx' = [sfx EXCEPT ![p] = s]
          /\ names' = [names EXCEPT !["final"] = p]
          /\ files' = [files EXCEPT ![p] = Empty]
          /\ fd' = [fd EXCEPT ![p] = p]
    /\ Goto(p, "write")
    /\ UNCHANGED <<dir, taken>>
OpenTemp(p) ==
    /\ pc[p] = "create"
    /\ \E s \in Suffixes :
          /\ SuffixesDistinct => \A q \in Dumpers : Running(q) => sfx[q] # s
          /\ LET f == IF names[s] = None THEN p ELSE names[s]
             IN  /\ names' = [names EXCEPT ![s] = f]
                 /\ files' = [files EXCEPT ![f] = Empty]
                 /\ fd' = [fd EXCEPT ![p] = f]
          /\ sfx' = [sfx EXCEPT ![p] = s]
    /\ Goto(p, "write")
    /\ UNCHANGED <<dir, taken>>

OpenTempFails(p) ==
    /\ pc[p] = "create"
    /\ Goto(p, "threw")
    /\ UNCHANGED <<dir, names, files, fd, sfx, taken>>

Longer(c, d) == c.lines > d.lines \/ (c.lines = d.lines /\ d.tail = "none" /\ c.tail # "none")

\* The file grows as the list is written: a reader of it may see any prefix.
WriteSome(p) ==
    /\ pc[p] = "write"
    /\ \E c \in Cut :
          /\ Longer(c, files[fd[p]])
          /\ files' = [files EXCEPT ![fd[p]] = c]
    /\ UNCHANGED <<dir, names, pc, fd, sfx, taken>>

WriteAll(p) ==
    /\ pc[p] = "write"
    /\ files' = [files EXCEPT ![fd[p]] = Whole]
    /\ Goto(p, "close")
    /\ UNCHANGED <<dir, names, fd, sfx, taken>>

\* A failed write is noticed, and the temporary file removed by its name.
WriteFailsLeaving(p) ==
    /\ pc[p] = "write"
    /\ Goto(p, "threw")
    /\ UNCHANGED <<dir, names, files, fd, sfx, taken>>
WriteFails(p) ==
    /\ pc[p] = "write"
    /\ names' = [names EXCEPT ![sfx[p]] = None]
    /\ Goto(p, "threw")
    /\ UNCHANGED <<dir, files, fd, sfx, taken>>

\* The stream is not tested after close().
CloseTemp(p) ==
    /\ pc[p] = "close"
    /\ \/ UNCHANGED files
       \/ /\ CloseMayFail
          /\ \E c \in Cut : files' = [files EXCEPT ![fd[p]] = c]
    /\ Goto(p, "rename")
    /\ UNCHANGED <<dir, names, fd, sfx, taken>>

\* The rename replaces a list another dumper published in the meantime.
RenameTemp(p) ==
    /\ pc[p] = "rename"
    /\ names[sfx[p]] # None
    /\ names' = [names EXCEPT !["final"] = names[sfx[p]], ![sfx[p]] = None]
    /\ Goto(p, "dumped")
    /\ UNCHANGED <<dir, files, fd, sfx, taken>>

\* The rename fails; on failure the temporary file is removed if it is there.
RenameFails(p) ==
    /\ pc[p] = "rename"
    /\ names' = [names EXCEPT ![sfx[p]] = None]
    /\ Goto(p, "threw")
    /\ UNCHANGED <<dir, files, fd, sfx, taken>>

-----------------------------------------------------------------------------
(* Sensors::load *)

\* mkFilename throws when there is no directory; a missing file is no error.
OpenList(p) ==
    /\ pc[p] = "idle"
    /\ fd' = [fd EXCEPT ![p] = IF dir THEN names["final"] ELSE None]
    /\ Goto(p, IF ~dir THEN "threw"
               ELSE IF names["final"] = None THEN "absent" ELSE "read")
    /\ UNCHANGED <<dir, names, files, sfx, taken>>

ReadLinePast(p) ==
    /\ pc[p] = "read"
    /\ taken[p] <= files[fd[p]].lines
    /\ taken' = [taken EXCEPT ![p] = @ + 1]
    /\ UNCHANGED <<dir, names, files, pc, fd, sfx>>
ReadLine(p) ==
    /\ pc[p] = "read"
    /\ taken[p] < files[fd[p]].lines
    /\ taken' = [taken EXCEPT ![p] = @ + 1]
    /\ UNCHANGED <<dir, names, files, pc, fd, sfx>>

\* A corrupt line fails the load: skipping it would shift every sensor after
\* it.  A line that parses, cut or not, is taken.
ReadEndEarly(p) ==
    /\ pc[p] = "read"
    /\ taken[p] + 1 >= files[fd[p]].lines
    /\ Goto(p, IF files[fd[p]].tail = "bad" THEN "threw" ELSE "loaded")
    /\ UNCHANGED <<dir, names, files, fd, sfx, taken>>
ReadEnd(p) ==
    /\ pc[p] = "read"
    /\ taken[p] >= files[fd[p]].lines
    /\ Goto(p, IF files[fd[p]].tail = "bad" THEN "threw" ELSE "loaded")
    /\ taken' = [taken EXCEPT ![p] = IF files[fd[p]].tail = "unit" THEN @ + 1 ELSE @]
    /\ UNCHANGED <<dir, names, files, fd, sfx>>

-----------------------------------------------------------------------------

\* A process may die between any two steps; nothing is cleaned up.
Dead == {"dumped", "refused", "threw", "absent", "loaded", "crashed"}

Crash(p) ==
    /\ pc[p] \notin Dead
    /\ Goto(p, "crashed")
    /\ UNCHANGED <<dir, names, files, fd, sfx, taken>>

Dump(p) ==
    \/ DirThere(p) \/ DirMissing(p) \/ MakeDir(p) \/ MakeDirFails(p)
    \/ CheckExists(p) \/ OpenTemp(p) \/ OpenTempFails(p)
    \/ WriteSome(p) \/ WriteAll(p) \/ WriteFails(p)
    \/ CloseTemp(p) \/ RenameTemp(p) \/ RenameFails(p)

Load(p) == OpenList(p) \/ ReadLine(p) \/ ReadEnd(p)

AllDone == (\A p \in Proc : pc[p] \in Dead) /\ UNCHANGED vars

Next ==
    \/ \E p \in Dumpers : Dump(p)
    \/ \E p \in Loaders : Load(p)
    \/ \E p \in Proc : Crash(p)
    \/ AllDone

Spec == Init /\ [][Next]_vars

\* The operating system runs every process that has not died: WriteSome cannot
\* repeat forever, since every repetition writes more.
FairSpec ==
    /\ Spec
    /\ \A p \in Dumpers : WF_vars(Dump(p))
    /\ \A p \in Loaders : WF_vars(Load(p))

-----------------------------------------------------------------------------
(* Properties *)

Steps == {"idle", "mkdir", "list", "create", "write", "close", "rename", "read"} \cup Dead

\* The types of the cache's state (Sensors::dump, Sensors::load).
TypeOK ==
    /\ dir \in BOOLEAN
    /\ names \in [Names -> Dumpers \cup {None}]
    /\ files \in [Dumpers -> Content]
    /\ pc \in [Proc -> Steps]
    /\ fd \in [Proc -> Dumpers \cup {None}]
    /\ sfx \in [Dumpers -> Suffixes \cup {None}]
    /\ taken \in [Loaders -> 0 .. ListLen]

\* What the name stands for, in the words of the store.
NoList == [lines |-> 0, tail |-> "absent"]
Unread == [lines |-> 0, tail |-> "unread"]
Published == IF names["final"] = None THEN NoList ELSE files[names["final"]]

\* Whatever the .cac name stands for is the complete list: no reader, now or
\* in a later run, meets a list cut short (Sensors.C:223-257).
PublishedIsWhole == names["final"] # None => files[names["final"]] = Whole

\* A dump that reports success leaves the list in the cache, written by this
\* process or by another (Sensors.C:214, 261).
DumpedMeansPublished ==
    (\E p \in Dumpers : pc[p] = "dumped") => names["final"] # None

\* Only a process that died leaves a temporary file, a failed one removes it: a
\* temporary name belongs to a dumper at work or crashed (Sensors.C:235-254).
TempsAreOwned ==
    \A s \in Suffixes : names[s] # None =>
        \E p \in Dumpers : sfx[p] = s /\ (Running(p) \/ pc[p] = "crashed")

\* Once a dumper is at work, the list gets published, unless all the dumpers
\* that started crashed, failed or were refused (Sensors.C:193-262).
DumpersPublish ==
    (\E p \in Dumpers : pc[p] # "idle") ~>
        \/ Published = Whole
        \/ \A p \in Dumpers : pc[p] \in {"threw", "refused", "crashed"}

\* The word each loader got from the cache, if it got one.
Got == [p \in Loaders |->
          CASE pc[p] = "loaded" -> [lines |-> taken[p], tail |-> "none"]
            [] pc[p] = "absent" -> NoList
            [] OTHER -> Unread]

\* The cache implements the store: one whole list, published once, loaded
\* whole or not at all, however the processes interleave and wherever they
\* stop (Sensors.C:193-307).
Store == INSTANCE CacheStore WITH
    Nothing <- NoList, Waiting <- Unread, published <- Published, got <- Got

StoreSpec == Store!Spec

=============================================================================
