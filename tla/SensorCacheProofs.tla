------------------------- MODULE SensorCacheProofs -------------------------
(* For any number of processes and suffixes and any length of the list: the *)
(* .cac name never stands for a list cut short, the cache implements        *)
(* CacheStore, and a temporary file belongs to a dumper at work or crashed. *)
(* Assumed, but for the last: running dumpers draw distinct suffixes, and   *)
(* close does not lose what write took (the run SensorCacheClose shows that *)
(* the second is needed).                                                   *)
EXTENDS SensorCache, TLAPS

\* A dumper that has not opened its file yet.
Early == {"idle", "mkdir", "list", "create"}

Types ==
    /\ names \in [Names -> Dumpers \cup {None}]
    /\ files \in [Dumpers -> Content]
    /\ pc \in [Proc -> Steps]
    /\ fd \in [Proc -> Dumpers \cup {None}]
    /\ sfx \in [Dumpers -> Suffixes \cup {None}]
    /\ taken \in [Loaders -> 0 .. ListLen]
    /\ dir \in BOOLEAN

\* A running dumper has a suffix of its own, and the name with that suffix
\* stands for the file it writes.
OwnTemp ==
    \A p \in Dumpers : Running(p) =>
        /\ sfx[p] \in Suffixes
        /\ fd[p] \in Dumpers
        /\ names[sfx[p]] = fd[p]
        /\ \A q \in Dumpers : Running(q) /\ q # p => sfx[q] # sfx[p]

\* No file has two names, and a file not opened yet has none.
OneName ==
    /\ \A m, n \in Names : m # n /\ names[m] # None => names[m] # names[n]
    /\ \A p \in Dumpers : pc[p] \in Early => \A n \in Names : names[n] # p

\* What is about to be renamed, and what is published, is whole.
Complete ==
    /\ \A p \in Dumpers : pc[p] \in {"close", "rename"} => files[fd[p]] = Whole
    /\ names["final"] # None => files[names["final"]] = Whole

\* A loader reads a whole file that nobody can open for writing any more.
Readers ==
    \A p \in Loaders :
        /\ pc[p] \in {"read", "loaded"} => names["final"] # None
        /\ pc[p] = "loaded" => taken[p] = ListLen
        /\ pc[p] = "read" =>
              /\ fd[p] \in Dumpers
              /\ files[fd[p]] = Whole
              /\ \A s \in Suffixes : names[s] # fd[p]
              /\ pc[fd[p]] \notin Early

\* A dumper that reports success found a list or published one.
Dumped == (\E p \in Dumpers : pc[p] = "dumped") => names["final"] # None

IInv == Types /\ OwnTemp /\ OneName /\ Complete /\ Readers /\ Dumped

-----------------------------------------------------------------------------
(* The invariant is inductive *)

USE DEF Proc, Names

\* With no file and nobody running, the invariant holds.
LEMMA InitInv == Init => IInv
<1> SUFFICES ASSUME Init PROVE IInv
  OBVIOUS
<1>1. Types
  BY ListAssumption DEF Init, Types, Content, Cut, Empty, Steps
<1>2. OwnTemp /\ OneName /\ Complete /\ Readers /\ Dumped
  BY NoneAssumption DEF Init, OwnTemp, OneName, Complete, Readers, Dumped, Running
<1>3. QED
  BY <1>1, <1>2 DEF IInv

\* A step that moves no name and writes no file.
LEMMA QuietInv ==
    ASSUME IInv, NEW p \in Proc, NEW l \in Steps,
           pc' = [pc EXCEPT ![p] = l],
           UNCHANGED <<names, files, fd, sfx, taken>>, dir' \in BOOLEAN,
           l \notin {"write", "close", "rename", "read", "loaded"},
           l = "dumped" => names["final"] # None,
           l \in Early => pc[p] \in Early
    PROVE  IInv'
<1>1. Types'
  BY DEF IInv, Types
<1>2. /\ pc \in [Proc -> Steps] /\ pc'[p] = l
      /\ \A q \in Proc : q # p => pc'[q] = pc[q]
  BY DEF IInv, Types
<1>3. OwnTemp'
  BY <1>2 DEF IInv, OwnTemp, Running
<1>4. OneName'
  BY <1>2 DEF IInv, OneName, Early
<1>5. Complete'
  BY <1>2 DEF IInv, Complete
<1>6. Readers'
  BY <1>2 DEF IInv, Readers, Early
<1>7. Dumped'
  BY <1>2 DEF IInv, Dumped
<1>8. QED
  BY <1>1, <1>3, <1>4, <1>5, <1>6, <1>7 DEF IInv

\* A dumper that opens a temporary file is its only writer, and nobody reads it.
LEMMA OpenTempInv ==
    ASSUME IInv, SuffixesDistinct, NEW p \in Dumpers, OpenTemp(p)
    PROVE  IInv'
<1>1. PICK s \in Suffixes :
        /\ \A q \in Dumpers : Running(q) => sfx[q] # s
        /\ LET f == IF names[s] = None THEN p ELSE names[s]
           IN  /\ names' = [names EXCEPT ![s] = f]
               /\ files' = [files EXCEPT ![f] = Empty]
               /\ fd' = [fd EXCEPT ![p] = f]
        /\ sfx' = [sfx EXCEPT ![p] = s]
  BY DEF OpenTemp
<1> DEFINE f == IF names[s] = None THEN p ELSE names[s]
<1>2. /\ pc[p] = "create" /\ pc' = [pc EXCEPT ![p] = "write"]
      /\ UNCHANGED <<dir, taken>>
  BY DEF OpenTemp, Goto
<1>3. Types
  BY DEF IInv
<1>4. f \in Dumpers /\ f # None /\ s # "final"
  BY <1>3, NoneAssumption, NamesAssumption DEF Types
<1>5. /\ names' = [names EXCEPT ![s] = f] /\ files' = [files EXCEPT ![f] = Empty]
      /\ fd' = [fd EXCEPT ![p] = f] /\ sfx' = [sfx EXCEPT ![p] = s]
  BY <1>1
<1>6. \A n \in Names : n # s => names[n] # f
  BY <1>2, <1>4 DEF IInv, OneName, Early
<1>7. \A q \in Dumpers : pc[q] \in Early /\ q # p => f # q
  BY <1>4 DEF IInv, OneName
<1>8. names[s] = None \/ names[s] = f
  OBVIOUS
<1> HIDE DEF f
<1>9. /\ names'[s] = f /\ fd'[p] = f /\ sfx'[p] = s /\ pc'[p] = "write"
      /\ files'[f] = Empty
      /\ \A n \in Names : n # s => names'[n] = names[n]
      /\ \A q \in Proc : q # p => fd'[q] = fd[q] /\ pc'[q] = pc[q]
      /\ \A q \in Dumpers : q # p => sfx'[q] = sfx[q]
      /\ \A g \in Dumpers : g # f => files'[g] = files[g]
  BY <1>2, <1>3, <1>4, <1>5 DEF Types
<1>10. Types'
  BY <1>2, <1>3, <1>4, <1>5, ListAssumption DEF Types, Steps, Content, Cut, Empty
<1>11. \A q \in Dumpers : Running(q) => fd[q] \in Dumpers /\ names[sfx[q]] = fd[q]
                                      /\ sfx[q] \in Suffixes /\ sfx[q] # s /\ fd[q] # f
  BY <1>1, <1>6 DEF IInv, OwnTemp
<1>12. OwnTemp'
  BY <1>1, <1>4, <1>9, <1>11 DEF IInv, OwnTemp, Running
<1>13. OneName'
  BY <1>4, <1>6, <1>7, <1>9 DEF IInv, OneName, Early
<1>14. Complete'
  <2>1. ASSUME NEW q \in Dumpers, pc'[q] \in {"close", "rename"}
        PROVE  files'[fd'[q]] = Whole
    BY <1>9, <1>11, <2>1 DEF IInv, Complete, Running
  <2>2. ASSUME names'["final"] # None PROVE files'[names'["final"]] = Whole
    BY <1>3, <1>4, <1>6, <1>9, <2>2 DEF IInv, Complete, Types
  <2>3. QED
    BY <2>1, <2>2 DEF Complete
<1>15. Readers'
  <2>1. names'["final"] = names["final"]
    BY <1>4, <1>9
  <2>2. ASSUME NEW q \in Loaders, pc'[q] = "read"
        PROVE  /\ fd'[q] \in Dumpers /\ files'[fd'[q]] = Whole
               /\ \A t \in Suffixes : names'[t] # fd'[q]
               /\ pc'[fd'[q]] \notin Early
    <3>1. q # p /\ fd'[q] = fd[q] /\ pc[q] = "read"
      BY <1>9, <2>2, RolesAssumption
    <3>2. /\ fd[q] \in Dumpers /\ files[fd[q]] = Whole
          /\ \A t \in Suffixes : names[t] # fd[q] /\ pc[fd[q]] \notin Early
      BY <3>1 DEF IInv, Readers
    <3>3. fd[q] # f /\ fd[q] # p
      BY <1>2, <1>8, <3>2, NoneAssumption DEF Early, f
    <3>4. QED
      BY <1>9, <3>1, <3>2, <3>3 DEF Early
  <2>3. ASSUME NEW q \in Loaders
        PROVE  /\ pc'[q] \in {"read", "loaded"} => names'["final"] # None
               /\ pc'[q] = "loaded" => taken'[q] = ListLen
    BY <1>2, <1>9, <2>1, RolesAssumption DEF IInv, Readers
  <2>4. QED
    BY <2>2, <2>3 DEF Readers, Early
<1>16. Dumped'
  BY <1>4, <1>9 DEF IInv, Dumped
<1>17. QED
  BY <1>10, <1>12, <1>13, <1>14, <1>15, <1>16 DEF IInv

\* Writing, or the end of it, concerns one file, which has a temporary name.
LEMMA WriteInv ==
    ASSUME IInv, NEW p \in Dumpers, pc[p] = "write",
           NEW c \in Content, NEW l \in {"write", "close"}, l = "close" => c = Whole,
           files' = [files EXCEPT ![fd[p]] = c], pc' = [pc EXCEPT ![p] = l],
           UNCHANGED <<dir, names, fd, sfx, taken>>
    PROVE  IInv'
<1>1. /\ Types /\ fd[p] \in Dumpers /\ names[sfx[p]] = fd[p] /\ sfx[p] \in Suffixes
      /\ fd[p] # None
  BY NoneAssumption DEF IInv, OwnTemp, Running
<1>2. /\ pc'[p] = l /\ \A q \in Proc : q # p => pc'[q] = pc[q]
      /\ files'[fd[p]] = c
      /\ \A g \in Dumpers : g # fd[p] => files'[g] = files[g]
  BY <1>1 DEF Types
<1>3. Types'
  BY <1>1 DEF Types, Steps, Dead
<1>4. OwnTemp'
  BY <1>2 DEF IInv, OwnTemp, Running
<1>5. OneName'
  BY <1>2 DEF IInv, OneName, Early
<1>6. names["final"] # fd[p]
  BY <1>1, NamesAssumption DEF IInv, OneName
<1>7. Complete'
  <2>1. ASSUME NEW q \in Dumpers, pc'[q] \in {"close", "rename"}
        PROVE  files'[fd'[q]] = Whole
    <3>1. CASE q = p
      BY <1>2, <2>1, <3>1
    <3>2. CASE q # p
      <4>1. /\ pc[q] \in {"close", "rename"} /\ files[fd[q]] = Whole
            /\ fd[q] \in Dumpers /\ names[sfx[q]] = fd[q] /\ sfx[q] \in Suffixes
            /\ sfx[q] # sfx[p]
        BY <1>2, <2>1, <3>2 DEF IInv, Complete, OwnTemp, Running
      <4>2. fd[q] # fd[p]
        BY <1>1, <4>1 DEF IInv, OneName
      <4>3. QED
        BY <1>2, <4>1, <4>2
    <3>3. QED
      BY <3>1, <3>2
  <2>2. names'["final"] # None => files'[names'["final"]] = Whole
    BY <1>1, <1>2, <1>6 DEF IInv, Complete, Types
  <2>3. QED
    BY <2>1, <2>2 DEF Complete
<1>8. Readers'
  <2>1. ASSUME NEW q \in Loaders
        PROVE  pc'[q] = pc[q] /\ fd'[q] = fd[q] /\ taken'[q] = taken[q]
    BY <1>2, RolesAssumption
  <2>2. ASSUME NEW q \in Loaders, pc[q] = "read"
        PROVE  fd[q] # fd[p] /\ fd[q] \in Dumpers /\ pc'[fd[q]] \notin Early
               /\ files'[fd[q]] = Whole
    BY <1>1, <1>2, <2>2 DEF IInv, Readers, Early
  <2>3. QED
    BY <2>1, <2>2 DEF IInv, Readers
<1>9. Dumped'
  BY <1>2 DEF IInv, Dumped
<1>10. QED
  BY <1>3, <1>4, <1>5, <1>7, <1>8, <1>9 DEF IInv

\* Closing loses nothing, as assumed.
LEMMA CloseInv ==
    ASSUME IInv, ~CloseMayFail, NEW p \in Dumpers, CloseTemp(p)
    PROVE  IInv'
<1>1. /\ pc[p] = "close" /\ pc' = [pc EXCEPT ![p] = "rename"]
      /\ UNCHANGED <<dir, names, files, fd, sfx, taken>>
  BY DEF CloseTemp, Goto
<1>2. /\ Types /\ pc'[p] = "rename" /\ \A q \in Proc : q # p => pc'[q] = pc[q]
  BY <1>1 DEF IInv, Types
<1>3. Types'
  BY <1>1, <1>2 DEF Types, Steps, Dead
<1>4. OwnTemp'
  BY <1>1, <1>2 DEF IInv, OwnTemp, Running
<1>5. OneName' /\ Complete'
  BY <1>1, <1>2 DEF IInv, OneName, Complete, Early
<1>6. Readers' /\ Dumped'
  BY <1>1, <1>2 DEF IInv, Readers, Dumped, Early
<1>7. QED
  BY <1>3, <1>4, <1>5, <1>6 DEF IInv

\* Removing the temporary file takes away one name, and never "final".
LEMMA RemoveInv ==
    ASSUME IInv, NEW p \in Dumpers, Running(p),
           names' = [names EXCEPT ![sfx[p]] = None], pc' = [pc EXCEPT ![p] = "threw"],
           UNCHANGED <<dir, files, fd, sfx, taken>>
    PROVE  IInv'
<1>1. Types /\ sfx[p] \in Suffixes /\ sfx[p] # "final"
  BY NamesAssumption DEF IInv, OwnTemp
<1>2. /\ pc'[p] = "threw" /\ \A q \in Proc : q # p => pc'[q] = pc[q]
      /\ names'[sfx[p]] = None
      /\ \A n \in Names : n # sfx[p] => names'[n] = names[n]
  BY <1>1 DEF Types
<1>3. Types'
  BY <1>1 DEF Types, Steps, Dead
<1>4. OwnTemp'
  BY <1>2 DEF IInv, OwnTemp, Running
<1>5. OneName'
  BY <1>2, NoneAssumption DEF IInv, OneName, Early
<1>6. Complete'
  BY <1>1, <1>2 DEF IInv, Complete
<1>7. Readers'
  <2>1. names'["final"] = names["final"]
    BY <1>1, <1>2
  <2>2. ASSUME NEW q \in Loaders PROVE pc'[q] = pc[q]
    BY <1>2, RolesAssumption DEF Running
  <2>3. ASSUME NEW q \in Loaders, pc[q] = "read"
        PROVE  /\ \A s \in Suffixes : names'[s] # fd[q]
               /\ pc'[fd[q]] \notin Early
    BY <1>2, <2>3, NoneAssumption DEF IInv, Readers, Early
  <2>4. QED
    BY <2>1, <2>2, <2>3 DEF IInv, Readers
<1>8. Dumped'
  BY <1>1, <1>2 DEF IInv, Dumped
<1>9. QED
  BY <1>3, <1>4, <1>5, <1>6, <1>7, <1>8 DEF IInv

\* The rename publishes a whole file and gives up its only other name.
LEMMA RenameInv ==
    ASSUME IInv, NEW p \in Dumpers, RenameTemp(p)
    PROVE  IInv'
<1>1. /\ pc[p] = "rename" /\ pc' = [pc EXCEPT ![p] = "dumped"]
      /\ names' = [names EXCEPT !["final"] = names[sfx[p]], ![sfx[p]] = None]
      /\ UNCHANGED <<dir, files, fd, sfx, taken>>
  BY DEF RenameTemp, Goto
<1>2. /\ Types /\ sfx[p] \in Suffixes /\ sfx[p] # "final"
      /\ fd[p] \in Dumpers /\ fd[p] # None /\ names[sfx[p]] = fd[p]
      /\ files[fd[p]] = Whole
  BY <1>1, NamesAssumption, NoneAssumption DEF IInv, OwnTemp, Complete, Running
<1>3. /\ pc'[p] = "dumped" /\ \A q \in Proc : q # p => pc'[q] = pc[q]
      /\ names'["final"] = fd[p] /\ names'[sfx[p]] = None
      /\ \A s \in Suffixes : s # sfx[p] => names'[s] = names[s]
  BY <1>1, <1>2, NamesAssumption DEF Types
<1>4. Types'
  BY <1>1, <1>2 DEF Types, Steps, Dead
<1>5. OwnTemp'
  <2>1. ASSUME NEW q \in Dumpers, Running(q)'
        PROVE  /\ q # p /\ Running(q) /\ sfx' = sfx /\ fd' = fd
               /\ names'[sfx[q]] = names[sfx[q]] /\ sfx[q] \in Suffixes
    <3>1. q # p /\ Running(q) /\ sfx' = sfx /\ fd' = fd
      BY <1>1, <1>3, <2>1 DEF Running
    <3>2. sfx[q] \in Suffixes /\ sfx[q] # sfx[p]
      BY <1>1, <3>1 DEF IInv, OwnTemp, Running
    <3>3. QED
      BY <1>3, <3>1, <3>2
  <2>2. QED
    BY <2>1 DEF IInv, OwnTemp
<1>6. OneName'
  <2>1. \A s \in Suffixes : s # sfx[p] => names[s] # fd[p]
    BY <1>2 DEF IInv, OneName
  <2>2. ASSUME NEW m \in Names, NEW n \in Names, m # n, names'[m] # None
        PROVE  names'[m] # names'[n]
    BY <1>2, <1>3, <2>1, <2>2 DEF IInv, OneName
  <2>3. ASSUME NEW q \in Dumpers, pc'[q] \in Early, NEW n \in Names
        PROVE  names'[n] # q
    <3>1. q # p /\ pc[q] \in Early
      BY <1>3, <2>3 DEF Early
    <3>2. \A m \in Names : names[m] # q
      BY <3>1 DEF IInv, OneName
    <3>3. fd[p] # q /\ q # None
      BY <1>2, <3>2, NoneAssumption
    <3>4. QED
      BY <1>3, <3>2, <3>3
  <2>4. QED
    BY <2>2, <2>3 DEF OneName
<1>7. Complete'
  BY <1>1, <1>2, <1>3 DEF IInv, Complete
<1>8. Readers'
  <2>1. ASSUME NEW q \in Loaders PROVE pc'[q] = pc[q]
    BY <1>3, RolesAssumption
  <2>2. ASSUME NEW q \in Loaders, pc[q] = "read"
        PROVE  /\ \A s \in Suffixes : names'[s] # fd[q]
               /\ pc'[fd[q]] \notin Early
    BY <1>2, <1>3, <2>2, NoneAssumption DEF IInv, Readers, Early
  <2>3. names'["final"] # None /\ files' = files /\ fd' = fd /\ taken' = taken
    BY <1>1, <1>2, <1>3
  <2>4. QED
    BY <2>1, <2>2, <2>3 DEF IInv, Readers
<1>9. Dumped'
  BY <1>2, <1>3 DEF Dumped
<1>10. QED
  BY <1>4, <1>5, <1>6, <1>7, <1>8, <1>9 DEF IInv

\* A loader opens what is published, and keeps it whatever happens to the name.
LEMMA OpenListInv ==
    ASSUME IInv, NEW p \in Loaders, OpenList(p)
    PROVE  IInv'
<1>1. /\ pc[p] = "idle"
      /\ UNCHANGED <<dir, names, files, sfx, taken>>
      /\ fd' = [fd EXCEPT ![p] = IF dir THEN names["final"] ELSE None]
      /\ pc' = [pc EXCEPT ![p] = IF ~dir THEN "threw"
                                 ELSE IF names["final"] = None THEN "absent" ELSE "read"]
  BY DEF OpenList, Goto
<1>2. /\ Types /\ p \notin Dumpers
      /\ \A q \in Proc : q # p => pc'[q] = pc[q] /\ fd'[q] = fd[q]
      /\ pc'[p] \in {"threw", "absent", "read"}
      /\ pc'[p] = "read" => names["final"] # None /\ fd'[p] = names["final"]
  BY <1>1, RolesAssumption DEF IInv, Types
<1>3. Types'
  BY <1>1, <1>2 DEF Types, Steps, Dead
<1>4. OwnTemp'
  BY <1>1, <1>2 DEF IInv, OwnTemp, Running
<1>5. OneName' /\ Complete' /\ Dumped'
  BY <1>1, <1>2 DEF IInv, OneName, Complete, Dumped, Early
<1>6. Readers'
  <2>1. ASSUME pc'[p] = "read"
        PROVE  /\ fd'[p] \in Dumpers /\ files[fd'[p]] = Whole
               /\ \A s \in Suffixes : names[s] # fd'[p]
               /\ pc'[fd'[p]] \notin Early
    <3>1. /\ names["final"] # None /\ fd'[p] = names["final"] /\ fd'[p] \in Dumpers
      BY <1>2, <2>1 DEF Types
    <3>2. files[fd'[p]] = Whole /\ \A s \in Suffixes : names[s] # fd'[p]
      BY <3>1, NamesAssumption DEF IInv, Complete, OneName
    <3>3. pc[fd'[p]] \notin Early /\ fd'[p] # p
      BY <1>2, <3>1 DEF IInv, OneName
    <3>4. QED
      BY <1>2, <3>1, <3>2, <3>3
  <2>2. ASSUME NEW q \in Loaders, q # p, pc[q] = "read"
        PROVE  pc'[fd[q]] = pc[fd[q]]
    BY <1>2, <2>2 DEF IInv, Readers
  <2>3. QED
    BY <1>1, <1>2, <2>1, <2>2 DEF IInv, Readers
<1>7. QED
  BY <1>3, <1>4, <1>5, <1>6 DEF IInv

\* A loader takes lines, and stops at the end of a whole file.
LEMMA ReadInv ==
    ASSUME IInv, NEW p \in Loaders, ReadLine(p) \/ ReadEnd(p)
    PROVE  /\ IInv'
           /\ pc' = pc \/ (pc' = [pc EXCEPT ![p] = "loaded"] /\ taken'[p] = ListLen)
<1>1. /\ pc[p] = "read" /\ fd[p] \in Dumpers /\ files[fd[p]] = Whole
      /\ names["final"] # None /\ Types /\ p \notin Dumpers
  BY RolesAssumption DEF ReadLine, ReadEnd, IInv, Readers
<1>2. files[fd[p]].lines = ListLen /\ files[fd[p]].tail = "none" /\ taken[p] \in 0 .. ListLen
  BY <1>1 DEF Whole, Types
<1>3. UNCHANGED <<dir, names, files, fd, sfx>>
  BY DEF ReadLine, ReadEnd
<1>4. CASE ReadLine(p)
  <2>1. pc' = pc /\ taken[p] < ListLen /\ taken' = [taken EXCEPT ![p] = taken[p] + 1]
    BY <1>2, <1>4 DEF ReadLine
  <2>2. taken' \in [Loaders -> 0 .. ListLen] /\ \A q \in Loaders : q # p => taken'[q] = taken[q]
    BY <1>1, <1>2, <2>1, ListAssumption DEF Types
  <2>3. Types'
    BY <1>1, <1>3, <2>1, <2>2 DEF Types
  <2>4. OwnTemp' /\ OneName' /\ Complete' /\ Dumped'
    BY <1>3, <2>1 DEF IInv, OwnTemp, OneName, Complete, Dumped, Running
  <2>5. Readers'
    BY <1>1, <1>3, <2>1, <2>2 DEF IInv, Readers
  <2>6. QED
    BY <2>1, <2>3, <2>4, <2>5 DEF IInv
<1>5. CASE ReadEnd(p)
  <2>1. /\ pc' = [pc EXCEPT ![p] = "loaded"] /\ taken[p] >= ListLen
        /\ taken' = [taken EXCEPT ![p] = taken[p]]
    BY <1>2, <1>5 DEF ReadEnd, Goto
  <2>2. taken[p] = ListLen /\ taken' = taken
    BY <1>1, <1>2, <2>1, ListAssumption DEF Types
  <2>3. pc'[p] = "loaded" /\ \A q \in Proc : q # p => pc'[q] = pc[q]
    BY <1>1, <2>1 DEF Types
  <2>4. Types'
    BY <1>1, <1>3, <2>1, <2>2 DEF Types, Steps, Dead
  <2>5. OwnTemp' /\ OneName' /\ Complete' /\ Dumped'
    BY <1>1, <1>3, <2>3 DEF IInv, OwnTemp, OneName, Complete, Dumped, Running, Early
  <2>6. Readers'
    BY <1>1, <1>3, <2>2, <2>3 DEF IInv, Readers
  <2>7. QED
    BY <2>1, <2>2, <2>4, <2>5, <2>6 DEF IInv
<1>6. QED
  BY <1>4, <1>5

\* The two assumptions on the world around the program.
World == SuffixesDistinct /\ ~CloseMayFail

\* Every step of a dumper, a loader or a crash preserves the invariant.
LEMMA NextInv == IInv /\ World /\ [Next]_vars => IInv'
<1> SUFFICES ASSUME IInv, World, [Next]_vars PROVE IInv'
  OBVIOUS
<1> USE DEF World
<1>1. ASSUME NEW p \in Dumpers,
             \/ DirThere(p) \/ DirMissing(p) \/ MakeDir(p) \/ MakeDirFails(p)
             \/ CheckExists(p) \/ OpenTempFails(p)
      PROVE  IInv'
  <2>1. PICK l \in {"list", "mkdir", "refused", "dumped", "create", "threw"} :
           /\ pc' = [pc EXCEPT ![p] = l]
           /\ l = "dumped" => names["final"] # None
    BY <1>1 DEF DirThere, DirMissing, MakeDir, MakeDirFails, CheckExists, OpenTempFails, Goto
  <2>2. /\ pc[p] \in Early /\ dir' \in BOOLEAN
        /\ UNCHANGED <<names, files, fd, sfx, taken>>
    BY <1>1 DEF DirThere, DirMissing, MakeDir, MakeDirFails, CheckExists, OpenTempFails, Early, IInv, Types
  <2>3. l \in Steps
    BY DEF Steps, Dead
  <2>4. QED
    BY <2>1, <2>2, <2>3, QuietInv
<1>2. ASSUME NEW p \in Proc, Crash(p) PROVE IInv'
  <2>1. "crashed" \in Steps /\ "crashed" \notin Early /\ dir \in BOOLEAN
    BY DEF Steps, Dead, Early, IInv, Types
  <2>2. QED
    BY <1>2, <2>1, QuietInv DEF Crash, Goto
<1>3. ASSUME NEW p \in Dumpers, WriteSome(p) PROVE IInv'
  <2>1. PICK c \in Cut : files' = [files EXCEPT ![fd[p]] = c]
    BY <1>3 DEF WriteSome
  <2>2. pc[p] = "write" /\ UNCHANGED <<dir, names, pc, fd, sfx, taken>> /\ c \in Content
    BY <1>3 DEF WriteSome, Content
  <2>3. pc' = [pc EXCEPT ![p] = "write"]
    BY <2>2 DEF IInv, Types
  <2>4. QED
    BY <2>1, <2>2, <2>3, WriteInv
<1>4. ASSUME NEW p \in Dumpers, WriteAll(p) PROVE IInv'
  BY <1>4, WriteInv DEF WriteAll, Goto, Content
<1>5. ASSUME NEW p \in Dumpers, WriteFails(p) \/ RenameFails(p) PROVE IInv'
  BY <1>5, RemoveInv DEF WriteFails, RenameFails, Goto, Running
<1>6. ASSUME NEW p \in Dumpers, Dump(p) PROVE IInv'
  BY <1>1, <1>3, <1>4, <1>5, <1>6, OpenTempInv, CloseInv, RenameInv DEF Dump
<1>7. ASSUME NEW p \in Loaders, Load(p) PROVE IInv'
  BY <1>7, OpenListInv, ReadInv DEF Load
<1>8. CASE UNCHANGED vars
  BY <1>8 DEF vars, IInv, Types, OwnTemp, OneName, Complete, Readers, Dumped, Running
<1>9. QED
  BY <1>2, <1>6, <1>7, <1>8 DEF Next, AllDone

\* The inductive invariant holds whatever the processes do (Sensors.C:193-307).
THEOREM Invariance == World => (Spec => []IInv)
<1> SUFFICES ASSUME World PROVE Spec => []IInv
  OBVIOUS
<1>1. IInv /\ [Next]_vars => IInv'
  BY NextInv
<1>2. QED
  BY <1>1, InitInv, PTL DEF Spec

-----------------------------------------------------------------------------
(* What follows *)

\* Whatever number of processes dump, load, fail and die, the .cac name never
\* stands for a list cut short.
THEOREM NameIsWhole == World => (Spec => []PublishedIsWhole)
<1>1. IInv => PublishedIsWhole
  BY DEF IInv, Complete, PublishedIsWhole
<1>2. QED
  BY <1>1, Invariance, PTL

\* A dump that reports success leaves a list behind.
THEOREM SuccessIsPublished == World => (Spec => []DumpedMeansPublished)
<1>1. IInv => DumpedMeansPublished
  BY DEF IInv, Dumped, DumpedMeansPublished
<1>2. QED
  BY <1>1, Invariance, PTL

\* The types hold, the number of lines a loader has taken included: no list
\* shrinks under its reader (Sensors.C:193-307).
THEOREM TypesHold == World => (Spec => []TypeOK)
<1>1. IInv => TypeOK
  BY DEF IInv, Types, TypeOK
<1>2. QED
  BY <1>1, Invariance, PTL

\* What is published depends on the name alone: nothing, or the whole list.
LEMMA PublishedFacts ==
    ASSUME IInv
    PROVE  Published = IF names["final"] = None THEN NoList ELSE Whole
BY DEF IInv, Complete, Published

\* Only a rename changes what the name "final" stands for.
LEMMA FinalStays ==
    ASSUME IInv, Next
    PROVE  \/ UNCHANGED <<names["final"], Got>>
           \/ names'["final"] # None /\ UNCHANGED Got
           \/ UNCHANGED names["final"] /\ \E p \in Loaders : OpenList(p) \/ ReadEnd(p)
<1>1. Types
  BY DEF IInv
<1>2. ASSUME NEW p \in Proc, NEW l, pc' = [pc EXCEPT ![p] = l],
             p \in Dumpers \/ (pc[p] \notin Dead /\ l = "crashed"),
             UNCHANGED taken
      PROVE  UNCHANGED Got
  BY <1>1, <1>2, RolesAssumption DEF Got, Dead, Types
<1>3. ASSUME NEW p \in Proc, Crash(p) PROVE UNCHANGED <<names["final"], Got>>
  BY <1>2, <1>3 DEF Crash, Goto
<1>4. ASSUME NEW p \in Dumpers, Dump(p) PROVE UNCHANGED Got
  <2>1. UNCHANGED taken /\ (UNCHANGED pc \/ \E l : pc' = [pc EXCEPT ![p] = l])
    BY <1>4 DEF Dump, DirThere, DirMissing, MakeDir, MakeDirFails, CheckExists, OpenTemp, OpenTempFails,
                WriteSome, WriteAll, WriteFails, CloseTemp, RenameTemp, RenameFails, Goto
  <2>2. CASE UNCHANGED pc
    BY <2>1, <2>2 DEF Got
  <2>3. CASE \E l : pc' = [pc EXCEPT ![p] = l]
    BY <1>2, <2>1, <2>3
  <2>4. QED
    BY <2>1, <2>2, <2>3
<1>5. ASSUME NEW p \in Dumpers, Dump(p)
      PROVE  UNCHANGED names["final"] \/ names'["final"] # None
  <2>1. CASE OpenTemp(p)
    BY <1>1, <2>1, NamesAssumption DEF OpenTemp, Types
  <2>2. CASE WriteFails(p) \/ RenameFails(p)
    <3>1. sfx[p] \in Suffixes /\ names' = [names EXCEPT ![sfx[p]] = None]
      BY <2>2 DEF WriteFails, RenameFails, IInv, OwnTemp, Running
    <3>2. QED
      BY <1>1, <3>1, NamesAssumption DEF Types
  <2>3. CASE RenameTemp(p)
    <3>1. /\ sfx[p] \in Suffixes /\ names[sfx[p]] # None
          /\ names' = [names EXCEPT !["final"] = names[sfx[p]], ![sfx[p]] = None]
      BY <2>3 DEF RenameTemp, IInv, OwnTemp, Running
    <3>2. QED
      BY <1>1, <3>1, NamesAssumption DEF Types
  <2>4. CASE UNCHANGED names
    BY <2>4
  <2>5. QED
    BY <1>5, <2>1, <2>2, <2>3, <2>4
    DEF Dump, DirThere, DirMissing, MakeDir, MakeDirFails, CheckExists, OpenTempFails,
        WriteSome, WriteAll, CloseTemp
<1>6. ASSUME NEW p \in Loaders, ReadLine(p) PROVE UNCHANGED <<names["final"], Got>>
  <2>1. UNCHANGED <<pc, names>> /\ pc[p] = "read" /\ taken' = [taken EXCEPT ![p] = @ + 1]
    BY <1>6 DEF ReadLine
  <2>2. \A q \in Loaders : pc[q] = "loaded" => taken'[q] = taken[q]
    BY <1>1, <2>1 DEF Types
  <2>3. QED
    BY <2>1, <2>2 DEF Got
<1>7. ASSUME NEW p \in Loaders, OpenList(p) \/ ReadEnd(p) PROVE UNCHANGED names["final"]
  BY <1>7 DEF OpenList, ReadEnd
<1>8. CASE AllDone
  BY <1>8 DEF AllDone, vars, Got
<1>9. QED
  BY <1>3, <1>4, <1>5, <1>6, <1>7, <1>8 DEF Next, Load

\* A loader's last step gives it what is published at that moment.
LEMMA LoaderGets ==
    ASSUME IInv, NEW p \in Loaders, OpenList(p) \/ ReadEnd(p)
    PROVE  UNCHANGED Got \/ (Got[p] = Unread /\ Got' = [Got EXCEPT ![p] = Published])
<1>1. Types /\ p \in Proc
  BY DEF IInv
<1>2. CASE OpenList(p)
  <2>1. /\ pc[p] = "idle" /\ taken' = taken
        /\ pc' = [pc EXCEPT ![p] = IF ~dir THEN "threw"
                                   ELSE IF names["final"] = None THEN "absent" ELSE "read"]
    BY <1>2 DEF OpenList, Goto
  <2>2. Got[p] = Unread /\ \A q \in Proc : q # p => pc'[q] = pc[q]
    BY <1>1, <2>1 DEF Got, Types
  <2>3. CASE pc'[p] = "absent"
    <3>1. Published = NoList
      BY <1>1, <2>1, <2>3 DEF Published, Types
    <3>2. Got' = [Got EXCEPT ![p] = NoList]
      BY <2>1, <2>2, <2>3 DEF Got
    <3>3. QED
      BY <2>2, <3>1, <3>2
  <2>4. CASE pc'[p] # "absent"
    <3>1. pc'[p] \in {"threw", "read"}
      BY <1>1, <2>1, <2>4 DEF Types
    <3>2. QED
      BY <2>1, <2>2, <3>1 DEF Got
  <2>5. QED
    BY <2>3, <2>4
<1>3. CASE ReadEnd(p)
  <2>1. pc[p] = "read" /\ names["final"] # None /\ files[fd[p]] = Whole
    BY <1>3 DEF ReadEnd, IInv, Readers
  <2>2. Published = Whole /\ Got[p] = Unread
    BY <2>1, PublishedFacts DEF Got
  <2>3. pc' = [pc EXCEPT ![p] = "loaded"] /\ taken' = [taken EXCEPT ![p] = taken[p]]
    BY <1>3, <2>1 DEF ReadEnd, Goto, Whole
  <2>4. taken'[p] = ListLen /\ taken' = taken
    <3>1. pc' # pc
      BY <1>1, <2>1, <2>3 DEF Types
    <3>2. QED
      BY <1>1, <1>3, <2>3, <3>1, ReadInv DEF Types
  <2>5. pc'[p] = "loaded" /\ \A q \in Proc : q # p => pc'[q] = pc[q]
    BY <1>1, <2>3 DEF Types
  <2>6. Got' = [Got EXCEPT ![p] = Whole]
    BY <2>4, <2>5 DEF Got, Whole
  <2>7. QED
    BY <2>2, <2>6
<1>4. QED
  BY <1>2, <1>3

\* The cache of one sensor_list_crc implements the store: a list is published
\* once and whole, and a loader gets all of it or learns that there is none.
THEOREM Refinement == World => (Spec => StoreSpec)
<1> SUFFICES ASSUME World PROVE Spec => StoreSpec
  OBVIOUS
<1>1. Init => Store!Init
  <2> SUFFICES ASSUME Init PROVE Store!Init
    OBVIOUS
  <2>1. Published = NoList
    BY DEF Init, Published
  <2>2. Got = [p \in Loaders |-> Unread]
    BY DEF Init, Got
  <2>3. QED
    BY <2>1, <2>2 DEF Store!Init
<1>2. IInv /\ IInv' /\ [Next]_vars => [Store!Next]_<<Published, Got>>
  <2> SUFFICES ASSUME IInv, IInv', [Next]_vars
               PROVE  Store!Next \/ UNCHANGED <<Published, Got>>
    OBVIOUS
  <2>1. Published = IF names["final"] = None THEN NoList ELSE Whole
    BY PublishedFacts
  <2>2. Published' = IF names'["final"] = None THEN NoList ELSE Whole
    BY DEF IInv, Complete, Published
  <2>3. CASE UNCHANGED <<names["final"], Got>>
    BY <2>1, <2>2, <2>3
  <2>4. CASE names'["final"] # None /\ UNCHANGED Got
    BY <2>2, <2>4 DEF Store!Next, Store!Publish
  <2>5. ASSUME UNCHANGED names["final"], NEW p \in Loaders, OpenList(p) \/ ReadEnd(p)
        PROVE  Store!Next \/ UNCHANGED <<Published, Got>>
    <3>1. Published' = Published
      BY <2>1, <2>2, <2>5
    <3>2. CASE UNCHANGED Got
      BY <3>1, <3>2
    <3>3. CASE Got[p] = Unread /\ Got' = [Got EXCEPT ![p] = Published]
      BY <3>1, <3>3 DEF Store!Next, Store!Load
    <3>4. QED
      BY <2>5, <3>2, <3>3, LoaderGets
  <2>6. CASE UNCHANGED vars
    BY <2>6 DEF vars, Published, Got
  <2>7. QED
    BY <2>3, <2>4, <2>5, <2>6, FinalStays
<1>3. Spec => []IInv
  BY Invariance
<1>4. QED
  BY <1>1, <1>2, <1>3, PTL DEF Spec, StoreSpec, Store!Spec

-----------------------------------------------------------------------------
(* Temporary files, whatever the world does *)

\* The names and who owns them, whatever the suffixes drawn and whether close
\* may fail.
OwnerInv ==
    /\ names \in [Names -> Dumpers \cup {None}]
    /\ pc \in [Proc -> Steps]
    /\ sfx \in [Dumpers -> Suffixes \cup {None}]
    /\ \A p \in Dumpers : Running(p) => sfx[p] \in Suffixes
    /\ TempsAreOwned

Owner(p, s) == sfx[p] = s /\ (Running(p) \/ pc[p] = "crashed")

\* A step that moves no name, and after which a process that had one is still
\* running or crashed.
LEMMA QuietOwners ==
    ASSUME OwnerInv, NEW p \in Proc, NEW l \in Steps,
           pc' = [pc EXCEPT ![p] = l], UNCHANGED <<names, sfx>>,
           l \in {"write", "close", "rename"} => pc[p] \in {"write", "close", "rename"},
           pc[p] \in {"write", "close", "rename", "crashed"} => l \in {"write", "close", "rename", "crashed"}
    PROVE  OwnerInv'
<1>1. pc' \in [Proc -> Steps] /\ pc'[p] = l /\ \A q \in Proc : q # p => pc'[q] = pc[q]
  BY DEF OwnerInv
<1>2. \A q \in Dumpers : Running(q)' => Running(q)
  BY <1>1 DEF Running
<1>3. \A q \in Dumpers : \A s : Owner(q, s) => Owner(q, s)'
  BY <1>1 DEF Owner, Running
<1>4. TempsAreOwned'
  BY <1>3 DEF OwnerInv, TempsAreOwned, Owner
<1>5. QED
  BY <1>1, <1>2, <1>4 DEF OwnerInv

\* The dumper that opens a temporary file owns its name.
LEMMA OpenTempOwners == ASSUME OwnerInv, NEW p \in Dumpers, OpenTemp(p) PROVE OwnerInv'
<1>1. PICK s \in Suffixes, f \in Dumpers :
        names' = [names EXCEPT ![s] = f] /\ sfx' = [sfx EXCEPT ![p] = s]
  <2>1. PICK s \in Suffixes :
          /\ LET f == IF names[s] = None THEN p ELSE names[s]
             IN  names' = [names EXCEPT ![s] = f]
          /\ sfx' = [sfx EXCEPT ![p] = s]
    BY DEF OpenTemp
  <2>2. (IF names[s] = None THEN p ELSE names[s]) \in Dumpers
    BY DEF OwnerInv
  <2>3. QED
    BY <2>1, <2>2
<1>2. pc[p] = "create" /\ pc' = [pc EXCEPT ![p] = "write"]
  BY DEF OpenTemp, Goto
<1>3. /\ names' \in [Names -> Dumpers \cup {None}] /\ sfx' \in [Dumpers -> Suffixes \cup {None}]
      /\ pc' \in [Proc -> Steps]
      /\ pc'[p] = "write" /\ sfx'[p] = s
      /\ \A q \in Dumpers : q # p => pc'[q] = pc[q] /\ sfx'[q] = sfx[q]
      /\ \A t \in Suffixes : t # s => names'[t] = names[t]
  BY <1>1, <1>2 DEF OwnerInv, Steps
<1>4. \A q \in Dumpers : Running(q)' => sfx'[q] \in Suffixes
  BY <1>3 DEF OwnerInv, Running
<1>5. Owner(p, s)'
  BY <1>3 DEF Owner, Running
<1>6. \A q \in Dumpers : \A t : Owner(q, t) => q # p
  BY <1>2 DEF Owner, Running
<1>7. \A q \in Dumpers : \A t : Owner(q, t) => Owner(q, t)'
  BY <1>3, <1>6 DEF Owner, Running
<1>8. TempsAreOwned'
  BY <1>3, <1>5, <1>7 DEF OwnerInv, TempsAreOwned, Owner
<1>9. QED
  BY <1>3, <1>4, <1>8 DEF OwnerInv

\* A dumper that ends gives its name up: by a rename, or by removing it.
LEMMA EndOwners ==
    ASSUME OwnerInv, NEW p \in Dumpers, WriteFails(p) \/ RenameTemp(p) \/ RenameFails(p)
    PROVE  OwnerInv'
<1>1. PICK l \in {"threw", "dumped"} : pc' = [pc EXCEPT ![p] = l]
  BY DEF WriteFails, RenameTemp, RenameFails, Goto
<1>2. Running(p) /\ sfx' = sfx
  BY DEF WriteFails, RenameTemp, RenameFails, Running
<1>3. PICK s \in Suffixes : s = sfx[p]
  BY <1>2 DEF OwnerInv
<1>4. /\ names' \in [Names -> Dumpers \cup {None}] /\ names'[s] = None
      /\ \A t \in Suffixes : t # s => names'[t] = names[t]
  <2>1. s # "final" /\ names[s] \in Dumpers \cup {None}
    BY NamesAssumption DEF OwnerInv
  <2>2. CASE names' = [names EXCEPT ![s] = None]
    BY <2>1, <2>2 DEF OwnerInv
  <2>3. CASE names' = [names EXCEPT !["final"] = names[s], ![s] = None]
    <3>1. \A t \in Suffixes : t # "final"
      BY NamesAssumption
    <3>2. QED
      BY <2>1, <2>3, <3>1 DEF OwnerInv
  <2>4. QED
    BY <1>3, <2>2, <2>3 DEF WriteFails, RenameTemp, RenameFails
<1>5. /\ pc' \in [Proc -> Steps] /\ ~Running(p)'
      /\ \A q \in Dumpers : q # p => pc'[q] = pc[q]
  BY <1>1 DEF OwnerInv, Steps, Dead, Running
<1>6. \A q \in Dumpers : Running(q)' => sfx'[q] \in Suffixes
  BY <1>2, <1>5 DEF OwnerInv, Running
<1>7. \A q \in Dumpers : \A t : Owner(q, t) /\ t # s => Owner(q, t)'
  BY <1>2, <1>3, <1>5 DEF Owner, Running
<1>8. TempsAreOwned'
  BY <1>4, <1>7 DEF OwnerInv, TempsAreOwned, Owner
<1>9. QED
  BY <1>2, <1>4, <1>5, <1>6, <1>8 DEF OwnerInv

LEMMA NextOwners == OwnerInv /\ [Next]_vars => OwnerInv'
<1> SUFFICES ASSUME OwnerInv, [Next]_vars PROVE OwnerInv'
  OBVIOUS
<1> USE DEF Goto, Dead, Steps
<1>1. CASE \E p \in Dumpers : DirThere(p) \/ DirMissing(p) \/ MakeDir(p) \/ MakeDirFails(p) \/ CheckExists(p) \/ OpenTempFails(p)
  <2>1. PICK p \in Dumpers : DirThere(p) \/ DirMissing(p) \/ MakeDir(p) \/ MakeDirFails(p) \/ CheckExists(p) \/ OpenTempFails(p)
    BY <1>1
  <2>2. PICK l \in {"list", "mkdir", "refused", "dumped", "create", "threw"} :
          pc' = [pc EXCEPT ![p] = l] /\ names' = names /\ sfx' = sfx
          /\ pc[p] \in {"idle", "mkdir", "list", "create"}
    BY <2>1 DEF DirThere, DirMissing, MakeDir, MakeDirFails, CheckExists, OpenTempFails
  <2>3. p \in Proc /\ l \in Steps
    OBVIOUS
  <2>4. QED
    BY <2>2, <2>3, QuietOwners
<1>2. CASE \E p \in Dumpers : WriteSome(p)
  BY <1>2 DEF WriteSome, OwnerInv, TempsAreOwned, Running
<1>3. CASE \E p \in Dumpers : WriteAll(p) \/ CloseTemp(p)
  <2>1. PICK p \in Dumpers : WriteAll(p) \/ CloseTemp(p)
    BY <1>3
  <2>2. PICK l \in {"close", "rename"} :
          pc' = [pc EXCEPT ![p] = l] /\ names' = names /\ sfx' = sfx
          /\ pc[p] \in {"write", "close"}
    BY <2>1 DEF WriteAll, CloseTemp
  <2>3. p \in Proc /\ l \in Steps
    OBVIOUS
  <2>4. QED
    BY <2>2, <2>3, QuietOwners
<1>4. CASE \E p \in Dumpers : OpenTemp(p)
  BY <1>4, OpenTempOwners
<1>5. CASE \E p \in Dumpers : WriteFails(p) \/ RenameTemp(p) \/ RenameFails(p)
  BY <1>5, EndOwners
<1>6. CASE \E p \in Loaders : Load(p)
  <2>1. PICK p \in Loaders : Load(p)
    BY <1>6
  <2>2. p \in Proc /\ p \notin Dumpers
    BY RolesAssumption
  <2>3. /\ names' = names /\ sfx' = sfx
        /\ \A q \in Dumpers : pc'[q] = pc[q]
        /\ pc' \in [Proc -> Steps]
    BY <2>1, <2>2 DEF Load, OpenList, ReadLine, ReadEnd, OwnerInv
  <2>4. QED
    BY <2>3 DEF OwnerInv, TempsAreOwned, Running
<1>7. CASE \E p \in Proc : Crash(p)
  <2>1. PICK p \in Proc : Crash(p)
    BY <1>7
  <2>2. pc' = [pc EXCEPT ![p] = "crashed"] /\ names' = names /\ sfx' = sfx
    BY <2>1 DEF Crash
  <2>3. "crashed" \in Steps
    OBVIOUS
  <2>4. QED
    BY <2>2, <2>3, QuietOwners
<1>8. CASE UNCHANGED vars
  BY <1>8 DEF vars, OwnerInv, TempsAreOwned, Running
<1>9. QED
  BY <1>1, <1>2, <1>3, <1>4, <1>5, <1>6, <1>7, <1>8 DEF Next, Dump, AllDone

\* Whether or not suffixes collide and whatever close does, a temporary file in
\* the cache belongs to a dumper at work or to one that crashed: one that fails
\* removes its own (Sensors.C:235-254).
THEOREM TempsHaveOwners == Spec => []TempsAreOwned
<1>1. Init => OwnerInv
  BY DEF Init, OwnerInv, TempsAreOwned, Running, Steps
<1>2. OwnerInv => TempsAreOwned
  BY DEF OwnerInv
<1>3. QED
  BY <1>1, <1>2, NextOwners, PTL DEF Spec
=============================================================================
