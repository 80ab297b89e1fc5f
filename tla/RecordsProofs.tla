----------------------------- MODULE RecordsProofs -----------------------------
(***************************************************************************)
(* The invariants of the records kept, proved for every number of users,   *)
(* tenants, threads, days, keys, backups and rows: a check-in is paid      *)
(* once, a backup can be verified and a restore undone, a user keeps a     *)
(* binding and one default, a pick its id and outcome, the move to MySQL   *)
(* loses nothing.  Each part has an inductive invariant of its own; the    *)
(* steps of the other parts leave its variables as they are.               *)
(***************************************************************************)
EXTENDS MCAccounts, WellFoundedInduction, FiniteSetTheorems

-----------------------------------------------------------------------------
\* The check-in.  On a day that no two requests shared and none died on, a
\* request at work is alone; before it has paid nothing is paid; once today is
\* paid the request is about to mark it or it is marked, and then none is at work.
CheckInType ==
    /\ today \in 1..MaxDays /\ last \in 0..today
    /\ post \in [Procs -> [at : {"idle", "read", "add", "mark"}, day : 0..today, seen : Int]]
    /\ points \in Int /\ paid \in [1..MaxDays -> Nat]
    /\ \A p \in Procs : post[p].at # "idle" => post[p].day # 0
    /\ \A d \in 1..MaxDays : d > today => paid[d] = 0
Works(p, d) == post[p].at # "idle" /\ post[p].day = d
AloneOn(d) == \A p, q \in Procs : Works(p, d) /\ post[q].at # "idle" => p = q
PaidLast(d) == /\ paid[d] <= 1
               /\ \A p \in Procs : Works(p, d) /\ post[p].at # "mark" => paid[d] = 0
MarkedToday == /\ paid[today] > 0 => last = today \/ \E p \in Procs : Works(p, today) /\ post[p].at = "mark"
               /\ last = today => \A p \in Procs : post[p].at = "idle"
CheckInInv == /\ CheckInType
              /\ \A d \in (1..MaxDays) \ torn : AloneOn(d) /\ PaidLast(d)
              /\ today \notin torn => MarkedToday

LEMMA CheckInInit == CheckIns!Init => CheckInInv
<1> SUFFICES ASSUME CheckIns!Init PROVE CheckInInv
    OBVIOUS
<1> USE CheckInAssumption DEF CheckIns!Init, CheckIns!Idle
<1>1. CheckInType
    BY DEF CheckInType
<1>2. \A d \in 1..MaxDays : AloneOn(d) /\ PaidLast(d)
    BY DEF AloneOn, PaidLast, Works
<1>3. MarkedToday
    BY DEF MarkedToday, Works
<1> QED BY <1>1, <1>2, <1>3 DEF CheckInInv

\* The days that are left out only grow.
LEMMA TornGrows == CheckIns!Next => torn \subseteq torn'
<1>1. ASSUME NEW p \in Procs,
             CheckIns!Begin(p) \/ CheckIns!ReadPoints(p) \/ CheckIns!AddPoints(p) \/ CheckIns!Mark(p) \/ CheckIns!Die(p)
      PROVE  torn \subseteq torn'
    BY <1>1 DEF CheckIns!Begin, CheckIns!ReadPoints, CheckIns!AddPoints, CheckIns!Mark, CheckIns!Die
<1> QED BY <1>1 DEF CheckIns!Next, CheckIns!Midnight

LEMMA Reading ==
    ASSUME NEW d \in Nat
    PROVE  LET r == [CheckIns!Idle EXCEPT !.at = "read", !.day = d] IN
           r.at = "read" /\ r.day = d /\ r \in [at : {"idle", "read", "add", "mark"}, day : 0..d, seen : Int]
<1> DEFINE R == [at : {"idle", "read", "add", "mark"}, day : 0..d, seen : Int]
<1>1. CheckIns!Idle \in R
    BY DEF CheckIns!Idle
<1>2. d \in 0..d
    OBVIOUS
<1>3. ASSUME NEW i \in R, NEW e \in 0..d
      PROVE  LET r == [i EXCEPT !.at = "read", !.day = e] IN r.at = "read" /\ r.day = e /\ r \in R
    OBVIOUS
<1> QED BY <1>1, <1>2, <1>3

\* A request begins: alone on its day, unless that day is left out from now on.
LEMMA BeginStays == ASSUME CheckInInv, NEW p \in Procs, CheckIns!Begin(p) PROVE CheckInInv'
<1> USE DEF CheckIns!Begin, CheckIns!Idle, CheckIns!Busy, CheckInInv
<1>1. /\ post[p].at = "idle" /\ UNCHANGED <<points, last, today, paid>> /\ torn \subseteq torn'
      /\ \A q \in Procs : post[q].at # "idle" => today \in torn' /\ post[q].day \in torn'
    BY DEF CheckInType
<1>2. CASE post' = post
    BY <1>1, <1>2 DEF CheckInType, AloneOn, PaidLast, MarkedToday, Works
<1>3. CASE last # today /\ post' # post
  <2> DEFINE r == [CheckIns!Idle EXCEPT !.at = "read", !.day = today]
  <2>r. /\ r.at = "read" /\ r.day = today /\ post' = [post EXCEPT ![p] = r]
        /\ r \in [at : {"idle", "read", "add", "mark"}, day : 0..today, seen : Int]
    <3>1. today \in Nat
        BY DEF CheckInType
    <3> QED BY <1>3, <3>1, Reading
  <2> HIDE DEF r
  <2>1. CheckInType'
    BY <1>1, <2>r DEF CheckInType
  <2>2. /\ post'[p].at = "read" /\ post'[p].day = today
        /\ \A q \in Procs \ {p} : post'[q] = post[q]
    BY <2>r DEF CheckInType
  <2>3. ASSUME NEW d \in (1..MaxDays) \ torn' PROVE AloneOn(d)'
    BY <1>1, <2>2, <2>3 DEF AloneOn, Works
  <2>4. ASSUME today \notin torn' PROVE paid[today] = 0
    BY <1>1, <1>3, <2>4 DEF MarkedToday, Works, CheckInType
  <2>5. ASSUME NEW d \in (1..MaxDays) \ torn' PROVE PaidLast(d)'
    BY <1>1, <2>2, <2>4, <2>5 DEF PaidLast, Works
  <2>6. today' \notin torn' => MarkedToday'
    BY <1>1, <1>3, <2>4 DEF MarkedToday
  <2> QED BY <2>1, <2>3, <2>5, <2>6
<1> QED BY <1>2, <1>3

\* The steps of a request that has begun.
LEMMA ReadStays == ASSUME CheckInInv, NEW p \in Procs, CheckIns!ReadPoints(p) PROVE CheckInInv'
<1> USE DEF CheckIns!ReadPoints, CheckInInv
<1>1. /\ UNCHANGED <<points, last, today, paid, torn>> /\ post[p].at = "read"
      /\ post'[p].at = "add" /\ post'[p].day = post[p].day
      /\ \A q \in Procs \ {p} : post'[q] = post[q]
    BY DEF CheckInType
<1>2. CheckInType'
    BY <1>1 DEF CheckInType
<1>3. ASSUME NEW d \in (1..MaxDays) \ torn' PROVE AloneOn(d)' /\ PaidLast(d)'
  <2>1. AloneOn(d) /\ PaidLast(d)
    BY <1>1, <1>3
  <2>2. \A q \in Procs : /\ Works(q, d)' <=> Works(q, d)
                         /\ post'[q].at = "idle" <=> post[q].at = "idle"
                         /\ post'[q].at = "mark" <=> post[q].at = "mark"
    BY <1>1 DEF Works
  <2> QED BY <1>1, <2>1, <2>2 DEF AloneOn, PaidLast
<1>4. ASSUME today' \notin torn' PROVE MarkedToday'
    BY <1>1, <1>4 DEF MarkedToday, Works
<1> QED BY <1>2, <1>3, <1>4

LEMMA AddStays == ASSUME CheckInInv, NEW p \in Procs, CheckIns!AddPoints(p) PROVE CheckInInv'
<1> USE DEF CheckIns!AddPoints, CheckInInv
<1> DEFINE e == post[p].day
<1>1. /\ UNCHANGED <<last, today, torn>> /\ post[p].at = "add" /\ e \in 1..today /\ today \in 1..MaxDays
      /\ post'[p].at = "mark" /\ post'[p].day = e
      /\ \A q \in Procs \ {p} : post'[q] = post[q]
    BY DEF CheckInType
<1>2. \A d \in 1..MaxDays : paid'[d] = IF d = e THEN paid[d] + 1 ELSE paid[d]
    BY <1>1 DEF CheckInType
<1>3. CheckInType'
  <2>1. paid' = [paid EXCEPT ![e] = @ + 1]
    OBVIOUS
  <2>5. e \in 1..MaxDays
    BY <1>1, CheckInAssumption
  <2>3. paid' \in [1..MaxDays -> Nat]
    BY <2>1, <2>5 DEF CheckInType
  <2>4. points' \in Int
    BY DEF CheckInType
  <2>2. post' \in [Procs -> [at : {"idle", "read", "add", "mark"}, day : 0..today, seen : Int]]
    BY DEF CheckInType
  <2> QED BY <1>1, <1>2, <2>2, <2>3, <2>4 DEF CheckInType
<1>4. ASSUME NEW d \in (1..MaxDays) \ torn' PROVE AloneOn(d)'
    BY <1>1, <1>4 DEF AloneOn, Works
<1>5. ASSUME NEW d \in (1..MaxDays) \ torn' PROVE PaidLast(d)'
  <2>1. AloneOn(d) /\ PaidLast(d) /\ d \notin torn
    BY <1>1, <1>5
  <2>2. CASE d = e
    <3>1. paid'[d] = 1
        BY <1>1, <1>2, <2>1, <2>2 DEF PaidLast, Works
    <3>2. \A q \in Procs : Works(q, d)' => q = p
        BY <1>1, <2>1, <2>2 DEF AloneOn, Works
    <3> QED BY <1>1, <3>1, <3>2 DEF PaidLast
  <2>3. CASE d # e
    BY <1>1, <1>2, <2>1, <2>3 DEF PaidLast, Works
  <2> QED BY <2>2, <2>3
<1>6. ASSUME today' \notin torn' PROVE MarkedToday'
    BY <1>1, <1>2, <1>6 DEF MarkedToday, Works
<1> QED BY <1>3, <1>4, <1>5, <1>6

LEMMA MarkStays == ASSUME CheckInInv, NEW p \in Procs, CheckIns!Mark(p) PROVE CheckInInv'
<1> USE DEF CheckIns!Mark, CheckIns!Idle, CheckInInv
<1>1. /\ UNCHANGED <<points, today, paid, torn>> /\ post[p].at = "mark" /\ last' = post[p].day
      /\ post[p].day \in 1..today /\ today \in 1..MaxDays
      /\ post'[p] = [at |-> "idle", day |-> 0, seen |-> 0]
      /\ \A q \in Procs \ {p} : post'[q] = post[q]
    BY DEF CheckInType
<1>2. CheckInType'
    BY <1>1 DEF CheckInType
<1>3. ASSUME NEW d \in (1..MaxDays) \ torn' PROVE AloneOn(d)' /\ PaidLast(d)'
    BY <1>1, <1>3 DEF AloneOn, PaidLast, Works
<1>4. ASSUME today' \notin torn' PROVE MarkedToday'
    BY <1>1, <1>4 DEF AloneOn, MarkedToday, Works
<1> QED BY <1>2, <1>3, <1>4

LEMMA DieStays == ASSUME CheckInInv, NEW p \in Procs, CheckIns!Die(p) PROVE CheckInInv'
<1> USE DEF CheckIns!Die, CheckIns!Idle, CheckInInv
<1>1. /\ UNCHANGED <<points, last, today, paid>> /\ torn' = torn \cup {post[p].day}
      /\ post'[p] = [at |-> "idle", day |-> 0, seen |-> 0]
      /\ \A q \in Procs \ {p} : post'[q] = post[q]
    BY DEF CheckInType
<1>2. CheckInType'
    BY <1>1 DEF CheckInType
<1>3. ASSUME NEW d \in (1..MaxDays) \ torn' PROVE AloneOn(d)' /\ PaidLast(d)'
    BY <1>1, <1>3 DEF AloneOn, PaidLast, Works
<1>4. ASSUME today' \notin torn' PROVE MarkedToday'
    BY <1>1, <1>4 DEF MarkedToday, Works
<1> QED BY <1>2, <1>3, <1>4

\* Midnight: nothing of the new day is paid or marked.
LEMMA MidnightStays == ASSUME CheckInInv, CheckIns!Midnight PROVE CheckInInv'
<1> USE DEF CheckIns!Midnight, CheckInInv
<1>1. today' = today + 1 /\ today' \in 1..MaxDays /\ UNCHANGED <<points, last, post, paid, torn>>
    BY CheckInAssumption DEF CheckInType
<1>2. CheckInType'
    BY <1>1 DEF CheckInType
<1>3. \A d \in (1..MaxDays) \ torn' : AloneOn(d)' /\ PaidLast(d)'
    BY <1>1 DEF AloneOn, PaidLast, Works
<1>4. paid'[today'] = 0 /\ last' # today'
    BY <1>1 DEF CheckInType
<1>5. MarkedToday'
    BY <1>4 DEF MarkedToday
<1> QED BY <1>2, <1>3, <1>5

LEMMA CheckInStays == CheckInInv /\ [CheckIns!Next]_checkVars => CheckInInv'
<1>1. CheckInInv /\ UNCHANGED checkVars => CheckInInv'
    BY DEF checkVars, CheckInInv, CheckInType, AloneOn, PaidLast, MarkedToday, Works
<1>2. CheckInInv /\ CheckIns!Next => CheckInInv'
    BY BeginStays, ReadStays, AddStays, MarkStays, DieStays, MidnightStays DEF CheckIns!Next
<1> QED BY <1>1, <1>2

-----------------------------------------------------------------------------
\* The greatest number of a bounded set of numbers, and the least of any.
LEMMA LeastIsThere == ASSUME NEW S, S \subseteq Nat, S # {} PROVE \E x \in S : \A y \in S : x <= y
<1>1. PICK x \in S : \A y \in S : ~(<<y, x>> \in OpToRel(<, Nat))
    BY NatLessThanWellFounded, WFMin
<1>2. \A y \in S : ~(y < x)
    BY <1>1 DEF OpToRel
<1> QED BY <1>2
LEMMA GreatestIsThere == ASSUME NEW S, S \subseteq Nat, S # {}, NEW b \in Nat, \A x \in S : x <= b
                         PROVE  \E x \in S : \A y \in S : x >= y
<1>1. {b - x : x \in S} \subseteq Nat /\ {b - x : x \in S} # {}
  <2>1. \A x \in S : x \in Nat /\ b - x \in Nat
    OBVIOUS
  <2>2. PICK x \in S : TRUE
    OBVIOUS
  <2>3. b - x \in {b - y : y \in S}
    OBVIOUS
  <2> QED BY <2>1, <2>3
<1>2. PICK m \in {b - x : x \in S} : \A y \in {b - x : x \in S} : m <= y
    BY <1>1, LeastIsThere
<1>3. PICK x \in S : m = b - x
    BY <1>2
<1>4. ASSUME NEW y \in S PROVE x >= y
  <2>1. b - x <= b - y
    BY <1>2, <1>3
  <2> QED BY <2>1
<1> QED BY <1>4
LEMMA MaxIsThere == ASSUME NEW S, S \subseteq Nat, S # {}, NEW b \in Nat, \A x \in S : x <= b
                    PROVE  Zips!Max(S) \in S /\ \A y \in S : y <= Zips!Max(S)
BY GreatestIsThere DEF Zips!Max

-----------------------------------------------------------------------------
\* Backups.  Keys are numbered; until one was made there are none, and every
\* backup has one.  While no key was lost each backup's is among the keys kept or
\* is the one a rotation is about to list; what a restore replaces is on disk.
BackupType == /\ saves \in Nat /\ key \in 0..MaxKey /\ rotating \in 0..MaxKey /\ legacy \subseteq 1..MaxKey
              /\ key = 0 => legacy = {} /\ rotating = 0
              /\ \A f \in files : f.at \in Nat /\ f.at <= saves /\ f.key # 0
BackupInv == BackupType /\ Zips!BackupsVerify /\ Zips!RestoreUndoable

\* The size of a set is the same operator in the module of the backups.
LEMMA SameSize == ASSUME NEW S PROVE Zips!Cardinality(S) = Cardinality(S)
BY DEF Zips!Cardinality, Cardinality

LEMMA BackupInit == Zips!Init => BackupInv
BY BackupAssumption DEF Zips!Init, Zips!None, Zips!Idle, BackupInv, BackupType, Zips!BackupsVerify, Zips!RestoreUndoable

\* A backup is saved under a key that is kept, replaces at most what was there,
\* and the newest one stays.
LEMMA SaveStep ==
    ASSUME BackupType, NEW prefix, files' = Zips!Saved(prefix), saves' = saves + 1, key' = Zips!Ready,
           legacy' = legacy, rotating' = rotating
    PROVE  /\ BackupType' /\ Zips!Keys \subseteq Zips!Keys'
           /\ \A f \in files' : f \in files \/ f.key \in Zips!Keys'
           /\ \E f \in files' : f.data = data
<1> USE BackupAssumption DEF Zips!None
<1> DEFINE new == [name |-> <<prefix, second>>, at |-> saves + 1, data |-> data, key |-> Zips!Signing]
           all == {f \in files : f.name # <<prefix, second>>} \cup {new}
<1>1. files' = {f \in all : Zips!Cardinality({g \in all : g.at > f.at}) < Retention}
    BY Zenon DEF Zips!Saved, Zips!Newest
<1>2. /\ Zips!Signing = IF key # 0 THEN key ELSE 1
      /\ key' = Zips!Signing
    BY DEF Zips!Signing, Zips!Ready, Zips!Keys, BackupType
<1>3. Zips!Signing \in 1..MaxKey
    BY <1>2 DEF BackupType
<1>4. Zips!Keys' = legacy \cup {Zips!Signing} /\ Zips!Keys \subseteq Zips!Keys'
    BY <1>2, <1>3 DEF Zips!Keys, BackupType
<1>5. new \in files'
  <2>1. \A g \in all : ~(g.at > saves + 1)
    BY DEF BackupType
  <2>2. {g \in all : g.at > new.at} = {}
    BY <2>1
  <2>3. Zips!Cardinality({g \in all : g.at > new.at}) < Retention
    BY <2>2, FS_EmptySet, SameSize
  <2>4. new \in all
    OBVIOUS
  <2> HIDE DEF new, all
  <2> QED BY <1>1, <2>3, <2>4
<1>6. ASSUME NEW f \in files' PROVE f \in files \/ f = new
  <2> HIDE DEF new
  <2> QED BY <1>1, <1>6
<1>7. new.key = Zips!Signing /\ new.data = data /\ new.at = saves + 1
    OBVIOUS
<1>8. \E f \in files' : f.data = data
    BY <1>5, <1>7
<1>9. ASSUME NEW f \in files' PROVE f \in files \/ (f.key \in Zips!Keys' /\ f.key # 0 /\ f.at = saves + 1)
  <2> HIDE DEF new
  <2> QED BY <1>3, <1>4, <1>6, <1>7, <1>9
<1> HIDE DEF new, all
<1>10. BackupType'
    BY <1>2, <1>3, <1>9 DEF BackupType
<1> QED BY <1>4, <1>8, <1>9, <1>10

\* A restore begins with a backup of what it will replace.
LEMMA RestoreBegins == ASSUME BackupInv, NEW zip, Zips!BeginRestore(zip) PROVE BackupInv'
<1>1. /\ files' = Zips!Saved("auto_before_restore") /\ saves' = saves + 1 /\ key' = Zips!Ready
      /\ legacy' = legacy /\ rotating' = rotating /\ lostKey' = lostKey
      /\ restore' = [zip |-> zip, before |-> data]
    BY DEF Zips!BeginRestore
<1>2. /\ BackupType' /\ Zips!Keys \subseteq Zips!Keys'
      /\ \A f \in files' : f \in files \/ f.key \in Zips!Keys'
      /\ \E f \in files' : f.data = data
    BY <1>1, SaveStep DEF BackupInv
<1>3. Zips!BackupsVerify'
    BY <1>1, <1>2 DEF BackupInv, Zips!BackupsVerify, Zips!Valid
<1>4. Zips!RestoreUndoable'
    BY <1>1, <1>2 DEF Zips!RestoreUndoable
<1> QED BY <1>2, <1>3, <1>4 DEF BackupInv

LEMMA BackupStays == BackupInv /\ [Zips!Next]_backupVars => BackupInv'
<1> SUFFICES ASSUME BackupInv, [Zips!Next]_backupVars PROVE BackupInv'
    OBVIOUS
<1> USE BackupAssumption DEF Zips!None, Zips!Idle
<1> DEFINE Same == UNCHANGED <<key, legacy, files, saves, restore, rotating, lostKey>>
<1>0. ASSUME Same PROVE BackupInv'
    BY <1>0 DEF BackupInv, BackupType, Zips!BackupsVerify, Zips!RestoreUndoable, Zips!Valid, Zips!Keys
<1>1. CASE UNCHANGED backupVars \/ Zips!Edit \/ Zips!Tick \/ Zips!Upload
    BY <1>0, <1>1 DEF backupVars, Zips!Edit, Zips!Tick, Zips!Upload
<1>2. CASE Zips!Backup
  <2>1. /\ files' = Zips!Saved("manual") /\ saves' = saves + 1 /\ key' = Zips!Ready
        /\ legacy' = legacy /\ rotating' = rotating /\ lostKey' = lostKey
        /\ restore' = restore /\ restore = [zip |-> Zips!NoZip, before |-> 0]
    BY <1>2 DEF Zips!Backup
  <2>2. /\ BackupType' /\ Zips!Keys \subseteq Zips!Keys'
        /\ \A f \in files' : f \in files \/ f.key \in Zips!Keys'
    BY <2>1, SaveStep DEF BackupInv
  <2>3. Zips!BackupsVerify'
    BY <2>1, <2>2 DEF BackupInv, Zips!BackupsVerify, Zips!Valid
  <2>4. Zips!RestoreUndoable'
    BY <2>1 DEF Zips!RestoreUndoable, Zips!NoZip
  <2> QED BY <2>2, <2>3, <2>4 DEF BackupInv
<1>3. CASE Zips!FromHistory \/ Zips!Confirm
    BY <1>3, RestoreBegins DEF Zips!FromHistory, Zips!Confirm
<1>4. CASE Zips!Replace
  <2>1. BackupType' /\ Zips!BackupsVerify'
    BY <1>4 DEF Zips!Replace, BackupInv, BackupType, Zips!BackupsVerify, Zips!Valid, Zips!Keys
  <2>2. Zips!RestoreUndoable'
    BY <1>4 DEF Zips!Replace, Zips!RestoreUndoable, Zips!NoZip
  <2> QED BY <2>1, <2>2 DEF BackupInv
<1>5. CASE Zips!Rotate
  <2>1. Zips!LastKey \in Nat
    <3>1. /\ {key, rotating} \cup legacy \subseteq Nat /\ {key, rotating} \cup legacy # {}
          /\ \A x \in {key, rotating} \cup legacy : x <= MaxKey
        BY DEF BackupInv, BackupType
    <3> QED BY <3>1, MaxIsThere DEF Zips!LastKey
  <2>2. /\ rotating = 0 /\ rotating' = key /\ key' \in 1..MaxKey
        /\ UNCHANGED <<legacy, files, saves, restore, lostKey>>
    BY <1>5, <2>1 DEF Zips!Rotate
  <2>3. BackupType'
    BY <2>2 DEF BackupInv, BackupType
  <2>4. Zips!BackupsVerify'
    BY <2>2 DEF BackupInv, BackupType, Zips!BackupsVerify, Zips!Valid, Zips!Keys
  <2>5. Zips!RestoreUndoable'
    BY <2>2 DEF BackupInv, Zips!RestoreUndoable
  <2> QED BY <2>3, <2>4, <2>5 DEF BackupInv
<1>6. CASE Zips!Keep
  <2>1. /\ rotating # 0 /\ legacy' = legacy \cup {rotating} /\ rotating' = 0
        /\ UNCHANGED <<key, files, saves, restore, lostKey>>
    BY <1>6 DEF Zips!Keep, Zips!Listed
  <2>2. BackupType'
    BY <2>1 DEF BackupInv, BackupType
  <2>3. Zips!BackupsVerify'
    BY <2>1 DEF BackupInv, BackupType, Zips!BackupsVerify, Zips!Valid, Zips!Keys
  <2>4. Zips!RestoreUndoable'
    BY <2>1 DEF BackupInv, Zips!RestoreUndoable
  <2> QED BY <2>2, <2>3, <2>4 DEF BackupInv
<1>7. CASE Zips!Import
  <2>1. /\ lostKey' /\ UNCHANGED <<files, saves, restore, rotating>>
        /\ \/ key' \in legacy /\ legacy' = legacy
           \/ key' = key /\ \E k \in (legacy \cup {key}) \ {0} : legacy' = {k}
    BY <1>7 DEF Zips!Import, Zips!Keys
  <2>2. BackupType'
    <3>1. CASE key' \in legacy /\ legacy' = legacy
        BY <2>1, <3>1 DEF BackupInv, BackupType
    <3>2. ASSUME NEW k \in (legacy \cup {key}) \ {0}, key' = key, legacy' = {k} PROVE BackupType'
      <4>1. k \in 1..MaxKey /\ key # 0
        BY DEF BackupInv, BackupType
      <4> QED BY <2>1, <3>2, <4>1 DEF BackupInv, BackupType
    <3> QED BY <2>1, <3>1, <3>2
  <2> QED BY <2>1, <2>2 DEF BackupInv, Zips!BackupsVerify, Zips!RestoreUndoable
<1>8. CASE Zips!Crash
  <2>1. BackupType'
    BY <1>8 DEF Zips!Crash, BackupInv, BackupType
  <2>2. Zips!BackupsVerify'
    BY <1>8 DEF Zips!Crash, BackupInv, BackupType, Zips!BackupsVerify, Zips!Valid, Zips!Keys
  <2>3. Zips!RestoreUndoable'
    BY <1>8 DEF Zips!Crash, Zips!RestoreUndoable, Zips!NoZip
  <2> QED BY <2>1, <2>2, <2>3 DEF BackupInv
<1> QED BY <1>1, <1>2, <1>3, <1>4, <1>5, <1>6, <1>7, <1>8 DEF Zips!Next
-----------------------------------------------------------------------------
\* The picks.  Ids were given, and so were those a request has found.
PickRows == [tenant : Units \cup {Default}, key : PickKeys, status : {"accepted", "reviewed", "settled"},
             outcome : Outcomes \cup {0}, watch : BOOLEAN, archived : BOOLEAN]
PickInv ==
    /\ lastId \in Nat
    /\ DOMAIN records \subseteq 1..lastId
    /\ \A id \in DOMAIN records : records[id] \in PickRows
    /\ \A c \in Clients : call[c].step = "found" => call[c].tenant \in Units /\ call[c].key \in PickKeys
    /\ DOMAIN call = Clients

\* What a step does to the picks: whoever acts reaches picks of his tenant only;
\* an outcome changes with a review, and an id is new when it is given.
KeepsPicks ==
    /\ lastId' = lastId \/ (lastId' = lastId + 1 /\ DOMAIN records \subseteq DOMAIN records')
    /\ \A id \in DOMAIN records \cap DOMAIN records' :
           /\ records'[id] \in PickRows
           /\ records'[id] = records[id] \/ records[id].tenant = actor'
           /\ records'[id].outcome = records[id].outcome \/ records'[id].status = "reviewed"
    /\ \A id \in DOMAIN records \ DOMAIN records' : records[id].tenant = actor'
    /\ \A id \in DOMAIN records' \ DOMAIN records :
           records'[id] \in PickRows /\ records'[id].tenant = actor' /\ id = lastId + 1 /\ lastId' = lastId + 1

LEMMA PickKept == PickInv /\ KeepsPicks =>
    /\ lastId' \in Nat /\ DOMAIN records' \subseteq 1..lastId'
    /\ \A id \in DOMAIN records' : records'[id] \in PickRows
BY DEF PickInv, KeepsPicks

\* A pick changed in place: the others stay as they are.
LEMMA PickChanged ==
    ASSUME PickInv, NEW id \in DOMAIN records, NEW p \in PickRows,
           records' = [records EXCEPT ![id] = p], lastId' = lastId, records[id].tenant = actor',
           p.outcome = records[id].outcome \/ p.status = "reviewed"
    PROVE  KeepsPicks
BY DEF KeepsPicks, PickInv

LEMMA PickStored ==
    ASSUME PickInv, NEW who \in Units \cup {Default}, NEW k \in PickKeys, Records!Store(who, k, "accepted"), actor' = who
    PROVE  KeepsPicks
<1> DEFINE old == Records!SameKey(who, k)
           n == Records!New(who, k, "accepted")
           again(id) == [Records!Fields(records[id], "accepted") EXCEPT !.archived = FALSE]
<1>1. n \in PickRows /\ n.tenant = who
    BY DEF Records!New, PickRows
<1>2. lastId + 1 \notin DOMAIN records /\ lastId \in Nat /\ lastId + 1 # lastId
    BY DEF PickInv
<1>3. CASE old = {}
    <2>1. records' = [id \in DOMAIN records \cup {lastId + 1} |-> IF id = lastId + 1 THEN n ELSE records[id]]
        BY <1>3 DEF Records!Store, Records!Stored
    <2> HIDE DEF n
    <2>2. /\ DOMAIN records' = DOMAIN records \cup {lastId + 1} /\ records'[lastId + 1] = n
          /\ \A id \in DOMAIN records : records'[id] = records[id]
        BY <1>2, <2>1
    <2>3. lastId' = lastId + 1
        BY <1>2, <2>2 DEF Records!Store
    <2> QED BY <1>1, <1>2, <2>2, <2>3 DEF KeepsPicks, PickInv
<1>4. CASE old # {}
    <2>1. records' = [id \in DOMAIN records |-> IF id \in old THEN again(id) ELSE records[id]]
        BY <1>4 DEF Records!Store, Records!Stored
    <2>2. \A id \in old : records[id].tenant = who
        BY DEF Records!SameKey
    <2>3. \A id \in DOMAIN records : again(id) \in PickRows /\ again(id).outcome = records[id].outcome
        BY DEF Records!Fields, PickInv, PickRows
    <2> HIDE DEF old, again
    <2>4. /\ DOMAIN records' = DOMAIN records
          /\ \A id \in DOMAIN records : records'[id] = IF id \in old THEN again(id) ELSE records[id]
        BY <2>1
    <2>5. lastId' = lastId
        BY <2>4 DEF Records!Store
    <2> QED BY <1>2, <2>2, <2>3, <2>4, <2>5 DEF KeepsPicks, PickInv
<1> QED BY <1>3, <1>4

LEMMA PickStep == PickInv /\ [Records!Next]_pickVars => PickInv' /\ KeepsPicks
<1> SUFFICES ASSUME PickInv, [Records!Next]_pickVars PROVE PickInv' /\ KeepsPicks
    OBVIOUS
<1> DEFINE Heard == /\ DOMAIN call' = Clients
                    /\ \A c \in Clients : call'[c].step = "found" => call'[c].tenant \in Units /\ call'[c].key \in PickKeys
<1>1. SUFFICES KeepsPicks /\ Heard
    BY <1>1, PickKept DEF PickInv
<1>2. ASSUME call' = call PROVE Heard
    BY <1>2 DEF PickInv
<1>3. ASSUME records' = records, lastId' = lastId PROVE KeepsPicks
    BY <1>3 DEF KeepsPicks, PickInv
<1>4. ASSUME NEW c \in Clients, Records!Write(c) PROVE KeepsPicks /\ Heard
    <2> DEFINE q == call[c]
    <2>1. q.step = "found" /\ q.tenant \in Units /\ q.key \in PickKeys
        BY <1>4 DEF Records!Write, PickInv
    <2>2. Heard
        BY <1>4 DEF Records!Write, Records!Idle, PickInv
    <2>3. CASE q.ids = {}
        BY <1>4, <2>1, <2>2, <2>3, PickStored DEF Records!Write
    <2>4. CASE q.ids # {}
        <3> DEFINE hit(id) == id \in q.ids /\ Records!Found(q.tenant, id)
                   new(id) == Records!ApiFields(records[id])
        <3>1. records' = [id \in DOMAIN records |-> IF hit(id) THEN new(id) ELSE records[id]] /\ lastId' = lastId /\ actor' = q.tenant
            BY <1>4, <2>4 DEF Records!Write
        <3>2. \A id \in DOMAIN records : /\ new(id) \in PickRows /\ new(id).outcome = records[id].outcome
                                         /\ hit(id) => records[id].tenant = q.tenant
            BY DEF Records!ApiFields, Records!Fields, Records!Found, PickInv, PickRows
        <3> HIDE DEF hit, new
        <3>3. /\ DOMAIN records' = DOMAIN records
              /\ \A id \in DOMAIN records : records'[id] = IF hit(id) THEN new(id) ELSE records[id]
            BY <3>1
        <3>4. KeepsPicks
            BY <3>1, <3>2, <3>3 DEF KeepsPicks, PickInv
        <3> QED BY <2>2, <3>4
    <2> QED BY <2>3, <2>4
<1>5. ASSUME NEW c \in Clients, NEW t \in Units, NEW k \in PickKeys, Records!Look(c, t, k) PROVE KeepsPicks /\ Heard
    BY <1>3, <1>5 DEF Records!Look, PickInv
<1>6. ASSUME NEW t \in Units, NEW id \in DOMAIN records, NEW o \in Outcomes, NEW w \in BOOLEAN, Records!Review(t, id, o, w)
      PROVE  KeepsPicks /\ Heard
    <2> DEFINE p == Records!Reviewed(records[id], o, w)
    <2>1. /\ records' = [records EXCEPT ![id] = p] /\ lastId' = lastId /\ call' = call
          /\ records[id].tenant = actor'
        BY <1>6 DEF Records!Review, Records!Found
    <2>2. p \in PickRows /\ p.status = "reviewed"
        BY DEF Records!Reviewed, PickInv, PickRows
    <2> HIDE DEF p
    <2> QED BY <1>2, <2>1, <2>2, PickChanged
<1>7. ASSUME NEW k \in PickKeys, Records!Scan(k) PROVE KeepsPicks /\ Heard
    BY <1>2, <1>7, PickStored DEF Records!Scan
<1>8. ASSUME NEW id \in DOMAIN records, Records!Page(id), NEW p \in PickRows, p.outcome = records[id].outcome,
             records' = [records EXCEPT ![id] = p]
      PROVE  KeepsPicks /\ Heard
    <2>1. records[id].tenant = actor' /\ lastId' = lastId /\ call' = call
        BY <1>8 DEF Records!Page, Records!Found
    <2> QED BY <1>2, <1>8, <2>1, PickChanged
<1>9. ASSUME NEW id \in DOMAIN records, Records!Archive(id) PROVE KeepsPicks /\ Heard
    <2> DEFINE p == [records[id] EXCEPT !.archived = ~@]
    <2>1. p \in PickRows /\ p.outcome = records[id].outcome
        BY DEF PickInv, PickRows
    <2>2. records' = [records EXCEPT ![id] = p] /\ Records!Page(id)
        BY <1>9 DEF Records!Archive
    <2> HIDE DEF p
    <2> QED BY <1>8, <2>1, <2>2
<1>10. ASSUME NEW id \in DOMAIN records, Records!Watch(id) PROVE KeepsPicks /\ Heard
    <2> DEFINE p == [records[id] EXCEPT !.watch = ~@]
    <2>1. p \in PickRows /\ p.outcome = records[id].outcome
        BY DEF PickInv, PickRows
    <2>2. records' = [records EXCEPT ![id] = p] /\ Records!Page(id)
        BY <1>10 DEF Records!Watch
    <2> HIDE DEF p
    <2> QED BY <1>8, <2>1, <2>2
<1>11. ASSUME NEW id \in DOMAIN records, Records!Settle(id) PROVE KeepsPicks /\ Heard
    <2> DEFINE p == [records[id] EXCEPT !.status = "settled"]
    <2>1. p \in PickRows /\ p.outcome = records[id].outcome
        BY DEF PickInv, PickRows
    <2>2. records' = [records EXCEPT ![id] = p] /\ Records!Page(id)
        BY <1>11 DEF Records!Settle
    <2> HIDE DEF p
    <2> QED BY <1>8, <2>1, <2>2
<1>12. ASSUME NEW id \in DOMAIN records, Records!Delete(id) PROVE KeepsPicks /\ Heard
    <2>1. /\ records' = [other \in DOMAIN records \ {id} |-> records[other]] /\ lastId' = lastId /\ call' = call
          /\ records[id].tenant = actor'
        BY <1>12 DEF Records!Delete, Records!Page, Records!Found
    <2>2. KeepsPicks
        BY <2>1 DEF KeepsPicks, PickInv
    <2> QED BY <1>2, <2>1, <2>2
<1>13. ASSUME NEW id \in DOMAIN records, NEW k \in PickKeys, Records!Move(id, k) PROVE KeepsPicks /\ Heard
    <2> DEFINE p == [Records!Fields(records[id], "settled") EXCEPT !.key = k]
    <2>1. p \in PickRows /\ p.outcome = records[id].outcome
        BY DEF PickInv, PickRows, Records!Fields
    <2>2. records' = [records EXCEPT ![id] = p] /\ Records!Page(id)
        BY <1>13 DEF Records!Move
    <2> HIDE DEF p
    <2> QED BY <1>8, <2>1, <2>2
<1>14. ASSUME NEW id \in DOMAIN records, NEW d \in 1..2, NEW score \in {0, 1}, Records!Research(id, d, score)
       PROVE  KeepsPicks /\ Heard
    <2> DEFINE good == score > 0
               p == [records[id] EXCEPT !.watch = good]
    <2>2. records' = [records EXCEPT ![id] = p] /\ Records!Page(id)
        BY <1>14 DEF Records!Research
    <2>3. good \in BOOLEAN
        OBVIOUS
    <2> HIDE DEF good
    <2>1. p \in PickRows /\ p.outcome = records[id].outcome
        BY <2>3 DEF PickInv, PickRows
    <2> HIDE DEF p
    <2> QED BY <1>8, <2>1, <2>2
<1>15. CASE UNCHANGED pickVars
    BY <1>2, <1>3, <1>15 DEF pickVars
<1>16. CASE Records!Next
    BY <1>4, <1>5, <1>6, <1>7, <1>9, <1>10, <1>11, <1>12, <1>13, <1>14, <1>16 DEF Records!Next
<1> QED BY <1>15, <1>16

-----------------------------------------------------------------------------
\* The move to MySQL.  What the last apply reported still holds of both
\* databases, unless the old one has changed; of the other tables each natural
\* key is there once.
PickTypes == [key : {r.key : r \in Rows}, strategy : {r.strategy : r \in Rows} \cup {Move!None},
              extra : {r.extra : r \in Rows}, review : {"old", "new"}]
AuxRows == [table : {a.table : a \in OldAux} \cup {"strategies"}, key : {a.key : a \in OldAux} \cup Strategies,
            value : {"old", "new"}, copy : Nat]
Keyed(S) == \A a, b \in S : Move!Dated(a) /\ a.table = b.table /\ a.key = b.key => a = b
Covers(archive) == \A i \in Move!Mappable(archive) : \E p \in target : p.key = rows[i].key
MoveInv ==
    /\ rows \in Seq(Rows) /\ target \subseteq PickTypes
    /\ aux \subseteq AuxRows /\ Keyed(aux) /\ applied \in Nat
    /\ result.ok => \E archive \in BOOLEAN :
           Covers(archive) /\ result.archived = Move!Cardinality(Move!Archived(archive))
    /\ Move!NothingLost

LEMMA MoveInit == Move!Init => MoveInv
<1> SUFFICES ASSUME Move!Init PROVE MoveInv
    OBVIOUS
<1>1. PICK codes \in SUBSET Strategies : aux = Move!Seed(codes)
    BY DEF Move!Init
<1>2. aux \subseteq AuxRows /\ Keyed(aux)
    BY <1>1 DEF Move!Seed, AuxRows, Keyed
<1> QED BY <1>2 DEF Move!Init, MoveInv, Move!NothingLost, Move!NoResult

LEMMA MoveCards == \A S : Move!Cardinality(S) = Cardinality(S)
BY DEF Move!Cardinality, Cardinality

\* Of the rows of a key that can be mapped the first is planned.
LEMMA FirstIsPlanned ==
    ASSUME rows \in Seq(Rows), NEW archive, NEW i \in Move!Mappable(archive)
    PROVE  \E j \in Move!Planned(archive) : rows[j].key = rows[i].key
<1> DEFINE S == {j \in Move!Mappable(archive) : rows[j].key = rows[i].key}
<1>1. S \subseteq Nat /\ i \in S
    BY DEF Move!Mappable
<1>2. PICK j \in S : \A k \in S : j <= k
    BY <1>1, LeastIsThere
<1>3. j \notin Move!Duplicates(archive)
    BY <1>1, <1>2 DEF Move!Duplicates
<1> QED BY <1>2, <1>3 DEF Move!Planned

LEMMA PicksWritten ==
    ASSUME MoveInv, NEW archive, target' = Move!Written(archive)
    PROVE  /\ target' \subseteq PickTypes
           /\ \A i \in Move!Mappable(archive) : \E p \in target' : p.key = rows[i].key
           /\ \A p \in target : \E q \in target' : q.key = p.key /\ q.review = p.review /\ q.strategy = p.strategy
<1> DEFINE R == {rows[i] : i \in Move!Planned(archive)}
           W(r) == IF Move!Of(r.key) = {} THEN {Move!Mapped(r)} ELSE {Move!Filled(p, r) : p \in Move!Of(r.key)}
           Rest == {p \in target : \A r \in R : r.key # p.key}
<1>1. target' = Rest \cup UNION {W(r) : r \in R}
    BY DEF Move!Written
<1>2. R \subseteq Rows
    BY DEF MoveInv, Move!Planned, Move!Mappable
<1>3. \A r \in Rows : Move!Mapped(r) \in PickTypes /\ Move!Mapped(r).key = r.key
    BY DEF Move!Mapped, Move!Resolved, PickTypes
<1>4. \A r \in Rows : \A p \in PickTypes : /\ Move!Filled(p, r) \in PickTypes
                                          /\ Move!Filled(p, r).key = p.key
                                          /\ Move!Filled(p, r).review = p.review
                                          /\ Move!Filled(p, r).strategy = p.strategy
    BY DEF Move!Filled, PickTypes
<1>5. \A k : Move!Of(k) \subseteq PickTypes /\ \A p \in Move!Of(k) : p.key = k
    BY DEF Move!Of, MoveInv
<1>6. \A r \in R : W(r) \subseteq PickTypes /\ \E p \in W(r) : p.key = r.key
    BY <1>2, <1>3, <1>4, <1>5
<1>7. \A p \in target : p \in Rest \/ \E r \in R : r.key = p.key /\ p \in Move!Of(r.key)
    BY DEF Move!Of
<1>8. \A r \in R : \A p \in Move!Of(r.key) : Move!Filled(p, r) \in W(r)
    OBVIOUS
<1> HIDE DEF W, R
<1>9. target' \subseteq PickTypes
    BY <1>1, <1>6 DEF MoveInv
<1>10. ASSUME NEW i \in Move!Mappable(archive) PROVE \E p \in target' : p.key = rows[i].key
    <2>1. PICK j \in Move!Planned(archive) : rows[j].key = rows[i].key
        BY FirstIsPlanned DEF MoveInv
    <2>2. rows[j] \in R
        BY DEF R
    <2> QED BY <1>1, <1>6, <2>1, <2>2
<1>11. ASSUME NEW p \in target PROVE \E q \in target' : q.key = p.key /\ q.review = p.review /\ q.strategy = p.strategy
    <2>1. CASE p \in Rest
        BY <1>1, <2>1
    <2>2. CASE \E r \in R : r.key = p.key /\ p \in Move!Of(r.key)
        <3>1. PICK r \in R : r.key = p.key /\ p \in Move!Of(r.key)
            BY <2>2
        <3>2. Move!Filled(p, r) \in target'
            BY <1>1, <1>8, <3>1
        <3> QED BY <1>2, <1>4, <1>5, <3>1, <3>2
    <2> QED BY <1>7, <2>1, <2>2
<1> QED BY <1>9, <1>10, <1>11

LEMMA CountedApart ==
    ASSUME NEW S, NEW T, IsFiniteSet(S), IsFiniteSet(T), S \cap T = {}
    PROVE  IsFiniteSet(S \cup T) /\ Cardinality(S \cup T) = Cardinality(S) + Cardinality(T)
<1>1. IsFiniteSet(S \cup T) /\ Cardinality(S \cup T) = Cardinality(S) + Cardinality(T) - Cardinality(S \cap T)
    BY FS_Union
<1>2. Cardinality(S \cap T) = 0
    BY FS_EmptySet
<1>3. Cardinality(S) \in Nat /\ Cardinality(T) \in Nat
    BY FS_CardinalityType
<1>4. Cardinality(S) + Cardinality(T) - 0 = Cardinality(S) + Cardinality(T)
    BY <1>3
<1> QED BY <1>1, <1>2, <1>4

\* The rows of the old database are counted once each.
LEMMA RowsCounted ==
    ASSUME rows \in Seq(Rows), NEW archive
    PROVE  Len(rows) = Move!Cardinality({i \in Move!Planned(archive) : Move!Of(rows[i].key) = {}})
                     + Move!Cardinality({i \in Move!Planned(archive) : Move!Of(rows[i].key) # {}})
                     + Move!Cardinality(Move!Duplicates(archive)) + Move!Cardinality(Move!Archived(archive))
                     + Move!Cardinality(Move!Invalid)
<1> DEFINE D == 1..Len(rows)
           I == {i \in Move!Planned(archive) : Move!Of(rows[i].key) = {}}
           E == {i \in Move!Planned(archive) : Move!Of(rows[i].key) # {}}
           U == Move!Duplicates(archive)
           A == Move!Archived(archive)
           V == Move!Invalid
<1>1. DOMAIN rows = D /\ Len(rows) \in Nat
    OBVIOUS
<1>2. IsFiniteSet(D) /\ Cardinality(D) = Len(rows)
    BY <1>1, FS_Interval
<1>3. /\ I \subseteq D /\ E \subseteq D /\ U \subseteq D /\ A \subseteq D /\ V \subseteq D
      /\ D = I \cup (E \cup (U \cup (A \cup V)))
      /\ I \cap (E \cup (U \cup (A \cup V))) = {} /\ E \cap (U \cup (A \cup V)) = {} /\ U \cap (A \cup V) = {}
    BY <1>1 DEF Move!Planned, Move!Mappable, Move!Duplicates, Move!Archived, Move!Invalid
<1>4. A \cap V = {}
    BY DEF Move!Archived, Move!Invalid
<1> HIDE DEF D, I, E, U, A, V
<1>5. IsFiniteSet(I) /\ IsFiniteSet(E) /\ IsFiniteSet(U) /\ IsFiniteSet(A) /\ IsFiniteSet(V)
    BY <1>2, <1>3, FS_Subset
<1>6. Cardinality(I) \in Nat /\ Cardinality(E) \in Nat /\ Cardinality(U) \in Nat /\ Cardinality(A) \in Nat /\ Cardinality(V) \in Nat
    BY <1>5, FS_CardinalityType
<1>7. IsFiniteSet(A \cup V) /\ Cardinality(A \cup V) = Cardinality(A) + Cardinality(V)
    BY <1>4, <1>5, CountedApart
<1>8. IsFiniteSet(U \cup (A \cup V)) /\ Cardinality(U \cup (A \cup V)) = Cardinality(U) + Cardinality(A \cup V)
    BY <1>3, <1>5, <1>7, CountedApart
<1>9. IsFiniteSet(E \cup (U \cup (A \cup V))) /\ Cardinality(E \cup (U \cup (A \cup V))) = Cardinality(E) + Cardinality(U \cup (A \cup V))
    BY <1>3, <1>5, <1>8, CountedApart
<1>10. Cardinality(D) = Cardinality(I) + Cardinality(E \cup (U \cup (A \cup V)))
    BY <1>3, <1>5, <1>9, CountedApart
<1>11. Len(rows) = Cardinality(I) + Cardinality(E) + Cardinality(U) + Cardinality(A) + Cardinality(V)
    BY <1>2, <1>6, <1>7, <1>8, <1>9, <1>10
<1> QED BY <1>11, MoveCards DEF I, E, U, A, V

\* What a second apply inserts was archived by the first.
LEMMA InsertsFew ==
    ASSUME MoveInv, result.ok, NEW archive
    PROVE  Move!Cardinality({i \in Move!Planned(archive) : Move!Of(rows[i].key) = {}}) <= result.archived
<1> DEFINE I == {i \in Move!Planned(archive) : Move!Of(rows[i].key) = {}}
<1>1. PICK first \in BOOLEAN : Covers(first) /\ result.archived = Move!Cardinality(Move!Archived(first))
    BY DEF MoveInv
<1>2. I \subseteq Move!Archived(first)
    BY <1>1 DEF Covers, Move!Of, Move!Planned, Move!Mappable
<1>3. IsFiniteSet(DOMAIN rows) /\ Move!Archived(first) \subseteq DOMAIN rows
    BY FS_Interval DEF MoveInv, Move!Archived
<1>4. IsFiniteSet(Move!Archived(first))
    BY <1>3, FS_Subset
<1>5. Cardinality(I) <= Cardinality(Move!Archived(first))
    BY <1>2, <1>4, FS_Subset
<1> QED BY <1>1, <1>5, MoveCards

\* The other tables: a natural key is written once.
LEMMA AuxStays ==
    ASSUME MoveInv, MoveAssumption,
           aux' = (aux \ UNION {Move!Copies(row) : row \in OldAux}) \cup UNION {Move!AuxWritten(row) : row \in OldAux}
    PROVE  /\ aux' \subseteq AuxRows /\ Keyed(aux')
           /\ \A a \in aux : a.table \notin Move!Overwritten => a \in aux'
<1>1. \A row \in OldAux : Move!Copies(row) \subseteq aux /\ \A a \in Move!Copies(row) : a.table = row.table /\ a.key = row.key /\ Move!Dated(a)
    BY DEF Move!Copies, Move!Dated
<1>2. ASSUME NEW row \in OldAux, NEW a \in Move!AuxWritten(row)
      PROVE  /\ a \in AuxRows /\ a.table = row.table /\ a.key = row.key
             /\ a \in Move!Copies(row) \/ Move!Copies(row) = {} \/ row.table \in Move!Overwritten
    <2>1. CASE Move!Copies(row) = {}
        BY <1>2, <2>1 DEF Move!AuxWritten, AuxRows, MoveInv
    <2>2. CASE Move!Copies(row) # {} /\ row.table \in Move!Overwritten
        <3>1. PICK b \in Move!Copies(row) : a = [b EXCEPT !.value = "old"]
            BY <1>2, <2>2 DEF Move!AuxWritten
        <3>2. b \in AuxRows
            BY <1>1 DEF MoveInv
        <3> QED BY <1>1, <2>2, <3>1, <3>2 DEF AuxRows
    <2>3. CASE Move!Copies(row) # {} /\ row.table \notin Move!Overwritten
        BY <1>1, <1>2, <2>3 DEF Move!AuxWritten, MoveInv
    <2> QED BY <2>1, <2>2, <2>3
<1>3. aux' \subseteq AuxRows
    BY <1>2 DEF MoveInv
<1>4. ASSUME NEW row \in OldAux, NEW a \in Move!AuxWritten(row), NEW b \in Move!AuxWritten(row) PROVE a = b
    <2>1. \A x, y \in Move!Copies(row) : x = y
        BY <1>1 DEF MoveInv, Keyed
    <2> QED BY <1>4, <2>1 DEF Move!AuxWritten
<1>5. ASSUME NEW a \in aux', NEW b \in aux', Move!Dated(a), a.table = b.table, a.key = b.key PROVE a = b
    <2> DEFINE Old(x) == x \in aux /\ \A row \in OldAux : x \notin Move!Copies(row)
               By(x, row) == x \in Move!AuxWritten(row)
    <2>1. \A x \in aux' : Old(x) \/ \E row \in OldAux : By(x, row)
        OBVIOUS
    <2>2. \A x \in aux' : Old(x) /\ Move!Dated(x) => \A row \in OldAux : ~(x.table = row.table /\ x.key = row.key)
        BY DEF Move!Copies, Move!Dated
    <2>3. Move!Dated(b)
        BY <1>5 DEF Move!Dated
    <2>4. CASE Old(a) /\ Old(b)
        BY <1>5, <2>4 DEF MoveInv, Keyed
    <2>5. CASE Old(a) /\ ~Old(b)
        BY <1>2, <1>5, <2>1, <2>2, <2>5
    <2>6. CASE ~Old(a) /\ Old(b)
        BY <1>2, <1>5, <2>1, <2>2, <2>3, <2>6
    <2>7. CASE ~Old(a) /\ ~Old(b)
        <3>1. PICK r \in OldAux : By(a, r)
            BY <2>1, <2>7
        <3>2. PICK s \in OldAux : By(b, s)
            BY <2>1, <2>7
        <3>3. r = s
            BY <1>2, <1>5, <3>1, <3>2, MoveAssumption
        <3> QED BY <1>4, <3>1, <3>2, <3>3
    <2> QED BY <2>4, <2>5, <2>6, <2>7
<1>6. ASSUME NEW a \in aux, a.table \notin Move!Overwritten PROVE a \in aux'
    <2>1. CASE \E row \in OldAux : a \in Move!Copies(row)
        <3>1. PICK row \in OldAux : a \in Move!Copies(row)
            BY <2>1
        <3>2. a \in Move!AuxWritten(row)
            BY <1>1, <1>6, <3>1 DEF Move!AuxWritten
        <3> QED BY <3>2
    <2>2. CASE ~\E row \in OldAux : a \in Move!Copies(row)
        BY <2>2
    <2> QED BY <2>1, <2>2
<1> QED BY <1>3, <1>5, <1>6 DEF Keyed

\* What an apply that passed its gate does, and what the other steps do.
MoveKeeps ==
    applied' # applied =>
        /\ result'.ok => /\ \A p \in target : \E q \in target' : q.key = p.key /\ q.review = p.review /\ q.strategy = p.strategy
                         /\ result.ok => result'.inserted <= result.archived
        /\ Keyed(aux')
        /\ \A a \in aux : a.table \notin Move!Overwritten => a \in aux'

LEMMA MoveStep == ASSUME MoveInv, MoveAssumption, [Move!Next]_moveVars PROVE MoveInv' /\ MoveKeeps
<1>1. ASSUME NEW archive \in BOOLEAN, NEW u, NEW v, Move!Apply(archive, u, v), Move!Gate(archive, u, v)
      PROVE  MoveInv' /\ MoveKeeps
    <2> DEFINE inserted == Move!Cardinality({i \in Move!Planned(archive) : Move!Of(rows[i].key) = {}})
               existing == Move!Cardinality({i \in Move!Planned(archive) : Move!Of(rows[i].key) # {}})
               duplicates == Move!Cardinality(Move!Duplicates(archive))
               archived == Move!Cardinality(Move!Archived(archive))
               invalid == Move!Cardinality(Move!Invalid)
               mismatch == Move!Mismatches(archive, target')
    <2>1. /\ target' = Move!Written(archive) /\ rows' = rows /\ applied' = applied + 1
          /\ aux' = (aux \ UNION {Move!Copies(row) : row \in OldAux}) \cup UNION {Move!AuxWritten(row) : row \in OldAux}
        BY <1>1 DEF Move!Apply
    <2>2. result' = [ok |-> TRUE, total |-> Len(rows), inserted |-> inserted, existing |-> existing, duplicates |-> duplicates,
                     archived |-> archived, invalid |-> invalid, mismatch |-> mismatch]
        BY <1>1 DEF Move!Apply
    <2>3. Len(rows) = inserted + existing + duplicates + archived + invalid
        BY RowsCounted DEF MoveInv
    <2>4. result.ok => inserted <= result.archived
        BY InsertsFew
    <2> HIDE DEF inserted, existing, duplicates, invalid, mismatch
    <2>5. /\ result'.ok /\ result'.inserted = inserted /\ result'.archived = archived
          /\ result'.total = result'.inserted + result'.existing + result'.duplicates + result'.archived + result'.invalid
        BY <2>2, <2>3
    <2>6. /\ target' \subseteq PickTypes
          /\ \A i \in Move!Mappable(archive) : \E p \in target' : p.key = rows[i].key
          /\ \A p \in target : \E q \in target' : q.key = p.key /\ q.review = p.review /\ q.strategy = p.strategy
        BY <2>1, PicksWritten
    <2>7. /\ aux' \subseteq AuxRows /\ Keyed(aux')
          /\ \A a \in aux : a.table \notin Move!Overwritten => a \in aux'
        BY <2>1, AuxStays
    <2>8. Covers(archive)' /\ (result.archived = Move!Cardinality(Move!Archived(archive)))'
        BY <2>1, <2>5, <2>6 DEF Covers, Move!Mappable, Move!Archived, Move!Invalid
    <2>9. (Move!NothingLost)'
        BY <2>1, <2>5, <2>6 DEF Move!NothingLost, Move!Mappable, Move!Archived, Move!Invalid
    <2>10. (rows \in Seq(Rows) /\ applied \in Nat)'
        BY <2>1 DEF MoveInv
    <2>11. MoveInv'
        BY <2>6, <2>7, <2>8, <2>9, <2>10 DEF MoveInv
    <2> QED BY <2>4, <2>5, <2>6, <2>7, <2>11 DEF MoveKeeps
<1>2. ASSUME NEW archive \in BOOLEAN, NEW u, NEW v, Move!Apply(archive, u, v), ~Move!Gate(archive, u, v)
      PROVE  MoveInv' /\ MoveKeeps
    <2>1. UNCHANGED <<rows, target, aux>> /\ applied' = applied + 1 /\ ~result'.ok
        BY <1>2 DEF Move!Apply, Move!NoResult
    <2>2. applied' \in Nat /\ Keyed(aux) /\ Keyed(aux')
        BY <2>1 DEF MoveInv
    <2>3. MoveInv'
        BY <2>1, <2>2 DEF MoveInv, Move!NothingLost
    <2> QED BY <2>1, <2>2, <2>3 DEF MoveKeeps
<1>3. CASE Move!Add
    <2>1. PICK row \in Rows : rows' = Append(rows, row)
        BY <1>3 DEF Move!Add
    <2>2. UNCHANGED <<target, aux, applied>> /\ ~result'.ok /\ rows' \in Seq(Rows)
        BY <1>3, <2>1 DEF Move!Add, Move!NoResult, MoveInv
    <2> QED BY <2>2 DEF MoveInv, MoveKeeps, Keyed, Move!NothingLost
<1>4. ASSUME NEW p \in target, Move!Review(p) PROVE MoveInv' /\ MoveKeeps
    <2> DEFINE q == [p EXCEPT !.review = "new"]
    <2>1. target' = (target \ {p}) \cup {q} /\ UNCHANGED <<rows, aux, applied, result>>
        BY <1>4 DEF Move!Review
    <2>2. q \in PickTypes /\ q.key = p.key
        BY DEF MoveInv, PickTypes
    <2> HIDE DEF q
    <2>3. \A k : (\E x \in target : x.key = k) => \E x \in target' : x.key = k
        BY <2>1, <2>2
    <2>4. \A archive : Covers(archive) => Covers(archive)'
        BY <2>1, <2>3 DEF Covers, Move!Mappable, Move!Archived, Move!Invalid
    <2>5. \A archive : Move!Archived(archive)' = Move!Archived(archive) /\ Move!Mappable(archive)' = Move!Mappable(archive)
        BY <2>1 DEF Move!Mappable, Move!Archived, Move!Invalid
    <2>6. (Move!NothingLost)'
        BY <2>1, <2>3, <2>5 DEF MoveInv, Move!NothingLost
    <2>7. target' \subseteq PickTypes
        BY <2>1, <2>2 DEF MoveInv
    <2> QED BY <2>1, <2>4, <2>5, <2>6, <2>7 DEF MoveInv, MoveKeeps, Keyed
<1>5. ASSUME NEW a \in aux, Move!Change(a) PROVE MoveInv' /\ MoveKeeps
    <2> DEFINE b == [a EXCEPT !.value = "new"]
    <2>1. aux' = (aux \ {a}) \cup {b} /\ UNCHANGED <<rows, target, applied, result>>
        BY <1>5 DEF Move!Change
    <2>2. b \in AuxRows /\ b.key = a.key /\ b.table = a.table
        BY DEF MoveInv, AuxRows
    <2> HIDE DEF b
    <2>3. aux' \subseteq AuxRows /\ Keyed(aux')
        BY <2>1, <2>2 DEF MoveInv, Keyed, Move!Dated
    <2> QED BY <2>1, <2>3 DEF MoveInv, MoveKeeps, Covers, Move!NothingLost, Move!Mappable, Move!Archived, Move!Invalid
<1>6. CASE UNCHANGED moveVars
    BY <1>6 DEF moveVars, MoveInv, MoveKeeps, Keyed, Covers, Move!NothingLost, Move!Mappable, Move!Archived, Move!Invalid
<1>7. CASE Move!Next
    BY <1>1, <1>2, <1>3, <1>4, <1>5, <1>7 DEF Move!Next
<1> QED BY <1>6, <1>7

-----------------------------------------------------------------------------
\* Fractions with positive denominators are in an order, and a fall from a higher
\* value to the same one is no smaller.
Pos == Nat \ {0}
Fraction == Int \X Pos
Value == Pos \X Pos

LEMMA Products ==
    ASSUME NEW a \in Int, NEW b \in Int, NEW k \in Pos
    PROVE  /\ a * k \in Int /\ (a <= b => a * k <= b * k) /\ (a * k <= b * k => a <= b)
           /\ (a > 0 => a * k > 0)
BY SMTT(20) DEF Pos
LEMMA Reordered ==
    ASSUME NEW a \in Int, NEW b \in Int, NEW c \in Int
    PROVE  /\ a * b \in Int /\ (a * b) * c = (a * c) * b /\ (a * b) * c = a * (b * c) /\ a * b = b * a
BY SMTT(20)

LEMMA Transitive ==
    ASSUME NEW a \in Fraction, NEW b \in Fraction, NEW c \in Fraction, ~Pool!Exceeds(a, b), ~Pool!Exceeds(b, c)
    PROVE  ~Pool!Exceeds(a, c)
<1>1. PICK a1 \in Int, a2 \in Pos, b1 \in Int, b2 \in Pos, c1 \in Int, c2 \in Pos :
            a = <<a1, a2>> /\ b = <<b1, b2>> /\ c = <<c1, c2>>
    BY DEF Fraction
<1>2. a2 \in Int /\ b2 \in Int /\ c2 \in Int
    BY DEF Pos
<1>3. a1 * b2 <= b1 * a2 /\ b1 * c2 <= c1 * b2
    BY <1>1, <1>2, Reordered DEF Pool!Exceeds
<1>4. (a1 * b2) * c2 <= (b1 * a2) * c2 /\ (b1 * c2) * a2 <= (c1 * b2) * a2
    BY <1>2, <1>3, Reordered, Products
<1>5. (a1 * c2) * b2 <= (c1 * a2) * b2
  <2>1. (a1 * b2) * c2 = (a1 * c2) * b2 /\ (b1 * a2) * c2 = (b1 * c2) * a2 /\ (c1 * b2) * a2 = (c1 * a2) * b2
    BY <1>2, Reordered
  <2>2. (a1 * c2) * b2 \in Int /\ (b1 * c2) * a2 \in Int /\ (c1 * a2) * b2 \in Int
    BY <1>2, Reordered
  <2> QED BY <1>4, <2>1, <2>2
<1>6. a1 * c2 <= c1 * a2
    BY <1>2, <1>5, Reordered, Products
<1> QED BY <1>1, <1>2, <1>6, Reordered DEF Pool!Exceeds

LEMMA FallGrows ==
    ASSUME NEW p \in Value, NEW q \in Value, NEW v \in Value, ~Pool!Exceeds(p, q)
    PROVE  ~Pool!Exceeds(Pool!Drop(p, v), Pool!Drop(q, v))
<1>1. PICK p1 \in Pos, p2 \in Pos, q1 \in Pos, q2 \in Pos, v1 \in Pos, v2 \in Pos :
            p = <<p1, p2>> /\ q = <<q1, q2>> /\ v = <<v1, v2>>
    BY DEF Value
<1>2. p1 \in Int /\ p2 \in Int /\ q1 \in Int /\ q2 \in Int /\ v1 \in Int /\ v2 \in Int
    BY DEF Pos
<1>3. p1 * q2 <= q1 * p2
    BY <1>1, <1>2, Reordered DEF Pool!Exceeds
<1> DEFINE w == v1 * v2
<1>4. w \in Pos
    BY <1>2, Products, Reordered DEF Pos
<1>5. (p1 * q2) * w <= (q1 * p2) * w
    BY <1>2, <1>3, <1>4, Reordered, Products
<1>6. (p1 * v2 - v1 * p2) * (v2 * q1) = (p1 * q1) * (v2 * v2) - (q1 * p2) * w
    BY <1>2, SMTT(60)
<1>7. (q1 * v2 - v1 * q2) * (v2 * p1) = (p1 * q1) * (v2 * v2) - (p1 * q2) * w
    BY <1>2, SMTT(60)
<1>8. (p1 * v2 - v1 * p2) * (v2 * q1) <= (q1 * v2 - v1 * q2) * (v2 * p1)
  <2>1. (p1 * q2) * w \in Int /\ (q1 * p2) * w \in Int /\ (p1 * q1) * (v2 * v2) \in Int
    BY <1>2, <1>4, Reordered DEF Pos
  <2> HIDE DEF w
  <2> QED BY <1>5, <1>6, <1>7, <2>1
<1> QED BY <1>1, <1>2, <1>8, Reordered DEF Pool!Exceeds, Pool!Drop

LEMMA DropType ==
    ASSUME NEW p \in Value, NEW v \in Value
    PROVE  Pool!Drop(p, v) \in Fraction /\ p \in Fraction
<1>1. PICK p1 \in Pos, p2 \in Pos, v1 \in Pos, v2 \in Pos : p = <<p1, p2>> /\ v = <<v1, v2>>
    BY DEF Value
<1>2. p1 \in Int /\ p2 \in Int /\ v1 \in Int /\ v2 \in Int /\ v2 > 0
    BY DEF Pos
<1>3. v2 * p1 \in Pos /\ p1 * v2 - v1 * p2 \in Int
    BY <1>2, Products, Reordered DEF Pos
<1> QED BY <1>1, <1>2, <1>3 DEF Pool!Drop, Fraction

LEMMA NoFall == ASSUME NEW v \in Value PROVE ~Pool!Exceeds(<<0, 1>>, Pool!Drop(v, v)) /\ ~Pool!Exceeds(Pool!Drop(v, v), <<0, 1>>)
<1>1. PICK v1 \in Pos, v2 \in Pos : v = <<v1, v2>>
    BY DEF Value
<1>2. v1 * v2 - v1 * v2 = 0 /\ v2 * v1 \in Int
    BY Reordered DEF Pos
<1>3. Pool!Drop(v, v) = <<0, v2 * v1>>
    BY <1>1, <1>2 DEF Pool!Drop
<1> QED BY <1>2, <1>3 DEF Pool!Exceeds

LEMMA Compared ==
    ASSUME NEW a \in Fraction, NEW b \in Fraction
    PROVE  /\ ~Pool!Exceeds(a, a) /\ (Pool!Exceeds(b, a) => ~Pool!Exceeds(a, b))
           /\ Pool!Greater(a, b) \in {a, b}
           /\ ~Pool!Exceeds(a, Pool!Greater(a, b)) /\ ~Pool!Exceeds(b, Pool!Greater(a, b))
<1>1. PICK a1 \in Int, a2 \in Pos, b1 \in Int, b2 \in Pos : a = <<a1, a2>> /\ b = <<b1, b2>>
    BY DEF Fraction
<1>2. a1 * b2 \in Int /\ b1 * a2 \in Int /\ a1 * a2 \in Int /\ b1 * b2 \in Int
    BY Reordered DEF Pos
<1>3. ~Pool!Exceeds(a, a) /\ ~Pool!Exceeds(b, b) /\ (Pool!Exceeds(b, a) => ~Pool!Exceeds(a, b))
    BY <1>1, <1>2 DEF Pool!Exceeds
<1> QED BY <1>3 DEF Pool!Greater

-----------------------------------------------------------------------------
\* From one place to the next, to all.
LEMMA Upwards ==
    ASSUME NEW n \in Nat, NEW S, 1 \in S, \A i \in 1..n : i # 1 /\ i - 1 \in S => i \in S
    PROVE  \A i \in 1..n : i \in S
<1> DEFINE Bad == (1..n) \ S
<1>1. SUFFICES ASSUME Bad # {} PROVE FALSE
    OBVIOUS
<1>2. PICK k \in Bad : \A j \in Bad : k <= j
  <2>1. Bad \subseteq Nat
    OBVIOUS
  <2> HIDE DEF Bad
  <2> QED BY <1>1, <2>1, LeastIsThere
<1>3. k \in 1..n /\ k \notin S /\ k # 1 /\ k - 1 \in 1..n
    BY <1>2
<1>4. k - 1 \in S
    BY <1>2, <1>3
<1> QED BY <1>3, <1>4

\* A function given by its first value and by the next value from each is there.
Follows(f, n, b, g) == f = [i \in 1..n |-> IF i = 1 THEN b ELSE g[<<i, f[i - 1]>>]]
LEMMA Iterated ==
    ASSUME NEW n \in Pos, NEW X, NEW b \in X, NEW g \in [(1..n) \X X -> X]
    PROVE  \E f \in [1..n -> X] : Follows(f, n, b, g)
<1> DEFINE There(k) == \E f \in [1..k -> X] : Follows(f, k, b, g)
           S == {k \in 1..n : There(k)}
<1>1. 1 \in S
  <2> DEFINE f == [i \in 1..1 |-> b]
  <2>1. f \in [1..1 -> X] /\ Follows(f, 1, b, g)
    BY DEF Follows
  <2> HIDE DEF f
  <2> QED BY <2>1 DEF Pos
<1>2. ASSUME NEW k \in 1..n, k # 1, k - 1 \in S PROVE k \in S
  <2>1. k - 1 \in 1..n
    BY <1>2
  <2>2. PICK f \in [1..(k - 1) -> X] : Follows(f, k - 1, b, g)
    BY <1>2
  <2> DEFINE h == [i \in 1..k |-> IF i = k THEN g[<<k, f[k - 1]>>] ELSE f[i]]
  <2>3. g[<<k, f[k - 1]>>] \in X
    BY <2>1, <2>2
  <2>4. h \in [1..k -> X]
    BY <2>2, <2>3
  <2>5. ASSUME NEW i \in 1..k PROVE h[i] = IF i = 1 THEN b ELSE g[<<i, h[i - 1]>>]
    <3>1. CASE i = k
      <4>1. h[i - 1] = f[k - 1]
        BY <1>2, <3>1
      <4> QED BY <1>2, <3>1, <4>1
    <3>2. CASE i # k
      <4>1. i \in 1..(k - 1) /\ h[i] = f[i] /\ (i # 1 => h[i - 1] = f[i - 1])
        BY <3>2
      <4>2. f[i] = IF i = 1 THEN b ELSE g[<<i, f[i - 1]>>]
        BY <2>2, <4>1 DEF Follows
      <4> QED BY <4>1, <4>2
    <3> QED BY <3>1, <3>2
  <2> HIDE DEF h
  <2>6. Follows(h, k, b, g)
    BY <2>4, <2>5 DEF Follows
  <2> QED BY <2>4, <2>6
<1> HIDE DEF S, There
<1>3. n \in 1..n /\ n \in Nat
    BY DEF Pos
<1>4. n \in S
    BY <1>1, <1>2, <1>3, Upwards
<1> QED BY <1>4 DEF S, There

-----------------------------------------------------------------------------
\* The equity after each trade.
LEMMA Multiplied == ASSUME NEW a \in Pos, NEW b \in Pos PROVE a * b \in Pos
BY Products, Reordered DEF Pos
LEMMA EquityFacts ==
    ASSUME NEW ts, NEW n \in Nat, n = Len(ts), \A i \in 1..n : ts[i].paid \in Pos /\ ts[i].got \in Pos
    PROVE  Pool!Equity(ts) \in [1..n + 1 -> Value]
<1> DEFINE b == <<1, 1>>
           g == [x \in (1..(n + 1)) \X Value |-> IF x[1] = 1 THEN x[2] ELSE <<x[2][1] * ts[x[1] - 1].got, x[2][2] * ts[x[1] - 1].paid>>]
           Rule(e) == e = [i \in 1..(n + 1) |-> IF i = 1 THEN <<1, 1>> ELSE <<e[i - 1][1] * ts[i - 1].got, e[i - 1][2] * ts[i - 1].paid>>]
<1>1. n + 1 \in Pos /\ b \in Value
    BY DEF Pos, Value
<1>2. ASSUME NEW i \in 1..(n + 1), i # 1, NEW v \in Value
      PROVE  <<v[1] * ts[i - 1].got, v[2] * ts[i - 1].paid>> \in Value
  <2>1. i - 1 \in 1..n /\ v[1] \in Pos /\ v[2] \in Pos
    BY <1>2 DEF Value
  <2> QED BY <2>1, Multiplied DEF Value
<1>3. g \in [(1..(n + 1)) \X Value -> Value]
  <2>1. ASSUME NEW x \in (1..(n + 1)) \X Value
        PROVE  (IF x[1] = 1 THEN x[2] ELSE <<x[2][1] * ts[x[1] - 1].got, x[2][2] * ts[x[1] - 1].paid>>) \in Value
    BY <1>2
  <2> QED BY <2>1
<1>4. ASSUME NEW f \in [1..(n + 1) -> Value] PROVE Follows(f, n + 1, b, g) <=> Rule(f)
  <2>1. ASSUME NEW i \in 1..(n + 1), i # 1
        PROVE  g[<<i, f[i - 1]>>] = <<f[i - 1][1] * ts[i - 1].got, f[i - 1][2] * ts[i - 1].paid>>
    <3>1. <<i, f[i - 1]>> \in (1..(n + 1)) \X Value
        BY <2>1
    <3> QED BY <2>1, <3>1
  <2> HIDE DEF g
  <2> QED BY <2>1 DEF Follows
<1>5. PICK f \in [1..(n + 1) -> Value] : Rule(f)
    BY <1>1, <1>3, <1>4, Iterated
<1>6. Pool!Equity(ts) = CHOOSE e : Rule(e)
    BY DEF Pool!Equity
<1> HIDE DEF Rule
<1>7. Rule(Pool!Equity(ts))
    BY <1>5, <1>6
<1> DEFINE e == Pool!Equity(ts)
           S == {i \in 1..(n + 1) : e[i] \in Value}
<1>8. e = [i \in 1..(n + 1) |-> e[i]]
    BY <1>7 DEF Rule
<1>9. \A i \in 1..(n + 1) : e[i] = IF i = 1 THEN b ELSE <<e[i - 1][1] * ts[i - 1].got, e[i - 1][2] * ts[i - 1].paid>>
    BY <1>7 DEF Rule
<1> HIDE DEF e, b
<1>10. 1 \in S
  <2>1. 1 \in 1..(n + 1)
    OBVIOUS
  <2> QED BY <1>1, <1>9, <2>1
<1>11. ASSUME NEW i \in 1..(n + 1), i # 1, i - 1 \in S PROVE i \in S
    BY <1>2, <1>9, <1>11
<1>12. \A i \in 1..(n + 1) : i \in S
  <2>1. n + 1 \in Nat
    OBVIOUS
  <2> HIDE DEF S
  <2> QED BY <1>10, <1>11, <2>1, Upwards
<1> QED BY <1>8, <1>12 DEF e

\* The fall of a curve: from the highest value so far, and the deepest of them.
LEMMA DrawdownFacts ==
    ASSUME NEW n \in Pos, NEW c \in [1..n -> Value], Len(c) = n
    PROVE  /\ Pool!MaxDrawdown(c) \in Fraction
           /\ \A j \in 1..n : \A i \in 1..j : ~Pool!Exceeds(Pool!Drop(c[i], c[j]), Pool!MaxDrawdown(c))
           /\ \E j \in 1..n : \E i \in 1..j : ~Pool!Exceeds(Pool!MaxDrawdown(c), Pool!Drop(c[i], c[j]))
<1> DEFINE Peak(p) == p = [i \in 1..n |-> IF i = 1 THEN c[1] ELSE Pool!Greater(p[i - 1], c[i])]
           peak == CHOOSE p : Peak(p)
           Worst(w) == w = [i \in 1..n |-> IF i = 1 THEN <<0, 1>> ELSE Pool!Greater(w[i - 1], Pool!Drop(peak[i], c[i]))]
           worst == CHOOSE w : Worst(w)
<1>1. Pool!MaxDrawdown(c) = worst[n]
    BY DEF Pool!MaxDrawdown
<1>2. 1 \in 1..n /\ n \in 1..n /\ n \in Nat
    BY DEF Pos
<1>3. \A x \in Value, y \in Value : Pool!Greater(x, y) \in Value
    BY DEF Pool!Greater
<1>4. \A x \in Fraction, y \in Fraction : Pool!Greater(x, y) \in Fraction
    BY DEF Pool!Greater
<1>5. Peak(peak)
  <2> DEFINE g == [x \in (1..n) \X Value |-> Pool!Greater(x[2], c[x[1]])]
  <2>1. g \in [(1..n) \X Value -> Value] /\ c[1] \in Value
    BY <1>2, <1>3
  <2>2. PICK f \in [1..n -> Value] : Follows(f, n, c[1], g)
    <3> HIDE DEF g
    <3> QED BY <2>1, Iterated
  <2>3. ASSUME NEW i \in 1..n, i # 1 PROVE g[<<i, f[i - 1]>>] = Pool!Greater(f[i - 1], c[i])
    <3>1. <<i, f[i - 1]>> \in (1..n) \X Value
        BY <2>3
    <3> QED BY <3>1
  <2> HIDE DEF g
  <2>4. Peak(f)
    BY <2>2, <2>3 DEF Follows
  <2> HIDE DEF Peak
  <2> QED BY <2>4
<1> HIDE DEF peak
<1>6. /\ peak = [i \in 1..n |-> peak[i]]
      /\ \A i \in 1..n : peak[i] = IF i = 1 THEN c[1] ELSE Pool!Greater(peak[i - 1], c[i])
    BY <1>5
<1> HIDE DEF Peak
<1> DEFINE High(k) == peak[k] \in Value /\ (\A i \in 1..k : ~Pool!Exceeds(c[i], peak[k])) /\ \E i \in 1..k : peak[k] = c[i]
           H == {k \in 1..n : High(k)}
<1>7. 1 \in H
  <2>1. peak[1] = c[1] /\ c[1] \in Value /\ c[1] \in Fraction
    BY <1>2, <1>6, DropType
  <2>2. ~Pool!Exceeds(c[1], peak[1])
    BY <2>1, Compared
  <2> QED BY <1>2, <2>1, <2>2
<1>8. ASSUME NEW k \in 1..n, k # 1, k - 1 \in H PROVE k \in H
  <2> DEFINE a == peak[k - 1]
             b == c[k]
  <2>1. a \in Value /\ b \in Value /\ peak[k] = Pool!Greater(a, b)
    BY <1>6, <1>8
  <2>2. (\A i \in 1..(k - 1) : ~Pool!Exceeds(c[i], a)) /\ \E i \in 1..(k - 1) : a = c[i]
    BY <1>8
  <2> HIDE DEF a
  <2>3. a \in Fraction /\ b \in Fraction /\ peak[k] \in Value /\ peak[k] \in Fraction
    BY <1>3, <2>1, DropType
  <2>4. ~Pool!Exceeds(a, peak[k]) /\ ~Pool!Exceeds(b, peak[k]) /\ peak[k] \in {a, b}
    BY <2>1, <2>3, Compared
  <2>5. ASSUME NEW i \in 1..k PROVE ~Pool!Exceeds(c[i], peak[k])
    <3>1. CASE i = k
        BY <2>4, <3>1
    <3>2. CASE i # k
      <4>1. i \in 1..(k - 1) /\ c[i] \in Fraction
        BY <3>2, DropType
      <4> QED BY <2>2, <2>3, <2>4, <4>1, Transitive
    <3> QED BY <3>1, <3>2
  <2>6. \E i \in 1..k : peak[k] = c[i]
    BY <2>2, <2>4
  <2> QED BY <2>3, <2>5, <2>6
<1>9. \A k \in 1..n : High(k)
  <2> HIDE DEF High
  <2>1. \A k \in 1..n : k \in H
    <3> HIDE DEF H
    <3> QED BY <1>2, <1>7, <1>8, Upwards
  <2> QED BY <2>1
<1>10. \A k \in 1..n : Pool!Drop(peak[k], c[k]) \in Fraction
  <2>1. \A k \in 1..n : peak[k] \in Value /\ c[k] \in Value
    BY <1>9
  <2> HIDE DEF High
  <2> QED BY <2>1, DropType
<1>11. Worst(worst)
  <2> DEFINE g == [x \in (1..n) \X Fraction |-> Pool!Greater(x[2], Pool!Drop(peak[x[1]], c[x[1]]))]
             zero == <<0, 1>>
  <2>1. g \in [(1..n) \X Fraction -> Fraction] /\ zero \in Fraction
    BY <1>4, <1>10 DEF Fraction, Pos
  <2>2. PICK f \in [1..n -> Fraction] : Follows(f, n, zero, g)
    <3> HIDE DEF g, zero
    <3> QED BY <2>1, Iterated
  <2>3. ASSUME NEW i \in 1..n, i # 1 PROVE g[<<i, f[i - 1]>>] = Pool!Greater(f[i - 1], Pool!Drop(peak[i], c[i]))
    <3>1. <<i, f[i - 1]>> \in (1..n) \X Fraction
        BY <2>3
    <3> QED BY <3>1
  <2> HIDE DEF g
  <2>4. Worst(f)
    BY <2>2, <2>3 DEF Follows
  <2> HIDE DEF Worst
  <2> QED BY <2>4
<1> HIDE DEF worst, High
<1>12. \A i \in 1..n : worst[i] = IF i = 1 THEN <<0, 1>> ELSE Pool!Greater(worst[i - 1], Pool!Drop(peak[i], c[i]))
    BY <1>11
<1> HIDE DEF Worst
<1> DEFINE Low(k) == /\ worst[k] \in Fraction
                     /\ \A j \in 1..k : ~Pool!Exceeds(Pool!Drop(peak[j], c[j]), worst[k])
                     /\ \E j \in 1..k : ~Pool!Exceeds(worst[k], Pool!Drop(peak[j], c[j]))
           L == {k \in 1..n : Low(k)}
<1>13. 1 \in L
  <2>1. worst[1] = <<0, 1>> /\ <<0, 1>> \in Fraction /\ peak[1] = c[1] /\ c[1] \in Value
    <3>1. worst[1] = <<0, 1>> /\ peak[1] = c[1]
        BY <1>2, <1>6, <1>12
    <3>2. c[1] \in Value
        BY <1>2
    <3>3. <<0, 1>> \in Fraction
        BY DEF Fraction, Pos
    <3> QED BY <3>1, <3>2, <3>3
  <2>2. ~Pool!Exceeds(worst[1], Pool!Drop(peak[1], c[1])) /\ ~Pool!Exceeds(Pool!Drop(peak[1], c[1]), worst[1])
    BY <2>1, NoFall
  <2> QED BY <1>2, <2>1, <2>2
<1>14. ASSUME NEW k \in 1..n, k # 1, k - 1 \in L PROVE k \in L
  <2> DEFINE a == worst[k - 1]
             b == Pool!Drop(peak[k], c[k])
  <2>1. a \in Fraction /\ b \in Fraction /\ worst[k] = Pool!Greater(a, b)
    BY <1>10, <1>12, <1>14
  <2>2. /\ \A j \in 1..(k - 1) : ~Pool!Exceeds(Pool!Drop(peak[j], c[j]), a)
        /\ \E j \in 1..(k - 1) : ~Pool!Exceeds(a, Pool!Drop(peak[j], c[j]))
    BY <1>14
  <2>3. k \in Nat /\ 1..(k - 1) \subseteq 1..k /\ \A j \in 1..k : j = k \/ j \in 1..(k - 1)
    BY <1>14
  <2> HIDE DEF a, b
  <2>4. worst[k] \in Fraction /\ ~Pool!Exceeds(a, worst[k]) /\ ~Pool!Exceeds(b, worst[k]) /\ worst[k] \in {a, b} /\ ~Pool!Exceeds(b, b)
    BY <1>4, <2>1, Compared
  <2>5. ASSUME NEW j \in 1..k PROVE ~Pool!Exceeds(Pool!Drop(peak[j], c[j]), worst[k])
    <3>1. CASE j = k
        BY <2>4, <3>1 DEF b
    <3>2. CASE j # k
      <4>1. j \in 1..(k - 1) /\ j \in 1..n
        BY <3>2
      <4> QED BY <1>10, <2>1, <2>2, <2>4, <4>1, Transitive
    <3> QED BY <3>1, <3>2
  <2>6. \E j \in 1..k : ~Pool!Exceeds(worst[k], Pool!Drop(peak[j], c[j]))
    <3>1. CASE worst[k] = a
        BY <2>2, <2>3, <3>1
    <3>2. CASE worst[k] = b
      <4>1. k \in 1..k /\ ~Pool!Exceeds(worst[k], Pool!Drop(peak[k], c[k]))
        BY <2>4, <3>2 DEF b
      <4> QED BY <4>1
    <3> QED BY <2>4, <3>1, <3>2
  <2> QED BY <2>4, <2>5, <2>6
<1>15. \A k \in 1..n : Low(k)
  <2> HIDE DEF Low
  <2>1. \A k \in 1..n : k \in L
    <3> HIDE DEF L
    <3> QED BY <1>2, <1>13, <1>14, Upwards
  <2> QED BY <2>1
<1>16. ASSUME NEW j \in 1..n, NEW i \in 1..j PROVE ~Pool!Exceeds(Pool!Drop(c[i], c[j]), worst[n])
  <2>1. c[i] \in Value /\ c[j] \in Value /\ peak[j] \in Value /\ ~Pool!Exceeds(c[i], peak[j])
    BY <1>9, <1>16 DEF High, Pos
  <2>2. worst[n] \in Fraction /\ ~Pool!Exceeds(Pool!Drop(peak[j], c[j]), worst[n])
    BY <1>2, <1>15
  <2>3. ~Pool!Exceeds(Pool!Drop(c[i], c[j]), Pool!Drop(peak[j], c[j]))
    BY <2>1, FallGrows
  <2>4. Pool!Drop(c[i], c[j]) \in Fraction /\ Pool!Drop(peak[j], c[j]) \in Fraction
    BY <2>1, DropType
  <2> HIDE DEF Low
  <2> QED BY <2>2, <2>3, <2>4, Transitive
<1>17. \E j \in 1..n : \E i \in 1..j : ~Pool!Exceeds(worst[n], Pool!Drop(c[i], c[j]))
  <2>1. PICK j \in 1..n : ~Pool!Exceeds(worst[n], Pool!Drop(peak[j], c[j]))
    BY <1>2, <1>15
  <2>2. PICK i \in 1..j : peak[j] = c[i]
    BY <1>9 DEF High
  <2> QED BY <2>1, <2>2
<1>18. worst[n] \in Fraction
    BY <1>2, <1>15
<1> HIDE DEF Low
<1> QED BY <1>1, <1>16, <1>17, <1>18

-----------------------------------------------------------------------------
\* A scan has an order by risk, ties as they came, and only one: the k-th of it is
\* outranked by k - 1 others.
LEMMA PoolSize == \A S : Pool!Cardinality(S) = Cardinality(S)
BY DEF Pool!Cardinality, Cardinality

LEMMA TotalOrder ==
    ASSUME NEW s, NEW n \in Nat, DOMAIN s = 1..n, \A i \in 1..n : s[i].risk \in Int
    PROVE  /\ \A i \in 1..n : ~Pool!Before(s, i, i)
           /\ \A i, j \in 1..n : Pool!Before(s, i, j) => ~Pool!Before(s, j, i)
           /\ \A i, j \in 1..n : i # j => Pool!Before(s, i, j) \/ Pool!Before(s, j, i)
           /\ \A i, j, k \in 1..n : Pool!Before(s, i, j) /\ Pool!Before(s, j, k) => Pool!Before(s, i, k)
<1>1. ASSUME NEW i \in 1..n, NEW j \in 1..n, NEW k \in 1..n
      PROVE  /\ ~Pool!Before(s, i, i)
             /\ Pool!Before(s, i, j) => ~Pool!Before(s, j, i)
             /\ i # j => Pool!Before(s, i, j) \/ Pool!Before(s, j, i)
             /\ Pool!Before(s, i, j) /\ Pool!Before(s, j, k) => Pool!Before(s, i, k)
  <2>1. PICK a \in Int, b \in Int, c \in Int : a = s[i].risk /\ b = s[j].risk /\ c = s[k].risk
    OBVIOUS
  <2> QED BY <2>1 DEF Pool!Before
<1> QED BY <1>1

LEMMA OrderThere ==
    ASSUME NEW s, NEW n \in Nat, DOMAIN s = 1..n, \A i \in 1..n : s[i].risk \in Int
    PROVE  \E p \in [1..n -> 1..n] : \A i, j \in 1..n : i < j => Pool!Before(s, p[i], p[j])
<1> DEFINE D == 1..n
           rank == [i \in D |-> Cardinality(Pool!Better(s, i)) + 1]
<1>1. IsFiniteSet(D) /\ Cardinality(D) = n
  <2>1. IsFiniteSet(1..n) /\ Cardinality(1..n) = (IF 1 > n THEN 0 ELSE n - 1 + 1)
    BY FS_Interval
  <2> HIDE DEF rank
  <2> QED BY <2>1
<1>2. ASSUME NEW i \in D PROVE /\ IsFiniteSet(Pool!Better(s, i)) /\ Cardinality(Pool!Better(s, i)) \in Nat
                              /\ Cardinality(Pool!Better(s, i)) < n
  <2>1. Pool!Better(s, i) \in SUBSET D /\ i \notin Pool!Better(s, i) /\ i \in D
    BY TotalOrder DEF Pool!Better
  <2> HIDE DEF D
  <2>2. /\ IsFiniteSet(Pool!Better(s, i)) /\ Cardinality(Pool!Better(s, i)) <= Cardinality(D)
        /\ (Cardinality(D) = Cardinality(Pool!Better(s, i)) => D = Pool!Better(s, i))
    BY <1>1, <2>1, FS_Subset
  <2>3. Cardinality(Pool!Better(s, i)) \in Nat
    BY <2>2, FS_CardinalityType
  <2> QED BY <1>1, <2>1, <2>2, <2>3
<1>3. ASSUME NEW i \in D, NEW j \in D, Pool!Before(s, i, j) PROVE rank[i] < rank[j]
  <2>1. Pool!Better(s, i) \in SUBSET Pool!Better(s, j) /\ i \in Pool!Better(s, j) /\ i \notin Pool!Better(s, i)
    BY <1>3, TotalOrder DEF Pool!Better
  <2>2. /\ Cardinality(Pool!Better(s, i)) <= Cardinality(Pool!Better(s, j))
        /\ (Cardinality(Pool!Better(s, j)) = Cardinality(Pool!Better(s, i)) => Pool!Better(s, j) = Pool!Better(s, i))
    BY <1>2, <2>1, FS_Subset
  <2>3. Cardinality(Pool!Better(s, i)) < Cardinality(Pool!Better(s, j))
    BY <1>2, <2>1, <2>2
  <2> QED BY <1>2, <2>3
<1>4. rank \in [D -> D]
    BY <1>2
<1> HIDE DEF rank
<1>5. ASSUME NEW i \in D, NEW j \in D, rank[i] = rank[j] PROVE i = j
  <2>1. rank[i] \in Nat /\ rank[j] \in Nat
    BY <1>4
  <2>2. ~Pool!Before(s, i, j) /\ ~Pool!Before(s, j, i)
    BY <1>3, <1>5, <2>1
  <2> QED BY <2>2, TotalOrder
<1>6. rank \in Injection(D, D)
    BY <1>4, <1>5 DEF Injection, IsInjective
<1>7. rank \in Surjection(D, D)
  <2> HIDE DEF D
  <2> QED BY <1>1, <1>6, FS_Injection
<1>8. \A k \in D : \E i \in D : rank[i] = k
    BY <1>7 DEF Surjection
<1> DEFINE p == [k \in D |-> CHOOSE i \in D : rank[i] = k]
<1>9. p \in [D -> D] /\ \A k \in D : rank[p[k]] = k
    BY <1>8
<1> HIDE DEF p
<1>10. ASSUME NEW i \in D, NEW j \in D, i < j PROVE Pool!Before(s, p[i], p[j])
  <2>1. p[i] \in D /\ p[j] \in D /\ rank[p[i]] = i /\ rank[p[j]] = j
    BY <1>9
  <2>2. ~(rank[p[j]] < rank[p[i]]) /\ p[i] # p[j]
    BY <1>10, <2>1
  <2>3. ~Pool!Before(s, p[j], p[i])
    BY <1>3, <2>1, <2>2
  <2> QED BY <2>1, <2>2, <2>3, TotalOrder
<1> QED BY <1>9, <1>10

LEMMA RankedFacts ==
    ASSUME NEW s, NEW n \in Nat, DOMAIN s = 1..n, \A i \in 1..n : s[i].risk \in Int
    PROVE  /\ Pool!Ranked(s) \in [1..n -> 1..n]
           /\ \A i \in 1..n : \E k \in 1..n : Pool!Ranked(s)[k] = i
           /\ \A i, j \in 1..n : Pool!Ranked(s)[i] = Pool!Ranked(s)[j] => i = j
           /\ \A k \in 1..n : Cardinality(Pool!Better(s, Pool!Ranked(s)[k])) = k - 1
<1> DEFINE D == 1..n
           p == Pool!Ranked(s)
<1>1. p \in [D -> D] /\ \A i, j \in D : i < j => Pool!Before(s, p[i], p[j])
    BY OrderThere DEF Pool!Ranked
<1> HIDE DEF p
<1>2. ASSUME NEW i \in D, NEW j \in D, p[i] = p[j] PROVE i = j
  <2>1. p[i] \in D /\ ~Pool!Before(s, p[i], p[j]) /\ ~Pool!Before(s, p[j], p[i])
    BY <1>1, <1>2, TotalOrder
  <2>2. ~(i < j) /\ ~(j < i)
    BY <1>1, <2>1
  <2> QED BY <2>2
<1>3. p \in Injection(D, D)
    BY <1>1, <1>2 DEF Injection, IsInjective
<1>4. \A i \in D : \E k \in D : p[k] = i
  <2>1. IsFiniteSet(D)
    BY FS_Interval
  <2> HIDE DEF D
  <2>2. p \in Surjection(D, D)
    BY <1>3, <2>1, FS_Injection
  <2> QED BY <2>2 DEF Surjection
<1>5. ASSUME NEW k \in D PROVE Cardinality(Pool!Better(s, p[k])) = k - 1
  <2> DEFINE S == 1..(k - 1)
             B == Pool!Better(s, p[k])
             f == [j \in S |-> p[j]]
  <2>1. S \subseteq D /\ p[k] \in D /\ \A j \in S : j < k
    BY <1>1
  <2>2. \A j \in S : p[j] \in D /\ Pool!Before(s, p[j], p[k])
    BY <1>1, <2>1
  <2>3. \A x : x \in B <=> x \in D /\ Pool!Before(s, x, p[k])
    BY DEF Pool!Better
  <2>4. ASSUME NEW x \in B PROVE \E j \in S : p[j] = x
    <3>1. x \in D /\ Pool!Before(s, x, p[k])
        BY <2>3
    <3>2. PICK j \in D : p[j] = x
        BY <1>4, <3>1
    <3>3. ~Pool!Before(s, p[k], p[j]) /\ j # k
        BY <2>1, <3>1, <3>2, TotalOrder
    <3>4. ~(k < j)
        BY <1>1, <3>3
    <3>5. j \in S
        BY <3>3, <3>4
    <3> QED BY <3>2, <3>5
  <2>5. IsFiniteSet(S) /\ Cardinality(S) = k - 1
    BY FS_Interval
  <2> HIDE DEF B, S
  <2>6. f \in [S -> B]
    BY <2>2, <2>3
  <2>7. f \in Injection(S, B)
    BY <1>2, <2>1, <2>6 DEF Injection, IsInjective
  <2>8. f \in Surjection(S, B)
    BY <2>4, <2>6 DEF Surjection
  <2> HIDE DEF f
  <2>9. Cardinality(B) = Cardinality(S)
    BY <2>5, <2>7, <2>8, FS_Surjection
  <2> QED BY <2>5, <2>9 DEF B
<1> QED BY <1>1, <1>2, <1>4, <1>5 DEF p

\* What a scan may be, and the best of it: as many as there are of those that fewer
\* than max_positions_per_day others outrank.
SomeScan == Scans \cup {<<>>}
Picked == UNION {{s[i] : i \in DOMAIN s} : s \in Scans}
HasCode(s, k) == Pool!Best(s)[k].code # ""
Coded(s, t) == {k \in 1..t : HasCode(s, k)}
Wanted(s) == {i \in DOMAIN s : Cardinality(Pool!Better(s, i)) < positions /\ s[i].code # ""}
LEMMA ScanFacts ==
    ASSUME NEW s \in SomeScan
    PROVE  /\ Len(s) \in Nat /\ DOMAIN s = 1..Len(s)
           /\ \A i \in 1..Len(s) : s[i] \in Picked /\ s[i].risk \in Int /\ \A m \in Market : s[i].code \in DOMAIN m
<1>1. CASE s = <<>>
    BY <1>1
<1>2. CASE s \in Scans
  <2> DEFINE R == {s[i] : i \in DOMAIN s}
  <2>1. s \in Seq(R)
    BY <1>2, TestAssumption
  <2>2. \A i \in DOMAIN s : s[i].risk \in Int /\ \A m \in Market : s[i].code \in DOMAIN m
    BY <1>2, TestAssumption
  <2>4. \A i \in DOMAIN s : s[i] \in Picked
    BY <1>2 DEF Picked
  <2> HIDE DEF R
  <2>3. Len(s) \in Nat /\ DOMAIN s = 1..Len(s)
    BY <2>1
  <2> QED BY <2>2, <2>3, <2>4
<1> QED BY <1>1, <1>2 DEF SomeScan

LEMMA UpTo == ASSUME NEW n \in Int PROVE IsFiniteSet(1..n)
BY FS_Interval

LEMMA BestFacts ==
    ASSUME positions \in Nat, NEW s \in SomeScan
    PROVE  /\ Pool!Best(s) \in Seq(Picked)
           /\ Len(Pool!Best(s)) \in Nat /\ DOMAIN Pool!Best(s) = 1..Len(Pool!Best(s))
           /\ \A k \in 1..Len(Pool!Best(s)) : \E i \in DOMAIN s : Pool!Best(s)[k] = s[i]
           /\ \A i \in DOMAIN s : Cardinality(Pool!Better(s, i)) < positions => \E k \in 1..Len(Pool!Best(s)) : Pool!Best(s)[k] = s[i]
           /\ \A k \in 1..Len(Pool!Best(s)) : \E i \in DOMAIN s : Pool!Best(s)[k] = s[i] /\ Cardinality(Pool!Better(s, i)) < positions
           /\ Cardinality(Wanted(s)) = Cardinality(Coded(s, Len(Pool!Best(s))))
<1>1. PICK n \in Nat : n = Len(s) /\ DOMAIN s = 1..n /\ \A i \in 1..n : s[i].risk \in Int /\ s[i] \in Picked
    BY ScanFacts
<1> DEFINE L == Pool!Lesser(positions, n)
           r == Pool!Ranked(s)
           B == Pool!Best(s)
<1>2. /\ r \in [1..n -> 1..n]
      /\ \A i \in 1..n : \E k \in 1..n : r[k] = i
      /\ \A i, j \in 1..n : r[i] = r[j] => i = j
      /\ \A k \in 1..n : Cardinality(Pool!Better(s, r[k])) = k - 1
    BY <1>1, RankedFacts
<1>3. L \in 0..n /\ L \in Nat /\ \A k \in 1..n : k <= L <=> k - 1 < positions
    BY DEF Pool!Lesser
<1>4. B = [k \in 1..L |-> s[r[k]]]
    BY <1>1 DEF Pool!Best
<1> HIDE DEF L, r
<1>5. DOMAIN B = 1..L /\ Len(B) = L /\ \A k \in 1..L : k \in 1..n /\ B[k] = s[r[k]] /\ r[k] \in 1..n
    BY <1>2, <1>3, <1>4
<1>11. B \in Seq(Picked)
  <2>1. \A k \in 1..L : s[r[k]] \in Picked
    BY <1>1, <1>5
  <2>2. B \in [1..L -> Picked]
    BY <1>4, <2>1
  <2> HIDE DEF B
  <2> QED BY <1>3, <2>2
<1> HIDE DEF B
<1>6. ASSUME NEW i \in 1..n, Cardinality(Pool!Better(s, i)) < positions PROVE \E k \in 1..L : r[k] = i
  <2>1. PICK k \in 1..n : r[k] = i
    BY <1>2
  <2>2. k - 1 < positions
    BY <1>2, <1>6, <2>1
  <2>3. k \in 1..L
    BY <1>3, <2>2
  <2> QED BY <2>1, <2>3
<1>7. ASSUME NEW k \in 1..L PROVE Cardinality(Pool!Better(s, r[k])) < positions
  <2>1. k \in 1..n /\ k <= L
    BY <1>3
  <2> QED BY <1>2, <1>3, <2>1
<1>8. Cardinality(Wanted(s)) = Cardinality(Coded(s, L))
  <2> DEFINE N == Coded(s, L)
             W == Wanted(s)
             f == [k \in N |-> r[k]]
  <2>1. \A k : k \in N <=> k \in 1..L /\ s[r[k]].code # ""
    BY <1>5 DEF Coded, HasCode, B
  <2>2. \A i : i \in W <=> i \in 1..n /\ Cardinality(Pool!Better(s, i)) < positions /\ s[i].code # ""
    BY <1>1 DEF Wanted
  <2> HIDE DEF N, W
  <2>3. N \in SUBSET (1..L) /\ IsFiniteSet(1..L)
    <3>1. IsFiniteSet(1..L)
        BY <1>3, UpTo
    <3> QED BY <2>1, <3>1
  <2>4. IsFiniteSet(N)
    BY <2>3, FS_Subset
  <2>5. f \in [N -> W]
    BY <1>5, <1>7, <2>1, <2>2
  <2>6. \A i, j \in N : f[i] = f[j] => i = j
    BY <1>2, <1>5, <2>1
  <2>7. \A i \in W : \E k \in N : f[k] = i
    <3>1. ASSUME NEW i \in W PROVE \E k \in N : f[k] = i
      <4>1. PICK k \in 1..L : r[k] = i
        BY <1>6, <2>2
      <4>2. k \in N
        BY <2>1, <2>2, <4>1
      <4> QED BY <4>1, <4>2
    <3> QED BY <3>1
  <2>8. f \in Injection(N, W) /\ f \in Surjection(N, W)
    BY <2>5, <2>6, <2>7 DEF Injection, IsInjective, Surjection
  <2> HIDE DEF f
  <2>9. Cardinality(W) = Cardinality(N)
    BY <2>4, <2>8, FS_Surjection
  <2> QED BY <2>9 DEF W, N
<1>9. \A k \in 1..L : \E i \in 1..n : B[k] = s[i] /\ Cardinality(Pool!Better(s, i)) < positions
    BY <1>5, <1>7
<1>10. \A i \in 1..n : Cardinality(Pool!Better(s, i)) < positions => \E k \in 1..L : B[k] = s[i]
    BY <1>5, <1>6
<1> QED BY <1>1, <1>3, <1>5, <1>8, <1>9, <1>10, <1>11 DEF B

-----------------------------------------------------------------------------
\* The backtest.  Of each day so many picks were tried; those with a code are among
\* the trades and the skips of that day, each once.
TestCodes == UNION {DOMAIN m : m \in Market}
Trade == [signal : Nat, code : TestCodes, in : Nat, out : Nat, paid : Nat, got : Nat]
Reasons == {"suspended", "limit_up", "limit_down", "invalid_price", "none"}
Skip == [signal : Nat, code : TestCodes, reason : Reasons]
Of(ts, d) == {i \in DOMAIN ts : ts[i].signal = d}
Has(ts, d, c) == \E i \in DOMAIN ts : ts[i].signal = d /\ ts[i].code = c
Tried(d) == IF d < day THEN Len(Pool!Best(scanned[d])) ELSE IF d = day THEN Len(Pool!Best(scanned[d])) - Len(picks) ELSE 0
TestType == /\ holding \in Nat /\ positions \in Nat /\ source \in {"local", "provider"} /\ bars \in Market
            /\ day \in Nat /\ (day # 0 => day < Days) /\ (day = 0 => picks = <<>>)
            /\ scanned \in [1..Days -> SomeScan]
            /\ trades \in Seq(Trade) /\ skipped \in Seq(Skip)
            /\ picks \in Seq(Picked)
InHand == day # 0 => LET best == Pool!Best(scanned[day]) IN
              /\ Len(picks) <= Len(best)
              /\ \A k \in 1..Len(picks) : picks[k] = best[Len(best) - Len(picks) + k]
TradeOk(t) ==
    /\ t.signal \in 1..day /\ t.code # "" /\ t.code \in DOMAIN bars
    /\ t.in = t.signal + 1 /\ t.out = Pool!Lesser(t.signal + holding, Days) /\ t.in \in 1..Days /\ t.out \in 1..Days
    /\ Pool!Obstacle(bars[t.code][t.in], bars[t.code][t.out], t.code) = "none"
    /\ t.paid = Pool!EntryPrice(bars[t.code][t.in]) /\ t.got = Pool!ExitPrice(bars[t.code][t.out])
SkipOk(t) == t.signal \in 1..day /\ t.code # ""
Count(s, t, ts, us, d) ==
    /\ \A c \in TestCodes \ {""} : (\E k \in 1..t : Pool!Best(s)[k].code = c) <=> Has(ts, d, c) \/ Has(us, d, c)
    /\ Cardinality(Coded(s, t)) = Cardinality(Of(ts, d)) + Cardinality(Of(us, d))
Accounted(d) == Count(scanned[d], Tried(d), trades, skipped, d)
TestInv == /\ TestType /\ InHand
           /\ \A i \in DOMAIN trades : TradeOk(trades[i])
           /\ \A i \in DOMAIN skipped : SkipOk(skipped[i])
           /\ \A d \in 1..Days : Accounted(d)
           /\ drawdown # <<0, 0>> => picks = <<>> /\ day + 1 >= Days /\ drawdown = Pool!MaxDrawdown(Pool!Equity(trades))

LEMMA OneMoreOf ==
    ASSUME NEW S, NEW ts \in Seq(S), NEW t \in S, NEW d
    PROVE  /\ Of(Append(ts, t), d) = (IF t.signal = d THEN Of(ts, d) \cup {Len(ts) + 1} ELSE Of(ts, d))
           /\ IsFiniteSet(Of(ts, d)) /\ Cardinality(Of(ts, d)) \in Nat
           /\ t.signal = d => Cardinality(Of(Append(ts, t), d)) = Cardinality(Of(ts, d)) + 1
           /\ t.signal # d => Cardinality(Of(Append(ts, t), d)) = Cardinality(Of(ts, d))
           /\ \A c : Has(Append(ts, t), d, c) <=> Has(ts, d, c) \/ (t.signal = d /\ t.code = c)
<1>1. PICK n \in Nat : n = Len(ts) /\ DOMAIN ts = 1..n
    OBVIOUS
<1> DEFINE us == Append(ts, t)
<1>2. DOMAIN us = 1..(n + 1) /\ us[n + 1] = t /\ \A i \in 1..n : us[i] = ts[i]
    BY <1>1
<1> HIDE DEF us
<1>3. \A i : i \in 1..(n + 1) <=> i \in 1..n \/ i = n + 1
    OBVIOUS
<1>4. Of(us, d) = (IF t.signal = d THEN Of(ts, d) \cup {n + 1} ELSE Of(ts, d))
    BY <1>1, <1>2, <1>3 DEF Of
<1>5. n + 1 \notin Of(ts, d) /\ Of(ts, d) \in SUBSET (1..n)
    BY <1>1 DEF Of
<1>6. IsFiniteSet(Of(ts, d))
    BY <1>5, FS_Interval, FS_Subset
<1>7. Cardinality(Of(ts, d)) \in Nat
    BY <1>6, FS_CardinalityType
<1>8. Cardinality(Of(ts, d) \cup {n + 1}) = Cardinality(Of(ts, d)) + 1
    BY <1>5, <1>6, FS_AddElement
<1>9. /\ t.signal = d => Cardinality(Of(us, d)) = Cardinality(Of(ts, d)) + 1
      /\ t.signal # d => Cardinality(Of(us, d)) = Cardinality(Of(ts, d))
    BY <1>4, <1>7, <1>8
<1>10. ASSUME NEW c PROVE Has(us, d, c) <=> Has(ts, d, c) \/ (t.signal = d /\ t.code = c)
    BY <1>1, <1>2, <1>3 DEF Has
<1> QED BY <1>1, <1>4, <1>6, <1>7, <1>9, <1>10 DEF us

LEMMA CodedGrows ==
    ASSUME positions \in Nat, NEW s \in SomeScan, NEW t \in Nat
    PROVE  /\ Cardinality(Coded(s, t)) \in Nat
           /\ Cardinality(Coded(s, t + 1)) = Cardinality(Coded(s, t)) + (IF HasCode(s, t + 1) THEN 1 ELSE 0)
<1>1. \A k : k \in 1..(t + 1) <=> k \in 1..t \/ k = t + 1
    OBVIOUS
<1>2. Coded(s, t + 1) = IF HasCode(s, t + 1) THEN Coded(s, t) \cup {t + 1} ELSE Coded(s, t)
    BY <1>1 DEF Coded
<1>3. t + 1 \notin Coded(s, t) /\ Coded(s, t) \in SUBSET (1..t) /\ IsFiniteSet(1..t)
  <2>1. IsFiniteSet(1..t)
    BY UpTo
  <2>2. t + 1 \notin Coded(s, t) /\ Coded(s, t) \in SUBSET (1..t)
    BY DEF Coded
  <2> QED BY <2>1, <2>2
<1>4. IsFiniteSet(Coded(s, t))
    BY <1>3, FS_Subset
<1>5. Cardinality(Coded(s, t)) \in Nat
    BY <1>4, FS_CardinalityType
<1>6. Cardinality(Coded(s, t) \cup {t + 1}) = Cardinality(Coded(s, t)) + 1
    BY <1>3, <1>4, FS_AddElement
<1>7. CASE HasCode(s, t + 1)
  <2>1. Cardinality(Coded(s, t + 1)) = Cardinality(Coded(s, t)) + 1
    BY <1>2, <1>6, <1>7
  <2> QED BY <1>5, <1>7, <2>1
<1>8. CASE ~(HasCode(s, t + 1))
  <2>1. Coded(s, t + 1) = Coded(s, t)
    BY <1>2, <1>8
  <2> QED BY <1>5, <1>8, <2>1
<1> QED BY <1>7, <1>8

LEMMA OfCount == ASSUME NEW S, NEW ts \in Seq(S), NEW d PROVE Cardinality(Of(ts, d)) \in Nat
<1>1. PICK n \in Nat : DOMAIN ts = 1..n
    OBVIOUS
<1>2. IsFiniteSet(1..n) /\ Of(ts, d) \in SUBSET (1..n)
    BY <1>1, UpTo DEF Of
<1> QED BY <1>2, FS_Subset, FS_CardinalityType
LEMMA CountSwap ==
    ASSUME NEW s, NEW t, NEW S, NEW ts \in Seq(S), NEW R, NEW us \in Seq(R), NEW d
    PROVE  Count(s, t, ts, us, d) <=> Count(s, t, us, ts, d)
<1>1. Cardinality(Of(ts, d)) \in Nat /\ Cardinality(Of(us, d)) \in Nat
    BY OfCount
<1>2. Cardinality(Of(ts, d)) + Cardinality(Of(us, d)) = Cardinality(Of(us, d)) + Cardinality(Of(ts, d))
    BY <1>1
<1> QED BY <1>2 DEF Count

\* A pick without a code counts for nothing.
LEMMA CountNone ==
    ASSUME positions \in Nat, NEW s \in SomeScan, NEW t \in Nat, NEW ts, NEW us, NEW d,
           Count(s, t, ts, us, d), ~HasCode(s, t + 1)
    PROVE  Count(s, t + 1, ts, us, d)
<1>1. \A k : k \in 1..(t + 1) <=> k \in 1..t \/ k = t + 1
    OBVIOUS
<1>2. Cardinality(Coded(s, t + 1)) = Cardinality(Coded(s, t))
    BY CodedGrows
<1>3. Pool!Best(s)[t + 1].code = ""
    BY DEF HasCode
<1> QED BY <1>1, <1>2, <1>3 DEF Count

\* One with a code counts once, wherever it goes; other days are as they were.
LEMMA CountOne ==
    ASSUME positions \in Nat, NEW s \in SomeScan, NEW t \in Nat, NEW S, NEW ts \in Seq(S), NEW R, NEW us \in Seq(R), NEW d,
           Count(s, t, ts, us, d), NEW r \in S
    PROVE  /\ r.signal = d /\ r.code = Pool!Best(s)[t + 1].code /\ HasCode(s, t + 1) => Count(s, t + 1, Append(ts, r), us, d)
           /\ r.signal # d => Count(s, t, Append(ts, r), us, d)
<1>1. \A k : k \in 1..(t + 1) <=> k \in 1..t \/ k = t + 1
    OBVIOUS
<1>2. /\ Cardinality(Of(ts, d)) \in Nat
      /\ r.signal = d => Cardinality(Of(Append(ts, r), d)) = Cardinality(Of(ts, d)) + 1
      /\ r.signal # d => Cardinality(Of(Append(ts, r), d)) = Cardinality(Of(ts, d))
      /\ \A c : Has(Append(ts, r), d, c) <=> Has(ts, d, c) \/ (r.signal = d /\ r.code = c)
  <2>1. r \in S /\ ts \in Seq(S)
    OBVIOUS
  <2>2. Cardinality(Of(ts, d)) \in Nat
    BY <2>1, OfCount
  <2>3. ASSUME r.signal = d PROVE Cardinality(Of(Append(ts, r), d)) = Cardinality(Of(ts, d)) + 1
    BY <2>1, <2>3, OneMoreOf
  <2>5. ASSUME r.signal # d PROVE Cardinality(Of(Append(ts, r), d)) = Cardinality(Of(ts, d))
    BY <2>1, <2>5, OneMoreOf
  <2>4. ASSUME NEW c PROVE Has(Append(ts, r), d, c) <=> Has(ts, d, c) \/ (r.signal = d /\ r.code = c)
    BY <2>1, OneMoreOf, Zenon
  <2> QED BY <2>2, <2>3, <2>4, <2>5
<1>3. Cardinality(Of(us, d)) \in Nat
    BY OfCount
<1>4. ASSUME r.signal = d, r.code = Pool!Best(s)[t + 1].code, HasCode(s, t + 1) PROVE Count(s, t + 1, Append(ts, r), us, d)
  <2>1. Cardinality(Of(Append(ts, r), d)) = Cardinality(Of(ts, d)) + 1
    BY <1>2, <1>4
  <2>2. Cardinality(Coded(s, t + 1)) = Cardinality(Coded(s, t)) + 1
    BY <1>4, CodedGrows
  <2>3. Cardinality(Coded(s, t)) = Cardinality(Of(ts, d)) + Cardinality(Of(us, d))
    BY DEF Count
  <2>4. Cardinality(Coded(s, t + 1)) = Cardinality(Of(Append(ts, r), d)) + Cardinality(Of(us, d))
    BY <1>2, <1>3, <2>1, <2>2, <2>3
  <2>5. ASSUME NEW c \in TestCodes \ {""}
        PROVE  (\E k \in 1..(t + 1) : Pool!Best(s)[k].code = c) <=> Has(Append(ts, r), d, c) \/ Has(us, d, c)
    BY <1>1, <1>2, <1>4 DEF Count
  <2> QED BY <2>4, <2>5 DEF Count
<1>5. ASSUME r.signal # d PROVE Count(s, t, Append(ts, r), us, d)
  <2>1. Cardinality(Of(Append(ts, r), d)) = Cardinality(Of(ts, d))
    BY <1>2, <1>5
  <2>2. ASSUME NEW c PROVE Has(Append(ts, r), d, c) <=> Has(ts, d, c)
    BY <1>2, <1>5
  <2> QED BY <2>1, <2>2 DEF Count
<1> QED BY <1>4, <1>5

LEMMA TestBegins == Pool!TestInit => TestInv
<1> SUFFICES ASSUME Pool!TestInit PROVE TestInv
    OBVIOUS
<1>1. TestType
  <2>1. scanned \in [1..Days -> SomeScan]
    BY DEF Pool!TestInit, SomeScan
  <2>2. trades = <<>> /\ skipped = <<>> /\ picks = <<>> /\ day = 0
    BY DEF Pool!TestInit
  <2>3. holding \in Nat /\ positions \in Nat /\ source \in {"local", "provider"} /\ bars \in Market
    BY TestAssumption DEF Pool!TestInit
  <2> QED BY <2>1, <2>2, <2>3 DEF TestType
<1>2. day = 0 /\ trades = <<>> /\ skipped = <<>> /\ DOMAIN trades = {} /\ DOMAIN skipped = {}
    BY DEF Pool!TestInit
<1>3. ASSUME NEW d \in 1..Days PROVE Accounted(d)
  <2>1. Tried(d) = 0
    BY <1>2, <1>3, TestAssumption DEF Tried
  <2>2. Coded(scanned[d], 0) = {} /\ Of(trades, d) = {} /\ Of(skipped, d) = {} /\ Cardinality({}) = 0
    BY <1>2, FS_EmptySet DEF Coded, Of
  <2>3. Cardinality(Coded(scanned[d], 0)) = Cardinality(Of(trades, d)) + Cardinality(Of(skipped, d))
    BY <2>2
  <2>4. ASSUME NEW c PROVE ~Has(trades, d, c) /\ ~Has(skipped, d, c)
    BY <1>2 DEF Has
  <2>5. \A k : k \notin 1..0
    OBVIOUS
  <2> QED BY <2>1, <2>3, <2>4, <2>5, Zenon DEF Accounted, Count
<1>4. InHand /\ drawdown = <<0, 0>>
    BY <1>2 DEF InHand, Pool!TestInit
<1> QED BY <1>1, <1>2, <1>3, <1>4 DEF TestInv

LEMMA SameCounts ==
    ASSUME positions' = positions
    PROVE  /\ \A s : Pool!Best(s)' = Pool!Best(s)
           /\ \A s, t, ts, us, d : Count(s, t, ts, us, d) => Count(s, t, ts, us, d)'
<1>1. \A s : Pool!Best(s)' = Pool!Best(s)
    BY DEF Pool!Best, Pool!Lesser
<1>2. \A s, t : Coded(s, t)' = Coded(s, t)
    BY <1>1 DEF Coded, HasCode
<1> QED BY <1>1, <1>2, Zenon DEF Count

\* Before a day was scanned nothing of it is among the trades and skips.
LEMMA NotYet ==
    ASSUME NEW s, NEW t, NEW ts, NEW us, NEW d, Count(t, 0, ts, us, d)
    PROVE  Count(s, 0, ts, us, d)
<1>1. \A k : k \notin 1..0
    OBVIOUS
<1>2. Coded(s, 0) = {} /\ Coded(t, 0) = {}
    BY <1>1 DEF Coded
<1> QED BY <1>1, <1>2, Zenon DEF Count

LEMMA ScanStays == TestInv /\ Pool!Scan => TestInv'
<1> SUFFICES ASSUME TestInv, Pool!Scan PROVE TestInv'
    OBVIOUS
<1>t. TestType /\ InHand
    BY DEF TestInv
<1>1. PICK s \in Scans : picks' = Pool!Best(s) /\ scanned' = [scanned EXCEPT ![day + 1] = s]
    BY DEF Pool!Scan
<1>2. /\ picks = <<>> /\ day + 1 < Days /\ day' = day + 1 /\ drawdown' = <<0, 0>>
      /\ UNCHANGED <<holding, positions, source, bars, trades, skipped, drawdown>>
  <2>1. /\ picks = <<>> /\ day + 1 < Days /\ day' = day + 1
        /\ UNCHANGED <<holding, positions, source, bars, trades, skipped, drawdown>>
    BY DEF Pool!Scan
  <2>2. ~(day + 1 >= Days)
    BY <1>t, <2>1, TestAssumption DEF TestType
  <2>3. drawdown = <<0, 0>>
    BY <2>2 DEF TestInv
  <2> QED BY <2>1, <2>3
<1>3. positions \in Nat /\ day \in Nat /\ day + 1 \in 1..Days /\ Days \in Nat /\ s \in SomeScan
      /\ scanned \in [1..Days -> SomeScan]
    BY <1>t, <1>2, TestAssumption DEF TestType, SomeScan
<1>4. /\ \A d \in 1..Days : d # day + 1 => scanned'[d] = scanned[d]
      /\ scanned'[day + 1] = s /\ scanned' \in [1..Days -> SomeScan]
    BY <1>1, <1>3
<1>5. Pool!Best(s) \in Seq(Picked) /\ Len(Pool!Best(s)) \in Nat
    BY <1>3, BestFacts
<1>6. TestType'
  <2>1. day' \in Nat /\ day' < Days /\ day' # 0
    BY <1>2, <1>3
  <2>2. picks' \in Seq(Picked)
    BY <1>1, <1>5
  <2> QED BY <1>t, <1>2, <1>4, <2>1, <2>2 DEF TestType
<1>7. InHand'
  <2>1. Pool!Best(s)' = Pool!Best(s) /\ scanned'[day'] = s
    BY <1>2, <1>4, SameCounts
  <2>2. Pool!Best(scanned[day])' = picks'
    BY <1>1, <1>2, <1>4, SameCounts
  <2>3. Len(picks') \in Nat
    BY <1>1, <1>5
  <2> QED BY <2>2, <2>3 DEF InHand
<1>8. ASSUME NEW d \in 1..Days PROVE Accounted(d)'
  <2>1. Count(scanned[d], Tried(d), trades, skipped, d)
    BY DEF TestInv, Accounted
  <2>2. CASE d = day + 1
    <3>1. Tried(d) = 0
        BY <1>3, <2>2 DEF Tried
    <3>2. Tried(d)' = 0
        BY <1>1, <1>2, <1>4, <1>5, <2>2, SameCounts DEF Tried
    <3>3. Count(s, 0, trades, skipped, d)
        BY <2>1, <3>1, NotYet
    <3> QED BY <1>2, <1>4, <2>2, <3>2, <3>3, SameCounts DEF Accounted
  <2>3. CASE d # day + 1
    <3>1. scanned'[d] = scanned[d] /\ Len(Pool!Best(scanned[d])) \in Nat
        BY <1>3, <1>4, <2>3, BestFacts
    <3>2. Tried(d)' = Tried(d)
        BY <1>2, <1>3, <2>3, <3>1, SameCounts DEF Tried
    <3> QED BY <1>2, <2>1, <3>1, <3>2, SameCounts DEF Accounted
  <2> QED BY <2>2, <2>3
<1>9. \A i \in DOMAIN trades' : TradeOk(trades[i])'
  <2>1. ASSUME NEW i \in DOMAIN trades PROVE TradeOk(trades[i])'
    <3>1. TradeOk(trades[i]) /\ 1..day \subseteq 1..day'
        BY <1>2, <1>3 DEF TestInv
    <3> QED BY <1>2, <3>1 DEF TradeOk, Pool!Obstacle, Pool!LimitUp, Pool!LimitDown, Pool!Change
  <2> QED BY <1>2, <2>1
<1>10. \A i \in DOMAIN skipped' : SkipOk(skipped[i])'
  <2>1. 1..day \subseteq 1..day'
    BY <1>2, <1>3
  <2> QED BY <1>2, <2>1 DEF TestInv, SkipOk
<1> QED BY <1>2, <1>6, <1>7, <1>8, <1>9, <1>10 DEF TestInv

\* The pick at hand is the next of the day's best.
LEMMA AtHand ==
    ASSUME TestInv, picks # <<>>
    PROVE  /\ day \in 1..Days /\ day + 1 \in 1..Days /\ positions \in Nat /\ scanned[day] \in SomeScan
           /\ Tried(day) \in Nat /\ Tried(day) + 1 <= Len(Pool!Best(scanned[day]))
           /\ Tried(day) = Len(Pool!Best(scanned[day])) - Len(picks)
           /\ Head(picks) = Pool!Best(scanned[day])[Tried(day) + 1]
           /\ Head(picks).code \in TestCodes /\ Head(picks).code \in DOMAIN bars
           /\ Tail(picks) \in Seq(Picked) /\ Len(Tail(picks)) \in Nat /\ Len(Tail(picks)) = Len(picks) - 1
           /\ \A k \in 1..Len(Tail(picks)) : Tail(picks)[k] = picks[k + 1]
<1>t. TestType /\ InHand
    BY DEF TestInv
<1>1. day \in Nat /\ day # 0 /\ day < Days /\ Days \in Nat /\ positions \in Nat
    BY <1>t, TestAssumption DEF TestType
<1>2. day \in 1..Days /\ day + 1 \in 1..Days
    BY <1>1
<1>3. scanned[day] \in SomeScan
    BY <1>t, <1>2 DEF TestType
<1> DEFINE best == Pool!Best(scanned[day])
<1>4. Len(best) \in Nat /\ \A k \in 1..Len(best) : \E i \in DOMAIN scanned[day] : best[k] = scanned[day][i]
    BY <1>1, <1>3, BestFacts
<1>5. PICK n \in Nat : n = Len(picks) /\ DOMAIN picks = 1..n /\ picks \in Seq(Picked)
    BY <1>t DEF TestType
<1>6. n # 0
    BY <1>5
<1>7. n <= Len(best) /\ picks[1] = best[Len(best) - n + 1]
  <2>1. n <= Len(best) /\ \A k \in 1..n : picks[k] = best[Len(best) - n + k]
    BY <1>t, <1>1, <1>5 DEF InHand
  <2> QED BY <1>5, <1>6, <2>1
<1>8. Tried(day) = Len(best) - n
    BY <1>1, <1>5 DEF Tried
<1>9. picks[1].code \in TestCodes /\ picks[1].code \in DOMAIN bars
  <2>1. Len(best) - n + 1 \in 1..Len(best)
    BY <1>4, <1>5, <1>6, <1>7
  <2>2. PICK i \in DOMAIN scanned[day] : picks[1] = scanned[day][i]
    BY <1>4, <1>7, <2>1
  <2>3. \A m \in Market : picks[1].code \in DOMAIN m
    BY <1>3, <2>2, ScanFacts
  <2>4. bars \in Market
    BY <1>t DEF TestType
  <2> QED BY <2>3, <2>4 DEF TestCodes
<1>10. /\ Tail(picks) \in Seq(Picked) /\ Len(Tail(picks)) = n - 1
       /\ \A k \in 1..(n - 1) : Tail(picks)[k] = picks[k + 1]
    BY <1>5, <1>6
<1> HIDE DEF best
<1> QED BY <1>1, <1>2, <1>3, <1>4, <1>5, <1>6, <1>7, <1>8, <1>9, <1>10 DEF best

DayBar == [volume : Nat, open : Nat, high : Nat, low : Nat, close : Nat, pct : Int]
LEMMA Bars ==
    ASSUME TestType, NEW c \in DOMAIN bars, NEW d \in 1..Days PROVE bars[c][d] \in DayBar
BY TestAssumption DEF TestType, DayBar
LEMMA PriceType == ASSUME NEW b \in DayBar PROVE Pool!EntryPrice(b) \in Nat /\ Pool!ExitPrice(b) \in Nat
BY DEF DayBar, Pool!EntryPrice, Pool!ExitPrice
LEMMA SomeReason == ASSUME NEW a, NEW b, NEW c PROVE Pool!Obstacle(a, b, c) \in Reasons
BY DEF Pool!Obstacle, Reasons

LEMMA NextRecords ==
    ASSUME TestInv, picks # <<>>, NEW reason \in Reasons, NEW a \in Nat, NEW b \in Nat
    PROVE  /\ [signal |-> day, code |-> Head(picks).code, reason |-> reason] \in Skip
           /\ [signal |-> day, code |-> Head(picks).code, in |-> Pool!EntryDay(day), out |-> Pool!ExitDay(day), paid |-> a, got |-> b] \in Trade
           /\ Pool!EntryDay(day) = day + 1 /\ Pool!EntryDay(day) \in 1..Days
           /\ Pool!ExitDay(day) = Pool!Lesser(day + holding, Days) /\ Pool!ExitDay(day) \in 1..Days
<1>1. day \in 1..Days /\ day + 1 \in 1..Days /\ Head(picks).code \in TestCodes
    BY AtHand
<1>2. holding \in Nat /\ Days \in Nat
    BY TestAssumption DEF TestInv, TestType
<1>3. Pool!EntryDay(day) = day + 1 /\ Pool!ExitDay(day) = Pool!Lesser(day + holding, Days)
    BY DEF Pool!EntryDay, Pool!ExitDay
<1>4. Pool!ExitDay(day) \in 1..Days
    BY <1>1, <1>2, <1>3 DEF Pool!Lesser
<1>5. day \in Nat /\ Pool!EntryDay(day) \in Nat /\ Pool!ExitDay(day) \in Nat
    BY <1>1, <1>3, <1>4
<1>6. [signal |-> day, code |-> Head(picks).code, reason |-> reason] \in Skip
    BY <1>1, <1>5 DEF Skip
<1>7. [signal |-> day, code |-> Head(picks).code, in |-> Pool!EntryDay(day), out |-> Pool!ExitDay(day), paid |-> a, got |-> b] \in Trade
    BY <1>1, <1>5 DEF Trade
<1> QED BY <1>1, <1>3, <1>4, <1>6, <1>7

\* What a pick changes whatever becomes of it.
LEMMA TryAlways ==
    ASSUME TestInv, Pool!Try
    PROVE  /\ picks # <<>> /\ drawdown = <<0, 0>> /\ picks' = Tail(picks)
           /\ UNCHANGED <<holding, positions, source, bars, day, scanned, drawdown>>
           /\ InHand' /\ Tried(day)' = Tried(day) + 1
           /\ \A d \in 1..Days : d # day => Tried(d)' = Tried(d)
<1>1. /\ picks # <<>> /\ drawdown = <<0, 0>> /\ picks' = Tail(picks)
      /\ UNCHANGED <<holding, positions, source, bars, day, scanned, drawdown>>
    BY DEF Pool!Try
<1>2. Pool!Best(scanned[day])' = Pool!Best(scanned[day]) /\ \A d : Pool!Best(scanned[d])' = Pool!Best(scanned[d])
    BY <1>1, SameCounts
<1>3. PICK n \in Nat, l \in Nat :
            /\ n = Len(picks) /\ l = Len(Pool!Best(scanned[day])) /\ Len(picks') = n - 1 /\ n <= l /\ n # 0
            /\ \A k \in 1..n : picks[k] = Pool!Best(scanned[day])[l - n + k]
            /\ \A k \in 1..(n - 1) : picks'[k] = picks[k + 1]
  <2>1. Len(picks) \in Nat /\ day # 0 /\ InHand /\ picks \in Seq(Picked)
    BY <1>1, AtHand DEF TestInv, TestType
  <2>2. Len(Pool!Best(scanned[day])) \in Nat
    BY <1>1, AtHand, BestFacts
  <2>3. Len(picks') = Len(picks) - 1 /\ \A k \in 1..(Len(picks) - 1) : picks'[k] = picks[k + 1]
    BY <1>1, AtHand
  <2>4. Len(picks) # 0
    BY <1>1, <2>1
  <2> QED BY <2>1, <2>2, <2>3, <2>4 DEF InHand
<1>4. InHand'
  <2>1. ASSUME NEW k \in 1..(n - 1) PROVE picks'[k] = Pool!Best(scanned[day])[l - (n - 1) + k]
    <3>1. k + 1 \in 1..n /\ l - n + (k + 1) = l - (n - 1) + k
        OBVIOUS
    <3> QED BY <1>3, <3>1
  <2> QED BY <1>1, <1>2, <1>3, <2>1 DEF InHand
<1>5. Tried(day)' = Tried(day) + 1
  <2>1. day \in Nat
    BY <1>1, AtHand
  <2> QED BY <1>1, <1>2, <1>3, <2>1 DEF Tried
<1>6. ASSUME NEW d \in 1..Days, d # day PROVE Tried(d)' = Tried(d)
    BY <1>1, <1>2, <1>6 DEF Tried
<1> QED BY <1>1, <1>4, <1>5, <1>6

\* It is left out, skipped or traded.
LEMMA TryOutcome ==
    ASSUME TestInv, Pool!Try
    PROVE  \/ Head(picks).code = "" /\ UNCHANGED <<trades, skipped>>
           \/ /\ Head(picks).code # "" /\ UNCHANGED trades
              /\ \E r \in Skip : r.signal = day /\ r.code = Head(picks).code /\ skipped' = Append(skipped, r)
           \/ /\ Head(picks).code # "" /\ UNCHANGED skipped
              /\ \E r \in Trade : r.signal = day /\ r.code = Head(picks).code /\ TradeOk(r) /\ trades' = Append(trades, r)
<1> DEFINE code == Head(picks).code
           entry == bars[code][Pool!EntryDay(day)]
           exit == bars[code][Pool!ExitDay(day)]
           reason == Pool!Obstacle(entry, exit, code)
           skip == [signal |-> day, code |-> code, reason |-> reason]
           trade == [signal |-> day, code |-> code, in |-> Pool!EntryDay(day), out |-> Pool!ExitDay(day),
                     paid |-> Pool!EntryPrice(entry), got |-> Pool!ExitPrice(exit)]
<1>1. /\ picks # <<>>
      /\ IF code = "" THEN UNCHANGED <<trades, skipped>>
         ELSE IF reason # "none" THEN skipped' = Append(skipped, skip) /\ UNCHANGED trades
         ELSE trades' = Append(trades, trade) /\ UNCHANGED skipped
    BY DEF Pool!Try
<1>2. day \in 1..Days /\ code \in DOMAIN bars
    BY <1>1, AtHand
<1>3. Pool!EntryDay(day) \in 1..Days /\ Pool!ExitDay(day) \in 1..Days
  <2>1. "none" \in Reasons
    BY DEF Reasons
  <2> QED BY <1>1, <2>1, NextRecords
<1>4. entry \in DayBar /\ exit \in DayBar
  <2>1. TestType
    BY DEF TestInv
  <2> QED BY <1>2, <1>3, <2>1, Bars
<1>5. Pool!EntryPrice(entry) \in Nat /\ Pool!ExitPrice(exit) \in Nat /\ reason \in Reasons
    BY <1>4, PriceType, SomeReason
<1>6. skip \in Skip /\ trade \in Trade /\ Pool!EntryDay(day) = day + 1 /\ Pool!ExitDay(day) = Pool!Lesser(day + holding, Days)
  <2> HIDE DEF entry, exit, reason
  <2> QED BY <1>1, <1>5, NextRecords
<1>7. code # "" /\ reason = "none" => TradeOk(trade)
  <2>1. /\ trade.signal = day /\ trade.code = code /\ trade.in = Pool!EntryDay(day) /\ trade.out = Pool!ExitDay(day)
        /\ trade.paid = Pool!EntryPrice(entry) /\ trade.got = Pool!ExitPrice(exit)
    OBVIOUS
  <2>2. day \in 1..day
    BY <1>2
  <2> HIDE DEF trade, code
  <2> QED BY <1>2, <1>3, <1>6, <2>1, <2>2 DEF TradeOk
<1>8. skip.signal = day /\ skip.code = code /\ trade.signal = day /\ trade.code = code
    OBVIOUS
<1> HIDE DEF skip, trade, reason, code
<1>9. CASE code = ""
    BY <1>1, <1>9 DEF code
<1>10. CASE code # "" /\ reason # "none"
    BY <1>1, <1>6, <1>8, <1>10 DEF code
<1>11. CASE code # "" /\ reason = "none"
    BY <1>1, <1>6, <1>7, <1>8, <1>11 DEF code
<1> QED BY <1>9, <1>10, <1>11

LEMMA Appended ==
    ASSUME NEW S, NEW ts \in Seq(S), NEW r \in S
    PROVE  /\ Append(ts, r) \in Seq(S)
           /\ \A i \in DOMAIN Append(ts, r) : (i \in DOMAIN ts /\ Append(ts, r)[i] = ts[i]) \/ Append(ts, r)[i] = r
<1>1. PICK n \in Nat : n = Len(ts) /\ DOMAIN ts = 1..n
    OBVIOUS
<1>2. Append(ts, r) \in Seq(S) /\ DOMAIN Append(ts, r) = 1..(n + 1) /\ Append(ts, r)[n + 1] = r /\ \A i \in 1..n : Append(ts, r)[i] = ts[i]
    BY <1>1
<1> QED BY <1>1, <1>2

LEMMA TryStays == TestInv /\ Pool!Try => TestInv'
<1> SUFFICES ASSUME TestInv, Pool!Try PROVE TestInv'
    OBVIOUS
<1>t. TestType /\ trades \in Seq(Trade) /\ skipped \in Seq(Skip) /\ positions \in Nat /\ scanned \in [1..Days -> SomeScan]
    BY DEF TestInv, TestType
<1>1. /\ picks # <<>> /\ drawdown = <<0, 0>> /\ picks' = Tail(picks)
      /\ UNCHANGED <<holding, positions, source, bars, day, scanned, drawdown>>
      /\ InHand' /\ Tried(day)' = Tried(day) + 1
      /\ \A d \in 1..Days : d # day => Tried(d)' = Tried(d)
    BY TryAlways
<1>2. /\ day \in 1..Days /\ scanned[day] \in SomeScan /\ Tried(day) \in Nat
      /\ Head(picks) = Pool!Best(scanned[day])[Tried(day) + 1] /\ Tail(picks) \in Seq(Picked)
    BY <1>1, AtHand
<1>3. HasCode(scanned[day], Tried(day) + 1) <=> Head(picks).code # ""
    BY <1>2 DEF HasCode
<1>4. \A d \in 1..Days : Count(scanned[d], Tried(d), trades, skipped, d) /\ Tried(d) \in Nat
  <2>1. ASSUME NEW d \in 1..Days PROVE Tried(d) \in Nat
    <3>1. Len(Pool!Best(scanned[d])) \in Nat
        BY <1>t, BestFacts
    <3>2. CASE d = day
        BY <1>2, <3>2
    <3>3. CASE d # day
        BY <3>1, <3>3 DEF Tried
    <3> QED BY <3>2, <3>3
  <2> QED BY <2>1 DEF TestInv, Accounted
<1>5. \A t : (TradeOk(t) => TradeOk(t)') /\ (SkipOk(t) => SkipOk(t)')
    BY <1>1 DEF TradeOk, SkipOk, Pool!Obstacle, Pool!LimitUp, Pool!LimitDown, Pool!Change
<1>6. \A i \in DOMAIN trades : TradeOk(trades[i])
    BY DEF TestInv
<1>7. \A i \in DOMAIN skipped : SkipOk(skipped[i])
    BY DEF TestInv
<1>8. SUFFICES /\ trades' \in Seq(Trade) /\ skipped' \in Seq(Skip)
               /\ \A i \in DOMAIN trades' : TradeOk(trades'[i])
               /\ \A i \in DOMAIN skipped' : SkipOk(skipped'[i])
               /\ Count(scanned[day], Tried(day) + 1, trades', skipped', day)
               /\ \A d \in 1..Days : d # day => Count(scanned[d], Tried(d), trades', skipped', d)
  <2>1. TestType'
    BY <1>t, <1>1, <1>2, <1>8 DEF TestType
  <2>2. (\A i \in DOMAIN trades' : TradeOk(trades[i])') /\ \A i \in DOMAIN skipped' : SkipOk(skipped[i])'
    BY <1>5, <1>8
  <2>3. \A d \in 1..Days : Accounted(d)'
    BY <1>1, <1>8, SameCounts DEF Accounted
  <2>4. drawdown' = <<0, 0>>
    BY <1>1
  <2> QED BY <1>1, <2>1, <2>2, <2>3, <2>4 DEF TestInv
<1>9. CASE Head(picks).code = "" /\ UNCHANGED <<trades, skipped>>
  <2>1. Count(scanned[day], Tried(day) + 1, trades, skipped, day)
    BY <1>t, <1>2, <1>3, <1>4, <1>9, CountNone
  <2> QED BY <1>t, <1>4, <1>6, <1>7, <1>9, <2>1
<1>10. CASE /\ Head(picks).code # "" /\ UNCHANGED trades
            /\ \E r \in Skip : r.signal = day /\ r.code = Head(picks).code /\ skipped' = Append(skipped, r)
  <2>1. PICK r \in Skip : r.signal = day /\ r.code = Head(picks).code /\ skipped' = Append(skipped, r)
    BY <1>10
  <2>2. \A d \in 1..Days : Count(scanned[d], Tried(d), skipped, trades, d)
    BY <1>t, <1>4, CountSwap
  <2>3. skipped' \in Seq(Skip) /\ trades' = trades
    BY <1>t, <1>10, <2>1, Appended
  <2>4. Count(scanned[day], Tried(day) + 1, skipped', trades, day)
    BY <1>t, <1>2, <1>3, <1>10, <2>1, <2>2, CountOne
  <2>5. ASSUME NEW d \in 1..Days, d # day PROVE Count(scanned[d], Tried(d), skipped', trades, d)
    BY <1>t, <1>4, <2>1, <2>2, <2>5, CountOne
  <2>6. SkipOk(r)
    <3>1. day \in 1..day
        BY <1>2
    <3> QED BY <1>10, <2>1, <3>1 DEF SkipOk
  <2>7. \A i \in DOMAIN skipped' : SkipOk(skipped'[i])
    BY <1>t, <1>7, <2>1, <2>6, Appended
  <2> QED BY <1>t, <1>6, <2>3, <2>4, <2>5, <2>7, CountSwap
<1>11. CASE /\ Head(picks).code # "" /\ UNCHANGED skipped
            /\ \E r \in Trade : r.signal = day /\ r.code = Head(picks).code /\ TradeOk(r) /\ trades' = Append(trades, r)
  <2>1. PICK r \in Trade : r.signal = day /\ r.code = Head(picks).code /\ TradeOk(r) /\ trades' = Append(trades, r)
    BY <1>11
  <2>2. trades' \in Seq(Trade) /\ skipped' = skipped
    BY <1>t, <1>11, <2>1, Appended
  <2>3. Count(scanned[day], Tried(day) + 1, trades', skipped, day)
    BY <1>t, <1>2, <1>3, <1>4, <1>11, <2>1, CountOne
  <2>4. ASSUME NEW d \in 1..Days, d # day PROVE Count(scanned[d], Tried(d), trades', skipped, d)
    BY <1>t, <1>4, <2>1, <2>4, CountOne
  <2>5. \A i \in DOMAIN trades' : TradeOk(trades'[i])
    BY <1>t, <1>6, <2>1, Appended
  <2> QED BY <1>t, <1>7, <2>2, <2>3, <2>4, <2>5
<1> QED BY <1>9, <1>10, <1>11, TryOutcome

LEMMA FinishStays == TestInv /\ Pool!Finish => TestInv'
<1> SUFFICES ASSUME TestInv, Pool!Finish PROVE TestInv'
    OBVIOUS
<1>1. /\ picks = <<>> /\ day + 1 >= Days /\ drawdown' = Pool!MaxDrawdown(Pool!Equity(trades))
      /\ UNCHANGED <<holding, positions, source, bars, day, picks, scanned, trades, skipped>>
    BY DEF Pool!Finish
<1>2. TestType' /\ InHand'
    BY <1>1, SameCounts DEF TestInv, TestType, InHand
<1>3. \A t : (TradeOk(t) => TradeOk(t)') /\ (SkipOk(t) => SkipOk(t)')
    BY <1>1 DEF TradeOk, SkipOk, Pool!Obstacle, Pool!LimitUp, Pool!LimitDown, Pool!Change
<1>4. \A d \in 1..Days : Accounted(d)'
  <2>1. ASSUME NEW d \in 1..Days PROVE Tried(d)' = Tried(d)
    BY <1>1, SameCounts DEF Tried
  <2> QED BY <1>1, <2>1, SameCounts DEF TestInv, Accounted
<1>5. drawdown' = Pool!MaxDrawdown(Pool!Equity(trades))'
    BY <1>1
<1> QED BY <1>1, <1>2, <1>3, <1>4, <1>5 DEF TestInv

LEMMA TestStays == TestInv /\ [Pool!TestNext]_backtestVars => TestInv'
<1>1. ASSUME TestInv, UNCHANGED backtestVars PROVE TestInv'
  <2>1. UNCHANGED <<holding, positions, source, bars, day, picks, scanned, trades, skipped, drawdown>>
    BY <1>1 DEF backtestVars
  <2>2. TestType' /\ InHand'
    BY <1>1, <2>1, SameCounts DEF TestInv, TestType, InHand
  <2>3. \A t : (TradeOk(t) => TradeOk(t)') /\ (SkipOk(t) => SkipOk(t)')
    BY <2>1 DEF TradeOk, SkipOk, Pool!Obstacle, Pool!LimitUp, Pool!LimitDown, Pool!Change
  <2>4. \A d \in 1..Days : Accounted(d)'
    <3>1. ASSUME NEW d \in 1..Days PROVE Tried(d)' = Tried(d)
        BY <2>1, SameCounts DEF Tried
    <3> QED BY <1>1, <2>1, <3>1, SameCounts DEF TestInv, Accounted
  <2> QED BY <1>1, <2>1, <2>2, <2>3, <2>4 DEF TestInv
<1> QED BY <1>1, ScanStays, TryStays, FinishStays DEF Pool!TestNext

\* What the backtest promises follows.
LEMMA AllPicks == TestInv => Pool!PicksAccounted
<1> SUFFICES ASSUME TestInv, drawdown # <<0, 0>>, NEW d \in 1..Days - 1
             PROVE  LET wanted == {i \in DOMAIN scanned[d] : Pool!Cardinality(Pool!Better(scanned[d], i)) < positions /\ scanned[d][i].code # ""}
                        Those(ts) == {i \in DOMAIN ts : ts[i].signal = d}
                    IN /\ {scanned[d][i].code : i \in wanted} = {trades[i].code : i \in Those(trades)} \cup {skipped[i].code : i \in Those(skipped)}
                       /\ Pool!Cardinality(wanted) = Pool!Cardinality(Those(trades)) + Pool!Cardinality(Those(skipped))
    BY DEF Pool!PicksAccounted
<1>t. TestType /\ picks = <<>> /\ day + 1 >= Days /\ Count(scanned[d], Tried(d), trades, skipped, d)
  <2>1. d \in 1..Days
    BY TestAssumption
  <2> QED BY <2>1 DEF TestInv, Accounted
<1> DEFINE s == scanned[d]
<1>1. positions \in Nat /\ day \in Nat /\ Days \in Nat /\ s \in SomeScan /\ bars \in Market /\ d <= day /\ d \in 1..Days
  <2>1. d \in 1..Days /\ Days \in Nat
    BY TestAssumption
  <2> QED BY <1>t, <2>1 DEF TestType
<1>2. Tried(d) = Len(Pool!Best(s))
  <2>1. Len(Pool!Best(s)) \in Nat /\ Len(picks) = 0
    BY <1>t, <1>1, BestFacts
  <2> QED BY <1>1, <2>1 DEF Tried
<1>3. Count(s, Len(Pool!Best(s)), trades, skipped, d)
    BY <1>t, <1>2
<1> HIDE DEF s
<1>4. \A x : x \in Wanted(s) <=> x \in DOMAIN s /\ Cardinality(Pool!Better(s, x)) < positions /\ s[x].code # ""
    BY DEF Wanted
<1>5. ASSUME NEW x \in Wanted(s) PROVE s[x].code \in TestCodes \ {""} /\ (Has(trades, d, s[x].code) \/ Has(skipped, d, s[x].code))
  <2>1. s[x].code \in TestCodes
    <3>1. \A m \in Market : s[x].code \in DOMAIN m
        BY <1>1, <1>4, ScanFacts
    <3> QED BY <1>1, <3>1 DEF TestCodes
  <2>2. \E k \in 1..Len(Pool!Best(s)) : Pool!Best(s)[k] = s[x]
    BY <1>1, <1>4, BestFacts
  <2> QED BY <1>3, <1>4, <2>1, <2>2 DEF Count
<1>6. ASSUME NEW c \in TestCodes \ {""}, Has(trades, d, c) \/ Has(skipped, d, c) PROVE \E x \in Wanted(s) : s[x].code = c
  <2>1. PICK k \in 1..Len(Pool!Best(s)) : Pool!Best(s)[k].code = c
    BY <1>3, <1>6 DEF Count
  <2>2. PICK x \in DOMAIN s : Pool!Best(s)[k] = s[x] /\ Cardinality(Pool!Better(s, x)) < positions
    BY <1>1, BestFacts
  <2>3. s[x].code = c /\ c # ""
    BY <2>1, <2>2
  <2> QED BY <1>4, <2>2, <2>3
<1>7. ASSUME NEW i \in Of(trades, d) PROVE trades[i].code \in TestCodes \ {""} /\ Has(trades, d, trades[i].code)
  <2>1. i \in DOMAIN trades /\ trades[i].signal = d
    BY DEF Of
  <2>2. trades[i] \in Trade /\ trades[i].code # ""
    <3>1. trades \in Seq(Trade) /\ TradeOk(trades[i])
        BY <1>t, <2>1 DEF TestInv, TestType
    <3>2. trades[i] \in Trade
        BY <2>1, <3>1
    <3> QED BY <3>1, <3>2 DEF TradeOk
  <2> QED BY <2>1, <2>2 DEF Trade, Has
<1>8. ASSUME NEW i \in Of(skipped, d) PROVE skipped[i].code \in TestCodes \ {""} /\ Has(skipped, d, skipped[i].code)
  <2>1. i \in DOMAIN skipped /\ skipped[i].signal = d
    BY DEF Of
  <2>2. skipped[i] \in Skip /\ skipped[i].code # ""
    <3>1. skipped \in Seq(Skip) /\ SkipOk(skipped[i])
        BY <1>t, <2>1 DEF TestInv, TestType
    <3>2. skipped[i] \in Skip
        BY <2>1, <3>1
    <3> QED BY <3>1, <3>2 DEF SkipOk
  <2> QED BY <2>1, <2>2 DEF Skip, Has
<1>9. {s[i].code : i \in Wanted(s)} = {trades[i].code : i \in Of(trades, d)} \cup {skipped[i].code : i \in Of(skipped, d)}
  <2>1. ASSUME NEW x \in Wanted(s) PROVE (\E i \in Of(trades, d) : trades[i].code = s[x].code) \/ \E i \in Of(skipped, d) : skipped[i].code = s[x].code
    BY <1>5 DEF Has, Of
  <2>2. ASSUME NEW c, \E i \in Wanted(s) : s[i].code = c
        PROVE  (\E i \in Of(trades, d) : trades[i].code = c) \/ \E i \in Of(skipped, d) : skipped[i].code = c
    BY <2>1, <2>2
  <2>3. ASSUME NEW c, (\E i \in Of(trades, d) : trades[i].code = c) \/ \E i \in Of(skipped, d) : skipped[i].code = c
        PROVE  \E i \in Wanted(s) : s[i].code = c
    BY <1>6, <1>7, <1>8, <2>3
  <2> QED BY <2>2, <2>3
<1>10. Cardinality(Wanted(s)) = Cardinality(Of(trades, d)) + Cardinality(Of(skipped, d))
    BY <1>1, <1>3, BestFacts DEF Count
<1> QED BY <1>9, <1>10, PoolSize DEF Wanted, Of, s

LEMMA TradesSound == TestInv => Pool!SoldLater /\ Pool!LimitsHold
<1> SUFFICES ASSUME TestInv PROVE Pool!SoldLater /\ Pool!LimitsHold
    OBVIOUS
<1>t. holding \in Nat /\ Days \in Nat /\ TestType /\ day \in Nat
    BY TestAssumption DEF TestInv, TestType
<1>1. \A i \in DOMAIN trades : TradeOk(trades[i])
    BY DEF TestInv
<1>2. ASSUME NEW t, TradeOk(t), holding >= 2, t.signal + 1 < Days PROVE t.in < t.out
  <2>1. PICK d \in 1..day : t.signal = d /\ t.in = d + 1 /\ t.out = Pool!Lesser(d + holding, Days)
    BY <1>2 DEF TradeOk
  <2>2. d \in Nat /\ d + 1 < Days
    BY <1>2, <2>1
  <2> QED BY <1>t, <1>2, <2>1, <2>2 DEF Pool!Lesser
<1>3. ASSUME NEW b \in DayBar, NEW c, source = "provider", Pool!AtLimit(b, c)
      PROVE  /\ b.pct > 0 => Pool!LimitUp(b, c)
             /\ b.pct < 0 => Pool!LimitDown(b, c)
  <2>1. PICK h \in {980, 1980} : h = Pool!Threshold(c)
    BY DEF Pool!Threshold
  <2>2. b.pct \in Int
    BY DEF DayBar
  <2>3. Pool!Change(b) = b.pct /\ (b.pct > 0 => b.pct >= h) /\ (b.pct < 0 => b.pct <= -h)
    BY <1>3, <2>1, <2>2 DEF Pool!Change, Pool!Normalized, Pool!AtLimit
  <2> QED BY <2>1, <2>3 DEF Pool!LimitUp, Pool!LimitDown
<1>4. ASSUME NEW t, TradeOk(t), source = "provider"
      PROVE  /\ ~(Pool!AtLimit(bars[t.code][t.in], t.code) /\ bars[t.code][t.in].pct > 0)
             /\ ~(Pool!AtLimit(bars[t.code][t.out], t.code) /\ bars[t.code][t.out].pct < 0)
  <2>1. bars[t.code][t.in] \in DayBar /\ bars[t.code][t.out] \in DayBar
    BY <1>t, <1>4, Bars DEF TradeOk
  <2>2. Pool!Obstacle(bars[t.code][t.in], bars[t.code][t.out], t.code) = "none"
    BY <1>4 DEF TradeOk
  <2>3. ~Pool!LimitUp(bars[t.code][t.in], t.code) /\ ~Pool!LimitDown(bars[t.code][t.out], t.code)
    BY <2>2 DEF Pool!Obstacle
  <2> QED BY <1>3, <1>4, <2>1, <2>3
<1> QED BY <1>1, <1>2, <1>4 DEF Pool!SoldLater, Pool!LimitsHold

LEMMA DeepestFall == TestInv => Pool!WorstFall
<1> SUFFICES ASSUME TestInv, drawdown # <<0, 0>> PROVE Pool!WorstFall
    BY DEF Pool!WorstFall
<1>1. PICK n \in Nat : n = Len(trades) /\ DOMAIN trades = 1..n
    BY DEF TestInv, TestType
<1>2. ASSUME NEW i \in 1..n PROVE trades[i].paid \in Pos /\ trades[i].got \in Pos
  <2>1. TradeOk(trades[i]) /\ TestType
    BY <1>1 DEF TestInv
  <2> DEFINE a == bars[trades[i].code][trades[i].in]
             b == bars[trades[i].code][trades[i].out]
  <2>2. a \in DayBar /\ b \in DayBar
    BY <2>1, Bars DEF TradeOk
  <2>3. Pool!Obstacle(a, b, trades[i].code) = "none" /\ trades[i].paid = Pool!EntryPrice(a) /\ trades[i].got = Pool!ExitPrice(b)
    BY <2>1 DEF TradeOk
  <2> HIDE DEF a, b
  <2>4. Pool!EntryPrice(a) # 0 /\ Pool!ExitPrice(b) # 0
    BY <2>3 DEF Pool!Obstacle
  <2> QED BY <2>2, <2>3, <2>4, PriceType DEF Pos
<1> DEFINE e == Pool!Equity(trades)
<1>3. e \in [1..n + 1 -> Value] /\ n + 1 \in Pos
    BY <1>1, <1>2, EquityFacts DEF Pos
<1> HIDE DEF e
<1>4. Len(e) = n + 1 /\ DOMAIN e = 1..n + 1
    BY <1>3
<1>5. drawdown = Pool!MaxDrawdown(e)
    BY DEF TestInv, e
<1>6. /\ \A j \in 1..n + 1 : \A i \in 1..j : ~Pool!Exceeds(Pool!Drop(e[i], e[j]), drawdown)
      /\ \E j \in 1..n + 1 : \E i \in 1..j : ~Pool!Exceeds(drawdown, Pool!Drop(e[i], e[j]))
  <2>1. PICK m \in Pos : m = n + 1
    BY <1>3
  <2> QED BY <1>3, <1>4, <1>5, <2>1, DrawdownFacts
<1> QED BY <1>4, <1>6 DEF Pool!WorstFall, e

-----------------------------------------------------------------------------
\* The pool: a row that is there keeps its price, and stays removed.
PoolRow == [status : {"absent", "active", "removed"}, price : Prices \cup {0}]
PoolType == pool \in [Codes -> PoolRow]
RowsStand == \A c \in Codes : pool[c] # Pool!NoRow =>
                /\ pool'[c].price = pool[c].price
                /\ pool[c].status = "removed" => pool'[c].status = "removed"
LEMMA PoolBegins == Pool!PoolInit => PoolType
BY DEF Pool!PoolInit, Pool!NoRow, PoolType, PoolRow
LEMMA PoolStep == PoolType /\ [Pool!PoolNext]_poolVars => PoolType' /\ RowsStand
<1> SUFFICES ASSUME PoolType, [Pool!PoolNext]_poolVars PROVE PoolType' /\ RowsStand
    OBVIOUS
<1>1. CASE UNCHANGED pool
    BY <1>1 DEF PoolType, RowsStand
<1>2. ASSUME NEW c \in Codes, NEW p \in Prices, pool' = Pool!Added(c, p) PROVE PoolType' /\ RowsStand
  <2>1. CASE pool[c] = Pool!NoRow
    <3> DEFINE r == [status |-> "active", price |-> p]
    <3>1. r \in PoolRow /\ pool' = [pool EXCEPT ![c] = r]
        BY <1>2, <2>1 DEF PoolRow, Pool!Added
    <3> HIDE DEF r
    <3> QED BY <2>1, <3>1 DEF PoolType, RowsStand
  <2> QED BY <1>1, <1>2, <2>1 DEF Pool!Added
<1>3. ASSUME NEW c \in Codes, pool' = [pool EXCEPT ![c].status = "removed"] PROVE PoolType' /\ RowsStand
  <2> DEFINE r == [pool[c] EXCEPT !.status = "removed"]
  <2>1. pool[c] \in PoolRow
    BY DEF PoolType
  <2>2. r \in PoolRow /\ r.status = "removed" /\ r.price = pool[c].price /\ pool' = [pool EXCEPT ![c] = r]
    BY <1>3, <2>1 DEF PoolRow
  <2> HIDE DEF r
  <2> QED BY <2>2 DEF PoolType, RowsStand
<1> QED BY <1>1, <1>2, <1>3 DEF Pool!PoolNext, Pool!AddByHand, Pool!AddScanned, Pool!BeginScan, Pool!RemoveStock, poolVars

-----------------------------------------------------------------------------
\* The accounts: of the three, the ones on SQLite take turns with their variables.
AccountsInv == AllMySQL!IInv /\ IF world = "bindings" THEN Bindings!IInv ELSE IInv
KeptInv == /\ AccountsInv
           /\ world = "checkins" => CheckInInv
           /\ world = "backups" => BackupInv
           /\ world = "picks" => PickInv
           /\ world = "migration" => MoveInv
           /\ PoolType
           /\ world = "backtest" => TestInv

LEMMA KeptBegins == KeptInit => KeptInv
<1> SUFFICES ASSUME KeptInit PROVE KeptInv
    OBVIOUS
<1>1. AccountsInv
    BY InitIInv, Bindings!InitIInv, AllMySQL!InitIInv, AccountsAssumption, UnitsAssumption DEF KeptInit, AccountsInv
<1>2. CheckInInv /\ BackupInv
    BY CheckInInit, BackupInit DEF KeptInit
<1>3. PickInv
    BY DEF KeptInit, Records!Init, Records!Idle, PickInv
<1>4. MoveInv
    BY MoveInit DEF KeptInit
<1>5. PoolType /\ TestInv
    BY PoolBegins, TestBegins DEF KeptInit
<1> QED BY <1>1, <1>2, <1>3, <1>4, <1>5 DEF KeptInv

\* A step of one part leaves the variables of the others as they are.
LEMMA PartsApart ==
    [KeptNext]_keptVars =>
        /\ world' = world
        /\ IF world = "bindings" THEN [Bindings!Next]_accountVars ELSE [Next]_accountVars
        /\ [AllMySQL!Next]_mysqlVars
        /\ world = "checkins" => [CheckIns!Next]_checkVars
        /\ world = "backups" => [Zips!Next]_backupVars
        /\ IF world = "picks" THEN [Records!Next]_pickVars ELSE UNCHANGED pickVars
        /\ IF world = "migration" THEN [Move!Next]_moveVars ELSE UNCHANGED moveVars
        /\ [Pool!PoolNext]_poolVars
        /\ world = "backtest" => [Pool!TestNext]_backtestVars
BY DEF KeptNext, keptVars

LEMMA KeptStays == KeptInv /\ [KeptNext]_keptVars => KeptInv'
<1> SUFFICES ASSUME KeptInv, [KeptNext]_keptVars PROVE KeptInv'
    OBVIOUS
<1>1. AllMySQL!IInv'
  <2>1. [AllMySQL!Next]_(AllMySQL!vars)
    BY PartsApart DEF mysqlVars, AllMySQL!vars
  <2>2. AllMySQL!IInv
    BY DEF KeptInv, AccountsInv
  <2> QED BY <2>1, <2>2, AllMySQL!NextIInv, AccountsAssumption, UnitsAssumption
<1>p. PoolType' /\ (world = "backtest" => TestInv') /\ world' = world
    BY PartsApart, PoolStep, TestStays DEF KeptInv
<1>2. CASE world = "bindings"
  <2>1. [Bindings!Next]_(Bindings!vars) /\ world' = world
    BY <1>2, PartsApart DEF accountVars, vars, Bindings!vars
  <2>2. Bindings!IInv
    BY <1>2 DEF KeptInv, AccountsInv
  <2>3. Bindings!IInv'
    BY <2>1, <2>2, Bindings!NextIInv, AccountsAssumption, UnitsAssumption
  <2> QED BY <1>1, <1>p, <1>2, <2>1, <2>3 DEF KeptInv, AccountsInv
<1>3. CASE world # "bindings"
  <2>1. [Next]_vars /\ world' = world
    BY <1>3, PartsApart DEF accountVars
  <2>2. IInv'
    BY <1>3, <2>1, NextIInv DEF KeptInv, AccountsInv
  <2>3. world = "checkins" => CheckInInv'
    BY PartsApart, CheckInStays DEF KeptInv
  <2>4. world = "backups" => BackupInv'
    BY PartsApart, BackupStays DEF KeptInv
  <2>5. world = "picks" => PickInv'
    BY PartsApart, PickStep DEF KeptInv
  <2>6. world = "migration" => MoveInv'
    BY PartsApart, MoveStep, MoveAssumption DEF KeptInv
  <2> QED BY <1>1, <1>p, <1>3, <2>1, <2>2, <2>3, <2>4, <2>5, <2>6 DEF KeptInv, AccountsInv
<1> QED BY <1>2, <1>3

LEMMA KeptThroughout == KeptSpec => []KeptInv
BY KeptBegins, KeptStays, PTL DEF KeptSpec

-----------------------------------------------------------------------------
(* A day's check-in is paid at most once however many requests a user sends:   *)
(* what protects it is the last day in the users row, which a request reads    *)
(* before and writes after the points (checkin of routes/main.py); the days    *)
(* two requests shared, or one died on, are left out because there it does not.*)
THEOREM CheckInIsPaidOnce == KeptSpec => []CheckInPaidOnce
<1>1. KeptInv => CheckInPaidOnce
    BY DEF KeptInv, CheckInPaidOnce, CheckInInv, PaidLast, CheckIns!PaidOncePerDay
<1> QED BY <1>1, KeptThroughout, PTL

(* Through any rotations of the key, retentions and restores a backup on disk  *)
(* passes its signature check until a crash or an import loses a key, and a    *)
(* restore leaves what it replaced on disk (services/backup_service.py).       *)
THEOREM BackupsStaySound == KeptSpec => []BackupsSound
<1>1. KeptInv => BackupsSound
    BY DEF KeptInv, BackupsSound, BackupInv
<1> QED BY <1>1, KeptThroughout, PTL

(* Storing a pick again keeps its id and what its review found, and requests   *)
(* of one tenant change or delete no pick of another, however lookups and      *)
(* writes interleave (repositories/picks_repo.py).                             *)
THEOREM PicksStaySound == KeptSpec => PicksSound
<1>1. KeptInv /\ [KeptNext]_keptVars =>
        /\ [/\ lastId' # lastId => DOMAIN records \subseteq DOMAIN records'
            /\ records' # records => \A id \in DOMAIN records \cap DOMAIN records' :
                  records'[id].outcome # records[id].outcome => records'[id].status = "reviewed"]_(Records!vars)
        /\ [records' # records => \A id \in DOMAIN records \cup DOMAIN records' :
               \/ id \in DOMAIN records \cap DOMAIN records' /\ records'[id] = records[id]
               \/ id \in DOMAIN records /\ records[id].tenant = actor'
               \/ id \notin DOMAIN records /\ records'[id].tenant = actor']_(Records!vars)
    <2> SUFFICES ASSUME KeptInv, [KeptNext]_keptVars, ~UNCHANGED Records!vars
                 PROVE  /\ lastId' # lastId => DOMAIN records \subseteq DOMAIN records'
                        /\ \A id \in DOMAIN records \cap DOMAIN records' :
                              records'[id].outcome # records[id].outcome => records'[id].status = "reviewed"
                        /\ \A id \in DOMAIN records \cup DOMAIN records' :
                              \/ id \in DOMAIN records \cap DOMAIN records' /\ records'[id] = records[id]
                              \/ id \in DOMAIN records /\ records[id].tenant = actor'
                              \/ id \notin DOMAIN records /\ records'[id].tenant = actor'
        OBVIOUS
    <2>1. KeepsPicks
        BY PartsApart, PickStep DEF KeptInv, pickVars, Records!vars
    <2> QED BY <2>1 DEF KeepsPicks
<1> QED BY <1>1, KeptThroughout, PTL DEF KeptSpec, PicksSound, Records!OutcomeKept, Records!TenantsApart

(* Every row of the old database is accounted for by an apply and has its pick *)
(* unless it is archived or invalid; what was reviewed stays, a second apply   *)
(* inserts only what the first archived, and the other tables have each        *)
(* natural key once (scripts/migrate_sqlite_to_mysql.py).                      *)
THEOREM MoveStaysSound == KeptSpec => MoveSound
<1>1. KeptInv /\ [KeptNext]_keptVars =>
        /\ [applied' # applied /\ result'.ok =>
               /\ \A p \in target : \E q \in target' : q.key = p.key /\ q.review = p.review /\ q.strategy = p.strategy
               /\ result.ok => result'.inserted <= result.archived]_(Move!vars)
        /\ [applied' # applied =>
               /\ \A a, b \in aux' : Move!Dated(a) /\ a.table = b.table /\ a.key = b.key => a = b
               /\ \A a \in aux : a.table \notin Move!Overwritten => a \in aux']_(Move!vars)
    <2> SUFFICES ASSUME KeptInv, [KeptNext]_keptVars, ~UNCHANGED Move!vars
                 PROVE  /\ applied' # applied /\ result'.ok =>
                            /\ \A p \in target : \E q \in target' : q.key = p.key /\ q.review = p.review /\ q.strategy = p.strategy
                            /\ result.ok => result'.inserted <= result.archived
                        /\ applied' # applied =>
                            /\ \A a, b \in aux' : Move!Dated(a) /\ a.table = b.table /\ a.key = b.key => a = b
                            /\ \A a \in aux : a.table \notin Move!Overwritten => a \in aux'
        OBVIOUS
    <2>1. MoveKeeps
        BY PartsApart, MoveStep, MoveAssumption DEF KeptInv, moveVars, Move!vars
    <2> QED BY <2>1 DEF MoveKeeps, Keyed
<1>2. KeptInv => (world = "migration" => Move!NothingLost)
    BY DEF KeptInv, MoveInv
<1> QED BY <1>1, <1>2, KeptThroughout, PTL DEF KeptSpec, MoveSound, Move!PicksKept, Move!AuxOnce

(* A row of a strategy pool keeps the price of its first add and stays removed *)
(* whoever adds it again; a backtest that is over has traded or skipped each   *)
(* of its days' best picks once, sells on a later day than it buys, enters no  *)
(* bar at its upper limit and leaves none at its lower one, and its drawdown   *)
(* is the deepest fall (services/strategy_pool_service.py).                    *)
THEOREM PoolStaysSound == KeptSpec => PoolSound
<1>1. KeptInv /\ [KeptNext]_keptVars =>
        [\A c \in Codes : pool[c] # Pool!NoRow => /\ pool'[c].price = pool[c].price
                                                  /\ pool[c].status = "removed" => pool'[c].status = "removed"]_pool
    BY PartsApart, PoolStep DEF KeptInv, RowsStand
<1>2. KeptInv => (world = "backtest" => Pool!PicksAccounted /\ Pool!SoldLater /\ Pool!LimitsHold /\ Pool!WorstFall)
    BY AllPicks, TradesSound, DeepestFall DEF KeptInv
<1> QED BY <1>1, <1>2, KeptThroughout, PTL DEF KeptSpec, PoolSound, Pool!FirstAddStands

(* On both backends every user whose creation is over keeps a binding and has  *)
(* at most one default; on MySQL an administrator remains and refused tokens   *)
(* stay so (repositories/users_repo.py, application/admin_api_service.py).     *)
THEOREM AccountsStaySound == KeptSpec => []AccountsSound
<1>1. ASSUME KeptInv PROVE AccountsSound
  <2>1. AllMySQL!BindingKept /\ AllMySQL!OneDefault
    BY <1>1, AllMySQL!BindingsSound, AccountsAssumption, UnitsAssumption DEF KeptInv, AccountsInv
  <2>2. world = "bindings" => Bindings!BindingKept /\ Bindings!OneDefault
    BY <1>1, Bindings!BindingsSound, AccountsAssumption, UnitsAssumption DEF KeptInv, AccountsInv
  <2>3. world # "bindings" => BindingKept /\ OneDefault
    BY <1>1, BindingsSound DEF KeptInv, AccountsInv
  <2>4. AllMySQL!AdminRemains
    BY <1>1 DEF KeptInv, AccountsInv, AllMySQL!IInv
  <2>5. AllMySQL!RefusedStaysRefused
    BY <1>1 DEF KeptInv, AccountsInv, AllMySQL!IInv, AllMySQL!GoneStaysGone, AllMySQL!RefusedStaysRefused, AllMySQL!Accepted
  <2> QED BY <2>1, <2>2, <2>3, <2>4, <2>5 DEF AccountsSound
<1> QED BY <1>1, KeptThroughout, PTL
===============================================================================
