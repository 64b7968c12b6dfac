--------------------------- MODULE OpenVecProofs ---------------------------
(***************************************************************************)
(* The two locks of OpenVec and its catalog, for every set of threads and  *)
(* of names.  The inductive invariant LockInv ties each lock to the step   *)
(* of its holder; where _meta.json may differ from memory is inductive     *)
(* with it.  Nothing is assumed of the callers: what the catalog promises  *)
(* is proved of each quiet name, whatever is done to the others.           *)
(***************************************************************************)
EXTENDS OpenVec, WellFoundedInduction, TLAPS

Resting == {"idle", "holding", "panicked"}
Unlocked == (Steps \cup Resting) \ {"saveCreated", "saveDropped", "readMeta", "openLazily"}

HoldsMeta(t) == pc[t] \in {"saveCreated", "saveDropped"}
HoldsCollections(t) == pc[t] \in {"readMeta", "openLazily"}

LockInv ==
    /\ pc \in [Threads -> Steps \cup Resting]
    /\ metaLock \in Threads \cup {None}
    /\ collectionsLock \in Threads \cup {None}
    /\ \A t \in Threads : HoldsMeta(t) <=> metaLock = t
    /\ \A t \in Threads : HoldsCollections(t) <=> collectionsLock = t

\* Nothing is held when OpenVec has just been opened.
LEMMA InitLockInv == Init => LockInv
  BY CatalogAssumption DEF CatalogAssumption, Init, LockInv, HoldsMeta, HoldsCollections, Resting

\* A thread that holds no lock and goes to a step that holds none keeps the
\* invariant, when the locks stay as they are.
LEMMA GotoKeepsLockInv ==
    ASSUME LockInv, NEW t \in Threads, NEW step \in Unlocked,
           pc[t] \in Unlocked, Goto(t, step), UNCHANGED locks
    PROVE  LockInv'
  BY DEF LockInv, HoldsMeta, HoldsCollections, Goto, locks, Unlocked

\* The calls, and what a caller does with its handle, leave the locks alone.
LEMMA CallsKeepLockInv ==
    ASSUME LockInv, NEW t \in Threads, Start(t) \/ Write(t) \/ Release(t)
    PROVE  LockInv'
<1>1. ASSUME NEW n \in Names, Create(t, n) PROVE LockInv'
  BY <1>1, GotoKeepsLockInv DEF Create, Call, Unlocked, Steps, Resting, locks
<1>2. ASSUME NEW n \in Names, Get(t, n) PROVE LockInv'
  BY <1>2, GotoKeepsLockInv DEF Get, Call, Unlocked, Steps, Resting, locks
<1>3. ASSUME NEW n \in Names, GetRead(t, n) PROVE LockInv'
  BY <1>3, GotoKeepsLockInv DEF GetRead, Call, Unlocked, Steps, Resting, locks
<1>4. ASSUME NEW n \in Names, Drop(t, n) PROVE LockInv'
  BY <1>4, GotoKeepsLockInv DEF Drop, Call, Unlocked, Steps, Resting, locks
<1>5. CASE Write(t)
  BY <1>5 DEF Write, threads, locks, LockInv, HoldsMeta, HoldsCollections
<1>6. CASE Release(t)
  BY <1>6, GotoKeepsLockInv DEF Release, Return, Unlocked, Steps, Resting, locks
<1>7. QED  BY <1>1, <1>2, <1>3, <1>4, <1>5, <1>6 DEF Start

\* Every step of an operation keeps the invariant: those that take or release
\* a lock move between a step that holds it and one that does not.
LEMMA ProceedKeepsLockInv ==
    ASSUME LockInv, NEW t \in Threads, Proceed(t)
    PROVE  LockInv'
<1>1. CASE CheckAbsent(t)
  BY <1>1, GotoKeepsLockInv DEF CheckAbsent, Return, Unlocked, Steps, Resting
<1>2. CASE InsertMeta(t)
  BY <1>2, CatalogAssumption
     DEF CatalogAssumption, InsertMeta, Goto, LockInv, HoldsMeta, HoldsCollections, Steps
<1>3. CASE SaveMeta(t)
  BY <1>3, CatalogAssumption
     DEF CatalogAssumption, SaveMeta, Return, Goto, LockInv, HoldsMeta, HoldsCollections, Steps,
          Resting
<1>4. CASE SaveMetaFails(t)
  BY <1>4, CatalogAssumption
     DEF CatalogAssumption, SaveMetaFails, Return, Goto, LockInv, HoldsMeta, HoldsCollections,
          Steps, Resting
<1>5. CASE OpenNew(t)
  BY <1>5, GotoKeepsLockInv DEF OpenNew, Return, Unlocked, Steps, Resting
<1>6. CASE Register(t)
  BY <1>6, GotoKeepsLockInv DEF Register, Unlocked, Steps, Resting
<1>7. CASE CheckPresent(t)
  BY <1>7, GotoKeepsLockInv DEF CheckPresent, Return, Unlocked, Steps, Resting
<1>8. CASE LookUp(t)
  BY <1>8, GotoKeepsLockInv DEF LookUp, TakeRegistered, Unlocked, Steps, Resting
<1>9. CASE LockCollections(t)
  <2>1. CASE TakeRegistered(t, "holding") /\ UNCHANGED collectionsLock
    BY <1>9, <2>1, GotoKeepsLockInv DEF LockCollections, TakeRegistered, Unlocked, Steps, Resting,
         locks
  <2>2. CASE collectionsLock' = t /\ Goto(t, "readMeta")
    BY <1>9, <2>2, CatalogAssumption
       DEF CatalogAssumption, LockCollections, Goto, LockInv, HoldsMeta, HoldsCollections, Steps
  <2>3. QED  BY <1>9, <2>1, <2>2 DEF LockCollections
<1>10. CASE ReadMeta(t)
  <2>1. CASE Goto(t, "panicked") /\ collectionsLock' = None
    BY <1>10, <2>1, CatalogAssumption
       DEF CatalogAssumption, ReadMeta, Goto, LockInv, HoldsMeta, HoldsCollections, Resting
  <2>2. CASE Goto(t, "openLazily") /\ UNCHANGED collectionsLock
    BY <1>10, <2>2 DEF ReadMeta, Goto, LockInv, HoldsMeta, HoldsCollections, Steps
  <2>3. QED  BY <1>10, <2>1, <2>2 DEF ReadMeta
<1>11. CASE OpenLazily(t)
  <2>1. PICK step \in {"holding", "idle"} : Goto(t, step)
    BY <1>11 DEF OpenLazily, Return
  <2>2. QED
    BY <1>11, <2>1, CatalogAssumption
       DEF CatalogAssumption, OpenLazily, Goto, LockInv, HoldsMeta, HoldsCollections, Resting
<1>12. CASE CheckLoaded(t)
  BY <1>12, GotoKeepsLockInv DEF CheckLoaded, Return, Unlocked, Steps, Resting
<1>13. CASE LookUpLoaded(t)
  BY <1>13, GotoKeepsLockInv DEF LookUpLoaded, TakeRegistered, Return, Unlocked, Steps, Resting
<1>14. CASE CheckDrop(t)
  BY <1>14, GotoKeepsLockInv DEF CheckDrop, Return, Unlocked, Steps, Resting
<1>15. CASE CloseRegistered(t)
  BY <1>15, GotoKeepsLockInv DEF CloseRegistered, Unlocked, Steps, Resting
<1>16. CASE FindDir(t)
  BY <1>16, GotoKeepsLockInv DEF FindDir, Unlocked, Steps, Resting
<1>17. CASE RemoveDir(t)
  BY <1>17, GotoKeepsLockInv DEF RemoveDir, Return, Unlocked, Steps, Resting
<1>18. CASE RemoveMeta(t)
  BY <1>18, CatalogAssumption
     DEF CatalogAssumption, RemoveMeta, Goto, LockInv, HoldsMeta, HoldsCollections, Steps
<1>19. QED
  BY <1>1, <1>2, <1>3, <1>4, <1>5, <1>6, <1>7, <1>8, <1>9, <1>10, <1>11, <1>12, <1>13, <1>14,
     <1>15, <1>16, <1>17, <1>18 DEF Proceed

\* The death of the process frees both locks.
LEMMA RestartKeepsLockInv == Restart => LockInv'
  BY CatalogAssumption DEF CatalogAssumption, Restart, LockInv, HoldsMeta, HoldsCollections, Resting

\* LockInv is inductive.
LEMMA NextKeepsLockInv == LockInv /\ [Next]_vars => LockInv'
<1> SUFFICES ASSUME LockInv, [Next]_vars PROVE LockInv'
  OBVIOUS
<1>1. ASSUME NEW t \in Threads, Start(t) \/ Proceed(t) \/ Write(t) \/ Release(t) PROVE LockInv'
  BY <1>1, CallsKeepLockInv, ProceedKeepsLockInv
<1>2. CASE Restart
  BY <1>2, RestartKeepsLockInv
<1>3. CASE UNCHANGED vars
  BY <1>3 DEF vars, database, locks, threads, LockInv, HoldsMeta, HoldsCollections
<1>4. QED  BY <1>1, <1>2, <1>3 DEF Next, Step

\* Each lock is held by the thread at the step that the code runs under it, and
\* by nobody else, in every behaviour.
THEOREM LocksHeld == Spec => []LockInv
  BY InitLockInv, NextKeepsLockInv, PTL DEF Spec

\* Whatever the callers do and whichever effects fail, the holder of meta waits
\* for no lock and the holder of collections only for meta.
THEOREM LocksStayOrdered == Spec => []LocksOrdered
<1>1. LockInv => LocksOrdered
  BY DEF LockInv, LocksOrdered, HoldsMeta, HoldsCollections
<1>2. QED  BY <1>1, LocksHeld, PTL

-----------------------------------------------------------------------------
(* What the threads do.                                                    *)

CreatingSteps == {"checkAbsent", "insertMeta", "saveCreated", "openNew", "register"}
DroppingSteps == {"close", "findDir", "removeDir", "removeMeta", "saveDropped"}

-----------------------------------------------------------------------------
(* Type correctness.                                                       *)

\* What a thread has at each of its steps.
ThreadsSound == \A t \in Threads :
    /\ pc[t] = "idle" <=> job[t] = None
    /\ pc[t] \in CreatingSteps \cup {"openLazily"} => job[t].creation \in Creations
    /\ handle[t] # None <=> pc[t] \in {"register", "holding"}
    /\ handle[t] # None => engines[handle[t]] # None

\* An Arc refers to an open collection, and the WAL an open collection still
\* has in its directory keeps the directory there.
EnginesSound ==
    /\ \A n \in Names : collections[n] # None => engines[collections[n]] # None
    /\ \A e \in EngineIds : engines[e] # None /\ engines[e].attached =>
           dirs[engines[e].name] # NoDir

TypeInv == TypeOK /\ ThreadsSound /\ EnginesSound

\* The engine a thread opens is a free one.
LEMMA OpensFreeEngine == FreeEngines # {} => Min(FreeEngines) \in FreeEngines
<1> DEFINE R == OpToRel(<, Nat)
<1>1. IsWellFoundedOn(R, Nat)
  BY NatLessThanWellFounded
<1> SUFFICES ASSUME FreeEngines # {} PROVE Min(FreeEngines) \in FreeEngines
  OBVIOUS
<1>2. FreeEngines \subseteq Nat
  BY CatalogAssumption DEF CatalogAssumption, FreeEngines, EngineIds
<1>3. PICK x \in FreeEngines : \A y \in FreeEngines : ~ (<<y, x>> \in R)
  BY <1>1, <1>2, WFMin
<1>4. ASSUME NEW y \in FreeEngines PROVE x <= y
  <2>1. <<y, x>> \in R <=> y < x
    BY <1>2, Zenon DEF OpToRel
  <2>2. ~ (y < x) /\ x \in Nat /\ y \in Nat
    BY <1>2, <1>3, <2>1
  <2>3. QED  BY <2>2
<1>5. QED  BY <1>4 DEF Min

\* None is no creation, no engine, no job, and NoDir is no set of creations.
LEMMA Nothing ==
    /\ None \notin Creations /\ None \notin EngineIds /\ None \notin Jobs /\ None \notin Engines
    /\ None \notin Threads /\ NoDir \notin SUBSET Creations
  BY CatalogAssumption, NoneAssumption DEF CatalogAssumption, Creations, EngineIds

\* No thread runs and nothing is open when OpenVec has just been opened.
LEMMA InitTypeInv == Init => TypeInv
<1> SUFFICES ASSUME Init PROVE TypeInv
  OBVIOUS
<1>1. TypeOK
  <2>1. creations \in 0 .. MaxCreations
    BY CatalogAssumption DEF CatalogAssumption, Init
  <2>2. QED  BY <2>1 DEF Init, TypeOK, NoCollections
<1>2. ThreadsSound
  BY Nothing DEF Init, ThreadsSound, CreatingSteps
<1>3. EnginesSound
  BY Nothing DEF Init, EnginesSound, NoCollections
<1>4. QED  BY <1>1, <1>2, <1>3 DEF TypeInv

\* What opening a collection does: the thread gets a free engine, and the
\* directory is there.
NewEngine(t) == [name |-> Name(t), creation |-> job[t].creation, attached |-> TRUE]
Opens(t, e) ==
    /\ engines[e] = None
    /\ handle' = [handle EXCEPT ![t] = e]
    /\ engines' = [engines EXCEPT ![e] = NewEngine(t)]
    /\ dirs' = [dirs EXCEPT ![Name(t)] = Content(Name(t))]

LEMMA OpenCollectionIs ==
    ASSUME TypeInv, NEW t \in Threads, job[t] # None, job[t].creation \in Creations,
       OpenCollection(t)
    PROVE  /\ Name(t) \in Names /\ NewEngine(t) \in Engines
           /\ \E e \in EngineIds : Opens(t, e)
<1>1. Min(FreeEngines) \in FreeEngines
  BY OpensFreeEngine DEF OpenCollection
<1>2. job[t] \in Jobs
  BY DEF TypeInv, TypeOK
<1>3. Name(t) \in Names /\ NewEngine(t) \in Engines
  BY <1>2 DEF Jobs, Engines, Name, NewEngine
<1>4. Min(FreeEngines) \in EngineIds /\ engines[Min(FreeEngines)] = None
  BY <1>1 DEF FreeEngines
<1>5. QED  BY <1>3, <1>4 DEF OpenCollection, Opens, NewEngine

LEMMA ContentIs ==
    ASSUME TypeInv, NEW n \in Names
    PROVE  /\ Content(n) \in SUBSET Creations /\ Content(n) # NoDir
           /\ dirs[n] # NoDir => Content(n) = dirs[n]
           /\ dirs[n] = NoDir => Content(n) = {}
  BY Nothing DEF Content, TypeInv, TypeOK

\* The directory is there afterwards, and no other has changed.
LEMMA MakesDirectory ==
    ASSUME TypeInv, NEW n \in Names, dirs' = [dirs EXCEPT ![n] = Content(n)]
    PROVE  /\ dirs' \in [Names -> (SUBSET Creations) \cup {NoDir}]
           /\ dirs'[n] = Content(n) /\ dirs'[n] # NoDir
           /\ \A m \in Names : dirs[m] # NoDir => dirs'[m] # NoDir
  BY ContentIs DEF TypeInv, TypeOK

\* Steps that open and close nothing.
LEMMA MovesKeepTypeInv ==
    ASSUME TypeInv, contended' \in SUBSET Names, NEW t \in Threads,
           \/ CheckAbsent(t) \/ InsertMeta(t) \/ SaveMeta(t) \/ SaveMetaFails(t) \/ CheckPresent(t)
           \/ LookUp(t) \/ LockCollections(t) \/ ReadMeta(t) \/ CheckLoaded(t) \/ LookUpLoaded(t)
           \/ CheckDrop(t) \/ FindDir(t) \/ RemoveMeta(t)
    PROVE  TypeInv'
<1> USE Nothing DEF TypeInv, TypeOK, ThreadsSound, EnginesSound, Goto, Return, Name,
       CreatingSteps, Steps, Jobs, locks
<1>1. CASE CheckAbsent(t)
  BY <1>1 DEF CheckAbsent
<1>2. CASE InsertMeta(t)
  BY <1>2 DEF InsertMeta
<1>3. CASE SaveMeta(t)
  BY <1>3 DEF SaveMeta
<1>4. CASE SaveMetaFails(t)
  BY <1>4 DEF SaveMetaFails
<1>5. CASE CheckPresent(t)
  BY <1>5 DEF CheckPresent
<1>6. CASE LookUp(t)
  BY <1>6 DEF LookUp, TakeRegistered
<1>7. CASE LockCollections(t)
  BY <1>7 DEF LockCollections, TakeRegistered
<1>8. CASE ReadMeta(t)
  BY <1>8 DEF ReadMeta
<1>9. CASE CheckLoaded(t)
  BY <1>9 DEF CheckLoaded
<1>10. CASE LookUpLoaded(t)
  BY <1>10 DEF LookUpLoaded, TakeRegistered
<1>11. CASE CheckDrop(t)
  BY <1>11 DEF CheckDrop
<1>12. CASE FindDir(t)
  BY <1>12 DEF FindDir
<1>13. CASE RemoveMeta(t)
  BY <1>13 DEF RemoveMeta
<1>14. QED
  BY <1>1, <1>2, <1>3, <1>4, <1>5, <1>6, <1>7, <1>8, <1>9, <1>10, <1>11, <1>12, <1>13

\* The calls.
LEMMA CallsKeepTypeInv ==
    ASSUME TypeInv, contended' \in SUBSET Names, NEW t \in Threads, Start(t)
    PROVE  TypeInv'
<1> USE Nothing DEF TypeInv, TypeOK, ThreadsSound, EnginesSound, Call, Goto, CreatingSteps, Steps,
       Jobs, locks
<1>1. ASSUME NEW n \in Names, Create(t, n) PROVE TypeInv'
  <2>1. creations + 1 \in Creations /\ creations' \in 0 .. MaxCreations
    BY <1>1, CatalogAssumption DEF CatalogAssumption, Create, Creations
  <2>2. QED  BY <1>1, <2>1 DEF Create
<1>2. ASSUME NEW n \in Names, Get(t, n) PROVE TypeInv'
  BY <1>2 DEF Get
<1>3. ASSUME NEW n \in Names, GetRead(t, n) PROVE TypeInv'
  BY <1>3 DEF GetRead
<1>4. ASSUME NEW n \in Names, Drop(t, n) PROVE TypeInv'
  BY <1>4 DEF Drop
<1>5. QED  BY <1>1, <1>2, <1>3, <1>4 DEF Start

\* Steps that open or close a collection, or change its directory.
LEMMA OpensKeepTypeInv ==
    ASSUME TypeInv, contended' \in SUBSET Names, NEW t \in Threads,
           OpenNew(t) \/ Register(t) \/ OpenLazily(t) \/ CloseRegistered(t) \/ Release(t)
    PROVE  TypeInv'
<1> USE Nothing DEF TypeInv, TypeOK, ThreadsSound, EnginesSound, Goto, Return, CreatingSteps,
       Steps, locks
<1>1. CASE OpenNew(t)
  <2>1. job[t] \in Jobs /\ job[t] # None /\ job[t].creation \in Creations /\ Name(t) \in Names
    BY <1>1 DEF OpenNew, Jobs, Name
  <2>2. CASE OpenCollection(t) /\ Goto(t, "register") /\ UNCHANGED job
    <3>1. NewEngine(t) \in Engines
      BY <2>1, <2>2, OpenCollectionIs
    <3>2. PICK e \in EngineIds : Opens(t, e)
      BY <2>1, <2>2, OpenCollectionIs
    <3>3. TypeOK'
      BY <1>1, <2>1, <2>2, <3>1, <3>2, MakesDirectory DEF OpenNew, Opens
    <3>4. ThreadsSound'
      BY <1>1, <2>1, <2>2, <3>1, <3>2 DEF OpenNew, Opens
    <3>5. EnginesSound'
      <4>1. dirs'[Name(t)] # NoDir /\ \A m \in Names : dirs[m] # NoDir => dirs'[m] # NoDir
        BY <2>1, <3>2, MakesDirectory DEF Opens
      <4>2. ASSUME NEW d \in EngineIds, engines'[d] # None, engines'[d].attached
            PROVE  dirs'[engines'[d].name] # NoDir
        <5>1. CASE d = e
          BY <2>1, <3>2, <4>1, <5>1 DEF Opens, NewEngine
        <5>2. CASE d # e
          BY <3>2, <4>1, <4>2, <5>2 DEF Opens, Engines
        <5>3. QED  BY <5>1, <5>2
      <4>3. ASSUME NEW n \in Names, collections'[n] # None PROVE engines'[collections'[n]] # None
        BY <1>1, <3>1, <3>2, <4>3 DEF OpenNew, Opens
      <4>4. QED  BY <4>2, <4>3
    <3>6. QED  BY <3>3, <3>4, <3>5
  <2>3. CASE OpenCollectionFails(t) /\ Return(t) /\ UNCHANGED engines
    <3>1. /\ dirs' \in [Names -> (SUBSET Creations) \cup {NoDir}]
          /\ \A m \in Names : dirs[m] # NoDir => dirs'[m] # NoDir
      BY <2>1, <2>3, MakesDirectory DEF OpenCollectionFails
    <3>2. QED  BY <1>1, <2>1, <2>3, <3>1 DEF OpenNew, Engines
  <2>4. QED  BY <1>1, <2>2, <2>3 DEF OpenNew
<1>2. CASE OpenLazily(t)
  <2>1. job[t] \in Jobs /\ job[t] # None /\ job[t].creation \in Creations /\ Name(t) \in Names
    BY <1>2 DEF OpenLazily, Jobs, Name
  <2>2. CASE OpenCollection(t) /\ collections' = [collections EXCEPT ![Name(t)] = handle'[t]]
             /\ Goto(t, "holding") /\ UNCHANGED job
    <3>1. NewEngine(t) \in Engines
      BY <2>1, <2>2, OpenCollectionIs
    <3>2. PICK e \in EngineIds : Opens(t, e)
      BY <2>1, <2>2, OpenCollectionIs
    <3>3. collections' = [collections EXCEPT ![Name(t)] = e]
      BY <2>2, <3>2 DEF Opens
    <3>4. TypeOK'
      <4>1. dirs' \in [Names -> (SUBSET Creations) \cup {NoDir}]
        BY <2>1, <3>2, MakesDirectory DEF Opens
      <4>2. /\ UNCHANGED <<meta, metaLock, metaFile, creations, promised, parted>>
             /\ collectionsLock' = None
        BY <1>2 DEF OpenLazily
      <4>3. QED  BY <2>1, <2>2, <3>1, <3>2, <3>3, <4>1, <4>2 DEF Opens
    <3>5. ThreadsSound'
      BY <1>2, <2>1, <2>2, <3>1, <3>2 DEF OpenLazily, Opens
    <3>6. EnginesSound'
      <4>1. dirs'[Name(t)] # NoDir /\ \A m \in Names : dirs[m] # NoDir => dirs'[m] # NoDir
        BY <2>1, <3>2, MakesDirectory DEF Opens
      <4>2. ASSUME NEW d \in EngineIds, engines'[d] # None, engines'[d].attached
            PROVE  dirs'[engines'[d].name] # NoDir
        <5>1. CASE d = e
          BY <2>1, <3>2, <4>1, <5>1 DEF Opens, NewEngine
        <5>2. CASE d # e
          BY <3>2, <4>1, <4>2, <5>2 DEF Opens, Engines
        <5>3. QED  BY <5>1, <5>2
      <4>3. ASSUME NEW n \in Names, collections'[n] # None PROVE engines'[collections'[n]] # None
        BY <1>2, <3>1, <3>2, <4>3, <2>1, <3>3 DEF Opens
      <4>4. QED  BY <4>2, <4>3
    <3>7. QED  BY <3>4, <3>5, <3>6
  <2>3. CASE OpenCollectionFails(t) /\ Return(t) /\ UNCHANGED <<collections, engines>>
    <3>1. /\ dirs' \in [Names -> (SUBSET Creations) \cup {NoDir}]
          /\ \A m \in Names : dirs[m] # NoDir => dirs'[m] # NoDir
      BY <2>1, <2>3, MakesDirectory DEF OpenCollectionFails
    <3>2. QED  BY <1>2, <2>1, <2>3, <3>1 DEF OpenLazily, Engines
  <2>4. QED  BY <1>2, <2>2, <2>3 DEF OpenLazily
<1>3. CASE Register(t)
  BY <1>3 DEF Register, CloseUnused, Referenced, Name, Jobs
<1>4. CASE CloseRegistered(t)
  BY <1>4 DEF CloseRegistered, CloseUnused, Referenced, Name, Jobs
<1>5. CASE Release(t)
  BY <1>5 DEF Release, CloseUnused, Referenced
<1>6. QED  BY <1>1, <1>2, <1>3, <1>4, <1>5

\* What a caller writes, and the removal of a directory: the collections of the
\* name lose it together.
LEMMA FilesKeepTypeInv ==
    ASSUME TypeInv, contended' \in SUBSET Names, NEW t \in Threads, Write(t) \/ RemoveDir(t)
    PROVE  TypeInv'
<1> USE Nothing DEF TypeInv, TypeOK, ThreadsSound, EnginesSound, Goto, Return, CreatingSteps,
       Steps, locks, threads
<1>1. CASE Write(t)
  <2> DEFINE e == engines[handle[t]]
  <2>1. /\ e \in Engines /\ e.name \in Names /\ e.creation \in Creations
        /\ (e.attached => dirs[e.name] # NoDir)
    BY <1>1 DEF Write, Engines
  <2>2. PICK s \in SUBSET Creations : dirs' = [dirs EXCEPT ![e.name] = s]
    <3>1. Content(e.name) \cup {e.creation} \in SUBSET Creations
      BY <2>1, ContentIs
    <3>2. CASE e.attached /\ dirs' = [dirs EXCEPT ![e.name] = dirs[e.name] \cup {e.creation}]
      <4>1. dirs[e.name] = Content(e.name)
        BY <2>1, <3>2, ContentIs
      <4>2. QED  BY <3>1, <3>2, <4>1
    <3>3. CASE dirs' = [dirs EXCEPT ![e.name] = Content(e.name) \cup {e.creation}]
      BY <3>1, <3>3
    <3>4. QED  BY <1>1, <3>2, <3>3 DEF Write
  <2>3. QED  BY <1>1, <2>1, <2>2 DEF Write, Engines
<1>2. CASE RemoveDir(t)
  <2>1. job[t] \in Jobs /\ Name(t) \in Names
    BY <1>2 DEF RemoveDir, Name, Jobs
  <2>2. CASE UNCHANGED <<dirs, engines>> /\ Return(t)
    BY <1>2, <2>2 DEF RemoveDir
  <2>3. CASE /\ dirs' = [dirs EXCEPT ![Name(t)] = NoDir]
             /\ engines' = [e \in EngineIds |->
                   IF engines[e] # None /\ engines[e].name = Name(t)
                   THEN [engines[e] EXCEPT !.attached = FALSE] ELSE engines[e]]
             /\ Goto(t, "removeMeta") /\ UNCHANGED <<job, handle>>
    <3>1. ASSUME NEW e \in EngineIds
          PROVE  /\ engines'[e] \in Engines \cup {None}
                 /\ (engines'[e] = None <=> engines[e] = None)
                 /\ engines'[e] # None /\ engines'[e].attached => dirs'[engines'[e].name] # NoDir
      <4>1. CASE engines[e] # None /\ engines[e].name = Name(t)
        <5>1. engines'[e] = [engines[e] EXCEPT !.attached = FALSE] /\ engines[e] \in Engines
          BY <2>3, <4>1
        <5>2. engines'[e] \in Engines /\ ~ engines'[e].attached
          BY <5>1 DEF Engines
        <5>3. QED  BY <4>1, <5>2
      <4>2. CASE engines[e] = None \/ engines[e].name # Name(t)
        BY <2>1, <2>3, <4>2 DEF Engines
      <4>3. QED  BY <4>1, <4>2
    <3>2. TypeOK'
      BY <1>2, <2>1, <2>3, <3>1 DEF RemoveDir
    <3>3. ThreadsSound' /\ EnginesSound'
      BY <1>2, <2>3, <3>1 DEF RemoveDir
    <3>4. QED  BY <3>2, <3>3
  <2>4. QED  BY <1>2, <2>2, <2>3 DEF RemoveDir
<1>3. QED  BY <1>1, <1>2

\* TypeInv is inductive.
LEMMA NextKeepsTypeInv == TypeInv /\ [Next]_vars => TypeInv'
<1> SUFFICES ASSUME TypeInv, [Next]_vars PROVE TypeInv'
  OBVIOUS
<1>0. contended' \in SUBSET Names
  BY DEF Next, vars, TypeInv, TypeOK
<1>1. ASSUME NEW t \in Threads, Start(t) \/ Proceed(t) \/ Write(t) \/ Release(t) PROVE TypeInv'
  BY <1>0, <1>1, CallsKeepTypeInv, MovesKeepTypeInv, OpensKeepTypeInv, FilesKeepTypeInv DEF Proceed
<1>2. CASE Restart
  BY <1>0, <1>2, Nothing DEF Restart, TypeInv, TypeOK, ThreadsSound, EnginesSound, NoCollections,
     CreatingSteps
<1>3. CASE UNCHANGED vars
  BY <1>3 DEF vars, database, locks, threads, TypeInv, TypeOK, ThreadsSound, EnginesSound
<1>4. QED  BY <1>1, <1>2, <1>3 DEF Next, Step

LEMMA TypesHold == Spec => []TypeInv
  BY InitTypeInv, NextKeepsTypeInv, PTL DEF Spec

\* Whatever the callers do and whichever effects fail, the catalog and its
\* threads are well typed.
THEOREM CatalogTypeCorrect == Spec => []TypeOK
  BY TypesHold, PTL DEF TypeInv

-----------------------------------------------------------------------------
(* _meta.json.                                                             *)

\* Only the name that the holder of meta is changing differs between the memory
\* and _meta.json, and those whose own save or load failed.
FileLags == \A n \in Names \ parted :
    metaFile[n] = meta[n] \/ (metaLock # None /\ Name(metaLock) = n)

\* Only a thread that has just taken meta for writing changes the metadata, and
\* it writes the file before it lets go.
LEMMA ProceedKeepsFileLags ==
    ASSUME TypeInv, LockInv, FileLags, NEW t \in Threads, Proceed(t)
    PROVE  FileLags'
<1> USE CatalogAssumption DEF CatalogAssumption, TypeInv, TypeOK, LockInv, HoldsMeta, FileLags,
       Name, Goto, Return, locks
<1>1. CASE InsertMeta(t)
  BY <1>1 DEF InsertMeta
<1>2. CASE SaveMeta(t)
  BY <1>2 DEF SaveMeta
<1>3. CASE SaveMetaFails(t)
  BY <1>3 DEF SaveMetaFails
<1>4. CASE RemoveMeta(t)
  BY <1>4 DEF RemoveMeta
<1>5. CASE \/ CheckAbsent(t) \/ OpenNew(t) \/ Register(t) \/ CheckPresent(t) \/ LookUp(t)
           \/ LockCollections(t) \/ ReadMeta(t) \/ OpenLazily(t) \/ CheckLoaded(t)
           \/ LookUpLoaded(t) \/ CheckDrop(t) \/ CloseRegistered(t) \/ FindDir(t) \/ RemoveDir(t)
  <2>1. UNCHANGED <<meta, metaFile, metaLock, parted>>
    BY <1>5 DEF CheckAbsent, OpenNew, Register, CheckPresent, LookUp, LockCollections, ReadMeta,
       OpenLazily, CheckLoaded, LookUpLoaded, CheckDrop, CloseRegistered, FindDir, RemoveDir
  <2>2. ~ HoldsMeta(t)
    BY <1>5 DEF CheckAbsent, OpenNew, Register, CheckPresent, LookUp, LockCollections, ReadMeta,
       OpenLazily, CheckLoaded, LookUpLoaded, CheckDrop, CloseRegistered, FindDir, RemoveDir
  <2>3. \A u \in Threads \ {t} : job'[u] = job[u]
    BY <1>5 DEF CheckAbsent, OpenNew, Register, CheckPresent, LookUp, LockCollections, ReadMeta,
       OpenLazily, CheckLoaded, LookUpLoaded, CheckDrop, CloseRegistered, FindDir, RemoveDir,
       TakeRegistered
  <2>4. QED  BY <2>1, <2>2, <2>3
<1>6. QED  BY <1>1, <1>2, <1>3, <1>4, <1>5 DEF Proceed

LEMMA NextKeepsFileLags == TypeInv /\ LockInv /\ FileLags /\ [Next]_vars => FileLags'
<1> SUFFICES ASSUME TypeInv, LockInv, FileLags, [Next]_vars PROVE FileLags'
  OBVIOUS
<1>1. ASSUME NEW t \in Threads, Proceed(t) PROVE FileLags'
  BY <1>1, ProceedKeepsFileLags
<1>2. ASSUME NEW t \in Threads, Start(t) \/ Write(t) \/ Release(t) PROVE FileLags'
  <2>1. UNCHANGED <<meta, metaFile, metaLock, parted>>
    BY <1>2 DEF Start, Create, Get, GetRead, Drop, Write, Release, locks
  <2>2. ~ HoldsMeta(t) /\ \A u \in Threads \ {t} : job'[u] = job[u]
    BY <1>2 DEF Start, Create, Get, GetRead, Drop, Call, Write, Release, Return, threads, HoldsMeta,
       TypeInv, TypeOK
  <2>3. QED  BY <2>1, <2>2 DEF FileLags, LockInv, Name
<1>3. CASE Restart
  BY <1>3 DEF Restart, FileLags
<1>4. CASE UNCHANGED vars
  BY <1>4 DEF vars, database, locks, threads, FileLags, Name
<1>5. QED  BY <1>1, <1>2, <1>3, <1>4 DEF Next, Step

LEMMA FileLagsHolds == Spec => [](TypeInv /\ LockInv /\ FileLags)
<1>1. Init => FileLags
  BY DEF Init, FileLags
<1>2. QED  BY <1>1, NextKeepsFileLags, TypesHold, LocksHeld, PTL DEF Spec

\* Whenever nobody is writing the metadata, _meta.json holds all of it but the names
\* whose own save or load failed, however many threads create and drop collections,
\* whatever fails and wherever the process dies.
THEOREM MetaStaysSaved == Spec => []MetaSaved
<1>1. FileLags => MetaSaved
  BY DEF FileLags, MetaSaved
<1>2. QED  BY <1>1, FileLagsHolds, PTL

-----------------------------------------------------------------------------
(* Quiet names.                                                            *)

\* Whoever changes a quiet name is its only user.
Alone == \A t, u \in Threads :
    Changing(t) /\ Using(u) /\ Name(t) \in Quiet /\ Name(u) = Name(t) => u = t

\* An open collection of a quiet name is that of the creation the name is
\* registered with, and is registered itself or about to be.
EnginesHeld == \A e \in EngineIds : engines[e] # None /\ engines[e].name \in Quiet =>
    /\ engines[e].creation = meta[engines[e].name]
    /\ \/ collections[engines[e].name] = e
       \/ \E t \in Threads : handle[t] = e /\ pc[t] = "register"

\* A handle and an entry of the map lead to a collection of their name, and those
\* of a quiet name to the same.
Named ==
    /\ \A t \in Threads : handle[t] # None => engines[handle[t]].name = Name(t)
    /\ \A n \in Names : collections[n] # None => engines[collections[n]].name = n
    /\ \A t \in Threads : pc[t] = "holding" /\ Name(t) \in Quiet => collections[Name(t)] = handle[t]
    /\ \A n \in Quiet : collections[n] # None => meta[n] # None

\* What a thread knows of a quiet name at each step.
Progress == \A t \in Threads : pc[t] # "idle" /\ Name(t) \in Quiet =>
    /\ pc[t] \in {"insertMeta", "saveCreated", "openNew", "register", "findDir", "removeDir",
                  "removeMeta", "saveDropped", "readMeta", "openLazily"}
          => collections[Name(t)] = None
    /\ pc[t] = "insertMeta" => meta[Name(t)] = None
    /\ pc[t] \in {"saveCreated", "openNew", "register", "openLazily"}
          => meta[Name(t)] = job[t].creation
    /\ pc[t] \in {"openNew", "register"} => metaFile[Name(t)] = job[t].creation

UseInv == EnginesHeld /\ Named /\ Progress

\* A step that has not been recorded as an overlap leaves none behind: a name that
\* is quiet after it was quiet before, and whoever changes it is alone.
Calm == Alone /\ Alone' /\ Quiet' \subseteq Quiet

LEMMA NextKeepsAlone == TypeInv /\ TypeInv' /\ Alone /\ [Next]_vars => Calm
<1> SUFFICES ASSUME TypeInv, TypeInv', Alone, [Next]_vars PROVE Alone' /\ Quiet' \subseteq Quiet
  BY DEF Calm
<1>1. CASE Next
  <2>1. contended' = contended \cup {n \in Names : Contention(n)'}
    BY <1>1 DEF Next
  <2>2. Quiet' \subseteq Quiet
    BY <2>1 DEF Quiet
  <2>3. ASSUME NEW n \in Quiet', NEW t \in Threads, NEW u \in Threads, Changing(t)', Using(u)',
               Name(t)' = n, Name(u)' = n
        PROVE  u = t
    <3>1. ~ Contention(n)'
      BY <2>1 DEF Quiet
    <3>2. QED  BY <2>3, <3>1 DEF Contention, ChangersOf
  <2>4. QED  BY <2>2, <2>3 DEF Alone
<1>2. CASE UNCHANGED vars
  BY <1>2 DEF vars, database, threads, Alone, Changing, Using, Name, Quiet
<1>3. QED  BY <1>1, <1>2

\* The registration of a name changes only when its one user finds no collection
\* of it open; a collection that loses its last Arc is closed.
LEMMA StepsKeepEnginesHeld ==
    ASSUME Calm, TypeInv, LockInv, UseInv, NEW t \in Threads, Proceed(t) \/ Write(t) \/ Release(t)
    PROVE  EnginesHeld'
<1> USE Nothing DEF TypeInv, TypeOK, ThreadsSound, EnginesSound, UseInv, Calm, Alone, Changing,
       Using, Quiet, EnginesHeld, Named, Progress, Goto, Return, Name, Jobs, Engines,
       CreatingSteps, DroppingSteps, Steps, locks
<1>1. CASE CheckAbsent(t)
  BY <1>1 DEF CheckAbsent
<1>2. CASE InsertMeta(t)
  BY <1>2 DEF InsertMeta
<1>3. CASE SaveMeta(t)
  BY <1>3 DEF SaveMeta
<1>4. CASE SaveMetaFails(t)
  BY <1>4 DEF SaveMetaFails
<1>5. CASE OpenNew(t)
  <2>1. job[t] # None /\ job[t].creation \in Creations
    BY <1>5 DEF OpenNew
  <2>2. ASSUME NEW e \in EngineIds, Opens(t, e), OpenCollection(t) PROVE EnginesHeld'
    <3>1. ASSUME NEW d \in EngineIds, engines'[d] # None, engines'[d].name \in Quiet'
          PROVE  /\ engines'[d].creation = meta'[engines'[d].name]
                 /\ \/ collections'[engines'[d].name] = d
                    \/ \E u \in Threads : handle'[u] = d /\ pc'[u] = "register"
      <4>1. CASE d = e
        <5>1. /\ engines'[d] = NewEngine(t) /\ handle'[t] = d
              /\ pc[t] = "openNew" /\ pc'[t] = "register"
          BY <1>5, <2>1, <2>2, <4>1 DEF OpenNew, Opens
        <5>2. engines'[d].name = Name(t) /\ engines'[d].creation = job[t].creation
          BY <5>1 DEF NewEngine
        <5>3. meta[Name(t)] = job[t].creation
          BY <3>1, <5>1, <5>2
        <5>4. QED  BY <1>5, <5>1, <5>2, <5>3 DEF OpenNew
      <4>2. CASE d # e
        BY <1>5, <2>1, <2>2, <3>1, <4>2 DEF OpenNew, Opens
      <4>3. QED  BY <4>1, <4>2
    <3>2. QED  BY <3>1
  <2>3. CASE OpenCollectionFails(t) /\ Return(t)
    BY <1>5, <2>1, <2>3 DEF OpenNew, OpenCollectionFails
  <2>4. QED  BY <1>5, <2>1, <2>2, <2>3, OpenCollectionIs DEF OpenNew
<1>6. CASE Register(t)
  BY <1>6 DEF Register, CloseUnused, Referenced
<1>7. CASE CheckPresent(t)
  BY <1>7 DEF CheckPresent
<1>8. CASE LookUp(t)
  BY <1>8 DEF LookUp, TakeRegistered
<1>9. CASE LockCollections(t)
  BY <1>9 DEF LockCollections, TakeRegistered
<1>10. CASE ReadMeta(t)
  BY <1>10 DEF ReadMeta
<1>11. CASE OpenLazily(t)
  <2>1. job[t] # None /\ job[t].creation \in Creations
    BY <1>11 DEF OpenLazily
  <2>2. ASSUME NEW e \in EngineIds, Opens(t, e), OpenCollection(t) PROVE EnginesHeld'
    <3>1. collections' = [collections EXCEPT ![Name(t)] = e] /\ meta' = meta /\ Name(t) \in Names
      BY <1>11, <2>1, <2>2 DEF OpenLazily, Opens
    <3>2. ASSUME NEW d \in EngineIds, engines'[d] # None, engines'[d].name \in Quiet'
          PROVE  /\ engines'[d].creation = meta'[engines'[d].name]
                 /\ \/ collections'[engines'[d].name] = d
                    \/ \E u \in Threads : handle'[u] = d /\ pc'[u] = "register"
      <4>1. CASE d = e
        <5>1. engines'[d] = NewEngine(t) /\ pc[t] = "openLazily"
          BY <1>11, <2>1, <2>2, <4>1 DEF OpenLazily, Opens
        <5>2. engines'[d].name = Name(t) /\ engines'[d].creation = job[t].creation
          BY <5>1 DEF NewEngine
        <5>3. meta[Name(t)] = job[t].creation
          BY <3>2, <5>1, <5>2
        <5>4. QED  BY <3>1, <4>1, <5>2, <5>3
      <4>2. CASE d # e
        BY <1>11, <2>1, <2>2, <3>1, <3>2, <4>2 DEF OpenLazily, Opens
      <4>3. QED  BY <4>1, <4>2
    <3>3. QED  BY <3>2
  <2>3. CASE OpenCollectionFails(t) /\ Return(t)
    BY <1>11, <2>1, <2>3 DEF OpenLazily, OpenCollectionFails
  <2>4. QED  BY <1>11, <2>1, <2>2, <2>3, OpenCollectionIs DEF OpenLazily
<1>12. CASE CheckLoaded(t)
  BY <1>12 DEF CheckLoaded
<1>13. CASE LookUpLoaded(t)
  BY <1>13 DEF LookUpLoaded, TakeRegistered
<1>14. CASE CheckDrop(t)
  BY <1>14 DEF CheckDrop
<1>15. CASE CloseRegistered(t)
  <2>1. /\ pc[t] = "close" /\ Name(t) \in Names /\ handle[t] = None
        /\ collections' = [collections EXCEPT ![Name(t)] = None]
        /\ pc' = [pc EXCEPT ![t] = "findDir"] /\ UNCHANGED <<meta, handle>>
    BY <1>15 DEF CloseRegistered
  <2>2. ASSUME NEW d \in EngineIds, engines'[d] # None, engines'[d].name \in Quiet'
        PROVE  /\ engines'[d].creation = meta'[engines'[d].name]
               /\ \/ collections'[engines'[d].name] = d
                  \/ \E u \in Threads : handle'[u] = d /\ pc'[u] = "register"
    <3>1. engines'[d] = engines[d] /\ engines[d].name \in Quiet
      BY <1>15, <2>2 DEF CloseRegistered, CloseUnused
    <3>2. \/ \E n \in Names : collections'[n] = d
          \/ \E u \in Threads : handle'[u] = d
      BY <1>15, <2>2 DEF CloseRegistered, CloseUnused, Referenced
    <3>3. ASSUME NEW u \in Threads, handle[u] = d PROVE engines[d].name # Name(t)
      <4>1. Name(u) = engines[d].name /\ Using(u) /\ u # t
        BY <2>1, <3>3
      <4>2. QED  BY <2>1, <3>1, <4>1
    <3>4. ASSUME NEW n \in Names, collections'[n] = d PROVE engines[d].name # Name(t)
      BY <2>1, <3>4
    <3>5. engines[d].name # Name(t)
      BY <2>1, <3>2, <3>3, <3>4
    <3>6. QED  BY <2>1, <2>2, <3>1, <3>5
  <2>3. QED  BY <2>2
<1>16. CASE FindDir(t)
  BY <1>16 DEF FindDir
<1>17. CASE RemoveDir(t)
  BY <1>17 DEF RemoveDir
<1>18. CASE RemoveMeta(t)
  BY <1>18 DEF RemoveMeta
<1>19. CASE Write(t)
  BY <1>19 DEF Write, threads
<1>20. CASE Release(t)
  BY <1>20 DEF Release, CloseUnused, Referenced
<1>21. QED
  BY <1>1, <1>2, <1>3, <1>4, <1>5, <1>6, <1>7, <1>8, <1>9, <1>10, <1>11, <1>12, <1>13, <1>14,
     <1>15, <1>16, <1>17, <1>18, <1>19, <1>20 DEF Proceed

\* Steps that open and close nothing and register nothing: what a thread has is
\* what it had, nothing, or what it finds registered.
LEMMA MovesKeepNamed ==
    ASSUME Calm, TypeInv, Named, NEW t \in Threads,
           \/ CheckAbsent(t) \/ SaveMeta(t) \/ SaveMetaFails(t) \/ CheckPresent(t) \/ LookUp(t)
           \/ LockCollections(t) \/ ReadMeta(t) \/ CheckLoaded(t) \/ LookUpLoaded(t)
           \/ CheckDrop(t) \/ FindDir(t)
    PROVE  Named'
<1>1. UNCHANGED <<meta, collections, engines>>
  BY DEF CheckAbsent, SaveMeta, SaveMetaFails, CheckPresent, LookUp, LockCollections, ReadMeta,
     CheckLoaded, LookUpLoaded, CheckDrop, FindDir
<1>2. ASSUME NEW u \in Threads, u # t
      PROVE  pc'[u] = pc[u] /\ handle'[u] = handle[u] /\ job'[u] = job[u]
  <2> USE DEF TypeInv, TypeOK, Goto, Return, TakeRegistered
  <2>1. CASE CheckAbsent(t) \/ SaveMeta(t) \/ SaveMetaFails(t) \/ CheckPresent(t) \/ LookUp(t)
    BY <1>2, <2>1 DEF CheckAbsent, SaveMeta, SaveMetaFails, CheckPresent, LookUp
  <2>2. CASE LockCollections(t) \/ ReadMeta(t) \/ CheckLoaded(t) \/ LookUpLoaded(t)
    BY <1>2, <2>2 DEF LockCollections, ReadMeta, CheckLoaded, LookUpLoaded
  <2>3. CASE CheckDrop(t) \/ FindDir(t)
    BY <1>2, <2>3 DEF CheckDrop, FindDir
  <2>4. QED  BY <2>1, <2>2, <2>3
<1>3. \/ handle'[t] = None /\ pc'[t] \notin {"holding"}
      \/ collections[Name(t)] # None /\ handle'[t] = collections[Name(t)] /\ job'[t] = job[t]
  <2> USE DEF TypeInv, TypeOK, ThreadsSound, Goto, Return, TakeRegistered, Steps
  <2>1. CASE CheckAbsent(t) \/ SaveMeta(t) \/ SaveMetaFails(t) \/ CheckPresent(t) \/ LookUp(t)
    BY <2>1 DEF CheckAbsent, SaveMeta, SaveMetaFails, CheckPresent, LookUp
  <2>2. CASE LockCollections(t) \/ ReadMeta(t) \/ CheckLoaded(t) \/ LookUpLoaded(t)
    BY <2>2 DEF LockCollections, ReadMeta, CheckLoaded, LookUpLoaded
  <2>3. CASE CheckDrop(t) \/ FindDir(t)
    BY <2>3 DEF CheckDrop, FindDir
  <2>4. QED  BY <2>1, <2>2, <2>3
<1>4. job[t] \in Jobs /\ Name(t) \in Names
  BY DEF TypeInv, TypeOK, ThreadsSound, Jobs, Name, CheckAbsent, SaveMeta, SaveMetaFails,
     CheckPresent,
     LookUp, LockCollections, ReadMeta, CheckLoaded, LookUpLoaded, CheckDrop, FindDir
<1>5. QED  BY <1>1, <1>2, <1>3, <1>4 DEF Calm, Quiet, Named, Name

\* An entry of the map changes only when no handle leads to it.
LEMMA StepsKeepNamed ==
    ASSUME Calm, TypeInv, LockInv, UseInv, NEW t \in Threads, Proceed(t) \/ Write(t) \/ Release(t)
    PROVE  Named'
<1> USE Nothing DEF TypeInv, TypeOK, ThreadsSound, EnginesSound, UseInv, Calm, Alone, Changing,
       Using, Quiet, EnginesHeld, Named, Progress, Goto, Return, Name, Jobs, Engines,
       CreatingSteps, DroppingSteps, Steps, locks
<1>2. CASE InsertMeta(t)
  BY <1>2 DEF InsertMeta
<1>5. CASE OpenNew(t)
  <2>1. job[t] # None /\ job[t].creation \in Creations
    BY <1>5 DEF OpenNew
  <2>2. ASSUME NEW e \in EngineIds, Opens(t, e), OpenCollection(t) PROVE Named'
    BY <1>5, <2>1, <2>2 DEF OpenNew, Opens, NewEngine
  <2>3. CASE OpenCollectionFails(t) /\ Return(t)
    BY <1>5, <2>1, <2>3 DEF OpenNew, OpenCollectionFails
  <2>4. QED  BY <1>5, <2>1, <2>2, <2>3, OpenCollectionIs DEF OpenNew
<1>6. CASE Register(t)
  BY <1>6 DEF Register, CloseUnused, Referenced
<1>11. CASE OpenLazily(t)
  <2>1. job[t] # None /\ job[t].creation \in Creations
    BY <1>11 DEF OpenLazily
  <2>2. ASSUME NEW e \in EngineIds, Opens(t, e), OpenCollection(t) PROVE Named'
    BY <1>11, <2>1, <2>2 DEF OpenLazily, Opens, NewEngine
  <2>3. CASE OpenCollectionFails(t) /\ Return(t)
    BY <1>11, <2>1, <2>3 DEF OpenLazily, OpenCollectionFails
  <2>4. QED  BY <1>11, <2>1, <2>2, <2>3, OpenCollectionIs DEF OpenLazily
<1>15. CASE CloseRegistered(t)
  <2>1. /\ pc[t] = "close" /\ Name(t) \in Names
        /\ collections' = [collections EXCEPT ![Name(t)] = None]
        /\ pc' = [pc EXCEPT ![t] = "findDir"] /\ UNCHANGED <<meta, job, handle>>
    BY <1>15 DEF CloseRegistered
  <2>2. /\ \A u \in Threads : handle[u] # None => engines'[handle[u]] = engines[handle[u]]
        /\ \A n \in Names :
              collections'[n] # None => engines'[collections'[n]] = engines[collections'[n]]
    BY <1>15, <2>1 DEF CloseRegistered, CloseUnused, Referenced
  <2>3. ASSUME NEW u \in Threads, pc'[u] = "holding", Name(u)' \in Quiet'
        PROVE  collections'[Name(u)'] = handle'[u]
    BY <2>1, <2>3
  <2>4. ASSUME NEW u \in Threads, handle'[u] # None PROVE engines'[handle'[u]].name = Name(u)'
    BY <2>1, <2>2, <2>4
  <2>5. ASSUME NEW n \in Names, collections'[n] # None
        PROVE  engines'[collections'[n]].name = n /\ (n \in Quiet' => meta'[n] # None)
    BY <2>1, <2>2, <2>5
  <2>6. QED  BY <2>3, <2>4, <2>5
<1>17. CASE RemoveDir(t)
  <2>1. pc[t] = "removeDir" /\ job[t] # None /\ job[t] \in Jobs /\ Name(t) \in Names
    BY <1>17 DEF RemoveDir
  <2>2. ASSUME NEW e \in EngineIds, engines[e] # None PROVE engines'[e].name = engines[e].name
    <3>1. engines[e] \in Engines
      BY <2>2
    <3>2. engines'[e] \in {engines[e], [engines[e] EXCEPT !.attached = FALSE]}
      BY <1>17 DEF RemoveDir
    <3>3. QED  BY <3>1, <3>2
  <2>3. UNCHANGED <<meta, collections>>
    BY <1>17 DEF RemoveDir
  <2>4. \/ UNCHANGED <<job, handle>> /\ pc' = [pc EXCEPT ![t] = "removeMeta"]
        \/ /\ pc' = [pc EXCEPT ![t] = "idle"] /\ job' = [job EXCEPT ![t] = None]
           /\ handle' = [handle EXCEPT ![t] = None]
    BY <1>17 DEF RemoveDir
  <2>5. ASSUME NEW u \in Threads, handle'[u] # None
        PROVE  handle'[u] = handle[u] /\ job'[u] = job[u] /\ pc'[u] = pc[u]
    BY <2>1, <2>4, <2>5
  <2>6. ASSUME NEW u \in Threads, pc'[u] = "holding"
        PROVE  handle[u] # None /\ handle'[u] = handle[u]
    BY <2>1, <2>4, <2>6
  <2>7. ASSUME NEW u \in Threads, handle'[u] # None
        PROVE  /\ engines'[handle'[u]].name = Name(u)'
               /\ pc'[u] = "holding" /\ Name(u)' \in Quiet' => collections'[Name(u)'] = handle'[u]
    BY <2>2, <2>3, <2>5, <2>7
  <2>8. ASSUME NEW n \in Names, collections'[n] # None
        PROVE  engines'[collections'[n]].name = n /\ (n \in Quiet' => meta'[n] # None)
    BY <2>2, <2>3, <2>8
  <2>9. QED  BY <2>6, <2>7, <2>8
<1>18. CASE RemoveMeta(t)
  BY <1>18 DEF RemoveMeta
<1>19. CASE Write(t)
  BY <1>19 DEF Write, threads
<1>20. CASE Release(t)
  BY <1>20 DEF Release, CloseUnused, Referenced
<1>21. QED
  BY <1>2, <1>5, <1>6, <1>11, <1>15, <1>17, <1>18, <1>19, <1>20, MovesKeepNamed DEF Proceed

\* What a thread knows of a name stays so: whoever else could change it is not a
\* user of the name, or waits for the lock that the thread holds.
LEMMA StepsKeepProgress ==
    ASSUME Calm, TypeInv, LockInv, UseInv, NEW t \in Threads, Proceed(t) \/ Write(t) \/ Release(t)
    PROVE  Progress'
<1> USE Nothing DEF TypeInv, TypeOK, ThreadsSound, EnginesSound, UseInv, Calm, Alone, Changing,
       Using, Quiet, EnginesHeld, Named, Progress, LockInv, HoldsCollections, Goto, Return, Name,
       Jobs, Engines, CreatingSteps, DroppingSteps, Steps, locks
<1>1. CASE CheckAbsent(t)
  BY <1>1 DEF CheckAbsent
<1>2. CASE InsertMeta(t)
  BY <1>2 DEF InsertMeta
<1>3. CASE SaveMeta(t)
  BY <1>3 DEF SaveMeta
<1>4. CASE SaveMetaFails(t)
  BY <1>4 DEF SaveMetaFails
<1>5. CASE OpenNew(t)
  <2>1. job[t] # None /\ job[t].creation \in Creations
    BY <1>5 DEF OpenNew
  <2>2. ASSUME NEW e \in EngineIds, Opens(t, e), OpenCollection(t) PROVE Progress'
    BY <1>5, <2>1, <2>2 DEF OpenNew, Opens, NewEngine
  <2>3. CASE OpenCollectionFails(t) /\ Return(t)
    BY <1>5, <2>1, <2>3 DEF OpenNew, OpenCollectionFails
  <2>4. QED  BY <1>5, <2>1, <2>2, <2>3, OpenCollectionIs DEF OpenNew
<1>6. CASE Register(t)
  BY <1>6 DEF Register, CloseUnused, Referenced
<1>7. CASE CheckPresent(t)
  BY <1>7 DEF CheckPresent
<1>8. CASE LookUp(t)
  BY <1>8 DEF LookUp, TakeRegistered
<1>9. CASE LockCollections(t)
  BY <1>9 DEF LockCollections, TakeRegistered
<1>10. CASE ReadMeta(t)
  <2>1. CASE meta[Name(t)] = None /\ Goto(t, "panicked") /\ UNCHANGED job
    BY <1>10, <2>1 DEF ReadMeta
  <2>2. CASE Goto(t, "openLazily") /\ job' = [job EXCEPT ![t].creation = meta[Name(t)]]
    <3>1. job'[t] = [job[t] EXCEPT !.creation = meta[Name(t)]] /\ job[t] \in Jobs
      BY <1>10, <2>2 DEF ReadMeta
    <3>2. job'[t].name = job[t].name /\ job'[t].creation = meta[Name(t)]
      BY <3>1
    <3>3. \A u \in Threads \ {t} : job'[u] = job[u] /\ pc'[u] = pc[u]
      BY <2>2
    <3>4. pc[t] = "readMeta" /\ pc'[t] = "openLazily" /\ UNCHANGED <<meta, metaFile, collections>>
      BY <1>10, <2>2 DEF ReadMeta
    <3>5. QED  BY <3>2, <3>3, <3>4
  <2>3. QED  BY <1>10, <2>1, <2>2 DEF ReadMeta
<1>11. CASE OpenLazily(t)
  <2>1. job[t] # None /\ job[t].creation \in Creations
    BY <1>11 DEF OpenLazily
  <2>2. ASSUME NEW e \in EngineIds, Opens(t, e), OpenCollection(t) PROVE Progress'
    BY <1>11, <2>1, <2>2 DEF OpenLazily, Opens, NewEngine
  <2>3. CASE OpenCollectionFails(t) /\ Return(t)
    BY <1>11, <2>1, <2>3 DEF OpenLazily, OpenCollectionFails
  <2>4. QED  BY <1>11, <2>1, <2>2, <2>3, OpenCollectionIs DEF OpenLazily
<1>12. CASE CheckLoaded(t)
  BY <1>12 DEF CheckLoaded
<1>13. CASE LookUpLoaded(t)
  BY <1>13 DEF LookUpLoaded, TakeRegistered
<1>14. CASE CheckDrop(t)
  BY <1>14 DEF CheckDrop
<1>15. CASE CloseRegistered(t)
  BY <1>15 DEF CloseRegistered, CloseUnused, Referenced
<1>16. CASE FindDir(t)
  BY <1>16 DEF FindDir
<1>17. CASE RemoveDir(t)
  BY <1>17 DEF RemoveDir
<1>18. CASE RemoveMeta(t)
  BY <1>18 DEF RemoveMeta
<1>19. CASE Write(t)
  BY <1>19 DEF Write, threads
<1>20. CASE Release(t)
  BY <1>20 DEF Release, CloseUnused, Referenced
<1>21. QED
  BY <1>1, <1>2, <1>3, <1>4, <1>5, <1>6, <1>7, <1>8, <1>9, <1>10, <1>11, <1>12, <1>13, <1>14,
     <1>15, <1>16, <1>17, <1>18, <1>19, <1>20 DEF Proceed

\* A call has no handle and knows nothing of its name yet.
LEMMA CallsKeepUseInv ==
    ASSUME Calm, TypeInv, UseInv, NEW t \in Threads, Start(t)
    PROVE  UseInv'
<1>1. UNCHANGED <<meta, metaFile, collections, engines, handle>>
  BY DEF Start, Create, Get, GetRead, Drop
<1>2. /\ pc[t] = "idle"
      /\ \E step \in {"checkAbsent", "checkPresent", "checkLoaded", "checkDrop"} : Goto(t, step)
      /\ \A u \in Threads : u # t => job'[u] = job[u]
  BY DEF Start, Create, Get, GetRead, Drop, Call, TypeInv, TypeOK
<1>3. handle[t] = None
  BY <1>2 DEF TypeInv, ThreadsSound
<1>4. EnginesHeld'
  BY <1>1, <1>2 DEF Calm, UseInv, EnginesHeld, Goto, TypeInv, TypeOK
<1>5. Named'
  BY <1>1, <1>2, <1>3 DEF Calm, UseInv, Named, Goto, TypeInv, TypeOK, Name
<1>6. Progress'
  BY <1>1, <1>2 DEF Calm, UseInv, Progress, Goto, TypeInv, TypeOK, Name
<1>7. QED  BY <1>4, <1>5, <1>6 DEF UseInv

\* UseInv is inductive, relative to the types and the locks.
LEMMA NextKeepsUseInv == Calm /\ TypeInv /\ LockInv /\ UseInv /\ [Next]_vars => UseInv'
<1> SUFFICES ASSUME Calm, TypeInv, LockInv, UseInv, [Next]_vars PROVE UseInv'
  OBVIOUS
<1>1. ASSUME NEW t \in Threads, Start(t) PROVE UseInv'
  BY <1>1, CallsKeepUseInv
<1>2. ASSUME NEW t \in Threads, Proceed(t) \/ Write(t) \/ Release(t) PROVE UseInv'
  BY <1>2, StepsKeepEnginesHeld, StepsKeepNamed, StepsKeepProgress DEF UseInv
<1>3. CASE Restart
  BY <1>3, Nothing DEF Restart, UseInv, EnginesHeld, Named, Progress, NoCollections, Quiet
<1>4. CASE UNCHANGED vars
  BY <1>4 DEF vars, database, locks, threads, UseInv, EnginesHeld, Named, Progress, Name, Quiet
<1>5. QED  BY <1>1, <1>2, <1>3, <1>4 DEF Next, Step

LEMMA InitUseInv == Init => Alone /\ UseInv
  BY Nothing DEF Init, Alone, Changing, UseInv, EnginesHeld, Named, Progress, NoCollections

LEMMA UseHolds == Spec => [](TypeInv /\ LockInv /\ Alone /\ UseInv)
<1>1. Calm => Alone'
  BY DEF Calm
<1>2. QED
  BY <1>1, InitUseInv, NextKeepsAlone, NextKeepsUseInv, TypesHold, LocksHeld, PTL DEF Spec

\* An open collection is the registered one, or its thread is the only one to
\* change the name, which has none registered: two cannot have the same name.
LEMMA OneEngine == TypeInv /\ Alone /\ UseInv => OneEnginePerDirectory
<1> SUFFICES ASSUME TypeInv, Alone, UseInv, NEW n \in Quiet,
                    NEW d \in EngineIds, NEW e \in EngineIds,
                    engines[d] # None, engines[e] # None, engines[d].name = n, engines[e].name = n
             PROVE  d = e
  BY DEF OneEnginePerDirectory, OneEngineOn
<1>1. \/ collections[n] = d
      \/ \E t \in Threads : handle[t] = d /\ pc[t] = "register"
  BY DEF UseInv, EnginesHeld
<1>2. \/ collections[n] = e
      \/ \E t \in Threads : handle[t] = e /\ pc[t] = "register"
  BY DEF UseInv, EnginesHeld
<1>3. ASSUME NEW t \in Threads, pc[t] = "register", handle[t] \in {d, e}
      PROVE  collections[n] = None /\ Name(t) = n
  BY <1>3, Nothing DEF UseInv, Named, Progress
<1>4. ASSUME NEW t \in Threads, NEW u \in Threads, pc[t] = "register", handle[t] = d,
             pc[u] = "register", handle[u] = e
      PROVE  d = e
  BY <1>3, <1>4 DEF Alone, Changing, Using
<1>5. QED  BY <1>1, <1>2, <1>3, <1>4, Nothing

\* However the process dies and whatever fails, one collection at a time is open
\* on the directory of a quiet name, for any number of threads that get it
\* concurrently and whatever is done to other names.
THEOREM OneEngineHolds == Spec => []OneEnginePerDirectory
  BY UseHolds, OneEngine, PTL

-----------------------------------------------------------------------------
(* What is on disk of a quiet name.                                        *)

\* The directory of a name whose saves have not failed belongs to the creation that
\* is registered, in memory and on disk.
DirsRegistered == \A n \in Quiet \ parted :
    dirs[n] # NoDir => meta[n] # None /\ metaFile[n] = meta[n] /\ dirs[n] \subseteq {meta[n]}

\* A drop removes the directory before the registration.
Removed == \A t \in Threads : pc[t] = "removeMeta" /\ Name(t) \in Quiet => dirs[Name(t)] = NoDir

\* Nothing is promised of a name that is being dropped.
Promises == \A t \in Threads :
    pc[t] \in DroppingSteps /\ Name(t) \in Quiet => promised[Name(t)] = {}

DiskInv == DirsRegistered /\ Removed /\ Promises

\* The user of a quiet name that does not hold meta finds it in _meta.json as it is
\* in memory, and its directory holds documents of that creation only.
LEMMA SavedForUser ==
    ASSUME TypeInv, LockInv, Alone, FileLags, DiskInv, NEW t \in Threads, Using(t), ~ HoldsMeta(t),
           Name(t) \in Quiet \ parted
    PROVE  metaFile[Name(t)] = meta[Name(t)] /\ Content(Name(t)) \subseteq {meta[Name(t)]}
<1>1. ASSUME metaLock # None, Name(metaLock) = Name(t) PROVE FALSE
  <2>1. metaLock \in Threads /\ HoldsMeta(metaLock) /\ metaLock # t
    BY <1>1 DEF LockInv
  <2>2. QED  BY <1>1, <2>1 DEF Alone, Changing, Using, HoldsMeta
<1>2. metaFile[Name(t)] = meta[Name(t)]
  BY <1>1 DEF FileLags, Quiet
<1>3. QED  BY <1>2 DEF DiskInv, DirsRegistered, Content

\* A step that makes or writes one directory.
LEMMA DirectoryKeepsDirsRegistered ==
    ASSUME Calm, TypeInv, DirsRegistered, NEW n \in Names, NEW s,
           UNCHANGED <<meta, metaFile, parted>>, dirs' = [dirs EXCEPT ![n] = s],
           n \in Quiet \ parted => meta[n] # None /\ metaFile[n] = meta[n] /\ s \subseteq {meta[n]}
    PROVE  DirsRegistered'
  BY DEF Calm, TypeInv, TypeOK, Quiet, DirsRegistered

\* A directory appears, or is written to, only when its creation is registered
\* and saved, and it is gone before the registration is.
LEMMA StepsKeepDirsRegistered ==
    ASSUME Calm, FileLags, TypeInv, LockInv, UseInv, DiskInv, NEW t \in Threads,
           Proceed(t) \/ Write(t) \/ Release(t)
    PROVE  DirsRegistered'
<1>0. Using(t) /\ ~ HoldsMeta(t) /\ Name(t) \in Quiet \ parted =>
        metaFile[Name(t)] = meta[Name(t)] /\ Content(Name(t)) \subseteq {meta[Name(t)]}
  BY SavedForUser DEF Calm
<1> USE Nothing DEF TypeInv, TypeOK, ThreadsSound, EnginesSound, UseInv, Calm, Alone, Changing,
       Using, Quiet, EnginesHeld, Named, Progress, DiskInv, FileLags, DirsRegistered, Removed,
       Promises, HoldsMeta, Goto, Return, Name, Jobs, Engines, CreatingSteps, DroppingSteps,
       Steps, locks
<1>1. CASE CheckAbsent(t)
  BY <1>1 DEF CheckAbsent
<1>2. CASE InsertMeta(t)
  BY <1>2 DEF InsertMeta
<1>3. CASE SaveMeta(t)
  BY <1>3 DEF SaveMeta
<1>4. CASE SaveMetaFails(t)
  BY <1>4 DEF SaveMetaFails
<1>5. CASE OpenNew(t)
  <2>1. job[t] # None /\ job[t].creation \in Creations
    BY <1>5 DEF OpenNew
  <2>2. Name(t) \in Quiet \ parted =>
           metaFile[Name(t)] = meta[Name(t)] /\ Content(Name(t)) \subseteq {meta[Name(t)]}
    BY <1>0, <1>5, <2>1 DEF OpenNew
  <2>3. Name(t) \in Names /\ UNCHANGED <<meta, metaFile, parted>>
    BY <1>5, <2>1 DEF OpenNew
  <2>4. Name(t) \in Quiet => meta[Name(t)] # None
    BY <1>5, <2>1 DEF OpenNew
  <2>5. CASE dirs' = [dirs EXCEPT ![Name(t)] = Content(Name(t))]
    BY <2>2, <2>3, <2>4, <2>5, DirectoryKeepsDirsRegistered
  <2>6. CASE dirs' = dirs
    BY <2>3, <2>6
  <2>7. QED  BY <1>5, <2>5, <2>6 DEF OpenNew, OpenCollection, OpenCollectionFails
<1>6. CASE Register(t)
  BY <1>6 DEF Register, CloseUnused, Referenced
<1>7. CASE CheckPresent(t)
  BY <1>7 DEF CheckPresent
<1>8. CASE LookUp(t)
  BY <1>8 DEF LookUp, TakeRegistered
<1>9. CASE LockCollections(t)
  BY <1>9 DEF LockCollections, TakeRegistered
<1>10. CASE ReadMeta(t)
  BY <1>10 DEF ReadMeta
<1>11. CASE OpenLazily(t)
  <2>1. job[t] # None /\ job[t].creation \in Creations
    BY <1>11 DEF OpenLazily
  <2>2. Name(t) \in Quiet \ parted =>
           metaFile[Name(t)] = meta[Name(t)] /\ Content(Name(t)) \subseteq {meta[Name(t)]}
    BY <1>0, <1>11, <2>1 DEF OpenLazily
  <2>3. Name(t) \in Names /\ UNCHANGED <<meta, metaFile, parted>>
    BY <1>11, <2>1 DEF OpenLazily
  <2>4. Name(t) \in Quiet => meta[Name(t)] # None
    BY <1>11, <2>1 DEF OpenLazily
  <2>5. CASE dirs' = [dirs EXCEPT ![Name(t)] = Content(Name(t))]
    BY <2>2, <2>3, <2>4, <2>5, DirectoryKeepsDirsRegistered
  <2>6. CASE dirs' = dirs
    BY <2>3, <2>6
  <2>7. QED  BY <1>11, <2>5, <2>6 DEF OpenLazily, OpenCollection, OpenCollectionFails
<1>12. CASE CheckLoaded(t)
  BY <1>12 DEF CheckLoaded
<1>13. CASE LookUpLoaded(t)
  BY <1>13 DEF LookUpLoaded, TakeRegistered
<1>14. CASE CheckDrop(t)
  BY <1>14 DEF CheckDrop
<1>15. CASE CloseRegistered(t)
  BY <1>15 DEF CloseRegistered, CloseUnused, Referenced
<1>16. CASE FindDir(t)
  BY <1>16 DEF FindDir
<1>17. CASE RemoveDir(t)
  BY <1>17 DEF RemoveDir
<1>18. CASE RemoveMeta(t)
  BY <1>18 DEF RemoveMeta
<1>19. CASE Write(t)
  <2> DEFINE e == engines[handle[t]]
  <2>1. /\ pc[t] = "holding" /\ job[t] # None /\ Name(t) \in Names
        /\ handle[t] \in EngineIds /\ e # None /\ e \in Engines /\ e.name = Name(t)
    BY <1>19 DEF Write
  <2>2. Name(t) \in Quiet \ parted =>
           metaFile[Name(t)] = meta[Name(t)] /\ Content(Name(t)) \subseteq {meta[Name(t)]}
    BY <1>0, <2>1
  <2>3. /\ Name(t) \in Quiet => e.creation = meta[Name(t)] /\ meta[Name(t)] # None
        /\ e.attached => dirs[Name(t)] = Content(Name(t))
    BY <2>1 DEF Content
  <2>4. dirs' = [dirs EXCEPT ![Name(t)] = Content(Name(t)) \cup {e.creation}]
    BY <1>19, <2>1, <2>3 DEF Write
  <2>5. UNCHANGED <<meta, metaFile, parted>>
    BY <1>19 DEF Write
  <2>6. QED  BY <2>1, <2>2, <2>3, <2>4, <2>5, DirectoryKeepsDirsRegistered
<1>20. CASE Release(t)
  BY <1>20 DEF Release, CloseUnused, Referenced
<1>21. QED
  BY <1>1, <1>2, <1>3, <1>4, <1>5, <1>6, <1>7, <1>8, <1>9, <1>10, <1>11, <1>12, <1>13, <1>14,
     <1>15, <1>16, <1>17, <1>18, <1>19, <1>20 DEF Proceed

\* Nobody makes the directory again while the name is being dropped.
LEMMA StepsKeepRemoved ==
    ASSUME Calm, FileLags, TypeInv, LockInv, UseInv, DiskInv, NEW t \in Threads,
           Proceed(t) \/ Write(t) \/ Release(t)
    PROVE  Removed'
<1> USE Nothing DEF TypeInv, TypeOK, ThreadsSound, UseInv, Calm, Alone, Changing, Using, Quiet,
       Named, DiskInv, Removed, Goto, Return, Name, Jobs, Engines, CreatingSteps, DroppingSteps,
       Steps, locks
<1>1. CASE CheckAbsent(t)
  BY <1>1 DEF CheckAbsent
<1>2. CASE InsertMeta(t)
  BY <1>2 DEF InsertMeta
<1>3. CASE SaveMeta(t)
  BY <1>3 DEF SaveMeta
<1>4. CASE SaveMetaFails(t)
  BY <1>4 DEF SaveMetaFails
<1>5. CASE OpenNew(t)
  <2>1. job[t] # None /\ job[t].creation \in Creations
    BY <1>5 DEF OpenNew
  <2>2. ASSUME NEW e \in EngineIds, Opens(t, e), OpenCollection(t) PROVE Removed'
    BY <1>5, <2>1, <2>2 DEF OpenNew, Opens, NewEngine
  <2>3. CASE OpenCollectionFails(t) /\ Return(t)
    BY <1>5, <2>1, <2>3 DEF OpenNew, OpenCollectionFails
  <2>4. QED  BY <1>5, <2>1, <2>2, <2>3, OpenCollectionIs DEF OpenNew
<1>6. CASE Register(t)
  BY <1>6 DEF Register, CloseUnused, Referenced
<1>7. CASE CheckPresent(t)
  BY <1>7 DEF CheckPresent
<1>8. CASE LookUp(t)
  BY <1>8 DEF LookUp, TakeRegistered
<1>9. CASE LockCollections(t)
  BY <1>9 DEF LockCollections, TakeRegistered
<1>10. CASE ReadMeta(t)
  BY <1>10 DEF ReadMeta
<1>11. CASE OpenLazily(t)
  <2>1. job[t] # None /\ job[t].creation \in Creations
    BY <1>11 DEF OpenLazily
  <2>2. ASSUME NEW e \in EngineIds, Opens(t, e), OpenCollection(t) PROVE Removed'
    BY <1>11, <2>1, <2>2 DEF OpenLazily, Opens, NewEngine
  <2>3. CASE OpenCollectionFails(t) /\ Return(t)
    BY <1>11, <2>1, <2>3 DEF OpenLazily, OpenCollectionFails
  <2>4. QED  BY <1>11, <2>1, <2>2, <2>3, OpenCollectionIs DEF OpenLazily
<1>12. CASE CheckLoaded(t)
  BY <1>12 DEF CheckLoaded
<1>13. CASE LookUpLoaded(t)
  BY <1>13 DEF LookUpLoaded, TakeRegistered
<1>14. CASE CheckDrop(t)
  BY <1>14 DEF CheckDrop
<1>15. CASE CloseRegistered(t)
  BY <1>15 DEF CloseRegistered, CloseUnused, Referenced
<1>16. CASE FindDir(t)
  BY <1>16 DEF FindDir
<1>17. CASE RemoveDir(t)
  BY <1>17 DEF RemoveDir
<1>18. CASE RemoveMeta(t)
  BY <1>18 DEF RemoveMeta
<1>19. CASE Write(t)
  BY <1>19 DEF Write, threads
<1>20. CASE Release(t)
  BY <1>20 DEF Release, CloseUnused, Referenced
<1>21. QED
  BY <1>1, <1>2, <1>3, <1>4, <1>5, <1>6, <1>7, <1>8, <1>9, <1>10, <1>11, <1>12, <1>13, <1>14,
     <1>15, <1>16, <1>17, <1>18, <1>19, <1>20 DEF Proceed

\* Nobody registers a creation of the name while it is being dropped.
LEMMA StepsKeepPromises ==
    ASSUME Calm, FileLags, TypeInv, LockInv, UseInv, DiskInv, NEW t \in Threads,
           Proceed(t) \/ Write(t) \/ Release(t)
    PROVE  Promises'
<1> USE Nothing DEF TypeInv, TypeOK, ThreadsSound, UseInv, Calm, Alone, Changing, Using, Quiet,
       DiskInv, Promises, Goto, Return, Name, Jobs, CreatingSteps, DroppingSteps, Steps, locks
<1>1. CASE CheckAbsent(t)
  BY <1>1 DEF CheckAbsent
<1>2. CASE InsertMeta(t)
  BY <1>2 DEF InsertMeta
<1>3. CASE SaveMeta(t)
  BY <1>3 DEF SaveMeta
<1>4. CASE SaveMetaFails(t)
  BY <1>4 DEF SaveMetaFails
<1>5. CASE OpenNew(t)
  <2>1. job[t] # None /\ job[t].creation \in Creations
    BY <1>5 DEF OpenNew
  <2>2. ASSUME NEW e \in EngineIds, Opens(t, e), OpenCollection(t) PROVE Promises'
    BY <1>5, <2>1, <2>2 DEF OpenNew, Opens, NewEngine
  <2>3. CASE OpenCollectionFails(t) /\ Return(t)
    BY <1>5, <2>1, <2>3 DEF OpenNew, OpenCollectionFails
  <2>4. QED  BY <1>5, <2>1, <2>2, <2>3, OpenCollectionIs DEF OpenNew
<1>6. CASE Register(t)
  BY <1>6 DEF Register, CloseUnused, Referenced
<1>7. CASE CheckPresent(t)
  BY <1>7 DEF CheckPresent
<1>8. CASE LookUp(t)
  BY <1>8 DEF LookUp, TakeRegistered
<1>9. CASE LockCollections(t)
  BY <1>9 DEF LockCollections, TakeRegistered
<1>10. CASE ReadMeta(t)
  BY <1>10 DEF ReadMeta
<1>11. CASE OpenLazily(t)
  <2>1. job[t] # None /\ job[t].creation \in Creations
    BY <1>11 DEF OpenLazily
  <2>2. ASSUME NEW e \in EngineIds, Opens(t, e), OpenCollection(t) PROVE Promises'
    BY <1>11, <2>1, <2>2 DEF OpenLazily, Opens, NewEngine
  <2>3. CASE OpenCollectionFails(t) /\ Return(t)
    BY <1>11, <2>1, <2>3 DEF OpenLazily, OpenCollectionFails
  <2>4. QED  BY <1>11, <2>1, <2>2, <2>3, OpenCollectionIs DEF OpenLazily
<1>12. CASE CheckLoaded(t)
  BY <1>12 DEF CheckLoaded
<1>13. CASE LookUpLoaded(t)
  BY <1>13 DEF LookUpLoaded, TakeRegistered
<1>14. CASE CheckDrop(t)
  BY <1>14 DEF CheckDrop
<1>15. CASE CloseRegistered(t)
  BY <1>15 DEF CloseRegistered, CloseUnused, Referenced
<1>16. CASE FindDir(t)
  BY <1>16 DEF FindDir
<1>17. CASE RemoveDir(t)
  BY <1>17 DEF RemoveDir
<1>18. CASE RemoveMeta(t)
  BY <1>18 DEF RemoveMeta
<1>19. CASE Write(t)
  BY <1>19 DEF Write, threads
<1>20. CASE Release(t)
  BY <1>20 DEF Release, CloseUnused, Referenced
<1>21. QED
  BY <1>1, <1>2, <1>3, <1>4, <1>5, <1>6, <1>7, <1>8, <1>9, <1>10, <1>11, <1>12, <1>13, <1>14,
     <1>15, <1>16, <1>17, <1>18, <1>19, <1>20 DEF Proceed

\* A drop takes back what was promised of its name when it has found it.
LEMMA CallsKeepDiskInv ==
    ASSUME Calm, TypeInv, DiskInv, NEW t \in Threads, Start(t)
    PROVE  DiskInv'
<1>1. UNCHANGED <<meta, metaFile, dirs, promised, parted>>
  BY DEF Start, Create, Get, GetRead, Drop
<1>2. /\ \A u \in Threads : u # t => job'[u] = job[u] /\ pc'[u] = pc[u]
      /\ pc'[t] \in {"checkAbsent", "checkPresent", "checkLoaded", "checkDrop"}
  BY DEF Start, Create, Get, GetRead, Drop, Call, Goto, TypeInv, TypeOK
<1>3. DirsRegistered'
  BY <1>1 DEF Calm, DiskInv, DirsRegistered
<1>4. Removed'
  BY <1>1, <1>2 DEF Calm, DiskInv, Removed, Name
<1>5. Promises'
  BY <1>1, <1>2 DEF Calm, DiskInv, Promises, DroppingSteps, Name
<1>6. QED  BY <1>3, <1>4, <1>5 DEF DiskInv

\* DiskInv is inductive, relative to what is known of the users of each name; a
\* restart finds in _meta.json what the drops and creations had reached.
LEMMA NextKeepsDiskInv ==
    Calm /\ TypeInv /\ LockInv /\ UseInv /\ FileLags /\ DiskInv /\ [Next]_vars => DiskInv'
<1> SUFFICES ASSUME Calm, TypeInv, LockInv, UseInv, FileLags, DiskInv, [Next]_vars PROVE DiskInv'
  OBVIOUS
<1>1. ASSUME NEW t \in Threads, Start(t) PROVE DiskInv'
  BY <1>1, CallsKeepDiskInv
<1>2. ASSUME NEW t \in Threads, Proceed(t) \/ Write(t) \/ Release(t) PROVE DiskInv'
  BY <1>2, StepsKeepDirsRegistered, StepsKeepRemoved, StepsKeepPromises DEF DiskInv
<1>3. CASE Restart
  BY <1>3 DEF Restart, Calm, DiskInv, DirsRegistered, Removed, Promises, DroppingSteps, Quiet
<1>4. CASE UNCHANGED vars
  BY <1>4 DEF vars, database, threads, DiskInv, DirsRegistered, Removed, Promises, Name, Quiet
<1>5. QED  BY <1>1, <1>2, <1>3, <1>4 DEF Next, Step

LEMMA DiskHolds == Spec => [](TypeInv /\ UseInv /\ DiskInv)
<1>1. Init => DiskInv
  BY DEF Init, DiskInv, DirsRegistered, Removed, Promises, DroppingSteps, Quiet
<1>2. QED
  BY <1>1, NextKeepsAlone, NextKeepsDiskInv, FileLagsHolds, UseHolds, PTL DEF Spec

\* What is promised of a quiet name is registered and saved already, and a
\* registration that is replaced or removed was not promised.
LEMMA StepsKeepCreatedSurvives ==
    ASSUME Calm, TypeInv, UseInv, DiskInv, CreatedSurvives, NEW t \in Threads,
           Start(t) \/ Proceed(t) \/ Write(t) \/ Release(t)
    PROVE  CreatedSurvives'
<1> USE Nothing DEF TypeInv, TypeOK, ThreadsSound, Calm, Quiet, UseInv, Progress, DiskInv,
       Promises, CreatedSurvives, Name, Jobs, CreatingSteps, DroppingSteps
<1>1. CASE InsertMeta(t)
  BY <1>1 DEF InsertMeta
<1>2. CASE SaveMeta(t)
  BY <1>2 DEF SaveMeta
<1>3. CASE Register(t)
  BY <1>3 DEF Register
<1>4. CASE CheckDrop(t)
  BY <1>4 DEF CheckDrop
<1>5. CASE RemoveMeta(t)
  BY <1>5 DEF RemoveMeta
<1>6. CASE \/ CheckAbsent(t) \/ SaveMetaFails(t) \/ OpenNew(t) \/ CheckPresent(t) \/ LookUp(t)
           \/ LockCollections(t) \/ ReadMeta(t) \/ OpenLazily(t) \/ CheckLoaded(t)
           \/ LookUpLoaded(t) \/ CloseRegistered(t) \/ FindDir(t) \/ RemoveDir(t)
           \/ Start(t) \/ Write(t) \/ Release(t)
  <2>1. UNCHANGED <<meta, metaFile, promised>>
    BY <1>6 DEF CheckAbsent, SaveMetaFails, OpenNew, CheckPresent, LookUp, LockCollections,
       ReadMeta, OpenLazily, CheckLoaded, LookUpLoaded, CloseRegistered, FindDir, RemoveDir,
       Start, Create, Get, GetRead, Drop, Write, Release
  <2>2. QED  BY <2>1
<1>7. QED  BY <1>1, <1>2, <1>3, <1>4, <1>5, <1>6 DEF Proceed

\* When _meta.json can be read, a quiet collection that was created stays registered,
\* in memory and in _meta.json, until a drop finds it, whatever crashes, failed saves
\* and other threads there are.
THEOREM CreatedStaysRegistered ==
    ASSUME "loadMeta" \notin Faults
    PROVE  Spec => []CreatedSurvives
<1>1. Init => CreatedSurvives
  BY DEF Init, CreatedSurvives, Quiet
<1>2. TypeInv /\ UseInv /\ DiskInv /\ Calm /\ CreatedSurvives /\ [Next]_vars => CreatedSurvives'
  <2> SUFFICES ASSUME TypeInv, UseInv, DiskInv, Calm, CreatedSurvives, [Next]_vars
               PROVE  CreatedSurvives'
    OBVIOUS
  <2>1. ASSUME NEW t \in Threads, Start(t) \/ Proceed(t) \/ Write(t) \/ Release(t)
        PROVE  CreatedSurvives'
    BY <2>1, StepsKeepCreatedSurvives
  <2>2. CASE Restart
    BY <2>2 DEF Restart, Calm, CreatedSurvives
  <2>3. CASE UNCHANGED vars
    BY <2>3 DEF vars, database, CreatedSurvives, Quiet
  <2>4. QED  BY <2>1, <2>2, <2>3 DEF Next, Step
<1>3. QED  BY <1>1, <1>2, NextKeepsAlone, UseHolds, DiskHolds, PTL DEF Spec

\* A quiet name that is not registered has no directory and no open collection,
\* wherever a drop or a creation of it failed or the process died, but for one whose
\* own save or load failed.
THEOREM DropsLeaveNothing == Spec => []DropLeavesNothing
<1>1. TypeInv /\ UseInv /\ DiskInv => DropLeavesNothing
  BY DEF DiskInv, DirsRegistered, UseInv, Named, DropLeavesNothing
<1>2. QED  BY <1>1, DiskHolds, PTL

\* A quiet collection shows no document of an earlier one of its name, and the open
\* one is the registered one, with the same exception.
THEOREM NoGhostsOfDropped == Spec => []NoGhosts
<1>1. TypeInv /\ UseInv /\ DiskInv => NoGhosts
  <2> SUFFICES ASSUME TypeInv, UseInv, DiskInv, NEW n \in Quiet \ parted, meta[n] # None
               PROVE  /\ Content(n) \subseteq {meta[n]}
                      /\ collections[n] # None => engines[collections[n]].creation = meta[n]
    BY DEF NoGhosts
  <2>1. Content(n) \subseteq {meta[n]}
    BY DEF DiskInv, DirsRegistered, Content
  <2>2. ASSUME collections[n] # None PROVE engines[collections[n]].creation = meta[n]
    BY <2>2 DEF TypeInv, TypeOK, EnginesSound, UseInv, Named, EnginesHeld, Quiet
  <2>3. QED  BY <2>1, <2>2
<1>2. QED  BY <1>1, DiskHolds, PTL

=============================================================================
