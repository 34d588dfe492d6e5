---------------------------- MODULE ValidationProofs ----------------------------
(***************************************************************************)
(* Theorems about Validation, for any TALs, trees, SLURM files and bounds: *)
(* the invariant of the cycle, and that the cycle implements Publication.  *)
(***************************************************************************)
EXTENDS Validation, SequenceTheorems, TLAPS

--------------------------------------------------------------------------------
(***************************************************************************)
(* The operators the module is built from.                                 *)
(***************************************************************************)

\* The list of threads: one more at its head, and one less.
LEMMA ElementsPush ==
  ASSUME NEW seq \in Seq(Tals), NEW t \in Tals
  PROVE  /\ <<t>> \o seq \in Seq(Tals)
         /\ Elements(<<t>> \o seq) = Elements(seq) \cup {t}
<1>1. <<t>> \in Seq(Tals) /\ Len(<<t>>) = 1 /\ <<t>>[1] = t
  OBVIOUS
<1>2. /\ <<t>> \o seq \in Seq(Tals)
      /\ Len(<<t>> \o seq) = 1 + Len(seq)
      /\ \A i \in 1..(1 + Len(seq)) :
           (<<t>> \o seq)[i] = IF i <= 1 THEN <<t>>[i] ELSE seq[i - 1]
  BY <1>1, ConcatProperties
<1>3. Len(seq) \in Nat
  OBVIOUS
<1>4. Elements(<<t>> \o seq) \subseteq Elements(seq) \cup {t}
  BY <1>1, <1>2, <1>3 DEF Elements
<1>5. t \in Elements(<<t>> \o seq)
  BY <1>1, <1>2, <1>3 DEF Elements
<1>6. ASSUME NEW i \in 1..Len(seq) PROVE seq[i] \in Elements(<<t>> \o seq)
  <2>1. i + 1 \in 1..(1 + Len(seq)) /\ ~(i + 1 <= 1) /\ (i + 1) - 1 = i
    BY <1>3
  <2>2. (<<t>> \o seq)[i + 1] = seq[i]
    BY <1>2, <2>1
  <2>. QED  BY <1>2, <2>1, <2>2, Zenon DEF Elements
<1>. QED  BY <1>2, <1>4, <1>5, <1>6, SMTT(30) DEF Elements

\* pthread_join() takes the head of the list and leaves the rest.
LEMMA ElementsPop ==
  ASSUME NEW seq \in Seq(Tals), seq # <<>>
  PROVE  /\ Head(seq) \in Tals
         /\ Tail(seq) \in Seq(Tals)
         /\ Elements(seq) = Elements(Tail(seq)) \cup {Head(seq)}
<1>1. /\ Head(seq) \in Tals /\ Head(seq) = seq[1]
      /\ Tail(seq) \in Seq(Tals)
      /\ Len(Tail(seq)) = Len(seq) - 1
      /\ \A i \in 1..Len(Tail(seq)) : Tail(seq)[i] = seq[i + 1]
      /\ Len(seq) \in Nat \ {0}
  BY HeadTailProperties, EmptySeq
<1>2. Elements(Tail(seq)) \cup {Head(seq)} \subseteq Elements(seq)
  BY <1>1 DEF Elements
<1>3. ASSUME NEW i \in 1..Len(seq) PROVE seq[i] \in Elements(Tail(seq)) \cup {Head(seq)}
  <2>1. CASE i = 1
    BY <1>1, <2>1
  <2>2. CASE i # 1
    <3>1. i - 1 \in 1..Len(Tail(seq)) /\ (i - 1) + 1 = i
      BY <1>1, <2>2
    <3>. QED  BY <1>1, <3>1 DEF Elements
  <2>. QED  BY <2>1, <2>2
<1>. QED  BY <1>1, <1>2, <1>3 DEF Elements

\* The empty list has no threads.
LEMMA ElementsEmpty == Elements(<<>>) = {}
BY DEF Elements

\* The checksums taken from the directory, and the rules in the files behind them.
LEMMA FilesType ==
  ASSUME NEW w, w.files \in [SlurmNames -> Contents \cup {NULL}]
  PROVE  Files(w) \in FileSets
<1>. DEFINE D == {g \in SlurmNames : w.files[g] # NULL}
<1>1. Files(w) \in [D -> Contents]
  BY DEF Files
<1>. QED  BY <1>1 DEF FileSets

\* A directory without SLURM files is one of the possible ones.
LEMMA NoFiles == <<>> \in FileSets
<1>1. <<>> \in [{} -> Contents]
  OBVIOUS
<1>. QED  BY <1>1 DEF FileSets

\* What load_slurm_files() returns are rules about records.
LEMMA RulesType ==
  ASSUME NEW files \in FileSets
  PROVE  load_slurm_files(files) \subseteq RuleSets
<1>1. PICK D \in SUBSET SlurmNames : files \in [D -> Contents]
  BY DEF FileSets
<1>2. \A f \in DOMAIN files : /\ files[f].filters \in SUBSET Records
                              /\ files[f].assertions \in SUBSET Records
  BY <1>1, ContentsAssumption
<1>3. [filters |-> UNION {files[f].filters : f \in DOMAIN files},
       assertions |-> UNION {files[f].assertions : f \in DOMAIN files}] \in RuleSets
  BY <1>2 DEF RuleSets
<1>. QED  BY <1>3, Zenon DEF load_slurm_files

\* The rules in force are rules about records.
LEMMA InForceType == TypeOK => InForce \in RuleSets
BY DEF TypeOK, InForce, NoRules, RuleSets

\* Nothing is found by threads that are not there.
LEMMA NothingFound ==
  ASSUME \A t \in Tals : thread[t] = NoThread
  PROVE  AllFound = {}
<1>1. \A t \in Tals : Found(t) = {}
  BY DEF Found, NoThread
<1>. QED  BY <1>1 DEF AllFound

\* What is found depends on the trees and on what is left of them.
LEMMA SameFound ==
  ASSUME \A t \in Tals : thread'[t].tree = thread[t].tree /\ thread'[t].todo = thread[t].todo
  PROVE  AllFound' = AllFound
<1>1. \A t \in Tals : Found(t)' = Found(t)
  BY DEF Found
<1>. QED  BY <1>1 DEF AllFound

--------------------------------------------------------------------------------
(***************************************************************************)
(* The invariant.                                                          *)
(***************************************************************************)
\* The invariant holds before the first cycle.
LEMMA InitInv == Init => ValidationInv
<1>. SUFFICES ASSUME Init PROVE ValidationInv
  OBVIOUS
<1>1. NoThread \in ThreadType
  BY DEF NoThread, ThreadType, Codes
<1>2. main \in MainType /\ main = NewCycle(TRUE)
  BY NoFiles DEF Init, NewCycle, MainType, Codes, NoRules, RuleSets
<1>3. world \in [tals : SUBSET Tals, tree : [Tals -> SUBSET Records],
                 files : [SlurmNames -> Contents \cup {NULL}], path : BOOLEAN]
      /\ \A t \in Tals : world.tree[t] \in Yields[t]
  BY Zenon DEF Init
<1>4. DOMAIN db \subseteq Tals /\ db \in [DOMAIN db -> BOOLEAN]
  BY DEF Init
<1>5. TypeOK
  <2>1. thread \in [Tals -> ThreadType]
    BY <1>1 DEF Init
  <2>2. faults \in 0..MaxFaults /\ edits \in 0..MaxEdits
    BY BoundsAssumption DEF Init
  <2>3. table = NULL /\ slurm = NULL /\ base = NULL
    BY DEF Init
  <2>. QED  BY <1>2, <1>3, <1>4, <2>1, <2>2, <2>3, Zenon DEF TypeOK
<1>6. main.pc = "sleep" /\ main.error = "0"
  BY <1>2 DEF NewCycle
<1>7. \A t \in Tals : thread[t] = NoThread
  BY DEF Init
<1>8. \A t \in Tals : ThreadSane(t)
  BY <1>6, <1>7 DEF ThreadSane, NoThread, Working
<1>. QED  BY <1>5, <1>6, <1>7, <1>8
          DEF ValidationInv, CycleSane, NoThreadOutlives, RrdpFound, NoThread, Working

\* The end of a cycle, whatever its result: nothing of it is left.
LEMMA DiscardInv ==
  ASSUME ValidationInv, NEW error \in Codes, Discard(error),
         \A t \in Tals : thread[t].pc \in {"none", "joined"},
         TypeOK => /\ UNCHANGED world
                   /\ DOMAIN db' \subseteq Tals /\ db' \in [DOMAIN db' -> BOOLEAN]
                   /\ slurm' \in [rules : RuleSets, csums : FileSets, torn : BOOLEAN] \cup {NULL}
                   /\ base' \in (SUBSET Records) \cup {NULL}
                   /\ faults' \in 0..MaxFaults /\ UNCHANGED edits
  PROVE  ValidationInv'
<1>1. TypeOK /\ \A t \in Tals : ThreadSane(t)
  BY DEF ValidationInv, CycleSane
<1>2. NoThread \in ThreadType /\ NoThread.pc = "none" /\ NoThread.tree = NULL /\ NoThread.todo = {}
      /\ NoThread.exit # "0"
  BY DEF NoThread, ThreadType, Codes
<1>3. \A t \in Tals : thread'[t] = NoThread
  BY <1>1 DEF Discard, ThreadSane
<1>4. thread' \in [Tals -> ThreadType]
  BY <1>2, <1>3 DEF Discard
<1>5. NewCycle(FALSE) \in MainType
  BY NoFiles DEF NewCycle, MainType, Codes, NoRules, RuleSets
<1>6. main' \in MainType /\ main'.pc \in {"sleep", "stopped", "exited"} /\ main'.error = "0"
  BY <1>5, ZenonT(30) DEF Discard, Finished, NewCycle, MainType
<1>7. TypeOK'
  BY <1>1, <1>4, <1>6 DEF TypeOK, Discard
<1>8. \A t \in Tals : ThreadSane(t)'
  BY <1>2, <1>3, <1>6 DEF ThreadSane, Working
<1>. QED  BY <1>2, <1>3, <1>6, <1>7, <1>8
          DEF ValidationInv, CycleSane, NoThreadOutlives, RrdpFound, Working

\* A step of one thread, or of close_thread() on it, in the middle of its life:
\* th is the thread afterwards.
LEMMA ThreadInv ==
  ASSUME ValidationInv, NEW t \in Tals, NEW th \in ThreadType,
         thread' = [thread EXCEPT ![t] = th],
         thread[t].pc \in {"new", "running", "cancelled"},
         th.pc \in {"running", "cancelled", "ended"},
         th.pc = "running" => th.tree # NULL,
         th.tree = NULL => th.todo = {},
         th.tree # NULL => th.tree \in Yields[t] /\ th.todo \subseteq th.tree,
         th.exit = "0" => th.tree # NULL /\ th.todo = {},
         table' \in SUBSET Records,
         main.pc \in {"spawn", "join"} => table' = AllFound',
         faults' \in 0..MaxFaults,
         UNCHANGED <<world, main, db, slurm, base, edits>>
  PROVE  ValidationInv'
<1>1. /\ TypeOK /\ NoThreadOutlives /\ RrdpFound
      /\ \A u \in Tals : ThreadSane(u)
  BY DEF ValidationInv, CycleSane
<1>2. main.pc \in {"spawn", "join", "cancel"}
  BY <1>1 DEF NoThreadOutlives
<1>3. thread'[t] = th /\ \A u \in Tals \ {t} : thread'[u] = thread[u]
  BY <1>1 DEF TypeOK
<1>4. TypeOK'
  <2>1. thread' \in [Tals -> ThreadType]
    BY <1>1 DEF TypeOK
  <2>. QED  BY <1>1, <2>1 DEF TypeOK
<1>5. ThreadSane(t)'
  BY <1>1, <1>2, <1>3, SMTT(30) DEF ThreadSane, Working
<1>6. ASSUME NEW u \in Tals \ {t} PROVE ThreadSane(u)'
  <2>1. ThreadSane(u) /\ thread'[u] = thread[u]
    BY <1>1, <1>3
  <2>. QED  BY <2>1, SMTT(30) DEF ThreadSane
<1>7. table' # NULL
  BY NullAssumption
<1>8. CycleSane'
  BY <1>2, <1>5, <1>6, <1>7 DEF ValidationInv, CycleSane, Working
<1>9. NoThreadOutlives'
  BY <1>2 DEF NoThreadOutlives
<1>10. RrdpFound'
  BY <1>1, <1>3 DEF RrdpFound
<1>. QED  BY <1>4, <1>8, <1>9, <1>10 DEF ValidationInv

\* A thread that goes on, ends or is cancelled with the records it found.
LEMMA ThreadPlaceInv ==
  ASSUME ValidationInv, NEW t \in Tals, NEW pc \in {"cancelled", "ended"}, NEW exit \in Codes,
         thread' = [thread EXCEPT ![t].pc = pc, ![t].exit = exit],
         thread[t].pc \in {"new", "running", "cancelled"},
         exit = "0" => thread[t].tree # NULL /\ thread[t].todo = {},
         faults' \in 0..MaxFaults,
         UNCHANGED <<world, main, table, db, slurm, base, edits>>
  PROVE  ValidationInv'
<1>1. TypeOK /\ ThreadSane(t) /\ CycleSane /\ NoThreadOutlives
  BY DEF ValidationInv, CycleSane
<1>. DEFINE th == [thread[t] EXCEPT !.pc = pc, !.exit = exit]
<1>2. thread[t] \in ThreadType
  BY <1>1 DEF TypeOK
<1>3. /\ th \in ThreadType /\ th.pc = pc /\ th.exit = exit
      /\ th.tree = thread[t].tree /\ th.todo = thread[t].todo
  BY <1>2, Zenon DEF ThreadType
<1>4. thread' = [thread EXCEPT ![t] = th]
  BY <1>1, Zenon DEF TypeOK
<1>. HIDE DEF th
<1>5. AllFound' = AllFound
  BY <1>1, <1>3, <1>4, SameFound DEF TypeOK
<1>6. main.pc \in {"spawn", "join", "cancel"}
  BY <1>1 DEF NoThreadOutlives
<1>7. table' \in SUBSET Records /\ (main.pc \in {"spawn", "join"} => table' = AllFound')
  BY <1>1, <1>5, <1>6 DEF TypeOK, CycleSane, Working
<1>8. /\ th.tree = NULL => th.todo = {}
      /\ th.tree # NULL => th.tree \in Yields[t] /\ th.todo \subseteq th.tree
      /\ th.exit = "0" => th.tree # NULL /\ th.todo = {}
  BY <1>1, <1>3 DEF ThreadSane
<1>. QED  BY <1>3, <1>4, <1>7, <1>8, ThreadInv, Zenon

\* tal_load() succeeds, or the thread ends with its error.
LEMMA LoadTalInv == ASSUME ValidationInv, NEW t \in Tals, LoadTal(t) PROVE ValidationInv'
<1>1. TypeOK /\ ThreadSane(t) /\ CycleSane /\ NoThreadOutlives
  BY DEF ValidationInv, CycleSane
<1>2. /\ thread[t].pc = "new" /\ thread[t] \in ThreadType /\ thread[t].tree = NULL
      /\ thread[t].todo = {} /\ thread[t].exit # "0"
  BY <1>1 DEF LoadTal, TypeOK, ThreadSane
<1>3. world.tree[t] \in Yields[t] /\ world.tree[t] \in SUBSET Records /\ world.tree[t] # NULL
  BY <1>1, NullAssumption DEF TypeOK
<1>4. table \in SUBSET Records /\ (main.pc \in {"spawn", "join"} => table = AllFound)
  BY <1>1, <1>2 DEF TypeOK, CycleSane, NoThreadOutlives, Working
<1>. DEFINE read == [thread[t] EXCEPT !.pc = "running", !.tree = world.tree[t],
                                      !.todo = world.tree[t]]
            gone == [thread[t] EXCEPT !.pc = "ended", !.exit = "EINVAL"]
<1>5. CASE t \in world.tals
  <2>1. thread' = [thread EXCEPT ![t] = read]
    BY <1>5 DEF LoadTal
  <2>2. /\ read \in ThreadType /\ read.pc = "running" /\ read.tree = world.tree[t]
        /\ read.todo = world.tree[t] /\ read.exit = thread[t].exit
    BY <1>2, <1>3, Zenon DEF ThreadType
  <2>. HIDE DEF read
  <2>3. \A u \in Tals : Found(u)' = Found(u)
    BY <1>1, <1>2, <1>3, <2>1, <2>2, ZenonT(30) DEF TypeOK, Found
  <2>4. AllFound' = AllFound
    BY <2>3 DEF AllFound
  <2>5. /\ faults' \in 0..MaxFaults
        /\ UNCHANGED <<world, main, table, db, slurm, base, edits>>
    BY <1>1 DEF LoadTal, TypeOK
  <2>6. table' \in SUBSET Records /\ (main.pc \in {"spawn", "join"} => table' = AllFound')
    BY <1>4, <2>4, <2>5
  <2>. QED  BY <1>2, <1>3, <2>1, <2>2, <2>5, <2>6, ThreadInv, Zenon
<1>6. CASE t \notin world.tals
  <2>1. thread' = [thread EXCEPT ![t].pc = "ended", ![t].exit = "EINVAL"]
    BY <1>1, <1>6, Zenon DEF LoadTal, TypeOK
  <2>. QED  BY <1>1, <1>2, <2>1, ThreadPlaceInv, Zenon DEF LoadTal, TypeOK, Codes
<1>. QED  BY <1>5, <1>6

\* A record leaves what the thread has to do and enters the table.
LEMMA AddRecordInv == ASSUME ValidationInv, NEW t \in Tals, AddRecord(t) PROVE ValidationInv'
<1>1. TypeOK /\ ThreadSane(t) /\ CycleSane /\ NoThreadOutlives
  BY DEF ValidationInv, CycleSane
<1>2. PICK r \in thread[t].todo : /\ table' = table \cup {r}
                                  /\ thread' = [thread EXCEPT ![t].todo = @ \ {r}]
  BY Zenon DEF AddRecord
<1>. DEFINE th == [thread[t] EXCEPT !.todo = @ \ {r}]
<1>3. thread[t] \in ThreadType /\ thread[t].pc \in {"running", "cancelled"}
  BY <1>1 DEF AddRecord, TypeOK
<1>4. /\ th \in ThreadType /\ th.pc = thread[t].pc /\ th.exit = thread[t].exit
      /\ th.tree = thread[t].tree /\ th.todo = thread[t].todo \ {r}
  BY <1>3 DEF ThreadType
<1>5. thread' = [thread EXCEPT ![t] = th]
  BY <1>2
<1>. HIDE DEF th
<1>6. /\ r \in Records /\ th.tree # NULL /\ r \in th.tree /\ th.tree \in Yields[t]
      /\ th.exit # "0" /\ th.todo \subseteq th.tree
  BY <1>1, <1>2, <1>3, <1>4 DEF ThreadSane, ThreadType
<1>7. main.pc \in {"spawn", "join", "cancel"}
  BY <1>1, <1>3 DEF NoThreadOutlives
<1>8. table \in SUBSET Records /\ (main.pc \in {"spawn", "join"} => table = AllFound)
  BY <1>1, <1>7 DEF TypeOK, CycleSane, Working
<1>9. AllFound' = AllFound \cup {r}
  <2>1. Found(t)' = Found(t) \cup {r}
    BY <1>1, <1>2, <1>4, <1>5, <1>6 DEF TypeOK, Found, ThreadSane
  <2>2. \A u \in Tals \ {t} : Found(u)' = Found(u)
    BY <1>1, <1>5 DEF TypeOK, Found
  <2>. QED  BY <2>1, <2>2 DEF AllFound
<1>10. faults' \in 0..MaxFaults /\ UNCHANGED <<world, main, db, slurm, base, edits>>
  BY <1>1 DEF AddRecord, TypeOK
<1>11. table' \in SUBSET Records /\ (main.pc \in {"spawn", "join"} => table' = AllFound')
  BY <1>2, <1>6, <1>8, <1>9
<1>. QED  BY <1>3, <1>4, <1>5, <1>6, <1>10, <1>11, ThreadInv, Zenon

\* Every step of a TAL's thread keeps the invariant.
LEMMA ThreadStepInv == ASSUME ValidationInv, NEW t \in Tals, ThreadStep(t) PROVE ValidationInv'
<1>1. TypeOK /\ ThreadSane(t) /\ thread[t] \in ThreadType
  BY DEF ValidationInv, CycleSane, TypeOK
<1>2. CASE LoadTal(t) \/ AddRecord(t)
  BY <1>2, LoadTalInv, AddRecordInv
<1>3. CASE EndThread(t)
  BY <1>1, <1>3, ThreadPlaceInv, Zenon DEF EndThread, TypeOK, ThreadSane, Codes
<1>4. CASE EndCancelled(t)
  <2>1. thread' = [thread EXCEPT ![t].pc = "ended", ![t].exit = thread[t].exit]
    BY <1>1, <1>4, Zenon DEF EndCancelled, TypeOK, ThreadType
  <2>2. thread[t].exit \in Codes
    BY <1>1 DEF ThreadType
  <2>. QED  BY <1>1, <1>4, <2>1, <2>2, ThreadPlaceInv, Zenon DEF EndCancelled, TypeOK, ThreadSane
<1>5. CASE FailThread(t)
  <2>1. PICK code \in {"EINVAL", "EINTR"} :
          thread' = [thread EXCEPT ![t].pc = "ended", ![t].exit = code]
    BY <1>5, Zenon DEF FailThread
  <2>2. faults' \in 0..MaxFaults
    BY <1>1, <1>5, BoundsAssumption DEF FailThread, Fault, TypeOK
  <2>. QED  BY <1>1, <1>5, <2>1, <2>2, ThreadPlaceInv, Zenon DEF FailThread, Codes
<1>. QED  BY <1>2, <1>3, <1>4, <1>5 DEF ThreadStep

\* close_thread() marks the thread at the head of the list.
LEMMA CancelThreadInv == ASSUME ValidationInv, CancelThread PROVE ValidationInv'
<1>. DEFINE t == Head(main.threads)
<1>1. TypeOK /\ main.threads \in Seq(Tals) /\ main.threads # <<>>
  BY DEF ValidationInv, TypeOK, MainType, CancelThread
<1>2. t \in Tals
  BY <1>1, ElementsPop
<1>3. ThreadSane(t) /\ thread[t] \in ThreadType
  BY <1>1, <1>2 DEF ValidationInv, CycleSane, TypeOK
<1>4. /\ thread[t].pc \in {"new", "running"}
      /\ thread' = [thread EXCEPT ![t].pc = "cancelled"]
      /\ UNCHANGED <<world, main, table, db, slurm, base, faults, edits>>
  BY DEF CancelThread
<1>. HIDE DEF t
<1>5. thread' = [thread EXCEPT ![t].pc = "cancelled", ![t].exit = thread[t].exit]
  BY <1>1, <1>3, <1>4, Zenon DEF TypeOK, ThreadType
<1>6. thread[t].exit \in Codes /\ faults' \in 0..MaxFaults
  BY <1>1, <1>3, <1>4 DEF ThreadType, TypeOK
<1>. QED  BY <1>2, <1>3, <1>4, <1>5, <1>6, ThreadPlaceInv, ZenonT(30) DEF ThreadSane

\* The steps after the joins leave the threads alone.
LEMMA PhaseInv ==
  ASSUME ValidationInv,
         main.pc \in {"join", "checksums", "parse", "apply"}, main.error = "0",
         \A t \in Tals : thread[t].pc \in {"none", "joined"},
         main' \in MainType, main'.pc \in {"checksums", "parse", "apply", "publish"},
         main'.listed = main.listed, main'.threads = main.threads, main'.error = "0",
         DOMAIN db' \subseteq Tals, db' \in [DOMAIN db' -> BOOLEAN],
         slurm' \in [rules : RuleSets, csums : FileSets, torn : BOOLEAN] \cup {NULL},
         table' \in SUBSET Records,
         main'.pc # "publish" => table' = AllFound,
         main'.pc = "publish" => table' = Applied(AllFound, InForce)',
         UNCHANGED <<world, thread, base, faults, edits>>
  PROVE  ValidationInv'
<1>1. TypeOK /\ \A t \in Tals : ThreadSane(t)
  BY DEF ValidationInv, CycleSane
<1>2. TypeOK'
  BY <1>1 DEF TypeOK
<1>3. AllFound' = AllFound
  BY SameFound
<1>4. ASSUME NEW t \in Tals PROVE ThreadSane(t)'
  <2>1. ThreadSane(t) /\ thread'[t] = thread[t] /\ thread[t].pc \in {"none", "joined"}
    BY <1>1
  <2>. QED  BY <2>1, SMTT(30) DEF ThreadSane, Working
<1>5. table' # NULL /\ main'.listed # {}
  BY NullAssumption DEF ValidationInv, CycleSane, Working
<1>6. CycleSane'
  BY <1>3, <1>4, <1>5 DEF CycleSane, Working
<1>. QED  BY <1>2, <1>6 DEF ValidationInv, NoThreadOutlives, RrdpFound

\* Outside the loops of perform_standalone_validation(), or with an empty list,
\* no thread is alive.
LEMMA NoneAlive ==
  ASSUME ValidationInv, main.pc \notin {"spawn", "join", "cancel"} \/ main.threads = <<>>
  PROVE  \A t \in Tals : thread[t].pc \in {"none", "joined"}
BY ElementsEmpty, SMTT(30) DEF ValidationInv, CycleSane, ThreadSane, NoThreadOutlives

\* A cycle begins without threads and with an empty table.
LEMMA StartCycleInv == ASSUME ValidationInv, StartCycle PROVE ValidationInv'
<1>1. TypeOK /\ main.pc = "sleep" /\ main.error = "0" /\ \A t \in Tals : ThreadSane(t)
  BY DEF ValidationInv, CycleSane, StartCycle
<1>2. \A t \in Tals : thread[t] = NoThread /\ thread'[t] = NoThread
  BY <1>1 DEF ThreadSane, StartCycle
<1>3. /\ main' \in MainType /\ main'.listed = world.tals /\ main'.left = world.tals
      /\ main'.pc = IF world.tals = {} THEN "cancel" ELSE "spawn"
      /\ main'.error = IF world.tals = {} THEN "EINVAL" ELSE "0"
  BY <1>1, ZenonT(30) DEF StartCycle, TypeOK, MainType, Codes
<1>4. DOMAIN db' \subseteq Tals /\ db' \in [DOMAIN db' -> BOOLEAN]
  BY <1>1 DEF StartCycle, ResetVisited, TypeOK
<1>5. table' = {} /\ UNCHANGED <<world, thread, slurm, base, faults, edits>>
  BY DEF StartCycle
<1>6. TypeOK'
  BY <1>1, <1>3, <1>4, <1>5 DEF TypeOK
<1>7. AllFound' = {}
  <2>1. \A t \in Tals : Found(t)' = {}
    BY <1>2 DEF Found, NoThread
  <2>. QED  BY <2>1 DEF AllFound
<1>8. \A t \in Tals : ThreadSane(t)'
  BY <1>2, <1>3, SMTT(30) DEF ThreadSane, NoThread, Working
<1>9. table' # NULL
  BY <1>5, NullAssumption
<1>10. CycleSane'
  BY <1>3, <1>5, <1>7, <1>8, <1>9 DEF CycleSane, Working
<1>. QED  BY <1>2, <1>3, <1>6, <1>10 DEF ValidationInv, NoThreadOutlives, RrdpFound, NoThread

\* A new thread has an entry of its own in the list and in db_rrdp.
LEMMA SpawnThreadInv == ASSUME ValidationInv, NEW t \in Tals, SpawnThread(t) PROVE ValidationInv'
<1>1. /\ TypeOK /\ CycleSane /\ RrdpFound /\ main.pc = "spawn" /\ t \in main.left
      /\ \A u \in Tals : ThreadSane(u)
  BY DEF ValidationInv, CycleSane, SpawnThread
<1>. DEFINE th == [NoThread EXCEPT !.pc = "new"]
<1>2. /\ th \in ThreadType /\ th.pc = "new" /\ th.tree = NULL /\ th.todo = {}
      /\ th.exit = "EINTR"
  BY DEF NoThread, ThreadType, Codes
<1>3. thread[t] = NoThread
  BY <1>1 DEF ThreadSane
<1>4. thread' = [thread EXCEPT ![t] = th]
  BY DEF SpawnThread
<1>. HIDE DEF th
<1>5. thread'[t] = th /\ \A u \in Tals \ {t} : thread'[u] = thread[u]
  BY <1>1, <1>4 DEF TypeOK
<1>6. /\ <<t>> \o main.threads \in Seq(Tals)
      /\ Elements(<<t>> \o main.threads) = Elements(main.threads) \cup {t}
  BY <1>1, ElementsPush DEF TypeOK, MainType
<1>7. /\ main' \in MainType /\ main'.pc = (IF main.left = {t} THEN "join" ELSE "spawn")
      /\ main'.left = main.left \ {t} /\ main'.listed = main.listed
      /\ main'.threads = <<t>> \o main.threads /\ main'.error = main.error
  BY <1>1, <1>6, Zenon DEF SpawnThread, TypeOK, MainType
<1>8. /\ DOMAIN db' = DOMAIN db \cup {t} /\ db'[t]
      /\ \A u \in DOMAIN db : u # t => db'[u] = db[u]
      /\ DOMAIN db' \subseteq Tals /\ db' \in [DOMAIN db' -> BOOLEAN]
  BY <1>1, Zenon DEF SpawnThread, db_rrdp_add_tal, TypeOK
<1>9. UNCHANGED <<world, table, slurm, base, faults, edits>>
  BY DEF SpawnThread
<1>10. TypeOK'
  <2>1. thread' \in [Tals -> ThreadType]
    BY <1>1, <1>2, <1>4 DEF TypeOK
  <2>. QED  BY <1>1, <1>7, <1>8, <1>9, <2>1 DEF TypeOK
<1>11. ThreadSane(t)'
  BY <1>1, <1>2, <1>3, <1>5, <1>6, <1>7, <1>8, SMTT(30) DEF ThreadSane, Working
<1>12. ASSUME NEW u \in Tals \ {t} PROVE ThreadSane(u)'
  <2>1. ThreadSane(u) /\ thread'[u] = thread[u] /\ main.pc = "spawn"
    BY <1>1, <1>5
  <2>. QED  BY <1>6, <1>7, <1>8, <2>1, SMTT(30) DEF ThreadSane, Working
<1>13. AllFound' = AllFound
  BY <1>2, <1>3, <1>5, SameFound, SMTT(30) DEF NoThread
<1>14. CycleSane'
  BY <1>1, <1>7, <1>9, <1>11, <1>12, <1>13 DEF CycleSane, Working
<1>15. RrdpFound'
  BY <1>1, <1>5, <1>8 DEF RrdpFound
<1>. QED  BY <1>7, <1>10, <1>14, <1>15 DEF ValidationInv, NoThreadOutlives

\* The loop that starts the threads stops with an error.
LEMMA StopSpawningInv ==
  ASSUME ValidationInv, NEW t \in Tals, TalIsGone(t) \/ SpawnFails(t) PROVE ValidationInv'
<1>1. /\ TypeOK /\ CycleSane /\ RrdpFound /\ main.pc = "spawn" /\ t \in main.left
      /\ \A u \in Tals : ThreadSane(u)
  BY DEF ValidationInv, CycleSane, TalIsGone, SpawnFails
<1>2. thread[t].pc = "none"
  BY <1>1 DEF ThreadSane
<1>3. /\ main' \in MainType /\ main'.pc = "cancel" /\ main'.threads = main.threads
      /\ UNCHANGED <<world, thread, table, slurm, base, edits>>
  BY <1>1, ZenonT(30) DEF TalIsGone, SpawnFails, TypeOK, MainType, Codes
<1>4. /\ faults' \in 0..MaxFaults /\ DOMAIN db \ {t} \subseteq DOMAIN db'
      /\ DOMAIN db' \subseteq Tals /\ db' \in [DOMAIN db' -> BOOLEAN]
  <2>1. CASE TalIsGone(t)
    BY <1>1, <2>1 DEF TalIsGone, TypeOK
  <2>2. CASE SpawnFails(t)
    BY <1>1, <2>2, BoundsAssumption DEF SpawnFails, Fault, db_rrdp_rem_tal, TypeOK
  <2>. QED  BY <2>1, <2>2
<1>5. TypeOK'
  BY <1>1, <1>3, <1>4 DEF TypeOK
<1>6. ASSUME NEW u \in Tals PROVE ThreadSane(u)'
  <2>1. /\ ThreadSane(u) /\ thread'[u] = thread[u]
        /\ main.pc = "spawn" /\ main'.pc = "cancel" /\ main'.threads = main.threads
    BY <1>1, <1>3
  <2>. QED  BY <2>1 DEF ThreadSane, Working
<1>7. CycleSane'
  BY <1>1, <1>3, <1>6 DEF CycleSane, Working
<1>8. RrdpFound'
  BY <1>1, <1>2, <1>3, <1>4 DEF RrdpFound
<1>. QED  BY <1>3, <1>5, <1>7, <1>8 DEF ValidationInv, NoThreadOutlives

\* Both joins take the head of the list, whose thread has ended.
LEMMA JoinInv == ASSUME ValidationInv, JoinCancelled \/ JoinThread PROVE ValidationInv'
<1>1. /\ TypeOK /\ CycleSane /\ RrdpFound /\ main.pc \in {"cancel", "join"}
      /\ main.threads \in Seq(Tals) /\ main.threads # <<>>
      /\ \A u \in Tals : ThreadSane(u)
  BY SMTT(30) DEF ValidationInv, CycleSane, TypeOK, MainType, JoinCancelled, JoinThread
<1>2. PICK t \in Tals : /\ t = Head(main.threads) /\ Tail(main.threads) \in Seq(Tals)
                        /\ Elements(main.threads) = Elements(Tail(main.threads)) \cup {t}
  BY <1>1, ElementsPop
<1>. DEFINE gone == IF main.pc = "cancel" THEN NoThread ELSE [thread[t] EXCEPT !.pc = "joined"]
<1>3. thread[t].pc = "ended" /\ thread' = [thread EXCEPT ![t] = gone]
  BY <1>2 DEF JoinCancelled, JoinThread
<1>4. /\ thread[t] \in ThreadType
      /\ main' \in MainType /\ main'.pc = main.pc /\ main'.threads = Tail(main.threads)
      /\ main'.listed = main.listed
      /\ main.pc = "join" => main'.error = IF thread[t].exit = "0" THEN main.error
                                           ELSE thread[t].exit
  BY <1>1, <1>2, ZenonT(30) DEF JoinCancelled, JoinThread, TypeOK, MainType, ThreadType
<1>5. UNCHANGED <<world, table, db, slurm, base, faults, edits>>
  BY DEF JoinCancelled, JoinThread
<1>6. /\ gone \in ThreadType /\ gone.pc \in {"none", "joined"}
      /\ main.pc = "cancel" => gone = NoThread
      /\ main.pc = "join" => /\ gone.pc = "joined" /\ gone.tree = thread[t].tree
                             /\ gone.todo = thread[t].todo /\ gone.exit = thread[t].exit
  BY <1>1, <1>4 DEF NoThread, ThreadType, Codes
<1>. HIDE DEF gone
<1>7. thread'[t] = gone /\ \A u \in Tals \ {t} : thread'[u] = thread[u]
  BY <1>1, <1>2, <1>3 DEF TypeOK
<1>8. TypeOK'
  <2>1. thread' \in [Tals -> ThreadType]
    BY <1>1, <1>3, <1>6 DEF TypeOK
  <2>. QED  BY <1>1, <1>4, <1>5, <2>1 DEF TypeOK
<1>9. ThreadSane(t)'
  <2>1. ThreadSane(t)
    BY <1>1, <1>2
  <2>2. CASE main.pc = "cancel"
    BY <1>4, <1>6, <1>7, <2>2, SMTT(30) DEF ThreadSane, NoThread, Working
  <2>3. CASE main.pc = "join"
    BY <1>3, <1>4, <1>5, <1>6, <1>7, <2>1, <2>3, SMTT(30) DEF ThreadSane, Working
  <2>. QED  BY <1>1, <2>2, <2>3
<1>10. ASSUME NEW u \in Tals \ {t} PROVE ThreadSane(u)'
  <2>1. ThreadSane(u) /\ thread'[u] = thread[u] /\ main.pc \in {"cancel", "join"}
    BY <1>1, <1>7
  <2>. QED  BY <1>2, <1>4, <1>5, <2>1, SMTT(30) DEF ThreadSane, Working
<1>11. main.pc = "join" => AllFound' = AllFound
  BY <1>6, <1>7, SameFound, SMTT(30)
<1>12. CycleSane'
  BY <1>1, <1>2, <1>4, <1>5, <1>9, <1>10, <1>11, SMTT(30) DEF CycleSane, Working
<1>13. RrdpFound'
  BY <1>1, <1>5, <1>6, <1>7 DEF RrdpFound
<1>. QED  BY <1>1, <1>4, <1>8, <1>12, <1>13 DEF ValidationInv, NoThreadOutlives

\* Every way a cycle ends.
LEMMA EndOfCycleInv ==
  ASSUME ValidationInv,
         AllCancelled \/ SomeFailed \/ ChecksumsFail \/ ApplyFails \/ PublishBase \/ PublishFails
  PROVE  ValidationInv'
<1>1. TypeOK /\ CycleSane /\ main.error \in Codes /\ {"0", "EINVAL", "ENOMEM"} \subseteq Codes
  BY DEF ValidationInv, TypeOK, MainType, Codes
<1>2. PICK error \in Codes : Discard(error)
  BY <1>1 DEF AllCancelled, SomeFailed, ChecksumsFail, ApplyFails, PublishBase, PublishFails
<1>3. \A t \in Tals : thread[t].pc \in {"none", "joined"}
  BY NoneAlive DEF AllCancelled, SomeFailed, ChecksumsFail, ApplyFails, PublishBase, PublishFails
<1>4. UNCHANGED <<world, db, slurm, edits>>
  BY DEF AllCancelled, SomeFailed, ChecksumsFail, ApplyFails, PublishBase, PublishFails
<1>5. faults' \in 0..MaxFaults
  BY <1>1, BoundsAssumption
     DEF AllCancelled, SomeFailed, ChecksumsFail, ApplyFails, PublishBase, PublishFails,
         Fault, TypeOK
<1>6. base' \in (SUBSET Records) \cup {NULL}
  BY <1>1 DEF AllCancelled, SomeFailed, ChecksumsFail, ApplyFails, PublishBase, PublishFails,
              TypeOK
<1>. QED  BY <1>2, <1>3, <1>4, <1>5, <1>6, <1>1, DiscardInv DEF TypeOK

\* From the last join to the table that is published.
LEMMA RulesInv ==
  ASSUME ValidationInv, AllSucceeded \/ Checksums \/ ParseSlurm \/ ApplySlurm
  PROVE  ValidationInv'
<1>1. /\ TypeOK /\ CycleSane /\ main.pc \in {"join", "checksums", "parse", "apply"}
      /\ main.error = "0" /\ InForce \in RuleSets
      /\ UNCHANGED <<world, thread, base, faults, edits>>
  BY InForceType DEF ValidationInv, CycleSane, AllSucceeded, Checksums, ParseSlurm, ApplySlurm
<1>2. \A t \in Tals : thread[t].pc \in {"none", "joined"}
  BY NoneAlive DEF AllSucceeded, Checksums, ParseSlurm, ApplySlurm
<1>3. table = AllFound /\ table \in SUBSET Records
  BY <1>1 DEF CycleSane, Working, TypeOK
<1>4. Files(world) \in FileSets
  BY <1>1, FilesType DEF TypeOK
<1>5. CASE AllSucceeded
  <2>1. /\ main' \in MainType /\ main'.pc = "checksums" /\ main'.listed = main.listed
        /\ main'.threads = main.threads /\ main'.error = "0"
    BY <1>1, <1>5, Zenon DEF AllSucceeded, TypeOK, MainType
  <2>2. DOMAIN db' \subseteq Tals /\ db' \in [DOMAIN db' -> BOOLEAN]
    BY <1>1, <1>5 DEF AllSucceeded, db_rrdp_rem_nonvisited_tals, TypeOK
  <2>3. /\ slurm' \in [rules : RuleSets, csums : FileSets, torn : BOOLEAN] \cup {NULL}
        /\ table' = table
    BY <1>1, <1>5 DEF AllSucceeded, TypeOK
  <2>. QED  BY <1>1, <1>2, <1>3, <2>1, <2>2, <2>3, PhaseInv
<1>6. CASE Checksums
  <2>. DEFINE same == slurm # NULL /\ are_csum_lists_equals(Files(world), slurm.csums)
  <2>1. /\ main' = [main EXCEPT !.pc = IF same \/ Files(world) = <<>> THEN "apply" ELSE "parse",
                                !.csums = Files(world), !.torn = same /\ slurm.torn]
        /\ slurm' \in {slurm, NULL}
        /\ UNCHANGED <<table, db>>
    BY <1>6 DEF Checksums
  <2>2. (same /\ slurm.torn) \in BOOLEAN
    OBVIOUS
  <2>. HIDE DEF same
  <2>3. /\ main' \in MainType /\ main'.pc \in {"apply", "parse"} /\ main'.listed = main.listed
        /\ main'.threads = main.threads /\ main'.error = "0"
    BY <1>1, <1>4, <2>1, <2>2, ZenonT(30) DEF TypeOK, MainType
  <2>4. /\ slurm' \in [rules : RuleSets, csums : FileSets, torn : BOOLEAN] \cup {NULL}
        /\ DOMAIN db' \subseteq Tals /\ db' \in [DOMAIN db' -> BOOLEAN]
    BY <1>1, <2>1 DEF TypeOK
  <2>. QED  BY <1>1, <1>2, <1>3, <2>1, <2>3, <2>4, PhaseInv
<1>7. CASE ParseSlurm
  <2>. DEFINE rules == IF world.path THEN load_slurm_files(Files(world)) ELSE {}
              torn == ~world.path \/ Files(world) # main.csums
  <2>1. /\ slurm' = IF rules = {} THEN slurm
                    ELSE IF rules = {NoRules} THEN NULL
                    ELSE [rules |-> CHOOSE r \in rules : TRUE, csums |-> main.csums,
                          torn |-> torn]
        /\ main' = [main EXCEPT !.pc = "apply", !.torn = torn]
        /\ UNCHANGED <<table, db>>
    BY <1>7 DEF ParseSlurm
  <2>2. rules \subseteq RuleSets /\ torn \in BOOLEAN
    BY <1>4, RulesType
  <2>. HIDE DEF rules, torn
  <2>3. /\ main' \in MainType /\ main'.pc = "apply" /\ main'.listed = main.listed
        /\ main'.threads = main.threads /\ main'.error = "0"
    BY <1>1, <2>1, <2>2, Zenon DEF TypeOK, MainType
  <2>4. slurm' \in [rules : RuleSets, csums : FileSets, torn : BOOLEAN] \cup {NULL}
    <3>1. main.csums \in FileSets
      BY <1>1 DEF TypeOK, MainType
    <3>2. rules # {} => (CHOOSE r \in rules : TRUE) \in RuleSets
      BY <2>2
    <3>3. rules # {} => [rules |-> CHOOSE r \in rules : TRUE, csums |-> main.csums, torn |-> torn]
                          \in [rules : RuleSets, csums : FileSets, torn : BOOLEAN]
      BY <2>2, <3>1, <3>2
    <3>. QED  BY <1>1, <2>1, <3>3 DEF TypeOK
  <2>5. DOMAIN db' \subseteq Tals /\ db' \in [DOMAIN db' -> BOOLEAN]
    BY <1>1, <2>1 DEF TypeOK
  <2>. QED  BY <1>1, <1>2, <1>3, <2>1, <2>3, <2>4, <2>5, PhaseInv
<1>8. CASE ApplySlurm
  <2>1. /\ main' \in MainType /\ main'.pc = "publish" /\ main'.listed = main.listed
        /\ main'.threads = main.threads /\ main'.error = "0"
        /\ UNCHANGED <<db, slurm>>
    BY <1>1, <1>8 DEF ApplySlurm, TypeOK, MainType
  <2>2. /\ slurm' \in [rules : RuleSets, csums : FileSets, torn : BOOLEAN] \cup {NULL}
        /\ DOMAIN db' \subseteq Tals /\ db' \in [DOMAIN db' -> BOOLEAN]
    BY <1>1, <2>1 DEF TypeOK
  <2>3. AllFound' = AllFound /\ InForce' = InForce
    BY <1>1, <2>1, SameFound DEF InForce
  <2>4. table' = Applied(AllFound, InForce)'
    BY <1>3, <1>8, <2>3 DEF ApplySlurm, Applied
  <2>5. table' \in SUBSET Records
    BY <1>1, <1>3, <1>8 DEF ApplySlurm, Applied, RuleSets
  <2>. QED  BY <1>1, <1>2, <1>3, <2>1, <2>2, <2>4, <2>5, PhaseInv
<1>. QED  BY <1>5, <1>6, <1>7, <1>8

\* A step that does not concern a thread.
LEMMA SameSane ==
  ASSUME NEW t \in Tals, ThreadSane(t), thread'[t] = thread[t], UNCHANGED <<main, db>>
  PROVE  ThreadSane(t)'
BY DEF ThreadSane

\* The files and the trees change.
LEMMA EditInv == ASSUME ValidationInv, Edit PROVE ValidationInv'
<1>1. TypeOK /\ CycleSane /\ UNCHANGED <<main, thread, table, db, slurm, base, faults>>
  BY DEF ValidationInv, Edit
<1>2. edits' \in 0..MaxEdits
  BY <1>1, BoundsAssumption DEF Edit, TypeOK
<1>3. /\ world' \in [tals : SUBSET Tals, tree : [Tals -> SUBSET Records],
                     files : [SlurmNames -> Contents \cup {NULL}], path : BOOLEAN]
      /\ \A t \in Tals : world'.tree[t] \in Yields[t]
  <2>1. /\ world \in [tals : SUBSET Tals, tree : [Tals -> SUBSET Records],
                      files : [SlurmNames -> Contents \cup {NULL}], path : BOOLEAN]
        /\ \A t \in Tals : world.tree[t] \in Yields[t]
    BY <1>1 DEF TypeOK
  <2>2. CASE \E t \in Tals : world' = [world EXCEPT !.tals = IF t \in @ THEN @ \ {t} ELSE @ \cup {t}]
    BY <2>1, <2>2
  <2>3. CASE \E t \in Tals : \E y \in Yields[t] \ {world.tree[t]} :
               world' = [world EXCEPT !.tree[t] = y]
    <3>1. PICK t \in Tals : \E y \in Yields[t] : world' = [world EXCEPT !.tree[t] = y]
      BY <2>3
    <3>2. PICK y \in Yields[t] : world' = [world EXCEPT !.tree[t] = y]
      BY <3>1
    <3>3. y \in SUBSET Records
      BY YieldsAssumption
    <3>. QED  BY <2>1, <3>2, <3>3
  <2>4. CASE \E f \in SlurmNames : \E c \in (Contents \cup {NULL}) \ {world.files[f]} :
               world' = [world EXCEPT !.files[f] = c]
    BY <2>1, <2>4
  <2>5. CASE world' = [world EXCEPT !.path = ~@]
    BY <2>1, <2>5, Zenon
  <2>. QED  BY <2>2, <2>3, <2>4, <2>5 DEF Edit
<1>4. TypeOK'
  BY <1>1, <1>2, <1>3 DEF TypeOK
<1>5. ASSUME NEW t \in Tals PROVE ThreadSane(t)'
  BY <1>1, SameSane DEF CycleSane
<1>6. AllFound' = AllFound /\ InForce' = InForce
  BY <1>1, SameFound DEF InForce
<1>7. CycleSane'
  BY <1>1, <1>5, <1>6, SMTT(30) DEF CycleSane, Applied
<1>. QED  BY <1>1, <1>4, <1>7 DEF ValidationInv, NoThreadOutlives, RrdpFound

\* A step that changes nothing.
LEMMA StutterInv == ASSUME ValidationInv, UNCHANGED vars PROVE ValidationInv'
<1>1. ASSUME NEW t \in Tals PROVE ThreadSane(t)'
  BY SameSane DEF ValidationInv, CycleSane, vars
<1>2. AllFound' = AllFound /\ InForce' = InForce
  BY SameFound DEF InForce, vars
<1>3. CycleSane'
  BY <1>1, <1>2 DEF ValidationInv, CycleSane, Applied, vars
<1>4. TypeOK'
  BY DEF ValidationInv, TypeOK, vars
<1>5. NoThreadOutlives' /\ RrdpFound'
  BY Zenon DEF ValidationInv, NoThreadOutlives, RrdpFound, vars
<1>. QED  BY <1>3, <1>4, <1>5 DEF ValidationInv

\* Every step of the program and of its files keeps the invariant.
LEMMA NextInv == ValidationInv /\ [Next]_vars => ValidationInv'
<1>. SUFFICES ASSUME ValidationInv, [Next]_vars PROVE ValidationInv'
  OBVIOUS
<1>1. CASE MainStep
  <2>1. CASE StartCycle  BY <2>1, StartCycleInv
  <2>2. CASE \E t \in Tals : SpawnThread(t) \/ TalIsGone(t) \/ SpawnFails(t)
    BY <2>2, SpawnThreadInv, StopSpawningInv
  <2>3. CASE CancelThread  BY <2>3, CancelThreadInv
  <2>4. CASE JoinCancelled \/ JoinThread  BY <2>4, JoinInv
  <2>5. CASE AllCancelled \/ SomeFailed \/ ChecksumsFail \/ ApplyFails \/ PublishBase \/ PublishFails
    BY <2>5, EndOfCycleInv
  <2>6. CASE AllSucceeded \/ Checksums \/ ParseSlurm \/ ApplySlurm
    BY <2>6, RulesInv
  <2>. QED  BY <1>1, <2>1, <2>2, <2>3, <2>4, <2>5, <2>6 DEF MainStep
<1>2. CASE \E t \in Tals : ThreadStep(t)  BY <1>2, ThreadStepInv
<1>3. CASE Edit  BY <1>3, EditInv
<1>4. CASE Ended \/ UNCHANGED vars  BY <1>4, StutterInv DEF Ended
<1>. QED  BY <1>1, <1>2, <1>3, <1>4 DEF Next

(* No thread outlives the table it writes to, none misses its TAL in db_rrdp, and
   the table holds exactly what the threads of the listed TALs found
   (perform_standalone_validation(), __vrps_update()).                          *)
THEOREM ValidationInvariance == Spec => []ValidationInv
BY InitInv, NextInv, PTL DEF Spec

--------------------------------------------------------------------------------
(***************************************************************************)
(* The cycle implements Publication.                                       *)
(***************************************************************************)

\* The trees that were read, seen from two states with the same trees.
LEMMA SameYield ==
  ASSUME \A t \in Tals : thread'[t].tree = thread[t].tree,
         InCycle' <=> InCycle, main'.listed = main.listed \/ ~InCycle
  PROVE  CycleYield' = CycleYield /\ CycleTals' = CycleTals
<1>1. {u \in Tals : thread[u].tree # NULL}' = {u \in Tals : thread[u].tree # NULL}
  OBVIOUS
<1>2. [t \in {u \in Tals : thread[u].tree # NULL} |-> thread[t].tree]'
        = [t \in {u \in Tals : thread[u].tree # NULL} |-> thread[t].tree]
  BY <1>1
<1>. QED  BY <1>2 DEF CycleYield, CycleTals

\* A cycle that is given up, or one that fails.
LEMMA AbandonStep ==
  ASSUME ~InCycle', UNCHANGED <<base, slurm>>
  PROVE  Publication!Abandon
BY DEF Publication!Abandon, Publication!Nothing, CycleTals, CycleYield, InForce

\* After the joins every listed TAL has its tree, and what was found is their union.
LEMMA AllRead ==
  ASSUME ValidationInv, main.pc \in {"checksums", "parse", "apply", "publish"}
  PROVE  /\ CycleTals = main.listed /\ main.listed # {} /\ DOMAIN CycleYield = main.listed
         /\ AllFound = UNION {CycleYield[t] : t \in main.listed}
<1>1. /\ TypeOK /\ CycleSane /\ NoThreadOutlives /\ main.error = "0" /\ main.listed # {}
      /\ main.listed \subseteq Tals
  BY SMTT(30) DEF ValidationInv, CycleSane, Working, TypeOK, MainType
<1>2. InCycle
  BY DEF InCycle
<1>3. ASSUME NEW t \in Tals
      PROVE  /\ t \in main.listed <=> thread[t].tree # NULL
             /\ thread[t].todo = {}
  <2>1. ThreadSane(t) /\ thread[t].pc \in {"none", "joined"}
    BY <1>1 DEF CycleSane, NoThreadOutlives
  <2>. QED  BY <1>1, <2>1, SMTT(30) DEF ThreadSane, NoThread, Working
<1>4. {u \in Tals : thread[u].tree # NULL} = main.listed
  BY <1>1, <1>3
<1>5. CycleYield = [t \in main.listed |-> thread[t].tree]
  BY <1>2, <1>4 DEF CycleYield
<1>6. \A t \in Tals : Found(t) = IF t \in main.listed THEN thread[t].tree ELSE {}
  BY <1>3, Zenon DEF Found
<1>7. AllFound = UNION {thread[t].tree : t \in main.listed}
  BY <1>1, <1>6 DEF AllFound
<1>. QED  BY <1>1, <1>2, <1>5, <1>7 DEF CycleTals

\* Reading the files again is a step of Publication, or changes no rule.
LEMMA ReloadStep ==
  ASSUME ValidationInv, ValidationInv', Checksums \/ ParseSlurm
  PROVE  Publication!Reload
<1>1. /\ main.pc \in {"checksums", "parse"} /\ main'.pc \in {"parse", "apply"}
      /\ main'.listed = main.listed /\ UNCHANGED <<base, thread>>
  BY ZenonT(30) DEF Checksums, ParseSlurm, ValidationInv, TypeOK, MainType
<1>2. InCycle /\ InCycle'
  BY <1>1 DEF InCycle
<1>3. CycleYield' = CycleYield /\ CycleTals' = CycleTals
  BY <1>1, <1>2, SameYield
<1>4. CycleTals # {} /\ DOMAIN CycleYield = CycleTals
  BY <1>1, AllRead
<1>5. InForce' \in RuleSets
  BY InForceType, SMTT(30) DEF ValidationInv, TypeOK, InForce, NoRules, RuleSets
<1>. QED  BY <1>1, <1>3, <1>4, <1>5 DEF Publication!Reload, Publication!Rules, RuleSets

\* The table that is published is the union under the rules in force.
LEMMA PublishStep ==
  ASSUME ValidationInv, ValidationInv', PublishBase
  PROVE  Publication!Publish
<1>1. main.pc = "publish" /\ UNCHANGED slurm /\ table = Applied(AllFound, InForce)
  BY DEF PublishBase, ValidationInv, CycleSane
<1>2. ~InCycle'
  BY DEF PublishBase, Discard, Finished, NewCycle, InCycle
<1>3. /\ CycleTals # {} /\ DOMAIN CycleYield = CycleTals
      /\ AllFound = UNION {CycleYield[t] : t \in CycleTals}
  BY <1>1, AllRead
<1>4. InForce' = InForce
  BY <1>1 DEF InForce
<1>5. table = Publication!Applied(UNION {CycleYield[t] : t \in CycleTals}, InForce)
  BY <1>1, <1>3 DEF Applied, Publication!Applied
<1>6. base' = IF base = NULL /\ table = {} THEN NULL ELSE table
  BY DEF PublishBase
<1>7. CycleTals' = {} /\ CycleYield' = [t \in {} |-> {}]
  BY <1>2 DEF CycleTals, CycleYield
<1>. QED  BY <1>3, <1>4, <1>5, <1>6, <1>7 DEF Publication!Publish, Publication!Nothing

\* The tree of a listed TAL is read, or the thread fails or was cancelled.
LEMMA ThreadStepMaps ==
  ASSUME ValidationInv, NEW t \in Tals, ThreadStep(t)
  PROVE  Publication!ReadTree(t) \/ UNCHANGED Publication!pubVars
<1>1. /\ TypeOK /\ ThreadSane(t) /\ NoThreadOutlives
      /\ UNCHANGED <<main, base, slurm, world>>
  BY DEF ValidationInv, CycleSane, ThreadStep, LoadTal, AddRecord, EndThread, EndCancelled, FailThread
<1>2. InForce' = InForce /\ (InCycle' <=> InCycle) /\ CycleTals' = CycleTals
  BY <1>1 DEF InForce, InCycle, CycleTals
<1>3. CASE \A u \in Tals : thread'[u].tree = thread[u].tree
  BY <1>1, <1>2, <1>3, SameYield DEF Publication!pubVars
<1>4. CASE LoadTal(t) /\ t \in world.tals /\ ~InCycle
  BY <1>1, <1>2, <1>4, SMTT(30) DEF Publication!pubVars, CycleYield
<1>5. CASE LoadTal(t) /\ t \in world.tals /\ InCycle
  <2>1. /\ thread[t] \in ThreadType /\ thread[t].pc = "new" /\ thread[t].tree = NULL
        /\ main.pc \in {"spawn", "join"} /\ t \in main.listed
    BY <1>1, <1>5 DEF LoadTal, ThreadSane, NoThreadOutlives, InCycle, TypeOK, Working
  <2>2. world.tree[t] \in Yields[t] /\ world.tree[t] # NULL
    BY <1>1, NullAssumption DEF TypeOK
  <2>3. thread' = [thread EXCEPT ![t].pc = "running", ![t].tree = world.tree[t],
                                 ![t].todo = world.tree[t]]
    BY <1>1, <1>5, Zenon DEF LoadTal, TypeOK
  <2>4. /\ thread'[t].tree = world.tree[t]
        /\ \A u \in Tals \ {t} : thread'[u].tree = thread[u].tree
    BY <1>1, <2>1, <2>3 DEF TypeOK, ThreadType
  <2>. DEFINE read == {u \in Tals : thread[u].tree # NULL}
              readNow == {u \in Tals : thread'[u].tree # NULL}
  <2>5. readNow = read \cup {t} /\ t \notin read
    BY <2>1, <2>2, <2>4
  <2>6. CycleYield = [u \in read |-> thread[u].tree]
    BY <1>5 DEF CycleYield
  <2>7. CycleYield' = [u \in readNow |-> thread'[u].tree]
    BY <1>2, <1>5, SMTT(30) DEF CycleYield
  <2>8. read \subseteq Tals /\ readNow \subseteq Tals
    OBVIOUS
  <2>. HIDE DEF read, readNow
  <2>9. CycleYield' = [u \in DOMAIN CycleYield \cup {t} |->
                         IF u = t THEN world.tree[t] ELSE CycleYield[u]]
    BY <2>4, <2>5, <2>6, <2>7, <2>8, SMTT(30)
  <2>10. t \in CycleTals \ DOMAIN CycleYield
    BY <1>5, <2>1, <2>5, <2>6 DEF CycleTals
  <2>. QED  BY <1>1, <1>2, <2>2, <2>9, <2>10, SMTT(30) DEF Publication!ReadTree
<1>6. CASE LoadTal(t) /\ t \notin world.tals
  BY <1>1, <1>3, <1>6 DEF LoadTal, TypeOK, ThreadType
<1>7. CASE AddRecord(t) \/ EndThread(t) \/ EndCancelled(t) \/ FailThread(t)
  <2>1. \A u \in Tals : thread'[u].tree = thread[u].tree
    BY <1>1, <1>7, SMTT(30) DEF AddRecord, EndThread, EndCancelled, FailThread, TypeOK, ThreadType
  <2>. QED  BY <1>3, <2>1
<1>. QED  BY <1>4, <1>5, <1>6, <1>7 DEF ThreadStep

\* A cycle begins, or finds no TAL.
LEMMA StartMaps ==
  ASSUME ValidationInv, StartCycle
  PROVE  Publication!Begin \/ UNCHANGED Publication!pubVars
<1>1. /\ TypeOK /\ main.pc = "sleep" /\ UNCHANGED <<world, thread, slurm, base>>
      /\ \A t \in Tals : thread[t] = NoThread
  BY SMTT(30) DEF ValidationInv, CycleSane, ThreadSane, StartCycle
<1>2. /\ main'.pc = IF world.tals = {} THEN "cancel" ELSE "spawn"
      /\ main'.listed = world.tals /\ world.tals \subseteq Tals
  BY <1>1 DEF StartCycle, TypeOK, MainType
<1>3. InForce' = InForce /\ CycleTals = {} /\ CycleYield = [t \in {} |-> {}]
  BY <1>1 DEF InForce, CycleTals, CycleYield, InCycle
<1>4. CycleYield' = [t \in {} |-> {}]
  <2>1. \A u \in Tals : thread'[u].tree = NULL
    BY <1>1 DEF NoThread
  <2>2. {u \in Tals : thread'[u].tree # NULL} = {}
    BY <2>1
  <2>3. [t \in {u \in Tals : thread'[u].tree # NULL} |-> thread'[t].tree] = [t \in {} |-> {}]
    BY <2>2
  <2>. QED  BY <2>3 DEF CycleYield
<1>5. CycleTals' = world.tals
  BY <1>2 DEF CycleTals, InCycle
<1>. QED  BY <1>1, <1>2, <1>3, <1>4, <1>5 DEF Publication!Begin, Publication!pubVars

\* The other steps of the main thread.
LEMMA MainMaps ==
  ASSUME ValidationInv, ValidationInv', MainStep
  PROVE  Publication!PubNext \/ UNCHANGED Publication!pubVars
<1>1. TypeOK /\ CycleSane /\ \A t \in Tals : ThreadSane(t)
  BY SMTT(30) DEF ValidationInv, CycleSane
<1>2. CASE StartCycle
  BY <1>2, StartMaps DEF Publication!PubNext
<1>3. CASE \E t \in Tals : SpawnThread(t)
  <2>1. PICK t \in Tals : SpawnThread(t)
    BY <1>3
  <2>2. thread[t] = NoThread /\ UNCHANGED <<slurm, base>>
    BY <1>1, <2>1 DEF SpawnThread, ThreadSane
  <2>3. \A u \in Tals : thread'[u].tree = thread[u].tree
    BY <1>1, <2>1, <2>2 DEF SpawnThread, TypeOK, NoThread
  <2>4. main'.listed = main.listed /\ InCycle /\ InCycle'
    BY <1>1, <2>1 DEF SpawnThread, TypeOK, MainType, InCycle
  <2>. QED  BY <2>2, <2>3, <2>4, SameYield, SMTT(30) DEF Publication!pubVars, InForce
<1>4. CASE \/ \E t \in Tals : TalIsGone(t) \/ SpawnFails(t)
           \/ AllCancelled \/ SomeFailed \/ ChecksumsFail \/ ApplyFails \/ PublishFails
  <2>1. UNCHANGED <<base, slurm>>
    BY <1>4 DEF TalIsGone, SpawnFails, AllCancelled, SomeFailed, ChecksumsFail, ApplyFails,
                PublishFails
  <2>2. (\E t \in Tals : TalIsGone(t) \/ SpawnFails(t)) => ~InCycle'
    BY <1>1, ZenonT(30) DEF TalIsGone, SpawnFails, InCycle, TypeOK, MainType
  <2>3. (\E error \in Codes : Discard(error)) => ~InCycle'
    BY DEF Discard, Finished, NewCycle, InCycle
  <2>4. main.error \in Codes /\ {"EINVAL", "ENOMEM"} \subseteq Codes
    BY <1>1 DEF TypeOK, MainType, Codes
  <2>5. ~InCycle'
    BY <1>4, <2>2, <2>3, <2>4, SMTT(30)
    DEF AllCancelled, SomeFailed, ChecksumsFail, ApplyFails, PublishFails
  <2>. QED  BY <2>1, <2>5, AbandonStep DEF Publication!PubNext
<1>5. CASE CancelThread \/ JoinCancelled
  <2>1. ~InCycle /\ ~InCycle' /\ UNCHANGED <<base, slurm>>
    BY <1>1, <1>5 DEF CancelThread, JoinCancelled, InCycle, TypeOK, MainType
  <2>. QED  BY <2>1 DEF CycleTals, CycleYield, InForce, Publication!pubVars
<1>6. CASE JoinThread
  <2>1. /\ main.threads \in Seq(Tals) /\ main.threads # <<>>
        /\ thread' = [thread EXCEPT ![Head(main.threads)].pc = "joined"]
        /\ UNCHANGED <<base, slurm>>
    BY <1>1, <1>6 DEF JoinThread, TypeOK, MainType
  <2>2. \A u \in Tals : thread'[u].tree = thread[u].tree
    BY <1>1, <2>1, ElementsPop DEF TypeOK, ThreadType
  <2>3. main'.listed = main.listed /\ InCycle /\ InCycle'
    BY <1>1, <1>6 DEF JoinThread, TypeOK, MainType, InCycle
  <2>. QED  BY <2>1, <2>2, <2>3, SameYield DEF Publication!pubVars, InForce
<1>7. CASE AllSucceeded \/ ApplySlurm
  <2>1. /\ main'.listed = main.listed /\ InCycle /\ InCycle'
        /\ UNCHANGED <<base, slurm, thread>>
    BY <1>1, <1>7, ZenonT(30) DEF AllSucceeded, ApplySlurm, TypeOK, MainType, InCycle
  <2>. QED  BY <2>1, SameYield DEF Publication!pubVars, InForce
<1>8. CASE Checksums \/ ParseSlurm
  BY <1>8, ReloadStep DEF Publication!PubNext
<1>9. CASE PublishBase
  BY <1>9, PublishStep DEF Publication!PubNext
<1>. QED  BY <1>2, <1>3, <1>4, <1>5, <1>6, <1>7, <1>8, <1>9 DEF MainStep

\* Every step is a step of Publication or changes nothing it sees.
LEMMA NextMaps ==
  ValidationInv /\ ValidationInv' /\ [Next]_vars => [Publication!PubNext]_(Publication!pubVars)
<1>. SUFFICES ASSUME ValidationInv, ValidationInv', [Next]_vars
              PROVE  Publication!PubNext \/ UNCHANGED Publication!pubVars
  OBVIOUS
<1>1. CASE MainStep  BY <1>1, MainMaps
<1>2. CASE \E t \in Tals : ThreadStep(t)
  BY <1>2, ThreadStepMaps DEF Publication!PubNext
<1>3. CASE Edit \/ Ended \/ UNCHANGED vars
  <2>1. UNCHANGED <<main, thread, slurm, base>>
    BY <1>3 DEF Edit, Ended, vars
  <2>2. (InCycle' <=> InCycle) /\ InForce' = InForce
    BY <2>1 DEF InCycle, InForce
  <2>. QED  BY <2>1, <2>2, SameYield DEF Publication!pubVars
<1>. QED  BY <1>1, <1>2, <1>3 DEF Next

\* The first state is an initial state of Publication.
LEMMA InitMaps == Init => Publication!PubInit
BY SMTT(30) DEF Init, NewCycle, Publication!PubInit, Publication!NoRules, Publication!Nothing,
       InForce, NoRules, CycleTals, CycleYield, InCycle

(* What is published is the union of the complete results of every TAL that the
   cycle listed, under the rules in force, or the database stays
   (perform_standalone_validation(), __vrps_update()).                        *)
THEOREM ImplementsPublication == Spec => PublishesAllOrNothing
<1>1. Spec => []ValidationInv
  BY ValidationInvariance
<1>. QED  BY <1>1, InitMaps, NextMaps, PTL
          DEF Spec, PublishesAllOrNothing, Publication!PublicationSpec

(* The RRDP state of a TAL goes only when a whole cycle succeeded without it, or
   when its own thread could not be created (db_rrdp_rem_nonvisited_tals(),
   __do_file_validation()).                                                   *)
THEOREM RrdpIsKept == Spec => RrdpKept
<1>. DEFINE Gone == \A t \in DOMAIN db \ DOMAIN db' :
                      \/ t \notin main.listed /\ main.pc = "join" /\ main'.pc = "checksums"
                      \/ t \in main.left /\ main'.pc = "cancel"
<1>1. ASSUME ValidationInv, Next PROVE Gone
  <2>1. TypeOK /\ CycleSane
    BY <1>1 DEF ValidationInv
  <2>2. CASE AllSucceeded
    <3>1. ASSUME NEW t \in DOMAIN db, t \in main.listed PROVE t \in DOMAIN db'
      <4>1. t \in Tals /\ ThreadSane(t) /\ main.pc = "join"
        BY <2>1, <2>2, <3>1 DEF TypeOK, CycleSane, AllSucceeded
      <4>2. db[t]
        BY <3>1, <4>1, SMTT(30) DEF ThreadSane, Working
      <4>. QED  BY <2>2, <3>1, <4>2 DEF AllSucceeded, db_rrdp_rem_nonvisited_tals
    <3>2. main.pc = "join" /\ main'.pc = "checksums"
      BY <2>1, <2>2 DEF AllSucceeded, TypeOK, MainType
    <3>. QED  BY <3>1, <3>2
  <2>3. CASE \E t \in Tals : SpawnFails(t)
    <3>1. PICK t \in Tals : SpawnFails(t)
      BY <2>3
    <3>2. t \in main.left /\ main'.pc = "cancel"
      BY <2>1, <3>1 DEF SpawnFails, TypeOK, MainType
    <3>3. DOMAIN db \ DOMAIN db' \subseteq {t}
      BY <3>1 DEF SpawnFails, db_rrdp_rem_tal
    <3>. QED  BY <3>2, <3>3
  <2>4. CASE StartCycle \/ \E t \in Tals : SpawnThread(t)
    BY <2>4, ZenonT(30) DEF StartCycle, SpawnThread, ResetVisited, db_rrdp_add_tal
  <2>5. CASE \/ \E t \in Tals : TalIsGone(t)
             \/ CancelThread \/ JoinCancelled \/ AllCancelled \/ JoinThread \/ SomeFailed
             \/ Checksums \/ ChecksumsFail \/ ParseSlurm \/ ApplySlurm \/ ApplyFails
             \/ PublishBase \/ PublishFails \/ Edit \/ Ended
    <3>1. db' = db
      BY <2>5, SMTT(30)
      DEF TalIsGone, CancelThread, JoinCancelled, AllCancelled, JoinThread, SomeFailed,
          Checksums, ChecksumsFail, ParseSlurm, ApplySlurm, ApplyFails, PublishBase,
          PublishFails, Edit, Ended, vars
    <3>. QED  BY <3>1
  <2>6. CASE \E t \in Tals : ThreadStep(t)
    <3>1. db' = db
      BY <2>6 DEF ThreadStep, LoadTal, AddRecord, EndThread, EndCancelled, FailThread
    <3>. QED  BY <3>1
  <2>. QED  BY <1>1, <2>2, <2>3, <2>4, <2>5, <2>6, SMTT(30) DEF Next, MainStep
<1>2. ValidationInv /\ [Next]_vars => [Gone]_vars
  BY <1>1
<1>. QED  BY <1>2, ValidationInvariance, PTL DEF Spec, RrdpKept
================================================================================
