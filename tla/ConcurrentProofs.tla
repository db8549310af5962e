--------------------------- MODULE ConcurrentProofs ---------------------------
(***************************************************************************)
(* Safety of three programs of Concurrent: PosixSets for any producers and  *)
(* consumers, sets and kills; Turns for any runs, sets, kills and stops;    *)
(* FileLines for any writers, readers, lines and failures.                  *)
(***************************************************************************)
EXTENDS Concurrent, TLAPS, SequenceTheorems

-----------------------------------------------------------------------------
(* PosixSets *)

\* A producer before it has made its semaphore, at work with it, and in its
\* critical sections.
Making  == {"new", "unlink_sem", "create", "size", "open_sem"}
Works   == {"add", "finish", "check", "adding", "finishing", "checking"}
Ending  == {"remove_shm", "remove_sem", "done"}
Holding == {"adding", "finishing", "checking"}

PosixType ==
    /\ ppc \in [Producers -> Making \union Works \union Ending \union {"failed", "killed"}]
    /\ shm \in Producers \union {0} /\ sem \in Producers \union {0}
    /\ value \in [Producers -> {0, 1}] /\ sets \in [Producers -> Seq(BOOLEAN)]
    /\ cpc \in [Consumers -> {"new", "open_sem", "wait", "look", "act", "done", "failed", "killed"}]
    /\ cshm \in [Consumers -> Producers \union {0}] /\ csem \in [Consumers -> Producers \union {0}]
    /\ found \in [Consumers -> Nat]
    /\ claims \subseteq Producers \X Nat \X Consumers
    /\ clash \in BOOLEAN

\* What a consumer has opened where.
OpenedInv ==
    \A c \in Consumers :
        /\ cpc[c] \in {"new", "open_sem"} => csem[c] = 0
        /\ cpc[c] \in {"open_sem", "wait", "look", "act"} => cshm[c] # 0
        /\ cpc[c] \in {"wait", "look", "act"} => csem[c] # 0

\* Consumer c has semaphore g.
Has(c, g) == csem[c] = g /\ cpc[c] \in {"look", "act"}

\* One process at a time has a semaphore; nobody knows it before it is made.
LockInv ==
    \A g \in Producers :
        /\ ppc[g] \in Holding => value[g] = 0 /\ \A c \in Consumers : ~Has(c, g)
        /\ \A c \in Consumers : Has(c, g) => value[g] = 0 /\ \A d \in Consumers : Has(d, g) => d = c
        /\ ppc[g] \in Making => value[g] = 0 /\ sem # g /\ \A c \in Consumers : csem[c] # g

\* A set is claimed once, and its count tells whether it was.
ClaimedOnce(g) == \A x, y \in claims : x[1] = g /\ y[1] = g /\ x[2] = y[2] => x = y
ClaimedGone(g) == \A x \in claims : x[1] = g => x[2] \in 1 .. Len(sets[g]) /\ ~sets[g][x[2]]
GoneClaimed(g) ==
    \A i \in 1 .. Len(sets[g]) : ~sets[g][i] => \E x \in claims : x[1] = g /\ x[2] = i

\* A consumer about to claim a set finds it unclaimed; a producer that leaves finds
\* none.
FoundLeft(g) ==
    \A c \in Consumers : cshm[c] = g /\ cpc[c] = "act" /\ found[c] > 0 =>
        found[c] \in 1 .. Len(sets[g]) /\ sets[g][found[c]]
AllGone(g) == ppc[g] \in Ending => \A i \in 1 .. Len(sets[g]) : ~sets[g][i]

ClaimInv ==
    \A g \in Producers : Posix!Matched(g) =>
        ClaimedOnce(g) /\ ClaimedGone(g) /\ GoneClaimed(g) /\ FoundLeft(g) /\ AllGone(g)

\* Without a clash one producer works at a time, and the names are its own.
NamesInv ==
    ~clash =>
        /\ \A g, h \in Producers : ppc[g] \notin Posix!Over /\ ppc[h] \notin Posix!Over => g = h
        /\ \A g \in Producers : ppc[g] \in {"size", "open_sem"} \union Works => shm = g
        /\ \A g \in Producers : ppc[g] \in Works => sem = g

PosixInv == PosixType /\ OpenedInv /\ LockInv /\ ClaimInv /\ NamesInv

-----------------------------------------------------------------------------
(* Facts about PosixSets *)

LEMMA PosixLabels ==
  /\ Posix!Over = {"new", "done", "failed", "killed"}
  /\ DOMAIN Posix!Inside = {"add", "finish", "check"}
  /\ Posix!Inside["add"] = "adding" /\ Posix!Inside["finish"] = "finishing"
  /\ Posix!Inside["check"] = "checking"
BY DEF Posix!Over, Posix!Inside

LEMMA PutLast ==
  ASSUME NEW S, NEW s \in Seq(S), NEW e \in S
  PROVE  /\ Append(s, e) \in Seq(S) /\ Len(s) \in Nat /\ Len(Append(s, e)) = Len(s) + 1
         /\ \A k \in 1 .. Len(s) : Append(s, e)[k] = s[k]
         /\ Append(s, e)[Len(s) + 1] = e
BY AppendProperties, LenProperties

LEMMA OneMore == ASSUME NEW n \in Nat PROVE n + 1 \in Nat /\ (n > 0 => n - 1 \in Nat)
OBVIOUS

LEMMA PutAt ==
  ASSUME NEW S, NEW T, NEW f \in [S -> T], NEW k \in S, NEW e \in T
  PROVE  [f EXCEPT ![k] = e] \in [S -> T]
OBVIOUS

LEMMA SetOne ==
  ASSUME NEW S, NEW s \in Seq(S), NEW k, NEW e \in S
  PROVE  /\ [s EXCEPT ![k] = e] \in Seq(S) /\ Len([s EXCEPT ![k] = e]) = Len(s)
         /\ \A i \in 1 .. Len(s) : [s EXCEPT ![k] = e][i] = IF i = k THEN e ELSE s[i]
<1>1. DOMAIN s = 1 .. Len(s)
  BY LenProperties
<1>2. CASE k \in 1 .. Len(s)
  BY <1>2, ExceptSeq
<1>3. CASE k \notin 1 .. Len(s)
  <2>1. [s EXCEPT ![k] = e] = s
    BY <1>1, <1>3
  <2>. QED
    BY <1>3, <2>1
<1>. QED
  BY <1>2, <1>3

\* Steps that neither add nor claim a set and let nobody come to a claim or to
\* the end.
LEMMA ClaimsQuiet ==
  ASSUME ClaimInv, sets' = sets, claims' = claims,
         \A g \in Producers : Posix!Matched(g)' => Posix!Matched(g),
         \A c \in Consumers : cpc'[c] = "act" =>
             cpc[c] = "act" /\ cshm'[c] = cshm[c] /\ found'[c] = found[c],
         \A g \in Producers : ppc'[g] \in Ending => ppc[g] \in Ending
  PROVE  ClaimInv'
<1>1. SUFFICES ASSUME NEW g \in Producers, Posix!Matched(g)'
               PROVE  /\ ClaimedOnce(g)' /\ ClaimedGone(g)' /\ GoneClaimed(g)'
                      /\ FoundLeft(g)' /\ AllGone(g)'
  BY DEF ClaimInv
<1>2. ClaimedOnce(g) /\ ClaimedGone(g) /\ GoneClaimed(g) /\ FoundLeft(g) /\ AllGone(g)
  BY <1>1 DEF ClaimInv
<1>3. ClaimedOnce(g)' /\ ClaimedGone(g)' /\ GoneClaimed(g)'
  BY <1>2 DEF ClaimedOnce, ClaimedGone, GoneClaimed
<1>4. FoundLeft(g)' /\ AllGone(g)'
  BY <1>2 DEF FoundLeft, AllGone
<1>. QED
  BY <1>3, <1>4

LEMMA RemoveObjectsStep ==
  ASSUME PosixInv, NEW g \in Producers, Posix!RemoveObjects(g)
  PROVE  PosixInv'
<1>. USE ConcurrentAssumption, PosixLabels
     DEF PosixInv, PosixType, Posix!RemoveObjects, Posix!Go, Posix!segment, Posix!consumer,
         Making, Holding, Ending, Works
<1>1. PosixType'
  BY DEF OpenedInv
<1>2. OpenedInv'
  BY DEF OpenedInv
<1>3. LockInv'
  BY DEF OpenedInv, LockInv, Has
<1>4. ClaimInv'
  BY ClaimsQuiet DEF OpenedInv, Posix!Matched
<1>5. NamesInv'
  <2>1. SUFFICES ASSUME ~clash' PROVE NamesInv'
    BY DEF NamesInv
  <2>2. ~clash
    BY <2>1
  <2>3. \A h, k \in Producers : ppc'[h] \notin Posix!Over /\ ppc'[k] \notin Posix!Over => h = k
    <3>1. CASE ppc[g] = "new"
      <4>1. \A h \in Producers : ppc[h] \in Posix!Over
        BY <2>1, <3>1
      <4>. QED
        BY <3>1, <4>1
    <3>2. CASE ppc[g] # "new"
      BY <2>1, <2>2, <3>2 DEF NamesInv
    <3>. QED
      BY <3>1, <3>2
  <2>4. \A h \in Producers : ppc'[h] \notin {"size", "open_sem"} \union Works
    <3>1. SUFFICES ASSUME NEW h \in Producers, ppc'[h] \in {"size", "open_sem"} \union Works
                   PROVE  FALSE
      OBVIOUS
    <3>2. ppc'[g] \in {"unlink_sem", "create"}
      OBVIOUS
    <3>3. h = g
      BY <2>3, <3>1, <3>2
    <3>. QED
      BY <3>1, <3>2, <3>3
  <2>. QED
    BY <2>3, <2>4 DEF NamesInv
<1>. QED
  BY <1>1, <1>2, <1>3, <1>4, <1>5

LEMMA CreateShmStep ==
  ASSUME PosixInv, NEW g \in Producers, Posix!CreateShm(g)
  PROVE  PosixInv'
<1>. USE ConcurrentAssumption, PosixLabels
     DEF PosixInv, PosixType, Posix!CreateShm, Posix!Go, Posix!segment, Posix!consumer,
         Making, Holding, Ending, Works
<1>1. PosixType'
  BY DEF OpenedInv
<1>2. OpenedInv'
  BY DEF OpenedInv
<1>3. LockInv'
  BY DEF OpenedInv, LockInv, Has
<1>4. ClaimInv'
  BY ClaimsQuiet DEF OpenedInv, Posix!Matched
<1>5. NamesInv'
  <2>1. SUFFICES ASSUME ~clash' PROVE NamesInv'
    BY DEF NamesInv
  <2>2. ~clash
    BY <2>1
  <2>3. \A h, k \in Producers : ppc'[h] \notin Posix!Over /\ ppc'[k] \notin Posix!Over => h = k
    BY <2>1, <2>2 DEF NamesInv
  <2>4. \A h \in Producers : ppc'[h] \in {"size", "open_sem"} \union Works => shm' = h
    BY <2>1, <2>2 DEF NamesInv
  <2>5. \A h \in Producers : ppc'[h] \in Works => sem' = h
    BY <2>1, <2>2 DEF NamesInv
  <2>. QED
    BY <2>3, <2>4, <2>5 DEF NamesInv
<1>. QED
  BY <1>1, <1>2, <1>3, <1>4, <1>5

LEMMA SizeShmStep ==
  ASSUME PosixInv, NEW g \in Producers, Posix!SizeShm(g)
  PROVE  PosixInv'
<1>. USE ConcurrentAssumption, PosixLabels
     DEF PosixInv, PosixType, Posix!SizeShm, Posix!Go, Posix!consumer,
         Making, Holding, Ending, Works
<1>1. PosixType'
  BY DEF OpenedInv
<1>2. OpenedInv'
  BY DEF OpenedInv
<1>3. LockInv'
  BY DEF OpenedInv, LockInv, Has
<1>4. ClaimInv'
  BY ClaimsQuiet DEF OpenedInv, Posix!Matched
<1>5. NamesInv'
  <2>1. SUFFICES ASSUME ~clash' PROVE NamesInv'
    BY DEF NamesInv
  <2>2. ~clash
    BY <2>1
  <2>3. \A h, k \in Producers : ppc'[h] \notin Posix!Over /\ ppc'[k] \notin Posix!Over => h = k
    BY <2>1, <2>2 DEF NamesInv
  <2>4. \A h \in Producers : ppc'[h] \in {"size", "open_sem"} \union Works => shm' = h
    BY <2>1, <2>2 DEF NamesInv
  <2>5. \A h \in Producers : ppc'[h] \in Works => sem' = h
    BY <2>1, <2>2 DEF NamesInv
  <2>. QED
    BY <2>3, <2>4, <2>5 DEF NamesInv
<1>. QED
  BY <1>1, <1>2, <1>3, <1>4, <1>5

LEMMA CreateSemStep ==
  ASSUME PosixInv, NEW g \in Producers, Posix!CreateSem(g)
  PROVE  PosixInv'
<1>. USE ConcurrentAssumption, PosixLabels
     DEF PosixInv, PosixType, Posix!CreateSem, Posix!Go, Posix!segment, Posix!consumer,
         Making, Holding, Ending, Works
<1>1. PosixType'
  BY DEF OpenedInv
<1>2. OpenedInv'
  BY DEF OpenedInv
<1>3. LockInv'
  BY DEF OpenedInv, LockInv, Has
<1>4. ClaimInv'
  BY ClaimsQuiet DEF OpenedInv, Posix!Matched
<1>5. NamesInv'
  <2>1. SUFFICES ASSUME ~clash' PROVE NamesInv'
    BY DEF NamesInv
  <2>2. ~clash
    BY <2>1
  <2>3. \A h, k \in Producers : ppc'[h] \notin Posix!Over /\ ppc'[k] \notin Posix!Over => h = k
    BY <2>1, <2>2 DEF NamesInv
  <2>4. \A h \in Producers : ppc'[h] \in {"size", "open_sem"} \union Works => shm' = h
    BY <2>1, <2>2 DEF NamesInv
  <2>5. \A h \in Producers : ppc'[h] \in Works => sem' = h
    BY <2>1, <2>2 DEF NamesInv
  <2>. QED
    BY <2>3, <2>4, <2>5 DEF NamesInv
<1>. QED
  BY <1>1, <1>2, <1>3, <1>4, <1>5

LEMMA ProducerWaitStep ==
  ASSUME PosixInv, NEW g \in Producers, Posix!ProducerWait(g)
  PROVE  PosixInv'
<1>. USE ConcurrentAssumption, PosixLabels DEF Making, Holding, Ending, Works
<1>0. /\ PosixType /\ OpenedInv /\ LockInv /\ ClaimInv /\ NamesInv
      /\ ppc[g] \in {"add", "finish", "check"} /\ value[g] > 0
      /\ value' = [value EXCEPT ![g] = @ - 1]
      /\ UNCHANGED <<shm, sem, sets, cpc, cshm, csem, found, claims, clash>>
  BY DEF PosixInv, Posix!ProducerWait, Posix!names, Posix!segment, Posix!consumer
<1>1. \E l \in {"adding", "finishing", "checking"} : ppc' = [ppc EXCEPT ![g] = l]
  BY <1>0 DEF Posix!ProducerWait, Posix!Go
<1>2. value[g] = 1 /\ value' = [value EXCEPT ![g] = 0]
  <2>1. value[g] = 1
    BY <1>0 DEF PosixType
  <2>. QED
    BY <1>0, <2>1
<1>3. /\ ppc'[g] \in Holding /\ \A h \in Producers : h # g => ppc'[h] = ppc[h]
      /\ value'[g] = 0 /\ \A h \in Producers : h # g => value'[h] = value[h]
  BY <1>0, <1>1, <1>2 DEF PosixType
<1>4. PosixType'
  <2>1. value' \in [Producers -> {0, 1}]
    BY <1>0, <1>2 DEF PosixType
  <2>2. ppc' \in [Producers -> Making \union Works \union Ending \union {"failed", "killed"}]
    BY <1>0, <1>1 DEF PosixType
  <2>. QED
    BY <1>0, <2>1, <2>2 DEF PosixType
<1>5. OpenedInv'
  BY <1>0 DEF OpenedInv
<1>6. LockInv'
  BY <1>0, <1>2, <1>3 DEF LockInv, Has
<1>7. ClaimInv'
  BY <1>0, <1>3, ClaimsQuiet DEF Posix!Matched
<1>8. NamesInv'
  BY <1>0, <1>3 DEF NamesInv
<1>. QED
  BY <1>4, <1>5, <1>6, <1>7, <1>8 DEF PosixInv

LEMMA ProducerEndStep ==
  ASSUME PosixInv, NEW g \in Producers, Posix!ProducerEnd(g)
  PROVE  PosixInv'
<1>. USE ConcurrentAssumption, PosixLabels DEF Making, Holding, Ending, Works
<1>0. /\ PosixType /\ OpenedInv /\ LockInv /\ ClaimInv /\ NamesInv
      /\ \/ ppc[g] = "remove_shm" /\ shm' = 0 /\ ppc' = [ppc EXCEPT ![g] = "remove_sem"] /\ sem' = sem
         \/ ppc[g] = "remove_sem" /\ sem' = 0 /\ ppc' = [ppc EXCEPT ![g] = "done"] /\ shm' = shm
      /\ UNCHANGED <<value, sets, cpc, cshm, csem, found, claims, clash>>
  BY DEF PosixInv, Posix!ProducerEnd, Posix!Go, Posix!segment, Posix!consumer
<1>1. /\ ppc[g] \in Ending \ {"done"} /\ ppc'[g] \in Ending \ {"remove_shm"}
      /\ \A h \in Producers : h # g => ppc'[h] = ppc[h]
  BY <1>0 DEF PosixType
<1>2. PosixType'
  BY <1>0 DEF PosixType
<1>3. OpenedInv'
  BY <1>0 DEF OpenedInv
<1>4. LockInv'
  BY <1>0, <1>1 DEF LockInv, Has
<1>5. ClaimInv'
  BY <1>0, <1>1, ClaimsQuiet DEF Posix!Matched
<1>6. NamesInv'
  <2>1. SUFFICES ASSUME ~clash' PROVE NamesInv'
    BY DEF NamesInv
  <2>2. /\ \A h, k \in Producers : ppc[h] \notin Posix!Over /\ ppc[k] \notin Posix!Over => h = k
        /\ \A h \in Producers : ppc[h] \in {"size", "open_sem"} \union Works => shm = h
        /\ \A h \in Producers : ppc[h] \in Works => sem = h
    BY <1>0, <2>1 DEF NamesInv
  <2>3. \A h \in Producers : h # g => ppc'[h] \in Posix!Over
    BY <1>1, <2>2
  <2>4. ppc'[g] \notin {"size", "open_sem"} \union Works
    BY <1>1
  <2>. QED
    BY <2>3, <2>4 DEF NamesInv
<1>. QED
  BY <1>2, <1>3, <1>4, <1>5, <1>6 DEF PosixInv

LEMMA KillProducerStep ==
  ASSUME PosixInv, NEW g \in Producers, Posix!KillProducer(g)
  PROVE  PosixInv'
<1>. USE ConcurrentAssumption, PosixLabels
     DEF PosixInv, PosixType, Posix!KillProducer, Posix!Go, Posix!names, Posix!segment,
         Posix!consumer,
         Making, Holding, Ending, Works
<1>1. PosixType'
  BY DEF OpenedInv
<1>2. OpenedInv'
  BY DEF OpenedInv
<1>3. LockInv'
  BY DEF OpenedInv, LockInv, Has
<1>4. ClaimInv'
  BY ClaimsQuiet DEF OpenedInv, Posix!Matched
<1>5. NamesInv'
  BY DEF NamesInv
<1>. QED
  BY <1>1, <1>2, <1>3, <1>4, <1>5

LEMMA OpenShmStep ==
  ASSUME PosixInv, NEW c \in Consumers, Posix!OpenShm(c)
  PROVE  PosixInv'
<1>. USE ConcurrentAssumption, PosixLabels
     DEF PosixInv, PosixType, Posix!OpenShm, Posix!At, Posix!names, Posix!segment,
         Making, Holding, Ending, Works
<1>1. PosixType'
  BY DEF OpenedInv
<1>2. OpenedInv'
  BY DEF OpenedInv
<1>3. LockInv'
  BY DEF OpenedInv, LockInv, Has
<1>4. ClaimInv'
  BY ClaimsQuiet DEF OpenedInv, Posix!Matched
<1>5. NamesInv'
  BY DEF NamesInv
<1>. QED
  BY <1>1, <1>2, <1>3, <1>4, <1>5

LEMMA OpenSemStep ==
  ASSUME PosixInv, NEW c \in Consumers, Posix!OpenSem(c)
  PROVE  PosixInv'
<1>. USE ConcurrentAssumption, PosixLabels
     DEF PosixInv, PosixType, Posix!OpenSem, Posix!At, Posix!names, Posix!segment,
         Making, Holding, Ending, Works
<1>1. PosixType'
  BY DEF OpenedInv
<1>2. OpenedInv'
  BY DEF OpenedInv
<1>3. LockInv'
  BY DEF OpenedInv, LockInv, Has
<1>4. ClaimInv'
  BY ClaimsQuiet DEF OpenedInv, Posix!Matched
<1>5. NamesInv'
  BY DEF NamesInv
<1>. QED
  BY <1>1, <1>2, <1>3, <1>4, <1>5

LEMMA ConsumerWaitStep ==
  ASSUME PosixInv, NEW c \in Consumers, Posix!ConsumerWait(c)
  PROVE  PosixInv'
<1>. USE ConcurrentAssumption, PosixLabels
     DEF PosixInv, PosixType, Posix!ConsumerWait, Posix!At, Posix!names, Posix!segment,
         Making, Holding, Ending, Works
<1>0. /\ cpc[c] = "wait" /\ cpc' = [cpc EXCEPT ![c] = "look"]
      /\ cshm' = cshm /\ csem' = csem
  OBVIOUS
<1>1. PosixType'
  <2>1. csem[c] \in Producers /\ value[csem[c]] = 1
    <3>1. csem[c] \in Producers
      BY <1>0 DEF OpenedInv
    <3>2. value[csem[c]] > 0 /\ value[csem[c]] \in {0, 1}
      BY <3>1
    <3>. QED
      BY <3>1, <3>2
  <2>2. value' = [value EXCEPT ![csem[c]] = 0]
    BY <2>1
  <2>3. value' \in [Producers -> {0, 1}]
    BY <2>1, <2>2
  <2>. QED
    BY <1>0, <2>3
<1>2. OpenedInv'
  <2>1. OpenedInv /\ DOMAIN cpc = Consumers
    OBVIOUS
  <2>. QED
    BY ONLY <1>0, <2>1 DEF OpenedInv
<1>3. LockInv'
  BY DEF OpenedInv, LockInv, Has
<1>4. ClaimInv'
  BY ClaimsQuiet DEF OpenedInv, Posix!Matched
<1>5. NamesInv'
  BY DEF NamesInv
<1>. QED
  BY <1>1, <1>2, <1>3, <1>4, <1>5

\* The first set that is left, if one is.
LEMMA FirstLeft ==
  ASSUME PosixInv, NEW c \in Consumers, Posix!Look(c), cpc'[c] = "act", NEW g, g = cshm[c]
  PROVE  /\ g \in Producers /\ found'[c] \in Nat
         /\ found'[c] = 0 => \A i \in 1 .. Len(sets[g]) : ~sets[g][i]
         /\ found'[c] > 0 => found'[c] \in 1 .. Len(sets[g]) /\ sets[g][found'[c]]
<1>1. g \in Producers
  BY DEF PosixInv, PosixType, OpenedInv, Posix!Look
<1>2. DOMAIN sets[g] = 1 .. Len(sets[g]) /\ Len(sets[g]) \in Nat
  BY <1>1, LenProperties DEF PosixInv, PosixType
<1>. QED
  BY <1>1, <1>2 DEF PosixInv, PosixType, Posix!Look, Posix!At

LEMMA LookStep ==
  ASSUME PosixInv, NEW c \in Consumers, Posix!Look(c)
  PROVE  PosixInv'
<1>. USE ConcurrentAssumption, PosixLabels
     DEF PosixInv, PosixType, Posix!At, Posix!names,
         Making, Holding, Ending, Works
<1>0. /\ UNCHANGED <<ppc, shm, sem, value, sets, claims, clash, cshm, csem>>
      /\ cpc[c] = "look"
      /\ \/ cpc' = [cpc EXCEPT ![c] = "killed"] /\ found' = found
         \/ cpc' = [cpc EXCEPT ![c] = "act"] /\ found' = [found EXCEPT ![c] = found'[c]]
  BY DEF Posix!Look, Posix!segment
<1>1. PosixType'
  BY <1>0, FirstLeft
<1>2. OpenedInv'
  BY <1>0 DEF OpenedInv
<1>3. LockInv'
  BY <1>0 DEF LockInv, Has
<1>4. ClaimInv'
  <2>1. SUFFICES ASSUME NEW g \in Producers, Posix!Matched(g)'
                 PROVE  /\ ClaimedOnce(g)' /\ ClaimedGone(g)' /\ GoneClaimed(g)'
                        /\ FoundLeft(g)' /\ AllGone(g)'
    BY DEF ClaimInv
  <2>2. ClaimedOnce(g) /\ ClaimedGone(g) /\ GoneClaimed(g) /\ FoundLeft(g) /\ AllGone(g)
    BY <1>0, <2>1 DEF ClaimInv, Posix!Matched
  <2>3. ClaimedOnce(g)' /\ ClaimedGone(g)' /\ GoneClaimed(g)' /\ AllGone(g)'
    BY <1>0, <2>2 DEF ClaimedOnce, ClaimedGone, GoneClaimed, AllGone
  <2>4. FoundLeft(g)'
    <3>1. SUFFICES ASSUME NEW d \in Consumers, cshm[d] = g, cpc'[d] = "act", found'[d] > 0
                   PROVE  found'[d] \in 1 .. Len(sets[g]) /\ sets[g][found'[d]]
      BY <1>0 DEF FoundLeft
    <3>2. CASE d = c
      BY <3>1, <3>2, FirstLeft
    <3>3. CASE d # c
      BY <1>0, <2>2, <3>1, <3>3 DEF FoundLeft
    <3>. QED
      BY <3>2, <3>3
  <2>. QED
    BY <2>3, <2>4
<1>5. NamesInv'
  BY <1>0 DEF NamesInv
<1>. QED
  BY <1>1, <1>2, <1>3, <1>4, <1>5

LEMMA KillConsumerStep ==
  ASSUME PosixInv, NEW c \in Consumers, Posix!KillConsumer(c)
  PROVE  PosixInv'
<1>. USE ConcurrentAssumption, PosixLabels
     DEF PosixInv, PosixType, Posix!KillConsumer, Posix!At, Posix!names, Posix!segment,
         Making, Holding, Ending, Works
<1>1. PosixType'
  BY DEF OpenedInv
<1>2. OpenedInv'
  BY DEF OpenedInv
<1>3. LockInv'
  BY DEF OpenedInv, LockInv, Has
<1>4. ClaimInv'
  BY ClaimsQuiet DEF OpenedInv, Posix!Matched
<1>5. NamesInv'
  BY DEF NamesInv
<1>. QED
  BY <1>1, <1>2, <1>3, <1>4, <1>5

LEMMA ProducerInsideStep ==
  ASSUME PosixInv, NEW g \in Producers, Posix!ProducerInside(g)
  PROVE  PosixInv'
<1>. USE ConcurrentAssumption, PosixLabels
     DEF PosixInv, PosixType, Making, Holding, Ending, Works
<1>0. /\ sets[g] \in Seq(BOOLEAN) /\ Len(sets[g]) \in Nat
      /\ DOMAIN sets[g] = 1 .. Len(sets[g])
      /\ value[g] = 0 /\ \A c \in Consumers : ~Has(c, g)
      /\ ppc[g] \in Holding
  BY LenProperties DEF LockInv, Posix!ProducerInside
<1>10. /\ UNCHANGED <<shm, sem, cpc, cshm, csem, found, claims, clash>>
      /\ value' = [value EXCEPT ![g] = 1]
      /\ \/ /\ ppc' = [ppc EXCEPT ![g] = "add"]
            /\ sets' = [sets EXCEPT ![g] = Append(sets[g], TRUE)]
         \/ sets' = sets /\ \E l \in {"finish", "check"} : ppc' = [ppc EXCEPT ![g] = l]
         \/ /\ ppc' = [ppc EXCEPT ![g] = "remove_shm"] /\ sets' = sets
            /\ \A i \in 1 .. Len(sets[g]) : ~sets[g][i]
  <2>1. /\ UNCHANGED <<shm, sem, cpc, cshm, csem, found, claims, clash>>
        /\ value' = [value EXCEPT ![g] = 1]
    BY <1>0 DEF Posix!ProducerInside, Posix!names, Posix!consumer
  <2>2. CASE ppc[g] = "adding"
    BY <2>1, <2>2 DEF Posix!ProducerInside, Posix!Go
  <2>3. CASE ppc[g] = "finishing"
    BY <2>1, <2>3 DEF Posix!ProducerInside, Posix!Go
  <2>4. CASE ppc[g] = "checking"
    <3>1. CASE \E i \in DOMAIN sets[g] : sets[g][i]
      BY <2>1, <2>4, <3>1 DEF Posix!ProducerInside, Posix!Go
    <3>2. CASE ~\E i \in DOMAIN sets[g] : sets[g][i]
      BY <1>0, <2>1, <2>4, <3>2 DEF Posix!ProducerInside, Posix!Go
    <3>. QED
      BY <3>1, <3>2
  <2>. QED
    BY <1>0, <2>1, <2>2, <2>3, <2>4
<1>11. \E l \in {"add", "finish", "check", "remove_shm"} : ppc' = [ppc EXCEPT ![g] = l]
  BY <1>10
<1>1. PosixType'
  <2>1. sets' \in [Producers -> Seq(BOOLEAN)]
    <3>1. Append(sets[g], TRUE) \in Seq(BOOLEAN)
      BY <1>0, PutLast
    <3>2. [sets EXCEPT ![g] = Append(sets[g], TRUE)] \in [Producers -> Seq(BOOLEAN)]
      BY <1>0, <3>1, PutAt
    <3>. QED
      BY <1>10, <3>2
  <2>2. value' \in [Producers -> {0, 1}]
    BY <1>10
  <2>. QED
    BY <1>10, <1>11, <2>1, <2>2
<1>2. OpenedInv'
  BY <1>10 DEF OpenedInv
<1>3. LockInv'
  <2>1. /\ UNCHANGED <<shm, sem, cpc, cshm, csem>> /\ value' = [value EXCEPT ![g] = 1]
    BY <1>10
  <2>. QED
    BY <1>0, <1>11, <2>1 DEF LockInv, Has
<1>4. ClaimInv'
  <2>1. CASE ppc' = [ppc EXCEPT ![g] = "add"] /\ sets' = [sets EXCEPT ![g] = Append(sets[g], TRUE)]
    <3>1. SUFFICES ASSUME NEW h \in Producers, Posix!Matched(h)'
                   PROVE  /\ ClaimedOnce(h)' /\ ClaimedGone(h)' /\ GoneClaimed(h)'
                          /\ FoundLeft(h)' /\ AllGone(h)'
      BY DEF ClaimInv
    <3>2. ClaimedOnce(h) /\ ClaimedGone(h) /\ GoneClaimed(h) /\ FoundLeft(h) /\ AllGone(h)
      BY <1>10, <2>1, <3>1 DEF ClaimInv, Posix!Matched
    <3>3. ClaimedOnce(h)'
      BY <1>10, <2>1, <3>2 DEF ClaimedOnce
    <3>4. CASE h # g
      <4>1. sets'[h] = sets[h]
        BY <2>1, <3>4
      <4>2. ClaimedGone(h)' /\ GoneClaimed(h)'
        BY <1>10, <3>2, <4>1 DEF ClaimedGone, GoneClaimed
      <4>3. FoundLeft(h)' /\ AllGone(h)'
        BY <1>10, <2>1, <3>2, <3>4, <4>1 DEF FoundLeft, AllGone
      <4>. QED
        BY <3>3, <4>2, <4>3
    <3>5. CASE h = g
      <4>1. sets'[g] = Append(sets[g], TRUE)
        BY <2>1
      <4>2. /\ Len(sets'[g]) = Len(sets[g]) + 1 /\ sets'[g][Len(sets[g]) + 1] = TRUE
            /\ \A i \in 1 .. Len(sets[g]) : sets'[g][i] = sets[g][i]
        BY <1>0, <4>1, PutLast
      <4>3. /\ \A i \in 1 .. Len(sets'[g]) : i \in 1 .. Len(sets[g]) \/ i = Len(sets[g]) + 1
            /\ 1 .. Len(sets[g]) \subseteq 1 .. Len(sets'[g])
        BY <1>0, <4>2
      <4>4. ClaimedGone(g)'
        BY <1>10, <2>1, <3>2, <3>5, <4>2, <4>3 DEF ClaimedGone
      <4>5. GoneClaimed(g)'
        BY <1>10, <2>1, <3>2, <3>5, <4>2, <4>3 DEF GoneClaimed
      <4>6. FoundLeft(g)'
        BY <1>10, <2>1, <3>2, <3>5, <4>2, <4>3 DEF FoundLeft
      <4>. QED
        BY <1>10, <2>1, <3>3, <3>5, <4>4, <4>5, <4>6 DEF AllGone
    <3>. QED
      BY <3>4, <3>5
  <2>2. CASE sets' = sets /\ \E l \in {"finish", "check"} : ppc' = [ppc EXCEPT ![g] = l]
    BY <1>10, <2>2, ClaimsQuiet DEF Posix!Matched
  <2>3. CASE /\ ppc' = [ppc EXCEPT ![g] = "remove_shm"] /\ sets' = sets
             /\ \A i \in 1 .. Len(sets[g]) : ~sets[g][i]
    <3>1. SUFFICES ASSUME NEW h \in Producers, Posix!Matched(h)'
                   PROVE  /\ ClaimedOnce(h)' /\ ClaimedGone(h)' /\ GoneClaimed(h)'
                          /\ FoundLeft(h)' /\ AllGone(h)'
      BY DEF ClaimInv
    <3>2. ClaimedOnce(h) /\ ClaimedGone(h) /\ GoneClaimed(h) /\ FoundLeft(h) /\ AllGone(h)
      BY <1>10, <2>3, <3>1 DEF ClaimInv, Posix!Matched
    <3>3. ClaimedOnce(h)' /\ ClaimedGone(h)' /\ GoneClaimed(h)' /\ FoundLeft(h)'
      BY <1>10, <2>3, <3>2 DEF ClaimedOnce, ClaimedGone, GoneClaimed, FoundLeft
    <3>4. AllGone(h)'
      BY <1>0, <1>10, <2>3, <3>2 DEF AllGone
    <3>. QED
      BY <3>3, <3>4
  <2>. QED
    BY <1>10, <2>1, <2>2, <2>3
<1>5. NamesInv'
  BY <1>0, <1>10, <1>11 DEF NamesInv
<1>. QED
  BY <1>1, <1>2, <1>3, <1>4, <1>5

LEMMA ActStep ==
  ASSUME PosixInv, NEW c \in Consumers, Posix!Act(c)
  PROVE  PosixInv'
<1>. USE ConcurrentAssumption, PosixLabels
     DEF PosixInv, PosixType, Making, Holding, Ending, Works
<1>. DEFINE g == cshm[c]
            n == found[c]
<1>0. /\ UNCHANGED <<ppc, shm, sem, cshm, csem, found, clash>> /\ cpc[c] = "act"
      /\ value' = [value EXCEPT ![csem[c]] = @ + 1]
      /\ \/ /\ n > 0 /\ sets' = [sets EXCEPT ![g][n] = FALSE]
            /\ claims' = claims \union {<<g, n, c>>} /\ cpc' = [cpc EXCEPT ![c] = "wait"]
         \/ /\ n = 0 /\ UNCHANGED <<sets, claims>>
            /\ cpc' \in {[cpc EXCEPT ![c] = "done"], [cpc EXCEPT ![c] = "wait"]}
  BY DEF Posix!Act, Posix!At, Posix!names
<1>1. /\ g \in Producers /\ csem[c] \in Producers /\ n \in Nat /\ Has(c, csem[c])
  BY <1>0 DEF OpenedInv, Has
<1>10. value[csem[c]] = 0 /\ cpc'[c] \in {"done", "wait"}
  <2>1. value[csem[c]] = 0
    BY <1>1 DEF LockInv
  <2>2. cpc'[c] \in {"done", "wait"}
    BY <1>0
  <2>. QED
    BY <2>1, <2>2
<1>11. sets[g] \in Seq(BOOLEAN) /\ Len(sets[g]) \in Nat /\ DOMAIN sets[g] = 1 .. Len(sets[g])
  BY <1>1, LenProperties
<1>. HIDE DEF g, n
<1>. DEFINE cleared == [sets[g] EXCEPT ![n] = FALSE]
<1>2. /\ cleared \in Seq(BOOLEAN) /\ Len(cleared) = Len(sets[g])
      /\ \A i \in 1 .. Len(sets[g]) : cleared[i] = IF i = n THEN FALSE ELSE sets[g][i]
  <2>1. FALSE \in BOOLEAN
    OBVIOUS
  <2>. QED
    BY <1>11, <2>1, SetOne, Zenon
<1>3. n > 0 => sets' = [sets EXCEPT ![g] = cleared]
  BY <1>0 DEF g, n
<1>4. sets' \in [Producers -> Seq(BOOLEAN)]
  <2>1. g \in Producers => [sets EXCEPT ![g] = cleared] \in [Producers -> Seq(BOOLEAN)]
    BY <1>1, <1>2, PutAt
  <2>. QED
    BY <1>0, <1>1, <1>10, <1>3, <2>1 DEF n
<1>. HIDE DEF cleared
<1>5. PosixType'
  <2>1. claims' \subseteq Producers \X Nat \X Consumers
    BY <1>0, <1>1
  <2>2. value' \in [Producers -> {0, 1}]
    BY <1>0, <1>1, <1>10
  <2>. QED
    BY <1>0, <1>4, <2>1, <2>2
<1>6. OpenedInv'
  BY <1>0, <1>1, <1>10 DEF OpenedInv
<1>7. LockInv'
  BY <1>0, <1>1, <1>10 DEF LockInv, Has
<1>8. ClaimInv'
  <2>1. CASE n = 0
    BY <1>0, <1>1, <1>10, <2>1, ClaimsQuiet DEF n, Posix!Matched
  <2>2. CASE n > 0
    <3>1. SUFFICES ASSUME NEW h \in Producers, Posix!Matched(h)'
                   PROVE  /\ ClaimedOnce(h)' /\ ClaimedGone(h)' /\ GoneClaimed(h)'
                          /\ FoundLeft(h)' /\ AllGone(h)'
      BY DEF ClaimInv
    <3>2. /\ Posix!Matched(h) /\ ClaimedOnce(h) /\ ClaimedGone(h) /\ GoneClaimed(h)
          /\ FoundLeft(h) /\ AllGone(h)
      BY <1>0, <3>1 DEF ClaimInv, Posix!Matched
    <3>3. claims' = claims \union {<<g, n, c>>}
      BY <1>0, <2>2
    <3>4. CASE h # g
      <4>1. sets'[h] = sets[h] /\ \A x \in claims' : x[1] = h => x \in claims
        BY <1>1, <1>3, <2>2, <3>3, <3>4
      <4>2. ClaimedOnce(h)' /\ ClaimedGone(h)'
        BY <3>2, <4>1 DEF ClaimedOnce, ClaimedGone
      <4>3. GoneClaimed(h)'
        BY <3>2, <3>3, <4>1 DEF GoneClaimed
      <4>4. FoundLeft(h)' /\ AllGone(h)'
        BY <1>0, <1>1, <1>10, <3>2, <4>1 DEF FoundLeft, AllGone
      <4>. QED
        BY <4>2, <4>3, <4>4
    <3>5. CASE h = g
      <4>1. n \in 1 .. Len(sets[g]) /\ sets[g][n]
        BY <1>0, <2>2, <3>2, <3>5 DEF FoundLeft, g, n
      <4>2. /\ Len(sets'[g]) = Len(sets[g]) /\ n \in 1 .. Len(sets[g]) /\ ~sets'[g][n]
            /\ \A i \in 1 .. Len(sets[g]) : i # n => sets'[g][i] = sets[g][i]
        BY <1>1, <1>11, <1>2, <1>3, <2>2, <4>1
      <4>3. \A x \in claims : x[1] = g => x[2] # n
        BY <3>2, <3>5, <4>1 DEF ClaimedGone
      <4>4. ClaimedOnce(h)'
        <5>1. \A x \in claims' : x[1] = g /\ x[2] = n => x = <<g, n, c>>
          BY <3>3, <4>3
        <5>2. \A x \in claims' : x \in claims \/ (x[1] = g /\ x[2] = n)
          BY <3>3
        <5>. QED
          BY <3>2, <3>5, <4>3, <5>1, <5>2 DEF ClaimedOnce
      <4>5. ClaimedGone(h)'
        <5>1. SUFFICES ASSUME NEW x \in claims', x[1] = g
                       PROVE  x[2] \in 1 .. Len(sets'[g]) /\ ~sets'[g][x[2]]
          BY <3>5 DEF ClaimedGone
        <5>2. CASE x[2] = n
          BY <4>2, <5>2
        <5>3. CASE x[2] # n
          <6>1. x \in claims
            BY <3>3, <5>1, <5>3
          <6>2. x[2] \in 1 .. Len(sets[g]) /\ ~sets[g][x[2]]
            BY <3>2, <3>5, <5>1, <6>1 DEF ClaimedGone
          <6>. QED
            BY <4>2, <5>3, <6>2
        <5>. QED
          BY <5>2, <5>3
      <4>6. GoneClaimed(h)'
        <5>1. <<g, n, c>> \in claims' /\ <<g, n, c>>[1] = g /\ <<g, n, c>>[2] = n
          BY <3>3
        <5>2. \A i \in 1 .. Len(sets[g]) : i # n /\ ~sets'[g][i] =>
                 \E x \in claims : x[1] = g /\ x[2] = i
          BY <3>2, <3>5, <4>2 DEF GoneClaimed
        <5>. QED
          BY <3>3, <3>5, <4>2, <5>1, <5>2 DEF GoneClaimed
      <4>7. csem[c] = g /\ \A d \in Consumers : cshm[d] = g => cpc'[d] # "act"
        BY <1>0, <1>1, <1>10, <3>2, <3>5 DEF Posix!Matched, LockInv, Has, OpenedInv, g
      <4>8. FoundLeft(h)'
        BY <1>0, <3>5, <4>7 DEF FoundLeft
      <4>9. AllGone(h)'
        BY <1>0, <3>2, <3>5, <4>1 DEF AllGone
      <4>. QED
        BY <3>5, <4>4, <4>5, <4>6, <4>8, <4>9
    <3>. QED
      BY <3>4, <3>5
  <2>. QED
    BY <1>1, <2>1, <2>2
<1>9. NamesInv'
  BY <1>0 DEF NamesInv
<1>. QED
  BY <1>5, <1>6, <1>7, <1>8, <1>9

LEMMA PosixInit == Init => PosixInv
<1>. SUFFICES ASSUME Posix!Init PROVE PosixInv
  BY DEF Init
<1>. USE ConcurrentAssumption, PosixLabels DEF Posix!Init, Making, Works, Ending, Holding
<1>1. PosixType
  BY EmptySeq DEF PosixType
<1>2. OpenedInv /\ NamesInv
  BY DEF OpenedInv, NamesInv
<1>3. LockInv
  BY DEF LockInv, Has
<1>4. ClaimInv
  BY EmptySeq DEF ClaimInv, ClaimedOnce, ClaimedGone, GoneClaimed, FoundLeft, AllGone
<1>. QED
  BY <1>1, <1>2, <1>3, <1>4 DEF PosixInv

LEMMA PosixNext ==
  ASSUME PosixInv, [Next]_vars
  PROVE  PosixInv'
<1>1. CASE Posix!Next
  <2>1. ASSUME NEW g \in Producers, Posix!Producer(g)
        PROVE  PosixInv'
    BY <2>1, RemoveObjectsStep, CreateShmStep, SizeShmStep, CreateSemStep, ProducerWaitStep,
       ProducerInsideStep, ProducerEndStep, KillProducerStep DEF Posix!Producer
  <2>2. ASSUME NEW c \in Consumers, Posix!Consumer(c)
        PROVE  PosixInv'
    BY <2>2, OpenShmStep, OpenSemStep, ConsumerWaitStep, LookStep, ActStep, KillConsumerStep
       DEF Posix!Consumer
  <2>. QED
    BY <1>1, <2>1, <2>2 DEF Posix!Next
<1>2. CASE UNCHANGED psVars
  <2>. USE <1>2 DEF PosixInv, psVars
  <2>1. PosixType' /\ OpenedInv' /\ NamesInv'
    BY DEF PosixType, OpenedInv, NamesInv
  <2>2. LockInv'
    BY DEF LockInv, Has
  <2>3. ClaimInv'
    BY ClaimsQuiet DEF Posix!Matched
  <2>. QED
    BY <2>1, <2>2, <2>3
<1>. QED
  BY <1>1, <1>2 DEF Next, vars

LEMMA PosixSafe == Spec => []PosixInv
<1>1. PosixInv /\ [Next]_vars => PosixInv'
  BY PosixNext
<1>. QED
  BY PosixInit, <1>1, PTL DEF Spec

\* However producers and consumers of module1/task5 start, clash and are killed: as
\* long as the consumers that have a segment open use the semaphore of its producer,
\* each set is claimed by one consumer, and the producer leaves when all are claimed.
THEOREM EachSetByOne == Spec => []ClaimedByOne
<1>1. ASSUME PosixInv PROVE ClaimedByOne
  <2>1. SUFFICES ASSUME NEW g \in Producers, Posix!Matched(g)
                 PROVE  /\ \A x, y \in claims : x[1] = g /\ y[1] = g /\ x[2] = y[2] => x = y
                        /\ ppc[g] \in {"remove_shm", "remove_sem", "done"} =>
                             \A i \in DOMAIN sets[g] : \E x \in claims : x[1] = g /\ x[2] = i
    BY DEF ClaimedByOne, Posix!ClaimedByOne
  <2>2. ClaimedOnce(g) /\ GoneClaimed(g) /\ AllGone(g)
    BY <1>1, <2>1 DEF PosixInv, ClaimInv
  <2>3. DOMAIN sets[g] = 1 .. Len(sets[g])
    BY <1>1, LenProperties DEF PosixInv, PosixType
  <2>. QED
    BY <2>2, <2>3 DEF ClaimedOnce, GoneClaimed, AllGone, Ending
<1>. QED
  BY <1>1, PosixSafe, PTL

\* Unless two producers of module1/task5 were at work at once, the names lead to the
\* segment and the semaphore of the one that fills its list or waits for it.
THEOREM ProducerIsFound == Spec => []ProducerFound
<1>1. ASSUME PosixInv PROVE ProducerFound
  <2>1. Posix!Range(Posix!Inside) = {"adding", "finishing", "checking"}
    BY PosixLabels DEF Posix!Range
  <2>. QED
    BY <1>1, <2>1, PosixLabels DEF PosixInv, NamesInv, ProducerFound, Posix!ProducerFound, Works
<1>. QED
  BY <1>1, PosixSafe, PTL

-----------------------------------------------------------------------------
(* Turns *)

\* A parent until its child waits for it, while the data are its own, and a child
\* at the data.
Starting  == {"semaphores", "second"}
ParentsTurn == {"fork", "signal", "fill", "post", "print"}
AtData == {"read", "store", "post"}

TurnData == [set : Nat \X Nat, result : Nat \X Nat, processed_sets : Nat]

TurnType ==
    /\ api \in {"sysv", "posix"}
    /\ tnParent \in [TurnRuns -> {"new", "wait", "killed", "exited"} \union Starting \union ParentsTurn]
    /\ tnChild \in [TurnRuns -> {"none", "wait", "killed", "left"} \union AtData]
    /\ tnSets \in [TurnRuns -> Nat]
    /\ seg \in [TurnRuns -> TurnRuns \union {0}]
    /\ semC \in [TurnRuns -> TurnRuns \union {0}] /\ semP \in [TurnRuns -> TurnRuns \union {0}]
    /\ tnShm \in TurnRuns \union {0} /\ child \in TurnRuns \union {0} /\ parent \in TurnRuns \union {0}
    /\ mem \in [TurnRuns -> TurnData] /\ tnShown \in [TurnRuns -> TurnData]
    /\ valC \in [TurnRuns -> Nat] /\ valP \in [TurnRuns -> Nat]
    /\ min_max \in [TurnRuns -> Nat \X Nat]
    /\ disturbed \subseteq TurnRuns

\* What a run has opened when.
OpenInv ==
    \A r \in TurnRuns :
        /\ tnParent[r] # "new" => seg[r] # 0
        /\ tnParent[r] = "second" => semC[r] # 0
        /\ tnParent[r] \in ParentsTurn \union {"wait"} \/ tnChild[r] # "none" =>
             semC[r] # 0 /\ semP[r] # 0
        /\ tnParent[r] \in {"new", "fork"} \union Starting => tnChild[r] = "none"
        /\ tnParent[r] = "exited" => ~Turn!ChildUp(r)

\* A name stands for what its maker still uses; the semaphores of task10 are the
\* run's own and start at 0.
NamedInv ==
    \A r \in TurnRuns :
        /\ tnShm = r => seg[r] = r
        /\ tnParent[r] = "exited" => r \notin {tnShm, child, parent}
        /\ api = "sysv" =>
             /\ child = 0 /\ parent = 0
             /\ semC[r] \in {0, r} /\ semP[r] \in {0, r} /\ tnParent[r] # "second"
             /\ tnParent[r] \in {"new", "semaphores"} => valC[r] = 0 /\ valP[r] = 0

Active(r) == Turn!ParentUp(r) \/ Turn!ChildUp(r)

\* A run that has not met another is alone with its objects.
AloneInv ==
    \A r \in TurnRuns \ disturbed : Active(r) =>
        \A q \in TurnRuns \ {r} : ~Active(q)

\* Whose turn it is: the semaphores of a run and its child at the data, of which at
\* most one is set.
OneTurn(c, p, d) ==
    \/ c = 0 /\ p = 0
    \/ c = 1 /\ p = 0 /\ ~d
    \/ c = 0 /\ p = 1 /\ ~d

\* A set that waits for its result, and one that has it.
Pending(m, r, n) == m.set = <<r, n>> /\ m.processed_sets + 1 = n
Settled(m, n) == m.result = m.set /\ m.processed_sets = n /\ m.set[2] = n

TurnOf(r) ==
    LET m == mem[seg[r]]
        c == valC[semC[r]]
        p == valP[semP[r]]
        d == tnChild[r] \in AtData
        n == tnSets[r]
    IN /\ OneTurn(c, p, d)
       /\ tnParent[r] \in ParentsTurn => c = 0 /\ p = 0 /\ ~d
       /\ tnParent[r] = "post" \/ c = 1 \/ tnChild[r] \in {"read", "store"} => Pending(m, r, n)
       /\ tnParent[r] \in ParentsTurn \ {"post"} \/ p = 1 \/ tnChild[r] = "post" => Settled(m, n)
       /\ tnChild[r] = "store" => min_max[r] = m.set

RunInv(r) ==
    /\ tnParent[r] \in Starting => Settled(mem[seg[r]], 0) /\ tnSets[r] = 0
    /\ tnParent[r] = "new" => tnSets[r] = 0
    /\ tnParent[r] = "second" => valC[semC[r]] = 0
    /\ tnParent[r] \in ParentsTurn \union {"wait"} \/ Turn!ChildUp(r) => TurnOf(r)
    /\ tnChild[r] # "left"
    /\ Settled(tnShown[r], tnShown[r].processed_sets)

TurnInv == \A r \in TurnRuns \ disturbed : RunInv(r)

TurnsInv == TurnType /\ OpenInv /\ NamedInv /\ AloneInv /\ TurnInv

\* What belongs to run r stays as it is.
Kept(r) ==
    /\ tnParent'[r] = tnParent[r] /\ tnChild'[r] = tnChild[r] /\ tnSets'[r] = tnSets[r]
    /\ tnShown'[r] = tnShown[r]

\* A step of a run that is up cannot disturb another that has not met it.
LEMMA OwnStep ==
  ASSUME TurnsInv, NEW q \in TurnRuns, Active(q), disturbed \subseteq disturbed',
         \A r \in TurnRuns \ {q} : Kept(r),
         TurnType', OpenInv', NamedInv', q \notin disturbed' => RunInv(q)'
  PROVE  TurnsInv'
<1>1. \A r \in TurnRuns \ {q} : Active(r)' <=> Active(r)
  BY DEF Kept, Active, Turn!ParentUp, Turn!ChildUp
<1>2. \A r \in TurnRuns \ disturbed' : r # q => ~Active(r)
  BY DEF TurnsInv, AloneInv
<1>3. AloneInv'
  BY <1>1, <1>2 DEF TurnsInv, AloneInv
<1>4. ASSUME NEW r \in TurnRuns \ disturbed', r # q
      PROVE  RunInv(r)'
  <2>1. RunInv(r) /\ Kept(r) /\ ~Active(r) /\ ~Active(r)'
    BY <1>1, <1>2, <1>4 DEF TurnsInv, TurnInv
  <2>2. /\ tnParent'[r] \notin Starting \union ParentsTurn \union {"wait"}
        /\ ~Turn!ChildUp(r)'
    BY <2>1 DEF Active, Turn!ParentUp, Turn!ChildUp, Starting, ParentsTurn, TurnsInv, TurnType
  <2>. QED
    BY <2>1, <2>2 DEF RunInv, Kept, Settled, Starting
<1>. QED
  BY <1>3, <1>4 DEF TurnsInv, TurnInv

\* The first step of a run: nobody else is up, or both have met.
LEMMA AttachStep ==
  ASSUME TurnsInv, NEW q \in TurnRuns, Turn!Attach(q)
  PROVE  TurnsInv'
<1>. DEFINE id == IF tnShm = 0 THEN q ELSE tnShm
<1>0. /\ q \in Nat /\ q # 0 /\ id \in TurnRuns /\ tnParent[q] = "new"
      /\ \A r \in TurnRuns : ~Turn!ParentUp(r)
  BY ConcurrentAssumption DEF TurnsInv, TurnType, Turn!Attach
<1>1. /\ tnParent' = [tnParent EXCEPT ![q] = "semaphores"]
      /\ tnShm' = id /\ seg' = [seg EXCEPT ![q] = id]
      /\ mem' = [mem EXCEPT ![id] = Turn!Blank]
      /\ disturbed \subseteq disturbed'
      /\ \A r \in TurnRuns : Turn!ChildUp(r) => {r, q} \subseteq disturbed'
      /\ disturbed' \subseteq TurnRuns
      /\ UNCHANGED <<api, tnChild, tnSets, semC, semP, child, parent, valC, valP, min_max, tnShown>>
  BY DEF Turn!Attach, Turn!Go, TurnsInv, TurnType
<1>2. Turn!Blank \in TurnData /\ Settled(Turn!Blank, 0)
  BY DEF Turn!Blank, Turn!NONE, TurnData, Settled
<1>3. TurnType'
  BY <1>0, <1>1, <1>2 DEF TurnsInv, TurnType, Starting
<1>4. OpenInv'
  BY <1>0, <1>1 DEF TurnsInv, TurnType, OpenInv, Starting, ParentsTurn, Turn!ChildUp
<1>5. NamedInv'
  BY <1>0, <1>1 DEF TurnsInv, TurnType, NamedInv
<1>6. \A r \in TurnRuns : Turn!ChildUp(r)' <=> Turn!ChildUp(r)
  BY <1>1 DEF Turn!ChildUp
<1>7. \A r \in TurnRuns \ disturbed' : Active(r)' => r = q
  BY <1>0, <1>1, <1>6 DEF Active, Turn!ParentUp, TurnsInv, TurnType
<1>8. AloneInv'
  <2>1. ASSUME NEW r \in TurnRuns \ disturbed', Active(r)', NEW p \in TurnRuns \ {r}
        PROVE  ~Active(p)'
    <3>1. r = q
      BY <1>7, <2>1
    <3>2. ~Turn!ChildUp(p)' /\ ~Turn!ParentUp(p)'
      BY <1>0, <1>1, <1>6, <2>1, <3>1 DEF Turn!ParentUp, TurnsInv, TurnType
    <3>. QED
      BY <3>2 DEF Active
  <2>. QED
    BY <2>1 DEF AloneInv
<1>9. ASSUME NEW r \in TurnRuns \ disturbed'
      PROVE  RunInv(r)'
  <2>1. RunInv(r) /\ ~Turn!ChildUp(r)'
    BY <1>1, <1>6, <1>9 DEF TurnsInv, TurnInv
  <2>2. CASE r = q
    <3>1. mem'[seg'[q]] = Turn!Blank
      BY <1>0, <1>1 DEF TurnsInv, TurnType
    <3>2. tnParent'[q] = "semaphores"
      BY <1>0, <1>1 DEF TurnsInv, TurnType
    <3>. QED
      BY <1>0, <1>1, <1>2, <2>1, <2>2, <3>1, <3>2 DEF RunInv, Starting, ParentsTurn, Settled
  <2>3. CASE r # q
    <3>1. tnParent'[r] = tnParent[r] /\ ~Turn!ParentUp(r)
      BY <1>0, <1>1, <2>3 DEF TurnsInv, TurnType
    <3>2. tnParent'[r] \notin Starting \union ParentsTurn \union {"wait"}
      BY <3>1 DEF Turn!ParentUp, Starting, ParentsTurn, TurnsInv, TurnType
    <3>. QED
      BY <1>1, <2>1, <3>1, <3>2 DEF RunInv, Settled, Starting
  <2>. QED
    BY <2>2, <2>3
<1>. QED
  BY <1>3, <1>4, <1>5, <1>8, <1>9 DEF TurnsInv, TurnInv

\* The private semaphores of task10 are new.
LEMMA SysvSemaphoresStep ==
  ASSUME TurnsInv, NEW q \in TurnRuns, Turn!create_semaphores(q)
  PROVE  TurnsInv'
<1>. USE ConcurrentAssumption DEF Turn!create_semaphores, Turn!Go, Turn!At, Turn!objects,
       Turn!tnNames
<1>0. Active(q)
  BY DEF Active, Turn!ParentUp, Turn!ChildUp
<1>1. /\ disturbed \subseteq disturbed'
      /\ \A r \in TurnRuns \ {q} : Kept(r)
  BY DEF Kept, TurnsInv, TurnType
<1>2. seg[q] \in TurnRuns /\ api = "sysv"
  BY DEF TurnsInv, TurnType, OpenInv, ParentsTurn, Starting, AtData
<1>3. TurnType'
  BY <1>2 DEF TurnsInv, TurnType, TurnData, ParentsTurn, Starting, AtData
<1>4. OpenInv'
  BY <1>2 DEF TurnsInv, TurnType, OpenInv, ParentsTurn, Starting, Turn!ChildUp
<1>5. NamedInv'
  BY <1>2 DEF TurnsInv, TurnType, OpenInv, NamedInv, ParentsTurn
<1>6. ASSUME q \notin disturbed' PROVE RunInv(q)'
  <2>1. RunInv(q)
    BY <1>1, <1>6 DEF TurnsInv, TurnInv
  <2>. QED
    BY <1>2, <1>6, <2>1
    DEF TurnsInv, TurnType, TurnData, NamedInv, OpenInv, RunInv, TurnOf, OneTurn, Settled, Pending,
        Turn!ChildUp, ParentsTurn, Starting, AtData
<1>. QED
  BY <1>0, <1>1, <1>3, <1>4, <1>5, <1>6, OwnStep

\* The child starts with nothing to do.
LEMMA ForkStep ==
  ASSUME TurnsInv, NEW q \in TurnRuns, Turn!Fork(q)
  PROVE  TurnsInv'
<1>. USE ConcurrentAssumption DEF Turn!Fork, Turn!Go, Turn!At, Turn!objects, Turn!tnNames
<1>0. Active(q)
  BY DEF Active, Turn!ParentUp, Turn!ChildUp
<1>1. /\ disturbed \subseteq disturbed'
      /\ \A r \in TurnRuns \ {q} : Kept(r)
  BY DEF Kept, TurnsInv, TurnType
<1>2. seg[q] \in TurnRuns /\ semC[q] \in TurnRuns /\ semP[q] \in TurnRuns
  BY DEF TurnsInv, TurnType, OpenInv, ParentsTurn, Starting, AtData
<1>3. TurnType'
  BY <1>2 DEF TurnsInv, TurnType, TurnData, ParentsTurn, Starting, AtData
<1>4. OpenInv'
  BY <1>2 DEF TurnsInv, TurnType, OpenInv, ParentsTurn, Starting, Turn!ChildUp
<1>5. NamedInv'
  BY <1>2 DEF TurnsInv, TurnType, OpenInv, NamedInv, ParentsTurn
<1>6. ASSUME q \notin disturbed' PROVE RunInv(q)'
  <2>1. RunInv(q)
    BY <1>1, <1>6 DEF TurnsInv, TurnInv
  <2>. QED
    BY <1>2, <1>6, <2>1
    DEF TurnsInv, TurnType, TurnData, NamedInv, OpenInv, RunInv, TurnOf, OneTurn, Settled, Pending,
        Turn!ChildUp, ParentsTurn, Starting, AtData
<1>. QED
  BY <1>0, <1>1, <1>3, <1>4, <1>5, <1>6, OwnStep

\* The handler is put in place.
LEMMA InstallStep ==
  ASSUME TurnsInv, NEW q \in TurnRuns, Turn!Install(q)
  PROVE  TurnsInv'
<1>. USE ConcurrentAssumption DEF Turn!Install, Turn!Go, Turn!At, Turn!objects, Turn!tnNames
<1>0. Active(q)
  BY DEF Active, Turn!ParentUp, Turn!ChildUp
<1>1. /\ disturbed \subseteq disturbed'
      /\ \A r \in TurnRuns \ {q} : Kept(r)
  BY DEF Kept, TurnsInv, TurnType
<1>2. seg[q] \in TurnRuns /\ semC[q] \in TurnRuns /\ semP[q] \in TurnRuns
  BY DEF TurnsInv, TurnType, OpenInv, ParentsTurn, Starting, AtData
<1>3. TurnType'
  BY <1>2 DEF TurnsInv, TurnType, TurnData, ParentsTurn, Starting, AtData
<1>4. OpenInv'
  BY <1>2 DEF TurnsInv, TurnType, OpenInv, ParentsTurn, Starting, Turn!ChildUp
<1>5. NamedInv'
  BY <1>2 DEF TurnsInv, TurnType, OpenInv, NamedInv, ParentsTurn
<1>6. ASSUME q \notin disturbed' PROVE RunInv(q)'
  <2>1. RunInv(q)
    BY <1>1, <1>6 DEF TurnsInv, TurnInv
  <2>. QED
    BY <1>2, <1>6, <2>1
    DEF TurnsInv, TurnType, TurnData, NamedInv, OpenInv, RunInv, TurnOf, OneTurn, Settled, Pending,
        Turn!ChildUp, ParentsTurn, Starting, AtData
<1>. QED
  BY <1>0, <1>1, <1>3, <1>4, <1>5, <1>6, OwnStep

\* A set is put where no result is awaited.
LEMMA FillStep ==
  ASSUME TurnsInv, NEW q \in TurnRuns, Turn!Fill(q)
  PROVE  TurnsInv'
<1>. USE ConcurrentAssumption DEF Turn!Fill, Turn!Go, Turn!At, Turn!objects, Turn!tnNames
<1>0. Active(q)
  BY DEF Active, Turn!ParentUp, Turn!ChildUp
<1>1. /\ disturbed \subseteq disturbed'
      /\ \A r \in TurnRuns \ {q} : Kept(r)
  BY DEF Kept, TurnsInv, TurnType
<1>2. seg[q] \in TurnRuns /\ semC[q] \in TurnRuns /\ semP[q] \in TurnRuns
  BY DEF TurnsInv, TurnType, OpenInv, ParentsTurn, Starting, AtData
<1>3. TurnType'
  <2>1. <<q, tnSets'[q]>> \in Nat \X Nat /\ tnSets' \in [TurnRuns -> Nat]
    BY DEF TurnsInv, TurnType
  <2>2. mem' \in [TurnRuns -> TurnData]
    <3>1. mem[seg[q]] \in TurnData
      BY <1>2 DEF TurnsInv, TurnType
    <3>2. [mem[seg[q]] EXCEPT !.set = <<q, tnSets'[q]>>] \in TurnData
      BY <2>1, <3>1 DEF TurnData
    <3>3. mem' = [mem EXCEPT ![seg[q]] = [mem[seg[q]] EXCEPT !.set = <<q, tnSets'[q]>>]]
      OBVIOUS
    <3>. QED
      BY <1>2, <3>2, <3>3, PutAt DEF TurnsInv, TurnType
  <2>. QED
    BY <2>2, <2>1 DEF TurnsInv, TurnType, ParentsTurn, Starting, AtData
<1>4. OpenInv'
  BY <1>2 DEF TurnsInv, TurnType, OpenInv, ParentsTurn, Starting, Turn!ChildUp
<1>5. NamedInv'
  BY <1>2 DEF TurnsInv, TurnType, OpenInv, NamedInv, ParentsTurn
<1>6. ASSUME q \notin disturbed' PROVE RunInv(q)'
  <2>1. RunInv(q)
    BY <1>1, <1>6 DEF TurnsInv, TurnInv
  <2>. QED
    BY <1>2, <1>6, <2>1
    DEF TurnsInv, TurnType, TurnData, NamedInv, OpenInv, RunInv, TurnOf, OneTurn, Settled, Pending,
        Turn!ChildUp, ParentsTurn, Starting, AtData
<1>. QED
  BY <1>0, <1>1, <1>3, <1>4, <1>5, <1>6, OwnStep

\* The turn goes to the child.
LEMMA ParentPostStep ==
  ASSUME TurnsInv, NEW q \in TurnRuns, Turn!ParentPost(q)
  PROVE  TurnsInv'
<1>. USE ConcurrentAssumption DEF Turn!ParentPost, Turn!Go, Turn!At, Turn!objects, Turn!tnNames
<1>0. Active(q)
  BY DEF Active, Turn!ParentUp, Turn!ChildUp
<1>1. /\ disturbed \subseteq disturbed'
      /\ \A r \in TurnRuns \ {q} : Kept(r)
  BY DEF Kept, TurnsInv, TurnType
<1>2. seg[q] \in TurnRuns /\ semC[q] \in TurnRuns /\ semP[q] \in TurnRuns
  BY DEF TurnsInv, TurnType, OpenInv, ParentsTurn, Starting, AtData
<1>3. TurnType'
  <2>2. valC' \in [TurnRuns -> Nat]
    <3>0. valC[semC[q]] \in Nat
      BY <1>2 DEF TurnsInv, TurnType
    <3>1. valC[semC[q]] + 1 \in Nat
      BY <3>0, OneMore
    <3>. QED
      BY <1>2, <3>1, PutAt DEF TurnsInv, TurnType
  <2>. QED
    BY <2>2 DEF TurnsInv, TurnType, ParentsTurn, Starting, AtData
<1>4. OpenInv'
  BY <1>2 DEF TurnsInv, TurnType, OpenInv, ParentsTurn, Starting, Turn!ChildUp
<1>5. NamedInv'
  BY <1>2 DEF TurnsInv, TurnType, OpenInv, NamedInv, ParentsTurn
<1>6. ASSUME q \notin disturbed' PROVE RunInv(q)'
  <2>1. RunInv(q)
    BY <1>1, <1>6 DEF TurnsInv, TurnInv
  <2>. QED
    BY <1>2, <1>6, <2>1
    DEF TurnsInv, TurnType, TurnData, NamedInv, OpenInv, RunInv, TurnOf, OneTurn, Settled, Pending,
        Turn!ChildUp, ParentsTurn, Starting, AtData
<1>. QED
  BY <1>0, <1>1, <1>3, <1>4, <1>5, <1>6, OwnStep

\* The turn comes back.
LEMMA ParentWaitStep ==
  ASSUME TurnsInv, NEW q \in TurnRuns, Turn!ParentWait(q)
  PROVE  TurnsInv'
<1>. USE ConcurrentAssumption DEF Turn!ParentWait, Turn!Go, Turn!At, Turn!objects, Turn!tnNames,
       Turn!Continued
<1>0. Active(q)
  BY DEF Active, Turn!ParentUp, Turn!ChildUp
<1>1. /\ disturbed \subseteq disturbed'
      /\ \A r \in TurnRuns \ {q} : Kept(r)
  BY DEF Kept, TurnsInv, TurnType
<1>2. seg[q] \in TurnRuns /\ semC[q] \in TurnRuns /\ semP[q] \in TurnRuns
  BY DEF TurnsInv, TurnType, OpenInv, ParentsTurn, Starting, AtData
<1>3. TurnType'
  <2>2. valP' \in [TurnRuns -> Nat] /\ disturbed' \subseteq TurnRuns
    <3>0. valP[semP[q]] \in Nat
      BY <1>2 DEF TurnsInv, TurnType
    <3>1. valP[semP[q]] > 0 => valP[semP[q]] - 1 \in Nat
      BY <3>0, OneMore
    <3>2. valP' \in [TurnRuns -> Nat]
      BY <1>2, <3>1, PutAt DEF TurnsInv, TurnType
    <3>. QED
      BY <3>2 DEF TurnsInv, TurnType
  <2>. QED
    BY <2>2 DEF TurnsInv, TurnType, ParentsTurn, Starting, AtData
<1>4. OpenInv'
  BY <1>2 DEF TurnsInv, TurnType, OpenInv, ParentsTurn, Starting, Turn!ChildUp
<1>5. NamedInv'
  BY <1>2 DEF TurnsInv, TurnType, OpenInv, NamedInv, ParentsTurn
<1>6. ASSUME q \notin disturbed' PROVE RunInv(q)'
  <2>1. RunInv(q)
    BY <1>1, <1>6 DEF TurnsInv, TurnInv
  <2>. QED
    BY <1>2, <1>6, <2>1
    DEF TurnsInv, TurnType, TurnData, NamedInv, OpenInv, RunInv, TurnOf, OneTurn, Settled, Pending,
        Turn!ChildUp, ParentsTurn, Starting, AtData
<1>. QED
  BY <1>0, <1>1, <1>3, <1>4, <1>5, <1>6, OwnStep

\* What is printed is settled.
LEMMA ShowStep ==
  ASSUME TurnsInv, NEW q \in TurnRuns, Turn!Show(q)
  PROVE  TurnsInv'
<1>. USE ConcurrentAssumption DEF Turn!Show, Turn!Go, Turn!At, Turn!objects, Turn!tnNames
<1>0. Active(q)
  BY DEF Active, Turn!ParentUp, Turn!ChildUp
<1>1. /\ disturbed \subseteq disturbed'
      /\ \A r \in TurnRuns \ {q} : Kept(r)
  BY DEF Kept, TurnsInv, TurnType
<1>2. seg[q] \in TurnRuns /\ semC[q] \in TurnRuns /\ semP[q] \in TurnRuns
  BY DEF TurnsInv, TurnType, OpenInv, ParentsTurn, Starting, AtData
<1>3. TurnType'
  BY <1>2 DEF TurnsInv, TurnType, TurnData, ParentsTurn, Starting, AtData
<1>4. OpenInv'
  BY <1>2 DEF TurnsInv, TurnType, OpenInv, ParentsTurn, Starting, Turn!ChildUp
<1>5. NamedInv'
  BY <1>2 DEF TurnsInv, TurnType, OpenInv, NamedInv, ParentsTurn
<1>6. ASSUME q \notin disturbed' PROVE RunInv(q)'
  <2>1. RunInv(q)
    BY <1>1, <1>6 DEF TurnsInv, TurnInv
  <2>. QED
    BY <1>2, <1>6, <2>1
    DEF TurnsInv, TurnType, TurnData, NamedInv, OpenInv, RunInv, TurnOf, OneTurn, Settled, Pending,
        Turn!ChildUp, ParentsTurn, Starting, AtData
<1>. QED
  BY <1>0, <1>1, <1>3, <1>4, <1>5, <1>6, OwnStep

\* The child takes its turn.
LEMMA ChildWaitStep ==
  ASSUME TurnsInv, NEW q \in TurnRuns, Turn!ChildWait(q)
  PROVE  TurnsInv'
<1>. USE ConcurrentAssumption DEF Turn!ChildWait, Turn!Go, Turn!At, Turn!objects, Turn!tnNames,
       Turn!Continued
<1>0. Active(q)
  BY DEF Active, Turn!ParentUp, Turn!ChildUp
<1>1. /\ disturbed \subseteq disturbed'
      /\ \A r \in TurnRuns \ {q} : Kept(r)
  BY DEF Kept, TurnsInv, TurnType
<1>2. seg[q] \in TurnRuns /\ semC[q] \in TurnRuns /\ semP[q] \in TurnRuns
  BY DEF TurnsInv, TurnType, OpenInv, ParentsTurn, Starting, AtData
<1>3. TurnType'
  <2>2. valC' \in [TurnRuns -> Nat] /\ disturbed' \subseteq TurnRuns
    <3>0. valC[semC[q]] \in Nat
      BY <1>2 DEF TurnsInv, TurnType
    <3>1. valC[semC[q]] > 0 => valC[semC[q]] - 1 \in Nat
      BY <3>0, OneMore
    <3>2. valC' \in [TurnRuns -> Nat]
      BY <1>2, <3>1, PutAt DEF TurnsInv, TurnType
    <3>. QED
      BY <3>2 DEF TurnsInv, TurnType
  <2>. QED
    BY <2>2 DEF TurnsInv, TurnType, ParentsTurn, Starting, AtData
<1>4. OpenInv'
  BY <1>2 DEF TurnsInv, TurnType, OpenInv, ParentsTurn, Starting, Turn!ChildUp
<1>5. NamedInv'
  BY <1>2 DEF TurnsInv, TurnType, OpenInv, NamedInv, ParentsTurn
<1>6. ASSUME q \notin disturbed' PROVE RunInv(q)'
  <2>1. RunInv(q)
    BY <1>1, <1>6 DEF TurnsInv, TurnInv
  <2>. QED
    BY <1>2, <1>6, <2>1
    DEF TurnsInv, TurnType, TurnData, NamedInv, OpenInv, RunInv, TurnOf, OneTurn, Settled, Pending,
        Turn!ChildUp, ParentsTurn, Starting, AtData
<1>. QED
  BY <1>0, <1>1, <1>3, <1>4, <1>5, <1>6, OwnStep

\* A run's set is never what memset leaves.
LEMMA ComputeStep ==
  ASSUME TurnsInv, NEW q \in TurnRuns, Turn!Compute(q)
  PROVE  TurnsInv'
<1>. USE ConcurrentAssumption DEF Turn!Compute, Turn!Go, Turn!At, Turn!objects, Turn!tnNames,
       Turn!NONE
<1>0. Active(q)
  BY DEF Active, Turn!ParentUp, Turn!ChildUp
<1>1. /\ disturbed \subseteq disturbed'
      /\ \A r \in TurnRuns \ {q} : Kept(r)
  BY DEF Kept, TurnsInv, TurnType
<1>2. seg[q] \in TurnRuns /\ semC[q] \in TurnRuns /\ semP[q] \in TurnRuns
  BY DEF TurnsInv, TurnType, OpenInv, ParentsTurn, Starting, AtData
<1>3. TurnType'
  <2>1. min_max' \in [TurnRuns -> Nat \X Nat]
    <3>1. mem[seg[q]].set \in Nat \X Nat
      BY <1>2 DEF TurnsInv, TurnType, TurnData
    <3>2. min_max' = [min_max EXCEPT ![q] = mem[seg[q]].set]
      OBVIOUS
    <3>. QED
      BY <3>1, <3>2, PutAt DEF TurnsInv, TurnType
  <2>2. tnChild' \in [TurnRuns -> {"none", "wait", "killed", "left"} \union AtData]
    BY DEF TurnsInv, TurnType, AtData
  <2>. QED
    BY <2>1, <2>2 DEF TurnsInv, TurnType
<1>4. OpenInv'
  BY <1>2 DEF TurnsInv, TurnType, OpenInv, ParentsTurn, Starting, Turn!ChildUp
<1>5. NamedInv'
  BY <1>2 DEF TurnsInv, TurnType, OpenInv, NamedInv, ParentsTurn
<1>6. ASSUME q \notin disturbed' PROVE RunInv(q)'
  <2>1. RunInv(q)
    BY <1>1, <1>6 DEF TurnsInv, TurnInv
  <2>. QED
    BY <1>2, <1>6, <2>1
    DEF TurnsInv, TurnType, TurnData, NamedInv, OpenInv, RunInv, TurnOf, OneTurn, Settled, Pending,
        Turn!ChildUp, ParentsTurn, Starting, AtData
<1>. QED
  BY <1>0, <1>1, <1>3, <1>4, <1>5, <1>6, OwnStep

\* The result is stored with its set.
LEMMA StoreStep ==
  ASSUME TurnsInv, NEW q \in TurnRuns, Turn!Store(q)
  PROVE  TurnsInv'
<1>. USE ConcurrentAssumption DEF Turn!Store, Turn!Go, Turn!At, Turn!objects, Turn!tnNames
<1>0. Active(q)
  BY DEF Active, Turn!ParentUp, Turn!ChildUp
<1>1. /\ disturbed \subseteq disturbed'
      /\ \A r \in TurnRuns \ {q} : Kept(r)
  BY DEF Kept, TurnsInv, TurnType
<1>2. seg[q] \in TurnRuns /\ semC[q] \in TurnRuns /\ semP[q] \in TurnRuns
  BY DEF TurnsInv, TurnType, OpenInv, ParentsTurn, Starting, AtData
<1>3. TurnType'
  <2>2. mem' \in [TurnRuns -> TurnData]
    <3>1. mem[seg[q]] \in TurnData /\ min_max[q] \in Nat \X Nat
      BY <1>2 DEF TurnsInv, TurnType
    <3>2. [mem[seg[q]] EXCEPT !.result = min_max[q], !.processed_sets = @ + 1] \in TurnData
      <4>1. mem[seg[q]].processed_sets + 1 \in Nat
        BY <3>1, OneMore DEF TurnData
      <4>. QED
        BY <3>1, <4>1 DEF TurnData
    <3>3. mem' = [mem EXCEPT ![seg[q]] =
                    [mem[seg[q]] EXCEPT !.result = min_max[q], !.processed_sets = @ + 1]]
      BY <1>2, <3>1 DEF TurnsInv, TurnType, TurnData
    <3>. QED
      BY <1>2, <3>2, <3>3, PutAt DEF TurnsInv, TurnType
  <2>. QED
    BY <2>2 DEF TurnsInv, TurnType, ParentsTurn, Starting, AtData
<1>4. OpenInv'
  BY <1>2 DEF TurnsInv, TurnType, OpenInv, ParentsTurn, Starting, Turn!ChildUp
<1>5. NamedInv'
  BY <1>2 DEF TurnsInv, TurnType, OpenInv, NamedInv, ParentsTurn
<1>6. ASSUME q \notin disturbed' PROVE RunInv(q)'
  <2>1. RunInv(q)
    BY <1>1, <1>6 DEF TurnsInv, TurnInv
  <2>. QED
    BY <1>2, <1>6, <2>1
    DEF TurnsInv, TurnType, TurnData, NamedInv, OpenInv, RunInv, TurnOf, OneTurn, Settled, Pending,
        Turn!ChildUp, ParentsTurn, Starting, AtData
<1>. QED
  BY <1>0, <1>1, <1>3, <1>4, <1>5, <1>6, OwnStep

\* The child gives the turn back.
LEMMA ChildPostStep ==
  ASSUME TurnsInv, NEW q \in TurnRuns, Turn!ChildPost(q)
  PROVE  TurnsInv'
<1>. USE ConcurrentAssumption DEF Turn!ChildPost, Turn!Go, Turn!At, Turn!objects, Turn!tnNames
<1>0. Active(q)
  BY DEF Active, Turn!ParentUp, Turn!ChildUp
<1>1. /\ disturbed \subseteq disturbed'
      /\ \A r \in TurnRuns \ {q} : Kept(r)
  BY DEF Kept, TurnsInv, TurnType
<1>2. seg[q] \in TurnRuns /\ semC[q] \in TurnRuns /\ semP[q] \in TurnRuns
  BY DEF TurnsInv, TurnType, OpenInv, ParentsTurn, Starting, AtData
<1>3. TurnType'
  <2>2. valP' \in [TurnRuns -> Nat]
    <3>0. valP[semP[q]] \in Nat
      BY <1>2 DEF TurnsInv, TurnType
    <3>1. valP[semP[q]] + 1 \in Nat
      BY <3>0, OneMore
    <3>. QED
      BY <1>2, <3>1, PutAt DEF TurnsInv, TurnType
  <2>. QED
    BY <2>2 DEF TurnsInv, TurnType, ParentsTurn, Starting, AtData
<1>4. OpenInv'
  BY <1>2 DEF TurnsInv, TurnType, OpenInv, ParentsTurn, Starting, Turn!ChildUp
<1>5. NamedInv'
  BY <1>2 DEF TurnsInv, TurnType, OpenInv, NamedInv, ParentsTurn
<1>6. ASSUME q \notin disturbed' PROVE RunInv(q)'
  <2>1. RunInv(q)
    BY <1>1, <1>6 DEF TurnsInv, TurnInv
  <2>. QED
    BY <1>2, <1>6, <2>1
    DEF TurnsInv, TurnType, TurnData, NamedInv, OpenInv, RunInv, TurnOf, OneTurn, Settled, Pending,
        Turn!ChildUp, ParentsTurn, Starting, AtData
<1>. QED
  BY <1>0, <1>1, <1>3, <1>4, <1>5, <1>6, OwnStep

\* task11 opens whatever semaphores have the names: a value above 0 is a trace of
\* another run.
LEMMA OpenSemaphoresStep ==
  ASSUME TurnsInv, NEW q \in TurnRuns, Turn!OpenSemaphores(q)
  PROVE  TurnsInv'
<1>. USE ConcurrentAssumption DEF Turn!OpenSemaphores, Turn!Go
<1>0. Active(q)
  BY DEF Active, Turn!ParentUp
<1>1. /\ disturbed \subseteq disturbed'
      /\ \A r \in TurnRuns \ {q} : Kept(r)
  BY DEF Kept, TurnsInv, TurnType
<1>2. /\ seg[q] \in TurnRuns /\ tnChild[q] = "none" /\ api = "posix" /\ q \in Nat \ {0}
      /\ child' \in TurnRuns \union {0} /\ parent' \in TurnRuns \union {0}
  BY DEF TurnsInv, TurnType, OpenInv, Starting
<1>3. TurnType'
  <2>1. /\ semC' \in [TurnRuns -> TurnRuns \union {0}]
        /\ semP' \in [TurnRuns -> TurnRuns \union {0}]
        /\ disturbed' \subseteq TurnRuns
    <3>1. /\ semC' = semC \/ semC' = [semC EXCEPT ![q] = child']
          /\ semP' = semP \/ semP' = [semP EXCEPT ![q] = parent']
      OBVIOUS
    <3>2. disturbed' \subseteq disturbed \union {q}
      OBVIOUS
    <3>3. /\ semC \in [TurnRuns -> TurnRuns \union {0}]
          /\ semP \in [TurnRuns -> TurnRuns \union {0}]
          /\ disturbed \subseteq TurnRuns
      BY DEF TurnsInv, TurnType
    <3>4. /\ [semC EXCEPT ![q] = child'] \in [TurnRuns -> TurnRuns \union {0}]
          /\ [semP EXCEPT ![q] = parent'] \in [TurnRuns -> TurnRuns \union {0}]
      BY <1>2, <3>3, PutAt
    <3>5. semC' \in [TurnRuns -> TurnRuns \union {0}]
      BY <3>1, <3>3, <3>4
    <3>6. semP' \in [TurnRuns -> TurnRuns \union {0}]
      BY <3>1, <3>3, <3>4
    <3>. QED
      BY <3>2, <3>3, <3>5, <3>6
  <2>2. tnParent' \in [TurnRuns -> {"new", "wait", "killed", "exited"} \union Starting \union ParentsTurn]
    BY DEF TurnsInv, TurnType, ParentsTurn, Starting
  <2>. QED
    BY <1>2, <2>1, <2>2 DEF TurnsInv, TurnType
<1>4. OpenInv'
  BY <1>2 DEF TurnsInv, TurnType, OpenInv, ParentsTurn, Starting, Turn!ChildUp
<1>5. NamedInv'
  BY <1>2 DEF TurnsInv, TurnType, OpenInv, NamedInv, ParentsTurn
<1>6. ASSUME q \notin disturbed' PROVE RunInv(q)'
  <2>1. RunInv(q)
    BY <1>1, <1>6 DEF TurnsInv, TurnInv
  <2>2. CASE tnParent[q] = "semaphores"
    <3>1. semC'[q] = child' /\ child' \in TurnRuns /\ tnParent'[q] = "second"
      BY <1>2, <2>2 DEF TurnsInv, TurnType
    <3>2. valC'[semC'[q]] = 0
      BY <1>6, <2>2, <3>1 DEF TurnsInv, TurnType
    <3>. QED
      BY <1>2, <2>1, <2>2, <3>1, <3>2
      DEF RunInv, Settled, Turn!ChildUp, ParentsTurn, Starting
  <2>3. CASE tnParent[q] = "second"
    <3>1. /\ semP'[q] = parent' /\ parent' \in TurnRuns /\ tnParent'[q] = "fork"
          /\ semC' = semC /\ valC[semC[q]] = 0
      BY <1>2, <2>1, <2>3 DEF TurnsInv, TurnType, RunInv
    <3>2. valP'[semP'[q]] = 0
      BY <1>6, <2>3, <3>1 DEF TurnsInv, TurnType
    <3>. QED
      BY <1>2, <2>1, <2>3, <3>1, <3>2
      DEF RunInv, TurnOf, OneTurn, Settled, Turn!ChildUp, ParentsTurn, Starting, AtData
  <2>. QED
    BY <2>2, <2>3
<1>. QED
  BY <1>0, <1>1, <1>3, <1>4, <1>5, <1>6, OwnStep

\* Ctrl+C takes the child and the names along.
LEMMA SigintStep ==
  ASSUME TurnsInv, NEW q \in TurnRuns, Turn!sigint_handler(q)
  PROVE  TurnsInv'
<1>. USE ConcurrentAssumption DEF Turn!sigint_handler, Turn!Go, Turn!At, Turn!objects
<1>0. Active(q) /\ Turn!ParentUp(q)
  BY DEF Active
<1>1. /\ disturbed \subseteq disturbed'
      /\ \A r \in TurnRuns \ {q} : Kept(r)
  BY DEF Kept, TurnsInv, TurnType
<1>2. /\ tnParent'[q] = "exited" /\ ~Turn!ChildUp(q)'
      /\ tnParent[q] \notin {"new", "semaphores", "second", "fork", "signal"}
  BY <1>0 DEF Turn!ParentUp, Turn!ChildUp, TurnsInv, TurnType
<1>3. TurnType'
  BY DEF TurnsInv, TurnType
<1>4. OpenInv'
  BY <1>2 DEF TurnsInv, TurnType, OpenInv, ParentsTurn, Starting, Turn!ChildUp
<1>5. NamedInv'
  BY <1>2 DEF TurnsInv, TurnType, NamedInv
<1>6. ASSUME q \notin disturbed' PROVE RunInv(q)'
  <2>1. RunInv(q)
    BY <1>1, <1>6 DEF TurnsInv, TurnInv
  <2>. QED
    BY <1>2, <2>1 DEF TurnsInv, TurnType, RunInv, Settled, Turn!ChildUp, ParentsTurn, Starting
<1>. QED
  BY <1>0, <1>1, <1>3, <1>4, <1>5, <1>6, OwnStep

\* A killed parent leaves its child, a killed child its semaphores, as they are.
LEMMA KillRunStep ==
  ASSUME TurnsInv, NEW q \in TurnRuns, Turn!Kill(q)
  PROVE  TurnsInv'
<1>. USE ConcurrentAssumption DEF Turn!Kill, Turn!Go, Turn!At, Turn!objects, Turn!tnNames
<1>0. Active(q)
  BY DEF Active
<1>1. /\ disturbed \subseteq disturbed'
      /\ \A r \in TurnRuns \ {q} : Kept(r)
  BY DEF Kept, TurnsInv, TurnType
<1>2. \/ /\ tnParent'[q] = "killed" /\ tnChild' = tnChild
         /\ Turn!ParentUp(q)
      \/ /\ tnChild'[q] = "killed" /\ tnParent' = tnParent
         /\ Turn!ChildUp(q)
  BY DEF TurnsInv, TurnType
<1>3. TurnType'
  BY DEF TurnsInv, TurnType
<1>4. OpenInv'
  BY <1>2 DEF TurnsInv, TurnType, OpenInv, ParentsTurn, Starting, Turn!ChildUp, Turn!ParentUp
<1>5. NamedInv'
  BY <1>2 DEF TurnsInv, TurnType, NamedInv, Turn!ParentUp
<1>6. ASSUME q \notin disturbed' PROVE RunInv(q)'
  <2>1. RunInv(q)
    BY <1>1, <1>6 DEF TurnsInv, TurnInv
  <2>. QED
    BY <1>2, <2>1
    DEF TurnsInv, TurnType, OpenInv, RunInv, TurnOf, OneTurn, Settled, Pending, Turn!ChildUp,
        ParentsTurn, Starting, AtData
<1>. QED
  BY <1>0, <1>1, <1>3, <1>4, <1>5, <1>6, OwnStep

LEMMA TurnsStart == Init => TurnsInv
<1>. SUFFICES ASSUME Turn!Init PROVE TurnsInv
  BY DEF Init
<1>. USE ConcurrentAssumption DEF Turn!Init
<1>1. Turn!Blank \in TurnData /\ Settled(Turn!Blank, 0) /\ Turn!Blank.processed_sets = 0
  BY DEF Turn!Blank, Turn!NONE, TurnData, Settled
<1>2. TurnType
  BY <1>1 DEF TurnType, Turn!NONE
<1>3. OpenInv /\ NamedInv
  BY DEF OpenInv, NamedInv, ParentsTurn, Starting
<1>4. AloneInv
  BY DEF AloneInv, Active, Turn!ParentUp, Turn!ChildUp
<1>5. TurnInv
  BY <1>1 DEF TurnInv, RunInv, ParentsTurn, Starting, Turn!ChildUp
<1>. QED
  BY <1>2, <1>3, <1>4, <1>5 DEF TurnsInv

LEMMA TurnsNext ==
  ASSUME TurnsInv, [Next]_vars
  PROVE  TurnsInv'
<1>1. CASE Turn!Next
  BY <1>1, AttachStep, SysvSemaphoresStep, OpenSemaphoresStep, ForkStep, InstallStep, FillStep,
     ParentPostStep, ParentWaitStep, ShowStep, ChildWaitStep, ComputeStep, StoreStep,
     ChildPostStep, SigintStep, KillRunStep
  DEF Turn!Next, Turn!Parent, Turn!Child
<1>2. CASE UNCHANGED tnVars
  <2>. USE <1>2 DEF TurnsInv, tnVars
  <2>1. TurnType' /\ OpenInv' /\ NamedInv'
    BY DEF TurnType, OpenInv, NamedInv, Turn!ChildUp
  <2>2. AloneInv' /\ TurnInv'
    BY DEF AloneInv, Active, Turn!ParentUp, Turn!ChildUp, TurnInv, RunInv, TurnOf
  <2>. QED
    BY <2>1, <2>2
<1>. QED
  BY <1>1, <1>2 DEF Next, vars

\* A run of module3/task10 or task11 that never met another run and was never stopped
\* prints the result of the set it prints, works on the data in turn with its child,
\* keeps it until one of them is killed, and leaves neither child nor name after
\* Ctrl+C, whatever killed runs left to it.
THEOREM RunsTakeTurns == Spec => []TakesTurns
<1>1. TurnsInv /\ [Next]_vars => TurnsInv'
  BY TurnsNext
<1>2. TurnsInv => TakesTurns
  <2>. SUFFICES ASSUME TurnsInv, NEW r \in TurnRuns \ disturbed
                PROVE  /\ tnShown[r].result = tnShown[r].set
                       /\ tnShown[r].processed_sets = tnShown[r].set[2]
                       /\ tnParent[r] \in {"fill", "print"} => tnChild[r] \notin {"read", "store", "post"}
                       /\ tnChild[r] # "left"
                       /\ tnParent[r] = "exited" =>
                            ~Turn!ChildUp(r) /\ r \notin {tnShm, child, parent}
    BY DEF TakesTurns, Turn!TakesTurns
  <2>1. RunInv(r)
    BY DEF TurnsInv, TurnInv
  <2>2. tnParent[r] \in {"fill", "print"} => tnChild[r] \notin {"read", "store", "post"}
    BY <2>1 DEF RunInv, TurnOf, ParentsTurn, AtData
  <2>3. tnParent[r] = "exited" => ~Turn!ChildUp(r) /\ r \notin {tnShm, child, parent}
    BY DEF TurnsInv, OpenInv, NamedInv
  <2>. QED
    BY <2>1, <2>2, <2>3 DEF RunInv, Settled
<1>. QED
  BY <1>1, <1>2, TurnsStart, PTL DEF Spec

-----------------------------------------------------------------------------
(* FileLines *)

\* Who has the semaphore of a file of lines.
Writes(p) == wpc[p] \in {"append", "post"}
Reads(p)  == rpc[p] \in {"read", "truncate", "write", "post"}

Up(p) == wpc[p] \notin Lines!Over

Line == FilePairs \X Nat

LinesType ==
    /\ task \in {8, 9}
    /\ wpc \in [FilePairs -> {"new", "setval", "empty", "fork", "next", "append", "post",
                              "child", "done", "failed", "killed"}]
    /\ rpc \in [FilePairs -> {"new", "wait", "read", "truncate", "write", "post", "done",
                              "failed", "killed"}]
    /\ made \in [FilePairs -> Nat]
    /\ flValue \in [FilePairs -> {0, 1}]
    /\ named \in FilePairs \union {0} /\ uses \in [FilePairs -> FilePairs \union {0}]
    /\ file \in Seq(Line) /\ written \in Seq(Line) /\ flTaken \in Seq(Line)
    /\ first \in [FilePairs -> Seq(Line)] /\ rest \in [FilePairs -> Seq(Line)]
    /\ spoiled \in BOOLEAN /\ flFaults \in Nat

\* Who is where: semaphores before they are made, pairs before they fork, the pair
\* that is up is the latest.
StageInv ==
    /\ \A p \in FilePairs : wpc[p] = "new" =>
         named # p /\ flValue[p] = 0 /\ \A q \in FilePairs : uses[q] # p
    /\ \A p \in FilePairs : Up(p) => named # 0
    /\ task = 8 => \A p \in FilePairs :
         /\ wpc[p] \notin {"empty", "fork", "child"}
         /\ Lines!ReaderUp(p) => named # 0
         /\ wpc[p] = "setval" =>
              named = p /\ flValue[p] = 0 /\ (\A q \in FilePairs : ~Writes(q) /\ ~Reads(q))
              /\ (~spoiled => written = flTaken \o file)
    /\ task = 9 => \A p \in FilePairs :
         /\ wpc[p] # "setval"
         /\ wpc[p] \in {"new", "empty", "fork"} => rpc[p] = "new"
         /\ Up(p) => uses[p] = named
         /\ Lines!ReaderUp(p) => uses[p] # 0
         /\ wpc[p] \notin {"done", "failed", "killed"} =>
              \A q \in FilePairs : q > p => wpc[q] = "new"
         /\ wpc[p] = "done" => ~Lines!ReaderUp(p)

\* One process at a time has a semaphore.
SemInv ==
    \A p \in FilePairs :
        /\ Writes(p) \/ Reads(p) => flValue[Lines!Sem(p)] = 0
        /\ \A q \in FilePairs : Lines!Sem(q) = Lines!Sem(p) =>
             /\ Writes(p) /\ Writes(q) => p = q
             /\ Reads(p) /\ Reads(q) => p = q
             /\ ~(Writes(p) /\ Reads(q))

\* The pair that was started last, once it has emptied the file.
Latest(w) ==
    /\ wpc[w] \in {"fork", "next", "append", "post", "child", "done"}
    /\ \A v \in FilePairs : v > w => wpc[v] = "new"

\* While nothing is spoiled, everybody uses the semaphore that has the name, and the
\* latest pair of task9 has the file to itself.
TogetherInv ==
    task = 9 /\ ~spoiled =>
        /\ \A r \in FilePairs : Lines!ReaderUp(r) => uses[r] = named
        /\ \A r, q \in FilePairs : Lines!ReaderUp(r) /\ Lines!ReaderUp(q) => r = q
        /\ \A w \in FilePairs : Latest(w) =>
             \A r \in FilePairs : Lines!ReaderUp(r) => r = w

\* Nobody inside, nobody to come: a reader was killed before it wrote the rest.
Stuck ==
    /\ named # 0 /\ flValue[named] = 0
    /\ \A p \in FilePairs : ~Writes(p) /\ ~Reads(p)

HalfDone(r) == file = <<>> /\ written = flTaken \o (first[r] \o rest[r])

\* The lines taken and the lines in the file are the lines written.
BalanceInv ==
    ~spoiled =>
        /\ written = flTaken \o file \/ Stuck \/ \E r \in FilePairs : rpc[r] = "write"
        /\ \A r \in FilePairs :
             /\ rpc[r] = "truncate" => first[r] \o rest[r] = file
             /\ rpc[r] = "write" => HalfDone(r)
             /\ rpc[r] \in {"truncate", "write"} => Len(first[r]) = 1

\* The lines of a pair.
LineOf(w, n) == <<w, IF n > FileLinesCount THEN 0 ELSE n>>

\* Without a fault the lines written are those of the latest pair, and its child
\* leaves when it has taken them all.
PairInv ==
    task = 9 =>
        /\ \A p \in FilePairs :
             /\ made[p] <= FileLinesCount + 1
             /\ wpc[p] = "append" => made[p] <= FileLinesCount
             /\ wpc[p] \in {"new", "empty", "fork"} => made[p] = 0
             /\ rpc[p] \in {"new", "wait", "read"} => first[p] = <<>>
        /\ flFaults = 0 => \A p \in FilePairs :
             /\ rpc[p] \notin {"failed", "killed"} /\ wpc[p] \notin {"failed", "killed"}
             /\ wpc[p] \in {"next", "append", "post", "child", "done"} => rpc[p] # "new"
             /\ wpc[p] \in {"child", "done"} => made[p] = FileLinesCount + 1
        /\ flFaults = 0 /\ ~spoiled => \A w \in FilePairs : Latest(w) =>
             /\ Len(written) = made[w]
             /\ \A n \in 1 .. Len(written) : written[n] = LineOf(w, n)
             /\ rpc[w] = "post" /\ first[w] # <<>> =>
                  Len(flTaken) > 0 /\ flTaken[Len(flTaken)] = first[w][1]
             /\ rpc[w] = "done" => made[w] = FileLinesCount + 1 /\ flTaken = written

LinesInv == LinesType /\ StageInv /\ SemInv /\ TogetherInv /\ BalanceInv /\ PairInv
-----------------------------------------------------------------------------
(* Facts about FileLines *)

\* Which semaphore somebody who is up uses.
LEMMA SemKnown ==
  ASSUME LinesInv, NEW p \in FilePairs
  PROVE  /\ Writes(p) => Up(p)
         /\ Reads(p) => Lines!ReaderUp(p)
         /\ Up(p) => Lines!Sem(p) = named /\ named \in FilePairs
         /\ Lines!ReaderUp(p) => Lines!Sem(p) \in FilePairs
         /\ Lines!ReaderUp(p) /\ ~spoiled => Lines!Sem(p) = named
<1>1. Writes(p) => Up(p)
  BY DEF Writes, Up, Lines!Over
<1>2. Reads(p) => Lines!ReaderUp(p)
  BY DEF Reads, Lines!ReaderUp, Lines!Over
<1>3. Up(p) => Lines!Sem(p) = named /\ named \in FilePairs
  BY DEF LinesInv, LinesType, StageInv, Lines!Sem
<1>4. Lines!ReaderUp(p) => Lines!Sem(p) \in FilePairs
  BY DEF LinesInv, LinesType, StageInv, Lines!Sem
<1>5. Lines!ReaderUp(p) /\ ~spoiled => Lines!Sem(p) = named
  BY DEF LinesInv, LinesType, StageInv, TogetherInv, Lines!Sem
<1>. QED
  BY <1>1, <1>2, <1>3, <1>4, <1>5

\* Who is inside is alone there, as long as nothing is spoiled.
LEMMA AloneInside ==
  ASSUME LinesInv, ~spoiled, NEW p \in FilePairs, Writes(p) \/ Reads(p)
  PROVE  /\ flValue[named] = 0 /\ named \in FilePairs
         /\ \A q \in FilePairs : q # p => ~Writes(q) /\ ~Reads(q)
         /\ ~(Writes(p) /\ Reads(p))
<1>1. Lines!Sem(p) = named /\ named \in FilePairs
  BY SemKnown
<1>2. ASSUME NEW q \in FilePairs, Writes(q) \/ Reads(q) PROVE Lines!Sem(q) = named
  BY <1>2, SemKnown
<1>. QED
  BY <1>1, <1>2 DEF LinesInv, SemInv

\* Nobody comes to a semaphore.
LEMMA SemKeep ==
  ASSUME SemInv, flValue' = flValue,
         \A q \in FilePairs :
             /\ Writes(q)' => Writes(q)
             /\ Reads(q)' => Reads(q)
             /\ Writes(q)' \/ Reads(q)' => Lines!Sem(q)' = Lines!Sem(q)
  PROVE  SemInv'
<1>. SUFFICES ASSUME NEW p \in FilePairs
              PROVE  /\ Writes(p)' \/ Reads(p)' => flValue[Lines!Sem(p)'] = 0
                     /\ \A q \in FilePairs : Lines!Sem(q)' = Lines!Sem(p)' =>
                          /\ Writes(p)' /\ Writes(q)' => p = q
                          /\ Reads(p)' /\ Reads(q)' => p = q
                          /\ ~(Writes(p)' /\ Reads(q)')
  BY DEF SemInv
<1>. QED
  BY DEF SemInv

\* A free semaphore is taken by one.
LEMMA SemEnter ==
  ASSUME SemInv, flValue \in [FilePairs -> {0, 1}],
         NEW p \in FilePairs, NEW s \in FilePairs, Lines!Sem(p) = s,
         flValue[s] = 1, flValue' = [flValue EXCEPT ![s] = 0],
         \A q \in FilePairs : Lines!Sem(q)' = Lines!Sem(q),
         \A q \in FilePairs : q # p => (Writes(q)' <=> Writes(q)) /\ (Reads(q)' <=> Reads(q)),
         \/ Writes(p)' /\ (Reads(p)' <=> Reads(p))
         \/ Reads(p)' /\ (Writes(p)' <=> Writes(p))
  PROVE  SemInv'
<1>1. \A q \in FilePairs : Lines!Sem(q) = s => ~Writes(q) /\ ~Reads(q)
  BY DEF SemInv
<1>2. \A q \in FilePairs : Lines!Sem(q) = s /\ (Writes(q)' \/ Reads(q)') => q = p
  BY <1>1
<1>3. ~(Writes(p)' /\ Reads(p)')
  BY <1>1
<1>4. flValue'[s] = 0 /\ \A q \in FilePairs : flValue[q] = 0 => flValue'[q] = 0
  OBVIOUS
<1>5. \A q \in FilePairs : Writes(q)' \/ Reads(q)' => flValue'[Lines!Sem(q)] = 0
  <2>1. ASSUME NEW q \in FilePairs, Writes(q)' \/ Reads(q)', Lines!Sem(q) # s
        PROVE  flValue'[Lines!Sem(q)] = 0
    <3>1. flValue[Lines!Sem(q)] = 0
      BY <2>1 DEF SemInv
    <3>. QED
      BY <2>1, <3>1
  <2>. QED
    BY <1>4, <2>1
<1>6. ASSUME NEW q \in FilePairs, NEW r \in FilePairs, Lines!Sem(r) = Lines!Sem(q)
      PROVE  /\ Writes(q)' /\ Writes(r)' => q = r
             /\ Reads(q)' /\ Reads(r)' => q = r
             /\ ~(Writes(q)' /\ Reads(r)')
  <2>1. CASE Lines!Sem(q) = s
    BY <1>2, <1>3, <1>6, <2>1
  <2>2. CASE Lines!Sem(q) # s
    BY <1>6, <2>2 DEF SemInv
  <2>. QED
    BY <2>1, <2>2
<1>. QED
  BY <1>5, <1>6 DEF SemInv

\* Who leaves gives it back.
LEMMA SemLeave ==
  ASSUME SemInv, flValue \in [FilePairs -> {0, 1}],
         NEW p \in FilePairs, NEW s \in FilePairs, Lines!Sem(p) = s, Writes(p) \/ Reads(p),
         flValue' = [flValue EXCEPT ![s] = 1],
         \A q \in FilePairs : Lines!Sem(q)' = Lines!Sem(q),
         \A q \in FilePairs : q # p => (Writes(q)' <=> Writes(q)) /\ (Reads(q)' <=> Reads(q)),
         ~Writes(p)', ~Reads(p)'
  PROVE  SemInv'
<1>1. \A q \in FilePairs : Writes(q)' \/ Reads(q)' => Lines!Sem(q) # s
  BY DEF SemInv
<1>2. \A q \in FilePairs : Writes(q)' \/ Reads(q)' => flValue'[Lines!Sem(q)] = 0
  <2>1. ASSUME NEW q \in FilePairs, Writes(q)' \/ Reads(q)'
        PROVE  flValue'[Lines!Sem(q)] = 0
    <3>1. flValue[Lines!Sem(q)] = 0 /\ Lines!Sem(q) # s
      BY <1>1, <2>1 DEF SemInv
    <3>. QED
      BY <3>1
  <2>. QED
    BY <2>1
<1>3. ASSUME NEW q \in FilePairs, NEW r \in FilePairs, Lines!Sem(r) = Lines!Sem(q)
      PROVE  /\ Writes(q)' /\ Writes(r)' => q = r
             /\ Reads(q)' /\ Reads(r)' => q = r
             /\ ~(Writes(q)' /\ Reads(r)')
  BY <1>3 DEF SemInv
<1>. QED
  BY <1>2, <1>3 DEF SemInv

\* Steps of the semaphore and of the processes only; the lines stay where they are.
LEMMA StartProducerStep ==
  ASSUME LinesInv, NEW p \in FilePairs, Lines!StartProducer(p)
  PROVE  LinesInv'
<1>0. /\ task = 8 /\ p # 0 /\ UNCHANGED <<task, rpc, made, uses, file, first, rest, written,
                                          flTaken, spoiled, flFaults>>
      /\ \/ /\ wpc[p] = "new" /\ flValue' = flValue /\ named = 0 /\ named' = p
            /\ wpc' = [wpc EXCEPT ![p] = "setval"]
         \/ /\ wpc[p] = "new" /\ flValue' = flValue /\ named # 0 /\ named' = named
            /\ wpc' = [wpc EXCEPT ![p] = "next"]
         \/ /\ wpc[p] = "setval" /\ flValue' = [flValue EXCEPT ![p] = 1] /\ named' = named
            /\ wpc' = [wpc EXCEPT ![p] = "next"]
  BY ConcurrentAssumption DEF Lines!StartProducer, Lines!W, Lines!flFile
<1>1. \A q \in FilePairs : q # p => wpc'[q] = wpc[q]
  BY <1>0 DEF LinesInv, LinesType
<1>2. \A q \in FilePairs : (Writes(q)' <=> Writes(q)) /\ (Reads(q)' <=> Reads(q))
  BY <1>0 DEF LinesInv, LinesType, Writes, Reads
<1>3. named = 0 => \A q \in FilePairs : ~Writes(q) /\ ~Reads(q) /\ ~Up(q) /\ ~Lines!ReaderUp(q)
  BY <1>0, SemKnown DEF LinesInv, StageInv
<1>4. LinesType'
  BY <1>0 DEF LinesInv, LinesType
<1>5. wpc[p] = "setval" => named = p /\ flValue[p] = 0 /\ \A q \in FilePairs : ~Writes(q) /\ ~Reads(q)
  BY <1>0 DEF LinesInv, StageInv
<1>6. named = 0 /\ ~spoiled => written = flTaken \o file
  BY <1>3 DEF LinesInv, BalanceInv, Stuck, Reads
<1>7. StageInv'
  <2>1. \A q \in FilePairs : wpc'[q] = "new" =>
          named' # q /\ flValue'[q] = 0 /\ \A r \in FilePairs : uses'[r] # q
    BY <1>0 DEF LinesInv, LinesType, StageInv
  <2>2. \A q \in FilePairs :
          /\ Up(q)' => named' # 0
          /\ wpc'[q] \notin {"empty", "fork", "child"}
          /\ Lines!ReaderUp(q)' => named' # 0
    BY <1>0, <1>1 DEF LinesInv, LinesType, StageInv, Up, Lines!ReaderUp, Lines!Over
  <2>3. ASSUME NEW q \in FilePairs, wpc'[q] = "setval"
        PROVE  /\ named' = q /\ flValue'[q] = 0 /\ \A r \in FilePairs : ~Writes(r)' /\ ~Reads(r)'
               /\ ~spoiled => written = flTaken \o file
    <3>1. CASE q = p
      BY <1>0, <1>2, <1>3, <1>6, <2>3, <3>1 DEF LinesInv, LinesType, StageInv
    <3>2. CASE q # p
      <4>1. wpc[q] = "setval"
        BY <1>1, <2>3, <3>2
      <4>2. named = q /\ flValue[q] = 0 /\ \A r \in FilePairs : ~Writes(r) /\ ~Reads(r)
        BY <1>0, <4>1 DEF LinesInv, StageInv
      <4>3. q # 0
        BY ConcurrentAssumption
      <4>. QED
        BY <1>0, <1>2, <1>5, <3>2, <4>1, <4>2, <4>3 DEF LinesInv, StageInv
    <3>. QED
      BY <3>1, <3>2
  <2>. QED
    BY <1>0, <2>1, <2>2, <2>3 DEF StageInv
<1>8. SemInv'
  BY <1>0, <1>2, <1>3, <1>5 DEF LinesInv, LinesType, SemInv, Lines!Sem
<1>9. TogetherInv'
  BY <1>0 DEF TogetherInv
<1>10. BalanceInv'
  BY <1>0, <1>2, <1>3, <1>5, <1>6 DEF LinesInv, LinesType, StageInv, BalanceInv, Stuck, HalfDone,
       Reads
<1>11. PairInv'
  BY <1>0 DEF PairInv
<1>. QED
  BY <1>4, <1>7, <1>8, <1>9, <1>10, <1>11 DEF LinesInv

LEMMA StartConsumerStep ==
  ASSUME LinesInv, NEW p \in FilePairs, Lines!StartConsumer(p)
  PROVE  LinesInv'
<1>0. /\ task = 8 /\ rpc[p] = "new" /\ rpc' = [rpc EXCEPT ![p] = IF named = 0 THEN "failed" ELSE "wait"]
      /\ UNCHANGED <<task, wpc, made, flValue, named, uses, file, first, rest, written, flTaken,
                     spoiled, flFaults>>
  BY DEF Lines!StartConsumer, Lines!R, Lines!flFile, Lines!flSem
<1>1. rpc'[p] \in {"failed", "wait"} /\ \A q \in FilePairs : q # p => rpc'[q] = rpc[q]
  BY <1>0 DEF LinesInv, LinesType
<1>2. \A q \in FilePairs : (Writes(q)' <=> Writes(q)) /\ (Reads(q)' <=> Reads(q))
  BY <1>0, <1>1 DEF Writes, Reads
<1>3. LinesType'
  BY <1>0 DEF LinesInv, LinesType
<1>4. \A q \in FilePairs : Lines!ReaderUp(q)' => named # 0
  BY <1>0, <1>1 DEF LinesInv, LinesType, StageInv, Lines!ReaderUp, Lines!Over
<1>5. StageInv'
  BY <1>0, <1>2, <1>4 DEF LinesInv, StageInv, Up
<1>6. SemInv'
  BY <1>0, <1>2, SemKeep DEF LinesInv, Lines!Sem
<1>7. TogetherInv'
  BY <1>0 DEF TogetherInv
<1>8. \A q \in FilePairs : /\ rpc'[q] = "write" <=> rpc[q] = "write"
                           /\ rpc'[q] = "truncate" <=> rpc[q] = "truncate"
  BY <1>0, <1>1
<1>9. BalanceInv'
  BY <1>0, <1>2, <1>8 DEF LinesInv, BalanceInv, Stuck, HalfDone
<1>10. PairInv'
  BY <1>0 DEF PairInv
<1>. QED
  BY <1>3, <1>5, <1>6, <1>7, <1>9, <1>10 DEF LinesInv

\* A pair of task9 opens the semaphore of the name, or makes one.
LEMMA OpenPairStep ==
  ASSUME LinesInv, NEW p \in FilePairs, Lines!StartPair(p), wpc[p] = "new"
  PROVE  LinesInv'
<1>0. /\ task = 9 /\ p # 0 /\ wpc' = [wpc EXCEPT ![p] = "empty"]
      /\ \A q \in FilePairs : wpc[q] \in Lines!Over /\ (q < p => wpc[q] # "new")
      /\ uses' = [uses EXCEPT ![p] = named']
      /\ \/ named # 0 /\ named' = named /\ flValue' = flValue
         \/ named = 0 /\ named' = p /\ flValue' = [flValue EXCEPT ![p] = 1]
      /\ UNCHANGED <<task, rpc, made, file, first, rest, written, flTaken, spoiled, flFaults>>
  BY ConcurrentAssumption DEF Lines!StartPair, Lines!W
<1>1. /\ wpc'[p] = "empty" /\ \A q \in FilePairs : q # p => wpc'[q] = wpc[q]
      /\ uses'[p] = named' /\ named' \in FilePairs /\ \A q \in FilePairs : q # p => uses'[q] = uses[q]
  BY <1>0 DEF LinesInv, LinesType
<1>2. \A q \in FilePairs : ~Writes(q) /\ ~Writes(q)' /\ (Reads(q)' <=> Reads(q)) /\ ~Up(q) /\ (Up(q)' <=> q = p)
  BY <1>0, <1>1 DEF Writes, Reads, Up, Lines!Over
<1>3. \A q \in FilePairs : (q > p => wpc[q] = "new")
  BY <1>0 DEF LinesInv, StageInv
<1>4. rpc[p] = "new" /\ (\A q \in FilePairs : uses[q] # p) /\ ~Lines!ReaderUp(p)
  BY <1>0 DEF LinesInv, StageInv, Lines!ReaderUp, Lines!Over
<1>5. named = 0 /\ ~spoiled => \A q \in FilePairs : ~Lines!ReaderUp(q) /\ ~Reads(q)
  BY <1>0, SemKnown DEF LinesInv, StageInv, TogetherInv
<1>6. \A w \in FilePairs : ~Latest(w)'
  <2>1. ASSUME NEW w \in FilePairs, Latest(w)' PROVE FALSE
    <3>1. wpc'[w] \in {"fork", "next", "append", "post", "child", "done"} /\ w # p
      BY <1>1, <2>1 DEF Latest
    <3>2. ~(p > w)
      BY <1>1, <2>1 DEF Latest
    <3>3. w > p
      BY <3>1, <3>2, ConcurrentAssumption
    <3>. QED
      BY <1>1, <1>3, <3>1, <3>3
  <2>. QED
    BY <2>1
<1>7. LinesType'
  BY <1>0, <1>1 DEF LinesInv, LinesType
<1>8. \A q \in FilePairs : flValue'[q] = flValue[q] \/ (q = p /\ named = 0)
  BY <1>0 DEF LinesInv, LinesType
<1>9. StageInv'
  <2>1. \A q \in FilePairs : wpc'[q] = "new" =>
          named' # q /\ flValue'[q] = 0 /\ \A r \in FilePairs : uses'[r] # q
    BY <1>0, <1>1, <1>8 DEF LinesInv, StageInv
  <2>2. \A q \in FilePairs :
         /\ Up(q)' => named' # 0 /\ uses'[q] = named'
         /\ wpc'[q] # "setval"
         /\ wpc'[q] \in {"new", "empty", "fork"} => rpc[q] = "new"
         /\ Lines!ReaderUp(q) => uses'[q] # 0
         /\ wpc'[q] = "done" => ~Lines!ReaderUp(q)
    BY <1>0, <1>1, <1>2, <1>4 DEF LinesInv, StageInv
  <2>3. ASSUME NEW q \in FilePairs, wpc'[q] \notin {"done", "failed", "killed"}, NEW r \in FilePairs, r > q
        PROVE  wpc'[r] = "new"
    <3>1. q = p \/ (wpc[q] = "new" /\ ~(q < p))
      BY <1>0, <1>1, <2>3 DEF Lines!Over
    <3>2. r > p
      BY <2>3, <3>1, ConcurrentAssumption
    <3>. QED
      BY <1>1, <1>3, <3>2, ConcurrentAssumption
  <2>. QED
    BY <1>0, <2>1, <2>2, <2>3 DEF StageInv, Lines!ReaderUp
<1>10. SemInv'
  <2>1. \A q \in FilePairs : Reads(q) => Lines!Sem(q)' = Lines!Sem(q) /\ Lines!Sem(q) # p /\ Lines!Sem(q) \in FilePairs
    BY <1>0, <1>1, <1>4, SemKnown DEF Lines!Sem
  <2>. QED
    BY <1>2, <1>8, <2>1 DEF LinesInv, SemInv
<1>11. TogetherInv'
  BY <1>0, <1>1, <1>4, <1>5, <1>6 DEF LinesInv, TogetherInv, Lines!ReaderUp
<1>12. BalanceInv'
  <2>1. named # 0 /\ Stuck => Stuck'
    BY <1>0, <1>2 DEF Stuck
  <2>2. named = 0 => ~Stuck
    BY DEF Stuck
  <2>3. named = 0 /\ ~spoiled => \A q \in FilePairs : rpc[q] # "write"
    BY <1>5 DEF Reads
  <2>. QED
    BY <1>0, <2>1, <2>2, <2>3 DEF LinesInv, BalanceInv, HalfDone
<1>13. PairInv'
  BY <1>0, <1>1, <1>6 DEF LinesInv, PairInv
<1>. QED
  BY <1>7, <1>9, <1>10, <1>11, <1>12, <1>13 DEF LinesInv

\* The latest pair is the only one up.
LEMMA OnePairUp ==
  ASSUME LinesInv, task = 9, NEW p \in FilePairs, Up(p), wpc[p] # "new", NEW q \in FilePairs, q # p
  PROVE  ~Up(q) /\ ~Latest(q)
<1>1. /\ \A r, s \in FilePairs : wpc[r] \notin {"done", "failed", "killed"} /\ s > r => wpc[s] = "new"
      /\ wpc[p] \notin {"done", "failed", "killed"}
  BY DEF LinesInv, StageInv, Up, Lines!Over
<1>2. p \in Nat /\ q \in Nat /\ (q > p \/ p > q)
  BY ConcurrentAssumption
<1>3. CASE q > p
  BY <1>1, <1>3 DEF Up, Lines!Over, Latest
<1>4. CASE p > q
  BY <1>1, <1>4 DEF Up, Lines!Over, Latest
<1>. QED
  BY <1>2, <1>3, <1>4

\* It empties the file, for itself when no reader of an earlier one is left.
LEMMA EmptyPairStep ==
  ASSUME LinesInv, NEW p \in FilePairs, Lines!StartPair(p), wpc[p] = "empty"
  PROVE  LinesInv'
<1>0. /\ task = 9 /\ wpc' = [wpc EXCEPT ![p] = "fork"]
      /\ file' = <<>> /\ written' = <<>> /\ flTaken' = <<>>
      /\ spoiled' = (\E r \in FilePairs : Lines!ReaderUp(r))
      /\ UNCHANGED <<task, rpc, made, flValue, named, uses, first, rest, flFaults>>
  BY DEF Lines!StartPair, Lines!W, Lines!flSem
<1>1. wpc'[p] = "fork" /\ \A q \in FilePairs : q # p => wpc'[q] = wpc[q]
  BY <1>0 DEF LinesInv, LinesType
<1>2. \A q \in FilePairs : (Writes(q)' <=> Writes(q)) /\ (Reads(q)' <=> Reads(q)) /\ (Up(q)' <=> Up(q))
  BY <1>0, <1>1 DEF Writes, Reads, Up, Lines!Over
<1>3. \A w \in FilePairs : Latest(w)' => w = p
  <2>1. Up(p)
    BY DEF Up, Lines!Over
  <2>2. ASSUME NEW w \in FilePairs, Latest(w)', w # p PROVE FALSE
    <3>1. ~Latest(w)
      BY <1>0, <2>1, <2>2, OnePairUp
    <3>. QED
      BY <1>1, <2>2, <3>1 DEF Latest
  <2>. QED
    BY <2>2
<1>4. LinesType'
  <2>1. <<>> \in Seq(Line)
    OBVIOUS
  <2>2. spoiled' \in BOOLEAN
    BY <1>0
  <2>3. wpc' \in [FilePairs -> {"new", "setval", "empty", "fork", "next", "append", "post",
                                "child", "done", "failed", "killed"}]
    BY <1>0 DEF LinesInv, LinesType
  <2>. QED
    BY <1>0, <2>1, <2>2, <2>3 DEF LinesInv, LinesType
<1>5. StageInv'
  <2>1. \A q \in FilePairs : wpc'[q] = "new" <=> wpc[q] = "new"
    BY <1>1
  <2>2. \A q \in FilePairs : wpc'[q] \in {"done", "failed", "killed"} <=> wpc[q] \in {"done", "failed", "killed"}
    BY <1>1
  <2>. QED
    BY <1>0, <1>1, <1>2, <2>1, <2>2 DEF LinesInv, StageInv, Lines!ReaderUp
<1>6. SemInv'
  BY <1>0, <1>2, SemKeep DEF LinesInv, Lines!Sem
<1>7. ~spoiled' => \A q \in FilePairs : ~Lines!ReaderUp(q) /\ ~Lines!ReaderUp(q)' /\ ~Reads(q)
  BY <1>0, SemKnown DEF Lines!ReaderUp
<1>8. TogetherInv'
  BY <1>7 DEF TogetherInv
<1>9. BalanceInv'
  <2>1. written' = flTaken' \o file'
    BY <1>0
  <2>2. ~spoiled' => \A q \in FilePairs : rpc'[q] \notin {"truncate", "write"}
    BY <1>0, <1>7 DEF Reads
  <2>. QED
    BY <2>1, <2>2 DEF BalanceInv
<1>10. PairInv'
  <2>1. made[p] = 0 /\ rpc[p] = "new"
    BY <1>0 DEF LinesInv, PairInv, StageInv
  <2>2. Len(written') = 0
    BY <1>0
  <2>. QED
    BY <1>0, <1>1, <1>3, <2>1, <2>2 DEF LinesInv, PairInv
<1>. QED
  BY <1>4, <1>5, <1>6, <1>8, <1>9, <1>10 DEF LinesInv

LEMMA ForkPairStep ==
  ASSUME LinesInv, NEW p \in FilePairs, Lines!StartPair(p), wpc[p] = "fork"
  PROVE  LinesInv'
<1>0. /\ task = 9 /\ wpc' = [wpc EXCEPT ![p] = "next"] /\ rpc' = [rpc EXCEPT ![p] = "wait"]
      /\ UNCHANGED <<task, made, flValue, named, uses, file, first, rest, written, flTaken,
                     spoiled, flFaults>>
  BY DEF Lines!StartPair, Lines!W, Lines!R, Lines!flSem
<1>1. /\ wpc'[p] = "next" /\ \A q \in FilePairs : q # p => wpc'[q] = wpc[q]
      /\ rpc'[p] = "wait" /\ \A q \in FilePairs : q # p => rpc'[q] = rpc[q]
      /\ rpc[p] = "new" /\ Up(p)
  BY <1>0 DEF LinesInv, LinesType, StageInv, Up, Lines!Over
<1>2. \A q \in FilePairs : /\ (Writes(q)' <=> Writes(q)) /\ (Reads(q)' <=> Reads(q))
                           /\ (Up(q)' <=> Up(q))
                           /\ (Lines!ReaderUp(q)' <=> Lines!ReaderUp(q) \/ q = p)
  BY <1>0, <1>1 DEF Writes, Reads, Up, Lines!ReaderUp, Lines!Over
<1>3. \A w \in FilePairs : Latest(w)' <=> Latest(w)
  BY <1>0, <1>1 DEF Latest
<1>4. LinesType'
  BY <1>0 DEF LinesInv, LinesType
<1>5. StageInv'
  <2>1. \A q \in FilePairs : wpc'[q] = "new" <=> wpc[q] = "new"
    BY <1>0, <1>1
  <2>2. \A q \in FilePairs : wpc'[q] \in {"done", "failed", "killed"} <=> wpc[q] \in {"done", "failed", "killed"}
    BY <1>0, <1>1
  <2>3. uses[p] = named /\ named # 0
    BY <1>0, <1>1 DEF LinesInv, StageInv
  <2>4. \A q \in FilePairs : wpc'[q] \in {"new", "empty", "fork"} => rpc'[q] = "new"
    BY <1>0, <1>1 DEF LinesInv, StageInv
  <2>5. \A q \in FilePairs : wpc'[q] # "setval" /\ (wpc'[q] = "done" => ~Lines!ReaderUp(q)')
    BY <1>0, <1>1, <1>2 DEF LinesInv, StageInv
  <2>6. \A q \in FilePairs : Lines!ReaderUp(q)' => uses[q] # 0
    BY <1>0, <1>2, <2>3 DEF LinesInv, StageInv
  <2>. QED
    BY <1>0, <1>2, <2>1, <2>2, <2>4, <2>5, <2>6 DEF LinesInv, StageInv
<1>6. SemInv'
  BY <1>0, <1>2, SemKeep DEF LinesInv, Lines!Sem
<1>7. TogetherInv'
  <2>1. SUFFICES ASSUME ~spoiled
                 PROVE  /\ \A r \in FilePairs : Lines!ReaderUp(r)' => uses[r] = named
                        /\ \A r, q \in FilePairs : Lines!ReaderUp(r)' /\ Lines!ReaderUp(q)' => r = q
                        /\ \A w \in FilePairs : Latest(w)' =>
                             \A r \in FilePairs : Lines!ReaderUp(r)' => r = w
    BY <1>0 DEF TogetherInv
  <2>2. Latest(p)
    BY <1>0 DEF LinesInv, StageInv, Latest
  <2>3. \A r \in FilePairs : Lines!ReaderUp(r) => r = p
    BY <1>0, <2>1, <2>2 DEF LinesInv, TogetherInv
  <2>4. \A w \in FilePairs : Latest(w)' => w = p
    BY <1>0, <1>1, <1>3, OnePairUp
  <2>. QED
    BY <1>0, <1>1, <1>2, <2>3, <2>4 DEF LinesInv, StageInv
<1>8. BalanceInv'
  <2>1. \A q \in FilePairs : /\ rpc'[q] = "write" <=> rpc[q] = "write"
                             /\ rpc'[q] = "truncate" <=> rpc[q] = "truncate"
    BY <1>0, <1>1
  <2>. QED
    BY <1>0, <1>2, <2>1 DEF LinesInv, BalanceInv, Stuck, HalfDone
<1>9. PairInv'
  BY <1>0, <1>1, <1>3 DEF LinesInv, PairInv
<1>. QED
  BY <1>4, <1>5, <1>6, <1>7, <1>8, <1>9 DEF LinesInv

LEMMA StartPairStep ==
  ASSUME LinesInv, NEW p \in FilePairs, Lines!StartPair(p)
  PROVE  LinesInv'
<1>1. wpc[p] \in {"new", "empty", "fork"}
  BY DEF Lines!StartPair
<1>. QED
  BY <1>1, OpenPairStep, EmptyPairStep, ForkPairStep

\* A free semaphore: the lines are where they belong, nobody is inside.
LEMMA FreeMeans ==
  ASSUME LinesInv, ~spoiled, named \in FilePairs, flValue[named] # 0
  PROVE  written = flTaken \o file /\ \A q \in FilePairs : ~Writes(q) /\ ~Reads(q)
<1>1. \A q \in FilePairs : ~Writes(q) /\ ~Reads(q)
  BY SemKnown DEF LinesInv, SemInv
<1>. QED
  BY <1>1 DEF LinesInv, BalanceInv, Stuck, Reads

\* A writer takes the semaphore.
LEMMA WriterWaitStep ==
  ASSUME LinesInv, NEW p \in FilePairs, Lines!WriterWait(p)
  PROVE  LinesInv'
<1>0. /\ wpc[p] = "next" /\ wpc' = [wpc EXCEPT ![p] = "append"]
      /\ made[p] < FileLinesCount + (task - 8)
      /\ UNCHANGED <<task, rpc, made, named, uses, file, first, rest, written, flTaken, spoiled,
                     flFaults>>
  BY DEF Lines!WriterWait, Lines!W, Lines!SemWait, Lines!flFile
<1>1. Up(p)
  BY <1>0 DEF Up, Lines!Over
<1>2. Lines!Sem(p) = named /\ named \in FilePairs
  BY <1>1, SemKnown
<1>3. flValue[named] = 1 /\ flValue' = [flValue EXCEPT ![named] = 0]
  <2>1. flValue[named] > 0 /\ flValue' = [flValue EXCEPT ![named] = flValue[named] - 1]
    BY <1>2 DEF Lines!WriterWait, Lines!SemWait
  <2>2. flValue[named] = 1
    BY <1>2, <2>1 DEF LinesInv, LinesType
  <2>. QED
    BY <2>1, <2>2
<1>4. /\ wpc'[p] = "append" /\ \A q \in FilePairs : q # p => wpc'[q] = wpc[q]
      /\ flValue'[named] = 0 /\ \A q \in FilePairs : flValue[q] = 0 => flValue'[q] = 0
  BY <1>0, <1>2, <1>3 DEF LinesInv, LinesType
<1>5. \A q \in FilePairs : /\ (q # p => (Writes(q)' <=> Writes(q))) /\ (Reads(q)' <=> Reads(q))
                           /\ (Up(q)' <=> Up(q))
                           /\ (Latest(q)' <=> Latest(q))
  BY <1>0, <1>4 DEF Writes, Reads, Up, Lines!Over, Latest
<1>6. LinesType'
  BY <1>0, <1>2, <1>3 DEF LinesInv, LinesType
<1>7. StageInv'
  <2>1. \A q \in FilePairs : /\ wpc'[q] = "new" <=> wpc[q] = "new"
                             /\ wpc'[q] = "done" <=> wpc[q] = "done"
                             /\ wpc'[q] \in {"done", "failed", "killed"} <=> wpc[q] \in {"done", "failed", "killed"}
                             /\ wpc'[q] \in {"new", "empty", "fork"} <=> wpc[q] \in {"new", "empty", "fork"}
    BY <1>0, <1>4
  <2>2. \A q \in FilePairs : task = 8 => wpc[q] # "setval" /\ wpc'[q] \notin {"setval", "empty", "fork", "child"}
    BY <1>3, <1>4 DEF LinesInv, StageInv
  <2>3. \A q \in FilePairs : task = 9 => wpc'[q] # "setval"
    BY <1>4 DEF LinesInv, StageInv
  <2>. QED
    BY <1>0, <1>4, <1>5, <2>1, <2>2, <2>3 DEF LinesInv, StageInv, Lines!ReaderUp
<1>8. SemInv'
  <2>1. Writes(p)'
    BY <1>4 DEF Writes
  <2>2. \A q \in FilePairs : Lines!Sem(q)' = Lines!Sem(q)
    BY <1>0 DEF Lines!Sem
  <2>. QED
    BY <1>2, <1>3, <1>5, <2>1, <2>2, SemEnter DEF LinesInv, LinesType
<1>9. TogetherInv'
  BY <1>0, <1>5 DEF LinesInv, TogetherInv, Lines!ReaderUp
<1>10. BalanceInv'
  <2>1. ~spoiled => written = flTaken \o file
    BY <1>2, <1>3, FreeMeans
  <2>. QED
    BY <1>0, <2>1 DEF LinesInv, BalanceInv, HalfDone
<1>11. PairInv'
  <2>1. task = 9 => made[p] <= FileLinesCount
    BY <1>0, ConcurrentAssumption DEF LinesInv, LinesType
  <2>2. \A q \in FilePairs : /\ wpc'[q] = "append" => wpc[q] = "append" \/ q = p
                             /\ wpc'[q] \in {"new", "empty", "fork"} <=> wpc[q] \in {"new", "empty", "fork"}
                             /\ wpc'[q] \in {"failed", "killed"} <=> wpc[q] \in {"failed", "killed"}
                             /\ wpc'[q] \in {"child", "done"} <=> wpc[q] \in {"child", "done"}
                             /\ wpc'[q] \in {"next", "append", "post", "child", "done"} <=> wpc[q] \in {"next", "append", "post", "child", "done"}
    BY <1>0, <1>4
  <2>. QED
    BY <1>0, <1>5, <2>1, <2>2 DEF LinesInv, PairInv
<1>. QED
  BY <1>6, <1>7, <1>8, <1>9, <1>10, <1>11 DEF LinesInv

\* A writer gives it back; the last line of task9's parent was END.
LEMMA WriterPostStep ==
  ASSUME LinesInv, NEW p \in FilePairs, Lines!WriterPost(p)
  PROVE  LinesInv'
<1>0. /\ wpc[p] = "post"
      /\ wpc' = [wpc EXCEPT ![p] = IF made[p] < FileLinesCount + (task - 8) THEN "next"
                                   ELSE IF task = 8 THEN "done" ELSE "child"]
      /\ UNCHANGED <<task, rpc, made, named, uses, file, first, rest, written, flTaken, spoiled,
                     flFaults>>
  BY DEF Lines!WriterPost, Lines!W, Lines!SemPost, Lines!flFile
<1>1. Up(p) /\ Writes(p)
  BY <1>0 DEF Up, Writes, Lines!Over
<1>2. Lines!Sem(p) = named /\ named \in FilePairs
  BY <1>1, SemKnown
<1>3. flValue[named] = 0 /\ flValue' = [flValue EXCEPT ![named] = 1]
  <2>1. flValue' = [flValue EXCEPT ![named] = flValue[named] + 1]
    BY <1>2 DEF Lines!WriterPost, Lines!SemPost
  <2>2. flValue[named] = 0
    BY <1>1, <1>2 DEF LinesInv, SemInv
  <2>. QED
    BY <2>1, <2>2
<1>4. /\ wpc'[p] \in {"next", "done", "child"} /\ \A q \in FilePairs : q # p => wpc'[q] = wpc[q]
      /\ task = 8 => wpc'[p] # "child"
      /\ task = 9 => wpc'[p] # "done"
      /\ \A q \in FilePairs : q # named => flValue'[q] = flValue[q]
  BY <1>0, <1>3 DEF LinesInv, LinesType
<1>5. \A q \in FilePairs : /\ (q # p => (Writes(q)' <=> Writes(q))) /\ (Reads(q)' <=> Reads(q))
                           /\ (Up(q)' => Up(q))
                           /\ (task = 9 => (Latest(q)' <=> Latest(q)))
  BY <1>0, <1>4 DEF Writes, Reads, Up, Lines!Over, Latest
<1>6. ~Writes(p)' /\ ~Reads(p)
  BY <1>1, <1>4 DEF Writes, LinesInv, SemInv
<1>7. LinesType'
  BY <1>0, <1>2, <1>3 DEF LinesInv, LinesType
<1>8. StageInv'
  <2>1. \A q \in FilePairs : /\ wpc'[q] = "new" <=> wpc[q] = "new"
                             /\ task = 9 => (wpc'[q] = "done" <=> wpc[q] = "done")
                             /\ wpc'[q] \notin {"done", "failed", "killed"} => wpc[q] \notin {"done", "failed", "killed"}
                             /\ wpc'[q] \in {"new", "empty", "fork"} <=> wpc[q] \in {"new", "empty", "fork"}
    BY <1>0, <1>4
  <2>2. \A q \in FilePairs : task = 8 => wpc[q] # "setval" /\ wpc'[q] \notin {"setval", "empty", "fork", "child"}
    BY <1>1, <1>4 DEF LinesInv, StageInv
  <2>3. \A q \in FilePairs : task = 9 => wpc'[q] # "setval"
    BY <1>4 DEF LinesInv, StageInv
  <2>4. \A q \in FilePairs : wpc[q] = "new" => named # q /\ flValue'[q] = 0
    BY <1>4 DEF LinesInv, StageInv
  <2>. QED
    BY <1>0, <1>5, <2>1, <2>2, <2>3, <2>4 DEF LinesInv, StageInv, Lines!ReaderUp
<1>9. SemInv'
  <2>2. \A q \in FilePairs : Lines!Sem(q)' = Lines!Sem(q)
    BY <1>0 DEF Lines!Sem
  <2>. QED
    BY <1>1, <1>2, <1>3, <1>5, <1>6, <2>2, SemLeave DEF LinesInv, LinesType
<1>10. TogetherInv'
  BY <1>0, <1>5 DEF LinesInv, TogetherInv, Lines!ReaderUp
<1>11. BalanceInv'
  <2>1. ~spoiled => \A q \in FilePairs : rpc[q] # "write"
    BY <1>1, AloneInside DEF Reads
  <2>. QED
    BY <1>0, <1>1, <2>1 DEF LinesInv, BalanceInv, Stuck, HalfDone
<1>12. PairInv'
  <2>1. task = 9 /\ wpc'[p] = "child" => made[p] = FileLinesCount + 1
    BY <1>0, <1>4, ConcurrentAssumption DEF LinesInv, LinesType, PairInv
  <2>2. \A q \in FilePairs : task = 9 =>
          /\ wpc'[q] = "append" => wpc[q] = "append"
          /\ wpc'[q] \in {"new", "empty", "fork"} <=> wpc[q] \in {"new", "empty", "fork"}
          /\ wpc'[q] \in {"failed", "killed"} <=> wpc[q] \in {"failed", "killed"}
          /\ wpc'[q] \in {"child", "done"} => wpc[q] \in {"child", "done"} \/ (q = p /\ wpc'[q] = "child")
          /\ wpc'[q] \in {"next", "append", "post", "child", "done"} <=> wpc[q] \in {"next", "append", "post", "child", "done"}
    BY <1>0, <1>4
  <2>. QED
    BY <1>0, <1>5, <2>1, <2>2 DEF LinesInv, PairInv
<1>. QED
  BY <1>7, <1>8, <1>9, <1>10, <1>11, <1>12 DEF LinesInv

\* wait and sem_unlink: afterwards nobody is up, unless something is spoiled.
LEMMA EndPairStep ==
  ASSUME LinesInv, NEW p \in FilePairs, Lines!EndPair(p)
  PROVE  LinesInv'
<1>0. /\ wpc[p] = "child" /\ ~Lines!ReaderUp(p) /\ wpc' = [wpc EXCEPT ![p] = "done"] /\ named' = 0
      /\ spoiled' = (spoiled \/ flValue[named] # 1)
      /\ UNCHANGED <<task, rpc, made, flValue, uses, file, first, rest, written, flTaken, flFaults>>
  BY DEF Lines!EndPair, Lines!W
<1>1. task = 9 /\ Up(p)
  BY <1>0 DEF LinesInv, LinesType, StageInv, Up, Lines!Over
<1>2. /\ wpc'[p] = "done" /\ \A q \in FilePairs : q # p => wpc'[q] = wpc[q]
      /\ \A q \in FilePairs : Lines!ReaderUp(q)' <=> Lines!ReaderUp(q)
  BY <1>0 DEF LinesInv, LinesType, Lines!ReaderUp
<1>3. \A q \in FilePairs : ~Up(q)'
  BY <1>0, <1>1, <1>2, OnePairUp DEF Up, Lines!Over
<1>4. \A q \in FilePairs : /\ (Writes(q)' <=> Writes(q)) /\ (Reads(q)' <=> Reads(q))
                           /\ (Latest(q)' <=> Latest(q))
  BY <1>0, <1>2 DEF Writes, Reads, Latest
<1>5. LinesType'
  BY <1>0 DEF LinesInv, LinesType
<1>6. StageInv'
  <2>1. \A q \in FilePairs : /\ wpc'[q] = "new" <=> wpc[q] = "new"
                             /\ wpc'[q] # "setval"
                             /\ wpc'[q] \in {"new", "empty", "fork"} <=> wpc[q] \in {"new", "empty", "fork"}
                             /\ wpc'[q] \notin {"done", "failed", "killed"} => wpc[q] \notin {"done", "failed", "killed"}
                             /\ wpc'[q] = "done" => ~Lines!ReaderUp(q)'
    BY <1>0, <1>1, <1>2 DEF LinesInv, StageInv
  <2>2. \A q \in FilePairs : q # 0
    BY ConcurrentAssumption
  <2>. QED
    BY <1>0, <1>1, <1>2, <1>3, <2>1, <2>2 DEF LinesInv, StageInv
<1>7. SemInv'
  BY <1>0, <1>1, <1>4, SemKeep DEF LinesInv, Lines!Sem
<1>8. ~spoiled' => ~spoiled /\ flValue[named] = 1 /\ \A r \in FilePairs : ~Lines!ReaderUp(r)
  <2>1. Latest(p)
    BY <1>0, <1>1 DEF LinesInv, StageInv, Latest
  <2>. QED
    BY <1>0, <1>1, <2>1 DEF LinesInv, TogetherInv
<1>9. TogetherInv'
  BY <1>2, <1>8 DEF TogetherInv
<1>10. BalanceInv'
  <2>1. ~spoiled' => \A q \in FilePairs : rpc[q] \notin {"truncate", "write"}
    BY <1>8, SemKnown DEF Reads
  <2>2. ~spoiled' => written = flTaken \o file
    BY <1>8, <2>1 DEF LinesInv, BalanceInv, Stuck
  <2>. QED
    BY <1>0, <2>1, <2>2 DEF BalanceInv
<1>11. PairInv'
  <2>1. \A q \in FilePairs :
          /\ wpc'[q] = "append" => wpc[q] = "append"
          /\ wpc'[q] \in {"new", "empty", "fork"} <=> wpc[q] \in {"new", "empty", "fork"}
          /\ wpc'[q] \in {"failed", "killed"} <=> wpc[q] \in {"failed", "killed"}
          /\ wpc'[q] \in {"child", "done"} <=> wpc[q] \in {"child", "done"}
          /\ wpc'[q] \in {"next", "append", "post", "child", "done"} <=> wpc[q] \in {"next", "append", "post", "child", "done"}
    BY <1>0, <1>2
  <2>. QED
    BY <1>0, <1>4, <1>8, <2>1 DEF LinesInv, PairInv
<1>. QED
  BY <1>5, <1>6, <1>7, <1>9, <1>10, <1>11 DEF LinesInv

\* A reader takes the semaphore.
LEMMA ReaderWaitStep ==
  ASSUME LinesInv, NEW p \in FilePairs, Lines!ReaderWait(p)
  PROVE  LinesInv'
<1>. DEFINE s == Lines!Sem(p)
<1>0. /\ rpc[p] = "wait" /\ rpc' = [rpc EXCEPT ![p] = "read"]
      /\ flValue[s] > 0 /\ flValue' = [flValue EXCEPT ![s] = flValue[s] - 1]
      /\ UNCHANGED <<task, wpc, made, named, uses, file, first, rest, written, flTaken, spoiled,
                     flFaults>>
  BY DEF Lines!ReaderWait, Lines!R, Lines!SemWait, Lines!flFile
<1>1. Lines!ReaderUp(p)
  BY <1>0 DEF Lines!ReaderUp, Lines!Over
<1>2. s \in FilePairs /\ (~spoiled => s = named) /\ (task = 8 => s = named)
  BY <1>1, SemKnown DEF Lines!Sem
<1>. HIDE DEF s
<1>3. flValue[s] = 1 /\ flValue' = [flValue EXCEPT ![s] = 0]
  <2>1. flValue[s] = 1
    BY <1>0, <1>2 DEF LinesInv, LinesType
  <2>. QED
    BY <1>0, <2>1
<1>4. /\ rpc'[p] = "read" /\ \A q \in FilePairs : q # p => rpc'[q] = rpc[q]
      /\ flValue'[s] = 0 /\ \A q \in FilePairs : flValue[q] = 0 => flValue'[q] = 0
  BY <1>0, <1>2, <1>3 DEF LinesInv, LinesType
<1>5. \A q \in FilePairs : /\ (Writes(q)' <=> Writes(q)) /\ (q # p => (Reads(q)' <=> Reads(q)))
                           /\ (Up(q)' <=> Up(q))
                           /\ (Latest(q)' <=> Latest(q)) /\ (Lines!ReaderUp(q)' <=> Lines!ReaderUp(q))
  BY <1>0, <1>4 DEF Writes, Reads, Up, Lines!Over, Lines!ReaderUp, Latest
<1>6. LinesType'
  BY <1>0, <1>2, <1>3 DEF LinesInv, LinesType
<1>7. StageInv'
  <2>1. \A q \in FilePairs : rpc'[q] = "new" <=> rpc[q] = "new"
    BY <1>0, <1>4
  <2>2. \A q \in FilePairs : task = 8 => wpc[q] # "setval"
    BY <1>2, <1>3 DEF LinesInv, StageInv
  <2>. QED
    BY <1>0, <1>4, <1>5, <2>1, <2>2 DEF LinesInv, StageInv
<1>8. SemInv'
  <2>1. Reads(p)'
    BY <1>4 DEF Reads
  <2>2. \A q \in FilePairs : Lines!Sem(q)' = Lines!Sem(q)
    BY <1>0 DEF Lines!Sem
  <2>3. Lines!Sem(p) = s
    BY DEF s
  <2>. QED
    BY <1>2, <1>3, <1>5, <2>1, <2>2, <2>3, SemEnter DEF LinesInv, LinesType
<1>9. TogetherInv'
  BY <1>0, <1>5 DEF LinesInv, TogetherInv
<1>10. BalanceInv'
  <2>1. ~spoiled => written = flTaken \o file
    BY <1>2, <1>3, FreeMeans
  <2>2. \A q \in FilePairs : rpc'[q] \in {"truncate", "write"} => rpc'[q] = rpc[q]
    BY <1>0, <1>4
  <2>. QED
    BY <1>0, <2>1, <2>2 DEF LinesInv, BalanceInv, HalfDone
<1>11. PairInv'
  <2>1. \A q \in FilePairs : /\ rpc'[q] \in {"failed", "killed"} <=> rpc[q] \in {"failed", "killed"}
                             /\ rpc'[q] = "new" <=> rpc[q] = "new"
                             /\ rpc'[q] = "post" <=> rpc[q] = "post"
                             /\ rpc'[q] = "done" <=> rpc[q] = "done"
    BY <1>0, <1>4
  <2>. QED
    BY <1>0, <1>5, <2>1 DEF LinesInv, PairInv
<1>. QED
  BY <1>6, <1>7, <1>8, <1>9, <1>10, <1>11 DEF LinesInv

\* A kill takes a writer or a reader away, and leaves the semaphore as it is.
LEMMA KillWriterStep ==
  ASSUME LinesInv, NEW p \in FilePairs, Up(p), wpc' = [wpc EXCEPT ![p] = "killed"],
         flFaults' = flFaults + 1,
         UNCHANGED <<task, rpc, made, flValue, named, uses, file, first, rest, written, flTaken,
                     spoiled>>
  PROVE  LinesInv'
<1>1. /\ wpc'[p] = "killed" /\ \A q \in FilePairs : q # p => wpc'[q] = wpc[q]
      /\ wpc[p] \notin {"new", "done", "failed", "killed"}
  BY DEF LinesInv, LinesType, Up, Lines!Over
<1>2. \A q \in FilePairs : /\ (Writes(q)' => Writes(q)) /\ (Reads(q)' <=> Reads(q))
                           /\ (Up(q)' => Up(q))
                           /\ (Latest(q)' => Latest(q)) /\ (Lines!ReaderUp(q)' <=> Lines!ReaderUp(q))
  BY <1>1 DEF Writes, Reads, Up, Lines!Over, Lines!ReaderUp, Latest
<1>3. LinesType' /\ flFaults' # 0
  BY DEF LinesInv, LinesType
<1>4. StageInv'
  <2>1. \A q \in FilePairs : wpc'[q] = wpc[q] \/ wpc'[q] = "killed"
    BY <1>1
  <2>2. \A q \in FilePairs : wpc[q] = "new" => wpc'[q] = "new"
    BY <1>1
  <2>. QED
    BY <1>2, <2>1, <2>2 DEF LinesInv, StageInv
<1>5. SemInv'
  BY <1>2, SemKeep DEF LinesInv, Lines!Sem
<1>6. TogetherInv'
  BY <1>2 DEF LinesInv, TogetherInv
<1>7. BalanceInv'
  BY <1>2 DEF LinesInv, BalanceInv, HalfDone, Stuck
<1>8. PairInv'
  <2>1. \A q \in FilePairs : wpc'[q] = wpc[q] \/ wpc'[q] = "killed"
    BY <1>1
  <2>. QED
    BY <1>3, <2>1 DEF LinesInv, PairInv
<1>. QED
  BY <1>3, <1>4, <1>5, <1>6, <1>7, <1>8 DEF LinesInv

LEMMA KillReaderStep ==
  ASSUME LinesInv, NEW p \in FilePairs, Lines!ReaderUp(p), rpc' = [rpc EXCEPT ![p] = "killed"],
         flFaults' = flFaults + 1,
         UNCHANGED <<task, wpc, made, flValue, named, uses, file, first, rest, written, flTaken,
                     spoiled>>
  PROVE  LinesInv'
<1>1. /\ rpc'[p] = "killed" /\ \A q \in FilePairs : q # p => rpc'[q] = rpc[q]
      /\ rpc[p] # "new"
  BY DEF LinesInv, LinesType, Lines!ReaderUp, Lines!Over
<1>2. \A q \in FilePairs : /\ (Writes(q)' <=> Writes(q)) /\ (Reads(q)' <=> Reads(q) /\ q # p)
                           /\ (Up(q)' <=> Up(q))
                           /\ (Latest(q)' <=> Latest(q)) /\ (Lines!ReaderUp(q)' <=> Lines!ReaderUp(q) /\ q # p)
  BY <1>1 DEF Writes, Reads, Up, Lines!Over, Lines!ReaderUp, Latest
<1>3. LinesType' /\ flFaults' # 0
  BY DEF LinesInv, LinesType
<1>4. StageInv'
  <2>1. \A q \in FilePairs : rpc'[q] = "new" <=> rpc[q] = "new"
    BY <1>1
  <2>. QED
    BY <1>2, <2>1 DEF LinesInv, StageInv
<1>5. SemInv'
  BY <1>2, SemKeep DEF LinesInv, Lines!Sem
<1>6. TogetherInv'
  BY <1>2 DEF LinesInv, TogetherInv
<1>7. BalanceInv'
  <2>1. \A q \in FilePairs : rpc'[q] \in {"truncate", "write"} => rpc'[q] = rpc[q]
    BY <1>1
  <2>2. Stuck => Stuck'
    BY <1>2 DEF Stuck
  <2>3. ~spoiled /\ rpc[p] = "write" => Stuck'
    <3>1. SUFFICES ASSUME ~spoiled, rpc[p] = "write" PROVE Stuck'
      OBVIOUS
    <3>2. Reads(p)
      BY <3>1 DEF Reads
    <3>3. /\ flValue[named] = 0 /\ named \in FilePairs /\ ~Writes(p)
          /\ \A q \in FilePairs : q # p => ~Writes(q) /\ ~Reads(q)
      BY <3>1, <3>2, AloneInside
    <3>4. named # 0
      BY <3>3, ConcurrentAssumption
    <3>. QED
      BY <1>2, <3>3, <3>4 DEF Stuck
  <2>4. \A q \in FilePairs : rpc[q] = "write" => rpc'[q] = "write" \/ q = p
    BY <1>1
  <2>. QED
    BY <2>1, <2>2, <2>3, <2>4 DEF LinesInv, BalanceInv, HalfDone
<1>8. PairInv'
  BY <1>3 DEF LinesInv, PairInv
<1>. QED
  BY <1>3, <1>4, <1>5, <1>6, <1>7, <1>8 DEF LinesInv

LEMMA KillLineStep ==
  ASSUME LinesInv, NEW p \in FilePairs, Lines!Kill(p)
  PROVE  LinesInv'
<1>0. /\ flFaults' = flFaults + 1
      /\ UNCHANGED <<task, made, flValue, named, uses, file, first, rest, written, flTaken,
                     spoiled>>
  BY DEF Lines!Kill, Lines!Fault, Lines!flSem, Lines!flFile
<1>1. CASE wpc[p] \notin Lines!Over /\ Lines!W(p, "killed") /\ UNCHANGED rpc
  BY <1>0, <1>1, KillWriterStep DEF Lines!W, Up
<1>2. CASE Lines!ReaderUp(p) /\ Lines!R(p, "killed") /\ UNCHANGED wpc
  BY <1>0, <1>2, KillReaderStep DEF Lines!R
<1>. QED
  BY <1>1, <1>2 DEF Lines!Kill

\* A piece of a list.
LEMMA Piece ==
  ASSUME NEW S, NEW s \in Seq(S), NEW k \in Nat, k < Len(s)
  PROVE  /\ [i \in 1 .. k |-> s[i + 1]] \in Seq(S)
         /\ Len([i \in 1 .. k |-> s[i + 1]]) = k
         /\ \A i \in 1 .. k : [j \in 1 .. k |-> s[j + 1]][i] = s[i + 1]
<1>. DEFINE r == [i \in 1 .. k |-> s[i + 1]]
<1>1. \A i \in 1 .. k : s[i + 1] \in S
  BY LenProperties, ElementOfSeq
<1>2. r \in [1 .. k -> S] /\ \A i \in 1 .. k : r[i] = s[i + 1]
  BY <1>1
<1>3. r \in Seq(S)
  BY <1>2, SeqDef
<1>. HIDE DEF r
<1>4. DOMAIN r = 1 .. k /\ DOMAIN r = 1 .. Len(r) /\ Len(r) \in Nat
  BY <1>2, <1>3, LenProperties
<1>5. (k > 0 => k \in 1 .. Len(r)) /\ (Len(r) > 0 => Len(r) \in 1 .. k)
  BY <1>4
<1>6. Len(r) = k
  BY <1>4, <1>5
<1>. QED
  BY <1>2, <1>3, <1>6 DEF r

LEMMA HeadThenRest ==
  ASSUME NEW S, NEW s \in Seq(S), NEW r \in Seq(S), NEW h \in Seq(S)
  PROVE  /\ Len(r) = Len(s) - 1 /\ \A i \in 1 .. Len(r) : r[i] = s[i + 1]
         /\ Len(h) = 1 /\ h[1] = s[1]
         => h \o r = s
<1>1. Len(s) \in Nat /\ Len(r) \in Nat
  BY LenProperties
<1>2. /\ h \o r \in Seq(S) /\ Len(h \o r) = Len(h) + Len(r)
      /\ \A i \in 1 .. Len(h) + Len(r) : (h \o r)[i] = IF i <= Len(h) THEN h[i] ELSE r[i - Len(h)]
  BY ConcatProperties
<1>. SUFFICES ASSUME Len(r) = Len(s) - 1, \A i \in 1 .. Len(r) : r[i] = s[i + 1],
                     Len(h) = 1, h[1] = s[1]
              PROVE  h \o r = s
  OBVIOUS
<1>. DEFINE c == h \o r
<1>3. c \in Seq(S) /\ Len(c) = Len(s) /\ \A i \in 1 .. Len(s) : c[i] = IF i <= 1 THEN h[i] ELSE r[i - 1]
  BY <1>1, <1>2
<1>. HIDE DEF c
<1>4. \A i \in 1 .. Len(s) : c[i] = s[i]
  <2>1. SUFFICES ASSUME NEW i \in 1 .. Len(s) PROVE c[i] = s[i]
    OBVIOUS
  <2>2. CASE i = 1
    BY <1>3, <2>2
  <2>3. CASE i # 1
    <3>1. i - 1 \in 1 .. Len(r) /\ ~(i <= 1) /\ (i - 1) + 1 = i
      BY <1>1, <2>3
    <3>2. r[i - 1] = s[(i - 1) + 1]
      BY <3>1
    <3>. QED
      BY <1>3, <3>1, <3>2
  <2>. QED
    BY <2>2, <2>3
<1>5. c = s
  BY <1>3, <1>4, SeqEqual
<1>. QED
  BY <1>5 DEF c

\* What fgets and fread leave in the two arrays of a reader.
LEMMA HeadAndRest ==
  ASSUME NEW S, NEW s \in Seq(S), s # <<>>, NEW n \in Nat
  PROVE  LET r == [i \in 1 .. Lines!Least(Len(s) - 1, n) |-> s[i + 1]]
         IN  /\ <<Head(s)>> \in Seq(S) /\ Len(<<Head(s)>>) = 1 /\ r \in Seq(S)
             /\ Len(s) - 1 <= n => <<Head(s)>> \o r = s
<1>. DEFINE k == Lines!Least(Len(s) - 1, n)
            r == [i \in 1 .. k |-> s[i + 1]]
            h == <<Head(s)>>
<1>1. Len(s) \in Nat \ {0} /\ Head(s) = s[1] /\ s[1] \in S
  BY LenProperties, EmptySeq, ElementOfSeq
<1>2. k \in Nat /\ k < Len(s) /\ (Len(s) - 1 <= n => k = Len(s) - 1)
  BY <1>1 DEF Lines!Least
<1>3. h \in Seq(S) /\ Len(h) = 1 /\ h[1] = s[1]
  BY <1>1
<1>. HIDE DEF k, h
<1>4. r \in Seq(S) /\ Len(r) = k /\ \A i \in 1 .. k : r[i] = s[i + 1]
  BY <1>2, Piece
<1>. HIDE DEF r
<1>5. ASSUME Len(s) - 1 <= n PROVE h \o r = s
  BY <1>2, <1>3, <1>4, <1>5, HeadThenRest
<1>. QED
  BY <1>3, <1>4, <1>5 DEF h, r, k

\* A writer appends a line, or fopen fails.
LEMMA AppendLineStep ==
  ASSUME LinesInv, NEW p \in FilePairs, Lines!AppendLine(p)
  PROVE  LinesInv'
<1>. DEFINE line == <<p, IF made[p] = FileLinesCount THEN 0 ELSE made[p] + 1>>
<1>0. /\ wpc[p] = "append" /\ wpc' = [wpc EXCEPT ![p] = "post"]
      /\ made' = [made EXCEPT ![p] = made[p] + 1]
      /\ \/ file' = Append(file, line) /\ written' = Append(written, line) /\ flFaults' = flFaults
         \/ file' = file /\ written' = written /\ flFaults' = flFaults + 1
      /\ UNCHANGED <<task, rpc, flValue, named, uses, first, rest, flTaken, spoiled>>
  BY DEF Lines!AppendLine, Lines!W, Lines!Fault, Lines!flSem, Lines!END
<1>1. /\ wpc'[p] = "post" /\ \A q \in FilePairs : q # p => wpc'[q] = wpc[q]
      /\ made[p] \in Nat /\ made'[p] = made[p] + 1 /\ \A q \in FilePairs : q # p => made'[q] = made[q]
      /\ Up(p) /\ Writes(p)
  BY <1>0 DEF LinesInv, LinesType, Up, Lines!Over, Writes
<1>2. \A q \in FilePairs : /\ (Writes(q)' <=> Writes(q)) /\ (Reads(q)' <=> Reads(q))
                           /\ (Up(q)' <=> Up(q))
                           /\ (Latest(q)' <=> Latest(q)) /\ (Lines!ReaderUp(q)' <=> Lines!ReaderUp(q))
  BY <1>0, <1>1 DEF Writes, Reads, Up, Lines!Over, Lines!ReaderUp, Latest
<1>3. line \in Line
  BY <1>1 DEF Line
<1>. HIDE DEF line
<1>4. LinesType'
  <2>1. file' \in Seq(Line) /\ written' \in Seq(Line)
    <3>1. file \in Seq(Line) /\ written \in Seq(Line)
      BY DEF LinesInv, LinesType
    <3>2. Append(file, line) \in Seq(Line) /\ Append(written, line) \in Seq(Line)
      BY <1>3, <3>1, PutLast
    <3>. QED
      BY <1>0, <3>1, <3>2
  <2>2. made' \in [FilePairs -> Nat] /\ flFaults' \in Nat
    BY <1>0, <1>1 DEF LinesInv, LinesType
  <2>3. wpc' \in [FilePairs -> {"new", "setval", "empty", "fork", "next", "append", "post",
                                "child", "done", "failed", "killed"}]
    BY <1>0 DEF LinesInv, LinesType
  <2>. QED
    BY <1>0, <2>1, <2>2, <2>3 DEF LinesInv, LinesType
<1>5. StageInv'
  <2>1. \A q \in FilePairs : task = 8 => wpc[q] # "setval"
    BY <1>1 DEF LinesInv, StageInv
  <2>2. \A q \in FilePairs : wpc'[q] = wpc[q] \/ (wpc'[q] = "post" /\ wpc[q] = "append")
    BY <1>0, <1>1
  <2>. QED
    BY <1>0, <1>2, <2>1, <2>2 DEF LinesInv, StageInv
<1>6. SemInv'
  BY <1>0, <1>2, SemKeep DEF LinesInv, Lines!Sem
<1>7. TogetherInv'
  BY <1>0, <1>2 DEF LinesInv, TogetherInv
<1>8. ~spoiled => \A q \in FilePairs : rpc[q] \notin {"truncate", "write", "post"}
  BY <1>1, AloneInside DEF Reads
<1>9. BalanceInv'
  <2>1. ~spoiled => written = flTaken \o file
    BY <1>1, <1>8 DEF LinesInv, BalanceInv, Stuck
  <2>. DEFINE one == <<line>>
  <2>2. ~spoiled => Append(written, line) = flTaken \o Append(file, line)
    <3>1. one \in Seq(Line) /\ flTaken \in Seq(Line) /\ file \in Seq(Line) /\ written \in Seq(Line)
      BY <1>3 DEF LinesInv, LinesType
    <3>2. Append(written, line) = written \o one /\ Append(file, line) = file \o one
      BY <1>3, <3>1, AppendIsConcat
    <3>. HIDE DEF one
    <3>3. (flTaken \o file) \o one = flTaken \o (file \o one)
      BY <3>1, ConcatAssociative, SMTT(30)
    <3>. QED
      BY <2>1, <3>2, <3>3
  <2>3. ~spoiled => written' = flTaken \o file'
    BY <1>0, <2>1, <2>2
  <2>. QED
    BY <1>0, <1>8, <2>3 DEF BalanceInv
<1>10. PairInv'
  <2>1. SUFFICES ASSUME task = 9 PROVE PairInv'
    BY <1>0 DEF PairInv
  <2>2. /\ made[p] <= FileLinesCount /\ made'[p] <= FileLinesCount + 1
    BY <1>0, <1>1, <2>1, ConcurrentAssumption DEF LinesInv, PairInv
  <2>3. \A q \in FilePairs : wpc'[q] = wpc[q] \/ (q = p /\ wpc'[q] = "post" /\ wpc[q] = "append")
    BY <1>0, <1>1
  <2>4. ASSUME flFaults' = 0, ~spoiled, NEW w \in FilePairs, Latest(w)'
        PROVE  /\ Len(written') = made'[w]
               /\ \A n \in 1 .. Len(written') : written'[n] = LineOf(w, n)
               /\ rpc[w] = "post" /\ first[w] # <<>> =>
                    Len(flTaken) > 0 /\ flTaken[Len(flTaken)] = first[w][1]
               /\ rpc[w] = "done" => made'[w] = FileLinesCount + 1 /\ flTaken = written'
    <3>1. w = p
      BY <1>0, <1>1, <1>2, <2>1, <2>4, OnePairUp
    <3>2. /\ flFaults = 0 /\ flFaults' = flFaults
          /\ file' = Append(file, line) /\ written' = Append(written, line)
      BY <1>0, <2>4 DEF LinesInv, LinesType
    <3>3. /\ Len(written) = made[p]
          /\ \A n \in 1 .. Len(written) : written[n] = LineOf(p, n)
          /\ rpc[p] # "done"
      <4>1. /\ Len(written) = made[p]
            /\ \A n \in 1 .. Len(written) : written[n] = LineOf(p, n)
            /\ rpc[p] = "done" => made[p] = FileLinesCount + 1
        BY <1>2, <2>1, <2>4, <3>1, <3>2 DEF LinesInv, PairInv
      <4>. QED
        BY <1>1, <2>2, <4>1, ConcurrentAssumption
    <3>4. line = LineOf(p, made[p] + 1)
      BY <1>1, <2>2, ConcurrentAssumption DEF line, LineOf
    <3>5. /\ Len(written') = Len(written) + 1
          /\ \A k \in 1 .. Len(written) : written'[k] = written[k]
          /\ written'[Len(written) + 1] = line
      BY <1>3, <3>2, PutLast DEF LinesInv, LinesType
    <3>6. \A n \in 1 .. Len(written') : written'[n] = LineOf(p, n)
      BY <1>1, <3>3, <3>4, <3>5
    <3>. QED
      BY <1>1, <1>8, <2>4, <3>1, <3>3, <3>5, <3>6
  <2>5. \A q \in FilePairs :
             /\ made'[q] <= FileLinesCount + 1
             /\ wpc'[q] = "append" => made'[q] <= FileLinesCount
             /\ wpc'[q] \in {"new", "empty", "fork"} => made'[q] = 0
             /\ rpc[q] \in {"new", "wait", "read"} => first[q] = <<>>
    BY <1>1, <2>1, <2>2, <2>3 DEF LinesInv, PairInv
  <2>6. flFaults' = 0 => flFaults = 0
    BY <1>0 DEF LinesInv, LinesType
  <2>7. flFaults' = 0 => \A q \in FilePairs :
             /\ rpc[q] \notin {"failed", "killed"} /\ wpc'[q] \notin {"failed", "killed"}
             /\ wpc'[q] \in {"next", "append", "post", "child", "done"} => rpc[q] # "new"
             /\ wpc'[q] \in {"child", "done"} => made'[q] = FileLinesCount + 1
    BY <1>1, <2>1, <2>3, <2>6 DEF LinesInv, PairInv
  <2>. QED
    BY <1>0, <2>4, <2>5, <2>7 DEF PairInv
<1>. QED
  BY <1>4, <1>5, <1>6, <1>7, <1>9, <1>10 DEF LinesInv

\* What a step of a reader inside its critical section leaves alone.
LEMMA InsideStep ==
  ASSUME LinesInv, NEW p \in FilePairs, Reads(p), rpc'[p] \in {"truncate", "write", "post"},
         \A q \in FilePairs : q # p => rpc'[q] = rpc[q],
         spoiled => spoiled',
         UNCHANGED <<task, wpc, flValue, named, uses>>
  PROVE  /\ \A q \in FilePairs : /\ (Writes(q)' <=> Writes(q)) /\ (Reads(q)' <=> Reads(q))
                                 /\ (Up(q)' <=> Up(q))
                                 /\ (Latest(q)' <=> Latest(q)) /\ (Lines!ReaderUp(q)' <=> Lines!ReaderUp(q))
         /\ StageInv' /\ SemInv' /\ TogetherInv'
         /\ ~spoiled => \A q \in FilePairs : q # p => rpc'[q] \notin {"truncate", "write", "post"}
         /\ ~spoiled => written = flTaken \o file \/ rpc[p] = "write"
         /\ ~spoiled /\ task = 9 => \A w \in FilePairs : Latest(w) => w = p
<1>1. \A q \in FilePairs : /\ (Writes(q)' <=> Writes(q)) /\ (Reads(q)' <=> Reads(q))
                           /\ (Up(q)' <=> Up(q))
                           /\ (Latest(q)' <=> Latest(q)) /\ (Lines!ReaderUp(q)' <=> Lines!ReaderUp(q))
  BY DEF Writes, Reads, Up, Lines!Over, Lines!ReaderUp, Latest
<1>2. rpc[p] # "new" /\ rpc'[p] # "new" /\ Lines!ReaderUp(p)
  BY SemKnown DEF Reads
<1>3. StageInv'
  <2>1. \A q \in FilePairs : task = 8 => wpc[q] # "setval"
    BY DEF LinesInv, StageInv
  <2>2. \A q \in FilePairs : rpc'[q] = "new" <=> rpc[q] = "new"
    BY <1>2
  <2>. QED
    BY <1>1, <2>1, <2>2 DEF LinesInv, StageInv
<1>4. SemInv'
  BY <1>1, SemKeep DEF LinesInv, Lines!Sem
<1>5. TogetherInv'
  BY <1>1 DEF LinesInv, TogetherInv
<1>6. ~spoiled => \A q \in FilePairs : q # p => rpc'[q] \notin {"truncate", "write", "post"}
  BY AloneInside DEF Reads
<1>7. ~spoiled => written = flTaken \o file \/ rpc[p] = "write"
  BY <1>6 DEF LinesInv, BalanceInv, Stuck
<1>8. ~spoiled /\ task = 9 => \A w \in FilePairs : Latest(w) => w = p
  BY <1>2 DEF LinesInv, TogetherInv
<1>. QED
  BY <1>1, <1>3, <1>4, <1>5, <1>6, <1>7, <1>8

LEMMA InsidePair ==
  ASSUME LinesInv, NEW p \in FilePairs, Reads(p), rpc'[p] \in {"truncate", "write", "post"},
         \A q \in FilePairs : q # p => rpc'[q] = rpc[q] /\ first'[q] = first[q],
         spoiled => spoiled', flFaults' \in {flFaults, flFaults + 1},
         UNCHANGED <<task, wpc, made, flValue, named, uses, written>>,
         flFaults' = 0 /\ ~spoiled' /\ rpc'[p] = "post" /\ first'[p] # <<>> =>
             Len(flTaken') > 0 /\ flTaken'[Len(flTaken')] = first'[p][1]
  PROVE  PairInv'
<1>1. SUFFICES ASSUME task = 9 PROVE PairInv'
  BY DEF PairInv
<1>2. flFaults' = 0 => flFaults = 0
  BY DEF LinesInv, LinesType
<1>3. \A q \in FilePairs :
             /\ made[q] <= FileLinesCount + 1
             /\ wpc[q] = "append" => made[q] <= FileLinesCount
             /\ wpc[q] \in {"new", "empty", "fork"} => made[q] = 0
             /\ rpc'[q] \in {"new", "wait", "read"} => first'[q] = <<>>
  BY <1>1 DEF LinesInv, PairInv
<1>4. flFaults' = 0 => \A q \in FilePairs :
             /\ rpc'[q] \notin {"failed", "killed"} /\ wpc[q] \notin {"failed", "killed"}
             /\ wpc[q] \in {"next", "append", "post", "child", "done"} => rpc'[q] # "new"
             /\ wpc[q] \in {"child", "done"} => made[q] = FileLinesCount + 1
  BY <1>1, <1>2 DEF LinesInv, PairInv
<1>5. ASSUME flFaults' = 0, ~spoiled', NEW w \in FilePairs, Latest(w)'
      PROVE  /\ Len(written) = made[w]
             /\ \A n \in 1 .. Len(written) : written[n] = LineOf(w, n)
             /\ rpc'[w] = "post" /\ first'[w] # <<>> =>
                  Len(flTaken') > 0 /\ flTaken'[Len(flTaken')] = first'[w][1]
             /\ rpc'[w] # "done"
  <2>1. Latest(w) /\ w = p
    BY <1>1, <1>5, InsideStep
  <2>2. Len(written) = made[w] /\ \A n \in 1 .. Len(written) : written[n] = LineOf(w, n)
    BY <1>1, <1>2, <1>5, <2>1 DEF LinesInv, PairInv
  <2>. QED
    BY <1>5, <2>1, <2>2
<1>. QED
  BY <1>1, <1>3, <1>4, <1>5 DEF PairInv

\* The reader takes the first line and what it has room for.
LEMMA ReadFileStep ==
  ASSUME LinesInv, NEW p \in FilePairs, Lines!ReadFile(p)
  PROVE  LinesInv'
<1>. DEFINE r == [i \in 1 .. Lines!Least(Len(file) - 1, FileRest) |-> file[i + 1]]
            h == <<Head(file)>>
<1>0. /\ rpc[p] = "read"
      /\ \/ /\ file # <<>> /\ rpc' = [rpc EXCEPT ![p] = "truncate"] /\ flFaults' = flFaults
            /\ first' = [first EXCEPT ![p] = h] /\ rest' = [rest EXCEPT ![p] = r]
            /\ spoiled' = (spoiled \/ Len(file) - 1 > FileRest)
         \/ /\ rpc' = [rpc EXCEPT ![p] = "post"] /\ first' = first /\ rest' = rest
            /\ spoiled' = spoiled /\ flFaults' \in {flFaults, flFaults + 1}
      /\ UNCHANGED <<task, wpc, made, flValue, named, uses, file, written, flTaken>>
  BY DEF Lines!ReadFile, Lines!R, Lines!Fault, Lines!flSem
<1>1. /\ Len(file) \in Nat /\ FileRest \in Nat
      /\ file # <<>> => /\ h \in Seq(Line) /\ r \in Seq(Line) /\ Len(h) = 1
                        /\ Len(file) - 1 <= FileRest => h \o r = file
  BY HeadAndRest, LenProperties, ConcurrentAssumption DEF LinesInv, LinesType
<1>. HIDE DEF r, h
<1>2. /\ rpc'[p] \in {"truncate", "post"}
      /\ \A q \in FilePairs : q # p => rpc'[q] = rpc[q] /\ first'[q] = first[q]
      /\ rpc'[p] = "post" => first'[p] = first[p]
  BY <1>0 DEF LinesInv, LinesType
<1>3. (spoiled => spoiled') /\ Reads(p) /\ flFaults' \in {flFaults, flFaults + 1}
  <2>1. spoiled => spoiled'
    BY <1>0, Zenon
  <2>2. Reads(p)
    BY <1>0 DEF Reads
  <2>3. flFaults' \in {flFaults, flFaults + 1}
    BY <1>0
  <2>. QED
    BY <2>1, <2>2, <2>3
<1>4. LinesType'
  <2>1. first' \in [FilePairs -> Seq(Line)] /\ rest' \in [FilePairs -> Seq(Line)]
    <3>1. first \in [FilePairs -> Seq(Line)] /\ rest \in [FilePairs -> Seq(Line)]
      BY DEF LinesInv, LinesType
    <3>2. CASE file # <<>> /\ first' = [first EXCEPT ![p] = h] /\ rest' = [rest EXCEPT ![p] = r]
      BY <1>1, <3>1, <3>2, PutAt
    <3>. QED
      BY <1>0, <3>1, <3>2
  <2>2. rpc' \in [FilePairs -> {"new", "wait", "read", "truncate", "write", "post", "done",
                                "failed", "killed"}]
    BY <1>0 DEF LinesInv, LinesType
  <2>3. spoiled' \in BOOLEAN
    BY <1>0 DEF LinesInv, LinesType
  <2>4. flFaults' \in Nat
    BY <1>3 DEF LinesInv, LinesType
  <2>. QED
    BY <1>0, <2>1, <2>2, <2>3, <2>4 DEF LinesInv, LinesType
<1>5. /\ StageInv' /\ SemInv' /\ TogetherInv'
      /\ ~spoiled => \A q \in FilePairs : q # p => rpc'[q] \notin {"truncate", "write", "post"}
      /\ ~spoiled => written = flTaken \o file
  BY <1>0, <1>2, <1>3, InsideStep
<1>6. BalanceInv'
  <2>1. ASSUME ~spoiled', rpc'[p] = "truncate"
        PROVE  first'[p] \o rest'[p] = file /\ Len(first'[p]) = 1
    <3>1. file # <<>> /\ first' = [first EXCEPT ![p] = h] /\ rest' = [rest EXCEPT ![p] = r]
      BY <1>0, <2>1 DEF LinesInv, LinesType
    <3>2. Len(file) - 1 <= FileRest
      <4>1. spoiled' = (spoiled \/ Len(file) - 1 > FileRest)
        BY <1>0, <2>1 DEF LinesInv, LinesType
      <4>2. ~(Len(file) - 1 > FileRest)
        BY <2>1, <4>1, Zenon
      <4>. QED
        BY <1>1, <4>2
    <3>3. first'[p] = h /\ rest'[p] = r
      BY <3>1 DEF LinesInv, LinesType
    <3>. QED
      BY <1>1, <3>1, <3>2, <3>3
  <2>2. \A q \in FilePairs : ~spoiled' => rpc'[q] # "write" /\ (rpc'[q] = "truncate" => q = p)
    BY <1>2, <1>3, <1>5
  <2>. QED
    BY <1>0, <1>3, <1>5, <2>1, <2>2 DEF BalanceInv
<1>7. PairInv'
  <2>1. CASE task = 9
    <3>1. first[p] = <<>>
      BY <1>0, <2>1 DEF LinesInv, PairInv
    <3>. QED
      BY <1>0, <1>2, <1>3, <3>1, InsidePair
  <2>2. CASE task # 9
    BY <1>0, <2>2 DEF PairInv
  <2>. QED
    BY <2>1, <2>2
<1>. QED
  BY <1>4, <1>5, <1>6, <1>7 DEF LinesInv

\* It empties the file, or fopen fails.
LEMMA TruncateStep ==
  ASSUME LinesInv, NEW p \in FilePairs, Lines!Truncate(p)
  PROVE  LinesInv'
<1>0. /\ rpc[p] = "truncate"
      /\ \/ file' = <<>> /\ rpc' = [rpc EXCEPT ![p] = "write"] /\ flFaults' = flFaults /\ spoiled' = spoiled
         \/ file' = file /\ rpc' = [rpc EXCEPT ![p] = "post"] /\ flFaults' = flFaults + 1 /\ spoiled' = TRUE
      /\ UNCHANGED <<task, wpc, made, flValue, named, uses, first, rest, written, flTaken>>
  BY DEF Lines!Truncate, Lines!R, Lines!Fault, Lines!flSem
<1>2. /\ rpc'[p] \in {"write", "post"} /\ \A q \in FilePairs : q # p => rpc'[q] = rpc[q]
      /\ rpc'[p] = "write" => file' = <<>>
      /\ rpc'[p] = "post" => spoiled'
  BY <1>0 DEF LinesInv, LinesType
<1>3. (spoiled => spoiled') /\ Reads(p) /\ flFaults' \in {flFaults, flFaults + 1}
  BY <1>0 DEF Reads
<1>4. LinesType'
  <2>1. <<>> \in Seq(Line)
    OBVIOUS
  <2>2. file' \in Seq(Line)
    BY <1>0, <2>1 DEF LinesInv, LinesType
  <2>3. rpc' \in [FilePairs -> {"new", "wait", "read", "truncate", "write", "post", "done",
                                "failed", "killed"}]
    BY <1>0 DEF LinesInv, LinesType
  <2>4. spoiled' \in BOOLEAN
    BY <1>0 DEF LinesInv, LinesType
  <2>5. flFaults' \in Nat
    BY <1>3 DEF LinesInv, LinesType
  <2>. QED
    BY <1>0, <2>1, <2>2, <2>3, <2>4, <2>5 DEF LinesInv, LinesType
<1>5. /\ StageInv' /\ SemInv' /\ TogetherInv'
      /\ ~spoiled => \A q \in FilePairs : q # p => rpc'[q] \notin {"truncate", "write", "post"}
      /\ ~spoiled => written = flTaken \o file
  BY <1>0, <1>2, <1>3, InsideStep
<1>6. BalanceInv'
  <2>1. ~spoiled => first[p] \o rest[p] = file /\ Len(first[p]) = 1
    BY <1>0 DEF LinesInv, BalanceInv
  <2>2. ~spoiled' => /\ rpc'[p] = "write" /\ file' = <<>>
                     /\ written = flTaken \o (first[p] \o rest[p]) /\ Len(first[p]) = 1
    BY <1>2, <1>3, <1>5, <2>1
  <2>3. ~spoiled' => \A q \in FilePairs : rpc'[q] \in {"truncate", "write"} => q = p
    BY <1>3, <1>5
  <2>. QED
    BY <1>0, <2>2, <2>3 DEF BalanceInv, HalfDone
<1>7. PairInv'
  BY <1>0, <1>2, <1>3, InsidePair
<1>. QED
  BY <1>4, <1>5, <1>6, <1>7 DEF LinesInv

\* It writes the rest back; the first line is taken.
LEMMA WriteRestStep ==
  ASSUME LinesInv, NEW p \in FilePairs, Lines!WriteRest(p)
  PROVE  LinesInv'
<1>0. /\ rpc[p] = "write" /\ rpc' = [rpc EXCEPT ![p] = "post"]
      /\ file' = file \o rest[p] /\ flTaken' = flTaken \o first[p]
      /\ UNCHANGED <<task, wpc, made, flValue, named, uses, first, rest, written, spoiled,
                     flFaults>>
  BY DEF Lines!WriteRest, Lines!R, Lines!flSem
<1>1. /\ file \in Seq(Line) /\ flTaken \in Seq(Line) /\ first[p] \in Seq(Line) /\ rest[p] \in Seq(Line)
  BY DEF LinesInv, LinesType
<1>2. rpc'[p] = "post" /\ \A q \in FilePairs : q # p => rpc'[q] = rpc[q]
  BY <1>0 DEF LinesInv, LinesType
<1>3. Reads(p)
  BY <1>0 DEF Reads
<1>4. LinesType'
  <2>1. file \o rest[p] \in Seq(Line) /\ flTaken \o first[p] \in Seq(Line)
    BY <1>1, ConcatProperties
  <2>2. rpc' \in [FilePairs -> {"new", "wait", "read", "truncate", "write", "post", "done",
                                "failed", "killed"}]
    BY <1>0 DEF LinesInv, LinesType
  <2>. QED
    BY <1>0, <2>1, <2>2 DEF LinesInv, LinesType
<1>5. /\ StageInv' /\ SemInv' /\ TogetherInv'
      /\ ~spoiled => \A q \in FilePairs : q # p => rpc'[q] \notin {"truncate", "write", "post"}
  BY <1>0, <1>2, <1>3, InsideStep
<1>6. ~spoiled => HalfDone(p) /\ Len(first[p]) = 1
  BY <1>0 DEF LinesInv, BalanceInv
<1>7. BalanceInv'
  <2>1. <<>> \o rest[p] = rest[p]
    BY <1>1, ConcatEmptySeq
  <2>. DEFINE h == first[p]
              r == rest[p]
  <2>2. (flTaken \o h) \o r = flTaken \o (h \o r)
    <3>1. h \in Seq(Line) /\ r \in Seq(Line)
      BY <1>1
    <3>. HIDE DEF h, r
    <3>. QED
      BY <1>1, <3>1, ConcatAssociative, SMTT(30)
  <2>3. ~spoiled => written = flTaken' \o file'
    BY <1>0, <1>6, <2>1, <2>2 DEF HalfDone
  <2>4. ~spoiled => \A q \in FilePairs : rpc'[q] \notin {"truncate", "write"}
    BY <1>2, <1>5
  <2>. QED
    BY <1>0, <2>3, <2>4 DEF BalanceInv
<1>8. ~spoiled => Len(flTaken') > 0 /\ flTaken'[Len(flTaken')] = first[p][1]
  <2>1. /\ Len(flTaken') = Len(flTaken) + Len(first[p])
        /\ \A i \in 1 .. Len(flTaken) + Len(first[p]) :
             flTaken'[i] = IF i <= Len(flTaken) THEN flTaken[i] ELSE first[p][i - Len(flTaken)]
    BY <1>0, <1>1, ConcatProperties
  <2>2. Len(flTaken) \in Nat
    BY <1>1, LenProperties
  <2>3. ~spoiled => Len(flTaken') = Len(flTaken) + 1
    BY <1>6, <2>1
  <2>4. ~spoiled => flTaken'[Len(flTaken) + 1] = first[p][(Len(flTaken) + 1) - Len(flTaken)]
    BY <1>6, <2>1, <2>2
  <2>5. (Len(flTaken) + 1) - Len(flTaken) = 1 /\ Len(flTaken) + 1 > 0
    BY <2>2
  <2>. QED
    BY <2>3, <2>4, <2>5
<1>9. PairInv'
  BY <1>0, <1>2, <1>3, <1>8, InsidePair
<1>. QED
  BY <1>4, <1>5, <1>7, <1>9 DEF LinesInv

\* A reader gives the semaphore back; task9's child leaves after END.
LEMMA ReaderPostStep ==
  ASSUME LinesInv, NEW p \in FilePairs, Lines!ReaderPost(p)
  PROVE  LinesInv'
<1>. DEFINE s == Lines!Sem(p)
<1>0. /\ rpc[p] = "post" /\ flValue' = [flValue EXCEPT ![s] = flValue[s] + 1]
      /\ rpc' = [rpc EXCEPT ![p] = IF first[p] # <<>> /\ first[p][1][2] = 0 THEN "done" ELSE "wait"]
      /\ first' = [first EXCEPT ![p] = <<>>] /\ rest' = [rest EXCEPT ![p] = <<>>]
      /\ UNCHANGED <<task, wpc, made, named, uses, file, written, flTaken, spoiled, flFaults>>
  BY DEF Lines!ReaderPost, Lines!R, Lines!SemPost, Lines!END
<1>1. Reads(p) /\ Lines!ReaderUp(p)
  BY <1>0 DEF Reads, Lines!ReaderUp, Lines!Over
<1>2. s \in FilePairs /\ flValue[s] = 0 /\ (~spoiled => s = named)
  BY <1>1, SemKnown DEF LinesInv, SemInv
<1>3. \A q \in FilePairs : wpc[q] = "new" => s # q
  BY <1>1, SemKnown DEF LinesInv, LinesType, StageInv, Lines!Sem
<1>. HIDE DEF s
<1>4. /\ flValue' = [flValue EXCEPT ![s] = 1]
      /\ \A q \in FilePairs : q # s => flValue'[q] = flValue[q]
  <2>1. flValue' = [flValue EXCEPT ![s] = 1]
    BY <1>0, <1>2
  <2>. QED
    BY <2>1 DEF LinesInv, LinesType
<1>5. /\ rpc'[p] \in {"done", "wait"} /\ \A q \in FilePairs : q # p => rpc'[q] = rpc[q]
      /\ first'[p] = <<>> /\ \A q \in FilePairs : q # p => first'[q] = first[q]
      /\ rpc'[p] = "done" => first[p] # <<>> /\ first[p][1][2] = 0
  BY <1>0 DEF LinesInv, LinesType
<1>6. \A q \in FilePairs : /\ (Writes(q)' <=> Writes(q)) /\ (Reads(q)' <=> Reads(q) /\ q # p)
                           /\ (Up(q)' <=> Up(q))
                           /\ (Latest(q)' <=> Latest(q)) /\ (Lines!ReaderUp(q)' => Lines!ReaderUp(q))
  BY <1>0, <1>1, <1>5 DEF Writes, Reads, Up, Latest, Lines!ReaderUp, Lines!Over
<1>7. LinesType'
  <2>1. <<>> \in Seq(Line)
    OBVIOUS
  <2>2. first' \in [FilePairs -> Seq(Line)] /\ rest' \in [FilePairs -> Seq(Line)]
    BY <1>0, <2>1, PutAt DEF LinesInv, LinesType
  <2>3. rpc' \in [FilePairs -> {"new", "wait", "read", "truncate", "write", "post", "done",
                                "failed", "killed"}]
    BY <1>0 DEF LinesInv, LinesType
  <2>4. flValue' \in [FilePairs -> {0, 1}]
    BY <1>2, <1>4 DEF LinesInv, LinesType
  <2>. QED
    BY <1>0, <2>2, <2>3, <2>4 DEF LinesInv, LinesType
<1>8. StageInv'
  <2>1. \A q \in FilePairs : rpc'[q] = "new" <=> rpc[q] = "new"
    BY <1>0, <1>5
  <2>2. \A q \in FilePairs : task = 8 => wpc[q] # "setval"
    BY <1>1 DEF LinesInv, StageInv
  <2>. QED
    BY <1>0, <1>3, <1>4, <1>6, <2>1, <2>2 DEF LinesInv, StageInv
<1>9. SemInv'
  <2>1. \A q \in FilePairs : Lines!Sem(q)' = Lines!Sem(q)
    BY <1>0 DEF Lines!Sem
  <2>2. Lines!Sem(p) = s
    BY DEF s
  <2>3. ~Writes(p)' /\ ~Reads(p)'
    BY <1>1, <1>6 DEF LinesInv, SemInv
  <2>. QED
    BY <1>1, <1>2, <1>4, <1>6, <2>1, <2>2, <2>3, SemLeave DEF LinesInv, LinesType
<1>10. TogetherInv'
  BY <1>0, <1>6 DEF LinesInv, TogetherInv
<1>11. ~spoiled => \A q \in FilePairs : rpc[q] \notin {"truncate", "write"} /\ rpc'[q] \notin {"truncate", "write"}
  BY <1>0, <1>1, <1>5, AloneInside DEF Reads
<1>12. ~spoiled => written = flTaken \o file
  BY <1>1, <1>11 DEF LinesInv, BalanceInv, Stuck
<1>13. BalanceInv'
  BY <1>0, <1>11, <1>12 DEF BalanceInv
<1>14. ASSUME task = 9, flFaults = 0, ~spoiled, Latest(p), rpc'[p] = "done"
       PROVE  made[p] = FileLinesCount + 1 /\ flTaken = written
  <2>. DEFINE m == Len(flTaken)
  <2>1. /\ m > 0 /\ flTaken[m] = first[p][1] /\ first[p][1][2] = 0
        /\ Len(written) = made[p] /\ \A n \in 1 .. Len(written) : written[n] = LineOf(p, n)
        /\ made[p] <= FileLinesCount + 1
    BY <1>0, <1>5, <1>14 DEF LinesInv, PairInv
  <2>2. /\ flTaken \in Seq(Line) /\ file \in Seq(Line) /\ m \in Nat /\ Len(file) \in Nat
        /\ made[p] \in Nat /\ FileLinesCount \in Nat
    BY LenProperties, ConcurrentAssumption DEF LinesInv, LinesType
  <2>3. /\ Len(written) = m + Len(file)
        /\ written[m] = flTaken[m]
    <3>1. /\ Len(flTaken \o file) = m + Len(file)
          /\ \A i \in 1 .. m + Len(file) :
               (flTaken \o file)[i] = IF i <= m THEN flTaken[i] ELSE file[i - m]
      BY <2>2, ConcatProperties
    <3>2. m \in 1 .. m + Len(file) /\ m <= m
      BY <2>1, <2>2
    <3>. QED
      BY <1>12, <1>14, <3>1, <3>2
  <2>. HIDE DEF m
  <2>4. m \in 1 .. Len(written)
    BY <2>1, <2>2, <2>3
  <2>5. LineOf(p, m)[2] = 0
    BY <2>1, <2>3, <2>4
  <2>6. m > FileLinesCount
    BY <2>1, <2>2, <2>5 DEF LineOf
  <2>7. made[p] = FileLinesCount + 1 /\ Len(file) = 0
    BY <2>1, <2>2, <2>3, <2>6
  <2>8. file = <<>>
    BY <2>2, <2>7, EmptySeq
  <2>9. flTaken \o <<>> = flTaken
    BY <2>2, ConcatEmptySeq
  <2>. QED
    BY <1>12, <1>14, <2>7, <2>8, <2>9
<1>15. PairInv'
  <2>1. SUFFICES ASSUME task = 9 PROVE PairInv'
    BY <1>0 DEF PairInv
  <2>2. \A q \in FilePairs :
             /\ made[q] <= FileLinesCount + 1
             /\ wpc[q] = "append" => made[q] <= FileLinesCount
             /\ wpc[q] \in {"new", "empty", "fork"} => made[q] = 0
             /\ rpc'[q] \in {"new", "wait", "read"} => first'[q] = <<>>
    BY <1>5, <2>1 DEF LinesInv, PairInv
  <2>3. flFaults = 0 => \A q \in FilePairs :
             /\ rpc'[q] \notin {"failed", "killed"} /\ wpc[q] \notin {"failed", "killed"}
             /\ wpc[q] \in {"next", "append", "post", "child", "done"} => rpc'[q] # "new"
             /\ wpc[q] \in {"child", "done"} => made[q] = FileLinesCount + 1
    BY <1>5, <2>1 DEF LinesInv, PairInv
  <2>4. ASSUME flFaults = 0, ~spoiled, NEW w \in FilePairs, Latest(w)
        PROVE  /\ Len(written) = made[w]
               /\ \A n \in 1 .. Len(written) : written[n] = LineOf(w, n)
               /\ rpc'[w] # "post"
               /\ rpc'[w] = "done" => made[w] = FileLinesCount + 1 /\ flTaken = written
    <3>1. w = p
      BY <1>1, <2>1, <2>4 DEF LinesInv, TogetherInv
    <3>2. Len(written) = made[w] /\ \A n \in 1 .. Len(written) : written[n] = LineOf(w, n)
      BY <2>1, <2>4 DEF LinesInv, PairInv
    <3>. QED
      BY <1>5, <1>14, <2>1, <2>4, <3>1, <3>2
  <2>. QED
    BY <1>0, <1>6, <2>2, <2>3, <2>4 DEF PairInv
<1>. QED
  BY <1>7, <1>8, <1>9, <1>10, <1>13, <1>15 DEF LinesInv

LEMMA LinesStart == Init => LinesInv
<1>. SUFFICES ASSUME Lines!Init PROVE LinesInv
  BY DEF Init
<1>. USE DEF Lines!Init
<1>1. <<>> \in Seq(Line) /\ <<>> = <<>> \o <<>>
  OBVIOUS
<1>2. LinesType
  BY <1>1 DEF LinesType
<1>3. \A p \in FilePairs : ~Writes(p) /\ ~Reads(p) /\ ~Up(p) /\ ~Lines!ReaderUp(p) /\ ~Latest(p)
  BY DEF Writes, Reads, Up, Lines!ReaderUp, Lines!Over, Latest
<1>4. \A p \in FilePairs : p # 0 /\ wpc[p] = "new" /\ rpc[p] = "new"
  BY ConcurrentAssumption
<1>5. StageInv
  BY <1>3, <1>4 DEF StageInv
<1>6. SemInv /\ TogetherInv
  BY <1>3 DEF SemInv, TogetherInv
<1>7. BalanceInv
  BY <1>1, <1>4 DEF BalanceInv
<1>8. PairInv
  BY <1>3, <1>4, ConcurrentAssumption DEF PairInv
<1>. QED
  BY <1>2, <1>5, <1>6, <1>7, <1>8 DEF LinesInv

LEMMA LinesNext ==
  ASSUME LinesInv, [Next]_vars
  PROVE  LinesInv'
<1>1. CASE Lines!Next
  BY <1>1, StartProducerStep, StartConsumerStep, StartPairStep, WriterWaitStep, AppendLineStep,
     WriterPostStep, EndPairStep, ReaderWaitStep, ReadFileStep, TruncateStep, WriteRestStep,
     ReaderPostStep, KillLineStep
  DEF Lines!Next, Lines!Step
<1>2. CASE UNCHANGED flVars
  <2>. USE <1>2 DEF LinesInv, flVars
  <2>1. LinesType'
    BY DEF LinesType
  <2>2. \A q \in FilePairs : /\ (Writes(q)' <=> Writes(q)) /\ (Reads(q)' <=> Reads(q))
                             /\ (Up(q)' <=> Up(q))
                             /\ (Latest(q)' <=> Latest(q)) /\ (Lines!ReaderUp(q)' <=> Lines!ReaderUp(q))
    BY DEF Writes, Reads, Up, Latest, Lines!ReaderUp
  <2>3. StageInv' /\ TogetherInv'
    BY <2>2 DEF StageInv, TogetherInv
  <2>4. SemInv'
    BY <2>2, SemKeep DEF Lines!Sem
  <2>5. BalanceInv' /\ PairInv'
    BY <2>2 DEF BalanceInv, Stuck, HalfDone, PairInv
  <2>. QED
    BY <2>1, <2>3, <2>4, <2>5
<1>. QED
  BY <1>1, <1>2 DEF Next, vars

\* The lines of module3/task8 and task9: whenever the semaphore is free, those taken and
\* those in the file are the lines written, whoever was killed; a parent that has ended
\* without a fault has had all its lines taken.  Unless a line was lost in one of the ways
\* that "spoiled" records.
THEOREM LinesAreHandedOn == Spec => []LinesHandedOn
<1>1. LinesInv /\ [Next]_vars => LinesInv'
  BY LinesNext
<1>2. LinesInv => LinesHandedOn
  <2>. SUFFICES ASSUME LinesInv, ~spoiled
                PROVE  /\ named # 0 /\ flValue[named] = 1 => written = flTaken \o file
                       /\ \A w \in FilePairs : task = 9 /\ wpc[w] = "done" /\ flFaults = 0 =>
                            flTaken = [n \in 1 .. FileLinesCount + 1 |->
                                         <<w, IF n > FileLinesCount THEN 0 ELSE n>>]
                            \/ \E v \in FilePairs : v > w /\ wpc[v] # "new"
    BY DEF LinesHandedOn, Lines!LinesHandedOn, Lines!END
  <2>1. named # 0 /\ flValue[named] = 1 => written = flTaken \o file
    BY FreeMeans DEF LinesInv, LinesType
  <2>2. ASSUME NEW w \in FilePairs, task = 9, wpc[w] = "done", flFaults = 0,
               \A v \in FilePairs : v > w => wpc[v] = "new"
        PROVE  flTaken = [n \in 1 .. FileLinesCount + 1 |->
                            <<w, IF n > FileLinesCount THEN 0 ELSE n>>]
    <3>1. Latest(w)
      BY <2>2 DEF Latest
    <3>2. rpc[w] = "done"
      BY <2>2 DEF LinesInv, LinesType, StageInv, PairInv, Lines!ReaderUp, Lines!Over
    <3>3. /\ flTaken = written /\ Len(written) = FileLinesCount + 1
          /\ \A n \in 1 .. Len(written) : written[n] = LineOf(w, n)
      BY <2>2, <3>1, <3>2 DEF LinesInv, PairInv
    <3>4. written = [n \in 1 .. Len(written) |-> written[n]]
      BY LenProperties DEF LinesInv, LinesType
    <3>. QED
      BY <3>3, <3>4 DEF LineOf
  <2>. QED
    BY <2>1, <2>2
<1>. QED
  BY <1>1, <1>2, LinesStart, PTL DEF Spec
=============================================================================
