-------------------------- MODULE VehicleRefreshProofs --------------------------
(***************************************************************************)
(* Proofs about VehicleRefresh, for any threads, offsets and length of the *)
(* clock, and every client.                                                *)
(***************************************************************************)
EXTENDS VehicleRefresh, TLAPS

-----------------------------------------------------------------------------
(* What a program, or what is left of one, looks like.  Each of these holds  *)
(* of the tail of a sequence if it holds of the sequence.                    *)

Places(p) == 1..Len(p)

\* A step of the set a is always followed, later, by one of b.
Later(p, a, b) == \A i \in Places(p) : p[i] \in a => \E j \in Places(p) : j > i /\ p[j] \in b

\* A step of the set a always has one of b before it.
Earlier(p, a, b) == \A i \in Places(p) : p[i] \in a => \E j \in Places(p) : j < i /\ p[j] \in b

\* a is always followed at once by b, and b comes from nothing else.
Paired(p, a, b) ==
  /\ \A i \in Places(p) : p[i] = a => i + 1 \in Places(p)
  /\ \A i \in Places(p) : i + 1 \in Places(p) => (p[i] = a <=> p[i + 1] = b)

\* Nothing of b comes after a step of a.
NoneAfter(p, a, b) ==
  \A i, j \in Places(p) : i < j /\ p[i] \in a => p[j] \notin b

Asks    == {"ask", "read", "reread"}
Sources == {"ask", "reread", "poll"}
Takes   == {"body", "deliver"}
Lasts   == {"body", "deliver", "park", "keep", "more"}

\* The clients that ask for the parked location after the status.
Parkers == {"EU", "EULegacy", "AU"}

WellFormed(c, p) ==
  /\ p \in Seq(Steps)
  /\ \A i \in Places(p) : i = Len(p) => p[i] \in Lasts
  /\ NoneAfter(p, Takes, Takes)
  /\ NoneAfter(p, {"park"}, Takes)
  /\ Paired(p, "head", "body") /\ Paired(p, "ota", "keep")
  /\ Later(p, Asks \cup {"locate", "poll"}, Takes)
  /\ c \in Parkers =>
       /\ Later(p, {"read", "reread", "poll"}, {"park"})
       /\ c # "EULegacy" => Later(p, {"ask"}, {"park"})
       /\ \A i \in Places(p) : i + 1 \in Places(p) /\ p[i + 1] = "park" => p[i] = "body"
  /\ \A i \in Places(p) : p[i] = "reread" => c # "SVM"

Starts(c, k, p) ==
  /\ p # <<>> /\ p[1] \notin {"body", "keep"}
  /\ Earlier(p, {"head"}, Asks)
  /\ k = "forced" /\ c \notin {"EU", "HyundaiCCI"} =>
       Earlier(p, Takes, Sources) /\ Earlier(p, {"reread", "poll"}, {"baseline"})

LEMMA TailFacts ==
  ASSUME NEW p \in Seq(Steps), p # <<>>
  PROVE  /\ Tail(p) \in Seq(Steps) /\ Len(Tail(p)) = Len(p) - 1 /\ Len(p) \in Nat \ {0}
         /\ \A i \in Places(Tail(p)) : i + 1 \in Places(p) /\ Tail(p)[i] = p[i + 1]
         /\ \A i \in Places(p) : i # 1 => i - 1 \in Places(Tail(p)) /\ Tail(p)[i - 1] = p[i]
         /\ Head(p) = p[1] /\ 1 \in Places(p)
         /\ Tail(p) = <<>> => Len(p) = 1
<1>1. /\ Tail(p) \in Seq(Steps) /\ Len(Tail(p)) = Len(p) - 1 /\ Len(p) \in Nat \ {0}
      /\ Head(p) = p[1]
  OBVIOUS
<1>2. \A i \in 1..Len(p) - 1 : Tail(p)[i] = p[i + 1]
  OBVIOUS
<1>3. 1 \in Places(p) /\ \A i \in Places(Tail(p)) : i + 1 \in Places(p)
  BY <1>1 DEF Places
<1>4. ASSUME NEW i \in Places(p), i # 1
      PROVE  i - 1 \in Places(Tail(p)) /\ Tail(p)[i - 1] = p[i]
  <2>1. i - 1 \in 1..Len(p) - 1 /\ (i - 1) + 1 = i
    BY <1>1, <1>4 DEF Places
  <2> QED
    BY <1>1, <1>2, <2>1 DEF Places
<1>5. ASSUME Tail(p) = <<>>
      PROVE  Len(p) = 1
  <2>1. Len(<<>>) = 0
    OBVIOUS
  <2>2. Len(p) - 1 = 0
    BY <1>1, <1>5, <2>1, Zenon
  <2>3. \A n \in Nat \ {0} : n - 1 = 0 => n = 1
    OBVIOUS
  <2> QED
    BY <1>1, <2>2, <2>3, Zenon
<1>6. \A i \in Places(Tail(p)) : Tail(p)[i] = p[i + 1]
  BY <1>1, <1>2 DEF Places
<1> QED
  BY <1>1, <1>3, <1>4, <1>5, <1>6

LEMMA TailLater ==
  ASSUME NEW p \in Seq(Steps), p # <<>>, NEW a, NEW b, Later(p, a, b)
  PROVE  Later(Tail(p), a, b)
<1> SUFFICES ASSUME NEW i \in Places(Tail(p)), Tail(p)[i] \in a
             PROVE  \E j \in Places(Tail(p)) : j > i /\ Tail(p)[j] \in b
  BY DEF Later
<1>1. i \in Nat /\ i + 1 \in Places(p) /\ p[i + 1] \in a
  BY TailFacts DEF Places
<1>2. PICK j \in Places(p) : j > i + 1 /\ p[j] \in b
  BY <1>1 DEF Later
<1>3. j \in Int /\ j # 1 /\ j - 1 > i
  BY <1>1, <1>2 DEF Places
<1> QED
  BY <1>2, <1>3, TailFacts

LEMMA TailNoneAfter ==
  ASSUME NEW p \in Seq(Steps), p # <<>>, NEW a, NEW b, NoneAfter(p, a, b)
  PROVE  NoneAfter(Tail(p), a, b)
<1> SUFFICES ASSUME NEW i \in Places(Tail(p)), NEW j \in Places(Tail(p)), i < j, Tail(p)[i] \in a
             PROVE  Tail(p)[j] \notin b
  BY DEF NoneAfter
<1>1. /\ i + 1 \in Places(p) /\ p[i + 1] \in a
      /\ j + 1 \in Places(p) /\ p[j + 1] = Tail(p)[j]
  BY TailFacts
<1>2. i + 1 < j + 1
  BY DEF Places
<1> QED
  BY <1>1, <1>2 DEF NoneAfter

LEMMA TailPaired ==
  ASSUME NEW p \in Seq(Steps), p # <<>>, NEW a, NEW b, Paired(p, a, b)
  PROVE  Paired(Tail(p), a, b)
<1>1. ASSUME NEW i \in Places(Tail(p)), Tail(p)[i] = a
      PROVE  i + 1 \in Places(Tail(p))
  <2>1. i \in Nat /\ i + 1 \in Places(p) /\ p[i + 1] = a
    BY <1>1, TailFacts DEF Places
  <2>2. i + 2 \in Places(p)
    BY <2>1 DEF Paired, Places
  <2> QED
    BY <2>1, <2>2, TailFacts DEF Places
<1>2. ASSUME NEW i \in Places(Tail(p)), i + 1 \in Places(Tail(p))
      PROVE  Tail(p)[i] = a <=> Tail(p)[i + 1] = b
  <2>1. /\ i \in Nat /\ i + 1 \in Places(p) /\ p[i + 1] = Tail(p)[i]
        /\ (i + 1) + 1 \in Places(p) /\ p[(i + 1) + 1] = Tail(p)[i + 1]
    BY <1>2, TailFacts DEF Places
  <2> QED
    BY <2>1 DEF Paired
<1> QED
  BY <1>1, <1>2 DEF Paired

LEMMA TailWellFormed ==
  ASSUME NEW c, NEW p, WellFormed(c, p), p # <<>>
  PROVE  WellFormed(c, Tail(p))
<1>1. p \in Seq(Steps)
  BY DEF WellFormed
<1>2. ASSUME c \in Parkers
      PROVE  \A i \in Places(Tail(p)) :
               i + 1 \in Places(Tail(p)) /\ Tail(p)[i + 1] = "park" => Tail(p)[i] = "body"
  <2> SUFFICES ASSUME NEW i \in Places(Tail(p)), i + 1 \in Places(Tail(p)), Tail(p)[i + 1] = "park"
               PROVE  Tail(p)[i] = "body"
    OBVIOUS
  <2>1. /\ i + 1 \in Places(p) /\ p[i + 1] = Tail(p)[i]
        /\ (i + 1) + 1 \in Places(p) /\ p[(i + 1) + 1] = "park"
    BY <1>1, TailFacts
  <2> QED
    BY <1>2, <2>1 DEF WellFormed
<1>3. \A i \in Places(Tail(p)) : Tail(p)[i] = "reread" => c # "SVM"
  <2>1. \A i \in Places(Tail(p)) : i + 1 \in Places(p) /\ Tail(p)[i] = p[i + 1]
    BY <1>1, TailFacts
  <2>2. \A i \in Places(p) : p[i] = "reread" => c # "SVM"
    BY DEF WellFormed
  <2> QED
    BY <2>1, <2>2
<1>4. c \in Parkers => Later(Tail(p), {"read", "reread", "poll"}, {"park"})
  BY <1>1, TailLater DEF WellFormed
<1>5. c \in Parkers /\ c # "EULegacy" => Later(Tail(p), {"ask"}, {"park"})
  BY <1>1, TailLater DEF WellFormed
<1>6. Later(Tail(p), Asks \cup {"locate", "poll"}, Takes)
  BY <1>1, TailLater DEF WellFormed
<1>7. NoneAfter(Tail(p), Takes, Takes) /\ NoneAfter(Tail(p), {"park"}, Takes)
  BY <1>1, TailNoneAfter DEF WellFormed
<1>8. Paired(Tail(p), "head", "body") /\ Paired(Tail(p), "ota", "keep")
  BY <1>1, TailPaired DEF WellFormed
<1>9. Tail(p) \in Seq(Steps)
  BY <1>1, TailFacts
<1>10. \A i \in Places(Tail(p)) : i = Len(Tail(p)) => Tail(p)[i] \in Lasts
  <2>1. \A i \in Places(Tail(p)) : i = Len(Tail(p)) => i + 1 = Len(p)
    BY <1>1, TailFacts DEF Places
  <2> QED
    BY <1>1, <2>1, TailFacts DEF WellFormed
<1> QED
  BY <1>10, <1>2, <1>3, <1>4, <1>5, <1>6, <1>7, <1>8, <1>9 DEF WellFormed

\* The first of what is left may have been what the rest was waiting for.
LEMMA TailEarlier ==
  ASSUME NEW p \in Seq(Steps), p # <<>>, NEW a, NEW b, Earlier(p, a, b), p[1] \notin b
  PROVE  Earlier(Tail(p), a, b)
<1> SUFFICES ASSUME NEW i \in Places(Tail(p)), Tail(p)[i] \in a
             PROVE  \E j \in Places(Tail(p)) : j < i /\ Tail(p)[j] \in b
  BY DEF Earlier
<1>1. i \in Nat /\ i + 1 \in Places(p) /\ p[i + 1] \in a
  BY TailFacts DEF Places
<1>2. PICK j \in Places(p) : j < i + 1 /\ p[j] \in b
  BY <1>1 DEF Earlier
<1>3. j \in Int /\ j # 1 /\ j - 1 < i
  BY <1>1, <1>2 DEF Places
<1> QED
  BY <1>2, <1>3, TailFacts

LEMMA NotFirst ==
  ASSUME NEW p \in Seq(Steps), p # <<>>, NEW a, NEW b, Earlier(p, a, b)
  PROVE  p[1] \notin a
<1>1. 1 \in Places(p) /\ \A j \in Places(p) : ~ (j < 1)
  BY DEF Places
<1> QED
  BY <1>1 DEF Earlier

-----------------------------------------------------------------------------
(* The programs of the clients.                                             *)

\* A program is well formed; where it starts, nothing has been read yet.
Good(c, k, p) == WellFormed(c, p) /\ Starts(c, k, p)

LEMMA ProgramBR ==
  ASSUME NEW k \in {"cached", "forced"}
  PROVE  Good("BR", k, Program("BR")[k])
<1>1. Good("BR", "cached", CachedBR)
  BY DEF WellFormed, Starts, Good, Places, Later, Earlier, Paired, NoneAfter, Asks,
              Sources, Takes, Lasts, Parkers, Steps, CachedBR
<1>2. Good("BR", "forced", ForcedBR)
  BY DEF WellFormed, Starts, Good, Places, Later, Earlier, Paired, NoneAfter, Asks,
              Sources, Takes, Lasts, Parkers, Steps, ForcedBR
<1> QED
  BY <1>1, <1>2 DEF Program

LEMMA ProgramEU ==
  ASSUME NEW k \in {"cached", "forced"}
  PROVE  Good("EU", k, Program("EU")[k])
<1>1. Good("EU", "cached", CachedEU)
  BY DEF WellFormed, Starts, Good, Places, Later, Earlier, Paired, NoneAfter, Asks,
              Sources, Takes, Lasts, Parkers, Steps, CachedEU
<1>2. Good("EU", "forced", ForcedEU)
  BY DEF WellFormed, Starts, Good, Places, Later, Earlier, Paired, NoneAfter, Asks,
              Sources, Takes, Lasts, Parkers, Steps, ForcedEU
<1> QED
  BY <1>1, <1>2 DEF Program

LEMMA ProgramEULegacy ==
  ASSUME NEW k \in {"cached", "forced"}
  PROVE  Good("EULegacy", k, Program("EULegacy")[k])
<1>1. Good("EULegacy", "cached", CachedEU)
  BY DEF WellFormed, Starts, Good, Places, Later, Earlier, Paired, NoneAfter, Asks,
              Sources, Takes, Lasts, Parkers, Steps, CachedEU
<1>2. Good("EULegacy", "forced", ForcedEULegacy)
  BY DEF WellFormed, Starts, Good, Places, Later, Earlier, Paired, NoneAfter, Asks,
              Sources, Takes, Lasts, Parkers, Steps, ForcedEULegacy
<1> QED
  BY <1>1, <1>2 DEF Program

LEMMA ProgramAU ==
  ASSUME NEW k \in {"cached", "forced"}
  PROVE  Good("AU", k, Program("AU")[k])
<1>1. Good("AU", "cached", CachedAU)
  BY DEF WellFormed, Starts, Good, Places, Later, Earlier, Paired, NoneAfter, Asks,
              Sources, Takes, Lasts, Parkers, Steps, CachedAU
<1>2. Good("AU", "forced", ForcedAU)
  BY DEF WellFormed, Starts, Good, Places, Later, Earlier, Paired, NoneAfter, Asks,
              Sources, Takes, Lasts, Parkers, Steps, ForcedAU
<1> QED
  BY <1>1, <1>2 DEF Program

LEMMA ProgramAULegacy ==
  ASSUME NEW k \in {"cached", "forced"}
  PROVE  Good("AULegacy", k, Program("AULegacy")[k])
<1>1. Good("AULegacy", "cached", CachedAULegacy)
  BY DEF WellFormed, Starts, Good, Places, Later, Earlier, Paired, NoneAfter, Asks,
              Sources, Takes, Lasts, Parkers, Steps, CachedAULegacy
<1>2. Good("AULegacy", "forced", ForcedAULegacy)
  BY DEF WellFormed, Starts, Good, Places, Later, Earlier, Paired, NoneAfter, Asks,
              Sources, Takes, Lasts, Parkers, Steps, ForcedAULegacy
<1> QED
  BY <1>1, <1>2 DEF Program

LEMMA ProgramCN ==
  ASSUME NEW k \in {"cached", "forced"}
  PROVE  Good("CN", k, Program("CN")[k])
<1>1. Good("CN", "cached", CachedCN)
  BY DEF WellFormed, Starts, Good, Places, Later, Earlier, Paired, NoneAfter, Asks,
              Sources, Takes, Lasts, Parkers, Steps, CachedCN
<1>2. Good("CN", "forced", ForcedCN)
  BY DEF WellFormed, Starts, Good, Places, Later, Earlier, Paired, NoneAfter, Asks,
              Sources, Takes, Lasts, Parkers, Steps, ForcedCN
<1> QED
  BY <1>1, <1>2 DEF Program

LEMMA ProgramIndia ==
  ASSUME NEW k \in {"cached", "forced"}
  PROVE  Good("India", k, Program("India")[k])
<1>1. Good("India", "cached", CachedIndia)
  BY DEF WellFormed, Starts, Good, Places, Later, Earlier, Paired, NoneAfter, Asks,
              Sources, Takes, Lasts, Parkers, Steps, CachedIndia
<1>2. Good("India", "forced", ForcedIndia)
  BY DEF WellFormed, Starts, Good, Places, Later, Earlier, Paired, NoneAfter, Asks,
              Sources, Takes, Lasts, Parkers, Steps, ForcedIndia
<1> QED
  BY <1>1, <1>2 DEF Program

LEMMA ProgramHyundaiCCI ==
  ASSUME NEW k \in {"cached", "forced"}
  PROVE  Good("HyundaiCCI", k, Program("HyundaiCCI")[k])
<1>1. Good("HyundaiCCI", "cached", CachedHyundaiCCI)
  BY DEF WellFormed, Starts, Good, Places, Later, Earlier, Paired, NoneAfter, Asks,
              Sources, Takes, Lasts, Parkers, Steps, CachedHyundaiCCI
<1>2. Good("HyundaiCCI", "forced", ForcedHyundaiCCI)
  BY DEF WellFormed, Starts, Good, Places, Later, Earlier, Paired, NoneAfter, Asks,
              Sources, Takes, Lasts, Parkers, Steps, ForcedHyundaiCCI
<1> QED
  BY <1>1, <1>2 DEF Program

LEMMA ProgramKiaUSA ==
  ASSUME NEW k \in {"cached", "forced"}
  PROVE  Good("KiaUSA", k, Program("KiaUSA")[k])
<1>1. Good("KiaUSA", "cached", CachedKiaUSA)
  BY DEF WellFormed, Starts, Good, Places, Later, Earlier, Paired, NoneAfter, Asks,
              Sources, Takes, Lasts, Parkers, Steps, CachedKiaUSA
<1>2. Good("KiaUSA", "forced", ForcedKiaUSA)
  BY DEF WellFormed, Starts, Good, Places, Later, Earlier, Paired, NoneAfter, Asks,
              Sources, Takes, Lasts, Parkers, Steps, ForcedKiaUSA
<1> QED
  BY <1>1, <1>2 DEF Program

LEMMA ProgramHyundaiUSA ==
  ASSUME NEW k \in {"cached", "forced"}
  PROVE  Good("HyundaiUSA", k, Program("HyundaiUSA")[k])
<1>1. Good("HyundaiUSA", "cached", CachedHyundaiUSA)
  BY DEF WellFormed, Starts, Good, Places, Later, Earlier, Paired, NoneAfter, Asks,
              Sources, Takes, Lasts, Parkers, Steps, CachedHyundaiUSA
<1>2. Good("HyundaiUSA", "forced", ForcedHyundaiUSA)
  BY DEF WellFormed, Starts, Good, Places, Later, Earlier, Paired, NoneAfter, Asks,
              Sources, Takes, Lasts, Parkers, Steps, ForcedHyundaiUSA
<1> QED
  BY <1>1, <1>2 DEF Program

LEMMA ProgramSVM ==
  ASSUME NEW k \in {"cached", "forced"}
  PROVE  Good("SVM", k, Program("SVM")[k])
<1>1. Good("SVM", "cached", CaptureSVM)
  BY DEF WellFormed, Starts, Good, Places, Later, Earlier, Paired, NoneAfter, Asks,
              Sources, Takes, Lasts, Parkers, Steps, CaptureSVM
<1>2. Good("SVM", "forced", CaptureSVM)
  BY DEF WellFormed, Starts, Good, Places, Later, Earlier, Paired, NoneAfter, Asks,
              Sources, Takes, Lasts, Parkers, Steps, CaptureSVM
<1> QED
  BY <1>1, <1>2 DEF Program

LEMMA ProgramFacts ==
  ASSUME NEW c \in AllClients, NEW k \in {"cached", "forced"}
  PROVE  WellFormed(c, Program(c)[k]) /\ Starts(c, k, Program(c)[k])
  BY ProgramBR, ProgramEU, ProgramEULegacy, ProgramAU, ProgramAULegacy, ProgramCN,
     ProgramIndia, ProgramHyundaiCCI, ProgramKiaUSA, ProgramHyundaiUSA, ProgramSVM DEF AllClients, Good

-----------------------------------------------------------------------------
(* Types.                                                                   *)

Reports(l) == [at : 0..l, dated : BOOLEAN, where : 0..l]

ThreadTypes ==
  /\ kind \in [Threads -> Kinds]
  /\ todo \in [Threads -> Seq(Steps)]
  /\ got \in [Threads -> Reports(latest)]
  /\ base \in [Threads -> 0..latest]
  /\ held \in [Threads -> BOOLEAN]
  /\ since \in [Threads -> 0..latest]
  /\ refused \in [Threads -> BOOLEAN]
  /\ crowded \in [Threads -> BOOLEAN]

CloudTypes ==
  /\ client \in Clients
  /\ offset \in Offsets[client]
  /\ now \in 1..MaxTime
  /\ latest \in 0..now
  /\ dated \in BOOLEAN
  /\ embedded \in 0..latest

VehicleTypes ==
  /\ stamp \in 0..(MaxTime + Ahead)
  /\ body \in 0..latest
  /\ location \in 0..latest
  /\ checked \in BOOLEAN
  /\ ota \in BOOLEAN
  /\ image \in 0..latest
  /\ blur \in 0..(MaxTime + Ahead)
  /\ seen \in 0..latest
  /\ missed \in BOOLEAN
  /\ otaExcuse \in BOOLEAN

Typed == CloudTypes /\ VehicleTypes /\ ThreadTypes /\ StampWithinOffset

LEMMA TypedIsTypeOK == Typed => TypeOK
  BY DEF Typed, CloudTypes, VehicleTypes, ThreadTypes, TypeOK, Reports

LEMMA NumberFacts ==
  ASSUME Typed
  PROVE  /\ MaxTime \in Nat /\ now \in Nat /\ 1 <= now /\ now <= MaxTime
         /\ offset \in Int /\ Ahead \in Nat /\ offset <= Ahead
         /\ latest \in Nat /\ latest <= now /\ embedded \in Nat /\ embedded <= latest
         /\ stamp \in Nat /\ blur \in Nat /\ stamp <= now + Ahead
         /\ body \in Nat /\ body <= latest /\ seen \in Nat /\ seen <= latest
         /\ location \in Nat /\ location <= latest
         /\ client \in AllClients /\ client \in Clients
  BY RefreshAssumption DEF Typed, CloudTypes, VehicleTypes, Ahead, StampWithinOffset

LEMMA SnapshotTypes ==
  ASSUME Typed
  PROVE  Snapshot \in Reports(latest) /\ Snapshot.at = latest /\ Snapshot.dated = dated
         /\ Snapshot.where \in {0, embedded}
<1>1. dated \in BOOLEAN /\ latest \in Nat /\ embedded \in 0..latest
  BY NumberFacts DEF Typed, CloudTypes
<1> DEFINE w == IF client # "SVM" /\ Status.located THEN embedded ELSE 0
<1>2. w \in {0, embedded}
  OBVIOUS
<1>3. Snapshot = [at |-> latest, dated |-> dated, where |-> w]
  BY DEF Snapshot
<1> HIDE DEF w
<1> QED
  BY <1>1, <1>2, <1>3 DEF Reports

LEMMA NoneTypes == \A l \in Nat : None \in Reports(l)
  BY DEF None, Reports

\* A thread's update is over.
LEMMA FinishTypes ==
  ASSUME Typed, NEW t \in Threads, Finish(t), latest' = latest
  PROVE  ThreadTypes'
<1>1. None \in Reports(latest) /\ latest \in Nat
  BY NoneTypes, NumberFacts
<1>2. <<>> \in Seq(Steps)
  OBVIOUS
<1> QED
  BY <1>1, <1>2 DEF Typed, ThreadTypes, Finish, Kinds

LEMMA AdvanceTypes ==
  ASSUME Typed, NEW t \in Threads, todo[t] # <<>>, Advance(t)
  PROVE  todo' \in [Threads -> Seq(Steps)]
<1>1. todo[t] \in Seq(Steps)
  BY DEF Typed, ThreadTypes
<1>2. Tail(todo[t]) \in Seq(Steps)
  BY <1>1, TailFacts
<1> QED
  BY <1>2 DEF Typed, ThreadTypes, Advance

LEMMA RunTypes ==
  ASSUME Typed, NEW t \in Threads, NEW k \in {"cached", "forced"}, Run(t, k)
  PROVE  Typed'
<1>1. /\ UNCHANGED <<client, offset, now, latest, dated, embedded, stamp, body, location, checked,
                     ota, image, blur, seen, missed, otaExcuse, got, base, held, refused>>
      /\ kind' = [kind EXCEPT ![t] = k]
      /\ todo' = [todo EXCEPT ![t] = Program(client)[k]]
      /\ since' = [since EXCEPT ![t] = IF k = "forced" /\ client \in Promises THEN latest ELSE 0]
      /\ crowded' \in [Threads -> BOOLEAN]
  <2>1. \A u \in Threads : crowded[u] \in BOOLEAN
    BY DEF Typed, ThreadTypes
  <2>2. \A u \in Threads : (crowded[u] \/ ~ Idle(u)) \in BOOLEAN
                           /\ (\E v \in Threads \ {t} : ~ Idle(v)) \in BOOLEAN
    BY <2>1
  <2> QED
    BY <2>2 DEF Run, rigid, cloud, vehicle, history
<1>2. Program(client)[k] \in Seq(Steps)
  BY NumberFacts, ProgramFacts DEF WellFormed
<1>3. CloudTypes' /\ VehicleTypes' /\ StampWithinOffset'
  BY <1>1 DEF Typed, CloudTypes, VehicleTypes, StampWithinOffset, Ahead
<1>4. ThreadTypes'
  <2> DEFINE s == IF k = "forced" /\ client \in Promises THEN latest ELSE 0
  <2>1. s \in 0..latest
    BY NumberFacts
  <2>2. since' = [since EXCEPT ![t] = s]
    BY <1>1
  <2> HIDE DEF s
  <2>3. since' \in [Threads -> 0..latest] /\ kind' \in [Threads -> Kinds]
    BY <2>1, <2>2, <1>1 DEF Typed, ThreadTypes, Kinds
  <2>4. todo' \in [Threads -> Seq(Steps)]
    BY <1>1, <1>2 DEF Typed, ThreadTypes
  <2> QED
    BY <1>1, <2>3, <2>4 DEF Typed, ThreadTypes, Reports
<1> QED
  BY <1>3, <1>4 DEF Typed

\* The corrected time is at most an offset ahead of the clock.
LEMMA StampedFacts ==
  ASSUME Typed, NEW n \in Nat, n <= now
  PROVE  /\ Stamped(stamp, n) \in Nat /\ Stamped(stamp, n) <= now + Ahead
         /\ \/ Stamped(stamp, n) = n
            \/ n < stamp /\ Stamped(stamp, n) \in {stamp, n + offset}
         /\ stamp <= n => Stamped(stamp, n) = n
<1>1. /\ offset \in Int /\ Ahead \in Nat /\ offset <= Ahead /\ stamp \in Nat /\ now \in Nat
      /\ stamp <= now + Ahead
  BY NumberFacts
<1> QED
  BY <1>1 DEF Stamped

LEMMA TimeOfFacts ==
  ASSUME Typed, NEW t \in Threads
  PROVE  /\ TimeOf(got[t]) \in Nat /\ TimeOf(got[t]) <= now
         /\ got[t].dated => TimeOf(got[t]) = got[t].at
<1>1. got[t] \in Reports(latest)
  BY DEF Typed, ThreadTypes
<1>2. got[t].at \in Nat /\ got[t].at <= now
  BY <1>1, NumberFacts DEF Reports
<1> QED
  BY <1>2, NumberFacts DEF TimeOf

LEMMA NewestFacts ==
  \A a, b \in Nat : /\ Newest(a, b) \in {a, b} /\ a <= Newest(a, b) /\ b <= Newest(a, b)
                    /\ b <= a => Newest(a, b) = a
  BY DEF Newest

LEMMA DoubtFacts ==
  ASSUME Typed, NEW t \in Threads, NEW e \in BOOLEAN
  PROVE  /\ DoubtAbout(got[t], e) \in Nat /\ DoubtAbout(got[t], e) <= now + Ahead
         /\ e \/ ~ got[t].dated => DoubtAbout(got[t], e) = now + Ahead
         /\ ~ e /\ got[t].dated /\ got[t].at <= blur => DoubtAbout(got[t], e) = got[t].at + Ahead
<1>1. got[t] \in Reports(latest)
  BY DEF Typed, ThreadTypes
<1>2. got[t].at \in Nat /\ got[t].at <= now
  BY <1>1, NumberFacts DEF Reports
<1> QED
  BY <1>2, NumberFacts DEF DoubtAbout

\* The steps that change neither the vehicle nor the clock, but for Finish.
Fetch(t) ==
  \/ ReadBaseline(t) \/ Wake(t) \/ RequestCapture(t) \/ Read(t) \/ ReadAgain(t)
  \/ PollCapture(t) \/ Locate(t)

\* What they change, by what thread t was about to do.
LEMMA FetchFacts ==
  ASSUME Typed, NEW t \in Threads, Fetch(t)
  PROVE  /\ todo[t] # <<>> /\ Advance(t)
         /\ UNCHANGED <<rigid, now, cloud, vehicle, kind, held, since, crowded, history>>
         /\ refused' \in [Threads -> BOOLEAN]
         /\ \/ /\ UNCHANGED <<got, base>>
               /\ Head(todo[t]) \in {"wake", "nudge", "request"}
            \/ /\ Head(todo[t]) = "baseline" /\ UNCHANGED got
               /\ \/ base' = [base EXCEPT ![t] = latest]
                  \/ client = "SVM" /\ base' = [base EXCEPT ![t] = 0]
            \/ /\ Head(todo[t]) \in {"read", "reread", "poll"} /\ UNCHANGED base
               /\ got' = [got EXCEPT ![t] = Snapshot]
               /\ Head(todo[t]) = "reread" => latest # base[t]
               /\ Head(todo[t]) = "poll" => base[t] # 0 /\ latest > base[t]
            \/ /\ Head(todo[t]) = "locate" /\ UNCHANGED base
               /\ \E w \in {latest, got[t].where} : got' = [got EXCEPT ![t] = [@ EXCEPT !.where = w]]
<1>1. /\ refused \in [Threads -> BOOLEAN]
  BY DEF Typed, ThreadTypes
<1>2. CASE ReadBaseline(t)
  BY <1>1, <1>2 DEF ReadBaseline, At
<1>3. CASE Wake(t)
  <2>1. refused' \in [Threads -> BOOLEAN]
    BY <1>1, <1>3 DEF Wake
  <2> QED
    BY <1>3, <2>1 DEF Wake, At
<1>4. CASE RequestCapture(t)
  BY <1>1, <1>4 DEF RequestCapture, At
<1>5. CASE Read(t)
  BY <1>1, <1>5 DEF Read, At
<1>6. CASE ReadAgain(t)
  BY <1>1, <1>6 DEF ReadAgain, At
<1>7. CASE PollCapture(t)
  BY <1>1, <1>7 DEF PollCapture, At, IsFresh
<1>8. CASE Locate(t)
  BY <1>1, <1>8 DEF Locate, At
<1> QED
  BY <1>2, <1>3, <1>4, <1>5, <1>6, <1>7, <1>8 DEF Fetch

LEMMA FetchTypes ==
  ASSUME Typed, NEW t \in Threads, Fetch(t)
  PROVE  Typed'
<1>1. /\ UNCHANGED <<client, offset, now, latest, dated, embedded, stamp, body, location, checked,
                     ota, image, blur, seen, missed, otaExcuse, kind, held, since, crowded>>
  BY FetchFacts DEF rigid, cloud, vehicle, history
<1>2. CloudTypes' /\ VehicleTypes' /\ StampWithinOffset'
  BY <1>1 DEF Typed, CloudTypes, VehicleTypes, StampWithinOffset, Ahead
<1>3. todo' \in [Threads -> Seq(Steps)] /\ refused' \in [Threads -> BOOLEAN]
  BY FetchFacts, AdvanceTypes
<1>4. got[t] \in Reports(latest) /\ got \in [Threads -> Reports(latest)]
      /\ base \in [Threads -> 0..latest] /\ latest \in Nat /\ Snapshot \in Reports(latest)
  BY NumberFacts, SnapshotTypes DEF Typed, ThreadTypes
<1>5. \A w \in {latest, got[t].where} : [got[t] EXCEPT !.where = w] \in Reports(latest)
  BY <1>4 DEF Reports
<1>6. got' \in [Threads -> Reports(latest)]
  <2>1. \/ got' = got \/ got' = [got EXCEPT ![t] = Snapshot]
        \/ \E w \in {latest, got[t].where} : got' = [got EXCEPT ![t] = [got[t] EXCEPT !.where = w]]
    BY <1>4, FetchFacts
  <2>2. CASE \E w \in {latest, got[t].where} : got' = [got EXCEPT ![t] = [got[t] EXCEPT !.where = w]]
    BY <1>4, <1>5, <2>2
  <2> QED
    BY <1>4, <2>1, <2>2
<1>7. base' \in [Threads -> 0..latest]
  <2>1. base' = base \/ \E b \in {0, latest} : base' = [base EXCEPT ![t] = b]
    BY FetchFacts
  <2>2. \A b \in {0, latest} : b \in 0..latest
    BY <1>4
  <2> QED
    BY <1>4, <2>1, <2>2
<1>8. ThreadTypes'
  BY <1>1, <1>3, <1>6, <1>7 DEF Typed, ThreadTypes, Reports
<1> QED
  BY <1>2, <1>8 DEF Typed

\* The steps that change nothing but how far the thread is.
Pass(t) == ReadMore(t) \/ Fail(t) \/ SkipOta(t)

LEMMA PassFacts ==
  ASSUME Typed, NEW t \in Threads, Pass(t)
  PROVE  /\ todo[t] # <<>> /\ Head(todo[t]) \in Fails \cup {"ota"}
         /\ UNCHANGED <<rigid, now, cloud, vehicle, history>>
         /\ \/ Finish(t)
            \/ /\ Head(todo[t]) = "more" /\ Len(todo[t]) # 1 /\ Advance(t)
               /\ UNCHANGED <<kind, got, base, held, since, refused, crowded>>
  BY DEF Pass, ReadMore, Fail, SkipOta, At, Fails, Proceed

LEMMA PassTypes ==
  ASSUME Typed, NEW t \in Threads, Pass(t)
  PROVE  Typed'
<1>1. /\ UNCHANGED <<client, offset, now, latest, dated, embedded, stamp, body, location, checked,
                     ota, image, blur, seen, missed, otaExcuse>>
  BY PassFacts DEF rigid, cloud, vehicle, history
<1>2. CloudTypes' /\ VehicleTypes' /\ StampWithinOffset'
  BY <1>1 DEF Typed, CloudTypes, VehicleTypes, StampWithinOffset, Ahead
<1>3. CASE Finish(t)
  BY <1>1, <1>2, <1>3, FinishTypes DEF Typed
<1>4. CASE ~ Finish(t)
  <2>1. UNCHANGED <<kind, got, base, held, since, refused, crowded>>
        /\ todo' \in [Threads -> Seq(Steps)]
    BY <1>4, PassFacts, AdvanceTypes
  <2>2. ThreadTypes'
    BY <1>1, <2>1 DEF Typed, ThreadTypes
  <2> QED
    BY <1>2, <2>2 DEF Typed
<1> QED
  BY <1>3, <1>4

LEMMA DeliverTypes ==
  ASSUME Typed, NEW t \in Threads, Deliver(t)
  PROVE  Typed'
<1>1. /\ UNCHANGED <<client, offset, now, latest, dated, embedded, stamp, body, location, checked,
                     ota, blur, seen, missed, otaExcuse>>
      /\ image' = got[t].at /\ Finish(t)
  BY DEF Deliver, rigid, cloud, history
<1>2. got[t].at \in 0..latest
  BY DEF Typed, ThreadTypes, Reports
<1>3. CloudTypes' /\ VehicleTypes' /\ StampWithinOffset'
  BY <1>1, <1>2 DEF Typed, CloudTypes, VehicleTypes, StampWithinOffset, Ahead
<1> QED
  BY <1>1, <1>3, FinishTypes DEF Typed

\* A report of the car, by itself or because it was asked.
NewReport ==
  /\ now < MaxTime /\ now' = now + 1 /\ latest' = now + 1 /\ dated' \in BOOLEAN
  /\ NextEmbedded
  /\ UNCHANGED <<rigid, vehicle, history>>

LEMMA AskFacts ==
  ASSUME Typed, NEW t \in Threads, AskCar(t)
  PROVE  /\ NewReport /\ todo[t] # <<>> /\ Head(todo[t]) = "ask" /\ Advance(t)
         /\ UNCHANGED <<kind, base, held, since, refused, crowded>>
         /\ \E r \in Reports(latest') :
              /\ got' = [got EXCEPT ![t] = r]
              /\ IF client \in Unread THEN r = None ELSE r.at = latest'
              /\ r.where \in {0, embedded'}
              /\ client = "EULegacy" => r.where = 0
<1> DEFINE w == IF Status.located /\ client # "EULegacy" THEN embedded' ELSE 0
           r == Answer(now + 1, dated', embedded')
<1>1. /\ now' = now + 1 /\ latest' = now + 1 /\ NextEmbedded /\ dated' \in BOOLEAN
      /\ got' = [got EXCEPT ![t] = r]
  BY DEF AskCar
<1>2. w \in {0, embedded'} /\ (client = "EULegacy" => w = 0)
  OBVIOUS
<1>3. embedded' \in 0..latest' /\ latest' \in Nat
  BY <1>1, NumberFacts DEF NextEmbedded
<1>4. /\ r \in Reports(latest') /\ IF client \in Unread THEN r = None ELSE r.at = latest'
      /\ r.where \in {0, embedded'} /\ (client = "EULegacy" => r.where = 0)
  <2>1. CASE client \in Unread
    <3>1. r = None
      BY <2>1 DEF Answer
    <3> HIDE DEF r
    <3> QED
      BY <1>3, <2>1, <3>1 DEF Reports, None
  <2>2. CASE client \notin Unread
    <3>1. r = [at |-> now + 1, dated |-> dated', where |-> w]
      BY <2>2 DEF Answer
    <3> HIDE DEF r, w
    <3> QED
      BY <1>1, <1>2, <1>3, <2>2, <3>1 DEF Reports
  <2> QED
    BY <2>1, <2>2
<1>5. /\ NewReport /\ todo[t] # <<>> /\ Head(todo[t]) = "ask" /\ Advance(t)
      /\ UNCHANGED <<kind, base, held, since, refused, crowded>>
  BY <1>1 DEF AskCar, NewReport, At
<1> HIDE DEF r
<1>6. /\ got' = [got EXCEPT ![t] = r]
      /\ IF client \in Unread THEN r = None ELSE r.at = latest'
      /\ r.where \in {0, embedded'}
      /\ client = "EULegacy" => r.where = 0
  BY <1>1, <1>4
<1> QED
  BY <1>4, <1>5, <1>6

LEMMA NewReportTypes ==
  ASSUME Typed, NewReport
  PROVE  /\ CloudTypes' /\ VehicleTypes' /\ StampWithinOffset'
         /\ latest' \in Nat /\ latest < latest'
         /\ 0..latest \subseteq 0..latest' /\ Reports(latest) \subseteq Reports(latest')
<1>1. latest' \in Nat /\ latest < latest' /\ embedded' \in 0..latest' /\ now' \in 1..MaxTime
      /\ latest' \in 0..now'
  BY NumberFacts DEF NewReport, NextEmbedded
<1>2. 0..latest \subseteq 0..latest' /\ Reports(latest) \subseteq Reports(latest')
  BY <1>1, NumberFacts DEF Reports
<1>3. UNCHANGED <<client, offset, stamp, body, location, checked, ota, image, blur, seen, missed,
                  otaExcuse>>
  BY DEF NewReport, rigid, vehicle, history
<1>4. CloudTypes'
  BY <1>1, <1>3 DEF Typed, CloudTypes, NewReport
<1>5. VehicleTypes'
  BY <1>2, <1>3 DEF Typed, VehicleTypes, Ahead
<1>6. StampWithinOffset'
  BY <1>3, NumberFacts DEF StampWithinOffset, NewReport, Ahead
<1> QED
  BY <1>1, <1>2, <1>4, <1>5, <1>6

LEMMA AskTypes ==
  ASSUME Typed, NEW t \in Threads, AskCar(t)
  PROVE  Typed'
<1>1. /\ NewReport /\ UNCHANGED <<kind, base, held, since, refused, crowded>>
      /\ todo' \in [Threads -> Seq(Steps)]
      /\ \E r \in Reports(latest') : got' = [got EXCEPT ![t] = r]
  BY AskFacts, AdvanceTypes
<1>2. /\ CloudTypes' /\ VehicleTypes' /\ StampWithinOffset' /\ 0..latest \subseteq 0..latest'
      /\ Reports(latest) \subseteq Reports(latest')
  BY <1>1, NewReportTypes
<1>3. /\ kind \in [Threads -> Kinds] /\ got \in [Threads -> Reports(latest)]
      /\ base \in [Threads -> 0..latest] /\ since \in [Threads -> 0..latest]
      /\ held \in [Threads -> BOOLEAN] /\ refused \in [Threads -> BOOLEAN]
      /\ crowded \in [Threads -> BOOLEAN]
  BY DEF Typed, ThreadTypes
<1>4. got' \in [Threads -> Reports(latest')] /\ base' \in [Threads -> 0..latest']
      /\ since' \in [Threads -> 0..latest']
  BY <1>1, <1>2, <1>3
<1>5. ThreadTypes'
  BY <1>1, <1>3, <1>4 DEF ThreadTypes, Reports
<1> QED
  BY <1>2, <1>5 DEF Typed

LEMMA CarReportsTypes ==
  ASSUME Typed, CarReports
  PROVE  Typed' /\ NewReport /\ UNCHANGED threads
<1>1. NewReport /\ UNCHANGED threads
  BY DEF CarReports, NewReport
<1>2. /\ CloudTypes' /\ VehicleTypes' /\ StampWithinOffset' /\ 0..latest \subseteq 0..latest'
      /\ Reports(latest) \subseteq Reports(latest')
  BY <1>1, NewReportTypes
<1>3. got' \in [Threads -> Reports(latest')] /\ base' \in [Threads -> 0..latest']
      /\ since' \in [Threads -> 0..latest']
  BY <1>1, <1>2 DEF Typed, ThreadTypes, threads
<1>4. ThreadTypes'
  BY <1>1, <1>3 DEF Typed, ThreadTypes, threads, Reports
<1> QED
  BY <1>1, <1>2, <1>4 DEF Typed

LEMMA TimePassesTypes ==
  ASSUME Typed, TimePasses
  PROVE  Typed'
<1>1. now' = now + 1 /\ now < MaxTime /\ UNCHANGED <<rigid, cloud, vehicle, threads, history>>
  BY DEF TimePasses
<1>2. CloudTypes' /\ VehicleTypes' /\ StampWithinOffset'
  BY <1>1, NumberFacts DEF Typed, CloudTypes, VehicleTypes, StampWithinOffset, Ahead, rigid, cloud,
                           vehicle, history
<1>3. ThreadTypes'
  BY <1>1 DEF Typed, ThreadTypes, threads, cloud
<1> QED
  BY <1>2, <1>3 DEF Typed

LEMMA WriteTimeTypes ==
  ASSUME Typed, NEW t \in Threads, WriteTime(t)
  PROVE  /\ Typed' /\ Head(todo[t]) = "head" /\ todo[t] # <<>> /\ Advance(t)
         /\ stamp' = Stamped(stamp, TimeOf(got[t]))
         /\ UNCHANGED <<rigid, now, cloud, body, location, checked, ota, image,
                        kind, got, base, held, since, refused, crowded, history>>
<1>1. /\ Head(todo[t]) = "head" /\ todo[t] # <<>> /\ Advance(t)
      /\ stamp' = Stamped(stamp, TimeOf(got[t]))
      /\ UNCHANGED <<rigid, now, cloud, body, location, checked, ota, image,
                     kind, got, base, held, since, refused, crowded, history>>
  BY DEF WriteTime, At
<1>2. stamp' \in Nat /\ stamp' <= now + Ahead
  BY <1>1, TimeOfFacts, StampedFacts
<1>3. todo' \in [Threads -> Seq(Steps)]
  BY <1>1, AdvanceTypes
<1>4. CloudTypes' /\ StampWithinOffset'
  BY <1>1, <1>2 DEF Typed, CloudTypes, StampWithinOffset, Ahead, rigid, cloud
<1>5. VehicleTypes'
  <2>1. stamp' \in 0..(MaxTime + Ahead)
    BY <1>2, NumberFacts
  <2>2. Ahead' = Ahead
    BY <1>1 DEF Ahead, rigid
  <2> QED
    BY <1>1, <2>1, <2>2 DEF Typed, VehicleTypes, cloud, history
<1>6. ThreadTypes'
  BY <1>1, <1>3 DEF Typed, ThreadTypes, cloud, Reports
<1> QED
  BY <1>1, <1>4, <1>5, <1>6 DEF Typed

LEMMA WriteLocationTypes ==
  ASSUME Typed, NEW t \in Threads, NEW w \in 0..latest, NEW e \in BOOLEAN, WriteLocation(t, w, e)
  PROVE  /\ location' \in 0..latest /\ seen' \in 0..latest /\ missed' \in BOOLEAN
<1>1. location \in 0..latest /\ seen \in 0..latest /\ missed \in BOOLEAN
  BY DEF Typed, VehicleTypes
<1>2. seen' = Newest(seen, w) /\ location' \in {location, w} /\ missed' \in {missed, e}
  BY DEF WriteLocation
<1> QED
  BY <1>1, <1>2 DEF Newest

LEMMA DoubtTypes ==
  ASSUME Typed, NEW d \in Nat, d <= now + Ahead, Doubt(d)
  PROVE  blur' \in 0..(MaxTime + Ahead) /\ blur' = Newest(blur, d)
<1>1. blur \in 0..(MaxTime + Ahead) /\ d \in 0..(MaxTime + Ahead)
  BY NumberFacts DEF Typed, VehicleTypes
<1> QED
  BY <1>1 DEF Doubt, Newest

LEMMA WriteBodyFacts ==
  ASSUME Typed, NEW t \in Threads, WriteBody(t)
  PROVE  /\ Head(todo[t]) = "body" /\ todo[t] # <<>>
         /\ body' = got[t].at
         /\ WriteLocation(t, got[t].where, crowded[t] \/ client \in TwoSources)
         /\ blur' = Newest(blur, DoubtAbout(got[t], crowded[t])) /\ blur' \in 0..(MaxTime + Ahead)
         /\ UNCHANGED <<rigid, now, cloud, stamp, checked, ota, image, otaExcuse>>
         /\ \/ Finish(t)
            \/ /\ Len(todo[t]) # 1 /\ Advance(t) /\ got' = [got EXCEPT ![t] = None]
               /\ UNCHANGED <<kind, base, held, since, refused, crowded>>
<1>1. crowded[t] \in BOOLEAN
  BY DEF Typed, ThreadTypes
<1>2. blur' = Newest(blur, DoubtAbout(got[t], crowded[t])) /\ blur' \in 0..(MaxTime + Ahead)
  BY <1>1, DoubtFacts, DoubtTypes DEF WriteBody
<1> QED
  BY <1>2 DEF WriteBody, At

LEMMA WriteBodyTypes ==
  ASSUME Typed, NEW t \in Threads, WriteBody(t)
  PROVE  Typed'
<1>1. /\ got[t].at \in 0..latest /\ got[t].where \in 0..latest
      /\ (crowded[t] \/ client \in TwoSources) \in BOOLEAN
  BY DEF Typed, ThreadTypes, Reports
<1>2. location' \in 0..latest /\ seen' \in 0..latest /\ missed' \in BOOLEAN
  BY <1>1, WriteBodyFacts, WriteLocationTypes
<1>3. CloudTypes' /\ StampWithinOffset' /\ Ahead' = Ahead /\ latest' = latest
  BY WriteBodyFacts DEF Typed, CloudTypes, StampWithinOffset, Ahead, rigid, cloud
<1>4. VehicleTypes'
  BY <1>1, <1>2, <1>3, WriteBodyFacts DEF Typed, VehicleTypes
<1>5. CASE Finish(t)
  BY <1>3, <1>4, <1>5, FinishTypes DEF Typed
<1>6. CASE ~ Finish(t)
  <2>1. /\ UNCHANGED <<kind, base, held, since, refused, crowded>>
        /\ got' = [got EXCEPT ![t] = None] /\ todo' \in [Threads -> Seq(Steps)]
    BY <1>6, WriteBodyFacts, AdvanceTypes
  <2>2. got' \in [Threads -> Reports(latest)]
    BY <2>1, NoneTypes, NumberFacts DEF Typed, ThreadTypes
  <2>3. ThreadTypes'
    BY <1>3, <2>1, <2>2 DEF Typed, ThreadTypes, Reports
  <2> QED
    BY <1>3, <1>4, <2>3 DEF Typed
<1> QED
  BY <1>5, <1>6

LEMMA ParserRaisesFacts ==
  ASSUME Typed, NEW t \in Threads, ParserRaises(t)
  PROVE  /\ Head(todo[t]) = "body" /\ todo[t] # <<>> /\ Finish(t)
         /\ \E w \in {0, got[t].where} : WriteLocation(t, w, TRUE)
         /\ blur' = Newest(blur, now + Ahead) /\ blur' \in 0..(MaxTime + Ahead)
         /\ UNCHANGED <<rigid, now, cloud, stamp, body, checked, ota, image, otaExcuse>>
         /\ Typed'
<1>1. /\ Head(todo[t]) = "body" /\ todo[t] # <<>> /\ Finish(t)
      /\ \E w \in {0, got[t].where} : WriteLocation(t, w, TRUE)
      /\ Doubt(now + Ahead)
      /\ UNCHANGED <<rigid, now, cloud, stamp, body, checked, ota, image, otaExcuse>>
  BY DEF ParserRaises, At
<1>2. blur' = Newest(blur, now + Ahead) /\ blur' \in 0..(MaxTime + Ahead)
  BY <1>1, DoubtTypes, NumberFacts
<1>3. got[t].where \in 0..latest /\ 0 \in 0..latest
  BY NumberFacts DEF Typed, ThreadTypes, Reports
<1>4. location' \in 0..latest /\ seen' \in 0..latest /\ missed' \in BOOLEAN
  BY <1>1, <1>3, WriteLocationTypes
<1>5. CloudTypes' /\ StampWithinOffset' /\ Ahead' = Ahead /\ latest' = latest
  BY <1>1 DEF Typed, CloudTypes, StampWithinOffset, Ahead, rigid, cloud
<1>6. VehicleTypes'
  BY <1>1, <1>2, <1>4, <1>5 DEF Typed, VehicleTypes
<1>7. ThreadTypes'
  BY <1>1, <1>5, FinishTypes
<1> QED
  BY <1>1, <1>2, <1>5, <1>6, <1>7 DEF Typed

LEMMA ParkFacts ==
  ASSUME Typed, NEW t \in Threads, ParkLocation(t)
  PROVE  /\ Head(todo[t]) = "park" /\ todo[t] # <<>>
         /\ \/ WriteLocation(t, latest, crowded[t])
            \/ missed' = TRUE /\ UNCHANGED <<location, seen>>
         /\ UNCHANGED <<rigid, now, cloud, stamp, body, checked, ota, image, blur, otaExcuse>>
         /\ \/ Finish(t)
            \/ /\ Len(todo[t]) # 1 /\ Advance(t)
               /\ UNCHANGED <<kind, got, base, held, since, refused, crowded>>
         /\ Typed'
<1>1. /\ Head(todo[t]) = "park" /\ todo[t] # <<>>
      /\ \/ WriteLocation(t, latest, crowded[t])
         \/ missed' = TRUE /\ UNCHANGED <<location, seen>>
      /\ UNCHANGED <<rigid, now, cloud, stamp, body, checked, ota, image, blur, otaExcuse>>
      /\ \/ Finish(t)
         \/ /\ Len(todo[t]) # 1 /\ Advance(t)
            /\ UNCHANGED <<kind, got, base, held, since, refused, crowded>>
  BY DEF ParkLocation, At, Proceed
<1>2. latest \in 0..latest /\ crowded[t] \in BOOLEAN /\ location \in 0..latest /\ seen \in 0..latest
  BY NumberFacts DEF Typed, ThreadTypes, VehicleTypes
<1>3. location' \in 0..latest /\ seen' \in 0..latest /\ missed' \in BOOLEAN
  BY <1>1, <1>2, WriteLocationTypes
<1>4. CloudTypes' /\ StampWithinOffset' /\ Ahead' = Ahead /\ latest' = latest
  BY <1>1 DEF Typed, CloudTypes, StampWithinOffset, Ahead, rigid, cloud
<1>5. VehicleTypes'
  BY <1>1, <1>3, <1>4 DEF Typed, VehicleTypes
<1>6. ThreadTypes'
  <2>1. CASE Finish(t)
    BY <1>4, <2>1, FinishTypes
  <2>2. CASE ~ Finish(t)
    BY <1>1, <1>4, <2>2, AdvanceTypes DEF Typed, ThreadTypes
  <2> QED
    BY <2>1, <2>2
<1> QED
  BY <1>1, <1>4, <1>5, <1>6 DEF Typed

\* The steps of the software check.
Ota(t) == PrewakeupAndReset(t) \/ AskOta(t) \/ OtaFails(t) \/ KeepOta(t)

LEMMA OtaFacts ==
  ASSUME Typed, NEW t \in Threads, Ota(t)
  PROVE  /\ todo[t] # <<>> /\ Head(todo[t]) \in {"prewakeup", "ota", "keep"}
         /\ UNCHANGED <<rigid, now, cloud, stamp, body, location, image, blur, seen, missed>>
         /\ \/ Finish(t)
            \/ /\ Head(todo[t]) \in {"prewakeup", "ota"} /\ Advance(t)
               /\ UNCHANGED <<kind, got, base, since, refused, crowded>>
         /\ Typed'
<1>1. /\ todo[t] # <<>> /\ Head(todo[t]) \in {"prewakeup", "ota", "keep"}
      /\ UNCHANGED <<rigid, now, cloud, stamp, body, location, image, blur, seen, missed>>
      /\ \/ Finish(t)
         \/ /\ Head(todo[t]) \in {"prewakeup", "ota"} /\ Advance(t)
            /\ UNCHANGED <<kind, got, base, since, refused, crowded>>
  BY DEF Ota, PrewakeupAndReset, AskOta, OtaFails, KeepOta, At, history
<1>2. /\ checked \in BOOLEAN /\ ota \in BOOLEAN /\ otaExcuse \in BOOLEAN
      /\ held \in [Threads -> BOOLEAN]
  BY DEF Typed, VehicleTypes, ThreadTypes
<1>3. held[t] \in BOOLEAN /\ (\E u \in Threads : InFlight(u)) \in BOOLEAN
  BY <1>2
<1>4. checked' \in BOOLEAN /\ ota' \in BOOLEAN /\ otaExcuse' \in BOOLEAN
  BY <1>2, <1>3 DEF Ota, PrewakeupAndReset, AskOta, OtaFails, KeepOta, FlagsReset, history
<1>5. CloudTypes' /\ StampWithinOffset' /\ Ahead' = Ahead /\ latest' = latest
  BY <1>1 DEF Typed, CloudTypes, StampWithinOffset, Ahead, rigid, cloud
<1>6. VehicleTypes'
  BY <1>1, <1>4, <1>5 DEF Typed, VehicleTypes
<1>7. ThreadTypes'
  <2>1. CASE Finish(t)
    BY <1>5, <2>1, FinishTypes
  <2>2. CASE ~ Finish(t)
    <3>1. PrewakeupAndReset(t) \/ AskOta(t)
      BY <2>2 DEF Ota, OtaFails, KeepOta
    <3>2. held' \in [Threads -> BOOLEAN]
      BY <1>2, <3>1 DEF PrewakeupAndReset, AskOta
    <3> QED
      BY <1>1, <1>5, <2>2, <3>2, AdvanceTypes DEF Typed, ThreadTypes
  <2> QED
    BY <2>1, <2>2
<1> QED
  BY <1>1, <1>5, <1>6, <1>7 DEF Typed

\* Every step is one of these.
LEMMA StepCases ==
  ASSUME [Next]_vars
  PROVE  \/ UNCHANGED vars
         \/ CarReports
         \/ TimePasses
         \/ \E t \in Threads :
              \/ \E k \in {"cached", "forced"} : (k = "cached" => client # "SVM") /\ Run(t, k)
              \/ Fetch(t) \/ Pass(t) \/ Deliver(t) \/ AskCar(t) \/ WriteTime(t) \/ WriteBody(t)
              \/ ParserRaises(t) \/ ParkLocation(t) \/ Ota(t)
<1>1. ASSUME NEW t \in Threads, UpdateCached(t) \/ ForceRefresh(t) \/ \E i \in Intervals : CheckAndForce(t, i)
      PROVE  \E k \in {"cached", "forced"} : (k = "cached" => client # "SVM") /\ Run(t, k)
  BY <1>1 DEF UpdateCached, ForceRefresh, CheckAndForce
<1> QED
  BY <1>1 DEF Next, Step, Fetch, Pass, Ota

LEMMA TypedInit ==
  ASSUME Init
  PROVE  Typed
<1>1. client \in Clients /\ offset \in Offsets[client] /\ offset \in Int /\ Ahead \in Nat
  BY RefreshAssumption DEF Init, Ahead
<1>2. now = 1 /\ latest \in {0, 1} /\ embedded = latest
  BY DEF Init
<1>3. 1 <= MaxTime /\ MaxTime \in Nat
  BY RefreshAssumption
<1>4. CloudTypes
  BY <1>1, <1>2, <1>3 DEF Init, CloudTypes
<1>5. VehicleTypes /\ StampWithinOffset
  <2>1. 0 \in 0..latest /\ 0 \in 0..(MaxTime + Ahead) /\ 0 <= now + Ahead
    BY <1>1, <1>2, <1>3
  <2> QED
    BY <2>1 DEF Init, VehicleTypes, StampWithinOffset
<1>6. ThreadTypes
  <2>1. None \in Reports(latest) /\ <<>> \in Seq(Steps) /\ 0 \in 0..latest
    BY <1>2, NoneTypes
  <2> QED
    BY <2>1 DEF Init, ThreadTypes, Kinds
<1> QED
  BY <1>4, <1>5, <1>6 DEF Typed

LEMMA TypedStep ==
  ASSUME Typed, [Next]_vars
  PROVE  Typed'
<1>1. CASE UNCHANGED vars
  BY <1>1 DEF vars, rigid, cloud, vehicle, threads, history, Typed, CloudTypes, VehicleTypes,
              ThreadTypes, StampWithinOffset, Ahead
<1> QED
  BY <1>1, StepCases, CarReportsTypes, TimePassesTypes, RunTypes, FetchTypes, PassTypes,
     DeliverTypes, AskTypes, WriteTimeTypes, WriteBodyTypes, ParserRaisesFacts, ParkFacts, OtaFacts

-----------------------------------------------------------------------------
(* What is left of the programs.                                            *)

\* The program of a thread is what is left of that of its client; a thread
\* without one holds nothing.
Shape ==
  \A t \in Threads :
    /\ WellFormed(client, todo[t])
    /\ kind[t] = "none" <=> todo[t] = <<>>
    /\ kind[t] = "none" => got[t] = None
    /\ ~ (kind[t] = "forced" /\ client \in Promises) => since[t] = 0

\* Two threads at the vehicle know it of each other.
Alone ==
  \A t, u \in Threads : t # u /\ kind[t] # "none" /\ kind[u] # "none" => crowded[t]

Progress(t) ==
  /\ todo[t] # <<>> /\ Advance(t)
  /\ Len(todo[t]) # 1 \/ Head(todo[t]) \notin Lasts
  /\ UNCHANGED <<kind, since, crowded>>
  /\ \E r : got' = [got EXCEPT ![t] = r]

LEMMA NoChange ==
  ASSUME NEW S, NEW T, NEW f \in [S -> T], NEW s \in S
  PROVE  f = [f EXCEPT ![s] = f[s]]
  OBVIOUS

LEMMA ThreadCases ==
  ASSUME Typed, [Next]_vars
  PROVE  /\ UNCHANGED rigid
         /\ \/ UNCHANGED threads
            \/ \E t \in Threads :
                 \/ \E k \in {"cached", "forced"} : Run(t, k)
                 \/ todo[t] # <<>> /\ Finish(t)
                 \/ Progress(t)
<1>1. ASSUME NEW t \in Threads, NEW k \in {"cached", "forced"}, Run(t, k)
      PROVE  UNCHANGED rigid
  BY <1>1 DEF Run
<1>2. CASE UNCHANGED vars \/ CarReports \/ TimePasses
  BY <1>2 DEF vars, threads, CarReports, TimePasses
<1>3. ASSUME NEW t \in Threads
      PROVE  /\ got = [got EXCEPT ![t] = got[t]]
             /\ \A r : got' = [got EXCEPT ![t] = r] => \E q : got' = [got EXCEPT ![t] = q]
  BY NoChange DEF Typed, ThreadTypes
<1>4. ASSUME NEW t \in Threads, Fetch(t)
      PROVE  Progress(t) /\ UNCHANGED rigid
  <2>1. \E r : got' = [got EXCEPT ![t] = r]
    <3>1. \/ got' = got \/ got' = [got EXCEPT ![t] = Snapshot]
          \/ \E w \in {latest, got[t].where} : got' = [got EXCEPT ![t] = [@ EXCEPT !.where = w]]
      BY <1>4, FetchFacts
    <3> QED
      BY <1>3, <3>1
  <2> QED
    BY <1>4, <2>1, FetchFacts DEF Progress, Lasts
<1>5. ASSUME NEW t \in Threads, Pass(t)
      PROVE  ((todo[t] # <<>> /\ Finish(t)) \/ Progress(t)) /\ UNCHANGED rigid
  BY <1>3, <1>5, PassFacts DEF Progress
<1>6. ASSUME NEW t \in Threads, Deliver(t) \/ ParserRaises(t)
      PROVE  todo[t] # <<>> /\ Finish(t) /\ UNCHANGED rigid
  BY <1>6 DEF Deliver, ParserRaises, At
<1>7. ASSUME NEW t \in Threads, AskCar(t)
      PROVE  Progress(t) /\ UNCHANGED rigid
  BY <1>7, AskFacts DEF Progress, Lasts, NewReport
<1>8. ASSUME NEW t \in Threads, WriteTime(t)
      PROVE  Progress(t) /\ UNCHANGED rigid
  BY <1>3, <1>8, WriteTimeTypes DEF Progress, Lasts
<1>9. ASSUME NEW t \in Threads, WriteBody(t)
      PROVE  ((todo[t] # <<>> /\ Finish(t)) \/ Progress(t)) /\ UNCHANGED rigid
  BY <1>9, WriteBodyFacts DEF Progress
<1>10. ASSUME NEW t \in Threads, ParkLocation(t)
       PROVE  ((todo[t] # <<>> /\ Finish(t)) \/ Progress(t)) /\ UNCHANGED rigid
  BY <1>3, <1>10, ParkFacts DEF Progress
<1>11. ASSUME NEW t \in Threads, Ota(t)
       PROVE  ((todo[t] # <<>> /\ Finish(t)) \/ Progress(t)) /\ UNCHANGED rigid
  BY <1>3, <1>11, OtaFacts DEF Progress, Lasts
<1> QED
  BY <1>1, <1>2, <1>4, <1>5, <1>6, <1>7, <1>8, <1>9, <1>10, <1>11, StepCases
     DEF vars, CarReports, TimePasses, rigid

LEMMA RunFacts ==
  ASSUME Typed, NEW t \in Threads, NEW k \in {"cached", "forced"}, Run(t, k)
  PROVE  /\ kind[t] = "none" /\ kind'[t] = k /\ todo'[t] = Program(client)[k]
         /\ since'[t] = IF k = "forced" /\ client \in Promises THEN latest ELSE 0
         /\ UNCHANGED <<rigid, now, cloud, vehicle, got, base, held, history>>
         /\ crowded'[t] <=> \E v \in Threads \ {t} : kind[v] # "none"
         /\ \A u \in Threads \ {t} :
              /\ kind'[u] = kind[u] /\ todo'[u] = todo[u] /\ since'[u] = since[u]
              /\ crowded'[u] <=> crowded[u] \/ kind[u] # "none"
  BY DEF Typed, ThreadTypes, Run, Idle

LEMMA FinishFacts ==
  ASSUME Typed, NEW t \in Threads, Finish(t)
  PROVE  /\ kind'[t] = "none" /\ todo'[t] = <<>> /\ got'[t] = None /\ since'[t] = 0 /\ held'[t] = FALSE
         /\ \A u \in Threads \ {t} :
              /\ kind'[u] = kind[u] /\ todo'[u] = todo[u] /\ since'[u] = since[u]
              /\ got'[u] = got[u] /\ base'[u] = base[u] /\ held'[u] = held[u]
              /\ crowded'[u] = crowded[u]
  BY DEF Typed, ThreadTypes, Finish

LEMMA ProgressFacts ==
  ASSUME Typed, Shape, NEW t \in Threads, Progress(t)
  PROVE  /\ todo[t] \in Seq(Steps) /\ todo[t] # <<>>
         /\ todo'[t] = Tail(todo[t]) /\ todo'[t] # <<>>
         /\ UNCHANGED <<kind, since, crowded>>
         /\ \A u \in Threads \ {t} : todo'[u] = todo[u] /\ got'[u] = got[u]
<1>1. todo[t] \in Seq(Steps) /\ todo[t] # <<>>
  BY DEF Typed, ThreadTypes, Progress
<1>2. Len(todo[t]) # 1
  <2>1. ASSUME Len(todo[t]) = 1
        PROVE  Head(todo[t]) \in Lasts
    <3>1. 1 \in Places(todo[t]) /\ Head(todo[t]) = todo[t][1] /\ 1 = Len(todo[t])
      BY <1>1, <2>1, TailFacts
    <3> QED
      BY <3>1 DEF Shape, WellFormed
  <2> QED
    BY <2>1 DEF Progress
<1>3. todo'[t] = Tail(todo[t]) /\ \A u \in Threads \ {t} : todo'[u] = todo[u] /\ got'[u] = got[u]
  BY DEF Progress, Advance, Typed, ThreadTypes
<1> QED
  BY <1>1, <1>2, <1>3, TailFacts DEF Progress

LEMMA ShapeInit == Init => Shape /\ Alone
<1>1. \A c : WellFormed(c, <<>>)
  BY DEF WellFormed, Places, Later, Paired, NoneAfter
<1> QED
  BY <1>1 DEF Init, Shape, Alone

LEMMA ShapeStep ==
  ASSUME Typed, Shape, Alone, [Next]_vars
  PROVE  Shape' /\ Alone'
<1>1. UNCHANGED client
  BY ThreadCases DEF rigid
<1>2. CASE UNCHANGED threads
  BY <1>1, <1>2 DEF threads, Shape, Alone
<1>3. ASSUME NEW t \in Threads, NEW k \in {"cached", "forced"}, Run(t, k)
      PROVE  Shape' /\ Alone'
  <2>1. /\ WellFormed(client, Program(client)[k]) /\ Program(client)[k] # <<>>
    BY NumberFacts, ProgramFacts DEF Starts
  <2>2. Shape'
    BY <1>1, <1>3, <2>1, RunFacts DEF Shape
  <2>3. Alone'
    BY <1>3, RunFacts DEF Alone
  <2> QED
    BY <2>2, <2>3
<1>4. ASSUME NEW t \in Threads, todo[t] # <<>>, Finish(t)
      PROVE  Shape' /\ Alone'
  <2>1. \A c : WellFormed(c, <<>>)
    BY DEF WellFormed, Places, Later, Paired, NoneAfter
  <2>2. /\ kind'[t] = "none" /\ todo'[t] = <<>> /\ got'[t] = None /\ since'[t] = 0
        /\ \A u \in Threads \ {t} : /\ kind'[u] = kind[u] /\ todo'[u] = todo[u] /\ since'[u] = since[u]
                                    /\ got'[u] = got[u] /\ crowded'[u] = crowded[u]
    BY <1>4, FinishFacts
  <2>3. Shape'
    BY <1>1, <2>1, <2>2 DEF Shape, Promises
  <2>4. Alone'
    BY <2>2 DEF Alone
  <2> QED
    BY <2>3, <2>4
<1>5. ASSUME NEW t \in Threads, Progress(t)
      PROVE  Shape' /\ Alone'
  <2>1. WellFormed(client, todo'[t])
    BY <1>5, ProgressFacts, TailWellFormed DEF Shape
  <2>2. /\ todo[t] # <<>> /\ todo'[t] # <<>> /\ UNCHANGED <<client, kind, since, crowded>>
        /\ \A u \in Threads \ {t} : todo'[u] = todo[u] /\ got'[u] = got[u]
    BY <1>1, <1>5, ProgressFacts
  <2>3. kind[t] # "none"
    BY <2>2 DEF Shape
  <2>4. Shape'
    BY <2>1, <2>2, <2>3 DEF Shape, Promises
  <2>5. Alone'
    BY <2>2 DEF Alone
  <2> QED
    BY <2>4, <2>5
<1> QED
  BY <1>2, <1>3, <1>4, <1>5, ThreadCases

-----------------------------------------------------------------------------
(* A forced refresh has not begun to read, or holds a report from after its  *)
(* beginning.                                                               *)

FreshOf(t) ==
  kind[t] = "forced" /\ client \in Promises =>
    /\ Earlier(todo[t], Takes, Sources) \/ got[t].at > since[t]
    /\ \/ Earlier(todo[t], {"reread", "poll"}, {"baseline"})
       \/ base[t] >= since[t]
       \/ client = "SVM" /\ base[t] = 0

Fresh == \A t \in Threads : FreshOf(t)

\* The other threads of a step keep what they hold.
OthersRest(t) ==
  \A u \in Threads \ {t} :
    /\ kind'[u] = kind[u] /\ todo'[u] = todo[u] /\ got'[u] = got[u] /\ base'[u] = base[u]
    /\ since'[u] = since[u]

LEMMA FreshByThread ==
  ASSUME Fresh, NEW t \in Threads, OthersRest(t), client' = client,
         FreshOf(t)'
  PROVE  Fresh'
<1>1. ASSUME NEW u \in Threads, u # t
      PROVE  FreshOf(u)'
  BY <1>1 DEF Fresh, FreshOf, OthersRest, Promises
<1> QED
  BY <1>1 DEF Fresh

\* A step that reads no report takes nothing away.
LEMMA FreshKept ==
  ASSUME Typed, Shape, Fresh, NEW t \in Threads, Progress(t), client' = client,
         OthersRest(t), Head(todo[t]) \notin Sources \cup {"baseline"},
         got'[t].at >= got[t].at, got'[t].at \in Nat, base'[t] = base[t]
  PROVE  Fresh'
<1>1. /\ todo[t] \in Seq(Steps) /\ todo[t] # <<>> /\ todo'[t] = Tail(todo[t])
      /\ UNCHANGED <<kind, since>> /\ Head(todo[t]) = todo[t][1]
  BY ProgressFacts, TailFacts
<1>2. since[t] \in Nat /\ got[t].at \in Nat
  BY DEF Typed, ThreadTypes, Reports
<1>3. FreshOf(t)
  BY DEF Fresh
<1>4. /\ Earlier(todo[t], Takes, Sources) => Earlier(todo'[t], Takes, Sources)
      /\ Earlier(todo[t], {"reread", "poll"}, {"baseline"}) =>
           Earlier(todo'[t], {"reread", "poll"}, {"baseline"})
  BY <1>1, TailEarlier
<1>5. FreshOf(t)'
  BY <1>1, <1>2, <1>3, <1>4 DEF FreshOf, Promises
<1> QED
  BY <1>5, FreshByThread

LEMMA FreshFinish ==
  ASSUME Typed, Fresh, NEW t \in Threads, Finish(t), client' = client
  PROVE  Fresh'
<1>1. FreshOf(t)' /\ OthersRest(t)
  BY FinishFacts DEF FreshOf, OthersRest
<1> QED
  BY <1>1, FreshByThread

LEMMA FreshRun ==
  ASSUME Typed, Fresh, NEW t \in Threads, NEW k \in {"cached", "forced"}, Run(t, k)
  PROVE  Fresh'
<1>1. /\ kind'[t] = k /\ todo'[t] = Program(client)[k] /\ client' = client /\ OthersRest(t)
      /\ client \in AllClients
  BY RunFacts, NumberFacts DEF OthersRest, rigid
<1>2. k = "forced" /\ client \in Promises =>
        /\ Earlier(todo'[t], Takes, Sources)
        /\ Earlier(todo'[t], {"reread", "poll"}, {"baseline"})
  BY <1>1, ProgramFacts DEF Starts, Promises
<1>3. FreshOf(t)'
  BY <1>1, <1>2 DEF FreshOf, Promises
<1> QED
  BY <1>1, <1>3, FreshByThread

LEMMA FetchOthers ==
  ASSUME Typed, Shape, NEW t \in Threads, Fetch(t)
  PROVE  OthersRest(t) /\ Progress(t) /\ client' = client
<1>1. Progress(t)
  <2>1. /\ got = [got EXCEPT ![t] = got[t]]
        /\ \/ got' = got \/ got' = [got EXCEPT ![t] = Snapshot]
           \/ \E w \in {latest, got[t].where} : got' = [got EXCEPT ![t] = [@ EXCEPT !.where = w]]
    BY FetchFacts, NoChange DEF Typed, ThreadTypes
  <2>2. \E r : got' = [got EXCEPT ![t] = r]
    BY <2>1
  <2> QED
    BY <2>2, FetchFacts DEF Progress, Lasts
<1>2. UNCHANGED <<kind, since, client>> /\ \A u \in Threads \ {t} : base'[u] = base[u]
  BY FetchFacts DEF Typed, ThreadTypes, rigid
<1> QED
  BY <1>1, <1>2, ProgressFacts DEF OthersRest

LEMMA FreshFetch ==
  ASSUME Typed, Shape, Fresh, NEW t \in Threads, Fetch(t)
  PROVE  Fresh'
<1>1. /\ OthersRest(t) /\ Progress(t) /\ client' = client
      /\ todo[t] \in Seq(Steps) /\ todo[t] # <<>> /\ todo'[t] = Tail(todo[t])
      /\ UNCHANGED <<kind, since>> /\ Head(todo[t]) = todo[t][1]
  BY FetchOthers, ProgressFacts, TailFacts
<1>2. /\ since[t] \in Nat /\ since[t] <= latest /\ got[t].at \in Nat /\ got[t].at <= latest
      /\ base[t] \in Nat /\ base[t] <= latest /\ latest \in Nat /\ got[t] \in Reports(latest)
      /\ got \in [Threads -> Reports(latest)] /\ base \in [Threads -> 0..latest]
  <2>1. /\ since[t] \in 0..latest /\ got[t] \in Reports(latest) /\ base[t] \in 0..latest
        /\ got \in [Threads -> Reports(latest)] /\ base \in [Threads -> 0..latest]
    BY DEF Typed, ThreadTypes
  <2>2. got[t].at \in 0..latest
    BY <2>1 DEF Reports
  <2> QED
    BY <2>1, <2>2, NumberFacts
<1>3. FreshOf(t)
  BY DEF Fresh
<1>4. CASE Head(todo[t]) \in {"wake", "nudge", "request", "locate"}
  <2>1. base' = base
    BY <1>4, FetchFacts
  <2>2. got'[t].at = got[t].at
    <3>1. CASE got' = got
      BY <3>1
    <3>2. ASSUME NEW w \in {latest, got[t].where}, got' = [got EXCEPT ![t] = [@ EXCEPT !.where = w]]
          PROVE  got'[t].at = got[t].at
      BY <1>2, <3>2 DEF Reports
    <3> QED
      BY <1>4, <3>1, <3>2, FetchFacts
  <2> QED
    BY <1>1, <1>2, <1>4, <2>1, <2>2, FreshKept DEF Sources
<1>5. CASE Head(todo[t]) = "baseline"
  <2>1. got' = got /\ (base'[t] = latest \/ (client = "SVM" /\ base'[t] = 0))
    <3>1. /\ got' = got
          /\ \/ base' = [base EXCEPT ![t] = latest]
             \/ client = "SVM" /\ base' = [base EXCEPT ![t] = 0]
      BY <1>5, FetchFacts
    <3> QED
      BY <1>2, <3>1
  <2>2. Earlier(todo[t], Takes, Sources) => Earlier(todo'[t], Takes, Sources)
    BY <1>1, <1>5, TailEarlier DEF Sources
  <2>3. FreshOf(t)'
    BY <1>1, <1>2, <1>3, <2>1, <2>2 DEF FreshOf, Promises
  <2> QED
    BY <1>1, <2>3, FreshByThread
<1>6. CASE Head(todo[t]) = "read"
  <2>1. base' = base /\ got'[t].at = latest
    BY <1>2, <1>6, FetchFacts, SnapshotTypes
  <2> QED
    BY <1>1, <1>2, <1>6, <2>1, FreshKept DEF Sources
<1>7. CASE Head(todo[t]) \in {"reread", "poll"}
  <2>1. base' = base /\ got'[t].at = latest
    BY <1>2, <1>7, FetchFacts, SnapshotTypes
  <2>2. /\ Head(todo[t]) = "reread" => latest # base[t]
        /\ Head(todo[t]) = "poll" => base[t] # 0 /\ latest > base[t]
    BY <1>7, FetchFacts
  <2>3. Head(todo[t]) = "reread" => client # "SVM"
    BY <1>1, TailFacts DEF Shape, WellFormed
  <2>4. ASSUME kind[t] = "forced", client \in Promises
        PROVE  latest > since[t] /\ (base[t] >= since[t] \/ (client = "SVM" /\ base[t] = 0))
    <3>1. ~ Earlier(todo[t], {"reread", "poll"}, {"baseline"})
      BY <1>1, <1>7, NotFirst
    <3>2. base[t] >= since[t] \/ (client = "SVM" /\ base[t] = 0)
      BY <1>2, <1>3, <2>4, <3>1 DEF FreshOf
    <3> QED
      BY <1>2, <1>7, <2>2, <2>3, <3>2
  <2>5. FreshOf(t)'
    BY <1>1, <2>1, <2>4 DEF FreshOf, Promises
  <2> QED
    BY <1>1, <2>5, FreshByThread
<1> QED
  BY <1>4, <1>5, <1>6, <1>7, FetchFacts

LEMMA FreshStep ==
  ASSUME Typed, Shape, Fresh, [Next]_vars
  PROVE  Fresh'
<1>1. UNCHANGED client
  BY ThreadCases DEF rigid
<1>2. CASE UNCHANGED threads
  BY <1>1, <1>2 DEF threads, Fresh, FreshOf, Promises
<1>3. ASSUME NEW t \in Threads, Pass(t) \/ ParkLocation(t) \/ Ota(t), ~ Finish(t)
      PROVE  Fresh'
  <2>1. /\ UNCHANGED <<kind, got, base, since, crowded>> /\ todo[t] # <<>> /\ Advance(t)
        /\ Head(todo[t]) \in {"more", "park", "prewakeup", "ota"}
        /\ Len(todo[t]) # 1 \/ Head(todo[t]) \notin Lasts
    BY <1>3, PassFacts, ParkFacts, OtaFacts DEF Lasts
  <2>2. got = [got EXCEPT ![t] = got[t]] /\ got[t].at \in Nat
    BY NoChange DEF Typed, ThreadTypes, Reports
  <2>3. Progress(t)
    BY <2>1, <2>2 DEF Progress
  <2>4. OthersRest(t)
    BY <2>1, <2>3, ProgressFacts DEF OthersRest
  <2> QED
    BY <1>1, <2>1, <2>2, <2>3, <2>4, FreshKept DEF Sources
<1>4. ASSUME NEW t \in Threads, WriteTime(t)
      PROVE  Fresh'
  <2>1. /\ UNCHANGED <<kind, got, base, since, crowded>> /\ todo[t] # <<>> /\ Advance(t)
        /\ Head(todo[t]) = "head"
    BY <1>4, WriteTimeTypes
  <2>2. got = [got EXCEPT ![t] = got[t]] /\ got[t].at \in Nat
    BY NoChange DEF Typed, ThreadTypes, Reports
  <2>3. Progress(t)
    BY <2>1, <2>2 DEF Progress, Lasts
  <2>4. OthersRest(t)
    BY <2>1, <2>3, ProgressFacts DEF OthersRest
  <2> QED
    BY <1>1, <2>1, <2>2, <2>3, <2>4, FreshKept DEF Sources
<1>5. ASSUME NEW t \in Threads, AskCar(t)
      PROVE  Fresh'
  <2>1. PICK r \in Reports(latest') : /\ got' = [got EXCEPT ![t] = r]
                                      /\ IF client \in Unread THEN r = None ELSE r.at = latest'
    BY <1>5, AskFacts
  <2>2. /\ UNCHANGED <<kind, base, since, crowded>> /\ todo[t] # <<>> /\ Advance(t)
        /\ Head(todo[t]) = "ask" /\ NewReport
    BY <1>5, AskFacts
  <2>3. Progress(t)
    BY <2>1, <2>2 DEF Progress, Lasts
  <2>4. OthersRest(t) /\ todo[t] \in Seq(Steps) /\ todo'[t] = Tail(todo[t]) /\ Head(todo[t]) = todo[t][1]
    BY <2>2, <2>3, ProgressFacts, TailFacts DEF OthersRest
  <2>5. /\ client \notin Unread => got'[t].at = latest'
        /\ since[t] \in Nat /\ since[t] <= latest /\ latest' > latest
        /\ latest \in Nat /\ latest' \in Nat
    <3>1. got \in [Threads -> Reports(latest)] /\ since \in [Threads -> 0..latest]
      BY DEF Typed, ThreadTypes
    <3>2. client \notin Unread => got'[t].at = latest'
      BY <2>1, <3>1
    <3>3. now \in Nat /\ latest \in Nat /\ latest <= now /\ latest' = now + 1
      BY <2>2, NumberFacts DEF NewReport
    <3>4. since[t] \in 0..latest
      BY <3>1
    <3> QED
      BY <3>2, <3>3, <3>4
  <2>6. Earlier(todo[t], {"reread", "poll"}, {"baseline"}) =>
          Earlier(todo'[t], {"reread", "poll"}, {"baseline"})
    BY <2>2, <2>4, TailEarlier
  <2>7. FreshOf(t)'
    BY <1>1, <2>2, <2>5, <2>6 DEF Fresh, FreshOf, Promises
  <2> QED
    BY <1>1, <2>4, <2>7, FreshByThread
<1>6. ASSUME NEW t \in Threads, WriteBody(t), ~ Finish(t)
      PROVE  Fresh'
  <2>1. /\ Head(todo[t]) = "body" /\ todo[t] # <<>> /\ Len(todo[t]) # 1 /\ Advance(t)
        /\ got' = [got EXCEPT ![t] = None] /\ UNCHANGED <<kind, base, since, crowded>>
    BY <1>6, WriteBodyFacts
  <2>2. Progress(t)
    BY <2>1 DEF Progress
  <2>3. OthersRest(t) /\ todo[t] \in Seq(Steps) /\ todo'[t] = Tail(todo[t]) /\ Head(todo[t]) = todo[t][1]
    BY <2>1, <2>2, ProgressFacts, TailFacts DEF OthersRest
  <2>4. Earlier(todo[t], {"reread", "poll"}, {"baseline"}) =>
          Earlier(todo'[t], {"reread", "poll"}, {"baseline"})
    BY <2>1, <2>3, TailEarlier
  <2>5. NoneAfter(todo[t], Takes, Takes)
    BY DEF Shape, WellFormed
  <2>6. ASSUME NEW i \in Places(todo'[t])
        PROVE  todo'[t][i] \notin Takes
    <3>1. todo[t] \in Seq(Steps) /\ todo[t] # <<>> /\ i \in Places(Tail(todo[t]))
      BY <2>1, <2>3, <2>6
    <3>2. i + 1 \in Places(todo[t]) /\ Tail(todo[t])[i] = todo[t][i + 1] /\ 1 \in Places(todo[t])
      BY <3>1, TailFacts
    <3>3. 1 < i + 1 /\ todo[t][1] \in Takes
      BY <2>1, <2>3, <3>1 DEF Places, Takes
    <3> QED
      BY <2>3, <2>5, <3>2, <3>3 DEF NoneAfter
  <2>7. Earlier(todo'[t], Takes, Sources)
    BY <2>6 DEF Earlier
  <2>8. FreshOf(t)'
    BY <1>1, <2>1, <2>4, <2>7 DEF Fresh, FreshOf, Promises
  <2> QED
    BY <1>1, <2>3, <2>8, FreshByThread
<1>7. ASSUME NEW t \in Threads, Deliver(t) \/ ParserRaises(t)
      PROVE  Fresh'
  BY <1>1, <1>7, FreshFinish DEF Deliver, ParserRaises
<1>8. CASE UNCHANGED vars \/ CarReports \/ TimePasses
  BY <1>2, <1>8 DEF vars, threads, CarReports, TimePasses
<1> QED
  BY <1>1, <1>3, <1>4, <1>5, <1>6, <1>7, <1>8, FreshFinish, FreshRun, FreshFetch, StepCases

-----------------------------------------------------------------------------
(* The refinement of FreshReport.                                           *)

Call  == [t \in Threads |-> IF kind[t] = "forced"
                            THEN IF client \in Promises THEN "refresh" ELSE "cached"
                            ELSE kind[t]]
Taken == IF client = "SVM" THEN image ELSE body

LEMMA AbstractInit == Init => Abstract!Init
<1> SUFFICES ASSUME Init PROVE Abstract!Init
  OBVIOUS
<1>1. latest \in {0, 1} /\ Taken = 0 /\ since = [t \in Threads |-> 0]
  BY DEF Init, Taken
<1>2. Call = [t \in Threads |-> "none"]
  BY DEF Init, Call
<1> QED
  BY <1>1, <1>2 DEF Abstract!Init, Call, Taken

\* Where a report is handed on, a forced refresh holds a new one.
LEMMA TakeIsFresh ==
  ASSUME Typed, Shape, Fresh, NEW t \in Threads, todo[t] # <<>>, Head(todo[t]) \in Takes
  PROVE  /\ got[t].at \in 0..latest /\ Call[t] # "none"
         /\ Call[t] = "refresh" => got[t].at > since[t]
<1>1. got[t] \in Reports(latest) /\ todo[t] \in Seq(Steps) /\ kind[t] \in Kinds
  BY DEF Typed, ThreadTypes
<1>2. got[t].at \in 0..latest
  BY <1>1 DEF Reports
<1>3. kind[t] # "none"
  BY DEF Shape
<1>4. Call[t] # "none" /\ (Call[t] = "refresh" => kind[t] = "forced" /\ client \in Promises)
  BY <1>1, <1>3 DEF Call, Kinds
<1>5. ~ Earlier(todo[t], Takes, Sources)
  BY <1>1, NotFirst, TailFacts
<1> QED
  BY <1>2, <1>4, <1>5 DEF Fresh, FreshOf

LEMMA EndedFacts ==
  ASSUME Typed, NEW t \in Threads, Finish(t), client' = client
  PROVE  Call' = [Call EXCEPT ![t] = "none"] /\ since' = [since EXCEPT ![t] = 0]
<1>1. kind' = [kind EXCEPT ![t] = "none"] /\ since' = [since EXCEPT ![t] = 0]
      /\ kind \in [Threads -> Kinds]
  BY DEF Finish, Typed, ThreadTypes
<1>2. Promises' = Promises
  BY DEF Promises
<1> QED
  BY <1>1, <1>2 DEF Call

LEMMA CallKept ==
  ASSUME UNCHANGED <<kind, client>>
  PROVE  Call' = Call
<1>1. Promises' = Promises
  BY DEF Promises
<1> QED
  BY <1>1 DEF Call

\* The abstract step of each kind of step.
LEMMA AbstractFacts ==
  /\ (Abstract!CarReports <=>
        /\ latest' \in Int /\ latest' > latest
        /\ UNCHANGED <<Taken, Call, since>>)
  /\ \A c \in Threads : (Abstract!Take(c) <=>
        /\ Call[c] # "none"
        /\ Taken' \in 0..latest
        /\ Call[c] = "refresh" => Taken' > since[c]
        /\ \/ Call' = [Call EXCEPT ![c] = "none"] /\ since' = [since EXCEPT ![c] = 0]
           \/ UNCHANGED <<Call, since>>
        /\ UNCHANGED latest)
  /\ \A c \in Threads : (Abstract!End(c) <=>
        /\ Call[c] # "none"
        /\ Call' = [Call EXCEPT ![c] = "none"] /\ since' = [since EXCEPT ![c] = 0]
        /\ UNCHANGED <<latest, Taken>>)
  /\ \A c \in Threads : (Abstract!Begin(c) <=>
        /\ Call[c] = "none"
        /\ \/ Call' = [Call EXCEPT ![c] = "cached"] /\ UNCHANGED since
           \/ /\ Call' = [Call EXCEPT ![c] = "refresh"]
              /\ since' = [since EXCEPT ![c] = latest]
        /\ UNCHANGED <<latest, Taken>>)
  /\ (UNCHANGED <<latest, Taken, Call, since>> => UNCHANGED Abstract!fvars)
  BY DEF Abstract!CarReports, Abstract!Take, Abstract!End, Abstract!Begin, Abstract!Ended,
         Abstract!fvars, Call, Taken

LEMMA AbstractRun ==
  ASSUME Typed, Shape, NEW t \in Threads, NEW k \in {"cached", "forced"}, Run(t, k)
  PROVE  Abstract!Begin(t)
<1>1. /\ kind[t] = "none" /\ kind' = [kind EXCEPT ![t] = k]
      /\ since' = [since EXCEPT ![t] = IF k = "forced" /\ client \in Promises THEN latest ELSE 0]
      /\ UNCHANGED <<client, latest, body, image>>
  BY DEF Run, Idle, rigid, cloud, vehicle
<1>2. since[t] = 0 /\ since \in [Threads -> 0..latest] /\ kind \in [Threads -> Kinds]
  BY <1>1 DEF Shape, Typed, ThreadTypes
<1>3. Promises' = Promises /\ Taken' = Taken
  BY <1>1 DEF Promises, Taken
<1>4. Call[t] = "none"
  BY <1>1 DEF Call
<1>5. CASE k = "forced" /\ client \in Promises
  <2>1. Call' = [Call EXCEPT ![t] = "refresh"]
    BY <1>1, <1>2, <1>3, <1>5 DEF Call
  <2>2. since' = [since EXCEPT ![t] = latest]
    BY <1>1, <1>5
  <2> QED
    BY <1>1, <1>3, <1>4, <2>1, <2>2, AbstractFacts
<1>6. CASE ~ (k = "forced" /\ client \in Promises)
  <2>1. Call' = [Call EXCEPT ![t] = "cached"]
    BY <1>1, <1>2, <1>3, <1>6 DEF Call
  <2>2. since' = since
    <3>1. since' = [since EXCEPT ![t] = since[t]]
      BY <1>1, <1>2, <1>6
    <3> QED
      BY <1>2, <3>1
  <2> QED
    BY <1>1, <1>3, <1>4, <2>1, <2>2, AbstractFacts
<1> QED
  BY <1>5, <1>6

LEMMA AbstractStep ==
  ASSUME Typed, Shape, Fresh, [Next]_vars
  PROVE  [Abstract!Next]_(Abstract!fvars)
<1>1. client' = client
  BY ThreadCases DEF rigid
<1>2. ASSUME NEW t \in Threads, todo[t] # <<>>, Finish(t), UNCHANGED <<latest, Taken>>
      PROVE  Abstract!End(t)
  <2>1. Call[t] # "none"
    BY <1>2 DEF Shape, Call
  <2> QED
    BY <1>1, <1>2, <2>1, EndedFacts, AbstractFacts
<1>3. ASSUME UNCHANGED <<kind, since, latest, Taken>>
      PROVE  UNCHANGED Abstract!fvars
  BY <1>1, <1>3, CallKept, AbstractFacts
<1>4. ASSUME NewReport, UNCHANGED <<kind, since>>
      PROVE  Abstract!CarReports
  <2>1. latest' \in Int /\ latest' > latest
    BY <1>4, NewReportTypes, NumberFacts
  <2>2. Taken' = Taken
    BY <1>1, <1>4 DEF NewReport, Taken, vehicle
  <2> QED
    BY <1>1, <1>4, <2>1, <2>2, CallKept, AbstractFacts
<1>5. ASSUME NEW t \in Threads, Fetch(t)
      PROVE  UNCHANGED Abstract!fvars
  <2>1. UNCHANGED <<kind, since, latest, Taken>>
    BY <1>1, <1>5, FetchFacts DEF Taken, cloud, vehicle
  <2> QED
    BY <1>3, <2>1
<1>6. ASSUME NEW t \in Threads, WriteTime(t)
      PROVE  UNCHANGED Abstract!fvars
  <2>1. UNCHANGED <<kind, since, latest, Taken>>
    BY <1>1, <1>6, WriteTimeTypes DEF Taken, cloud
  <2> QED
    BY <1>3, <2>1
<1>7. ASSUME NEW t \in Threads, Pass(t) \/ ParserRaises(t) \/ ParkLocation(t) \/ Ota(t)
      PROVE  Abstract!End(t) \/ UNCHANGED Abstract!fvars
  <2>1. /\ todo[t] # <<>> /\ UNCHANGED <<latest, Taken>>
        /\ Finish(t) \/ UNCHANGED <<kind, since>>
    BY <1>1, <1>7, PassFacts, ParserRaisesFacts, ParkFacts, OtaFacts DEF Taken, cloud, vehicle
  <2> QED
    BY <1>2, <1>3, <2>1
<1>8. ASSUME NEW t \in Threads, WriteBody(t)
      PROVE  Abstract!Take(t) \/ Abstract!End(t) \/ UNCHANGED Abstract!fvars
  <2>1. /\ todo[t] # <<>> /\ Head(todo[t]) = "body" /\ UNCHANGED <<latest, image>>
        /\ body' = got[t].at /\ (Finish(t) \/ UNCHANGED <<kind, since>>)
    BY <1>8, WriteBodyFacts DEF cloud
  <2>2. CASE client = "SVM"
    <3>1. Taken' = Taken
      BY <1>1, <2>1, <2>2 DEF Taken
    <3> QED
      BY <1>2, <1>3, <2>1, <3>1
  <2>3. CASE client # "SVM"
    <3>1. Taken' = got[t].at
      BY <1>1, <2>1, <2>3 DEF Taken
    <3>2. \/ Call' = [Call EXCEPT ![t] = "none"] /\ since' = [since EXCEPT ![t] = 0]
          \/ UNCHANGED <<Call, since>>
      BY <1>1, <2>1, EndedFacts, CallKept
    <3> QED
      BY <2>1, <3>1, <3>2, TakeIsFresh, AbstractFacts DEF Takes
  <2> QED
    BY <2>2, <2>3
<1>9. ASSUME NEW t \in Threads, Deliver(t)
      PROVE  Abstract!Take(t) \/ Abstract!End(t)
  <2>1. /\ todo[t] # <<>> /\ Head(todo[t]) = "deliver" /\ UNCHANGED <<latest, body>>
        /\ image' = got[t].at /\ Finish(t)
    BY <1>9 DEF Deliver, At, cloud
  <2>2. CASE client # "SVM"
    <3>1. Taken' = Taken
      BY <1>1, <2>1, <2>2 DEF Taken
    <3> QED
      BY <1>2, <2>1, <3>1
  <2>3. CASE client = "SVM"
    <3>1. Taken' = got[t].at
      BY <1>1, <2>1, <2>3 DEF Taken
    <3> QED
      BY <1>1, <2>1, <3>1, EndedFacts, TakeIsFresh, AbstractFacts DEF Takes
  <2> QED
    BY <2>2, <2>3
<1>10. ASSUME NEW t \in Threads, AskCar(t)
       PROVE  Abstract!CarReports
  BY <1>4, <1>10, AskFacts
<1>11. CASE CarReports
  BY <1>4, <1>11, CarReportsTypes DEF threads, Abstract!Next
<1>12. CASE TimePasses \/ UNCHANGED vars
  <2>1. UNCHANGED <<kind, since, latest, Taken>>
    BY <1>1, <1>12 DEF TimePasses, vars, threads, cloud, vehicle, Taken
  <2> QED
    BY <1>3, <2>1
<1> QED
  BY <1>5, <1>6, <1>7, <1>8, <1>9, <1>10, <1>11, <1>12, AbstractRun, StepCases DEF Abstract!Next

-----------------------------------------------------------------------------
(* The software check.                                                      *)

LEMMA NextHead ==
  ASSUME Typed, Shape, NEW t \in Threads, Progress(t), NEW a, NEW b, Paired(todo[t], a, b)
  PROVE  Head(todo[t]) = a <=> Head(todo'[t]) = b
<1>1. /\ todo[t] \in Seq(Steps) /\ todo[t] # <<>> /\ todo'[t] = Tail(todo[t]) /\ todo'[t] # <<>>
      /\ Tail(todo[t]) \in Seq(Steps)
  BY ProgressFacts, TailFacts
<1>2. 1 \in Places(todo[t]) /\ Head(todo[t]) = todo[t][1]
  BY <1>1, TailFacts
<1>3. 1 \in Places(Tail(todo[t])) /\ Head(Tail(todo[t])) = Tail(todo[t])[1]
  BY <1>1, TailFacts
<1>4. 1 + 1 \in Places(todo[t]) /\ Tail(todo[t])[1] = todo[t][1 + 1]
  BY <1>1, <1>3, TailFacts
<1> QED
  BY <1>1, <1>2, <1>3, <1>4 DEF Paired

\* An answer about software updates that will be believed is on its way, or
\* there is an excuse for one that was lost; an answer that will not be
\* believed is one.
SoftwareInv ==
  /\ checked => ota \/ otaExcuse \/ \E t \in Threads : InFlight(t) /\ held[t]
  /\ \A t \in Threads : InFlight(t) /\ ~ held[t] => otaExcuse

\* The others wait, or not, as before.
LEMMA OthersInFlight ==
  ASSUME NEW t \in Threads, \A u \in Threads \ {t} : todo'[u] = todo[u]
  PROVE  \A u \in Threads \ {t} : InFlight(u)' <=> InFlight(u)
  BY DEF InFlight, At

LEMMA SoftwareKept ==
  ASSUME SoftwareInv, UNCHANGED <<checked, ota, otaExcuse>>, NEW t \in Threads,
         \A u \in Threads \ {t} : todo'[u] = todo[u] /\ held'[u] = held[u],
         ~ InFlight(t), ~ InFlight(t)'
  PROVE  SoftwareInv'
<1>1. \A u \in Threads \ {t} : InFlight(u)' <=> InFlight(u)
  BY OthersInFlight
<1> QED
  BY <1>1 DEF SoftwareInv

LEMMA SoftwareOta ==
  ASSUME Typed, Shape, SoftwareInv, NEW t \in Threads, Ota(t)
  PROVE  SoftwareInv'
<1>1. \A u \in Threads \ {t} : todo'[u] = todo[u]
  BY DEF Ota, PrewakeupAndReset, AskOta, OtaFails, KeepOta, Advance, Finish, Typed, ThreadTypes
<1>2. /\ \A u \in Threads \ {t} : InFlight(u)' <=> InFlight(u)
      /\ held \in [Threads -> BOOLEAN]
  BY <1>1, OthersInFlight DEF Typed, ThreadTypes
<1>3. ASSUME PrewakeupAndReset(t) \/ AskOta(t)
      PROVE  Progress(t)
  <2>1. got = [got EXCEPT ![t] = got[t]]
    BY NoChange DEF Typed, ThreadTypes
  <2> QED
    BY <1>3, <2>1 DEF PrewakeupAndReset, AskOta, At, Progress, Lasts
<1>4. CASE PrewakeupAndReset(t)
  <2>1. ~ InFlight(t)'
    <3>1. Head(todo[t]) = "prewakeup" /\ Paired(todo[t], "ota", "keep")
      BY <1>4 DEF PrewakeupAndReset, At, Shape, WellFormed
    <3>2. Head(todo[t]) = "ota" <=> Head(todo'[t]) = "keep"
      BY <1>3, <1>4, <3>1, NextHead
    <3> QED
      BY <3>1, <3>2 DEF InFlight, At
  <2>2. checked' = FALSE /\ otaExcuse' = \E u \in Threads : InFlight(u)
    BY <1>4 DEF PrewakeupAndReset, FlagsReset
  <2> QED
    BY <1>2, <2>1, <2>2 DEF SoftwareInv
<1>5. CASE AskOta(t)
  <2>1. InFlight(t)'
    <3>1. Head(todo[t]) = "ota" /\ Paired(todo[t], "ota", "keep")
      BY <1>5 DEF AskOta, At, Shape, WellFormed
    <3>2. Head(todo'[t]) = "keep"
      BY <1>3, <1>5, <3>1, NextHead
    <3>3. todo'[t] # <<>>
      BY <1>3, <1>5, ProgressFacts
    <3> QED
      BY <3>2, <3>3 DEF InFlight, At
  <2>2. /\ held' = [held EXCEPT ![t] = TRUE]
        /\ otaExcuse' = (otaExcuse \/ \E u \in Threads : InFlight(u))
    BY <1>5 DEF AskOta
  <2>3. held'[t] /\ \A u \in Threads \ {t} : InFlight(u) => otaExcuse'
    BY <1>2, <2>2
  <2> QED
    BY <1>2, <2>1, <2>3 DEF SoftwareInv
<1>6. CASE OtaFails(t) \/ KeepOta(t)
  <2>1. Finish(t) /\ InFlight(t)
    BY <1>6 DEF OtaFails, KeepOta, InFlight
  <2>2. todo'[t] = <<>> /\ \A u \in Threads \ {t} : held'[u] = held[u]
    BY <2>1, FinishFacts
  <2>3. ~ InFlight(t)'
    BY <2>2 DEF InFlight, At
  <2>4. CASE OtaFails(t)
    <3>1. otaExcuse'
      BY <2>4 DEF OtaFails
    <3> QED
      BY <3>1 DEF SoftwareInv
  <2>5. CASE KeepOta(t)
    <3>1. ota' = held[t] /\ otaExcuse' = otaExcuse
      BY <2>5 DEF KeepOta, history
    <3>2. held[t] \/ otaExcuse
      BY <2>1 DEF SoftwareInv
    <3> QED
      BY <1>2, <2>2, <2>3, <3>1, <3>2 DEF SoftwareInv
  <2> QED
    BY <1>6, <2>4, <2>5
<1> QED
  BY <1>4, <1>5, <1>6 DEF Ota

LEMMA SoftwareStep ==
  ASSUME Typed, Shape, SoftwareInv, [Next]_vars
  PROVE  SoftwareInv'
<1>1. ASSUME NEW t \in Threads, Progress(t), held' = held, Head(todo[t]) \notin {"ota", "keep"},
             UNCHANGED <<checked, ota, otaExcuse>>
      PROVE  SoftwareInv'
  <2>1. Paired(todo[t], "ota", "keep")
    BY DEF Shape, WellFormed
  <2>2. ~ InFlight(t) /\ ~ InFlight(t)'
    BY <1>1, <2>1, NextHead DEF InFlight, At
  <2>3. \A u \in Threads \ {t} : todo'[u] = todo[u] /\ held'[u] = held[u]
    BY <1>1, ProgressFacts
  <2> QED
    BY <1>1, <2>2, <2>3, SoftwareKept
<1>2. ASSUME NEW t \in Threads, Finish(t), todo[t] # <<>>, Head(todo[t]) # "keep",
             UNCHANGED <<checked, ota, otaExcuse>>
      PROVE  SoftwareInv'
  <2>1. todo'[t] = <<>> /\ \A u \in Threads \ {t} : todo'[u] = todo[u] /\ held'[u] = held[u]
    BY <1>2, FinishFacts
  <2>2. ~ InFlight(t) /\ ~ InFlight(t)'
    BY <1>2, <2>1 DEF InFlight, At
  <2> QED
    BY <1>2, <2>1, <2>2, SoftwareKept
<1>3. ASSUME NEW t \in Threads, NEW k \in {"cached", "forced"}, Run(t, k)
      PROVE  SoftwareInv'
  <2>1. /\ todo'[t] = Program(client)[k] /\ kind[t] = "none"
        /\ UNCHANGED <<held, checked, ota, otaExcuse>>
        /\ \A u \in Threads \ {t} : todo'[u] = todo[u]
    BY <1>3, RunFacts DEF vehicle, history
  <2>2. Program(client)[k] # <<>> /\ Program(client)[k][1] # "keep"
        /\ Program(client)[k] \in Seq(Steps)
    BY NumberFacts, ProgramFacts DEF Starts, WellFormed
  <2>3. ~ InFlight(t)'
    BY <2>1, <2>2, TailFacts DEF InFlight, At
  <2>4. ~ InFlight(t)
    BY <2>1 DEF Shape, InFlight, At
  <2> QED
    BY <2>1, <2>3, <2>4, SoftwareKept
<1>4. CASE UNCHANGED vars \/ CarReports \/ TimePasses
  <2>1. UNCHANGED <<todo, held, checked, ota, otaExcuse>>
    BY <1>4 DEF vars, CarReports, TimePasses, threads, vehicle, history
  <2> QED
    BY <2>1 DEF SoftwareInv, InFlight, At
<1>5. ASSUME NEW t \in Threads, Fetch(t)
      PROVE  SoftwareInv'
  <2>1. /\ held' = held /\ UNCHANGED <<checked, ota, otaExcuse>> /\ Progress(t)
        /\ Head(todo[t]) \notin {"ota", "keep"}
    BY <1>5, FetchFacts, FetchOthers DEF vehicle, history
  <2> QED
    BY <1>1, <2>1
<1>6. ASSUME NEW t \in Threads, Pass(t)
      PROVE  SoftwareInv'
  <2>1. /\ todo[t] # <<>> /\ Head(todo[t]) # "keep" /\ UNCHANGED <<checked, ota, otaExcuse>>
        /\ \/ Finish(t)
           \/ /\ Head(todo[t]) = "more" /\ Len(todo[t]) # 1 /\ Advance(t)
              /\ UNCHANGED <<kind, got, base, held, since, refused, crowded>>
    BY <1>6, PassFacts DEF vehicle, history, Fails
  <2>2. got = [got EXCEPT ![t] = got[t]]
    BY NoChange DEF Typed, ThreadTypes
  <2>3. Finish(t) \/ (Progress(t) /\ held' = held /\ Head(todo[t]) = "more")
    BY <2>1, <2>2 DEF Progress
  <2> QED
    BY <1>1, <1>2, <2>1, <2>3
<1>7. ASSUME NEW t \in Threads, Deliver(t) \/ ParserRaises(t)
      PROVE  SoftwareInv'
  <2>1. /\ todo[t] # <<>> /\ Head(todo[t]) # "keep" /\ UNCHANGED <<checked, ota, otaExcuse>>
        /\ Finish(t)
    BY <1>7 DEF Deliver, ParserRaises, At, history
  <2> QED
    BY <1>2, <2>1
<1>8. ASSUME NEW t \in Threads, AskCar(t) \/ WriteTime(t)
      PROVE  SoftwareInv'
  <2>1. got = [got EXCEPT ![t] = got[t]]
    BY NoChange DEF Typed, ThreadTypes
  <2>2. /\ held' = held /\ UNCHANGED <<checked, ota, otaExcuse>>
        /\ Head(todo[t]) \in {"ask", "head"} /\ Progress(t)
    BY <1>8, <2>1, AskFacts, WriteTimeTypes DEF vehicle, history, NewReport, Progress, Lasts
  <2> QED
    BY <1>1, <2>2
<1>9. ASSUME NEW t \in Threads, WriteBody(t) \/ ParkLocation(t)
      PROVE  SoftwareInv'
  <2>1. got = [got EXCEPT ![t] = got[t]]
    BY NoChange DEF Typed, ThreadTypes
  <2>2. /\ todo[t] # <<>> /\ UNCHANGED <<checked, ota, otaExcuse>>
        /\ Head(todo[t]) \in {"body", "park"}
        /\ Finish(t) \/ (Progress(t) /\ held' = held)
    BY <1>9, <2>1, WriteBodyFacts, ParkFacts DEF Progress
  <2> QED
    BY <1>1, <1>2, <2>2
<1> QED
  BY <1>3, <1>4, <1>5, <1>6, <1>7, <1>8, <1>9, SoftwareOta, StepCases

-----------------------------------------------------------------------------
(* The vehicle's time.                                                      *)

\* A thread that nobody met has not read yet, or holds a report that has no time
\* or is not older than the vehicle's; after its time was written, the vehicle
\* has it, or both are in doubt.
TimeOfThread(t) ==
  ~ crowded[t] =>
    /\ Earlier(todo[t], {"head"}, Asks) \/ got[t].at >= body \/ ~ got[t].dated
    /\ At(t, "body") /\ got[t].dated =>
         \/ stamp = got[t].at
         \/ got[t].at <= blur /\ stamp <= Newest(blur, got[t].at + Ahead)

\* The vehicle's time is that of its report, or both are in doubt, or a thread
\* is between the two.
InDoubt == stamp <= blur /\ body <= blur

TimeInv ==
  /\ InDoubt \/ stamp = body \/ \E t \in Threads : At(t, "body")
  /\ \A t \in Threads : TimeOfThread(t)

LEMMA IdleTime ==
  ASSUME NEW t \in Threads, todo[t] = <<>>
  PROVE  TimeOfThread(t)
<1>1. Earlier(<<>>, {"head"}, Asks) /\ ~ At(t, "body")
  BY DEF Earlier, Places, At
<1> QED
  BY <1>1 DEF TimeOfThread

\* Whoever else is at the vehicle has been met.
LEMMA TimeOthers ==
  ASSUME Shape, Alone, NEW t \in Threads, kind[t] # "none",
         \A u \in Threads \ {t} : todo'[u] = todo[u] /\ crowded'[u] = crowded[u],
         TimeOfThread(t)'
  PROVE  \A u \in Threads : TimeOfThread(u)'
<1> SUFFICES ASSUME NEW u \in Threads, u # t
             PROVE  TimeOfThread(u)'
  OBVIOUS
<1>1. CASE kind[u] = "none"
  <2>1. todo'[u] = <<>>
    BY <1>1 DEF Shape
  <2>2. Earlier(todo'[u], {"head"}, Asks) /\ ~ At(u, "body")'
    BY <2>1 DEF Earlier, Places, At
  <2> QED
    BY <2>2 DEF TimeOfThread
<1>2. CASE kind[u] # "none"
  <2>1. crowded'[u]
    BY <1>2 DEF Alone
  <2> QED
    BY <2>1 DEF TimeOfThread
<1> QED
  BY <1>1, <1>2

LEMMA OthersAt ==
  ASSUME NEW t \in Threads, \A u \in Threads \ {t} : todo'[u] = todo[u], NEW s
  PROVE  \A u \in Threads \ {t} : At(u, s)' <=> At(u, s)
  BY DEF At

LEMMA HeldNumbers ==
  ASSUME Typed, NEW t \in Threads
  PROVE  /\ got[t] \in Reports(latest) /\ got[t].at \in Nat /\ got[t].at <= latest
         /\ got[t].where \in Nat /\ got[t].where <= latest /\ got[t].dated \in BOOLEAN
         /\ crowded[t] \in BOOLEAN
<1>1. got[t] \in Reports(latest) /\ crowded[t] \in BOOLEAN
  BY DEF Typed, ThreadTypes
<1> QED
  BY <1>1, NumberFacts DEF Reports

\* A step before the status is written, or after it.
LEMMA TimeKept ==
  ASSUME Typed, Shape, Alone, TimeInv, NEW t \in Threads, Progress(t),
         UNCHANGED <<stamp, body, blur>>, Head(todo[t]) \notin {"head", "body"},
         got'[t].at \in Nat,
         \/ got'[t].at >= body \/ ~ got'[t].dated
         \/ Head(todo[t]) \notin Asks /\ got'[t].at = got[t].at /\ got'[t].dated = got[t].dated
  PROVE  TimeInv'
<1>1. /\ todo[t] \in Seq(Steps) /\ todo[t] # <<>> /\ todo'[t] = Tail(todo[t])
      /\ UNCHANGED <<kind, since, crowded>> /\ Head(todo[t]) = todo[t][1]
      /\ \A u \in Threads \ {t} : todo'[u] = todo[u] /\ crowded'[u] = crowded[u]
  BY ProgressFacts, TailFacts
<1>2. Paired(todo[t], "head", "body") /\ kind[t] # "none"
  BY <1>1 DEF Shape, WellFormed
<1>3. Head(todo[t]) = "head" <=> Head(todo'[t]) = "body"
  BY <1>2, NextHead
<1>4. ~ At(t, "body") /\ ~ At(t, "body")'
  BY <1>3 DEF At
<1>5. \A u \in Threads \ {t} : At(u, "body")' <=> At(u, "body")
  BY <1>1, OthersAt
<1>6. Earlier(todo[t], {"head"}, Asks) /\ Head(todo[t]) \notin Asks => Earlier(todo'[t], {"head"}, Asks)
  BY <1>1, TailEarlier
<1>7. ~ crowded[t] => Earlier(todo[t], {"head"}, Asks) \/ got[t].at >= body \/ ~ got[t].dated
  BY DEF TimeInv, TimeOfThread
<1>8. TimeOfThread(t)'
  BY <1>1, <1>4, <1>6, <1>7 DEF TimeOfThread
<1>9. \A u \in Threads : TimeOfThread(u)'
  BY <1>1, <1>2, <1>8, TimeOthers
<1> QED
  BY <1>4, <1>5, <1>9 DEF TimeInv, InDoubt

LEMMA TimeFinish ==
  ASSUME Typed, Shape, Alone, TimeInv, NEW t \in Threads, todo[t] # <<>>, Finish(t),
         (InDoubt \/ stamp = body)' \/ (UNCHANGED <<stamp, body, blur>> /\ Head(todo[t]) # "body")
  PROVE  TimeInv'
<1>1. /\ todo'[t] = <<>> /\ kind[t] # "none"
      /\ \A u \in Threads \ {t} : todo'[u] = todo[u] /\ crowded'[u] = crowded[u]
  BY FinishFacts DEF Shape
<1>2. TimeOfThread(t)'
  <2>1. Earlier(todo'[t], {"head"}, Asks) /\ ~ At(t, "body")'
    BY <1>1 DEF Earlier, Places, At
  <2> QED
    BY <2>1 DEF TimeOfThread
<1>3. \A u \in Threads : TimeOfThread(u)'
  BY <1>1, <1>2, TimeOthers
<1>4. CASE (InDoubt \/ stamp = body)'
  BY <1>3, <1>4 DEF TimeInv
<1>5. CASE UNCHANGED <<stamp, body, blur>> /\ Head(todo[t]) # "body"
  <2>1. ~ At(t, "body") /\ \A u \in Threads \ {t} : At(u, "body")' <=> At(u, "body")
    BY <1>1, <1>5, OthersAt DEF At
  <2> QED
    BY <1>3, <1>5, <2>1 DEF TimeInv, InDoubt
<1> QED
  BY <1>4, <1>5

LEMMA TimeRun ==
  ASSUME Typed, Shape, TimeInv, NEW t \in Threads, NEW k \in {"cached", "forced"}, Run(t, k)
  PROVE  TimeInv'
<1>1. /\ todo'[t] = Program(client)[k] /\ kind[t] = "none" /\ todo[t] = <<>>
      /\ UNCHANGED <<got, stamp, body, blur, offset>>
      /\ \A u \in Threads \ {t} : todo'[u] = todo[u] /\ (crowded[u] => crowded'[u])
  BY RunFacts DEF rigid, vehicle, history, Shape
<1>2. /\ Program(client)[k] # <<>> /\ Program(client)[k][1] # "body"
      /\ Program(client)[k] \in Seq(Steps) /\ Earlier(Program(client)[k], {"head"}, Asks)
  BY NumberFacts, ProgramFacts DEF Starts, WellFormed
<1>3. ~ At(t, "body")' /\ ~ At(t, "body")
  BY <1>1, <1>2, TailFacts DEF At
<1>4. \A u \in Threads \ {t} : At(u, "body")' <=> At(u, "body")
  BY <1>1, OthersAt
<1>5. TimeOfThread(t)'
  BY <1>1, <1>2, <1>3 DEF TimeOfThread
<1>6. ASSUME NEW u \in Threads \ {t}
      PROVE  TimeOfThread(u)'
  <2>1. TimeOfThread(u) /\ Ahead' = Ahead /\ (At(u, "body")' <=> At(u, "body"))
    BY <1>1, <1>4 DEF TimeInv, Ahead
  <2> QED
    BY <1>1, <2>1 DEF TimeOfThread
<1> QED
  BY <1>1, <1>3, <1>4, <1>5, <1>6 DEF TimeInv, InDoubt

LEMMA TimeWriteTime ==
  ASSUME Typed, Shape, Alone, TimeInv, NEW t \in Threads, WriteTime(t)
  PROVE  TimeInv'
<1>1. /\ Head(todo[t]) = "head" /\ todo[t] # <<>> /\ Advance(t)
      /\ stamp' = Stamped(stamp, TimeOf(got[t]))
      /\ UNCHANGED <<offset, now, latest, body, blur, kind, got, base, held, since, refused, crowded>>
  BY WriteTimeTypes DEF rigid, cloud, history
<1>2. Progress(t)
  <2>1. got = [got EXCEPT ![t] = got[t]]
    BY NoChange DEF Typed, ThreadTypes
  <2> QED
    BY <1>1, <2>1 DEF Progress, Lasts
<1>3. /\ todo[t] \in Seq(Steps) /\ todo'[t] # <<>> /\ Head(todo[t]) = todo[t][1] /\ kind[t] # "none"
      /\ \A u \in Threads \ {t} : todo'[u] = todo[u] /\ crowded'[u] = crowded[u]
  BY <1>1, <1>2, ProgressFacts, TailFacts DEF Shape
<1>4. Head(todo'[t]) = "body"
  <2>1. Paired(todo[t], "head", "body")
    BY DEF Shape, WellFormed
  <2>2. Head(todo[t]) = "head" <=> Head(todo'[t]) = "body"
    BY <1>2, <2>1, NextHead
  <2> QED
    BY <1>1, <2>2
<1>5. At(t, "body")'
  BY <1>3, <1>4 DEF At
<1> DEFINE n == got[t].at
<1>6. n \in Nat /\ n <= now /\ Ahead' = Ahead
  BY <1>1, HeldNumbers, NumberFacts DEF Ahead
<1>7. ASSUME ~ crowded[t]
      PROVE  /\ n >= body \/ ~ got[t].dated
             /\ got[t].dated => \/ stamp' = n
                                \/ n <= blur /\ stamp' <= Newest(blur, n + Ahead)
  <2>1. ~ Earlier(todo[t], {"head"}, Asks)
    BY <1>1, <1>3, NotFirst
  <2>2. n >= body \/ ~ got[t].dated
    BY <1>7, <2>1 DEF TimeInv, TimeOfThread
  <2>3. \A u \in Threads : ~ At(u, "body")
    <3>1. \A u \in Threads \ {t} : kind[u] = "none"
      BY <1>3, <1>7 DEF Alone
    <3> QED
      BY <1>1, <3>1 DEF Shape, At
  <2>4. InDoubt \/ stamp = body
    BY <2>3 DEF TimeInv
  <2>5. ASSUME got[t].dated
        PROVE  stamp' = n \/ (n <= blur /\ stamp' <= Newest(blur, n + Ahead))
    <3>1. stamp' = Stamped(stamp, n)
      BY <1>1, <2>5, TimeOfFacts
    <3>2. /\ \/ stamp' = n
             \/ n < stamp /\ stamp' \in {stamp, n + offset}
      BY <1>6, <3>1, StampedFacts
    <3>3. n < stamp => n <= blur /\ stamp <= blur
      BY <1>6, <2>2, <2>4, <2>5, NumberFacts DEF InDoubt
    <3>4. blur <= Newest(blur, n + Ahead) /\ n + Ahead <= Newest(blur, n + Ahead)
          /\ Newest(blur, n + Ahead) \in Nat
      BY <1>6, NumberFacts, NewestFacts
    <3> QED
      BY <1>6, <3>2, <3>3, <3>4, NumberFacts
  <2> QED
    BY <2>2, <2>5
<1>8. TimeOfThread(t)'
  BY <1>1, <1>6, <1>7 DEF TimeOfThread
<1>9. \A u \in Threads : TimeOfThread(u)'
  BY <1>3, <1>8, TimeOthers
<1> QED
  BY <1>5, <1>9 DEF TimeInv

LEMMA TimeWriteBody ==
  ASSUME Typed, Shape, Alone, TimeInv, NEW t \in Threads, WriteBody(t)
  PROVE  TimeInv'
<1> DEFINE n == got[t].at
           d == DoubtAbout(got[t], crowded[t])
<1>1. /\ Head(todo[t]) = "body" /\ todo[t] # <<>> /\ At(t, "body") /\ body' = n
      /\ blur' = Newest(blur, d) /\ UNCHANGED <<stamp, client, offset>>
      /\ \/ Finish(t)
         \/ /\ Len(todo[t]) # 1 /\ Advance(t) /\ got' = [got EXCEPT ![t] = None]
            /\ UNCHANGED <<kind, base, held, since, refused, crowded>>
  BY WriteBodyFacts DEF rigid, At
<1>2. /\ n \in Nat /\ n <= now /\ crowded[t] \in BOOLEAN /\ got[t].dated \in BOOLEAN
      /\ stamp \in Nat /\ stamp <= now + Ahead /\ now \in Nat /\ Ahead \in Nat /\ blur \in Nat
  BY HeldNumbers, NumberFacts
<1>3. /\ d \in Nat
      /\ crowded[t] \/ ~ got[t].dated => d = now + Ahead
      /\ ~ crowded[t] /\ got[t].dated /\ n <= blur => d = n + Ahead
  BY <1>2, DoubtFacts
<1>4. blur <= blur' /\ d <= blur' /\ blur' \in Nat
  BY <1>1, <1>2, <1>3, NewestFacts
<1>5. (InDoubt \/ stamp = body)'
  <2>1. CASE crowded[t] \/ ~ got[t].dated
    <3>1. stamp' <= blur' /\ body' <= blur'
      BY <1>1, <1>2, <1>3, <1>4, <2>1
    <3> QED
      BY <3>1 DEF InDoubt
  <2>2. CASE ~ crowded[t] /\ got[t].dated
    <3>1. stamp = n \/ (n <= blur /\ stamp <= Newest(blur, n + Ahead))
      BY <1>1, <2>2 DEF TimeInv, TimeOfThread
    <3>2. stamp' = body' \/ (stamp' <= blur' /\ body' <= blur')
      BY <1>1, <1>2, <1>3, <1>4, <2>2, <3>1
    <3> QED
      BY <3>2 DEF InDoubt
  <2> QED
    BY <2>1, <2>2
<1>6. CASE Finish(t)
  BY <1>1, <1>5, <1>6, TimeFinish
<1>7. CASE ~ Finish(t)
  <2>1. Progress(t)
    BY <1>1, <1>7 DEF Progress
  <2>2. /\ todo[t] \in Seq(Steps) /\ todo'[t] = Tail(todo[t]) /\ Head(todo[t]) = todo[t][1]
        /\ kind[t] # "none"
        /\ \A u \in Threads \ {t} : todo'[u] = todo[u] /\ crowded'[u] = crowded[u]
        /\ WellFormed(client, todo[t]) /\ WellFormed(client, Tail(todo[t]))
    BY <1>1, <2>1, ProgressFacts, TailFacts, TailWellFormed DEF Shape
  <2>3. ASSUME NEW i \in Places(todo'[t])
        PROVE  todo'[t][i] # "body"
    <3>1. todo[t] \in Seq(Steps) /\ todo[t] # <<>> /\ i \in Places(Tail(todo[t]))
      BY <1>1, <2>2, <2>3
    <3>2. i + 1 \in Places(todo[t]) /\ Tail(todo[t])[i] = todo[t][i + 1] /\ 1 \in Places(todo[t])
      BY <3>1, TailFacts
    <3>3. 1 < i + 1 /\ todo[t][1] \in Takes
      BY <1>1, <2>2, <2>3 DEF Places, Takes
    <3>4. NoneAfter(todo[t], Takes, Takes)
      BY <2>2 DEF WellFormed
    <3> QED
      BY <2>2, <3>2, <3>3, <3>4 DEF NoneAfter, Takes
  <2>4. ASSUME NEW i \in Places(todo'[t]), todo'[t][i] = "head"
        PROVE  FALSE
    <3>1. Paired(todo'[t], "head", "body")
      BY <2>2 DEF WellFormed
    <3>2. i + 1 \in Places(todo'[t]) /\ todo'[t][i + 1] = "body"
      BY <2>4, <3>1 DEF Paired
    <3> QED
      BY <2>3, <3>2
  <2>5. Earlier(todo'[t], {"head"}, Asks)
    BY <2>4 DEF Earlier
  <2>6. ~ At(t, "body")'
    <3>1. todo'[t] # <<>> => 1 \in Places(todo'[t]) /\ Head(todo'[t]) = todo'[t][1]
      BY <2>2, TailFacts DEF WellFormed
    <3> QED
      BY <2>3, <3>1 DEF At
  <2>7. TimeOfThread(t)'
    BY <2>5, <2>6 DEF TimeOfThread
  <2>8. \A u \in Threads : TimeOfThread(u)'
    BY <2>2, <2>7, TimeOthers
  <2> QED
    BY <1>5, <2>8 DEF TimeInv
<1> QED
  BY <1>6, <1>7

LEMMA TimeStep ==
  ASSUME Typed, Shape, Alone, TimeInv, [Next]_vars
  PROVE  TimeInv'
<1>1. CASE UNCHANGED vars \/ CarReports \/ TimePasses
  <2>1. UNCHANGED <<todo, got, crowded, stamp, body, blur, offset>>
    BY <1>1 DEF vars, CarReports, TimePasses, threads, vehicle, history, rigid
  <2> QED
    BY <2>1 DEF TimeInv, InDoubt, TimeOfThread, At, Ahead
<1>2. ASSUME NEW t \in Threads, Fetch(t)
      PROVE  TimeInv'
  <2>1. /\ Progress(t) /\ UNCHANGED <<stamp, body, blur, latest>> /\ Head(todo[t]) \notin {"head", "body"}
    BY <1>2, FetchFacts, FetchOthers DEF vehicle, history, cloud
  <2>2. got[t].at \in Nat /\ body <= latest /\ latest \in Nat /\ body \in Nat /\ Snapshot.at = latest
        /\ got \in [Threads -> Reports(latest)] /\ got[t] \in Reports(latest)
    BY HeldNumbers, NumberFacts, SnapshotTypes DEF Typed, ThreadTypes
  <2>3. \/ got'[t].at = latest
        \/ Head(todo[t]) \notin Asks /\ got'[t].at = got[t].at /\ got'[t].dated = got[t].dated
    <3>1. CASE Head(todo[t]) \in {"read", "reread", "poll"}
      BY <1>2, <2>2, <3>1, FetchFacts
    <3>2. CASE Head(todo[t]) = "locate"
      <4>1. PICK w \in {latest, got[t].where} : got' = [got EXCEPT ![t] = [got[t] EXCEPT !.where = w]]
        BY <1>2, <2>2, <3>2, FetchFacts
      <4> QED
        BY <2>2, <3>2, <4>1 DEF Asks, Reports
    <3>3. CASE Head(todo[t]) \notin {"read", "reread", "poll", "locate"}
      BY <1>2, <3>3, FetchFacts DEF Asks
    <3> QED
      BY <3>1, <3>2, <3>3
  <2> QED
    BY <2>1, <2>2, <2>3, TimeKept
<1>3. ASSUME NEW t \in Threads, Pass(t) \/ ParkLocation(t) \/ Ota(t)
      PROVE  TimeInv'
  <2>1. /\ UNCHANGED <<stamp, body, blur>> /\ todo[t] # <<>> /\ Head(todo[t]) \notin {"head", "body"}
        /\ \/ Finish(t)
           \/ /\ Advance(t) /\ UNCHANGED <<kind, got, since, crowded>>
              /\ Len(todo[t]) # 1 \/ Head(todo[t]) \notin Lasts
              /\ Head(todo[t]) \in {"more", "park", "prewakeup", "ota"}
    BY <1>3, PassFacts, ParkFacts, OtaFacts DEF vehicle, history, Lasts, Fails
  <2>2. got = [got EXCEPT ![t] = got[t]] /\ got[t].at \in Nat
    BY NoChange, HeldNumbers DEF Typed, ThreadTypes
  <2>3. CASE Finish(t)
    BY <2>1, <2>3, TimeFinish
  <2>4. CASE ~ Finish(t)
    <3>1. Progress(t) /\ Head(todo[t]) \notin Asks /\ got'[t] = got[t]
      BY <2>1, <2>2, <2>4 DEF Progress, Asks
    <3> QED
      BY <2>1, <2>2, <3>1, TimeKept
  <2> QED
    BY <2>3, <2>4
<1>4. ASSUME NEW t \in Threads, Deliver(t)
      PROVE  TimeInv'
  <2>1. /\ UNCHANGED <<stamp, body, blur>> /\ todo[t] # <<>> /\ Head(todo[t]) # "body" /\ Finish(t)
    BY <1>4 DEF Deliver, At, history
  <2> QED
    BY <2>1, TimeFinish
<1>5. ASSUME NEW t \in Threads, AskCar(t)
      PROVE  TimeInv'
  <2>1. PICK r \in Reports(latest') : /\ got' = [got EXCEPT ![t] = r]
                                      /\ IF client \in Unread THEN r = None ELSE r.at = latest'
    BY <1>5, AskFacts
  <2>2. /\ UNCHANGED <<kind, base, since, crowded>> /\ todo[t] # <<>> /\ Advance(t)
        /\ Head(todo[t]) = "ask" /\ NewReport
    BY <1>5, AskFacts
  <2>3. Progress(t) /\ UNCHANGED <<stamp, body, blur>>
    BY <2>1, <2>2 DEF Progress, Lasts, NewReport, vehicle, history
  <2>4. latest' \in Nat /\ latest < latest' /\ body <= latest /\ body \in Nat /\ latest \in Nat
    BY <2>2, NewReportTypes, NumberFacts
  <2>5. got'[t].at \in Nat /\ (got'[t].at >= body \/ ~ got'[t].dated)
    <3>1. got'[t] = r
      BY <2>1 DEF Typed, ThreadTypes
    <3>2. CASE client \in Unread
      BY <2>1, <3>1, <3>2 DEF None
    <3>3. CASE client \notin Unread
      BY <2>1, <2>4, <3>1, <3>3
    <3> QED
      BY <3>2, <3>3
  <2> QED
    BY <2>2, <2>3, <2>5, TimeKept
<1>6. ASSUME NEW t \in Threads, ParserRaises(t)
      PROVE  TimeInv'
  <2>1. /\ todo[t] # <<>> /\ Finish(t) /\ blur' = Newest(blur, now + Ahead) /\ UNCHANGED <<stamp, body>>
    BY <1>6, ParserRaisesFacts
  <2>2. now + Ahead <= blur' /\ stamp <= now + Ahead /\ body <= now + Ahead /\ blur' \in Nat
        /\ now + Ahead \in Nat /\ stamp \in Nat /\ body \in Nat
    BY <2>1, NumberFacts, NewestFacts
  <2>3. InDoubt'
    BY <2>1, <2>2 DEF InDoubt
  <2> QED
    BY <2>1, <2>3, TimeFinish
<1> QED
  BY <1>1, <1>2, <1>3, <1>4, <1>5, <1>6, TimeRun, TimeWriteTime, TimeWriteBody, StepCases

-----------------------------------------------------------------------------
(* The vehicle's location.                                                  *)

Has(p, a) == \E i \in Places(p) : p[i] \in a

\* A location a thread holds is not older than any the vehicle had, unless
\* another update was met, or the parked location is asked for afterwards.
LocationOf(t) ==
  /\ got[t].where # 0 => Has(todo[t], Takes)
  /\ ~ crowded[t] /\ got[t].where # 0 /\ client \notin TwoSources =>
       got[t].where >= seen \/ (client \in Parkers /\ Has(todo[t], {"park"}))

NewLocations == client \notin StaleLocations => embedded = latest

LocationInv ==
  /\ NewLocations
  /\ missed \/ location = seen \/ \E t \in Threads : At(t, "park")
  /\ \A t \in Threads : LocationOf(t)

LEMMA TailHas ==
  ASSUME NEW p \in Seq(Steps), p # <<>>, NEW a, Has(p, a), Head(p) \notin a
  PROVE  Has(Tail(p), a)
<1>1. PICK i \in Places(p) : p[i] \in a
  BY DEF Has
<1>2. i # 1
  BY <1>1, TailFacts
<1> QED
  BY <1>1, <1>2, TailFacts DEF Has

LEMMA LaterHas ==
  ASSUME NEW p \in Seq(Steps), p # <<>>, NEW a, NEW b, Later(p, a, b), Head(p) \in a
  PROVE  Has(Tail(p), b)
<1>1. PICK j \in Places(p) : j > 1 /\ p[j] \in b
  BY TailFacts DEF Later
<1>2. j # 1
  BY <1>1 DEF Places
<1> QED
  BY <1>1, <1>2, TailFacts DEF Has

\* Where the parked location comes next, nothing is left to be taken.
LEMMA NothingHeld ==
  ASSUME Typed, Shape, NEW t \in Threads, LocationOf(t), todo[t] # <<>>, Head(todo[t]) = "park"
  PROVE  got[t].where = 0
<1>1. /\ todo[t] \in Seq(Steps) /\ NoneAfter(todo[t], {"park"}, Takes)
  BY DEF Shape, WellFormed
<1>2. 1 \in Places(todo[t]) /\ todo[t][1] = "park"
  BY <1>1, TailFacts
<1>3. ASSUME NEW i \in Places(todo[t])
      PROVE  todo[t][i] \notin Takes
  <2>1. CASE i = 1
    BY <1>2, <2>1 DEF Takes
  <2>2. CASE i # 1
    <3>1. 1 < i
      BY <2>2 DEF Places
    <3> QED
      BY <1>1, <1>2, <3>1 DEF NoneAfter
  <2> QED
    BY <2>1, <2>2
<1> QED
  BY <1>3 DEF LocationOf, Has

\* In the programs of these clients the parked location follows at once.
LEMMA ParkNext ==
  ASSUME Typed, Shape, NEW t \in Threads, todo[t] # <<>>, Head(todo[t]) = "body",
         client \in Parkers, Has(todo[t], {"park"})
  PROVE  Tail(todo[t]) # <<>> /\ Head(Tail(todo[t])) = "park"
<1> DEFINE p == todo[t]
<1>1. /\ p \in Seq(Steps) /\ p # <<>> /\ NoneAfter(p, Takes, Takes)
      /\ \A i \in Places(p) : i + 1 \in Places(p) /\ p[i + 1] = "park" => p[i] = "body"
  BY DEF Shape, WellFormed
<1>2. 1 \in Places(p) /\ p[1] = "body" /\ Tail(p) \in Seq(Steps)
  BY <1>1, TailFacts
<1>3. PICK i \in Places(p) : p[i] = "park"
  BY DEF Has
<1>4. i # 1
  BY <1>2, <1>3
<1>5. i - 1 \in Places(Tail(p)) /\ Tail(p)[i - 1] = "park"
  BY <1>1, <1>3, <1>4, TailFacts
<1>6. i \in Nat /\ i > 1 /\ i - 1 \in Places(p) /\ (i - 1) + 1 = i
  BY <1>4 DEF Places
<1>7. p[i - 1] = "body"
  BY <1>1, <1>3, <1>6
<1>8. ~ (1 < i - 1)
  BY <1>1, <1>2, <1>6, <1>7 DEF NoneAfter, Takes
<1>9. i - 1 = 1
  BY <1>6, <1>8
<1>10. 1 \in Places(Tail(p)) /\ Tail(p)[1] = "park"
  BY <1>5, <1>9
<1>11. Tail(p) # <<>>
  <2>1. Len(<<>>) = 0
    OBVIOUS
  <2>2. 1 \notin Places(<<>>)
    BY <2>1 DEF Places
  <2> QED
    BY <1>10, <2>2
<1> QED
  BY <1>2, <1>10, <1>11, TailFacts

LEMMA NoneHeld == None.where = 0 /\ None.at = 0
  BY DEF None

LEMMA LocationOthers ==
  ASSUME Typed, Shape, Alone, LocationInv, NEW t \in Threads, kind[t] # "none",
         client' = client,
         \A u \in Threads \ {t} : /\ todo'[u] = todo[u] /\ got'[u] = got[u]
                                  /\ crowded'[u] = crowded[u],
         LocationOf(t)'
  PROVE  \A u \in Threads : LocationOf(u)'
<1> SUFFICES ASSUME NEW u \in Threads, u # t
             PROVE  LocationOf(u)'
  OBVIOUS
<1>1. CASE kind[u] = "none"
  <2>1. got'[u].where = 0
    BY <1>1, NoneHeld DEF Shape
  <2> QED
    BY <2>1 DEF LocationOf
<1>2. CASE kind[u] # "none"
  <2>1. crowded'[u] /\ (got'[u].where # 0 => Has(todo'[u], Takes))
    BY <1>2 DEF Alone, LocationInv, LocationOf
  <2> QED
    BY <2>1 DEF LocationOf
<1> QED
  BY <1>1, <1>2

\* A step of a thread that was not about to ask for the parked location.
LEMMA LocationKept ==
  ASSUME Typed, Shape, Alone, LocationInv, NEW t \in Threads, todo[t] # <<>>,
         Finish(t) \/ Progress(t), client' = client, NewLocations',
         \/ UNCHANGED <<location, seen, missed>> /\ Head(todo[t]) # "park"
         \/ missed'
         \/ location' = seen'
         \/ At(t, "park")',
         LocationOf(t)'
  PROVE  LocationInv'
<1>1. /\ kind[t] # "none"
      /\ \A u \in Threads \ {t} : /\ todo'[u] = todo[u] /\ got'[u] = got[u]
                                  /\ crowded'[u] = crowded[u]
  BY FinishFacts, ProgressFacts DEF Shape
<1>2. \A u \in Threads : LocationOf(u)'
  BY <1>1, LocationOthers
<1>3. missed' \/ location' = seen' \/ \E u \in Threads : At(u, "park")'
  <2>1. \A u \in Threads \ {t} : At(u, "park")' <=> At(u, "park")
    BY <1>1, OthersAt
  <2>2. ASSUME UNCHANGED <<location, seen, missed>>, Head(todo[t]) # "park"
        PROVE  missed' \/ location' = seen' \/ \E u \in Threads : At(u, "park")'
    <3>1. missed \/ location = seen \/ \E u \in Threads : At(u, "park")
      BY DEF LocationInv
    <3>2. ~ At(t, "park")
      BY <2>2 DEF At
    <3> QED
      BY <2>1, <2>2, <3>1, <3>2
  <2> QED
    BY <2>2
<1> QED
  BY <1>2, <1>3 DEF LocationInv

LEMMA LocationFinish ==
  ASSUME Typed, NEW t \in Threads, Finish(t)
  PROVE  LocationOf(t)'
<1>1. got'[t].where = 0
  BY FinishFacts, NoneHeld
<1> QED
  BY <1>1 DEF LocationOf

\* A step that leaves what the thread holds, and the vehicle, as they are.
LEMMA LocationRest ==
  ASSUME Typed, Shape, LocationInv, NEW t \in Threads, Progress(t), client' = client,
         got'[t].where = got[t].where, seen' = seen, Head(todo[t]) \notin Takes
  PROVE  LocationOf(t)'
<1>1. /\ todo[t] \in Seq(Steps) /\ todo[t] # <<>> /\ todo'[t] = Tail(todo[t]) /\ crowded' = crowded
  BY ProgressFacts
<1>2. LocationOf(t)
  BY DEF LocationInv
<1>3. CASE got[t].where = 0
  BY <1>3 DEF LocationOf
<1>4. CASE got[t].where # 0
  <2>1. Head(todo[t]) # "park"
    BY <1>1, <1>2, <1>4, NothingHeld
  <2>2. Has(todo'[t], Takes)
    BY <1>1, <1>2, <1>4, TailHas DEF LocationOf
  <2>3. Has(todo[t], {"park"}) => Has(todo'[t], {"park"})
    BY <1>1, <2>1, TailHas
  <2> QED
    BY <1>1, <1>2, <2>2, <2>3 DEF LocationOf
<1> QED
  BY <1>3, <1>4

LEMMA LocationRun ==
  ASSUME Typed, Shape, LocationInv, NEW t \in Threads, NEW k \in {"cached", "forced"}, Run(t, k)
  PROVE  LocationInv'
<1>1. /\ kind[t] = "none" /\ todo[t] = <<>> /\ got[t] = None
      /\ UNCHANGED <<client, embedded, latest, got, location, seen, missed>>
      /\ \A u \in Threads \ {t} : todo'[u] = todo[u] /\ (crowded[u] => crowded'[u])
  BY RunFacts DEF rigid, cloud, vehicle, history, Shape
<1>2. NewLocations'
  BY <1>1 DEF LocationInv, NewLocations
<1>3. \A u \in Threads \ {t} : At(u, "park")' <=> At(u, "park")
  BY <1>1, OthersAt
<1>4. ~ At(t, "park")
  BY <1>1 DEF At
<1>5. missed' \/ location' = seen' \/ \E u \in Threads : At(u, "park")'
  BY <1>1, <1>3, <1>4 DEF LocationInv
<1>6. LocationOf(t)'
  BY <1>1, NoneHeld DEF LocationOf
<1>7. ASSUME NEW u \in Threads \ {t}
      PROVE  LocationOf(u)'
  <2>1. LocationOf(u)
    BY DEF LocationInv
  <2> QED
    BY <1>1, <2>1 DEF LocationOf
<1> QED
  BY <1>2, <1>5, <1>6, <1>7 DEF LocationInv

LEMMA LocationFetch ==
  ASSUME Typed, Shape, Alone, LocationInv, NEW t \in Threads, Fetch(t)
  PROVE  LocationInv'
<1>1. /\ Progress(t) /\ todo[t] # <<>> /\ Head(todo[t]) # "park" /\ Head(todo[t]) \notin Takes
      /\ UNCHANGED <<client, embedded, latest, location, seen, missed, crowded>>
  BY FetchFacts, FetchOthers DEF rigid, cloud, vehicle, history, Takes
<1>2. /\ todo[t] \in Seq(Steps) /\ todo'[t] = Tail(todo[t]) /\ WellFormed(client, todo[t])
  BY <1>1, ProgressFacts DEF Shape
<1>3. NewLocations'
  BY <1>1 DEF LocationInv, NewLocations
<1>4. /\ latest \in Nat /\ embedded \in Nat /\ seen \in Nat /\ seen <= latest
      /\ got \in [Threads -> Reports(latest)] /\ got[t] \in Reports(latest)
      /\ Snapshot.where \in {0, embedded}
  BY HeldNumbers, NumberFacts, SnapshotTypes DEF Typed, ThreadTypes
<1>5. LocationOf(t)'
  <2>1. CASE Head(todo[t]) \in {"read", "reread", "poll"}
    <3>1. got'[t].where \in {0, embedded}
      BY <1>4, <2>1, FetchFacts
    <3>2. Has(todo'[t], Takes)
      BY <1>1, <1>2, <2>1, LaterHas DEF WellFormed, Asks
    <3>3. client \in Parkers => Has(todo'[t], {"park"})
      BY <1>1, <1>2, <2>1, LaterHas DEF WellFormed
    <3>4. client \notin TwoSources /\ client \notin Parkers => embedded >= seen
      BY <1>4 DEF LocationInv, NewLocations, StaleLocations, Parkers
    <3> QED
      BY <1>1, <3>1, <3>2, <3>3, <3>4 DEF LocationOf
  <2>2. CASE Head(todo[t]) = "locate"
    <3>1. PICK w \in {latest, got[t].where} : got' = [got EXCEPT ![t] = [got[t] EXCEPT !.where = w]]
      BY <1>4, <2>2, FetchFacts
    <3>2. got'[t].where = w
      BY <1>4, <3>1 DEF Reports
    <3>3. Has(todo'[t], Takes)
      BY <1>1, <1>2, <2>2, LaterHas DEF WellFormed
    <3>4. Has(todo[t], {"park"}) => Has(todo'[t], {"park"})
      BY <1>1, <1>2, TailHas
    <3>5. LocationOf(t)
      BY DEF LocationInv
    <3>6. CASE w = latest
      BY <1>1, <1>4, <3>2, <3>3, <3>6 DEF LocationOf
    <3>7. CASE w = got[t].where
      BY <1>1, <3>2, <3>3, <3>4, <3>5, <3>7 DEF LocationOf
    <3> QED
      BY <3>6, <3>7
  <2>3. CASE Head(todo[t]) \notin {"read", "reread", "poll", "locate"}
    <3>1. got' = got
      BY <2>3, FetchFacts
    <3> QED
      BY <1>1, <3>1, LocationRest
  <2> QED
    BY <2>1, <2>2, <2>3
<1> QED
  BY <1>1, <1>3, <1>5, LocationKept

LEMMA LocationAsk ==
  ASSUME Typed, Shape, Alone, LocationInv, NEW t \in Threads, AskCar(t)
  PROVE  LocationInv'
<1>1. PICK r \in Reports(latest') : /\ got' = [got EXCEPT ![t] = r]
                                    /\ r.where \in {0, embedded'}
                                    /\ client = "EULegacy" => r.where = 0
  BY AskFacts
<1>2. /\ NewReport /\ todo[t] # <<>> /\ Head(todo[t]) = "ask" /\ Advance(t)
      /\ UNCHANGED <<kind, since, crowded>>
  BY AskFacts
<1>3. UNCHANGED <<client, location, seen, missed>>
  BY <1>2 DEF NewReport, rigid, vehicle, history
<1>4. Progress(t)
  BY <1>1, <1>2 DEF Progress, Lasts
<1>5. /\ todo[t] \in Seq(Steps) /\ todo'[t] = Tail(todo[t]) /\ WellFormed(client, todo[t])
  BY <1>4, ProgressFacts DEF Shape
<1>6. NewLocations'
  BY <1>2, <1>3 DEF NewReport, NextEmbedded, NewLocations, StaleLocations
<1>7. seen \in Nat /\ latest' \in Nat /\ seen <= latest'
  BY <1>2, NumberFacts DEF NewReport
<1>8. got'[t].where = r.where
  BY <1>1 DEF Typed, ThreadTypes
<1>9. LocationOf(t)'
  <2>1. Has(todo'[t], Takes)
    BY <1>2, <1>5, LaterHas DEF WellFormed, Asks
  <2>2. client \in Parkers /\ client # "EULegacy" => Has(todo'[t], {"park"})
    BY <1>2, <1>5, LaterHas DEF WellFormed
  <2>3. client \notin TwoSources /\ client \notin Parkers => embedded' >= seen
    BY <1>3, <1>6, <1>7 DEF NewLocations, StaleLocations, Parkers
  <2> QED
    BY <1>1, <1>3, <1>8, <2>1, <2>2, <2>3 DEF LocationOf
<1> QED
  BY <1>2, <1>3, <1>4, <1>6, <1>9, LocationKept

LEMMA LocationWriteBody ==
  ASSUME Typed, Shape, Alone, LocationInv, NEW t \in Threads, WriteBody(t)
  PROVE  LocationInv'
<1> DEFINE w == got[t].where
<1>1. /\ Head(todo[t]) = "body" /\ todo[t] # <<>>
      /\ WriteLocation(t, w, crowded[t] \/ client \in TwoSources)
      /\ UNCHANGED <<client, embedded, latest>>
      /\ \/ Finish(t)
         \/ /\ Len(todo[t]) # 1 /\ Advance(t) /\ got' = [got EXCEPT ![t] = None]
            /\ UNCHANGED <<kind, since, crowded>>
  BY WriteBodyFacts DEF rigid, cloud
<1>2. Finish(t) \/ Progress(t)
  BY <1>1 DEF Progress
<1>3. NewLocations'
  BY <1>1 DEF LocationInv, NewLocations
<1>4. w \in Nat /\ seen \in Nat
  BY HeldNumbers, NumberFacts
<1>5. LocationOf(t)'
  <2>1. CASE Finish(t)
    BY <2>1, LocationFinish
  <2>2. CASE ~ Finish(t)
    <3>1. got'[t].where = 0
      BY <1>1, <2>2, NoneHeld DEF Typed, ThreadTypes
    <3> QED
      BY <3>1 DEF LocationOf
  <2> QED
    BY <2>1, <2>2
<1>6. CASE w = 0
  <2>1. UNCHANGED <<location, seen, missed>>
    BY <1>1, <1>4, <1>6, NewestFacts DEF WriteLocation
  <2> QED
    BY <1>1, <1>2, <1>3, <1>5, <2>1, LocationKept
<1>7. CASE w # 0
  <2>1. location' = w /\ seen' = Newest(seen, w) /\ missed' = (crowded[t] \/ client \in TwoSources)
    BY <1>1, <1>7 DEF WriteLocation
  <2>2. CASE missed'
    BY <1>1, <1>2, <1>3, <1>5, <2>2, LocationKept
  <2>3. CASE ~ missed'
    <3>1. w >= seen \/ (client \in Parkers /\ Has(todo[t], {"park"}))
      BY <1>7, <2>1, <2>3 DEF LocationInv, LocationOf
    <3>2. CASE w >= seen
      <4>1. location' = seen'
        BY <1>4, <2>1, <3>2 DEF Newest
      <4> QED
        BY <1>1, <1>2, <1>3, <1>5, <4>1, LocationKept
    <3>3. CASE client \in Parkers /\ Has(todo[t], {"park"})
      <4>1. Tail(todo[t]) # <<>> /\ Head(Tail(todo[t])) = "park"
        BY <1>1, <3>3, ParkNext
      <4>2. Len(todo[t]) # 1
        <5>1. PICK i \in Places(todo[t]) : todo[t][i] = "park"
          BY <3>3 DEF Has
        <5>2. Head(todo[t]) = todo[t][1]
          BY <1>1, TailFacts DEF Typed, ThreadTypes
        <5>3. i # 1
          BY <1>1, <5>1, <5>2
        <5> QED
          BY <5>1, <5>3 DEF Places
      <4>3. Advance(t) /\ UNCHANGED <<kind, since, crowded>> /\ got' = [got EXCEPT ![t] = None]
        BY <4>2 DEF WriteBody
      <4>4. Progress(t)
        BY <1>1, <4>2, <4>3 DEF Progress
      <4>5. At(t, "park")'
        BY <4>1, <4>4, ProgressFacts DEF At
      <4> QED
        BY <1>1, <1>2, <1>3, <1>5, <4>5, LocationKept
    <3> QED
      BY <3>1, <3>2, <3>3
  <2> QED
    BY <2>2, <2>3
<1> QED
  BY <1>6, <1>7

LEMMA LocationParserRaises ==
  ASSUME Typed, Shape, Alone, LocationInv, NEW t \in Threads, ParserRaises(t)
  PROVE  LocationInv'
<1>1. PICK w \in {0, got[t].where} : WriteLocation(t, w, TRUE)
  BY ParserRaisesFacts
<1>2. /\ Head(todo[t]) = "body" /\ todo[t] # <<>> /\ Finish(t)
      /\ UNCHANGED <<client, embedded, latest>>
  BY ParserRaisesFacts DEF rigid, cloud
<1>3. NewLocations' /\ LocationOf(t)'
  BY <1>2, LocationFinish DEF LocationInv, NewLocations
<1>4. seen \in Nat
  BY NumberFacts
<1>5. UNCHANGED <<location, seen, missed>> \/ missed'
  <2>1. CASE w = 0
    BY <1>1, <1>4, <2>1, NewestFacts DEF WriteLocation
  <2>2. CASE w # 0
    BY <1>1, <2>2 DEF WriteLocation
  <2> QED
    BY <2>1, <2>2
<1> QED
  BY <1>2, <1>3, <1>5, LocationKept

LEMMA LocationPark ==
  ASSUME Typed, Shape, Alone, LocationInv, NEW t \in Threads, ParkLocation(t)
  PROVE  LocationInv'
<1>1. /\ Head(todo[t]) = "park" /\ todo[t] # <<>>
      /\ \/ WriteLocation(t, latest, crowded[t])
         \/ missed' = TRUE /\ UNCHANGED <<location, seen>>
      /\ UNCHANGED <<client, embedded, latest>>
      /\ \/ Finish(t)
         \/ Len(todo[t]) # 1 /\ Advance(t) /\ UNCHANGED <<kind, got, since, crowded>>
  BY ParkFacts DEF rigid, cloud
<1>2. Finish(t) \/ (Progress(t) /\ got'[t] = got[t])
  <2>1. got = [got EXCEPT ![t] = got[t]]
    BY NoChange DEF Typed, ThreadTypes
  <2> QED
    BY <1>1, <2>1 DEF Progress
<1>3. NewLocations'
  BY <1>1 DEF LocationInv, NewLocations
<1>4. seen \in Nat /\ latest \in Nat /\ seen <= latest /\ location \in Nat /\ location <= latest
  BY NumberFacts
<1>5. missed' \/ location' = seen'
  BY <1>1, <1>4 DEF WriteLocation, Newest
<1>6. LocationOf(t)'
  <2>1. CASE Finish(t)
    BY <2>1, LocationFinish
  <2>2. CASE ~ Finish(t)
    <3>1. got[t].where = 0
      BY <1>1, NothingHeld DEF LocationInv
    <3> QED
      BY <1>2, <2>2, <3>1 DEF LocationOf
  <2> QED
    BY <2>1, <2>2
<1> QED
  BY <1>1, <1>2, <1>3, <1>5, <1>6, LocationKept

LEMMA LocationStep ==
  ASSUME Typed, Shape, Alone, LocationInv, [Next]_vars
  PROVE  LocationInv'
<1>1. CASE UNCHANGED vars \/ TimePasses
  <2>1. UNCHANGED <<todo, got, crowded, client, embedded, latest, location, seen, missed>>
    BY <1>1 DEF vars, TimePasses, threads, vehicle, history, rigid, cloud
  <2> QED
    BY <2>1 DEF LocationInv, NewLocations, LocationOf, At
<1>2. CASE CarReports
  <2>1. UNCHANGED <<todo, got, crowded, client, location, seen, missed>>
    BY <1>2 DEF CarReports, threads, vehicle, history, rigid
  <2>2. NewLocations'
    BY <1>2, <2>1 DEF CarReports, NextEmbedded, NewLocations, StaleLocations
  <2> QED
    BY <2>1, <2>2 DEF LocationInv, LocationOf, At
<1>3. ASSUME NEW t \in Threads, Pass(t) \/ Ota(t) \/ WriteTime(t) \/ Deliver(t)
      PROVE  LocationInv'
  <2>1. got = [got EXCEPT ![t] = got[t]]
    BY NoChange DEF Typed, ThreadTypes
  <2>2. /\ todo[t] # <<>> /\ Head(todo[t]) # "park"
        /\ UNCHANGED <<client, embedded, latest, location, seen, missed>>
        /\ \/ Finish(t)
           \/ Progress(t) /\ got' = got /\ Head(todo[t]) \notin Takes
    <3>1. CASE Pass(t)
      BY <2>1, <3>1, PassFacts DEF Progress, Fails, Takes, rigid, cloud, vehicle, history
    <3>2. CASE Ota(t)
      BY <2>1, <3>2, OtaFacts DEF Progress, Lasts, Takes, rigid, cloud
    <3>3. CASE WriteTime(t)
      BY <2>1, <3>3, WriteTimeTypes DEF Progress, Lasts, Takes, rigid, cloud, history
    <3>4. CASE Deliver(t)
      BY <3>4 DEF Deliver, At, rigid, cloud, history
    <3> QED
      BY <1>3, <3>1, <3>2, <3>3, <3>4
  <2>3. NewLocations'
    BY <2>2 DEF LocationInv, NewLocations
  <2>4. LocationOf(t)'
    BY <2>2, LocationFinish, LocationRest
  <2> QED
    BY <2>2, <2>3, <2>4, LocationKept
<1> QED
  BY <1>1, <1>2, <1>3, LocationRun, LocationFetch, LocationAsk, LocationWriteBody,
     LocationParserRaises, LocationPark, StepCases

-----------------------------------------------------------------------------
(* The inductive invariant, and what follows from it.                       *)

IInv ==
  /\ Typed
  /\ Shape /\ Alone
  /\ Fresh
  /\ SoftwareInv
  /\ TimeInv
  /\ LocationInv

LEMMA InvariantInit == Init => IInv
<1> SUFFICES ASSUME Init
             PROVE  IInv
  OBVIOUS
<1>1. /\ \A t \in Threads : todo[t] = <<>> /\ kind[t] = "none" /\ got[t] = None
      /\ checked = FALSE /\ stamp = body /\ location = seen /\ embedded = latest
  BY DEF Init
<1>2. Typed /\ Shape /\ Alone
  BY TypedInit, ShapeInit
<1>3. Fresh
  BY <1>1 DEF Fresh, FreshOf
<1>4. SoftwareInv
  BY <1>1 DEF SoftwareInv, InFlight, At
<1>5. TimeInv
  BY <1>1, IdleTime DEF TimeInv
<1>6. LocationInv
  BY <1>1, NoneHeld DEF LocationInv, NewLocations, LocationOf
<1> QED
  BY <1>2, <1>3, <1>4, <1>5, <1>6 DEF IInv

\* In every reachable state of every client the vehicle, the threads and what
\* is left of their programs are related as the parts of IInv say.
THEOREM Invariant == Spec => []IInv
<1>1. Init => IInv
  BY InvariantInit
<1>2. IInv /\ [Next]_vars => IInv'
  BY TypedStep, ShapeStep, FreshStep, SoftwareStep, TimeStep, LocationStep DEF IInv
<1> QED
  BY <1>1, <1>2, PTL DEF Spec

\* Every variable has its type; none of the vehicle's data is from a report
\* the car has not made.
THEOREM TypeCorrect == Spec => []TypeOK
<1>1. IInv => TypeOK
  BY TypedIsTypeOK DEF IInv
<1> QED
  BY <1>1, Invariant, PTL

\* However many old reports the setter of last_updated_at corrects, in any
\* order: the vehicle's time is never more than one UTC offset ahead.
THEOREM StampStaysClose == Spec => []StampWithinOffset
<1>1. IInv => StampWithinOffset
  BY DEF IInv, Typed
<1> QED
  BY <1>1, Invariant, PTL

LEMMA SettledFacts ==
  ASSUME IInv, Settled
  PROVE  \A t \in Threads, s \in Steps : ~ At(t, s)
  BY DEF IInv, Settled, Idle, Shape, At

\* check_and_force_update_vehicle goes by the age of the data, for every UTC
\* offset of the host, once the last doubt about the vehicle's time is over.
THEOREM OldDataAreForced == Spec => []OldDataIsForced
<1>1. ASSUME IInv
      PROVE  OldDataIsForced
  <2> SUFFICES ASSUME Settled, body > blur
               PROVE  \A i \in 0..MaxTime : NeedsForce(i) <=> now - body > i
    BY DEF OldDataIsForced
  <2>1. \A t \in Threads : ~ At(t, "body")
    BY <1>1, SettledFacts DEF Steps
  <2>2. body \in Nat /\ blur \in Nat /\ stamp \in Nat
    BY <1>1, NumberFacts DEF IInv
  <2>3. stamp = body
    BY <1>1, <2>1, <2>2 DEF IInv, TimeInv, InDoubt
  <2>4. stamp # 0
    BY <2>2, <2>3
  <2> QED
    BY <2>3, <2>4 DEF NeedsForce
<1> QED
  BY <1>1, Invariant, PTL

\* No client's vehicle ends up with a location older than one it had, however
\* old the locations in the statuses are, unless there is an excuse for it.
THEOREM LocationsKeepUp == Spec => []LocationKeepsUp
<1>1. ASSUME IInv
      PROVE  LocationKeepsUp
  <2>1. Settled => \A t \in Threads : ~ At(t, "park")
    BY <1>1, SettledFacts DEF Steps
  <2> QED
    BY <1>1, <2>1 DEF IInv, LocationInv, LocationKeepsUp
<1> QED
  BY <1>1, Invariant, PTL

\* Resetting the flags of the software check while another thread's check is
\* on its way loses a check only where the history says why.
THEOREM SoftwareChecksAreNew == Spec => []SoftwareCheckIsNew
<1>1. IInv => SoftwareCheckIsNew
  BY DEF IInv, SoftwareInv, SoftwareCheckIsNew
<1> QED
  BY <1>1, Invariant, PTL

\* Every update implements the abstract one: a refresh that promises it takes
\* only a report from after its beginning, and no update one never made.
THEOREM RefreshesAreFresh == Spec => TakesFreshReports
<1>1. Init => Abstract!Init
  BY AbstractInit
<1>2. IInv /\ [Next]_vars => [Abstract!Next]_(Abstract!fvars)
  BY AbstractStep DEF IInv
<1> QED
  BY <1>1, <1>2, Invariant, PTL DEF Spec, Abstract!Spec, TakesFreshReports
-----------------------------------------------------------------------------
(* An update has a bounded number of steps.                                 *)

StepsLeft(t) == Len(todo[t])

\* An update that moves comes nearer to its end, and no step takes one under
\* way farther from it.
UpdatesAdvance ==
  \A t \in Threads : ~ Idle(t) => /\ Step(t) => StepsLeft(t)' < StepsLeft(t)
                                  /\ StepsLeft(t)' <= StepsLeft(t)

LEMMA ProgramLength ==
  ASSUME NEW c \in AllClients, NEW k \in {"cached", "forced"}
  PROVE  Len(Program(c)[k]) <= 6
<1>1. /\ Len(CachedBR) = 3 /\ Len(ForcedBR) = 5 /\ Len(CachedEU) = 4 /\ Len(ForcedEU) = 5
      /\ Len(ForcedEULegacy) = 4 /\ Len(CachedAU) = 4 /\ Len(ForcedAU) = 4
      /\ Len(CachedAULegacy) = 4 /\ Len(ForcedAULegacy) = 4
  BY DEF CachedBR, ForcedBR, CachedEU, ForcedEU, ForcedEULegacy, CachedAU, ForcedAU,
         CachedAULegacy, ForcedAULegacy
<1>2. /\ Len(CachedCN) = 3 /\ Len(ForcedCN) = 4 /\ Len(CachedIndia) = 6 /\ Len(ForcedIndia) = 3
      /\ Len(CachedHyundaiCCI) = 5 /\ Len(ForcedHyundaiCCI) = 6
  BY DEF CachedCN, ForcedCN, CachedIndia, ForcedIndia, CachedHyundaiCCI, ForcedHyundaiCCI
<1>3. /\ Len(CachedKiaUSA) = 3 /\ Len(ForcedKiaUSA) = 4 /\ Len(CachedHyundaiUSA) = 5
      /\ Len(ForcedHyundaiUSA) = 5 /\ Len(CaptureSVM) = 4
  BY DEF CachedKiaUSA, ForcedKiaUSA, CachedHyundaiUSA, ForcedHyundaiUSA, CaptureSVM
<1>4. \A p, q : [cached |-> p, forced |-> q][k] \in {p, q}
  OBVIOUS
<1>5. Program(c)[k] \in
        {CachedBR, ForcedBR, CachedEU, ForcedEU, ForcedEULegacy, CachedAU, ForcedAU,
         CachedAULegacy, ForcedAULegacy, CachedCN, ForcedCN, CachedIndia, ForcedIndia,
         CachedHyundaiCCI, ForcedHyundaiCCI, CachedKiaUSA, ForcedKiaUSA, CachedHyundaiUSA,
         ForcedHyundaiUSA, CaptureSVM}
  BY <1>4 DEF Program, AllClients
<1>6. 3 <= 6 /\ 4 <= 6 /\ 5 <= 6 /\ 6 <= 6
  OBVIOUS
<1> QED
  BY <1>1, <1>2, <1>3, <1>5, <1>6, Zenon

\* A step of a thread with an update is not the beginning of one.
LEMMA StepProgress ==
  ASSUME IInv, NEW t \in Threads, ~ Idle(t), Step(t)
  PROVE  todo[t] # <<>> /\ (Finish(t) \/ Progress(t))
<1>0. Typed /\ kind[t] # "none" /\ todo[t] # <<>> /\ todo[t] \in Seq(Steps)
      /\ got = [got EXCEPT ![t] = got[t]]
  BY NoChange DEF IInv, Idle, Shape, Typed, ThreadTypes
<1>1. \/ Fetch(t) \/ Pass(t) \/ Deliver(t) \/ AskCar(t) \/ WriteTime(t) \/ WriteBody(t)
      \/ ParserRaises(t) \/ ParkLocation(t) \/ Ota(t)
  BY DEF Step, UpdateCached, ForceRefresh, CheckAndForce, Run, Fetch, Pass, Ota
<1>2. CASE Fetch(t)
  <2>1. \E r : got' = [got EXCEPT ![t] = r]
    <3>1. \/ got' = got \/ got' = [got EXCEPT ![t] = Snapshot]
          \/ \E w \in {latest, got[t].where} : got' = [got EXCEPT ![t] = [@ EXCEPT !.where = w]]
      BY <1>0, <1>2, FetchFacts
    <3> QED
      BY <1>0, <3>1
  <2> QED
    BY <1>0, <1>2, <2>1, FetchFacts DEF Progress, Lasts
<1>3. CASE Pass(t)
  BY <1>0, <1>3, PassFacts DEF Progress
<1>4. CASE Deliver(t) \/ ParserRaises(t)
  BY <1>0, <1>4 DEF Deliver, ParserRaises
<1>5. CASE AskCar(t)
  BY <1>0, <1>5, AskFacts DEF Progress, Lasts, NewReport
<1>6. CASE WriteTime(t)
  BY <1>0, <1>6, WriteTimeTypes DEF Progress, Lasts
<1>7. CASE WriteBody(t)
  BY <1>0, <1>7, WriteBodyFacts DEF Progress
<1>8. CASE ParkLocation(t)
  BY <1>0, <1>8, ParkFacts DEF Progress
<1>9. CASE Ota(t)
  BY <1>0, <1>9, OtaFacts DEF Progress, Lasts
<1> QED
  BY <1>1, <1>2, <1>3, <1>4, <1>5, <1>6, <1>7, <1>8, <1>9

LEMMA ProgressShortens ==
  ASSUME Typed, Shape, NEW t \in Threads, todo[t] # <<>>, Finish(t) \/ Progress(t)
  PROVE  /\ StepsLeft(t) \in Nat /\ StepsLeft(t)' \in Nat /\ StepsLeft(t)' < StepsLeft(t)
         /\ \A u \in Threads \ {t} : todo'[u] = todo[u]
<1>1. todo[t] \in Seq(Steps)
  BY DEF Typed, ThreadTypes
<1>2. Len(todo[t]) \in Nat \ {0} /\ Len(Tail(todo[t])) = Len(todo[t]) - 1 /\ Len(<<>>) = 0
  BY <1>1, TailFacts
<1>3. CASE Finish(t)
  <2>1. todo'[t] = <<>> /\ \A u \in Threads \ {t} : todo'[u] = todo[u]
    BY <1>3, FinishFacts
  <2>2. StepsLeft(t)' = 0 /\ StepsLeft(t) \in Nat \ {0}
    BY <1>2, <2>1, Zenon DEF StepsLeft
  <2> QED
    BY <2>1, <2>2
<1>4. CASE Progress(t)
  <2>1. todo'[t] = Tail(todo[t]) /\ \A u \in Threads \ {t} : todo'[u] = todo[u]
    BY <1>4, ProgressFacts
  <2>2. StepsLeft(t)' = StepsLeft(t) - 1 /\ StepsLeft(t) \in Nat \ {0}
    BY <1>2, <2>1, Zenon DEF StepsLeft
  <2> QED
    BY <2>1, <2>2
<1> QED
  BY <1>3, <1>4

ShortPrograms == \A t \in Threads : StepsLeft(t) \in 0..6

\* Every cached or forced update, of every client, and the surround-view capture
\* ends after at most 6 requests and writes; the other threads, the car and the
\* clock never lengthen it.
THEOREM UpdatesAreShort == Spec => []ShortPrograms /\ [][UpdatesAdvance]_vars
<1>1. Init => ShortPrograms
  <2>1. Len(<<>>) = 0
    OBVIOUS
  <2>2. Init => \A t \in Threads : todo[t] = <<>>
    BY DEF Init
  <2>3. Init => \A t \in Threads : StepsLeft(t) = 0
    BY <2>1, <2>2, Zenon DEF StepsLeft
  <2>4. 0 \in 0..6
    OBVIOUS
  <2> QED
    BY <2>3, <2>4, Zenon DEF ShortPrograms
<1>2. IInv /\ ShortPrograms /\ [Next]_vars => ShortPrograms'
  <2> SUFFICES ASSUME IInv, ShortPrograms, [Next]_vars PROVE ShortPrograms'
    OBVIOUS
  <2>0. Typed /\ Shape
    BY DEF IInv
  <2>1. CASE UNCHANGED threads
    BY <2>1 DEF threads, ShortPrograms, StepsLeft
  <2>2. ASSUME NEW t \in Threads, NEW k \in {"cached", "forced"}, Run(t, k) PROVE ShortPrograms'
    <3>1. todo'[t] = Program(client)[k] /\ \A u \in Threads \ {t} : todo'[u] = todo[u]
      BY <2>0, <2>2, RunFacts
    <3>2. Len(Program(client)[k]) <= 6 /\ Program(client)[k] \in Seq(Steps)
      BY <2>0, NumberFacts, ProgramLength, ProgramFacts DEF WellFormed
    <3>3. Len(Program(client)[k]) \in Nat
      BY <3>2
    <3>4. Len(Program(client)[k]) \in 0..6
      <4>1. \A n \in Nat : n <= 6 => n \in 0..6
        OBVIOUS
      <4> QED
        BY <3>2, <3>3, <4>1, Zenon
    <3>5. StepsLeft(t)' \in 0..6
      BY <3>1, <3>4, Zenon DEF StepsLeft
    <3> QED
      BY <3>1, <3>5 DEF ShortPrograms, StepsLeft
  <2>3. ASSUME NEW t \in Threads, todo[t] # <<>>, Finish(t) \/ Progress(t) PROVE ShortPrograms'
    <3>1. /\ StepsLeft(t)' \in Nat /\ StepsLeft(t)' < StepsLeft(t) /\ StepsLeft(t) \in 0..6
          /\ \A u \in Threads \ {t} : todo'[u] = todo[u]
      BY <2>0, <2>3, ProgressShortens DEF ShortPrograms
    <3>2. StepsLeft(t)' \in 0..6
      BY <3>1
    <3> QED
      BY <3>1, <3>2 DEF ShortPrograms, StepsLeft
  <2> QED
    BY <2>0, <2>1, <2>2, <2>3, ThreadCases DEF Progress
<1>3. IInv /\ ShortPrograms /\ [Next]_vars => [UpdatesAdvance]_vars
  <2> SUFFICES ASSUME IInv, ShortPrograms, Next, NEW t \in Threads, ~ Idle(t)
               PROVE  /\ Step(t) => StepsLeft(t)' < StepsLeft(t)
                      /\ StepsLeft(t)' <= StepsLeft(t)
    BY DEF UpdatesAdvance
  <2>0. Typed /\ Shape /\ kind[t] # "none" /\ StepsLeft(t) \in Nat
    BY DEF IInv, Idle, ShortPrograms
  <2>1. Step(t) => StepsLeft(t)' < StepsLeft(t)
    BY <2>0, StepProgress, ProgressShortens
  <2>2. CASE UNCHANGED threads
    <3>1. todo'[t] = todo[t]
      BY <2>2 DEF threads
    <3>2. StepsLeft(t)' = StepsLeft(t)
      BY <3>1, Zenon DEF StepsLeft
    <3> QED
      BY <2>0, <2>1, <3>2
  <2>3. ASSUME NEW u \in Threads, NEW k \in {"cached", "forced"}, Run(u, k)
        PROVE  StepsLeft(t)' = StepsLeft(t)
    <3>1. t # u /\ todo'[t] = todo[t]
      BY <2>0, <2>3, RunFacts
    <3> QED
      BY <3>1 DEF StepsLeft
  <2>4. ASSUME NEW u \in Threads, todo[u] # <<>>, Finish(u) \/ Progress(u)
        PROVE  StepsLeft(t)' <= StepsLeft(t)
    <3>1. CASE u = t
      BY <2>0, <2>4, <3>1, ProgressShortens
    <3>2. CASE u # t
      <4>1. todo'[t] = todo[t]
        BY <2>0, <2>4, <3>2, ProgressShortens
      <4> QED
        BY <2>0, <4>1 DEF StepsLeft
    <3> QED
      BY <3>1, <3>2
  <2> QED
    BY <2>0, <2>1, <2>2, <2>3, <2>4, ThreadCases DEF Progress
<1>4. Spec => []ShortPrograms
  BY <1>1, <1>2, Invariant, PTL DEF Spec
<1> QED
  BY <1>3, <1>4, Invariant, PTL DEF Spec
=============================================================================
