---------------------------- MODULE FileRail_proofs ----------------------------
(***************************************************************************)
(* Proofs about FileRail: a directory respects its depth cap whenever no   *)
(* send is under way, a process hands a message on once, and a message is  *)
(* accounted for; for any messages, senders, processes and restarts.       *)
(***************************************************************************)
EXTENDS FileRail, FiniteSetTheorems, SequenceTheorems, WellFoundedInduction, TLAPS

USE DEF senders, pollers, vars

-------------------------------------------------------------------------------
(* Every variable keeps its shape, and what is written under a name bears  *)
(* that name.                                                              *)

Bears(n, m) == \E t \in 0..Seconds : n = NameOf(m, t)
Named ==
  /\ \A m \in Msgs : step[m] \in {"write", "rename"} => Bears(name[m], m)
  /\ \A n \in Names : tmp[n] \in Msgs => Bears(n, tmp[n])
  /\ \A n \in Names : file[n] \in Msgs => Bears(n, file[n])

TypeInv == TypeOK /\ Named

LEMMA NameFacts ==
  /\ NoName \notin Names
  /\ \A m \in Msgs, t \in 0..Seconds : NameOf(m, t) \in Names
  /\ \A m \in Msgs : \A n : Bears(n, m) => n \in Names
  /\ \A m \in Arrays : <<"id", m>> \in Names /\ Bears(<<"id", m>>, m)
<1>1. 0 \in 0..Seconds
  BY FileRailAssumption
<1>. QED BY <1>1 DEF NoName, Names, NameOf, Bears, Arrays

LEMMA PayloadFacts ==
  /\ Msgs \subseteq Payloads /\ {Blank, Torn} \subseteq Payloads /\ NoMsg \notin Payloads
  /\ Blank \notin Msgs /\ Torn \notin Msgs
BY FileRailAssumption DEF Payloads, NoMsg, Blank, Torn

LEMMA TypeInit == Init => TypeInv
<1>. SUFFICES ASSUME Init PROVE TypeInv
  OBVIOUS
<1>1. <<>> \in Seq(Msgs) /\ <<>> \in Seq(Payloads)
  BY EmptySeq
<1>2. TypeOK
  BY <1>1, FileRailAssumption DEF Init, TypeOK
<1>. QED BY <1>2, FileRailAssumption DEF Init, TypeInv, Named

LEMMA WithoutType ==
  ASSUME TypeOK, NEW names \in SUBSET Names
  PROVE  Without(names) \in [Names -> SUBSET Names]
<1>1. \A n \in Names : newer[n] \in SUBSET Names
  BY DEF TypeOK
<1>. QED BY <1>1 DEF Without

LEMMA UnlinkFacts ==
  ASSUME TypeOK, NEW names \in SUBSET Names, Unlink(names)
  PROVE  /\ file' \in [Names -> Payloads \cup {NoMsg}] /\ newer' \in [Names -> SUBSET Names]
         /\ dropped' \subseteq Msgs /\ fd' \in [Msgs -> {"tmp", "file", "gone"}]
         /\ \A n \in Names : file'[n] = IF n \in names THEN NoMsg ELSE file[n]
<1>1. file' \in [Names -> Payloads \cup {NoMsg}] /\ dropped' \subseteq Msgs
  BY DEF Unlink, TypeOK
<1>3. fd' \in [Msgs -> {"tmp", "file", "gone"}]
  BY DEF Unlink, Orphan, TypeOK
<1>2. newer' \in [Names -> SUBSET Names]
  BY WithoutType DEF Unlink
<1>. QED BY <1>1, <1>2, <1>3 DEF Unlink

LEMMA PutFacts ==
  ASSUME TypeOK, NEW n \in Names, NEW c \in Payloads, Put(n, c)
  PROVE  file' \in [Names -> Payloads \cup {NoMsg}] /\ newer' \in [Names -> SUBSET Names]
<1>1. \A k \in Names : newer[k] \cup {n} \in SUBSET Names
  BY DEF TypeOK
<1>. QED BY <1>1 DEF Put, TypeOK

LEMMA TypeSend ==
  ASSUME TypeInv, NEW m \in Msgs, SendStep(m) \/ Resend(m) \/ PutForeign(m)
  PROVE  TypeInv'
<1>. USE DEF TypeInv
<1>1. CASE OpenTmp(m)
  <2>1. clock \in 0..Seconds /\ NameOf(m, clock) \in Names
    BY NameFacts DEF TypeOK
  <2>2. TypeOK'
    BY <1>1, <2>1, PayloadFacts DEF OpenTmp, TmpName, TypeOK
  <2>3. Bears(NameOf(m, clock), m)
    BY <2>1 DEF Bears
  <2>. QED BY <1>1, <2>1, <2>2, <2>3, PayloadFacts DEF OpenTmp, TmpName, Named, TypeOK
<1>2. CASE Rename(m)
  <2>1. CASE tmp[name[m]] = NoMsg
    BY <1>2, <2>1 DEF Rename, TmpName, TypeOK, Named
  <2>2. CASE tmp[name[m]] # NoMsg
    <3>1. /\ name[m] \in Names /\ tmp[name[m]] \in Payloads
          /\ tmp[name[m]] \in Msgs => Bears(name[m], tmp[name[m]])
      BY <1>2, <2>2, NameFacts DEF Rename, Named, TypeOK
    <3>2. /\ Put(name[m], tmp[name[m]])
          /\ tmp' = [tmp EXCEPT ![name[m]] = NoMsg]
          /\ step' = [step EXCEPT ![m] = "trim"] /\ name' = [name EXCEPT ![m] = NoName]
      BY <1>2, <2>2 DEF Rename, TmpName
    <3>3. fd' \in [Msgs -> {"tmp", "file", "gone"}]
      BY <1>2, <2>2 DEF Rename, TmpName, TypeOK
    <3>4. file' \in [Names -> Payloads \cup {NoMsg}] /\ newer' \in [Names -> SUBSET Names]
      BY <3>1, <3>2, PutFacts
    <3>5. TypeOK'
      BY <1>2, <3>1, <3>2, <3>3, <3>4 DEF Rename, TypeOK
    <3>6. Named'
      BY <3>1, <3>2, PayloadFacts DEF Put, Named, TypeOK, Bears
    <3>. QED BY <3>5, <3>6
  <2>. QED BY <2>1, <2>2
<1>6. CASE WriteTmp(m)
  <2>1. /\ step[m] = "write" /\ name[m] \in Names /\ Bears(name[m], m)
    BY <1>6, NameFacts DEF WriteTmp, Named
  <2>2. \A c : Over(c, m) \subseteq Payloads /\ \A d \in Over(c, m) : d \in Msgs => d = m
    BY PayloadFacts DEF Over
  <2>3. /\ \/ tmp' = tmp
           \/ \E c \in Over(tmp[name[m]], m) : tmp' = [tmp EXCEPT ![name[m]] = c]
        /\ \/ file' = file
           \/ \E c \in Over(file[name[m]], m) : file' = [file EXCEPT ![name[m]] = c]
    BY <1>6 DEF WriteTmp, TmpName
  <2>4. tmp' \in [Names -> Payloads \cup {NoMsg}] /\ file' \in [Names -> Payloads \cup {NoMsg}]
    <3>. tmp \in [Names -> Payloads \cup {NoMsg}] /\ file \in [Names -> Payloads \cup {NoMsg}]
      BY DEF TypeOK
    <3>1. tmp' \in [Names -> Payloads \cup {NoMsg}]
      BY <2>1, <2>2, <2>3
    <3>2. file' \in [Names -> Payloads \cup {NoMsg}]
      BY <2>1, <2>2, <2>3
    <3>. QED BY <3>1, <3>2
  <2>5. TypeOK'
    BY <1>6, <2>4 DEF WriteTmp, TypeOK
  <2>6. /\ \A n \in Names : tmp'[n] \in Msgs => Bears(n, tmp'[n])
        /\ \A n \in Names : file'[n] \in Msgs => Bears(n, file'[n])
    <3>. /\ tmp \in [Names -> Payloads \cup {NoMsg}] /\ file \in [Names -> Payloads \cup {NoMsg}]
         /\ \A n \in Names : tmp[n] \in Msgs => Bears(n, tmp[n])
         /\ \A n \in Names : file[n] \in Msgs => Bears(n, file[n])
      BY DEF TypeOK, Named
    <3>1. \A n \in Names : tmp'[n] \in Msgs => Bears(n, tmp'[n])
      BY <2>1, <2>2, <2>3
    <3>2. \A n \in Names : file'[n] \in Msgs => Bears(n, file'[n])
      BY <2>1, <2>2, <2>3
    <3>. QED BY <3>1, <3>2
  <2>7. \A k \in Msgs : step'[k] \in {"write", "rename"} => Bears(name'[k], k)
    BY <1>6, <2>1 DEF WriteTmp, Named, TypeOK
  <2>. QED BY <2>5, <2>6, <2>7 DEF Named, Bears, NameOf
<1>7. CASE Refuse(m)
  BY <1>7 DEF Refuse, TypeOK, Named
<1>8. CASE PutForeign(m)
  <2>1. /\ <<"id", m>> \in Names /\ Bears(<<"id", m>>, m) /\ m \in Payloads
    BY <1>8, NameFacts, PayloadFacts DEF PutForeign
  <2>2. file' \in [Names -> Payloads \cup {NoMsg}] /\ newer' \in [Names -> SUBSET Names]
    BY <1>8, <2>1, PutFacts DEF PutForeign
  <2>3. TypeOK'
    BY <1>8, <2>2 DEF PutForeign, TypeOK
  <2>4. Named'
    BY <1>8, <2>1 DEF PutForeign, Put, Named, TypeOK
  <2>. QED BY <2>3, <2>4
<1>3. CASE ListExcess(m)
  <2>1. Excess \subseteq Names
    BY DEF Excess, Files
  <2>. QED BY <1>3, <2>1 DEF ListExcess, TypeOK, Named
<1>4. CASE Evict(m)
  <2>1. victims[m] \in SUBSET Names /\ Unlink(victims[m])
    BY <1>4 DEF Evict, TypeOK
  <2>2. TypeOK'
    BY <1>4, <2>1, UnlinkFacts DEF Evict, TypeOK
  <2>3. Named'
    BY <1>4, <2>1, UnlinkFacts, FileRailAssumption DEF Evict, TypeOK, Named, Bears
  <2>. QED BY <2>2, <2>3
<1>5. CASE Resend(m)
  <2>1. resends' \in 0..MaxResends
    BY <1>5, FileRailAssumption DEF Resend, TypeOK
  <2>. QED BY <1>5, <2>1 DEF Resend, TypeOK, Named
<1>. QED BY <1>1, <1>2, <1>3, <1>4, <1>5, <1>6, <1>7, <1>8 DEF SendStep

\* What is left of a sequence after its first k elements.
LEMMA Rest ==
  ASSUME NEW S, NEW q \in Seq(S), NEW k \in 0..Len(q)
  PROVE  SubSeq(q, k + 1, Len(q)) \in Seq(S)
<1>1. Len(q) \in Nat /\ k \in Int
  BY LenProperties
<1>2. \A i \in (k + 1)..Len(q) : q[i] \in S
  BY <1>1, ElementOfSeq
<1>3. k + 1 \in Int /\ Len(q) \in Int
  BY <1>1
<1>. QED BY <1>2, <1>3, SubSeqProperties

LEMMA ForgetFacts ==
  ASSUME TypeOK, NEW p \in Pollers, NEW rest \in Seq(Msgs), Forget(p, rest)
  PROVE  /\ seen' \in [Pollers -> Seq(Msgs)] /\ forgot' \in [Pollers -> SUBSET Msgs]
         /\ ToSet(seen[p]) \subseteq ToSet(rest) \cup forgot'[p] /\ seen'[p] = rest
         /\ forgot[p] \subseteq forgot'[p]
         /\ \A q \in Pollers \ {p} : seen'[q] = seen[q] /\ forgot'[q] = forgot[q]
<1>1. seen[p] \in Seq(Msgs)
  BY DEF TypeOK
<1>2. ToSet(seen[p]) \subseteq Msgs
  BY <1>1, LenProperties, ElementOfSeq DEF ToSet
<1>. QED BY <1>2 DEF Forget, TypeOK

LEMMA TypePoll ==
  ASSUME TypeInv, NEW p \in Pollers, Poll(p) \/ Crash(p)
  PROVE  TypeInv'
<1>. USE DEF TypeInv
<1>1. CASE List(p)
  <2>1. PICK k \in 0..Len(seen[p]) : Forget(p, SubSeq(seen[p], k + 1, Len(seen[p])))
    BY <1>1 DEF List
  <2>2. seen[p] \in Seq(Msgs)
    BY DEF TypeOK
  <2>3. SubSeq(seen[p], k + 1, Len(seen[p])) \in Seq(Msgs)
    BY <2>2, Rest
  <2>4. seen' \in [Pollers -> Seq(Msgs)] /\ forgot' \in [Pollers -> SUBSET Msgs]
    BY <2>1, <2>3, ForgetFacts
  <2>5. Files \subseteq Names
    BY DEF Files
  <2>. QED BY <1>1, <2>4, <2>5 DEF List, TypeOK, Named
<1>2. CASE Read(p)
  <2>1. PICK n \in todo[p] :
          /\ todo' = [todo EXCEPT ![p] = @ \ {n}]
          /\ IF file[n] = NoMsg THEN UNCHANGED <<batch, reading>>
             ELSE /\ batch' = [batch EXCEPT ![p] = Append(@, file[n])]
                  /\ reading' = [reading EXCEPT ![p] = n]
    BY <1>2 DEF Read
  <2>2. n \in Names /\ file[n] \in Payloads \cup {NoMsg} /\ batch[p] \in Seq(Payloads)
    BY <2>1 DEF TypeOK
  <2>3. file[n] # NoMsg => Append(batch[p], file[n]) \in Seq(Payloads)
    BY <2>2, AppendProperties
  <2>4. todo' \in [Pollers -> SUBSET Names]
    BY <2>1 DEF TypeOK
  <2>5. batch' \in [Pollers -> Seq(Payloads)] /\ reading' \in [Pollers -> Names \cup {NoName}]
    BY <2>1, <2>2, <2>3 DEF TypeOK
  <2>6. UNCHANGED <<clock, tmp, file, newer, senders, fd, phase, seen, forgot, got, archive, dropped,
                    resends, crashes, archiveErrors>>
    BY <1>2 DEF Read
  <2>. QED BY <2>4, <2>5, <2>6 DEF TypeOK, Named
<1>3. CASE Archive(p)
  <2>1. reading[p] \in Names
    BY <1>3 DEF Archive, TypeOK
  <2>2. archiveErrors' \in 0..MaxArchiveErrors
    BY <1>3, FileRailAssumption DEF Archive, TypeOK
  <2>3. file' = file \/ file' = [file EXCEPT ![reading[p]] = NoMsg]
    BY <1>3 DEF Archive
  <2>4. archive' \subseteq Msgs
    BY <1>3, <2>1 DEF Archive, TypeOK
  <2>5. newer' \in [Names -> SUBSET Names]
    <3>1. newer' = newer \/ newer' = Without({reading[p]})
      BY <1>3 DEF Archive
    <3>2. Without({reading[p]}) \in [Names -> SUBSET Names]
      BY <2>1, WithoutType
    <3>. QED BY <3>1, <3>2 DEF TypeOK
  <2>8. fd' \in [Msgs -> {"tmp", "file", "gone"}]
    BY <1>3 DEF Archive, Orphan, TypeOK
  <2>6. TypeOK'
    BY <1>3, <2>1, <2>2, <2>3, <2>4, <2>5, <2>8 DEF Archive, TypeOK
  <2>7. Named'
    BY <1>3, <2>1, <2>3, PayloadFacts, FileRailAssumption DEF Archive, Named, TypeOK, Bears
  <2>. QED BY <2>6, <2>7
<1>4. CASE HandOn(p)
  <2>. DEFINE m == Head(batch[p])
  <2>1. batch[p] \in Seq(Payloads) /\ batch[p] # <<>> /\ seen[p] \in Seq(Msgs)
    BY <1>4 DEF HandOn, TypeOK
  <2>2. m \in Payloads /\ Tail(batch[p]) \in Seq(Payloads) /\ <<>> \in Seq(Payloads)
    BY <2>1, HeadTailProperties, EmptySeq
  <2>3. m \in Msgs => Append(seen[p], m) \in Seq(Msgs)
    BY <2>1, AppendProperties
  <2>. HIDE DEF m
  <2>4. /\ batch' = [batch EXCEPT ![p] = IF m \in Arrays THEN <<>> ELSE Tail(@)]
        /\ seen' = IF HasId(m) /\ ~Duplicate(p, m) THEN [seen EXCEPT ![p] = Append(@, m)] ELSE seen
        /\ got' = IF m \in Arrays \/ Duplicate(p, m) THEN got ELSE Count(p, m)
        /\ UNCHANGED <<clock, tmp, file, newer, senders, fd, phase, todo, reading, forgot, archive, dropped,
                       resends, crashes, archiveErrors>>
    BY <1>4 DEF HandOn, m
  <2>5. got' \in [Pollers -> [Msgs -> 0..2]]
    <3>1. ASSUME m \in Msgs PROVE [got EXCEPT ![p][m] = More(@)] \in [Pollers -> [Msgs -> 0..2]]
      <4>1. got[p][m] \in 0..2
        BY <3>1 DEF TypeOK
      <4>2. PICK v \in 0..2 : v = More(got[p][m])
        BY <4>1 DEF More
      <4>3. [got EXCEPT ![p][m] = v] \in [Pollers -> [Msgs -> 0..2]]
        BY <3>1 DEF TypeOK
      <4>. QED BY <4>2, <4>3
    <3>2. Count(p, m) \in [Pollers -> [Msgs -> 0..2]]
      BY <3>1 DEF Count, TypeOK
    <3>. QED BY <2>4, <3>2 DEF TypeOK
  <2>6. seen' \in [Pollers -> Seq(Msgs)] /\ batch' \in [Pollers -> Seq(Payloads)]
    BY <2>2, <2>3, <2>4 DEF HasId, TypeOK
  <2>. QED BY <2>4, <2>5, <2>6 DEF TypeOK, Named
<1>5. CASE EndPoll(p)
  BY <1>5 DEF EndPoll, TypeOK, Named
<1>6. CASE Crash(p)
  <2>1. crashes' \in 0..MaxCrashes /\ <<>> \in Seq(Msgs) /\ <<>> \in Seq(Payloads)
    BY <1>6, FileRailAssumption, EmptySeq DEF Crash, TypeOK
  <2>2. seen' \in [Pollers -> Seq(Msgs)] /\ forgot' \in [Pollers -> SUBSET Msgs]
    BY <1>6, <2>1, ForgetFacts DEF Crash
  <2>. QED BY <1>6, <2>1, <2>2 DEF Crash, TypeOK, Named
<1>. QED BY <1>1, <1>2, <1>3, <1>4, <1>5, <1>6 DEF Poll

LEMMA TypeStep == TypeInv /\ [Next]_vars => TypeInv'
<1>. SUFFICES ASSUME TypeInv, [Next]_vars PROVE TypeInv'
  OBVIOUS
<1>1. CASE Prune
  <2>1. PICK n \in Names : Unlink({n})
    BY <1>1 DEF Prune, Files
  <2>2. TypeOK'
    BY <1>1, <2>1, UnlinkFacts DEF Prune, TypeOK, TypeInv
  <2>3. Named'
    BY <1>1, <2>1, UnlinkFacts, PayloadFacts, FileRailAssumption DEF Prune, TypeOK, TypeInv, Named, Bears
  <2>. QED BY <2>2, <2>3 DEF TypeInv
<1>2. CASE NextSecond
  BY <1>2, FileRailAssumption DEF NextSecond, TypeOK, TypeInv, Named
<1>3. CASE UNCHANGED vars
  BY <1>3 DEF TypeOK, TypeInv, Named
<1>. QED BY <1>1, <1>2, <1>3, TypeSend, TypePoll DEF Next

(* The rail is well typed in every reachable state, and a message that a   *)
(* file holds bears the name of the file.                                  *)
THEOREM TypeCorrect == Spec => [](TypeOK /\ Named)
<1>. QED BY TypeInit, TypeStep, PTL DEF Spec, TypeInv

-------------------------------------------------------------------------------
(* The depth cap.  A send lists the excess after its rename, and whoever   *)
(* listed last leaves no more than the cap, whatever the others evict.     *)

\* "newer" orders the files by age.
Aged ==
  /\ \A n \in Names : newer[n] \subseteq Files \ {n}
  /\ \A n, k \in Files : n # k => k \in newer[n] \/ n \in newer[k]
  /\ \A n, k \in Files : k \in newer[n] => newer[k] \subseteq newer[n]

\* The files of the rail itself.
Own == Files \ Foreign

\* Somebody is to list the excess, or to evict all of it, or there is none.
Trimmed ==
  \/ \E m \in Msgs : step[m] = "trim"
  \/ \E m \in Msgs : step[m] = "evict" /\ Cardinality(Own \ victims[m]) <= Depth
  \/ Cardinality(Own) <= Depth

\* A file that a sender still has open where another one published it.
Published == \A m \in Msgs :
  /\ fd[m] # "gone" => step[m] = "write"
  /\ fd[m] = "file" => file[name[m]] # NoMsg

CapInv == Aged /\ Trimmed

LEMMA FilesFinite == IsFiniteSet(Names) /\ \A S \in SUBSET Names : IsFiniteSet(S)
<1>1. IsFiniteSet({<<"id", m>> : m \in Msgs})
  <2>1. [m \in Msgs |-> <<"id", m>>] \in Surjection(Msgs, {<<"id", m>> : m \in Msgs})
    BY DEF Surjection
  <2>. QED BY <2>1, FileRailAssumption, FS_Surjection
<1>2. IsFiniteSet(0..Seconds)
  BY FileRailAssumption, FS_Interval
<1>3. IsFiniteSet({<<"unknown", t>> : t \in 0..Seconds})
  <2>1. [t \in 0..Seconds |-> <<"unknown", t>>]
          \in Surjection(0..Seconds, {<<"unknown", t>> : t \in 0..Seconds})
    BY DEF Surjection
  <2>. QED BY <1>2, <2>1, FS_Surjection
<1>4. IsFiniteSet(Names)
  BY <1>1, <1>3, FS_Union DEF Names
<1>. QED BY <1>4, FS_Subset

\* The files that are not excess are the newest Depth ones.
LEMMA ExcessFacts ==
  ASSUME TypeOK, Aged
  PROVE  Cardinality(Files \ Excess) <= Depth
<1>. DEFINE Kept == Files \ Excess
            Older == {Names \ newer[n] : n \in Kept}
<1>1. Kept \subseteq Names /\ IsFiniteSet(Kept) /\ Depth \in Nat \ {0}
  BY FilesFinite, FileRailAssumption DEF Files
<1>2. CASE Kept = {}
  BY <1>1, <1>2, FS_EmptySet
<1>3. CASE Kept # {}
  <2>1. Older \subseteq FiniteSubsetsOf(Names) /\ Older # {}
    <3>1. FiniteSubsetsOf(Names) = SUBSET Names
      BY FilesFinite, FS_FiniteSubsetsOfFinite
    <3>2. \A S \in Older : S \in SUBSET Names
      OBVIOUS
    <3>3. PICK n \in Kept : TRUE
      BY <1>3
    <3>4. Names \ newer[n] \in Older
      OBVIOUS
    <3>. HIDE DEF Older
    <3>. QED BY <3>1, <3>2, <3>4
  <2>2. PICK S \in Older : \A T \in Older : ~(<<T, S>> \in StrictSubsetOrdering(Names))
    BY <2>1, FS_StrictSubsetOrderingWellFounded, WFMin
  <2>3. PICK n \in Kept : S = Names \ newer[n]
    OBVIOUS
  <2>4. ASSUME NEW k \in Kept, k # n PROVE k \in newer[n]
    <3>. SUFFICES ASSUME n \in newer[k] PROVE FALSE
      BY <1>1, <2>4 DEF Aged
    <3>1. newer[n] \subseteq newer[k] /\ n \notin newer[n] /\ n \in Names
      BY <1>1 DEF Aged
    <3>2. Names \ newer[k] \in Older
      OBVIOUS
    <3>3. /\ Names \ newer[k] \subseteq S /\ Names \ newer[k] # S
          /\ Names \ newer[k] \in SUBSET Names /\ S \in SUBSET Names
      BY <2>3, <3>1
    <3>. QED BY <2>2, <3>2, <3>3 DEF StrictSubsetOrdering
  <2>5. Cardinality(newer[n]) < Depth
    <3>1. IsFiniteSet(newer[n]) /\ n \in Files
      BY <1>1, FilesFinite DEF TypeOK
    <3>2. Cardinality(newer[n]) \in Nat
      BY <3>1, FS_CardinalityType
    <3>. QED BY <1>1, <3>1, <3>2 DEF Excess
  <2>6. Kept \subseteq newer[n] \cup {n}
    BY <2>4
  <2>7. /\ IsFiniteSet(newer[n] \cup {n}) /\ Cardinality(newer[n]) \in Nat
        /\ Cardinality(newer[n] \cup {n}) <= Cardinality(newer[n]) + 1
    <3>1. IsFiniteSet(newer[n])
      BY <1>1, FilesFinite DEF TypeOK
    <3>2. Cardinality(newer[n]) \in Nat
      BY <3>1, FS_CardinalityType
    <3>3. /\ IsFiniteSet(newer[n] \cup {n})
          /\ Cardinality(newer[n] \cup {n})
               = IF n \in newer[n] THEN Cardinality(newer[n]) ELSE Cardinality(newer[n]) + 1
      BY <3>1, FS_AddElement
    <3>. QED BY <3>2, <3>3
  <2>8. Cardinality(Kept) \in Nat /\ Cardinality(Kept) <= Cardinality(newer[n] \cup {n})
    BY <1>1, <2>6, <2>7, FS_Subset, FS_CardinalityType
  <2>9. Cardinality(newer[n] \cup {n}) \in Nat
    BY <2>7, FS_CardinalityType
  <2>. QED BY <1>1, <2>5, <2>7, <2>8, <2>9
<1>. QED BY <1>2, <1>3

\* Files that go leave the others in their order, and the cap with its keeper.
LEMMA FewerFiles ==
  ASSUME TypeOK, CapInv, NEW gone \in SUBSET Names,
         file' = [n \in Names |-> IF n \in gone THEN NoMsg ELSE file[n]],
         newer' = Without(gone)
  PROVE  /\ Aged' /\ Own' = Own \ gone
         /\ Cardinality(Own) <= Depth => Cardinality(Own') <= Depth
         /\ \A S \in SUBSET Names : Cardinality(Own \ S) <= Depth => Cardinality(Own' \ S) <= Depth
<1>1. Files' = Files \ gone
  BY DEF Files
<1>0. Own' = Own \ gone
  BY <1>1 DEF Own, Foreign, Arrays
<1>2. \A n \in Names : newer'[n] = IF n \in gone THEN {} ELSE newer[n] \ gone
  BY DEF Without
<1>3. Aged'
  <2>1. Aged /\ Files' \subseteq Files /\ Files \subseteq Names
    BY <1>1 DEF CapInv, Files
  <2>2. \A n \in Files' : newer'[n] = newer[n] \ gone
    BY <1>1, <1>2, <2>1
  <2>3. ASSUME NEW n \in Names PROVE newer'[n] \subseteq Files' \ {n}
    <3>1. newer[n] \subseteq Files \ {n}
      BY <2>1 DEF Aged
    <3>2. newer'[n] \subseteq newer[n] \ gone
      BY <1>2
    <3>. QED BY <1>1, <3>1, <3>2
  <2>4. ASSUME NEW n \in Files', NEW k \in Files', n # k PROVE k \in newer'[n] \/ n \in newer'[k]
    <3>1. k \in newer[n] \/ n \in newer[k]
      BY <2>1, <2>4 DEF Aged
    <3>2. k \notin gone /\ n \notin gone
      BY <1>1
    <3>. QED BY <2>2, <3>1, <3>2
  <2>5. ASSUME NEW n \in Files', NEW k \in Files', k \in newer'[n] PROVE newer'[k] \subseteq newer'[n]
    <3>1. newer[k] \subseteq newer[n]
      BY <2>1, <2>2, <2>5 DEF Aged
    <3>. QED BY <2>2, <3>1
  <2>. QED BY <2>3, <2>4, <2>5 DEF Aged
<1>4. ASSUME NEW A \in SUBSET Names, NEW B \in SUBSET A, Cardinality(A) <= Depth
      PROVE  Cardinality(B) <= Depth
  <2>1. IsFiniteSet(A) /\ IsFiniteSet(B) /\ Depth \in Nat
    BY FilesFinite, FileRailAssumption
  <2>2. Cardinality(A) \in Nat /\ Cardinality(B) \in Nat /\ Cardinality(B) <= Cardinality(A)
    BY <2>1, FS_Subset, FS_CardinalityType
  <2>. QED BY <1>4, <2>1, <2>2
<1>5. Own \subseteq Names
  BY DEF Own, Files
<1>6. Cardinality(Own) <= Depth => Cardinality(Own') <= Depth
  BY <1>0, <1>4, <1>5
<1>7. ASSUME NEW S \in SUBSET Names, Cardinality(Own \ S) <= Depth PROVE Cardinality(Own' \ S) <= Depth
  BY <1>0, <1>4, <1>5, <1>7
<1>. QED BY <1>0, <1>3, <1>6, <1>7

LEMMA CapInit == Init => Published /\ CapInv
<1>. SUFFICES ASSUME Init PROVE Published /\ CapInv
  OBVIOUS
<1>1. Files = {} /\ Own = {}
  BY DEF Init, Files, Own
<1>2. Cardinality(Own) <= Depth
  BY <1>1, FS_EmptySet, FileRailAssumption
<1>. QED BY <1>1, <1>2 DEF Init, CapInv, Aged, Trimmed, Published

\* A file that is put is the newest.
LEMMA PutAges ==
  ASSUME TypeOK, Aged, NEW n \in Names, NEW c \in Payloads, Put(n, c)
  PROVE  Aged' /\ Files' = Files \cup {n}
<1>1. file' = [file EXCEPT ![n] = c] /\ c # NoMsg
  BY PayloadFacts DEF Put
<1>2. Files' = Files \cup {n}
  BY <1>1 DEF Files, TypeOK
<1>3. \A k \in Names : newer'[k] = IF k \in Files \ {n} THEN newer[k] \cup {n} ELSE {}
  BY DEF Put
<1>4. Files \subseteq Names
  BY DEF Files
<1>5. /\ \A k \in Names : newer[k] \subseteq Files \ {k}
      /\ \A k, l \in Files : k # l => l \in newer[k] \/ k \in newer[l]
      /\ \A k, l \in Files : l \in newer[k] => newer[l] \subseteq newer[k]
  BY DEF Aged
<1>10. /\ \A k \in Files \ {n} : newer'[k] = newer[k] \cup {n}
       /\ \A k \in Names \ (Files \ {n}) : newer'[k] = {}
  BY <1>3, <1>4
<1>6. ASSUME NEW k \in Names PROVE newer'[k] \subseteq Files' \ {k}
  <2>1. CASE k \in Files \ {n}
    <3>1. newer'[k] = newer[k] \cup {n} /\ newer[k] \subseteq Files \ {k} /\ n # k
      BY <1>10, <1>5, <2>1
    <3>. QED BY <1>2, <3>1
  <2>2. CASE k \notin Files \ {n}
    BY <1>10, <2>2
  <2>. QED BY <2>1, <2>2
<1>7. ASSUME NEW k \in Files', NEW l \in Files', k # l PROVE l \in newer'[k] \/ k \in newer'[l]
  <2>1. k \in Files \cup {n} /\ l \in Files \cup {n}
    BY <1>2
  <2>2. CASE k = n
    BY <1>10, <1>7, <2>1, <2>2
  <2>3. CASE l = n
    BY <1>10, <1>7, <2>1, <2>3
  <2>4. CASE k # n /\ l # n
    <3>1. l \in newer[k] \/ k \in newer[l]
      BY <1>5, <1>7, <2>1, <2>4
    <3>. QED BY <1>10, <2>1, <2>4, <3>1
  <2>. QED BY <2>2, <2>3, <2>4
<1>8. ASSUME NEW k \in Files', NEW l \in Files', l \in newer'[k] PROVE newer'[l] \subseteq newer'[k]
  <2>0. k \in Files \cup {n} /\ l \in Files \cup {n}
    BY <1>2
  <2>1. k \in Files \ {n} /\ newer'[k] = newer[k] \cup {n}
    BY <1>10, <1>8, <2>0
  <2>2. CASE l = n
    <3>1. newer'[l] = {}
      BY <1>10, <2>2
    <3>. QED BY <3>1
  <2>3. CASE l # n
    <3>1. newer'[l] = newer[l] \cup {n} /\ l \in newer[k] /\ l \in Files /\ k \in Files
      BY <1>10, <1>8, <2>0, <2>1, <2>3
    <3>2. newer[l] \subseteq newer[k]
      BY <1>5, <3>1
    <3>. QED BY <2>1, <3>1, <3>2
  <2>. QED BY <2>2, <2>3
<1>9. Aged'
  BY <1>6, <1>7, <1>8 DEF Aged
<1>. QED BY <1>2, <1>9

LEMMA PublishedStep ==
  ASSUME TypeInv, Published, [Next]_vars
  PROVE  Published'
<1>. USE DEF TypeInv
<1>1. ASSUME UNCHANGED <<step, name, fd, file>> PROVE Published'
  BY <1>1 DEF Published
<1>2. ASSUME NEW gone \in SUBSET Names, Orphan(gone), UNCHANGED name,
             \A k \in Msgs : step[k] = "write" => step'[k] = "write",
             \A n \in Names : n \notin gone => file'[n] = file[n]
      PROVE  Published'
  <2>1. \A k \in Msgs : fd[k] = "file" => name[k] \in Names
    BY NameFacts DEF Published, Named
  <2>2. \A k \in Msgs : fd'[k] = IF name[k] \in gone /\ fd[k] = "file" THEN "gone" ELSE fd[k]
    BY <1>2 DEF Orphan
  <2>. QED BY <1>2, <2>1, <2>2 DEF Published
<1>3. ASSUME NEW m \in Msgs, OpenTmp(m) PROVE Published'
  <2>1. /\ \A k \in Msgs \ {m} : step'[k] = step[k] /\ name'[k] = name[k] /\ fd'[k] = fd[k]
        /\ step'[m] = "write" /\ fd'[m] = "tmp" /\ file' = file
    BY <1>3 DEF OpenTmp, TypeOK
  <2>. QED BY <2>1 DEF Published
<1>4. ASSUME NEW m \in Msgs, WriteTmp(m) PROVE Published'
  <2>1. /\ \A k \in Msgs \ {m} : step'[k] = step[k] /\ fd'[k] = fd[k]
        /\ fd'[m] = "gone" /\ name' = name
    BY <1>4 DEF WriteTmp, TypeOK
  <2>2. name[m] \in Names /\ \A c : NoMsg \notin Over(c, m)
    BY <1>4, NameFacts, FileRailAssumption DEF WriteTmp, Named, Over, NoMsg, Torn
  <2>3. file' = file \/ \E c \in Over(file[name[m]], m) : file' = [file EXCEPT ![name[m]] = c]
    BY <1>4 DEF WriteTmp
  <2>4. \A n \in Names : file[n] # NoMsg => file'[n] # NoMsg
    BY <2>2, <2>3 DEF TypeOK
  <2>5. \A k \in Msgs : fd[k] = "file" => name[k] \in Names
    BY NameFacts DEF Published, Named
  <2>. QED BY <2>1, <2>4, <2>5 DEF Published
<1>5. ASSUME NEW m \in Msgs, Rename(m), tmp[name[m]] # NoMsg PROVE Published'
  <2>1. name[m] \in Names /\ tmp[name[m]] \in Payloads /\ step[m] = "rename"
    BY <1>5, NameFacts DEF Rename, Named, TypeOK
  <2>2. /\ \A k \in Msgs \ {m} : step'[k] = step[k] /\ name'[k] = name[k]
        /\ \A k \in Msgs : fd'[k] = IF name[k] = name[m] /\ fd[k] = "tmp" THEN "file"
                                    ELSE IF name[k] = name[m] THEN "gone" ELSE fd[k]
        /\ file' = [file EXCEPT ![name[m]] = tmp[name[m]]]
    BY <1>5 DEF Rename, TmpName, Put, TypeOK
  <2>3. fd[m] = "gone"
    BY <2>1 DEF Published
  <2>4. \A n \in Names : file'[n] = IF n = name[m] THEN tmp[name[m]] ELSE file[n]
    BY <2>1, <2>2 DEF TypeOK
  <2>5. \A k \in Msgs : fd[k] # "gone" => name[k] \in Names
    BY NameFacts DEF Published, Named
  <2>. QED BY <1>5, <2>1, <2>2, <2>3, <2>4, <2>5 DEF Published
<1>6. ASSUME NEW m \in Msgs, Refuse(m) \/ ListExcess(m) \/ Resend(m) \/ (Rename(m) /\ tmp[name[m]] = NoMsg)
      PROVE  Published'
  <2>1. /\ \A k \in Msgs \ {m} : step'[k] = step[k] /\ name'[k] = name[k]
        /\ fd' = fd /\ file' = file /\ step[m] # "write"
    BY <1>6 DEF Refuse, ListExcess, Resend, Rename, TmpName, TypeOK
  <2>. QED BY <2>1 DEF Published
<1>7. ASSUME NEW m \in Msgs, Evict(m) PROVE Published'
  <2>1. victims[m] \in SUBSET Names /\ Orphan(victims[m]) /\ UNCHANGED name
    BY <1>7 DEF Evict, Unlink, TypeOK
  <2>2. \A k \in Msgs : step[k] = "write" => step'[k] = "write"
    BY <1>7 DEF Evict, TypeOK
  <2>3. \A n \in Names : n \notin victims[m] => file'[n] = file[n]
    BY <1>7 DEF Evict, Unlink
  <2>. QED BY <1>2, <2>1, <2>2, <2>3
<1>8. ASSUME NEW m \in Msgs, PutForeign(m) PROVE Published'
  <2>1. /\ UNCHANGED <<step, name, fd>> /\ <<"id", m>> \in Names /\ m \in Payloads
        /\ file' = [file EXCEPT ![<<"id", m>>] = m]
    BY <1>8, NameFacts, PayloadFacts DEF PutForeign, Put
  <2>2. \A n \in Names : file[n] # NoMsg => file'[n] # NoMsg
    BY <2>1, PayloadFacts DEF TypeOK
  <2>3. \A k \in Msgs : fd[k] = "file" => name[k] \in Names
    BY NameFacts DEF Published, Named
  <2>. QED BY <2>1, <2>2, <2>3 DEF Published
<1>9. ASSUME Prune PROVE Published'
  <2>1. PICK n \in Names : Unlink({n})
    BY <1>9 DEF Prune, Files
  <2>2. UNCHANGED <<step, name>> /\ Orphan({n}) /\ \A k \in Names : k \notin {n} => file'[k] = file[k]
    BY <1>9, <2>1 DEF Prune, Unlink
  <2>. QED BY <1>2, <2>2
<1>10. ASSUME NEW p \in Pollers, Poll(p) \/ Crash(p) PROVE Published'
  <2>1. CASE UNCHANGED <<step, name, fd, file>>
    BY <1>1, <2>1
  <2>2. CASE Archive(p) /\ UNCHANGED archiveErrors
    <3>1. /\ reading[p] \in Names /\ UNCHANGED <<step, name>> /\ Orphan({reading[p]})
          /\ \A n \in Names : n \notin {reading[p]} => file'[n] = file[n]
      BY <2>2, FileRailAssumption DEF Archive, TypeOK
    <3>. QED BY <1>2, <3>1
  <2>. QED BY <1>10, <2>1, <2>2 DEF Poll, Archive, List, Read, HandOn, EndPoll, Crash
<1>11. CASE NextSecond \/ UNCHANGED vars
  BY <1>1, <1>11 DEF NextSecond
<1>. QED BY <1>3, <1>4, <1>5, <1>6, <1>7, <1>8, <1>9, <1>10, <1>11 DEF Next, SendStep

LEMMA CapSend ==
  ASSUME TypeInv, Published, CapInv, NEW m \in Msgs, SendStep(m) \/ Resend(m) \/ PutForeign(m)
  PROVE  CapInv'
<1>. USE DEF TypeInv
<1>0. Foreign' = Foreign
  BY DEF Foreign, Arrays
<1>1. CASE Refuse(m) \/ OpenTmp(m) \/ WriteTmp(m) \/ Resend(m) \/ (Rename(m) /\ tmp[name[m]] = NoMsg)
  <2>1. /\ UNCHANGED <<newer, victims>> /\ step[m] \notin {"trim", "evict"}
        /\ \A k \in Msgs : k # m => step'[k] = step[k]
    BY <1>1 DEF Refuse, OpenTmp, WriteTmp, Resend, Rename, TmpName, TypeOK
  <2>2. Files' = Files
    <3>1. CASE file' = file
      BY <3>1 DEF Files
    <3>2. CASE file' # file
      <4>1. WriteTmp(m) /\ fd[m] = "file"
        BY <1>1, <3>2 DEF Refuse, OpenTmp, WriteTmp, Resend, Rename, TmpName
      <4>2. PICK c \in Over(file[name[m]], m) : file' = [file EXCEPT ![name[m]] = c]
        BY <4>1 DEF WriteTmp
      <4>3. name[m] \in Names /\ c \in Payloads /\ c # NoMsg
        BY <4>1, NameFacts, PayloadFacts DEF WriteTmp, Over, Named
      <4>4. file[name[m]] # NoMsg
        BY <4>1, <4>3 DEF Published, WriteTmp
      <4>. QED BY <4>2, <4>3, <4>4 DEF Files, TypeOK
    <3>. QED BY <3>1, <3>2
  <2>3. Aged' /\ Own' = Own
    BY <1>0, <2>1, <2>2 DEF CapInv, Aged, Own
  <2>4. Trimmed'
    BY <2>1, <2>3 DEF CapInv, Trimmed
  <2>. QED BY <2>3, <2>4 DEF CapInv
<1>2. CASE Rename(m) /\ tmp[name[m]] # NoMsg
  <2>1. name[m] \in Names /\ tmp[name[m]] \in Payloads
    BY <1>2, NameFacts DEF Rename, Named, TypeOK
  <2>2. Put(name[m], tmp[name[m]]) /\ step' = [step EXCEPT ![m] = "trim"]
    BY <1>2 DEF Rename, TmpName
  <2>3. Aged'
    BY <2>1, <2>2, PutAges DEF CapInv
  <2>4. Trimmed'
    BY <2>2 DEF Trimmed, TypeOK
  <2>. QED BY <2>3, <2>4 DEF CapInv
<1>5. CASE PutForeign(m)
  <2>1. <<"id", m>> \in Names /\ m \in Payloads /\ m \in Arrays
    BY <1>5, NameFacts, PayloadFacts DEF PutForeign
  <2>2. Put(<<"id", m>>, m) /\ UNCHANGED <<step, victims>>
    BY <1>5 DEF PutForeign
  <2>3. Aged' /\ Files' = Files \cup {<<"id", m>>}
    BY <2>1, <2>2, PutAges DEF CapInv
  <2>4. <<"id", m>> \in Foreign
    BY <2>1 DEF Foreign
  <2>5. Own' = Own
    BY <1>0, <2>3, <2>4 DEF Own
  <2>6. Trimmed'
    BY <2>2, <2>5 DEF CapInv, Trimmed
  <2>. QED BY <2>3, <2>6 DEF CapInv
<1>3. CASE ListExcess(m)
  <2>1. UNCHANGED <<file, newer>> /\ victims'[m] = Excess /\ step'[m] = "evict"
    BY <1>3 DEF ListExcess, TypeOK
  <2>2. Aged' /\ Own' = Own
    BY <1>0, <2>1 DEF CapInv, Aged, Files, Own
  <2>3. Cardinality(Own \ Excess) <= Depth
    <3>1. IsFiniteSet(Files \ Excess) /\ Own \ Excess \subseteq Files \ Excess
      BY FilesFinite DEF Files, Own
    <3>2. /\ IsFiniteSet(Own \ Excess) /\ Cardinality(Own \ Excess) <= Cardinality(Files \ Excess)
      BY <3>1, FS_Subset
    <3>3. Cardinality(Own \ Excess) \in Nat /\ Cardinality(Files \ Excess) \in Nat /\ Depth \in Nat
      BY <3>1, <3>2, FS_CardinalityType, FileRailAssumption
    <3>4. Cardinality(Files \ Excess) <= Depth
      BY ExcessFacts DEF CapInv
    <3>. QED BY <3>2, <3>3, <3>4
  <2>4. Trimmed'
    BY <2>1, <2>2, <2>3 DEF Trimmed
  <2>. QED BY <2>2, <2>4 DEF CapInv
<1>4. CASE Evict(m)
  <2>. DEFINE gone == victims[m]
  <2>1. gone \in SUBSET Names
    BY DEF TypeOK
  <2>2. /\ file' = [n \in Names |-> IF n \in gone THEN NoMsg ELSE file[n]] /\ newer' = Without(gone)
        /\ step[m] = "evict" /\ step' = [step EXCEPT ![m] = "sent"]
        /\ victims' = [victims EXCEPT ![m] = {}]
    BY <1>4 DEF Evict, Unlink
  <2>3. /\ Aged' /\ Own' = Own \ gone
        /\ Cardinality(Own) <= Depth => Cardinality(Own') <= Depth
        /\ \A S \in SUBSET Names : Cardinality(Own \ S) <= Depth => Cardinality(Own' \ S) <= Depth
    BY <2>1, <2>2, FewerFiles
  <2>4. \A k \in Msgs : k # m => step'[k] = step[k] /\ victims'[k] = victims[k]
    BY <2>2 DEF TypeOK
  <2>5. Trimmed'
    <3>1. CASE \E k \in Msgs : step[k] = "trim"
      BY <2>2, <2>4, <3>1 DEF Trimmed
    <3>2. CASE \E k \in Msgs : step[k] = "evict" /\ Cardinality(Own \ victims[k]) <= Depth
      <4>1. PICK k \in Msgs : step[k] = "evict" /\ Cardinality(Own \ victims[k]) <= Depth
        BY <3>2
      <4>2. CASE k = m
        <5>1. Cardinality(Own') <= Depth
          BY <2>3, <4>1, <4>2
        <5>. QED BY <5>1 DEF Trimmed
      <4>3. CASE k # m
        <5>1. victims[k] \in SUBSET Names
          BY DEF TypeOK
        <5>2. Cardinality(Own' \ victims[k]) <= Depth
          BY <2>3, <4>1, <5>1
        <5>. QED BY <2>4, <4>1, <4>3, <5>2 DEF Trimmed
      <4>. QED BY <4>2, <4>3
    <3>3. CASE Cardinality(Own) <= Depth
      BY <2>3, <3>3 DEF Trimmed
    <3>. QED BY <3>1, <3>2, <3>3 DEF CapInv, Trimmed
  <2>. QED BY <2>3, <2>5 DEF CapInv
<1>. QED BY <1>1, <1>2, <1>3, <1>4, <1>5 DEF SendStep

\* Files that go while the senders rest leave the cap where it was.
LEMMA CapShrinks ==
  ASSUME TypeOK, CapInv, NEW gone \in SUBSET Names,
         file' = [n \in Names |-> IF n \in gone THEN NoMsg ELSE file[n]],
         newer' = Without(gone), UNCHANGED <<step, victims>>
  PROVE  CapInv'
<1>1. /\ Aged' /\ (Cardinality(Own) <= Depth => Cardinality(Own') <= Depth)
      /\ \A S \in SUBSET Names : Cardinality(Own \ S) <= Depth => Cardinality(Own' \ S) <= Depth
  BY FewerFiles
<1>2. Trimmed'
  <2>1. CASE \E k \in Msgs : step[k] = "evict" /\ Cardinality(Own \ victims[k]) <= Depth
    <3>1. PICK k \in Msgs : step[k] = "evict" /\ Cardinality(Own \ victims[k]) <= Depth
      BY <2>1
    <3>2. victims[k] \in SUBSET Names
      BY DEF TypeOK
    <3>3. Cardinality(Own' \ victims[k]) <= Depth
      BY <1>1, <3>1, <3>2
    <3>. QED BY <3>1, <3>3 DEF Trimmed
  <2>2. CASE Cardinality(Own) <= Depth
    BY <1>1, <2>2 DEF Trimmed
  <2>. QED BY <2>1, <2>2 DEF CapInv, Trimmed
<1>. QED BY <1>1, <1>2 DEF CapInv

LEMMA CapStep == TypeInv /\ Published /\ CapInv /\ [Next]_vars => CapInv'
<1>. SUFFICES ASSUME TypeInv, Published, CapInv, [Next]_vars PROVE CapInv'
  OBVIOUS
<1>1. ASSUME UNCHANGED <<file, newer, step, victims>> PROVE CapInv'
  BY <1>1 DEF CapInv, Aged, Trimmed, Files, Own, Foreign, Arrays
<1>2. ASSUME NEW p \in Pollers, Poll(p) \/ Crash(p) PROVE CapInv'
  <2>1. CASE Archive(p) /\ UNCHANGED archiveErrors
    <3>1. reading[p] \in Names /\ UNCHANGED <<step, victims>>
      BY <2>1 DEF Archive, TypeInv, TypeOK
    <3>2. /\ file' = [file EXCEPT ![reading[p]] = NoMsg] /\ newer' = Without({reading[p]})
      BY <2>1, FileRailAssumption DEF Archive, TypeInv, TypeOK
    <3>3. file' = [n \in Names |-> IF n \in {reading[p]} THEN NoMsg ELSE file[n]]
      BY <3>1, <3>2 DEF TypeInv, TypeOK
    <3>. QED BY <3>1, <3>2, <3>3, CapShrinks DEF TypeInv
  <2>2. CASE ~(Archive(p) /\ UNCHANGED archiveErrors)
    <3>1. UNCHANGED <<file, newer, step, victims>>
      BY <1>2, <2>2 DEF Poll, Archive, List, Read, HandOn, EndPoll, Crash
    <3>. QED BY <1>1, <3>1
  <2>. QED BY <2>1, <2>2
<1>3. CASE Prune
  <2>1. PICK n \in Names : Unlink({n})
    BY <1>3 DEF Prune, Files
  <2>. QED BY <1>3, <2>1, CapShrinks DEF Prune, Unlink, TypeInv
<1>4. CASE NextSecond \/ UNCHANGED vars
  BY <1>1, <1>4 DEF NextSecond
<1>. QED BY <1>2, <1>3, <1>4, CapSend DEF Next

(* CapHolds: when no send is under way the rail's own files are within the *)
(* depth cap, however many senders listed and evicted at the same time.    *)
THEOREM DirectoryIsCapped == Spec => []CapHolds
<1>1. TypeInv /\ Published /\ CapInv /\ [Next]_vars => (TypeInv /\ Published /\ CapInv)'
  BY TypeStep, PublishedStep, CapStep
<1>2. CapInv => CapHolds
  BY DEF CapInv, Trimmed, CapHolds, Own
<1>. QED BY <1>1, <1>2, TypeInit, CapInit, PTL DEF Spec

-------------------------------------------------------------------------------
(* Handing on.  A process that does not forget an id hands it on once; its *)
(* age, newer ids and a restart make it forget.                            *)

LEMMA AppendElements ==
  ASSUME NEW S, NEW q \in Seq(S), NEW m \in S
  PROVE  ToSet(Append(q, m)) = ToSet(q) \cup {m}
<1>1. /\ Append(q, m) \in Seq(S) /\ Len(Append(q, m)) = Len(q) + 1 /\ Len(q) \in Nat
      /\ \A i \in 1..Len(q) : Append(q, m)[i] = q[i]
      /\ Append(q, m)[Len(q) + 1] = m
  BY AppendProperties, LenProperties
<1>2. DOMAIN Append(q, m) = 1..(Len(q) + 1) /\ DOMAIN q = 1..Len(q)
  BY <1>1, LenProperties
<1>3. ToSet(Append(q, m)) \subseteq ToSet(q) \cup {m}
  BY <1>1, <1>2 DEF ToSet
<1>4. ToSet(q) \subseteq ToSet(Append(q, m))
  BY <1>1, <1>2 DEF ToSet
<1>5. m \in ToSet(Append(q, m))
  BY <1>1, <1>2 DEF ToSet
<1>. QED BY <1>3, <1>4, <1>5

LEMMA TailElements ==
  ASSUME NEW S, NEW q \in Seq(S), q # <<>>
  PROVE  ToSet(q) = ToSet(Tail(q)) \cup {Head(q)}
<1>1. /\ Tail(q) \in Seq(S) /\ Len(Tail(q)) = Len(q) - 1 /\ Len(q) \in Nat
      /\ \A i \in 1..Len(Tail(q)) : Tail(q)[i] = q[i + 1]
  BY HeadTailProperties, LenProperties
<1>2. Len(q) >= 1 /\ Head(q) = q[1]
  BY <1>1, EmptySeq
<1>3. DOMAIN q = 1..Len(q) /\ DOMAIN Tail(q) = 1..(Len(q) - 1)
  BY <1>1, LenProperties
<1>4. \A i \in 1..Len(q) : i = 1 \/ (i - 1 \in 1..(Len(q) - 1) /\ Tail(q)[i - 1] = q[i])
  BY <1>1
<1>5. ToSet(q) \subseteq ToSet(Tail(q)) \cup {Head(q)}
  BY <1>2, <1>3, <1>4 DEF ToSet
<1>6. ToSet(Tail(q)) \subseteq ToSet(q)
  BY <1>1, <1>3 DEF ToSet
<1>7. Head(q) \in ToSet(q)
  BY <1>2, <1>3 DEF ToSet
<1>. QED BY <1>5, <1>6, <1>7

LEMMA NoElements == ToSet(<<>>) = {}
BY EmptySeq DEF ToSet

\* A process remembers all it handed on, or has forgotten it.
OnceEach == \A p \in Pollers, m \in Msgs :
  HasId(m) /\ m \notin forgot[p] => got[p][m] <= 1 /\ (got[p][m] > 0 => m \in ToSet(seen[p]))

LEMMA HandingInit == Init => OnceEach
BY DEF Init, OnceEach

\* Forgetting ids leaves them forgotten.
LEMMA Forgetting ==
  ASSUME TypeOK, OnceEach, NEW p \in Pollers, NEW rest \in Seq(Msgs), Forget(p, rest), got' = got
  PROVE  OnceEach'
<1>1. /\ ToSet(seen[p]) \subseteq ToSet(rest) \cup forgot'[p] /\ seen'[p] = rest
      /\ forgot[p] \subseteq forgot'[p]
      /\ \A q \in Pollers \ {p} : seen'[q] = seen[q] /\ forgot'[q] = forgot[q]
  BY ForgetFacts
<1>. QED BY <1>1 DEF OnceEach, HasId

LEMMA HandingOn ==
  ASSUME TypeOK, OnceEach, NEW p \in Pollers, HandOn(p)
  PROVE  OnceEach'
<1>. DEFINE m == Head(batch[p])
<1>1. batch[p] \in Seq(Payloads) /\ batch[p] # <<>> /\ seen[p] \in Seq(Msgs)
  BY DEF HandOn, TypeOK
<1>2. m \in Payloads
  BY <1>1, HeadTailProperties
<1>. HIDE DEF m
<1>3. /\ seen' = IF HasId(m) /\ ~Duplicate(p, m) THEN [seen EXCEPT ![p] = Append(@, m)] ELSE seen
      /\ got' = IF m \in Arrays \/ Duplicate(p, m) THEN got ELSE Count(p, m)
      /\ forgot' = forgot
  BY DEF HandOn, m
<1>4. \A q \in Pollers, k \in Msgs : got[q][k] \in 0..2
  BY DEF TypeOK
<1>5. CASE HasId(m) /\ ~Duplicate(p, m)
  <2>1. m \in Msgs /\ m \notin ToSet(seen[p]) /\ m \notin Arrays
    BY <1>5 DEF Duplicate, HasId, Arrays
  <2>2. /\ ToSet(seen'[p]) = ToSet(seen[p]) \cup {m}
        /\ \A q \in Pollers \ {p} : seen'[q] = seen[q]
    BY <1>1, <1>3, <1>5, <2>1, AppendElements DEF TypeOK
  <2>3. got' = [got EXCEPT ![p][m] = More(@)]
    BY <1>3, <1>5, <2>1 DEF Count
  <2>4. /\ got'[p][m] = More(got[p][m])
        /\ \A q \in Pollers, k \in Msgs : q # p \/ k # m => got'[q][k] = got[q][k]
    BY <2>1, <2>3 DEF TypeOK
  <2>5. SUFFICES ASSUME NEW q \in Pollers, NEW k \in Msgs, HasId(k), k \notin forgot[q]
                 PROVE  got'[q][k] <= 1 /\ (got'[q][k] > 0 => k \in ToSet(seen'[q]))
    BY <1>3 DEF OnceEach, HasId
  <2>6. CASE q # p \/ k # m
    BY <2>2, <2>4, <2>5, <2>6 DEF OnceEach
  <2>7. CASE q = p /\ k = m
    <3>1. got[p][m] = 0
      BY <1>4, <2>1, <2>5, <2>7 DEF OnceEach
    <3>2. got'[p][m] = 1
      BY <2>4, <3>1 DEF More
    <3>. QED BY <2>2, <2>7, <3>2
  <2>. QED BY <2>6, <2>7
<1>6. CASE ~(HasId(m) /\ ~Duplicate(p, m))
  <2>1. seen' = seen
    BY <1>3, <1>6
  <2>2. \A q \in Pollers, k \in Msgs : HasId(k) => got'[q][k] = got[q][k]
    <3>1. CASE got' = got
      BY <3>1
    <3>2. CASE got' # got
      <4>1. m \in Msgs /\ ~HasId(m) /\ got' = [got EXCEPT ![p][m] = More(@)]
        BY <1>3, <1>6, <3>2 DEF Count, Duplicate
      <4>. QED BY <4>1 DEF TypeOK
    <3>. QED BY <3>1, <3>2
  <2>. QED BY <1>3, <2>1, <2>2 DEF OnceEach, HasId
<1>. QED BY <1>5, <1>6

LEMMA HandingStep ==
  ASSUME TypeOK, OnceEach, [Next]_vars
  PROVE  OnceEach'
<1>1. ASSUME UNCHANGED <<seen, forgot, got>> PROVE OnceEach'
  BY <1>1 DEF OnceEach, HasId
<1>2. ASSUME NEW m \in Msgs, SendStep(m) \/ Resend(m) \/ PutForeign(m) PROVE OnceEach'
  <2>1. UNCHANGED <<seen, forgot, got>>
    BY <1>2 DEF SendStep, Refuse, OpenTmp, WriteTmp, Rename, ListExcess, Evict, Resend, PutForeign
  <2>. QED BY <1>1, <2>1
<1>3. ASSUME NEW p \in Pollers, Poll(p) \/ Crash(p) PROVE OnceEach'
  <2>1. CASE List(p)
    <3>1. PICK k \in 0..Len(seen[p]) : Forget(p, SubSeq(seen[p], k + 1, Len(seen[p])))
      BY <2>1 DEF List
    <3>2. seen[p] \in Seq(Msgs) /\ got' = got
      BY <2>1 DEF List, TypeOK
    <3>3. SubSeq(seen[p], k + 1, Len(seen[p])) \in Seq(Msgs)
      BY <3>2, Rest
    <3>. QED BY <3>1, <3>2, <3>3, Forgetting
  <2>2. CASE HandOn(p)
    BY <2>2, HandingOn
  <2>3. CASE Read(p) \/ Archive(p) \/ EndPoll(p)
    <3>1. UNCHANGED <<seen, forgot, got>>
      BY <2>3 DEF Read, Archive, EndPoll
    <3>. QED BY <1>1, <3>1
  <2>4. CASE Crash(p)
    <3>1. Forget(p, <<>>) /\ got' = got /\ <<>> \in Seq(Msgs)
      BY <2>4, EmptySeq DEF Crash
    <3>. QED BY <3>1, Forgetting
  <2>. QED BY <1>3, <2>1, <2>2, <2>3, <2>4 DEF Poll
<1>4. CASE Prune \/ NextSecond \/ UNCHANGED vars
  <2>1. UNCHANGED <<seen, forgot, got>>
    BY <1>4 DEF Prune, NextSecond
  <2>. QED BY <1>1, <2>1
<1>. QED BY <1>2, <1>3, <1>4 DEF Next

(* HandedOnOnce: whatever arrives again, from a retry, another rail or a   *)
(* file that could not be archived, a process hands each message with an   *)
(* id on once for as long as the id is in its memory.                      *)
THEOREM IdsAreHandedOnOnce == Spec => []HandedOnOnce
<1>1. Init => TypeInv /\ OnceEach
  BY TypeInit, HandingInit
<1>2. TypeInv /\ OnceEach /\ [Next]_vars => (TypeInv /\ OnceEach)'
  BY TypeStep, HandingStep DEF TypeInv
<1>3. OnceEach => HandedOnOnce
  BY DEF OnceEach, HandedOnOnce
<1>. QED BY <1>1, <1>2, <1>3, PTL DEF Spec

-------------------------------------------------------------------------------
(* Accounting.  A name tells one message when at most one has no id, and   *)
(* then nobody else writes to a sender's temporary file.                   *)

NamesTell == Arrays = {} /\ \A m, k \in Msgs : HasId(m) \/ HasId(k) \/ m = k

LEMMA OneBearer ==
  ASSUME NamesTell, NEW m \in Msgs, NEW k \in Msgs, NEW n, Bears(n, m), Bears(n, k)
  PROVE  m = k
BY DEF NamesTell, Bears, NameOf, HasId, Arrays

\* What a sender left in its temporary file is there, and what is published
\* is a message.
Alone ==
  /\ \A m \in Msgs : step[m] = "write" => fd[m] = "tmp" /\ tmp[name[m]] = Blank
  /\ \A m \in Msgs : step[m] = "rename" => tmp[name[m]] = m
  /\ \A n \in Names : file[n] \in Msgs \cup {NoMsg}

LEMMA AloneSend ==
  ASSUME NamesTell, TypeInv, Alone, NEW m \in Msgs, SendStep(m) \/ Resend(m) \/ PutForeign(m)
  PROVE  Alone'
<1>. USE DEF TypeInv
<1>1. CASE OpenTmp(m)
  <2>1. clock \in 0..Seconds
    BY DEF TypeOK
  <2>2. PICK n \in Names : n = NameOf(m, clock) /\ Bears(n, m)
    BY <2>1, NameFacts DEF Bears
  <2>3. /\ step' = [step EXCEPT ![m] = "write"] /\ name' = [name EXCEPT ![m] = n]
        /\ fd' = [fd EXCEPT ![m] = "tmp"] /\ tmp' = [tmp EXCEPT ![n] = Blank] /\ file' = file
    BY <1>1, <2>2 DEF OpenTmp, TmpName
  <2>4. \A k \in Msgs \ {m} : step[k] \in {"write", "rename"} => name[k] # n /\ name[k] \in Names
    BY <2>2, OneBearer, NameFacts DEF Named
  <2>5. /\ \A k \in Msgs \ {m} : step'[k] = step[k] /\ name'[k] = name[k] /\ fd'[k] = fd[k]
        /\ step'[m] = "write" /\ name'[m] = n /\ fd'[m] = "tmp" /\ tmp'[n] = Blank
        /\ \A k \in Names \ {n} : tmp'[k] = tmp[k]
    BY <2>3 DEF TypeOK
  <2>. QED BY <2>3, <2>4, <2>5 DEF Alone
<1>2. CASE WriteTmp(m)
  <2>1. step[m] = "write" /\ Bears(name[m], m) /\ fd[m] = "tmp" /\ tmp[name[m]] = Blank
    BY <1>2 DEF WriteTmp, Named, Alone
  <2>2. PICK n \in Names : n = name[m]
    BY <2>1, NameFacts
  <2>3. /\ step' = [step EXCEPT ![m] = "rename"] /\ UNCHANGED <<name, file>>
        /\ fd' = [fd EXCEPT ![m] = "gone"] /\ tmp' = [tmp EXCEPT ![n] = m]
    BY <1>2, <2>1, <2>2 DEF WriteTmp, TmpName, Over
  <2>4. \A k \in Msgs \ {m} : step[k] \in {"write", "rename"} => name[k] # n /\ name[k] \in Names
    BY <2>1, <2>2, OneBearer, NameFacts DEF Named
  <2>5. /\ \A k \in Msgs \ {m} : step'[k] = step[k] /\ fd'[k] = fd[k]
        /\ step'[m] = "rename" /\ tmp'[n] = m
        /\ \A k \in Names \ {n} : tmp'[k] = tmp[k]
    BY <2>3 DEF TypeOK
  <2>. QED BY <2>2, <2>3, <2>4, <2>5 DEF Alone
<1>3. CASE Rename(m)
  <2>1. step[m] = "rename" /\ Bears(name[m], m) /\ tmp[name[m]] = m
    BY <1>3 DEF Rename, Named, Alone
  <2>2. PICK n \in Names : n = name[m]
    BY <2>1, NameFacts
  <2>3. /\ step' = [step EXCEPT ![m] = "trim"] /\ name' = [name EXCEPT ![m] = NoName]
        /\ file' = [file EXCEPT ![n] = m] /\ tmp' = [tmp EXCEPT ![n] = NoMsg]
        /\ fd' = [k \in Msgs |-> IF name[k] = n /\ fd[k] = "tmp" THEN "file"
                                ELSE IF name[k] = n THEN "gone" ELSE fd[k]]
    BY <1>3, <2>1, <2>2, FileRailAssumption DEF Rename, TmpName, Put
  <2>4. \A k \in Msgs \ {m} : step[k] \in {"write", "rename"} => name[k] # n /\ name[k] \in Names
    BY <2>1, <2>2, OneBearer, NameFacts DEF Named
  <2>5. /\ \A k \in Msgs \ {m} : step'[k] = step[k] /\ name'[k] = name[k]
        /\ \A k \in Msgs : name[k] # n => fd'[k] = fd[k]
        /\ step'[m] = "trim"
        /\ \A k \in Names \ {n} : tmp'[k] = tmp[k] /\ file'[k] = file[k]
        /\ file'[n] = m
    BY <2>3 DEF TypeOK
  <2>. QED BY <2>4, <2>5 DEF Alone
<1>4. CASE Evict(m)
  <2>1. /\ step[m] = "evict" /\ step' = [step EXCEPT ![m] = "sent"] /\ UNCHANGED <<tmp, name>>
        /\ Unlink(victims[m]) /\ victims[m] \in SUBSET Names
    BY <1>4 DEF Evict, TypeOK
  <2>2. \A k \in Msgs : fd[k] = "tmp" => fd'[k] = "tmp"
    BY <2>1 DEF Unlink, Orphan
  <2>3. \A n \in Names : file'[n] \in {file[n], NoMsg}
    BY <2>1, UnlinkFacts
  <2>4. \A k \in Msgs : step'[k] \in {"write", "rename"} => step'[k] = step[k]
    BY <2>1 DEF TypeOK
  <2>. QED BY <2>1, <2>2, <2>3, <2>4 DEF Alone
<1>5. CASE Refuse(m) \/ ListExcess(m) \/ Resend(m)
  <2>1. /\ \A k \in Msgs : step'[k] \in {"write", "rename"} => step'[k] = step[k]
        /\ UNCHANGED <<tmp, file, name, fd>>
    BY <1>5 DEF Refuse, ListExcess, Resend, TypeOK
  <2>. QED BY <2>1 DEF Alone
<1>6. ~PutForeign(m)
  BY DEF PutForeign, NamesTell
<1>. QED BY <1>1, <1>2, <1>3, <1>4, <1>5, <1>6 DEF SendStep

LEMMA AloneStep ==
  ASSUME NamesTell, TypeInv, Alone, [Next]_vars
  PROVE  Alone'
<1>. USE DEF TypeInv
<1>1. ASSUME UNCHANGED <<step, name, tmp>>, \A k \in Msgs : fd[k] = "tmp" => fd'[k] = "tmp",
             \A n \in Names : file'[n] \in {file[n], NoMsg}
      PROVE  Alone'
  BY <1>1 DEF Alone
<1>2. ASSUME NEW p \in Pollers, Poll(p) \/ Crash(p) PROVE Alone'
  <2>1. UNCHANGED <<step, name, tmp>> /\ \A k \in Msgs : fd[k] = "tmp" => fd'[k] = "tmp"
    BY <1>2 DEF Poll, List, Read, Archive, Orphan, HandOn, EndPoll, Crash
  <2>2. file' = file \/ file' = [file EXCEPT ![reading[p]] = NoMsg]
    BY <1>2 DEF Poll, List, Read, Archive, HandOn, EndPoll, Crash
  <2>3. \A n \in Names : file'[n] \in {file[n], NoMsg}
    BY <2>2 DEF TypeOK
  <2>. QED BY <1>1, <2>1, <2>3
<1>3. CASE Prune
  <2>1. PICK n \in Names : Unlink({n})
    BY <1>3 DEF Prune, Files
  <2>2. UNCHANGED <<step, name, tmp>> /\ \A k \in Msgs : fd[k] = "tmp" => fd'[k] = "tmp"
    BY <1>3, <2>1 DEF Prune, Unlink, Orphan
  <2>3. \A k \in Names : file'[k] \in {file[k], NoMsg}
    BY <2>1, UnlinkFacts
  <2>. QED BY <1>1, <2>2, <2>3
<1>4. CASE NextSecond \/ UNCHANGED vars
  <2>1. UNCHANGED <<step, name, tmp, fd, file>>
    BY <1>4 DEF NextSecond
  <2>. QED BY <1>1, <2>1
<1>. QED BY <1>2, <1>3, <1>4, AloneSend DEF Next

AccountInv ==
  /\ \A m \in Msgs : step[m] \in {"trim", "evict", "sent"} => OnDisk(m)
  /\ \A p \in Pollers, m \in Msgs : m \in ToSet(seen[p]) => got[p][m] > 0
  /\ crashes = 0 => \A m \in archive : HandedOn(m)
  /\ crashes = 0 => \A p \in Pollers : reading[p] # NoName =>
       \E m \in Msgs : m \in ToSet(batch[p]) /\ Bears(reading[p], m)

\* Files that go to the archive or count as dropped stay accounted for.
LEMMA StaysOnDisk ==
  ASSUME TypeOK, archive \subseteq archive', dropped \subseteq dropped',
         \A n \in Names : file[n] \in Msgs /\ file'[n] # file[n] => file[n] \in archive' \cup dropped'
  PROVE  \A m \in Msgs : OnDisk(m) => OnDisk(m)'
<1>. SUFFICES ASSUME NEW m \in Msgs, OnDisk(m) PROVE OnDisk(m)'
  OBVIOUS
<1>1. CASE m \in archive \cup dropped
  BY <1>1 DEF OnDisk
<1>2. CASE \E n \in Names : file[n] = m
  <2>1. PICK n \in Names : file[n] = m
    BY <1>2
  <2>2. file'[n] = m \/ m \in archive' \cup dropped'
    BY <2>1
  <2>. QED BY <2>1, <2>2 DEF OnDisk
<1>. QED BY <1>1, <1>2 DEF OnDisk

LEMMA AccountInit == Init => Alone /\ AccountInv
<1>. SUFFICES ASSUME Init PROVE Alone /\ AccountInv
  OBVIOUS
<1>. QED BY NoElements DEF Init, Alone, AccountInv

LEMMA AccountSend ==
  ASSUME NamesTell, TypeInv, Alone, AccountInv, NEW m \in Msgs, SendStep(m) \/ Resend(m) \/ PutForeign(m)
  PROVE  AccountInv'
<1>. USE DEF TypeInv
<1>0. ~PutForeign(m)
  BY DEF PutForeign, NamesTell
<1>1. UNCHANGED <<seen, got, crashes, archive, batch, reading>>
  BY <1>0 DEF SendStep, Refuse, OpenTmp, WriteTmp, Rename, ListExcess, Evict, Resend
<1>2. /\ \A p \in Pollers, k \in Msgs : k \in ToSet(seen'[p]) => got'[p][k] > 0
      /\ crashes' = 0 => \A k \in archive' : HandedOn(k)'
      /\ crashes' = 0 => \A p \in Pollers : reading'[p] # NoName =>
           \E k \in Msgs : k \in ToSet(batch'[p]) /\ Bears(reading'[p], k)
  BY <1>1 DEF AccountInv, HandedOn
<1>3. (\A k \in Msgs : step'[k] \in {"trim", "evict", "sent"} => OnDisk(k)') => AccountInv'
  BY <1>2 DEF AccountInv, Bears, NameOf
<1>4. \A k \in Msgs : k # m => step'[k] = step[k]
  BY <1>0 DEF SendStep, Refuse, OpenTmp, WriteTmp, Rename, ListExcess, Evict, Resend, TypeOK
<1>5. CASE UNCHANGED <<file, archive, dropped>> /\ step'[m] \notin {"trim", "evict", "sent"}
  BY <1>3, <1>4, <1>5 DEF AccountInv, OnDisk
<1>6. CASE Rename(m)
  <2>1. name[m] \in Names /\ tmp[name[m]] = m /\ Bears(name[m], m)
    BY <1>6, NameFacts DEF Rename, Named, Alone
  <2>2. /\ file' = [file EXCEPT ![name[m]] = m] /\ UNCHANGED <<archive, dropped>>
    BY <1>6, <2>1, FileRailAssumption DEF Rename, TmpName, Put
  <2>3. file[name[m]] \in {m, NoMsg}
    BY <2>1, OneBearer DEF Named, Alone
  <2>4. file'[name[m]] = m
    BY <2>1, <2>2 DEF TypeOK
  <2>5. OnDisk(m)'
    BY <2>1, <2>4 DEF OnDisk
  <2>6. \A n \in Names : file[n] \in Msgs /\ file'[n] # file[n] => FALSE
    BY <2>1, <2>2, <2>3, FileRailAssumption DEF TypeOK
  <2>7. \A k \in Msgs : OnDisk(k) => OnDisk(k)'
    BY <2>2, <2>6, StaysOnDisk
  <2>. QED BY <1>3, <1>4, <2>5, <2>7 DEF AccountInv
<1>7. CASE ListExcess(m)
  <2>1. UNCHANGED <<file, archive, dropped>> /\ step[m] = "trim"
    BY <1>7 DEF ListExcess
  <2>. QED BY <1>3, <1>4, <2>1 DEF AccountInv, OnDisk
<1>8. CASE Evict(m)
  <2>1. Unlink(victims[m]) /\ step[m] = "evict" /\ UNCHANGED archive
    BY <1>8 DEF Evict
  <2>2. \A n \in Names : file[n] \in Msgs /\ file'[n] # file[n] => file[n] \in dropped'
    BY <2>1 DEF Unlink, TypeOK
  <2>3. \A k \in Msgs : OnDisk(k) => OnDisk(k)'
    BY <2>1, <2>2, StaysOnDisk DEF Unlink
  <2>. QED BY <1>3, <1>4, <2>1, <2>3 DEF AccountInv
<1>9. CASE Refuse(m) \/ OpenTmp(m) \/ WriteTmp(m) \/ Resend(m)
  <2>1. WriteTmp(m) => fd[m] = "tmp"
    BY DEF WriteTmp, Alone
  <2>2. UNCHANGED <<file, archive, dropped>> /\ step'[m] \notin {"trim", "evict", "sent"}
    BY <1>9, <2>1 DEF Refuse, OpenTmp, WriteTmp, Resend, TypeOK
  <2>. QED BY <1>5, <2>2
<1>. QED BY <1>0, <1>6, <1>7, <1>8, <1>9 DEF SendStep

LEMMA RestElements ==
  ASSUME NEW q \in Seq(Msgs), NEW k \in 0..Len(q)
  PROVE  ToSet(SubSeq(q, k + 1, Len(q))) \subseteq ToSet(q)
<1>. DEFINE a == k + 1
            cut == SubSeq(q, a, Len(q))
<1>1. a \in Nat /\ a >= 1 /\ a <= Len(q) + 1 /\ Len(q) \in Nat
  BY LenProperties
<1>2. \A i \in a..Len(q) : q[i] \in Msgs
  BY <1>1, ElementOfSeq
<1>. HIDE DEF a
<1>3. /\ cut \in Seq(Msgs) /\ Len(cut) = IF a <= Len(q) THEN Len(q) - a + 1 ELSE 0
      /\ \A i \in 1..(Len(q) - a + 1) : cut[i] = q[a + i - 1]
  BY <1>1, <1>2, SubSeqProperties
<1>4. DOMAIN cut \subseteq 1..(Len(q) - a + 1) /\ DOMAIN q = 1..Len(q)
  BY <1>1, <1>3, LenProperties
<1>5. \A i \in DOMAIN cut : cut[i] = q[a + i - 1] /\ a + i - 1 \in DOMAIN q
  BY <1>1, <1>3, <1>4
<1>. HIDE DEF cut
<1>6. ToSet(cut) \subseteq ToSet(q)
  BY <1>5 DEF ToSet
<1>. QED BY <1>6 DEF cut, a

LEMMA AccountPoll ==
  ASSUME NamesTell, TypeInv, Alone, AccountInv, NEW p \in Pollers, Poll(p) \/ Crash(p)
  PROVE  AccountInv'
<1>. USE DEF TypeInv
<1>1. UNCHANGED <<step, dropped>>
  BY DEF Poll, List, Read, Archive, HandOn, EndPoll, Crash
<1>2. CASE List(p)
  <2>1. UNCHANGED <<file, archive, got, batch, reading, crashes>>
    BY <1>2 DEF List
  <2>2. seen[p] \in Seq(Msgs)
    BY DEF TypeOK
  <2>3. \A k \in 0..Len(seen[p]) : ToSet(SubSeq(seen[p], k + 1, Len(seen[p]))) \subseteq ToSet(seen[p])
    BY <2>2, RestElements
  <2>4. \A q \in Pollers : ToSet(seen'[q]) \subseteq ToSet(seen[q])
    BY <1>2, <2>3 DEF List, Forget, TypeOK
  <2>. QED BY <1>1, <2>1, <2>4 DEF AccountInv, OnDisk, HandedOn, Bears, NameOf
<1>3. CASE Read(p)
  <2>1. UNCHANGED <<file, archive, got, seen, crashes>>
    BY <1>3 DEF Read
  <2>2. PICK n \in todo[p] : IF file[n] = NoMsg THEN UNCHANGED <<batch, reading>>
             ELSE /\ batch' = [batch EXCEPT ![p] = Append(@, file[n])]
                  /\ reading' = [reading EXCEPT ![p] = n]
    BY <1>3 DEF Read
  <2>3. n \in Names
    BY DEF TypeOK
  <2>4. CASE file[n] = NoMsg
    <3>1. UNCHANGED <<batch, reading>>
      BY <2>2, <2>4
    <3>2. \A m \in Msgs : OnDisk(m)' = OnDisk(m)
      BY <1>1, <2>1 DEF OnDisk
    <3>3. \A m : HandedOn(m)' = HandedOn(m)
      BY <2>1, <3>1 DEF HandedOn
    <3>. QED BY <1>1, <2>1, <3>1, <3>2, <3>3 DEF AccountInv, Bears, NameOf
  <2>5. CASE file[n] # NoMsg
    <3>1. /\ file[n] \in Msgs /\ Bears(n, file[n]) /\ batch[p] \in Seq(Payloads)
          /\ file[n] \in Payloads
      BY <2>3, <2>5, PayloadFacts DEF TypeOK, Named, Alone
    <3>2. /\ \A q \in Pollers : q # p => batch'[q] = batch[q] /\ reading'[q] = reading[q]
          /\ ToSet(batch'[p]) = ToSet(batch[p]) \cup {file[n]} /\ reading'[p] = n
      <4>1. ToSet(Append(batch[p], file[n])) = ToSet(batch[p]) \cup {file[n]}
        BY <3>1, AppendElements
      <4>. QED BY <2>2, <2>5, <4>1 DEF TypeOK
    <3>3. \A m \in Msgs : HandedOn(m) => HandedOn(m)'
      BY <2>1, <3>2 DEF HandedOn
    <3>4. crashes' = 0 => \A m \in archive' : HandedOn(m)'
      BY <2>1, <3>3 DEF AccountInv, TypeOK
    <3>5. crashes' = 0 => \A q \in Pollers : reading'[q] # NoName =>
            \E m \in Msgs : m \in ToSet(batch'[q]) /\ Bears(reading'[q], m)
      BY <2>1, <3>1, <3>2 DEF AccountInv
    <3>. QED BY <1>1, <2>1, <3>4, <3>5 DEF AccountInv, OnDisk, Bears, NameOf
  <2>. QED BY <2>4, <2>5
<1>4. CASE Archive(p)
  <2>1. UNCHANGED <<got, seen, batch, crashes>> /\ reading[p] \in Names /\ reading[p] # NoName
    BY <1>4 DEF Archive, TypeOK
  <2>2. \A q \in Pollers : reading'[q] \in {reading[q], NoName}
    BY <1>4 DEF Archive, TypeOK
  <2>3. CASE archive' = archive /\ file' = file
    <3>1. \A m \in Msgs : OnDisk(m)' = OnDisk(m)
      BY <1>1, <2>3 DEF OnDisk
    <3>2. \A m : HandedOn(m)' = HandedOn(m)
      BY <2>1 DEF HandedOn
    <3>3. crashes' = 0 => \A q \in Pollers : reading'[q] # NoName =>
            \E m \in Msgs : m \in ToSet(batch'[q]) /\ Bears(reading'[q], m)
      BY <2>1, <2>2 DEF AccountInv
    <3>. QED BY <1>1, <2>1, <2>3, <3>1, <3>2, <3>3 DEF AccountInv, Bears, NameOf
  <2>4. CASE /\ archive' = archive \cup ({file[reading[p]]} \cap Msgs)
             /\ file' = [file EXCEPT ![reading[p]] = NoMsg]
    <3>1. \A n \in Names : file[n] \in Msgs /\ file'[n] # file[n] => file[n] \in archive'
      BY <2>1, <2>4 DEF TypeOK
    <3>2. \A m \in Msgs : OnDisk(m) => OnDisk(m)'
      BY <1>1, <2>4, <3>1, StaysOnDisk
    <3>3. ASSUME crashes = 0, file[reading[p]] \in Msgs PROVE HandedOn(file[reading[p]])
      <4>1. PICK m \in Msgs : m \in ToSet(batch[p]) /\ Bears(reading[p], m)
        BY <2>1, <3>3 DEF AccountInv
      <4>2. Bears(reading[p], file[reading[p]])
        BY <2>1, <3>3 DEF Named
      <4>3. m = file[reading[p]]
        BY <3>3, <4>1, <4>2, OneBearer
      <4>. QED BY <4>1, <4>3 DEF HandedOn
    <3>4. \A m \in archive' : crashes = 0 => HandedOn(m)
      BY <2>4, <3>3 DEF AccountInv
    <3>5. \A m : HandedOn(m)' <=> HandedOn(m)
      BY <2>1 DEF HandedOn
    <3>. QED BY <1>1, <2>1, <2>2, <3>2, <3>4, <3>5 DEF AccountInv, Bears, NameOf
  <2>. QED BY <1>4, <2>3, <2>4 DEF Archive
<1>5. CASE HandOn(p)
  <2>. DEFINE m == Head(batch[p])
  <2>1. batch[p] \in Seq(Payloads) /\ batch[p] # <<>> /\ seen[p] \in Seq(Msgs) /\ reading[p] = NoName
    BY <1>5 DEF HandOn, AllRead, TypeOK
  <2>2. m \in Payloads /\ Tail(batch[p]) \in Seq(Payloads)
    BY <2>1, HeadTailProperties
  <2>3. ToSet(batch[p]) = ToSet(Tail(batch[p])) \cup {m}
    BY <2>1, TailElements
  <2>. HIDE DEF m
  <2>4. /\ batch' = [batch EXCEPT ![p] = Tail(@)]
        /\ seen' = IF HasId(m) /\ ~Duplicate(p, m) THEN [seen EXCEPT ![p] = Append(@, m)] ELSE seen
        /\ got' = IF Duplicate(p, m) THEN got ELSE Count(p, m)
        /\ UNCHANGED <<file, archive, reading, crashes>>
    BY <1>5, <2>2 DEF HandOn, NamesTell, m
  <2>5. \A q \in Pollers, k \in Msgs : got[q][k] \in 0..2
    BY DEF TypeOK
  <2>6. /\ \A q \in Pollers, k \in Msgs : q # p \/ k # m => got'[q][k] = got[q][k]
        /\ m \in Msgs => got'[p][m] = IF Duplicate(p, m) THEN got[p][m] ELSE More(got[p][m])
    BY <2>4 DEF Count, TypeOK
  <2>7. m \in Msgs => got'[p][m] > 0
    BY <2>5, <2>6 DEF More, Duplicate, AccountInv
  <2>8. \A q \in Pollers, k \in Msgs : got[q][k] > 0 => got'[q][k] > 0
    BY <2>6, <2>7
  <2>9. /\ \A q \in Pollers : q # p => batch'[q] = batch[q] /\ seen'[q] = seen[q]
        /\ batch'[p] = Tail(batch[p])
        /\ ToSet(seen'[p]) \subseteq ToSet(seen[p]) \cup {m}
    BY <2>1, <2>4, AppendElements DEF HasId, TypeOK
  <2>10. \A k \in Msgs : HandedOn(k) => HandedOn(k)'
    <3>. SUFFICES ASSUME NEW k \in Msgs, NEW q \in Pollers, got[q][k] > 0 \/ k \in ToSet(batch[q])
                  PROVE  \E r \in Pollers : got'[r][k] > 0 \/ k \in ToSet(batch'[r])
      BY DEF HandedOn
    <3>1. CASE got[q][k] > 0
      BY <2>8, <3>1
    <3>2. CASE k \in ToSet(batch[q])
      BY <2>3, <2>7, <2>9, <3>2
    <3>. QED BY <3>1, <3>2
  <2>11. \A q \in Pollers, k \in Msgs : k \in ToSet(seen'[q]) => got'[q][k] > 0
    BY <2>7, <2>8, <2>9 DEF AccountInv
  <2>12. crashes' = 0 => \A q \in Pollers : reading'[q] # NoName =>
           \E k \in Msgs : k \in ToSet(batch'[q]) /\ Bears(reading'[q], k)
    BY <2>1, <2>4, <2>9 DEF AccountInv
  <2>13. crashes' = 0 => \A k \in archive' : HandedOn(k)'
    BY <2>4, <2>10 DEF AccountInv, TypeOK
  <2>. QED BY <1>1, <2>4, <2>11, <2>12, <2>13 DEF AccountInv, OnDisk, Bears, NameOf
<1>6. CASE EndPoll(p)
  BY <1>1, <1>6 DEF EndPoll, AccountInv, OnDisk, HandedOn, Bears, NameOf
<1>7. CASE Crash(p)
  <2>1. seen' = [seen EXCEPT ![p] = <<>>] /\ crashes' # 0 /\ UNCHANGED <<file, archive, got>>
    BY <1>7, FileRailAssumption DEF Crash, Forget, TypeOK
  <2>2. \A q \in Pollers : ToSet(seen'[q]) \subseteq ToSet(seen[q])
    BY <2>1, NoElements DEF TypeOK
  <2>. QED BY <1>1, <2>1, <2>2 DEF AccountInv, OnDisk
<1>. QED BY <1>2, <1>3, <1>4, <1>5, <1>6, <1>7 DEF Poll

LEMMA AccountStep ==
  ASSUME NamesTell, TypeInv, Alone, AccountInv, [Next]_vars
  PROVE  AccountInv'
<1>1. CASE Prune
  <2>1. PICK n \in Files : Unlink({n})
    BY <1>1 DEF Prune
  <2>2. UNCHANGED <<step, seen, got, crashes, archive, batch, reading>>
    BY <1>1 DEF Prune
  <2>3. \A k \in Names : file[k] \in Msgs /\ file'[k] # file[k] => file[k] \in dropped'
    BY <2>1 DEF Unlink
  <2>4. \A m \in Msgs : OnDisk(m) => OnDisk(m)'
    BY <2>1, <2>2, <2>3, StaysOnDisk DEF Unlink, TypeInv
  <2>. QED BY <2>2, <2>4 DEF AccountInv, HandedOn, Bears, NameOf
<1>2. CASE NextSecond \/ UNCHANGED vars
  <2>1. UNCHANGED <<step, seen, got, crashes, archive, batch, reading, file, dropped>>
    BY <1>2 DEF NextSecond
  <2>. QED BY <2>1 DEF AccountInv, OnDisk, HandedOn, Bears, NameOf
<1>. QED BY <1>1, <1>2, AccountSend, AccountPoll DEF Next

(* Accounted: a message reported queued is on the disk until it is evicted *)
(* or pruned, and what is archived is handed on unless a process restarts; *)
(* provided a name tells which message it is for (no two envelopes without *)
(* an id of their own), and no other program puts an array there (which    *)
(* ends the loop that hands the batch on).                                 *)
THEOREM QueuedIsAccounted ==
  ASSUME NamesTell
  PROVE  Spec => []Accounted
<1>1. Init => TypeInv /\ Alone /\ AccountInv
  BY TypeInit, AccountInit
<1>2. TypeInv /\ Alone /\ AccountInv /\ [Next]_vars => (TypeInv /\ Alone /\ AccountInv)'
  BY TypeStep, AloneStep, AccountStep
<1>3. AccountInv => Accounted
  BY DEF AccountInv, Accounted
<1>. QED BY <1>1, <1>2, <1>3, PTL DEF Spec
================================================================================
