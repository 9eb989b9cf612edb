-------------------------- MODULE EpochManagerProofs --------------------------
(* Theorems about EpochManager, for every number of threads, nodes and      *)
(* epochs.                                                                  *)
EXTENDS EpochManager, FiniteSetTheorems, TLAPS

(* What is in the list, by position.  SMT knows sequences, so these unfold  *)
(* Append and Tail once.                                                    *)
Distinct(s) == \A i, j \in 1 .. Len(s) : s[i] = s[j] => i = j

LEMMA TailTyping ==
  ASSUME NEW s \in Seq(Epochs), Len(s) > 1, Distinct(s)
  PROVE  /\ Tail(s) \in Seq(Epochs) \ {<<>>} /\ Distinct(Tail(s))
         /\ Len(Tail(s)) = Len(s) - 1
         /\ \A i \in 1 .. Len(s) - 1 : Tail(s)[i] = s[i + 1]
<1>1. Tail(s) \in Seq(Epochs) /\ Len(Tail(s)) = Len(s) - 1
  OBVIOUS
<1>2. \A i \in 1 .. Len(s) - 1 : Tail(s)[i] = s[i + 1]
  OBVIOUS
<1>4. Tail(s) # <<>>
  <2> DEFINE q == Tail(s)
  <2>1. q \in Seq(Epochs) /\ Len(q) > 0
    BY <1>1
  <2> HIDE DEF q
  <2>2. q # <<>>
    BY <2>1
  <2> QED BY <2>2 DEF q
<1>5. ASSUME NEW i \in 1 .. Len(s) - 1, NEW j \in 1 .. Len(s) - 1, Tail(s)[i] = Tail(s)[j]
      PROVE i = j
  <2>1. s[i + 1] = s[j + 1] /\ i + 1 \in 1 .. Len(s) /\ j + 1 \in 1 .. Len(s)
    BY <1>2, <1>5
  <2> QED BY <2>1 DEF Distinct
<1>6. Distinct(Tail(s))
  BY <1>1, <1>5 DEF Distinct
<1> QED BY <1>1, <1>2, <1>4, <1>6

LEMMA AppendTyping ==
  ASSUME NEW s \in Seq(Epochs), s # <<>>, Distinct(s), NEW e \in Epochs,
         \A i \in 1 .. Len(s) : s[i] # e
  PROVE  /\ Append(s, e) \in Seq(Epochs) \ {<<>>} /\ Distinct(Append(s, e))
         /\ Len(Append(s, e)) = Len(s) + 1
         /\ \A i \in 1 .. Len(s) : Append(s, e)[i] = s[i]
         /\ Append(s, e)[Len(s) + 1] = e
  BY DEF Distinct

LEMMA LengthCases == \A s \in Seq(Epochs) : Len(s) > 0 => Len(s) = 1 \/ Len(s) > 1
<1>1. \A n \in Nat : n > 0 => n = 1 \/ n > 1
  OBVIOUS
<1>2. \A s \in Seq(Epochs) : Len(s) \in Nat
  OBVIOUS
<1> QED BY <1>1, <1>2

LEMMA ListTyping ==
  ASSUME ListTypeOK
  PROVE  /\ epochs \in Seq(Epochs) /\ epochs # <<>> /\ Distinct(epochs) /\ Len(epochs) > 0
         /\ Current \in Epochs /\ HeadEpoch \in Epochs /\ Live(Current) /\ Live(HeadEpoch)
  BY DEF ListTypeOK, Distinct, Current, HeadEpoch, Live

LEMMA InitTyping == Init => TypeOK
<1> SUFFICES ASSUME Init PROVE TypeOK
  OBVIOUS
<1>1. PICK e \in Epochs : epochs = <<e>>
  BY DEF Init
<1> QED BY <1>1 DEF Init, TypeOK, ListTypeOK, NodeTypeOK, ThreadTypeOK

LEMMA StepListTyping == TypeOK /\ [Next]_vars => ListTypeOK'
<1> SUFFICES ASSUME TypeOK, [Next]_vars PROVE ListTypeOK'
  OBVIOUS
<1>0. ListTypeOK /\ epochs \in Seq(Epochs) /\ Len(epochs) > 0 /\ Distinct(epochs)
  BY ListTyping DEF TypeOK
<1>1. CASE UNCHANGED <<epochs, gpc>>
  BY <1>0, <1>1 DEF ListTypeOK
<1>2. CASE TestHead \/ ClaimHead \/ UnclaimHead
  <2>1. epochs' = epochs
    BY <1>2 DEF TestHead, ClaimHead, UnclaimHead, listVars
  <2>2. CASE TestHead
    <3>1. gpc' \in {"create", "claim"} /\ (gpc' = "claim" => Len(epochs) > 1)
      <4>1. gpc' \in {"create", "claim"} /\ (gpc' = "claim" => Len(epochs) # 1)
        BY <2>2 DEF TestHead
      <4>2. Len(epochs) = 1 \/ Len(epochs) > 1
        BY <1>0, LengthCases
      <4> QED BY <4>1, <4>2
    <3>2. gpc' \in {"claim", "unclaim", "free"} => Len(epochs') > 1
      BY <2>1, <3>1
    <3> QED BY <1>0, <2>1, <3>1, <3>2 DEF ListTypeOK
  <2>3. CASE ClaimHead
    BY <1>0, <2>1, <2>3 DEF ClaimHead, ListTypeOK
  <2>4. CASE UnclaimHead
    BY <1>0, <2>1, <2>4 DEF UnclaimHead, ListTypeOK
  <2> QED BY <1>2, <2>2, <2>3, <2>4
<1>3. CASE FreeHead
  <2>1. Len(epochs) > 1 /\ epochs' = Tail(epochs) /\ gpc' = "test"
    BY <1>0, <1>3 DEF FreeHead, ListTypeOK
  <2>2. epochs' \in Seq(Epochs) \ {<<>>} /\ Distinct(epochs')
    BY <1>0, <2>1, TailTyping DEF ListTypeOK
  <2> QED BY <2>1, <2>2 DEF ListTypeOK, Distinct
<1>4. CASE CreateNewEpoch
  <2>1. CASE epochs' = epochs
    BY <1>0, <1>4, <2>1 DEF CreateNewEpoch, ListTypeOK
  <2>2. ASSUME NEW e \in Epochs, Unused(e), epochs' = Append(epochs, e) PROVE ListTypeOK'
    <3>1. epochs' \in Seq(Epochs) \ {<<>>} /\ Distinct(epochs')
      BY <1>0, <2>2, AppendTyping DEF Unused, Live, ListTypeOK
    <3> QED BY <1>4, <3>1 DEF CreateNewEpoch, ListTypeOK, Distinct
  <2> QED BY <1>4, <2>1, <2>2 DEF CreateNewEpoch
<1> QED
  BY <1>1, <1>2, <1>3, <1>4
  DEF Next, JoinStep, ReadCurrent, FetchAdd, UndoAdd, Reach, InstallNewNode, ConsolidateNode,
      ReadTarget, PushGarbage, LeaveEpoch, listVars, vars

LEMMA StepNodeTyping == TypeOK /\ [Next]_vars => NodeTypeOK'
<1> SUFFICES ASSUME TypeOK, [Next]_vars PROVE NodeTypeOK'
  OBVIOUS
<1> USE ListTyping DEF TypeOK, NodeTypeOK, threadVars
<1>1. CASE UNCHANGED <<count, garbage, holds, linked, freed>>
  BY <1>1
<1>2. ASSUME NEW t \in Threads, JoinStep(t) PROVE NodeTypeOK'
  BY <1>2 DEF JoinStep, ReadCurrent, FetchAdd, UndoAdd, CountSeen, listVars
<1>3. ASSUME NEW t \in Threads, PushGarbage(t) \/ LeaveEpoch(t) PROVE NodeTypeOK'
  <2>1. CASE PushGarbage(t)
    <3>1. victim[t] \in Nodes /\ target[t] \in Epochs
      BY <2>1 DEF PushGarbage, Move, ThreadTypeOK
    <3> QED BY <2>1, <3>1 DEF PushGarbage
  <2>2. CASE LeaveEpoch(t)
    BY <2>2 DEF LeaveEpoch, Move, ThreadTypeOK
  <2> QED BY <1>3, <2>1, <2>2
<1>4. ASSUME NEW t \in Threads, NEW n \in Nodes, Reach(t, n) \/ InstallNewNode(t, n)
      PROVE NodeTypeOK'
  BY <1>4 DEF Reach, InstallNewNode, listVars, threadVars
<1>5. ASSUME NEW t \in Threads, NEW n \in Nodes, NEW m \in Nodes, ConsolidateNode(t, n, m)
      PROVE NodeTypeOK'
  BY <1>5 DEF ConsolidateNode, listVars
<1>6. CASE ClaimHead \/ UnclaimHead
  BY <1>6, ThreadAssumption DEF ClaimHead, UnclaimHead
<1>7. CASE FreeHead
  BY <1>7 DEF FreeHead
<1>8. CASE CreateNewEpoch
  BY <1>8 DEF CreateNewEpoch
<1> QED
  BY <1>1, <1>2, <1>3, <1>4, <1>5, <1>6, <1>7, <1>8
  DEF Next, ReadTarget, TestHead, listVars, vars, threadVars

LEMMA StepThreadTyping == TypeOK /\ [Next]_vars => ThreadTypeOK'
<1> SUFFICES ASSUME TypeOK, [Next]_vars PROVE ThreadTypeOK'
  OBVIOUS
<1> USE ListTyping DEF TypeOK, ThreadTypeOK
<1>1. CASE UNCHANGED <<pc, joined, target, victim>>
  BY <1>1
<1>2. ASSUME NEW t \in Threads, JoinStep(t) PROVE ThreadTypeOK'
  BY <1>2 DEF JoinStep, ReadCurrent, FetchAdd, UndoAdd, Move
<1>3. ASSUME NEW t \in Threads, ReadTarget(t) \/ PushGarbage(t) \/ LeaveEpoch(t)
      PROVE ThreadTypeOK'
  BY <1>3 DEF ReadTarget, GarbageEpoch, PushGarbage, LeaveEpoch, Move
<1>4. ASSUME NEW t \in Threads, NEW n \in Nodes, NEW m \in Nodes, ConsolidateNode(t, n, m)
      PROVE ThreadTypeOK'
  BY <1>4 DEF ConsolidateNode, Move
<1> QED
  BY <1>1, <1>2, <1>3, <1>4
  DEF Next, Reach, InstallNewNode, TestHead, ClaimHead, UnclaimHead, FreeHead, CreateNewEpoch,
      listVars, vars, threadVars

LEMMA StepTyping == TypeOK /\ [Next]_vars => TypeOK'
  BY StepListTyping, StepNodeTyping, StepThreadTyping DEF TypeOK

(* The state stays well shaped: the list of epochs has no repetition and a  *)
(* head other than the current epoch whenever the cleaner works on it, and  *)
(* a thread's local pointers are set exactly where the code uses them.      *)
THEOREM EpochTypeOK == Spec => []TypeOK
  BY InitTyping, StepTyping, PTL DEF Spec
-----------------------------------------------------------------------------
(* What is left of an epoch once it is deleted: a thread that read the old  *)
(* current_epoch_p still adds to the counter and takes itself out again.    *)
Counted(t) == InTree(t) \/ pc[t] = "undo"
Members(e) == {t \in Threads : Counted(t) /\ joined[t] = e}
Pointed(e) == \E t \in Threads : pc[t] \in {"add", "undo"} /\ joined[t] = e
Claimed(e) == ~Live(e) \/ (gpc \in {"unclaim", "free"} /\ e = HeadEpoch)

(* A counter that a thread or the cleaner may look at counts the threads,   *)
(* less MaxThreads while the cleaner has claimed the epoch.                 *)
Balanced(e) ==
  count[e] = Cardinality(Members(e)) - (IF Claimed(e) THEN MaxThreads ELSE 0)
CountInv == \A e \in Epochs : Live(e) \/ Pointed(e) => Balanced(e)

(* No thread is in the epoch that the cleaner is about to delete.           *)
HeadFree == gpc = "free" => \A t \in Threads : InTree(t) => joined[t] # HeadEpoch

(* Epoch a is not younger than epoch b.                                     *)
Before(a, b) ==
  \E i, j \in 1 .. Len(epochs) : i <= j /\ epochs[i] = a /\ epochs[j] = b

(* Garbage is filed under an epoch at least as young as any epoch in which  *)
(* a thread holds it.                                                       *)
HoldsInv ==
  \A t \in Threads :
    /\ ~InTree(t) => holds[t] = {}
    /\ \A e \in Epochs : \A n \in holds[t] \cap garbage[e] : Before(joined[t], e)
TargetInv ==
  \A t, u \in Threads :
    pc[u] = "push" /\ (t = u \/ victim[u] \in holds[t]) => Before(joined[t], target[u])

Retiring(t) == pc[t] \in {"retire", "push"}

(* Nothing is retired twice, and nothing retired is linked or free.         *)
GarbageFate ==
  /\ \A e \in Epochs : garbage[e] \cap linked = {} /\ garbage[e] \cap freed = {}
  /\ \A e, f \in Epochs : e # f => garbage[e] \cap garbage[f] = {}
VictimFate ==
  /\ \A t \in Threads : Retiring(t) =>
       victim[t] \notin linked \cup freed /\ \A e \in Epochs : victim[t] \notin garbage[e]
  /\ \A t, u \in Threads : t # u /\ Retiring(t) /\ Retiring(u) => victim[t] # victim[u]
NodeFate == linked \cap freed = {} /\ linked \cup freed \cup Retired = Nodes
FateInv == GarbageFate /\ VictimFate /\ NodeFate

IInv == /\ TypeOK /\ JoinedEpochLive /\ CountInv /\ HeadFree
        /\ HoldsInv /\ TargetInv /\ FateInv /\ NoUseAfterFree
-----------------------------------------------------------------------------
(* The list of epochs *)

LEMMA BeforeFacts ==
  ASSUME ListTypeOK
  PROVE  /\ \A a, b : Before(a, b) => Live(a) /\ Live(b)
         /\ \A a : Live(a) => Before(a, Current)
         /\ \A a : Before(a, HeadEpoch) => a = HeadEpoch
<1>1. epochs \in Seq(Epochs) /\ Len(epochs) \in Nat /\ Len(epochs) > 0 /\ Distinct(epochs)
  BY ListTyping
<1>2. \A a, b : Before(a, b) => Live(a) /\ Live(b)
  BY DEF Before, Live
<1>3. ASSUME NEW a, Live(a) PROVE Before(a, Current)
  <2>1. PICK i \in 1 .. Len(epochs) : epochs[i] = a
    BY <1>3 DEF Live
  <2>2. Len(epochs) \in 1 .. Len(epochs) /\ i <= Len(epochs)
    BY <1>1
  <2> QED BY <2>1, <2>2 DEF Before, Current
<1>4. ASSUME NEW a, Before(a, HeadEpoch) PROVE a = HeadEpoch
  <2>1. PICK i \in 1 .. Len(epochs), j \in 1 .. Len(epochs) :
          i <= j /\ epochs[i] = a /\ epochs[j] = HeadEpoch
    BY <1>4 DEF Before
  <2>2. 1 \in 1 .. Len(epochs) /\ epochs[j] = epochs[1]
    BY <1>1, <2>1 DEF HeadEpoch
  <2>3. j = 1
    BY <1>1, <2>2 DEF Distinct
  <2> QED BY <2>1, <2>3 DEF HeadEpoch
<1> QED BY <1>2, <1>3, <1>4

(* Deleting the head leaves the rest in order.                              *)
LEMMA DropHead ==
  ASSUME ListTypeOK, Len(epochs) > 1, epochs' = Tail(epochs)
  PROVE  /\ \A a : Live(a)' <=> Live(a) /\ a # HeadEpoch
         /\ \A a, b : Before(a, b) /\ a # HeadEpoch => Before(a, b)'
<1>1. epochs \in Seq(Epochs) /\ Len(epochs) \in Nat /\ Distinct(epochs)
  BY ListTyping
<1>2. /\ Len(epochs') = Len(epochs) - 1
      /\ \A i \in 1 .. Len(epochs) - 1 : epochs'[i] = epochs[i + 1]
  BY <1>1, TailTyping
<1>3. ASSUME NEW a, NEW i \in 1 .. Len(epochs), epochs[i] = a, a # HeadEpoch
      PROVE  i - 1 \in 1 .. Len(epochs') /\ epochs'[i - 1] = a
  <2>1. i # 1
    BY <1>3 DEF HeadEpoch
  <2>2. i - 1 \in 1 .. Len(epochs) - 1 /\ (i - 1) + 1 = i
    BY <1>1, <2>1
  <2> QED BY <1>2, <1>3, <2>2
<1>4. ASSUME NEW a, NEW i \in 1 .. Len(epochs'), epochs'[i] = a
      PROVE  i + 1 \in 1 .. Len(epochs) /\ epochs[i + 1] = a /\ a # HeadEpoch
  <2>1. i + 1 \in 1 .. Len(epochs) /\ epochs[i + 1] = a /\ 1 \in 1 .. Len(epochs) /\ i + 1 # 1
    BY <1>1, <1>2, <1>4
  <2> QED BY <1>1, <2>1 DEF HeadEpoch, Distinct
<1>5. \A a : Live(a)' <=> Live(a) /\ a # HeadEpoch
  BY <1>3, <1>4 DEF Live
<1>6. ASSUME NEW a, NEW b, Before(a, b), a # HeadEpoch PROVE Before(a, b)'
  <2>1. PICK i \in 1 .. Len(epochs), j \in 1 .. Len(epochs) :
          i <= j /\ epochs[i] = a /\ epochs[j] = b
    BY <1>6 DEF Before
  <2>2. b # HeadEpoch
    BY <1>6, BeforeFacts
  <2>3. i - 1 \in 1 .. Len(epochs') /\ epochs'[i - 1] = a
    BY <1>3, <1>6, <2>1
  <2>4. j - 1 \in 1 .. Len(epochs') /\ epochs'[j - 1] = b
    BY <1>3, <2>1, <2>2
  <2>5. i - 1 <= j - 1
    BY <1>1, <2>1
  <2> QED BY <2>3, <2>4, <2>5 DEF Before
<1> QED BY <1>5, <1>6

(* A new current epoch is the youngest.                                     *)
LEMMA AddEpoch ==
  ASSUME ListTypeOK, NEW e \in Epochs, ~Live(e), epochs' = Append(epochs, e)
  PROVE  /\ \A a : Live(a)' <=> Live(a) \/ a = e
         /\ \A a, b : Before(a, b) => Before(a, b)'
         /\ HeadEpoch' = HeadEpoch
<1>1. /\ epochs \in Seq(Epochs) /\ epochs # <<>> /\ Len(epochs) \in Nat /\ Len(epochs) > 0
      /\ Distinct(epochs)
  BY ListTyping
<1>2. /\ Len(epochs') = Len(epochs) + 1
      /\ \A i \in 1 .. Len(epochs) : epochs'[i] = epochs[i]
      /\ epochs'[Len(epochs) + 1] = e
  BY <1>1, AppendTyping DEF Live
<1>3. \A i \in 1 .. Len(epochs) : i \in 1 .. Len(epochs')
  BY <1>1, <1>2
<1>4. \A i \in 1 .. Len(epochs') : i \in 1 .. Len(epochs) \/ i = Len(epochs) + 1
  BY <1>1, <1>2
<1>5. Len(epochs) + 1 \in 1 .. Len(epochs')
  BY <1>1, <1>2
<1>6. \A a : Live(a)' <=> Live(a) \/ a = e
  BY <1>2, <1>3, <1>4, <1>5 DEF Live
<1>7. \A a, b : Before(a, b) => Before(a, b)'
  BY <1>2, <1>3 DEF Before
<1>8. HeadEpoch' = HeadEpoch
  BY <1>1, <1>2 DEF HeadEpoch
<1> QED BY <1>6, <1>7, <1>8
-----------------------------------------------------------------------------
(* The counters *)

LEMMA MembersFinite ==
  ASSUME NEW e
  PROVE  /\ IsFiniteSet(Members(e)) /\ Cardinality(Members(e)) \in Nat
         /\ Cardinality(Members(e)) < MaxThreads
<1>1. Members(e) \subseteq Threads
  BY DEF Members
<1>2. /\ IsFiniteSet(Members(e)) /\ Cardinality(Members(e)) <= Cardinality(Threads)
      /\ Cardinality(Members(e)) \in Nat /\ Cardinality(Threads) \in Nat
  BY <1>1, ThreadAssumption, FS_Subset, FS_CardinalityType
<1> QED BY <1>2, ThreadAssumption

(* One thread more in an epoch, or one less.                                *)
LEMMA OneMore ==
  ASSUME NEW e, NEW t, t \notin Members(e), Members(e)' = Members(e) \cup {t}
  PROVE  Cardinality(Members(e)') = Cardinality(Members(e)) + 1
  BY MembersFinite, FS_AddElement

LEMMA OneLess ==
  ASSUME NEW e, NEW t, t \in Members(e), Members(e)' = Members(e) \ {t}
  PROVE  Cardinality(Members(e)') = Cardinality(Members(e)) - 1
  BY MembersFinite, FS_RemoveElement

(* The increment of JoinEpoch says whether the epoch is claimed.            *)
LEMMA FetchAddFacts ==
  ASSUME ~Reuse, TypeOK, CountInv, NEW t \in Threads, FetchAdd(t)
  PROVE  /\ joined[t] \in Epochs /\ pc[t] = "add" /\ Balanced(joined[t])
         /\ pc' = [pc EXCEPT ![t] = IF Claimed(joined[t]) THEN "undo" ELSE "in"]
         /\ count' = [count EXCEPT ![joined[t]] = @ + 1]
<1> DEFINE e == joined[t]
<1>1. e \in Epochs /\ pc[t] = "add"
  BY DEF FetchAdd, TypeOK, ThreadTypeOK
<1>2. Pointed(e)
  BY <1>1 DEF Pointed
<1>3. Balanced(e)
  BY <1>1, <1>2 DEF CountInv
<1>4. CountSeen(e) = {count[e]}
  BY DEF CountSeen
<1>5. /\ pc' = [pc EXCEPT ![t] = IF count[e] < 0 THEN "undo" ELSE "in"]
      /\ count' = [count EXCEPT ![e] = count[e] + 1]
  BY <1>4 DEF FetchAdd
<1>6. count[e] < 0 <=> Claimed(e)
  BY <1>3, MembersFinite, ThreadAssumption DEF Balanced
<1> QED BY <1>1, <1>3, <1>5, <1>6

LEMMA CountUnmoved ==
  ASSUME CountInv, UNCHANGED <<epochs, count, gpc>>,
         \A e \in Epochs : /\ Members(e)' = Members(e)
                           /\ Pointed(e)' => Pointed(e) \/ Live(e)
  PROVE  CountInv'
<1> SUFFICES ASSUME NEW e \in Epochs, (Live(e) \/ Pointed(e))' PROVE Balanced(e)'
  BY DEF CountInv
<1>1. Live(e)' = Live(e) /\ Claimed(e)' = Claimed(e)
  BY DEF Live, Claimed, HeadEpoch
<1>2. Balanced(e)
  BY <1>1 DEF CountInv
<1> QED BY <1>1, <1>2 DEF Balanced

(* A thread comes to an epoch or leaves it and moves the counter along.     *)
LEMMA CountMoved ==
  ASSUME CountInv, TypeOK, UNCHANGED <<epochs, gpc>>,
         NEW e \in Epochs, Live(e) \/ Pointed(e), NEW d \in {1, -1},
         count' = [count EXCEPT ![e] = @ + d],
         Cardinality(Members(e)') = Cardinality(Members(e)) + d,
         \A f \in Epochs \ {e} : /\ Members(f)' = Members(f)
                                 /\ Pointed(f)' => Pointed(f)
  PROVE  CountInv'
<1> SUFFICES ASSUME NEW f \in Epochs, (Live(f) \/ Pointed(f))' PROVE Balanced(f)'
  BY DEF CountInv
<1>1. Live(f)' = Live(f) /\ Claimed(f)' = Claimed(f)
  BY DEF Live, Claimed, HeadEpoch
<1>2. Balanced(f)
  BY <1>1 DEF CountInv
<1>3. count \in [Epochs -> Int] /\ Cardinality(Members(f)) \in Nat /\ MaxThreads \in Nat
  BY MembersFinite, ThreadAssumption DEF TypeOK, NodeTypeOK
<1>4. CASE f = e
  BY <1>1, <1>2, <1>3, <1>4 DEF Balanced
<1>5. CASE f # e
  BY <1>1, <1>2, <1>3, <1>5 DEF Balanced
<1> QED BY <1>4, <1>5

(* The cleaner's steps leave the threads where they are.                    *)
LEMMA CleanerMembers ==
  ASSUME UNCHANGED <<pc, joined>>, NEW e
  PROVE  Members(e)' = Members(e) /\ Pointed(e)' = Pointed(e)
  BY DEF Members, Counted, InTree, Pointed

LEMMA StepCountThread ==
  ASSUME ~Reuse, IInv, NEW t \in Threads, JoinStep(t) \/ LeaveEpoch(t)
  PROVE  CountInv'
<1>0. TypeOK /\ CountInv /\ JoinedEpochLive /\ Live(Current) /\ Current \in Epochs
      /\ pc \in [Threads -> {"out", "add", "undo", "in", "retire", "push"}]
  BY ListTyping DEF IInv, TypeOK, ThreadTypeOK
<1>1. CASE ReadCurrent(t)
  <2>1. \A e \in Epochs : Members(e)' = Members(e)
    BY <1>0, <1>1
    DEF ReadCurrent, Move, TypeOK, ThreadTypeOK, Members, Counted, InTree
  <2>2. \A e \in Epochs : Pointed(e)' => Pointed(e) \/ Live(e)
    BY <1>0, <1>1 DEF ReadCurrent, Move, TypeOK, ThreadTypeOK, Pointed
  <2> QED BY <1>0, <1>1, <2>1, <2>2, CountUnmoved DEF ReadCurrent, listVars
<1>2. CASE FetchAdd(t)
  <2>0. PICK e : e = joined[t]
    OBVIOUS
  <2>1. /\ e \in Epochs /\ pc[t] = "add"
        /\ pc' = [pc EXCEPT ![t] = IF Claimed(e) THEN "undo" ELSE "in"]
        /\ count' = [count EXCEPT ![e] = @ + 1]
        /\ UNCHANGED <<epochs, gpc, joined>>
    BY <1>0, <1>2, <2>0, FetchAddFacts DEF FetchAdd
  <2>2. t \notin Members(e) /\ Members(e)' = Members(e) \cup {t} /\ Pointed(e)
    BY <1>0, <2>0, <2>1 DEF Members, Counted, InTree, Pointed
  <2>3. \A f \in Epochs \ {e} : Members(f)' = Members(f) /\ (Pointed(f)' => Pointed(f))
    BY <1>0, <2>0, <2>1 DEF Members, Counted, InTree, Pointed
  <2>4. Cardinality(Members(e)') = Cardinality(Members(e)) + 1
    BY <2>2, OneMore
  <2> QED BY <1>0, <2>1, <2>2, <2>3, <2>4, CountMoved
<1>3. CASE UndoAdd(t) \/ LeaveEpoch(t)
  <2>0. PICK e : e = joined[t]
    OBVIOUS
  <2>1. /\ e \in Epochs /\ (pc[t] = "undo" \/ pc[t] = "in")
        /\ pc' = [pc EXCEPT ![t] = "out"]
        /\ count' = [count EXCEPT ![e] = @ + -1]
        /\ UNCHANGED <<epochs, gpc>>
        /\ joined' = [joined EXCEPT ![t] = None]
    BY <1>0, <1>3, <2>0 DEF UndoAdd, LeaveEpoch, Move, TypeOK, ThreadTypeOK, NodeTypeOK
  <2>2. pc'[t] = "out" /\ \A u \in Threads \ {t} : pc'[u] = pc[u] /\ joined'[u] = joined[u]
    BY <1>0, <2>0, <2>1 DEF TypeOK, ThreadTypeOK
  <2>3. t \in Members(e) /\ Members(e)' = Members(e) \ {t}
    BY <2>0, <2>1, <2>2 DEF Members, Counted, InTree
  <2>4. \A f \in Epochs \ {e} : Members(f)' = Members(f) /\ (Pointed(f)' => Pointed(f))
    BY <2>0, <2>1, <2>2 DEF Members, Counted, InTree, Pointed
  <2>5. Live(e) \/ Pointed(e)
    BY <1>0, <2>0, <2>1 DEF JoinedEpochLive, InTree, Pointed
  <2>6. Cardinality(Members(e)') = Cardinality(Members(e)) + -1
    BY <2>3, OneLess, MembersFinite
  <2> QED BY <1>0, <2>1, <2>4, <2>5, <2>6, CountMoved
<1> QED BY <1>1, <1>2, <1>3 DEF JoinStep

LEMMA StepCountCleaner ==
  ASSUME ~Reuse, IInv, Cleaner
  PROVE  CountInv'
<1>0. /\ TypeOK /\ CountInv /\ JoinedEpochLive /\ HeadEpoch \in Epochs /\ Live(HeadEpoch)
      /\ ListTypeOK /\ MaxThreads \in Nat /\ count \in [Epochs -> Int]
  BY ListTyping, ThreadAssumption DEF IInv, TypeOK, NodeTypeOK
<1>1. UNCHANGED <<pc, joined>>
  BY DEF Cleaner, TestHead, ClaimHead, UnclaimHead, FreeHead, CreateNewEpoch, threadVars, listVars
<1>2. \A e : /\ Members(e)' = Members(e) /\ Pointed(e)' = Pointed(e)
             /\ Cardinality(Members(e)) \in Nat
  BY <1>1, CleanerMembers, MembersFinite
<1> SUFFICES ASSUME NEW e \in Epochs, (Live(e) \/ Pointed(e))' PROVE Balanced(e)'
  BY DEF CountInv
<1>3. CASE TestHead
  <2>1. UNCHANGED <<epochs, count>>
    BY <1>3 DEF TestHead, listVars
  <2>2. Live(e)' = Live(e) /\ Claimed(e)' = Claimed(e)
    BY <1>3, <2>1 DEF TestHead, Live, Claimed, HeadEpoch
  <2> QED BY <1>0, <1>2, <2>1, <2>2 DEF CountInv, Balanced
<1>4. CASE ClaimHead \/ UnclaimHead
  <2>1. /\ UNCHANGED epochs /\ HeadEpoch' = HeadEpoch /\ Live(e)' = Live(e)
        /\ Balanced(e)
    BY <1>0, <1>2, <1>4 DEF ClaimHead, UnclaimHead, HeadEpoch, Live, CountInv
  <2>2. CASE ClaimHead /\ e = HeadEpoch
    <3>1. ~Claimed(e) /\ Claimed(e)' /\ count'[e] = count[e] - MaxThreads
      BY <1>0, <2>1, <2>2 DEF ClaimHead, Claimed
    <3> QED BY <1>0, <1>2, <2>1, <3>1 DEF Balanced
  <2>3. CASE UnclaimHead /\ e = HeadEpoch
    <3>1. Claimed(e) /\ ~Claimed(e)' /\ count'[e] = count[e] + MaxThreads
      BY <1>0, <2>1, <2>3 DEF UnclaimHead, Claimed
    <3> QED BY <1>0, <1>2, <2>1, <3>1 DEF Balanced
  <2>4. CASE e # HeadEpoch
    <3>1. Claimed(e)' = Claimed(e) /\ count'[e] = count[e]
      BY <1>0, <1>4, <2>1, <2>4 DEF ClaimHead, UnclaimHead, Claimed
    <3> QED BY <1>2, <2>1, <3>1 DEF Balanced
  <2> QED BY <1>4, <2>2, <2>3, <2>4
<1>5. CASE FreeHead
  <2>1. Len(epochs) > 1 /\ epochs' = Tail(epochs) /\ gpc = "free" /\ gpc' = "test" /\ UNCHANGED count
    BY <1>0, <1>5 DEF FreeHead, ListTypeOK
  <2>2. Live(e)' <=> Live(e) /\ e # HeadEpoch
    BY <1>0, <2>1, DropHead
  <2>3. Live(e) \/ Pointed(e)
    BY <1>2, <2>2
  <2>4. Claimed(e)' <=> Claimed(e)
    BY <2>1, <2>2 DEF Claimed
  <2> QED BY <1>0, <1>2, <2>1, <2>3, <2>4 DEF CountInv, Balanced
<1>6. CASE CreateNewEpoch
  <2>1. gpc = "create" /\ gpc' = "sleep"
    BY <1>6 DEF CreateNewEpoch
  <2>2. CASE UNCHANGED <<epochs, count>>
    <3>1. Live(e)' = Live(e) /\ Claimed(e)' = Claimed(e)
      BY <2>1, <2>2 DEF Live, Claimed, HeadEpoch
    <3> QED BY <1>0, <1>2, <2>2, <3>1 DEF CountInv, Balanced
  <2>3. ASSUME NEW d \in Epochs, Unused(d), epochs' = Append(epochs, d),
               count' = [count EXCEPT ![d] = 0]
        PROVE  Balanced(e)'
    <3>1. ~Live(d) /\ ~Pointed(d)
      BY <2>3 DEF Unused, Pointed
    <3>2. Live(e)' <=> Live(e) \/ e = d
      BY <1>0, <2>3, <3>1, AddEpoch
    <3>3. ~Claimed(e)' <=> Live(e) \/ e = d
      BY <2>1, <3>2 DEF Claimed
    <3>4. CASE e = d
      <4>1. Members(e) = {}
        BY <1>0, <3>1, <3>4 DEF Members, Counted, JoinedEpochLive, Pointed
      <4>2. Cardinality(Members(e)') = 0
        BY <1>2, <4>1, FS_EmptySet
      <4>3. count'[e] = 0 /\ ~Claimed(e)'
        BY <1>0, <2>3, <3>3, <3>4
      <4> QED BY <4>2, <4>3 DEF Balanced
    <3>5. CASE e # d
      <4>1. Claimed(e)' <=> Claimed(e)
        BY <2>1, <3>3, <3>5 DEF Claimed
      <4>2. Live(e) \/ Pointed(e)
        BY <1>2, <3>2, <3>5
      <4> QED BY <1>0, <1>2, <2>3, <3>5, <4>1, <4>2 DEF CountInv, Balanced
    <3> QED BY <3>4, <3>5
  <2> QED BY <1>6, <2>2, <2>3 DEF CreateNewEpoch
<1> QED BY <1>3, <1>4, <1>5, <1>6 DEF Cleaner

LEMMA StepCount == ~Reuse /\ IInv /\ [Next]_vars => CountInv'
<1> SUFFICES ASSUME ~Reuse, IInv, [Next]_vars PROVE CountInv'
  OBVIOUS
<1>1. ASSUME UNCHANGED <<epochs, count, gpc, joined>>,
             \A t \in Threads : /\ InTree(t)' = InTree(t) /\ (pc'[t] = "undo" <=> pc[t] = "undo")
                                /\ (pc'[t] = "add" <=> pc[t] = "add")
      PROVE  CountInv'
  <2>1. \A e \in Epochs : Members(e)' = Members(e) /\ Pointed(e)' = Pointed(e)
    BY <1>1 DEF Members, Counted, Pointed
  <2> QED BY <1>1, <2>1, CountUnmoved DEF IInv
<1>2. ASSUME NEW t \in Threads, ReadTarget(t) \/ PushGarbage(t) PROVE CountInv'
  BY <1>1, <1>2 DEF ReadTarget, PushGarbage, Move, InTree, listVars, IInv, TypeOK, ThreadTypeOK
<1>3. ASSUME NEW t \in Threads, NEW n \in Nodes, Reach(t, n) \/ InstallNewNode(t, n)
      PROVE  CountInv'
  BY <1>1, <1>3 DEF Reach, InstallNewNode, InTree, listVars, threadVars
<1>4. ASSUME NEW t \in Threads, NEW n \in Nodes, NEW m \in Nodes, ConsolidateNode(t, n, m)
      PROVE  CountInv'
  BY <1>1, <1>4 DEF ConsolidateNode, Move, InTree, listVars, IInv, TypeOK, ThreadTypeOK
<1>5. CASE UNCHANGED vars
  BY <1>1, <1>5 DEF vars, listVars, threadVars, InTree
<1> QED
  BY <1>2, <1>3, <1>4, <1>5, StepCountThread, StepCountCleaner DEF Next, JoinStep, Cleaner
-----------------------------------------------------------------------------
(* Which threads are in which epoch *)

(* Only JoinEpoch brings a thread into the tree, and it stays in its epoch. *)
LEMMA ThreadSteps ==
  ASSUME ~Reuse, IInv, [Next]_vars
  PROVE  \/ \E t \in Threads : /\ FetchAdd(t) /\ UNCHANGED <<epochs, gpc>>
                               /\ InTree(t)' => ~Claimed(joined[t])
                               /\ joined'[t] = joined[t]
                               /\ \A u \in Threads \ {t} : pc'[u] = pc[u] /\ joined'[u] = joined[u]
         \/ \A t \in Threads : InTree(t)' => InTree(t) /\ joined'[t] = joined[t]
<1>0. TypeOK /\ ThreadTypeOK /\ CountInv
  BY DEF IInv, TypeOK
<1> USE DEF InTree
<1>1. ASSUME NEW t \in Threads, FetchAdd(t)
      PROVE  /\ UNCHANGED <<epochs, gpc>> /\ joined'[t] = joined[t]
             /\ InTree(t)' => ~Claimed(joined[t])
             /\ \A u \in Threads \ {t} : pc'[u] = pc[u] /\ joined'[u] = joined[u]
  <2>1. pc' = [pc EXCEPT ![t] = IF Claimed(joined[t]) THEN "undo" ELSE "in"]
    BY <1>0, <1>1, FetchAddFacts
  <2> QED BY <1>0, <1>1, <2>1 DEF FetchAdd, ThreadTypeOK
<1>2. ASSUME NEW t \in Threads, ReadCurrent(t) \/ UndoAdd(t) \/ LeaveEpoch(t)
      PROVE  \A u \in Threads : InTree(u)' => InTree(u) /\ joined'[u] = joined[u]
  BY <1>0, <1>2 DEF ReadCurrent, UndoAdd, LeaveEpoch, Move, ThreadTypeOK
<1>3. ASSUME NEW t \in Threads, ReadTarget(t) \/ PushGarbage(t)
      PROVE  \A u \in Threads : InTree(u)' => InTree(u) /\ joined'[u] = joined[u]
  BY <1>0, <1>3 DEF ReadTarget, PushGarbage, Move, ThreadTypeOK
<1>4. ASSUME NEW t \in Threads, NEW n \in Nodes, Reach(t, n) \/ InstallNewNode(t, n)
      PROVE  \A u \in Threads : InTree(u)' => InTree(u) /\ joined'[u] = joined[u]
  BY <1>4 DEF Reach, InstallNewNode, threadVars
<1>5. ASSUME NEW t \in Threads, NEW n \in Nodes, NEW m \in Nodes, ConsolidateNode(t, n, m)
      PROVE  \A u \in Threads : InTree(u)' => InTree(u) /\ joined'[u] = joined[u]
  BY <1>0, <1>5 DEF ConsolidateNode, Move, ThreadTypeOK
<1>6. CASE Cleaner \/ UNCHANGED vars
  <2>1. UNCHANGED <<pc, joined>>
    BY <1>6 DEF Cleaner, TestHead, ClaimHead, UnclaimHead, FreeHead, CreateNewEpoch,
                threadVars, vars
  <2> QED BY <2>1
<1>7. \/ \E t \in Threads : FetchAdd(t)
      \/ \A u \in Threads : InTree(u)' => InTree(u) /\ joined'[u] = joined[u]
  BY <1>2, <1>3, <1>4, <1>5, <1>6, Zenon DEF Next, JoinStep, Cleaner
<1> QED BY <1>1, <1>7, Zenon

(* How the list and the cleaner move.                                       *)
LEMMA ListSteps ==
  ASSUME ListTypeOK, [Next]_vars
  PROVE  \/ UNCHANGED epochs /\ (gpc' = "free" => gpc = "free" \/ ClaimHead)
         \/ /\ FreeHead /\ gpc = "free" /\ gpc' = "test"
            /\ Len(epochs) > 1 /\ epochs' = Tail(epochs)
         \/ /\ CreateNewEpoch /\ gpc' = "sleep"
            /\ \E e \in Epochs : Unused(e) /\ epochs' = Append(epochs, e)
<1>1. CASE FreeHead
  BY <1>1 DEF FreeHead, ListTypeOK
<1>2. CASE CreateNewEpoch
  BY <1>2 DEF CreateNewEpoch
<1>3. CASE TestHead \/ ClaimHead \/ UnclaimHead \/ UNCHANGED vars
  BY <1>3 DEF TestHead, ClaimHead, UnclaimHead, vars, listVars
<1>4. ASSUME NEW t \in Threads, JoinStep(t) \/ ReadTarget(t) \/ PushGarbage(t) \/ LeaveEpoch(t)
      PROVE  UNCHANGED <<epochs, gpc>>
  BY <1>4 DEF JoinStep, ReadCurrent, FetchAdd, UndoAdd, ReadTarget, PushGarbage, LeaveEpoch, listVars
<1>5. ASSUME NEW t \in Threads, NEW n \in Nodes, NEW m \in Nodes,
             Reach(t, n) \/ InstallNewNode(t, n) \/ ConsolidateNode(t, n, m)
      PROVE  UNCHANGED <<epochs, gpc>>
  BY <1>5 DEF Reach, InstallNewNode, ConsolidateNode, listVars
<1> QED BY <1>1, <1>2, <1>3, <1>4, <1>5 DEF Next

LEMMA StepJoined == ~Reuse /\ IInv /\ [Next]_vars => JoinedEpochLive'
<1> SUFFICES ASSUME ~Reuse, IInv, [Next]_vars, NEW t \in Threads, InTree(t)'
             PROVE  Live(joined[t])'
  BY DEF JoinedEpochLive
<1>0. ListTypeOK /\ JoinedEpochLive /\ HeadFree
  BY DEF IInv, TypeOK
<1>1. Live(joined[t]) /\ joined'[t] = joined[t] /\ (FreeHead => joined[t] # HeadEpoch)
  <2>1. CASE InTree(t) /\ joined'[t] = joined[t]
    BY <1>0, <2>1 DEF JoinedEpochLive, HeadFree, FreeHead
  <2>2. ASSUME NEW u \in Threads, FetchAdd(u), UNCHANGED <<epochs, gpc>>, InTree(u)' => ~Claimed(joined[u]),
               joined'[u] = joined[u], u = t
        PROVE  Live(joined[t]) /\ joined'[t] = joined[t] /\ ~FreeHead
    BY <2>2 DEF Claimed, FreeHead
  <2> QED BY <2>1, <2>2, ThreadSteps DEF InTree
<1>2. PICK e : e = joined[t]
  OBVIOUS
<1>3. Live(e) => Live(e)' \/ (FreeHead /\ e = HeadEpoch)
  <2>1. CASE UNCHANGED epochs
    BY <2>1 DEF Live
  <2>2. CASE FreeHead /\ Len(epochs) > 1 /\ epochs' = Tail(epochs)
    BY <1>0, <2>2, DropHead
  <2>3. ASSUME NEW d \in Epochs, Unused(d), epochs' = Append(epochs, d) PROVE Live(e) => Live(e)'
    BY <1>0, <2>3, AddEpoch DEF Unused
  <2> QED BY <1>0, <2>1, <2>2, <2>3, ListSteps
<1>4. Live(e)'
  BY <1>1, <1>2, <1>3
<1> QED BY <1>1, <1>2, <1>4 DEF Live

LEMMA StepHeadFree == ~Reuse /\ IInv /\ [Next]_vars => HeadFree'
<1> SUFFICES ASSUME ~Reuse, IInv, [Next]_vars, gpc' = "free", NEW t \in Threads, InTree(t)'
             PROVE  joined'[t] # HeadEpoch'
  BY DEF HeadFree
<1>0. /\ ListTypeOK /\ TypeOK /\ CountInv /\ HeadFree /\ HeadEpoch \in Epochs /\ Live(HeadEpoch)
      /\ count \in [Epochs -> Int] /\ MaxThreads \in Nat
  BY ListTyping, ThreadAssumption DEF IInv, TypeOK, NodeTypeOK
<1>1. UNCHANGED epochs /\ (gpc = "free" \/ ClaimHead)
  BY <1>0, ListSteps
<1>2. HeadEpoch' = HeadEpoch
  BY <1>1 DEF HeadEpoch
<1>3. CASE ClaimHead
  <2>1. UNCHANGED <<pc, joined>> /\ ~(count[HeadEpoch] > 0) /\ gpc = "claim"
    BY <1>3 DEF ClaimHead, threadVars
  <2>2. Balanced(HeadEpoch) /\ ~Claimed(HeadEpoch)
    BY <1>0, <2>1 DEF CountInv, Claimed
  <2>3. Cardinality(Members(HeadEpoch)) = 0
    BY <2>1, <2>2, <1>0, MembersFinite DEF Balanced
  <2>4. Members(HeadEpoch) = {}
    BY <2>3, MembersFinite, FS_EmptySet
  <2> QED BY <1>2, <2>1, <2>4 DEF Members, Counted, InTree
<1>4. CASE gpc = "free"
  <2>1. CASE InTree(t) /\ joined'[t] = joined[t]
    BY <1>0, <1>2, <1>4, <2>1 DEF HeadFree
  <2>2. ASSUME InTree(t)' => ~Claimed(joined[t]), joined'[t] = joined[t]
        PROVE  joined'[t] # HeadEpoch'
    BY <1>2, <1>4, <2>2 DEF Claimed
  <2> QED BY <2>1, <2>2, ThreadSteps DEF InTree
<1> QED BY <1>1, <1>3, <1>4
-----------------------------------------------------------------------------
(* What threads hold *)

LEMMA BeforeSteps ==
  ASSUME ListTypeOK, [Next]_vars, NEW a, NEW b, Before(a, b), FreeHead => a # HeadEpoch
  PROVE  Before(a, b)'
<1>1. CASE UNCHANGED epochs
  BY <1>1 DEF Before
<1>2. CASE FreeHead /\ Len(epochs) > 1 /\ epochs' = Tail(epochs)
  BY <1>2, DropHead
<1>3. ASSUME NEW d \in Epochs, Unused(d), epochs' = Append(epochs, d) PROVE Before(a, b)'
  BY <1>3, AddEpoch DEF Unused
<1> QED BY <1>1, <1>2, <1>3, ListSteps

(* A thread that holds a node is in the tree, and a node it comes to hold   *)
(* was linked, or was free and is not any more.                             *)
LEMMA HoldsSteps ==
  ASSUME IInv, [Next]_vars, NEW t \in Threads, NEW n \in holds'[t]
  PROVE  /\ InTree(t) /\ InTree(t)' /\ joined'[t] = joined[t]
         /\ n \in holds[t] \/ (n \in linked \cup freed /\ n \notin freed')
<1>0. /\ ThreadTypeOK /\ NodeTypeOK /\ linked \cap freed = {}
      /\ \A u \in Threads : ~InTree(u) => holds[u] = {}
      /\ \A m \in holds[t] : InTree(t)
  BY DEF IInv, TypeOK, HoldsInv, FateInv, NodeFate
<1> USE DEF InTree
<1>1. ASSUME NEW u \in Threads, JoinStep(u)
      PROVE  n \in holds[t] /\ InTree(t)' /\ joined'[t] = joined[t]
  <2>1. holds' = holds /\ ~InTree(u) /\ \A v \in Threads \ {u} : pc'[v] = pc[v] /\ joined'[v] = joined[v]
    BY <1>0, <1>1 DEF JoinStep, ReadCurrent, FetchAdd, UndoAdd, Move, ThreadTypeOK
  <2> QED BY <1>0, <2>1
<1>2. ASSUME NEW u \in Threads, ReadTarget(u) \/ PushGarbage(u)
      PROVE  n \in holds[t] /\ InTree(t)' /\ joined'[t] = joined[t]
  BY <1>0, <1>2 DEF ReadTarget, PushGarbage, Move, ThreadTypeOK
<1>3. ASSUME NEW u \in Threads, LeaveEpoch(u)
      PROVE  n \in holds[t] /\ InTree(t)' /\ joined'[t] = joined[t]
  BY <1>0, <1>3 DEF LeaveEpoch, Move, ThreadTypeOK, NodeTypeOK
<1>4. ASSUME NEW u \in Threads, NEW m \in Nodes, Reach(u, m)
      PROVE  /\ InTree(t) /\ InTree(t)' /\ joined'[t] = joined[t]
             /\ n \in holds[t] \/ (n \in linked \cup freed /\ n \notin freed')
  BY <1>0, <1>4 DEF Reach, NodeTypeOK
<1>5. ASSUME NEW u \in Threads, NEW m \in Nodes, InstallNewNode(u, m)
      PROVE  n \in holds[t] /\ InTree(t)' /\ joined'[t] = joined[t]
  BY <1>0, <1>5 DEF InstallNewNode, threadVars
<1>6. ASSUME NEW u \in Threads, NEW k \in Nodes, NEW m \in Nodes, ConsolidateNode(u, k, m)
      PROVE  /\ InTree(t) /\ InTree(t)' /\ joined'[t] = joined[t]
             /\ n \in holds[t] \/ (n \in linked \cup freed /\ n \notin freed')
  <2>1. /\ pc[u] = "in" /\ pc' = [pc EXCEPT ![u] = "retire"] /\ m \in freed
        /\ freed' = freed \ {m} /\ joined' = joined
        /\ holds' = holds \/ holds' = [holds EXCEPT ![u] = @ \cup {m}]
    BY <1>6 DEF ConsolidateNode, Move
  <2> QED BY <1>0, <2>1 DEF ThreadTypeOK, NodeTypeOK
<1>7. CASE Cleaner \/ UNCHANGED vars
  <2>1. UNCHANGED <<pc, joined, holds>>
    BY <1>7 DEF Cleaner, TestHead, ClaimHead, UnclaimHead, FreeHead, CreateNewEpoch,
                threadVars, vars
  <2> QED BY <1>0, <2>1
<1>8. n \in holds[t] => InTree(t)
  BY <1>0
<1>9. CASE Next
  BY <1>1, <1>2, <1>3, <1>4, <1>5, <1>6, <1>7, <1>8, <1>9, Zenon DEF Next, Cleaner
<1> QED BY <1>7, <1>8, <1>9

LEMMA GarbageSteps ==
  ASSUME IInv, [Next]_vars, NEW e \in Epochs, NEW n \in garbage'[e]
  PROVE  \/ n \in garbage[e]
         \/ \E u \in Threads : pc[u] = "push" /\ n = victim[u] /\ e = target[u]
<1>0. garbage \in [Epochs -> SUBSET Nodes] /\ HeadEpoch \in Epochs
  BY ListTyping DEF IInv, TypeOK, NodeTypeOK
<1>1. ASSUME NEW u \in Threads, PushGarbage(u)
      PROVE  n \in garbage[e] \/ (pc[u] = "push" /\ n = victim[u] /\ e = target[u])
  BY <1>0, <1>1 DEF PushGarbage, Move
<1>2. CASE FreeHead
  BY <1>0, <1>2 DEF FreeHead
<1>3. CASE UNCHANGED garbage
  BY <1>3
<1> QED
  BY <1>1, <1>2, <1>3
  DEF Next, JoinStep, ReadCurrent, FetchAdd, UndoAdd, ReadTarget, LeaveEpoch, Reach, InstallNewNode,
      ConsolidateNode, TestHead, ClaimHead, UnclaimHead, CreateNewEpoch, vars, listVars

LEMMA PushSteps ==
  ASSUME IInv, [Next]_vars, NEW u \in Threads, pc'[u] = "push"
  PROVE  /\ Retiring(u) /\ InTree(u) /\ joined'[u] = joined[u] /\ victim'[u] = victim[u]
         /\ \/ pc[u] = "push" /\ target'[u] = target[u]
            \/ target'[u] = Current /\ UNCHANGED epochs
<1>0. ThreadTypeOK
  BY DEF IInv, TypeOK
<1> USE DEF Retiring, InTree
<1>1. ASSUME NEW t \in Threads, JoinStep(t) \/ LeaveEpoch(t) \/ PushGarbage(t)
      PROVE  pc[u] = "push" /\ joined'[u] = joined[u] /\ victim'[u] = victim[u] /\ target'[u] = target[u]
  BY <1>0, <1>1
  DEF JoinStep, ReadCurrent, FetchAdd, UndoAdd, LeaveEpoch, PushGarbage, Move, ThreadTypeOK
<1>2. ASSUME NEW t \in Threads, ReadTarget(t)
      PROVE  /\ Retiring(u) /\ joined'[u] = joined[u] /\ victim'[u] = victim[u]
             /\ \/ pc[u] = "push" /\ target'[u] = target[u]
                \/ target'[u] = Current /\ UNCHANGED epochs
  BY <1>0, <1>2 DEF ReadTarget, GarbageEpoch, Move, ThreadTypeOK, listVars
<1>3. ASSUME NEW t \in Threads, NEW n \in Nodes, Reach(t, n) \/ InstallNewNode(t, n)
      PROVE  pc[u] = "push" /\ joined'[u] = joined[u] /\ victim'[u] = victim[u] /\ target'[u] = target[u]
  BY <1>3 DEF Reach, InstallNewNode, threadVars
<1>4. ASSUME NEW t \in Threads, NEW n \in Nodes, NEW m \in Nodes, ConsolidateNode(t, n, m)
      PROVE  pc[u] = "push" /\ joined'[u] = joined[u] /\ victim'[u] = victim[u] /\ target'[u] = target[u]
  BY <1>0, <1>4 DEF ConsolidateNode, Move, ThreadTypeOK
<1>5. CASE Cleaner \/ UNCHANGED vars
  BY <1>5
  DEF Cleaner, TestHead, ClaimHead, UnclaimHead, FreeHead, CreateNewEpoch, threadVars, vars
<1>6. CASE Next
  BY <1>1, <1>2, <1>3, <1>4, <1>5, <1>6, Zenon DEF Next, Cleaner
<1> QED BY <1>5, <1>6

LEMMA FreedSteps ==
  ASSUME [Next]_vars, NEW n \in freed'
  PROVE  n \in freed \/ (FreeHead /\ n \in garbage[HeadEpoch])
<1>1. CASE UNCHANGED freed
  BY <1>1
<1> QED
  BY <1>1
  DEF Next, JoinStep, ReadCurrent, FetchAdd, UndoAdd, ReadTarget, PushGarbage, LeaveEpoch, Reach,
      InstallNewNode, ConsolidateNode, TestHead, ClaimHead, UnclaimHead, FreeHead, CreateNewEpoch, vars

LEMMA StepHolds == ~Reuse /\ IInv /\ [Next]_vars => HoldsInv'
<1> SUFFICES ASSUME ~Reuse, IInv, [Next]_vars PROVE HoldsInv'
  OBVIOUS
<1>0. ListTypeOK /\ HoldsInv /\ TargetInv /\ HeadFree /\ GarbageFate /\ VictimFate
  BY DEF IInv, TypeOK, FateInv
<1>1. ASSUME NEW t \in Threads, ~InTree(t)' PROVE holds'[t] = {}
  BY <1>1, HoldsSteps
<1>2. ASSUME NEW t \in Threads, NEW e \in Epochs, NEW n \in holds'[t] \cap garbage'[e]
      PROVE  Before(joined[t], e)'
  <2>1. /\ InTree(t) /\ joined'[t] = joined[t]
        /\ n \in holds[t] \/ n \in linked \cup freed
    BY HoldsSteps
  <2>2. Before(joined[t], e)
    <3>1. CASE n \in garbage[e]
      BY <1>0, <2>1, <3>1 DEF HoldsInv, GarbageFate
    <3>2. ASSUME NEW u \in Threads, pc[u] = "push", n = victim[u], e = target[u]
          PROVE  Before(joined[t], e)
      BY <1>0, <2>1, <3>2 DEF TargetInv, VictimFate, Retiring
    <3> QED BY <3>1, <3>2, GarbageSteps
  <2>3. FreeHead => joined[t] # HeadEpoch
    BY <1>0, <2>1 DEF HeadFree, FreeHead
  <2>4. PICK a : a = joined[t]
    OBVIOUS
  <2>5. Before(a, e)'
    BY <1>0, <2>2, <2>3, <2>4, BeforeSteps
  <2> QED BY <2>1, <2>4, <2>5
<1> QED BY <1>1, <1>2 DEF HoldsInv

LEMMA StepTarget == ~Reuse /\ IInv /\ [Next]_vars => TargetInv'
<1> SUFFICES ASSUME ~Reuse, IInv, [Next]_vars, NEW t \in Threads, NEW u \in Threads,
                    pc'[u] = "push", t = u \/ victim'[u] \in holds'[t]
             PROVE  Before(joined[t], target[u])'
  BY DEF TargetInv
<1>0. ListTypeOK /\ TargetInv /\ HeadFree /\ VictimFate /\ JoinedEpochLive
  BY DEF IInv, TypeOK, FateInv
<1>1. /\ Retiring(u) /\ InTree(u) /\ joined'[u] = joined[u] /\ victim'[u] = victim[u]
      /\ \/ pc[u] = "push" /\ target'[u] = target[u]
         \/ target'[u] = Current /\ UNCHANGED epochs
  BY PushSteps
<1>2. InTree(t) /\ joined'[t] = joined[t] /\ (t = u \/ victim[u] \in holds[t])
  <2>1. CASE t = u
    BY <1>1, <2>1
  <2>2. CASE victim'[u] \in holds'[t]
    BY <1>0, <1>1, <2>2, HoldsSteps DEF VictimFate
  <2> QED BY <2>1, <2>2
<1>3. FreeHead => joined[t] # HeadEpoch
  BY <1>0, <1>2 DEF HeadFree, FreeHead
<1>4. PICK a : a = joined[t]
  OBVIOUS
<1>5. PICK b : b = target'[u]
  OBVIOUS
<1>6. Before(a, b)
  <2>1. CASE pc[u] = "push" /\ target'[u] = target[u]
    BY <1>0, <1>2, <1>4, <1>5, <2>1 DEF TargetInv
  <2>2. CASE target'[u] = Current
    BY <1>0, <1>2, <1>4, <1>5, <2>2, BeforeFacts DEF JoinedEpochLive
  <2> QED BY <1>1, <2>1, <2>2
<1>7. Before(a, b)'
  BY <1>0, <1>3, <1>4, <1>6, BeforeSteps
<1> QED BY <1>2, <1>4, <1>5, <1>7

LEMMA StepNoUse == ~Reuse /\ IInv /\ [Next]_vars => NoUseAfterFree'
<1> SUFFICES ASSUME ~Reuse, IInv, [Next]_vars, NEW t \in Threads, NEW n \in holds'[t], n \in freed'
             PROVE  FALSE
  BY DEF NoUseAfterFree
<1>0. ListTypeOK /\ HoldsInv /\ HeadFree /\ NoUseAfterFree /\ HeadEpoch \in Epochs
  BY ListTyping DEF IInv, TypeOK
<1>1. InTree(t) /\ n \in holds[t]
  BY HoldsSteps
<1>2. FreeHead /\ n \in garbage[HeadEpoch]
  BY <1>0, <1>1, FreedSteps DEF NoUseAfterFree
<1>3. Before(joined[t], HeadEpoch)
  BY <1>0, <1>1, <1>2 DEF HoldsInv
<1>4. joined[t] = HeadEpoch
  BY <1>0, <1>3, BeforeFacts
<1> QED BY <1>0, <1>1, <1>2, <1>4 DEF HeadFree, FreeHead
-----------------------------------------------------------------------------
(* One fate for every node *)

LEMMA FateUnmoved ==
  ASSUME FateInv, UNCHANGED <<garbage, linked, freed>>,
         \A t \in Threads : /\ Retiring(t)' = Retiring(t)
                            /\ Retiring(t) => victim'[t] = victim[t]
  PROVE  FateInv'
<1>1. Retired' = Retired
  BY DEF Retired, Retiring
<1> QED BY <1>1 DEF FateInv, GarbageFate, VictimFate, NodeFate

LEMMA RetiredIs ==
  ASSUME NEW n
  PROVE  n \in Retired <=> \/ \E e \in Epochs : n \in garbage[e]
                           \/ \E t \in Threads : Retiring(t) /\ n = victim[t]
  BY DEF Retired, Retiring

LEMMA StepFate == IInv /\ [Next]_vars => FateInv'
<1> SUFFICES ASSUME IInv, [Next]_vars PROVE FateInv'
  OBVIOUS
<1>0. /\ FateInv /\ GarbageFate /\ VictimFate /\ NodeFate /\ ThreadTypeOK /\ NodeTypeOK
      /\ HeadEpoch \in Epochs
  BY ListTyping DEF IInv, TypeOK, FateInv
<1>1. ASSUME NEW t \in Threads, JoinStep(t) \/ ReadTarget(t) \/ LeaveEpoch(t) PROVE FateInv'
  <2>1. UNCHANGED <<garbage, linked, freed>>
    BY <1>1 DEF JoinStep, ReadCurrent, FetchAdd, UndoAdd, ReadTarget, LeaveEpoch, listVars
  <2>2. \A u \in Threads : Retiring(u)' = Retiring(u) /\ victim'[u] = victim[u]
    BY <1>0, <1>1
    DEF JoinStep, ReadCurrent, FetchAdd, UndoAdd, ReadTarget, LeaveEpoch, Move, Retiring, ThreadTypeOK
  <2> QED BY <1>0, <2>1, <2>2, FateUnmoved
<1>2. ASSUME NEW t \in Threads, NEW n \in Nodes, Reach(t, n) PROVE FateInv'
  BY <1>0, <1>2, FateUnmoved DEF Reach, Retiring, listVars
<1>3. CASE TestHead \/ ClaimHead \/ UnclaimHead \/ CreateNewEpoch \/ UNCHANGED vars
  <2>1. UNCHANGED <<garbage, linked, freed, pc, victim>>
    BY <1>3 DEF TestHead, ClaimHead, UnclaimHead, CreateNewEpoch, listVars, threadVars, vars
  <2> QED BY <1>0, <2>1, FateUnmoved DEF Retiring
<1>4. ASSUME NEW t \in Threads, NEW n \in Nodes, InstallNewNode(t, n) PROVE FateInv'
  <2>1. /\ n \in freed /\ linked' = linked \cup {n} /\ freed' = freed \ {n}
        /\ UNCHANGED <<garbage, pc, victim>>
    BY <1>4 DEF InstallNewNode, listVars, threadVars
  <2>2. Retired' = Retired
    BY <2>1 DEF Retired
  <2>3. GarbageFate'
    BY <1>0, <2>1 DEF GarbageFate
  <2>4. VictimFate'
    BY <1>0, <2>1 DEF VictimFate, Retiring
  <2>5. NodeFate'
    BY <1>0, <2>1, <2>2 DEF NodeFate
  <2> QED BY <2>3, <2>4, <2>5 DEF FateInv
<1>5. ASSUME NEW t \in Threads, NEW n \in Nodes, NEW m \in Nodes, ConsolidateNode(t, n, m)
      PROVE  FateInv'
  <2>1. /\ pc[t] = "in" /\ pc' = [pc EXCEPT ![t] = "retire"] /\ m \in freed
        /\ freed' = freed \ {m} /\ UNCHANGED garbage
        /\ \/ n \in linked /\ linked' = (linked \ {n}) \cup {m} /\ victim' = [victim EXCEPT ![t] = n]
           \/ linked' = linked /\ victim' = [victim EXCEPT ![t] = m]
    BY <1>5 DEF ConsolidateNode, Move, listVars
  <2>2. GarbageFate'
    BY <1>0, <2>1 DEF GarbageFate
  <2>3. \A u \in Threads \ {t} : Retiring(u)' = Retiring(u) /\ victim'[u] = victim[u]
    BY <1>0, <2>1 DEF Retiring, ThreadTypeOK
  <2>4. /\ ~Retiring(t) /\ Retiring(t)'
        /\ \/ n \in linked /\ linked' = (linked \ {n}) \cup {m} /\ victim'[t] = n
           \/ linked' = linked /\ victim'[t] = m
    <3>1. pc'[t] = "retire" /\ t \in DOMAIN victim
      BY <1>0, <2>1 DEF ThreadTypeOK
    <3>2. ~Retiring(t) /\ Retiring(t)'
      BY <2>1, <3>1 DEF Retiring
    <3>3. CASE victim' = [victim EXCEPT ![t] = n]
      BY <2>1, <3>1, <3>2, <3>3
    <3>4. CASE victim' = [victim EXCEPT ![t] = m]
      BY <2>1, <3>1, <3>2, <3>4
    <3> QED BY <2>1, <3>2, <3>3, <3>4
  <2>5. victim'[t] \in linked \cup freed /\ victim'[t] \notin linked' \cup freed'
    BY <1>0, <2>1, <2>4 DEF NodeFate
  <2>6. VictimFate'
    <3>1. ASSUME NEW u \in Threads, Retiring(u)'
          PROVE  /\ victim'[u] \notin linked' \cup freed'
                 /\ \A e \in Epochs : victim'[u] \notin garbage'[e]
      <4>1. CASE u = t
        BY <1>0, <2>1, <2>5, <4>1 DEF GarbageFate
      <4>2. CASE u # t
        BY <1>0, <2>1, <2>3, <3>1, <4>2 DEF VictimFate
      <4> QED BY <4>1, <4>2
    <3>2. ASSUME NEW u \in Threads, NEW v \in Threads, u # v, Retiring(u)', Retiring(v)'
          PROVE  victim'[u] # victim'[v]
      BY <1>0, <2>3, <2>5, <3>2 DEF VictimFate
    <3> QED BY <3>1, <3>2 DEF VictimFate
  <2>7. ASSUME NEW k PROVE (k \in Retired)' <=> k \in Retired \/ k = victim'[t]
    BY <2>1, <2>3, <2>4, RetiredIs DEF Retired, Retiring
  <2>8. NodeFate'
    <3>1. (linked \cup freed \cup Retired)' = linked \cup freed \cup Retired
      BY <2>1, <2>4, <2>7
    <3> QED BY <1>0, <2>1, <3>1 DEF NodeFate
  <2> QED BY <2>2, <2>6, <2>8 DEF FateInv
<1>6. ASSUME NEW t \in Threads, PushGarbage(t) PROVE FateInv'
  <2> DEFINE n == victim[t]
             e == target[t]
  <2>1. /\ Retiring(t) /\ e \in Epochs /\ ~Retiring(t)'
        /\ garbage' = [garbage EXCEPT ![e] = @ \cup {n}]
        /\ UNCHANGED <<linked, freed>>
        /\ \A u \in Threads \ {t} : Retiring(u)' = Retiring(u) /\ victim'[u] = victim[u]
    BY <1>0, <1>6 DEF PushGarbage, Move, Retiring, ThreadTypeOK
  <2>2. \A f \in Epochs : garbage'[f] = IF f = e THEN garbage[f] \cup {n} ELSE garbage[f]
    BY <1>0, <2>1 DEF NodeTypeOK
  <2> HIDE DEF n, e
  <2>3. n \notin linked \cup freed /\ \A f \in Epochs : n \notin garbage[f]
    BY <1>0, <2>1 DEF VictimFate, n
  <2>4. GarbageFate'
    BY <1>0, <2>1, <2>2, <2>3 DEF GarbageFate
  <2>5. VictimFate'
    BY <1>0, <2>1, <2>2 DEF VictimFate, n
  <2>6. ASSUME NEW k PROVE (k \in Retired)' <=> k \in Retired
    <3>1. (k \in Retired)' <=> \/ \E f \in Epochs : k \in garbage'[f]
                               \/ \E u \in Threads \ {t} : Retiring(u) /\ k = victim[u]
      BY <2>1 DEF Retired, Retiring
    <3>2. (\E f \in Epochs : k \in garbage'[f]) <=> k = n \/ \E f \in Epochs : k \in garbage[f]
      BY <2>1, <2>2
    <3> QED BY <2>1, <3>1, <3>2, RetiredIs DEF n
  <2>7. NodeFate'
    BY <1>0, <2>1, <2>6 DEF NodeFate
  <2> QED BY <2>4, <2>5, <2>7 DEF FateInv
<1>7. CASE FreeHead
  <2> DEFINE h == HeadEpoch
  <2>1. /\ freed' = freed \cup garbage[h] /\ garbage' = [garbage EXCEPT ![h] = {}]
        /\ UNCHANGED <<linked, pc, victim>>
    BY <1>7 DEF FreeHead, threadVars
  <2>2. \A f \in Epochs : garbage'[f] = IF f = h THEN {} ELSE garbage[f]
    BY <1>0, <2>1 DEF NodeTypeOK
  <2>3. GarbageFate'
    BY <1>0, <2>1, <2>2 DEF GarbageFate
  <2>4. VictimFate'
    BY <1>0, <2>1, <2>2 DEF VictimFate, Retiring
  <2>5. ASSUME NEW k PROVE (k \in Retired)' \/ k \in freed' <=> k \in Retired \/ k \in freed
    BY <1>0, <2>1, <2>2 DEF Retired
  <2>6. garbage[h] \cap linked = {}
    BY <1>0 DEF GarbageFate
  <2>7. NodeFate'
    BY <1>0, <2>1, <2>5, <2>6 DEF NodeFate
  <2> QED BY <2>3, <2>4, <2>7 DEF FateInv
<1> QED
  BY <1>1, <1>2, <1>3, <1>4, <1>5, <1>6, <1>7, Zenon DEF Next
-----------------------------------------------------------------------------
LEMMA InitInv == Init => IInv
<1> SUFFICES ASSUME Init PROVE IInv
  OBVIOUS
<1>1. TypeOK
  BY InitTyping
<1>2. PICK e \in Epochs : epochs = <<e>>
  BY DEF Init
<1>3. \A t \in Threads : pc[t] = "out" /\ holds[t] = {}
  BY DEF Init
<1>4. \A d : Members(d) = {} /\ ~Pointed(d)
  BY <1>3 DEF Members, Counted, InTree, Pointed
<1>5. CountInv
  <2> SUFFICES ASSUME NEW d \in Epochs, Live(d) PROVE Balanced(d)
    BY <1>4 DEF CountInv
  <2>1. count[d] = 0 /\ ~Claimed(d)
    BY DEF Init, Claimed
  <2> QED BY <1>4, <2>1, FS_EmptySet DEF Balanced
<1>6. JoinedEpochLive /\ HeadFree /\ HoldsInv /\ TargetInv /\ NoUseAfterFree
  BY <1>3 DEF Init, JoinedEpochLive, HeadFree, HoldsInv, TargetInv, NoUseAfterFree, InTree
<1>7. FateInv
  <2>1. \A d \in Epochs : garbage[d] = {}
    BY DEF Init
  <2>2. Retired = {}
    BY <1>3, <2>1 DEF Retired
  <2> QED BY <1>3, <2>1, <2>2 DEF Init, FateInv, GarbageFate, VictimFate, NodeFate, Retiring
<1> QED BY <1>1, <1>5, <1>6, <1>7 DEF IInv

LEMMA StepInv == ~Reuse /\ IInv /\ [Next]_vars => IInv'
  BY StepTyping, StepJoined, StepCount, StepHeadFree, StepHolds, StepTarget, StepFate, StepNoUse
  DEF IInv

LEMMA InvHolds == ASSUME ~Reuse PROVE Spec => []IInv
<1>1. IInv /\ [Next]_vars => IInv'
  BY StepInv
<1> QED BY <1>1, InitInv, PTL DEF Spec

(* No thread inside the tree ever holds a node that was freed, as long as   *)
(* the memory of a deleted EpochNode is not given out to something else     *)
(* while a thread in JoinEpoch still points to it.                          *)
THEOREM EpochNoUseAfterFree == ASSUME ~Reuse PROVE Spec => []NoUseAfterFree
<1>1. IInv => NoUseAfterFree
  BY DEF IInv
<1>2. Spec => []IInv
  BY InvHolds
<1> QED BY <1>1, <1>2, PTL

(* Under the same condition a node is linked, retired or free and only one  *)
(* of them: nothing is freed twice and nothing leaks.                       *)
THEOREM EpochOneFate == ASSUME ~Reuse PROVE Spec => []OneFate
<1>1. IInv => OneFate
  BY RetiredIs DEF IInv, FateInv, GarbageFate, VictimFate, NodeFate, OneFate, Retiring, Retired
<1>2. Spec => []IInv
  BY InvHolds
<1> QED BY <1>1, <1>2, PTL

(* Under the same condition JoinEpoch never enters a deleted epoch; the run *)
(* epoch_reuse shows that without it, it does.                              *)
THEOREM EpochJoinedLive == ASSUME ~Reuse PROVE Spec => []JoinedEpochLive
<1>1. IInv => JoinedEpochLive
  BY DEF IInv
<1>2. Spec => []IInv
  BY InvHolds
<1> QED BY <1>1, <1>2, PTL
=============================================================================
