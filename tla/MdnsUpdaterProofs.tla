-------------------------- MODULE MdnsUpdaterProofs --------------------------
(***************************************************************************)
(* Proofs about MdnsUpdater for any number of calls, types and versions:   *)
(* its type invariant, that the latest record wins, and that no record is  *)
(* advertised twice in succession.                                         *)
(***************************************************************************)
EXTENDS MdnsUpdater, SequenceTheorems, TLAPS

All == Records \cup {Withdrawn}

(* A call either leaves the queue and what is expected alone, or queues    *)
(* the record that is expected from then on, which is another one.         *)
CallEffect ==
  /\ UNCHANGED <<thread, txt, published, failed>>
  /\ \/ UNCHANGED updates /\ Expected' = Expected
     \/ Queue(Expected') /\ Expected' # Expected

-------------------------------------------------------------------------------
(* Lemmas on the operators. *)

(* The next version is a version, and another one: the wrap is no return.  *)
LEMMA NextVersionDiffers ==
  ASSUME NEW v \in 0..MaxVersion
  PROVE  NextVersion(v) \in 0..MaxVersion /\ NextVersion(v) # v
  BY UpdaterAssumption DEF NextVersion

(* The switch stays a switch whatever the calls do to it. *)
LEMMA SwitchKept ==
  ASSUME NEW p \in Switch
  PROVE  /\ IncCount(p) \in Switch /\ Disable(p) \in Switch
         /\ [p EXCEPT !.enable = TRUE] \in Switch
  <1>1. IncCount(p) \in Switch
    <2>1. p.count + 1 \in Nat /\ (p.count + 1 >= CutIn) \in BOOLEAN
      BY CutInAssumption DEF Switch
    <2>2. [enable |-> p.count + 1 >= CutIn, count |-> p.count + 1] \in Switch
      BY <2>1, Zenon DEF Switch
    <2> QED BY <2>2, Zenon DEF IncCount
  <1>2. Disable(p) \in Switch
    BY DEF Switch, Disable
  <1>3. [p EXCEPT !.enable = TRUE] \in Switch
    BY DEF Switch
  <1> QED BY <1>1, <1>2, <1>3

(* The plain record is not one with versions. *)
LEMMA BaseDiffers == Base \notin Versions
  BY UpdaterAssumption DEF Versions

(* The remainder of a sequence without repetition has none. *)
LEMMA TailDiffers ==
  ASSUME NEW s \in Seq(All), s # << >>, Differ(s)
  PROVE  Differ(Tail(s))
  <1>1. SUFFICES ASSUME NEW i \in 1..Len(Tail(s)) - 1
                 PROVE  Tail(s)[i] # Tail(s)[i + 1]
    BY DEF Differ
  <1>2. Len(Tail(s)) = Len(s) - 1 /\ Len(s) \in Nat
    BY HeadTailProperties, LenProperties
  <1>3. i + 1 \in 1..Len(s) - 1 /\ i \in 1..Len(Tail(s)) /\ i + 1 \in 1..Len(Tail(s))
    BY <1>2
  <1>4. Tail(s)[i] = s[i + 1] /\ Tail(s)[i + 1] = s[i + 1 + 1]
    BY <1>3, HeadTailProperties
  <1>5. s[i + 1] # s[i + 1 + 1]
    BY <1>3 DEF Differ
  <1> QED BY <1>4, <1>5

(* A record other than the last may be added. *)
LEMMA AppendDiffers ==
  ASSUME NEW s \in Seq(All), NEW r \in All, Differ(s),
         s # << >> => s[Len(s)] # r
  PROVE  Differ(Append(s, r))
  <1>1. Append(s, r) \in Seq(All) /\ Len(Append(s, r)) = Len(s) + 1
    BY AppendProperties
  <1>2. \A i \in 1..Len(s) : Append(s, r)[i] = s[i]
    BY AppendProperties
  <1>3. Append(s, r)[Len(s) + 1] = r
    BY AppendProperties
  <1> QED BY <1>1, <1>2, <1>3, EmptySeq, LenProperties DEF Differ

-------------------------------------------------------------------------------
(* The type invariant. *)
LEMMA TypesKept ==
  ASSUME TypeOK, [Next]_vars
  PROVE  TypeOK'
  <1> USE DEF TypeOK
  <1>1. versions \in Records /\ Base \in Records
    BY DEF Records
  <1>2. ASSUME NEW r \in Records PROVE Append(updates, r) \in Seq(Records)
    BY AppendProperties
  <1>3. HasUpdate => Head(updates) \in Records /\ Tail(updates) \in Seq(Records)
    BY HeadTailProperties DEF HasUpdate
  <1>4. Called => calls' \in Nat
    BY DEF Called
  <1>5. CASE IncP2PEnableCount
    <2>1. p2p' \in Switch
      BY <1>5, SwitchKept, Zenon DEF IncP2PEnableCount
    <2>2. updates' \in Seq(Records)
      BY <1>1, <1>2, <1>5 DEF IncP2PEnableCount, Queue
    <2> QED BY <1>5, <1>4, <2>1, <2>2, Zenon DEF IncP2PEnableCount
  <1>6. CASE P2PEnable
    <2>1. p2p' \in Switch
      BY <1>6, SwitchKept, Zenon DEF P2PEnable
    <2>2. updates' \in Seq(Records)
      BY <1>1, <1>2, <1>6 DEF P2PEnable, Queue
    <2> QED BY <1>6, <1>4, <2>1, <2>2, Zenon DEF P2PEnable
  <1>7. CASE P2PDisable
    <2>1. p2p' \in Switch
      BY <1>7, SwitchKept, Zenon DEF P2PDisable
    <2>2. updates' \in Seq(Records)
      BY <1>1, <1>2, <1>7 DEF P2PDisable, Queue
    <2> QED BY <1>7, <1>4, <2>1, <2>2, Zenon DEF P2PDisable
  <1>8. ASSUME NEW type \in Types, UpdateMdns(type) PROVE TypeOK'
    <2>1. Mapping[type] \in Services
      BY UpdaterAssumption
    <2>2. versions' \in Versions
      <3>1. NextVersion(versions[Mapping[type]]) \in 0..MaxVersion
        BY <2>1, NextVersionDiffers DEF Versions
      <3>2. [versions EXCEPT ![Mapping[type]] = NextVersion(@)] \in Versions
        BY <2>1, <3>1 DEF Versions
      <3> QED BY <1>8, <3>2, Zenon DEF UpdateMdns
    <2>3. updates' \in Seq(Records)
      BY <1>2, <1>8, <2>2 DEF UpdateMdns, Queue, Records
    <2> QED BY <1>8, <1>4, <2>2, <2>3, Zenon DEF UpdateMdns
  <1>9. CASE Stop
    BY <1>9 DEF Stop
  <1>10. CASE Withdraw
    BY <1>3, <1>10 DEF Withdraw, Ready
  <1>11. CASE Advertise
    BY <1>11 DEF Advertise
  <1>12. CASE NotFound
    BY <1>3, <1>12 DEF NotFound, Ready
  <1>13. CASE Die
    BY <1>3, <1>13 DEF Die, Ready
  <1>14. CASE End
    BY <1>14 DEF End
  <1>15. CASE EngineClose
    BY <1>15 DEF EngineClose
  <1>16. CASE UNCHANGED vars
    BY <1>16 DEF vars
  <1> QED BY <1>5, <1>6, <1>7, <1>8, <1>9, <1>10, <1>11, <1>12, <1>13, <1>14, <1>15, <1>16
          DEF Next, Call, Modify

(* The variables of the updater keep their types: in particular the        *)
(* versions stay within a byte, whatever is announced (aggregator.py       *)
(* 427-437).                                                               *)
THEOREM UpdaterTypeCorrect == Spec => []TypeOK
  <1>1. Init => TypeOK
    <2> SUFFICES ASSUME Init PROVE TypeOK
      OBVIOUS
    <2>1. p2p \in Switch
      BY DEF Init, InitSwitch, Switch
    <2>2. versions \in Versions
      BY UpdaterAssumption DEF Init, Versions
    <2>3. updates \in Seq(Records)
      BY EmptySeq DEF Init
    <2>4. failed \in BOOLEAN
      <3>1. p2p.enable \in BOOLEAN
        BY DEF Init, InitSwitch
      <3> QED BY <3>1, Zenon DEF Init
    <2> QED BY <2>1, <2>2, <2>3, <2>4 DEF Init, TypeOK, Records
  <1>2. TypeOK /\ [Next]_vars => TypeOK'
    BY TypesKept
  <1> QED BY <1>1, <1>2, PTL DEF Spec

-------------------------------------------------------------------------------
(* What the calls do to the queue. *)
LEMMA CallsQueueExpected ==
  ASSUME TypeOK, Call
  PROVE  CallEffect
  <1> USE DEF CallEffect, Expected
  <1>1. versions \in Versions /\ p2p \in Switch
    BY DEF TypeOK
  <1>2. CASE IncP2PEnableCount
    BY <1>1, <1>2, BaseDiffers DEF IncP2PEnableCount, IncCount, Switch, Queue
  <1>3. CASE P2PEnable
    BY <1>1, <1>3, BaseDiffers DEF P2PEnable, SwitchesTo, Switch, Queue
  <1>4. CASE P2PDisable
    BY <1>1, <1>4, BaseDiffers DEF P2PDisable, Disable, SwitchesTo, Switch, Queue
  <1>5. CASE Stop
    BY <1>5 DEF Stop
  <1>6. ASSUME NEW type \in Types, UpdateMdns(type) PROVE CallEffect
    <2>1. Mapping[type] \in Services
      BY UpdaterAssumption
    <2>2. NextVersion(versions[Mapping[type]]) # versions[Mapping[type]]
      BY <1>1, <2>1, NextVersionDiffers DEF Versions
    <2>3. CASE p2p.enable
      BY <1>1, <1>6, <2>1, <2>2, <2>3 DEF UpdateMdns, Versions, Queue
    <2>4. CASE ~p2p.enable
      BY <1>6, <2>4 DEF UpdateMdns
    <2> QED BY <2>3, <2>4
  <1> QED BY <1>2, <1>3, <1>4, <1>5, <1>6 DEF Call

(* A record that is queued becomes the one that is coming.                 *)
LEMMA QueuedIsComing ==
  ASSUME TypeOK, NEW r, r \in Records, Queue(r)
  PROVE  HasUpdate' /\ Coming' = r
  <1>1. /\ updates' # << >>
        /\ updates'[Len(updates')] = r
    BY AppendProperties DEF TypeOK, Queue
  <1> QED BY <1>1 DEF HasUpdate, Coming

(* What is left after the first record: its last is the last there was.    *)
LEMMA LastOfTail ==
  ASSUME NEW s \in Seq(All), s # << >>, Tail(s) # << >>
  PROVE  Tail(s)[Len(Tail(s))] = s[Len(s)]
  <1>1. Len(Tail(s)) = Len(s) - 1 /\ Len(s) \in Nat
    BY HeadTailProperties
  <1>2. \A i \in 1..Len(s) - 1 : Tail(s)[i] = s[i + 1]
    BY HeadTailProperties
  <1>3. Len(s) > 1
    <2>1. Tail(s) \in Seq(All)
      BY HeadTailProperties
    <2> QED BY <1>1, <2>1, EmptySeq
  <1> QED BY <1>1, <1>2, <1>3

(* Arithmetic of the length of a short queue. *)
LEMMA AtMostOne ==
  ASSUME NEW n \in Nat
  PROVE  (n <= 1 => n \in 0..1) /\ (n - 1 = 0 => n = 1)
  OBVIOUS

(* The last element of a queue of one is its head. *)
LEMMA OnlyOne ==
  ASSUME NEW s \in Seq(All), s # << >>, Tail(s) = << >>
  PROVE  s[Len(s)] = Head(s)
  <1>1. Len(Tail(s)) = Len(s) - 1
    BY HeadTailProperties
  <1>2. Len(Tail(s)) = 0
    BY EmptySeq, Zenon
  <1>3. Len(s) = 1
    BY <1>1, <1>2, AtMostOne, LenProperties, Zenon
  <1> QED BY <1>3

(* The records of the queue are among all that may be advertised.          *)
LEMMA UpdatesAreRecords ==
  ASSUME TypeOK
  PROVE  updates \in Seq(All)
  BY DEF TypeOK, All

(* Each step keeps the newest record last: a call appends it, the greenlet takes from the front. *)
LEMMA LatestKept ==
  ASSUME TypeOK, TypeOK', LatestWins, [Next]_vars
  PROVE  LatestWins'
  <1>1. CASE Call
    <2>1. CallEffect
      BY <1>1, CallsQueueExpected
    <2>2. CASE UNCHANGED updates /\ Expected' = Expected
      BY <2>1, <2>2 DEF CallEffect, LatestWins, Coming, HasUpdate
    <2>3. CASE Queue(Expected')
      <3>1. Expected' \in Records
        BY DEF TypeOK, Expected, Records
      <3>2. Coming' = Expected'
        BY <2>3, <3>1, QueuedIsComing
      <3> QED BY <3>2 DEF LatestWins
    <2> QED BY <2>1, <2>2, <2>3 DEF CallEffect
  <1>2. CASE Withdraw
    <2>1. Expected' = Expected
      BY <1>2 DEF Withdraw, Expected
    <2>2. updates # << >> /\ updates' = Tail(updates) /\ Coming = Expected
      BY <1>2 DEF Withdraw, Ready, HasUpdate, LatestWins
    <2>3. Coming' = Coming
      <3>1. CASE updates' = << >>
        BY <1>2, <2>2, <3>1, OnlyOne, UpdatesAreRecords DEF Withdraw, Coming, HasUpdate, TypeOK
      <3>2. CASE updates' # << >>
        BY <2>2, <3>2, LastOfTail, UpdatesAreRecords DEF Coming, HasUpdate, TypeOK
      <3> QED BY <3>1, <3>2
    <2> QED BY <2>1, <2>2, <2>3 DEF LatestWins
  <1>3. CASE Advertise
    BY <1>3 DEF Advertise, LatestWins, Coming, Expected, HasUpdate
  <1>4. ASSUME updates # << >>, updates' = Tail(updates), Expected' = Expected,
               failed', thread' # "update"
        PROVE  LatestWins'
    <2>1. CASE updates' = << >>
      BY <1>4, <2>1 DEF LatestWins, HasUpdate
    <2>2. CASE updates' # << >>
      BY <1>4, <2>2, LastOfTail, UpdatesAreRecords DEF LatestWins, Coming, HasUpdate, TypeOK
    <2> QED BY <2>1, <2>2
  <1>5. CASE NotFound
    BY <1>4, <1>5 DEF NotFound, Ready, HasUpdate, Expected
  <1>6. CASE Die
    <2>1. CASE Ready
      BY <1>4, <1>6, <2>1 DEF Die, Ready, HasUpdate, Expected
    <2>2. CASE thread = "update"
      BY <1>6, <2>2 DEF Die, Ready, LatestWins, Coming, HasUpdate, Expected
    <2> QED BY <1>6, <2>1, <2>2 DEF Die
  <1>7. CASE End
    BY <1>7 DEF End, LatestWins, Coming, HasUpdate, Expected
  <1>8. CASE EngineClose
    BY <1>8 DEF EngineClose, LatestWins, Coming, HasUpdate, Expected
  <1>9. CASE UNCHANGED vars
    BY <1>9 DEF vars, LatestWins, Coming, HasUpdate, Expected
  <1> QED BY <1>1, <1>2, <1>3, <1>5, <1>6, <1>7, <1>8, <1>9 DEF Next, Modify

(* For any number of calls in any order, however far the greenlet is       *)
(* behind: the last record to be advertised is the one that fits the mode  *)
(* and the versions of now (aggregator.py 427-462), or the engine refused  *)
(* it.                                                                     *)
THEOREM LatestAlwaysWins == Spec => []LatestWins
  <1>1. Init => LatestWins
    BY DEF Init, InitSwitch, LatestWins, Coming, Expected, HasUpdate
  <1>2. TypeOK /\ TypeOK' /\ LatestWins /\ [Next]_vars => LatestWins'
    BY LatestKept
  <1> QED BY <1>1, <1>2, UpdaterTypeCorrect, PTL DEF Spec

-------------------------------------------------------------------------------
(* The records shown: at most one that is advertised or about to be, then  *)
(* the queue.                                                              *)
LEMMA ShownType ==
  ASSUME TypeOK
  PROVE  /\ First \in Seq(All) /\ Len(First) <= 1
         /\ Shown \in Seq(All) /\ Len(Shown) = Len(First) + Len(updates)
         /\ \A i \in 1..Len(Shown) :
              Shown[i] = IF i <= Len(First) THEN First[i] ELSE updates[i - Len(First)]
  <1>1. updates \in Seq(All) /\ txt \in All /\ published \in All
    BY UpdatesAreRecords DEF TypeOK, All
  <1>2. First \in Seq(All) /\ Len(First) <= 1
    BY <1>1 DEF First
  <1> QED BY <1>1, <1>2, ConcatProperties DEF Shown

(* The last of them is the record that is coming.                          *)
LEMMA LastShown ==
  ASSUME TypeOK, LatestWins, Shown # << >>
  PROVE  Shown[Len(Shown)] = Expected
  <1>1. updates \in Seq(All)
    BY UpdatesAreRecords
  <1>2. CASE updates # << >>
    <2>1. Len(updates) \in Nat \ {0}
      BY <1>1, <1>2, EmptySeq
    <2>2. Shown[Len(Shown)] = updates[Len(updates)]
      BY <2>1, ShownType, LenProperties
    <2> QED BY <1>2, <2>2 DEF LatestWins, Coming, HasUpdate
  <1>3. CASE updates = << >>
    <2>1. Shown = First
      BY <1>3, ShownType, ConcatEmptySeq DEF Shown
    <2>2. First # << >>
      BY <2>1
    <2> QED BY <1>3, <2>1, <2>2 DEF First, LatestWins, Coming, HasUpdate
  <1> QED BY <1>2, <1>3

(* The queue alone repeats nothing either.                                 *)
LEMMA QueueDiffers ==
  ASSUME TypeOK, EachTells
  PROVE  Differ(updates)
  <1>1. SUFFICES ASSUME NEW i \in 1..Len(updates) - 1
                 PROVE  updates[i] # updates[i + 1]
    BY DEF Differ
  <1>2. Len(First) \in 0..1 /\ Len(updates) \in Nat
    <2>1. Len(First) \in Nat /\ Len(updates) \in Nat
      BY ShownType, UpdatesAreRecords
    <2>2. Len(First) <= 1
      BY ShownType
    <2> QED BY <2>1, <2>2, AtMostOne, Zenon
  <1>3. /\ i + Len(First) \in 1..Len(Shown) - 1
        /\ Shown[i + Len(First)] = updates[i]
        /\ Shown[i + Len(First) + 1] = updates[i + 1]
    BY <1>1, <1>2, ShownType
  <1> QED BY <1>3 DEF EachTells, Differ

(* Each step keeps neighbours of the queue distinct. *)
LEMMA EachTellsKept ==
  ASSUME TypeOK, TypeOK', LatestWins, EachTells, [Next]_vars
  PROVE  EachTells'
  <1> DEFINE Dropped == updates # << >> /\ updates' = Tail(updates)
  <1>1. CASE Call
    <2>1. CallEffect /\ First' = First
      BY <1>1, CallsQueueExpected DEF CallEffect, First
    <2>2. CASE UNCHANGED updates
      BY <2>1, <2>2 DEF EachTells, Shown
    <2>3. CASE Queue(Expected') /\ Expected' # Expected
      <3>1. Expected' \in All /\ First \in Seq(All) /\ updates \in Seq(All)
        BY ShownType, UpdatesAreRecords DEF TypeOK, Expected, Records, All
      <3>2. Shown' = First \o (updates \o <<Expected'>>)
        BY <2>1, <2>3, <3>1, AppendIsConcat DEF Shown, Queue
      <3>3. Shown' = Append(Shown, Expected')
        BY <3>1, <3>2, ConcatAssociative, AppendIsConcat, ShownType DEF Shown
      <3> QED BY <2>3, <3>1, <3>3, LastShown, ShownType, AppendDiffers DEF EachTells
    <2> QED BY <2>1, <2>2, <2>3 DEF CallEffect
  <1>2. CASE Withdraw
    <2>1. First' = <<Head(updates)>> /\ updates # << >> /\ updates' = Tail(updates)
      BY <1>2 DEF Withdraw, First, Ready, HasUpdate
    <2>2. Shown' = updates
      BY <2>1, UpdatesAreRecords DEF Shown
    <2> QED BY <2>2, QueueDiffers DEF EachTells
  <1>3. CASE Advertise
    BY <1>3 DEF Advertise, EachTells, Shown, First
  <1>4. ASSUME First' = << >>, updates' = updates \/ Dropped
        PROVE  EachTells'
    <2>1. Shown' = updates'
      BY <1>4, UpdatesAreRecords, ConcatEmptySeq, HeadTailProperties DEF Shown
    <2>2. Differ(updates')
      BY <1>4, QueueDiffers, UpdatesAreRecords, TailDiffers
    <2> QED BY <2>1, <2>2 DEF EachTells
  <1>5. CASE NotFound
    <2>1. First' = << >> /\ Dropped
      BY <1>5 DEF NotFound, First, Ready, HasUpdate
    <2> QED BY <1>4, <2>1
  <1>6. CASE Die
    <2>1. First' = << >> /\ (updates' = updates \/ Dropped)
      BY <1>6 DEF Die, First, Ready, HasUpdate
    <2> QED BY <1>4, <2>1
  <1>7. CASE End
    BY <1>7 DEF End, EachTells, Shown, First
  <1>8. CASE EngineClose
    BY <1>4, <1>8 DEF EngineClose, First
  <1>9. CASE UNCHANGED vars
    BY <1>9 DEF vars, EachTells, Shown, First
  <1> QED BY <1>1, <1>2, <1>3, <1>5, <1>6, <1>7, <1>8, <1>9 DEF Next, Modify

(* For any number of calls, no two records that are advertised one after   *)
(* the other are the same: the service is never withdrawn for nothing, and *)
(* each change of a resource is seen, whatever MaxVersion is.              *)
THEOREM EachAlwaysTells == Spec => []EachTells
  <1>1. Init => EachTells
    BY DEF Init, EachTells, Differ, Shown, First
  <1>2. TypeOK /\ TypeOK' /\ LatestWins /\ EachTells /\ [Next]_vars => EachTells'
    BY EachTellsKept
  <1> QED BY <1>1, <1>2, UpdaterTypeCorrect, LatestAlwaysWins, PTL DEF Spec
===============================================================================
