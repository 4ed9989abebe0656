-------------------------- MODULE ChanSelectProofs --------------------------
(***************************************************************************)
(* What chan_select guarantees its caller, for any number of channels, any *)
(* capacity and any set of channels that others pop from.                  *)
(*                                                                         *)
(* The scan makes two unlocked reads per channel, so the argument is about *)
(* what cannot be undone between them: a closed channel takes no push, and *)
(* only a rival takes an element that was seen.                            *)
(***************************************************************************)
EXTENDS ChanSelect, TLAPS

\* A closed channel that is empty stays so.
Drained(c) == closed[c] /\ count[c] = 0

\* all_closed stands for the channels that this scan has passed.
ScanInv ==
    /\ Scanning /\ allClosed => \A c \in 0 .. i - 1 : Drained(c)
    /\ pc = "readCount" /\ allClosed => closed[i]
    /\ pc = "scanned" /\ allClosed => \A c \in Indices : Drained(c)

\* A channel of the caller's own that had data still has it, and is ahead.
ReadyInv ==
    /\ Scanning => \A c \in ready \ Rivals : count[c] > 0 /\ i <= c
    /\ pc = "scanned" => ready \ Rivals = {}

ResultInv ==
    /\ pc = "selected" => result \in Indices
    /\ SelectedDoesNotBlock /\ AllClosedMeansDrained /\ ReadyIsFound

IInv == TypeOK /\ ScanInv /\ ReadyInv /\ ResultInv

USE DEF Indices, Timeout, AllClosed, Scanning, Drained

-----------------------------------------------------------------------------
\* The initial states satisfy the invariant.
LEMMA InvInit == Init => IInv
<1> SUFFICES ASSUME Init PROVE IInv
  OBVIOUS
<1> USE SelectAssumption DEF Init
<1>1. /\ count \in [Indices -> 0 .. Capacity] /\ pushes \in [Indices -> 0 .. MaxPushes]
      /\ closed \in [Indices -> BOOLEAN]
  OBVIOUS
<1>2. /\ pc = "idle" /\ i \in Indices /\ result \in Indices \cup {Timeout, AllClosed}
      /\ ready \subseteq Indices
  OBVIOUS
<1>3. TypeOK
  <2>1. allClosed \in BOOLEAN /\ expired \in BOOLEAN
    OBVIOUS
  <2> QED
    BY <1>1, <1>2, <2>1, Zenon DEF TypeOK
<1>4. ScanInv /\ ReadyInv
  BY DEF ScanInv, ReadyInv
<1>5. ResultInv
  BY DEF ResultInv, SelectedDoesNotBlock, AllClosedMeansDrained, ReadyIsFound
<1> QED
  BY <1>3, <1>4, <1>5 DEF IInv

\* Every step keeps the flags Boolean; the other types are kept apart from them.
Flags == /\ closed \in [Indices -> BOOLEAN]
         /\ allClosed \in BOOLEAN /\ expired \in BOOLEAN /\ stolen \in BOOLEAN
Counts == /\ count \in [Indices -> 0 .. Capacity]
          /\ pushes \in [Indices -> 0 .. MaxPushes]
Places == /\ pc \in {"idle", "readClosed", "readCount", "scanned", "selected",
                     "timedOut", "ended"}
          /\ ready \subseteq Indices

USE DEF channels, selector

\* Type correctness, in the parts that are proved separately.
LEMMA TypeParts ==
    TypeOK <=> /\ Flags /\ Counts /\ Places
               /\ i \in Indices /\ result \in Indices \cup {Timeout, AllClosed}
BY DEF TypeOK, Flags, Counts, Places

\* Each step keeps the Boolean fields Boolean.
LEMMA FlagsStep == TypeOK /\ [Next]_vars => Flags'
BY DEF TypeOK, Flags, Next, Push, RivalPop, Close, ClockTick, Call, Select, Look,
       ReadClosed, ReadCount, EndScan, Rescan, ReportAllClosed, ReportTimeout,
       PopSelected, GiveUp, vars

\* Each step leads to a place of the code.
LEMMA PlacesStep == TypeOK /\ [Next]_vars => Places'
BY DEF TypeOK, Places, Next, Push, RivalPop, Close, ClockTick, Call, Select, Look,
       ReadClosed, ReadCount, EndScan, Rescan, ReportAllClosed, ReportTimeout,
       PopSelected, GiveUp, vars

\* Only Push and the two pops write count, and within the capacity.
LEMMA CountsStep == TypeOK /\ ResultInv /\ [Next]_vars => Counts'
<1> SUFFICES ASSUME Counts, pc = "selected" => result \in Indices, [Next]_vars
             PROVE  Counts'
  BY TypeParts DEF ResultInv
<1> USE SelectAssumption DEF Counts
<1>1. ASSUME NEW c \in Indices, Push(c) PROVE Counts'
  <2>1. count' \in [Indices -> 0 .. Capacity]
    BY <1>1 DEF Push
  <2>2. pushes' \in [Indices -> 0 .. MaxPushes]
    BY <1>1 DEF Push
  <2> QED
    BY <2>1, <2>2
<1>2. ASSUME NEW c \in Indices, RivalPop(c) PROVE Counts'
  BY <1>2 DEF RivalPop
<1>3. CASE PopSelected
  <2>1. result \in Indices /\ pushes' = pushes
    BY <1>3 DEF PopSelected
  <2>2. \/ count' = count
        \/ count[result] > 0 /\ count' = [count EXCEPT ![result] = @ - 1]
    BY <1>3 DEF PopSelected
  <2>3. count' \in [Indices -> 0 .. Capacity]
    <3>1. count \in [Indices -> 0 .. Capacity]
      OBVIOUS
    <3>2. CASE count' = count
      BY <3>1, <3>2, Zenon
    <3>3. CASE count[result] > 0 /\ count' = [count EXCEPT ![result] = @ - 1]
      <4>1. count[result] - 1 \in 0 .. Capacity
        BY <2>1, <3>1, <3>3
      <4> QED
        BY <3>1, <3>3, <4>1, Zenon
    <3> QED
      BY <2>2, <3>2, <3>3
  <2> QED
    BY <2>1, <2>3
<1>4. CASE UNCHANGED <<count, pushes>>
  BY <1>4
<1>5. (\E c \in Indices : Push(c) \/ RivalPop(c)) \/ PopSelected \/ UNCHANGED <<count, pushes>>
  BY DEF Next, Close, ClockTick, Call, Select, Look, ReadClosed, ReadCount, EndScan,
         Rescan, ReportAllClosed, ReportTimeout, GiveUp, vars
<1> HIDE DEF Counts
<1> QED
  BY <1>1, <1>2, <1>3, <1>4, <1>5, Zenon

\* The loop index never passes the end of the array.
LEMMA IndexStep == TypeOK /\ [Next]_vars => i' \in Indices
<1> SUFFICES ASSUME i \in Indices, [Next]_vars PROVE i' \in Indices
  BY DEF TypeOK
<1>1. i' = i \/ i' = 0 \/ (i' = i + 1 /\ i < N - 1)
  BY DEF Next, Push, RivalPop, Close, ClockTick, Call, Select, Look, ReadClosed,
         ReadCount, EndScan, Rescan, ReportAllClosed, ReportTimeout, PopSelected,
         GiveUp, vars
<1> QED
  BY <1>1, SelectAssumption

\* Every result is an index that was looked at, or one of the two codes.
LEMMA ResultTypeStep ==
    TypeOK /\ [Next]_vars => result' \in Indices \cup {Timeout, AllClosed}
<1> SUFFICES ASSUME i \in Indices, result \in Indices \cup {Timeout, AllClosed}, [Next]_vars
             PROVE  result' \in Indices \cup {Timeout, AllClosed}
  BY DEF TypeOK
<1>1. result' \in {result, i, Timeout, AllClosed}
  BY DEF Next, Push, RivalPop, Close, ClockTick, Call, Select, Look, ReadClosed,
         ReadCount, EndScan, Rescan, ReportAllClosed, ReportTimeout, PopSelected,
         GiveUp, vars
<1> QED
  BY <1>1

\* Every step of another thread keeps what the scan has established.
LEMMA OthersStep ==
    ASSUME TypeOK, ScanInv, ReadyInv, ResultInv, NEW c \in Indices, Push(c) \/ RivalPop(c) \/ Close(c)
    PROVE  ScanInv' /\ ReadyInv' /\ ResultInv'
<1> USE SelectAssumption DEF TypeOK, selector, ResultInv
<1>1. CASE Push(c)
  BY <1>1 DEF Push, ScanInv, ReadyInv, SelectedDoesNotBlock, AllClosedMeansDrained, ReadyIsFound
<1>2. CASE RivalPop(c)
  <2>1. /\ c \in Rivals /\ count[c] > 0 /\ count' = [count EXCEPT ![c] = @ - 1]
        /\ UNCHANGED <<closed, pushes, pc, i, allClosed, result, ready, expired>>
    BY <1>2 DEF RivalPop
  <2>2. stolen' = (stolen \/ (pc = "selected" /\ c = result /\ count[c] = 1))
    BY <1>2 DEF RivalPop
  <2>3. ScanInv' /\ ReadyInv' /\ AllClosedMeansDrained' /\ ReadyIsFound'
    BY <2>1 DEF ScanInv, ReadyInv, AllClosedMeansDrained, ReadyIsFound
  <2>4. SelectedDoesNotBlock'
    <3> SUFFICES ASSUME pc = "selected", ~closed[result], ~stolen'
                 PROVE  count'[result] > 0
      BY <2>1 DEF SelectedDoesNotBlock
    <3>1. ~stolen /\ ~(c = result /\ count[c] = 1)
      BY <2>2, Zenon
    <3>2. count[result] > 0 /\ result \in Indices
      BY <3>1 DEF SelectedDoesNotBlock
    <3> QED
      BY <2>1, <3>1, <3>2
  <2>5. pc' = "selected" => result' \in Indices
    BY <2>1
  <2> QED
    BY <2>3, <2>4, <2>5
<1>3. CASE Close(c)
  BY <1>3 DEF Close, ScanInv, ReadyInv, SelectedDoesNotBlock, AllClosedMeansDrained, ReadyIsFound
<1> QED
  BY <1>1, <1>2, <1>3

\* And so does every step of the selecting thread, or of the clock.
LEMMA SelectorStep ==
    ASSUME TypeOK, ScanInv, ReadyInv, ResultInv,
           ClockTick \/ Call \/ Select \/ PopSelected \/ GiveUp \/ UNCHANGED vars
    PROVE  ScanInv' /\ ReadyInv' /\ ResultInv'
<1> USE SelectAssumption DEF TypeOK, channels, ScanInv, ReadyInv, ResultInv,
        SelectedDoesNotBlock, AllClosedMeansDrained, ReadyIsFound
<1>1. CASE ClockTick
  BY <1>1 DEF ClockTick, selector
<1>2. CASE Call
  BY <1>2 DEF Call
<1>3. CASE ReadClosed
  BY <1>3 DEF ReadClosed
<1>4. CASE ReadCount
  <2>1. CASE count[i] > 0 /\ result' = i /\ pc' = "selected" /\ i' = i
    BY <1>4, <2>1 DEF ReadCount
  <2>2. CASE count[i] = 0 /\ i < N - 1 /\ i' = i + 1 /\ pc' = "readClosed" /\ result' = result
    <3>0. UNCHANGED <<channels, allClosed, ready>> /\ pc = "readCount"
      BY <1>4 DEF ReadCount
    <3>1. ScanInv'
      <4>1. allClosed => Drained(i) /\ \A c \in 0 .. i - 1 : Drained(c)
        BY <2>2, <3>0
      <4>2. \A c \in 0 .. i' - 1 : c \in 0 .. i - 1 \/ c = i
        BY <2>2
      <4> QED
        BY <2>2, <3>0, <4>1, <4>2
    <3>2. ReadyInv'
      BY <2>2, <3>0
    <3> QED
      BY <2>2, <3>1, <3>2
  <2>3. CASE count[i] = 0 /\ i = N - 1 /\ pc' = "scanned" /\ i' = i /\ result' = result
    <3>0. UNCHANGED <<channels, allClosed, ready>> /\ pc = "readCount"
      BY <1>4 DEF ReadCount
    <3>1. \A c \in Indices : c \in 0 .. i - 1 \/ c = i
      BY <2>3
    <3>2. ScanInv'
      BY <2>3, <3>0, <3>1
    <3>3. ReadyInv' /\ ResultInv'
      BY <2>3, <3>0
    <3> QED
      BY <3>2, <3>3
  <2>4. \/ count[i] > 0 /\ result' = i /\ pc' = "selected" /\ i' = i
        \/ /\ count[i] = 0 /\ i < N - 1 /\ i' = i + 1 /\ pc' = "readClosed"
           /\ result' = result
        \/ count[i] = 0 /\ i = N - 1 /\ pc' = "scanned" /\ i' = i /\ result' = result
    BY <1>4, Zenon DEF ReadCount
  <2> HIDE DEF ScanInv, ReadyInv, ResultInv
  <2> QED
    BY <2>1, <2>2, <2>3, <2>4, Zenon
<1>5. CASE EndScan
  <2>1. CASE Rescan(TRUE)
    BY <2>1 DEF Rescan
  <2>2. CASE ReportAllClosed
    BY <2>2 DEF ReportAllClosed
  <2>3. CASE ReportTimeout
    BY <2>3 DEF ReportTimeout
  <2> QED
    BY <1>5, <2>1, <2>2, <2>3 DEF EndScan
<1>6. CASE PopSelected
  BY <1>6 DEF PopSelected
<1>7. CASE GiveUp
  BY <1>7 DEF GiveUp
<1>8. CASE UNCHANGED vars
  BY <1>8 DEF vars, selector
<1> HIDE DEF ScanInv, ReadyInv, ResultInv
<1> QED
  BY <1>1, <1>2, <1>3, <1>4, <1>5, <1>6, <1>7, <1>8, Zenon DEF Select, Look

\* The invariant holds in every reachable state.
LEMMA Invariance == Spec => []IInv
<1>1. TypeOK /\ ResultInv /\ [Next]_vars => TypeOK'
  BY FlagsStep, PlacesStep, CountsStep, IndexStep, ResultTypeStep
     DEF TypeOK, Flags, Counts, Places
<1>2. TypeOK /\ ScanInv /\ ReadyInv /\ ResultInv /\ [Next]_vars
          => ScanInv' /\ ReadyInv' /\ ResultInv'
  BY OthersStep, SelectorStep, Zenon DEF Next
<1>3. IInv /\ [Next]_vars => IInv'
  BY <1>1, <1>2 DEF IInv
<1> QED
  BY InvInit, <1>3, PTL DEF Spec

-----------------------------------------------------------------------------
\* The types are right: the scan never leaves the array of channels, and the
\* result is an index or one of the two special values.
THEOREM TypeCorrectness == Spec => []TypeOK
BY Invariance, PTL DEF IInv

\* The caller's pop on the channel it was given finds an element or finds the
\* channel closed, unless a rival took the last element after the look.
THEOREM SelectionDoesNotBlock == Spec => []SelectedDoesNotBlock
BY Invariance, PTL DEF IInv, ResultInv

\* -2 means that every channel is closed and has handed out all its elements.
THEOREM AllClosedIsFinal == Spec => []AllClosedMeansDrained
BY Invariance, PTL DEF IInv, ResultInv

\* A channel that had data when the call began is not passed over.
THEOREM NoReadyChannelMissed == Spec => []ReadyIsFound
BY Invariance, PTL DEF IInv, ResultInv
=============================================================================
