--------------------------- MODULE Console_proof ---------------------------
(***************************************************************************)
(* Console's invariants, for every vocabulary, FIFO size, menu and mix of  *)
(* lock loops; and that the editor behind the FIFO and the lock still is   *)
(* LineEditor, so that what is proved there holds here.                    *)
(***************************************************************************)
EXTENDS Console, LineEditor_proof, SequenceTheorems

-----------------------------------------------------------------------------
(***************************************************************************)
(* What the steps do to a locked line.                                     *)
(***************************************************************************)
LEMMA LockedLineStep ==
  ASSUME LockedLineIsEmpty, [ConsoleNext]_all
  PROVE  LockedLineIsEmpty'
<1> USE DEF LockedLineIsEmpty
<1>1. ASSUME UNCHANGED <<editor, isCollecting>> PROVE LockedLineIsEmpty'
  BY <1>1 DEF editor, vars
<1>2. ASSUME ~isCollecting' PROVE LockedLineIsEmpty'
  BY <1>2
<1>3. ASSUME NEW b \in LineKeys, HostTypes(b) PROVE LockedLineIsEmpty'
  BY <1>1, <1>3 DEF HostTypes, cli
<1>4. CASE EditKey
  BY <1>2, <1>4 DEF EditKey, AtPrompt
<1>5. CASE Submit
  BY <1>5 DEF Submit, CarriageReturn, ForgetCount, ReArm
<1>6. CASE ReadPanics
  BY <1>1, <1>6 DEF ReadPanics
<1>7. CASE DropBurst \/ LockedReadError
  BY <1>1, <1>7 DEF DropBurst, LockedReadError, cli
<1>8. CASE Unlock
  BY <1>2, <1>8 DEF Unlock
<1>9. CASE RunBegins \/ RunEnds \/ RadioOff
  BY <1>1, <1>9 DEF RunBegins, RunEnds, RadioOff
<1>10. CASE Reset
  BY <1>2, <1>10 DEF Reset
<1>11. CASE UNCHANGED all
  BY <1>1, <1>11 DEF all, cli
<1> QED
  BY <1>3, <1>4, <1>5, <1>6, <1>7, <1>8, <1>9, <1>10, <1>11 DEF ConsoleNext

(* The line under a lock is empty in every one of its pictures, so the     *)
(* unlock's reset of two of them (main.rs:727) leaves a fresh prompt.      *)
THEOREM PromptIsClean == ConsoleSpec => []LockedLineIsEmpty
<1>1. ConsoleInit => LockedLineIsEmpty
  BY DEF ConsoleInit, LockedLineIsEmpty
<1> QED
  BY <1>1, LockedLineStep, PTL DEF ConsoleSpec

-----------------------------------------------------------------------------
(***************************************************************************)
(* The FIFO's types.  A byte in it is one of the keys the host types.      *)
(***************************************************************************)
Byte == [byte : LineKeys, seq : 1..HostBudget, head : BOOLEAN, locked : BOOLEAN]
FifoTypes ==
  /\ rx \in Seq(Byte)
  /\ isCollecting \in BOOLEAN /\ hostHead \in BOOLEAN /\ sent \in 0..HostBudget

LEMMA EmptyFifo == <<>> \in Seq(Byte)
  OBVIOUS

LEMMA CapacityIsNat == RxCapacity \in Nat \ {0}
  BY ConsoleAssumption DEF ConsoleAssumption

LEMMA KeysAreBytes == LineKeys \subseteq Bytes
  BY LineAssumption DEF LineAssumption

LEMMA BudgetIsNat == HostBudget \in Nat
  BY ConsoleAssumption DEF ConsoleAssumption

LEMMA NothingSent == 0 \in 0..HostBudget
  BY BudgetIsNat

(* What the host types is a byte of the FIFO's type.                       *)
LEMMA TypedByte ==
  ASSUME FifoTypes, NEW b \in LineKeys, sent < HostBudget
  PROVE  /\ [byte |-> b, seq |-> sent + 1, head |-> hostHead, locked |-> isCollecting] \in Byte
         /\ sent + 1 \in 0..HostBudget
<1>1. sent + 1 \in 1..HostBudget /\ sent + 1 \in 0..HostBudget
  BY BudgetIsNat DEF FifoTypes
<1>. QED
  BY <1>1 DEF Byte, FifoTypes

LEMMA FifoStep ==
  ASSUME FifoTypes, [ConsoleNext]_all
  PROVE  FifoTypes'
<1> USE DEF FifoTypes
<1>1. ASSUME UNCHANGED <<console, isCollecting>> PROVE FifoTypes'
  BY <1>1 DEF console
<1>2. ASSUME NEW b \in LineKeys, HostTypes(b) PROVE FifoTypes'
  <2>1. rx' \in Seq(Byte)
    <3>1. [byte |-> b, seq |-> sent + 1, head |-> hostHead, locked |-> isCollecting] \in Byte
      BY <1>2, TypedByte DEF HostTypes
    <3> QED
      BY <1>2, <3>1 DEF HostTypes, Accept
  <2>2. UNCHANGED isCollecting /\ sent' \in 0..HostBudget /\ hostHead' \in BOOLEAN
    BY <1>2, TypedByte DEF HostTypes, cli
  <2> QED
    BY <2>1, <2>2
<1>3. ASSUME AtPrompt PROVE rx' \in Seq(Byte) /\ sent' \in 0..HostBudget /\ hostHead' \in BOOLEAN
  BY <1>3 DEF AtPrompt, Consume
<1>4. CASE EditKey
  BY <1>3, <1>4 DEF EditKey
<1>5. CASE Submit
  <2>1. isCollecting' \in BOOLEAN
    BY <1>5 DEF Submit, Execute
  <2> QED
    BY <1>3, <1>5, <2>1 DEF Submit
<1>6. CASE ReadPanics
  BY <1>1, <1>6 DEF ReadPanics
<1>7. CASE DropBurst
  <2>1. rx' \in Seq(Byte)
    <3>1. PICK n \in 1..Len(rx) : rx' = SubSeq(rx, n + 1, Len(rx))
      BY <1>7 DEF DropBurst
    <3>2. n \in Nat /\ Len(rx) \in Nat /\ n >= 1
      OBVIOUS
    <3> QED
      BY <3>1, <3>2
  <2> QED
    BY <1>7, <2>1 DEF DropBurst, cli
<1>8. CASE LockedReadError
  <2>1. rx' \in Seq(Byte)
    BY <1>8, EmptyFifo DEF LockedReadError
  <2> QED
    BY <1>8, <2>1 DEF LockedReadError, cli
<1>9. CASE Unlock
  BY <1>9 DEF Unlock, console
<1>10. CASE RunBegins \/ RunEnds \/ RadioOff
  BY <1>1, <1>10 DEF RunBegins, RunEnds, RadioOff
<1>11. CASE Reset
  <2>1. rx' = <<>> /\ isCollecting' = FALSE /\ UNCHANGED <<sent, hostHead>>
    BY <1>11 DEF Reset
  <2> QED
    BY <2>1, EmptyFifo
<1>12. CASE UNCHANGED all
  BY <1>1, <1>12 DEF all, cli
<1> QED
  BY <1>2, <1>4, <1>5, <1>6, <1>7, <1>8, <1>9, <1>10, <1>11, <1>12 DEF ConsoleNext

-----------------------------------------------------------------------------
(***************************************************************************)
(* Taking bytes off a FIFO leaves none that was not in it; one that the    *)
(* host types at the open prompt carries no lock.                          *)
(***************************************************************************)
LEMMA NoneLockedStep ==
  ASSUME FifoTypes, ReadLoopIgnoresLockedBytes, [ConsoleNext]_all
  PROVE  ReadLoopIgnoresLockedBytes'
<1> USE DEF ReadLoopIgnoresLockedBytes, FifoTypes
<1>1. ASSUME UNCHANGED <<rx, isCollecting, loop>> PROVE ReadLoopIgnoresLockedBytes'
  BY <1>1
<1>2. ASSUME rx' = <<>> \/ isCollecting' PROVE ReadLoopIgnoresLockedBytes'
  BY <1>2
<1>3. ASSUME NEW b \in LineKeys, HostTypes(b) PROVE ReadLoopIgnoresLockedBytes'
  <2>1. UNCHANGED <<isCollecting, loop>>
    BY <1>3 DEF HostTypes, cli
  <2>2. CASE UNCHANGED rx
    BY <1>1, <2>1, <2>2
  <2>3. CASE rx' # rx /\ loop = "read" /\ ~isCollecting
    <3> DEFINE r == [byte |-> b, seq |-> sent + 1, head |-> hostHead, locked |-> isCollecting]
    <3>1. rx' = Append(rx, r)
      BY <1>3, <2>3 DEF HostTypes, Accept
    <3>2. r \in Byte /\ ~r.locked
      BY <1>3, <2>3, TypedByte DEF HostTypes
    <3>3. ASSUME NEW i \in DOMAIN rx' PROVE ~rx'[i].locked
      <4> HIDE DEF r
      <4>1. DOMAIN rx' = 1..Len(rx) + 1 /\ Len(rx) \in Nat
        BY <3>1, <3>2
      <4>2. CASE i \in DOMAIN rx
        <5>1. rx'[i] = rx[i]
          BY <3>1, <3>2, <4>2
        <5> QED
          BY <2>3, <4>2, <5>1
      <4>3. CASE i = Len(rx) + 1
        BY <3>1, <3>2, <4>3
      <4> QED
        BY <4>1, <4>2, <4>3
    <3> QED
      BY <3>3
  <2>4. CASE ~(loop = "read" /\ ~isCollecting)
    BY <2>1, <2>4
  <2> QED
    BY <2>2, <2>3, <2>4
<1>4. ASSUME AtPrompt PROVE ReadLoopIgnoresLockedBytes'
  <2>1. UNCHANGED loop /\ ~isCollecting /\ rx # <<>> /\ rx' = Tail(rx)
    BY <1>4 DEF AtPrompt, Consume
  <2>2. SUFFICES ASSUME loop = "read", NEW i \in DOMAIN rx' PROVE ~rx'[i].locked
    BY <2>1
  <2>3. i + 1 \in DOMAIN rx /\ rx'[i] = rx[i + 1]
    BY <2>1
  <2> QED
    BY <2>1, <2>2, <2>3
<1>5. CASE EditKey
  BY <1>4, <1>5 DEF EditKey
<1>6. CASE Submit
  BY <1>4, <1>6 DEF Submit
<1>7. CASE ReadPanics
  BY <1>1, <1>7 DEF ReadPanics, console
<1>8. CASE DropBurst \/ LockedReadError
  BY <1>2, <1>8 DEF DropBurst, LockedReadError, cli
<1>9. CASE Unlock
  BY <1>9 DEF Unlock, DoneIsSeen, console
<1>10. CASE RunBegins \/ RunEnds \/ RadioOff
  BY <1>1, <1>10 DEF RunBegins, RunEnds, RadioOff, console
<1>11. CASE Reset
  BY <1>2, <1>11 DEF Reset
<1>12. CASE UNCHANGED all
  BY <1>1, <1>12 DEF all, cli, console
<1> QED
  BY <1>3, <1>5, <1>6, <1>7, <1>8, <1>9, <1>10, <1>11, <1>12 DEF ConsoleNext

(* With the async read polled before DONE (main.rs:695-713), no byte that  *)
(* arrived in the locked console is left for the prompt.                   *)
THEOREM LockedBytesNeverRun == ConsoleSpec => []ReadLoopIgnoresLockedBytes
<1>1. ConsoleInit => FifoTypes
  <2> SUFFICES ASSUME ConsoleInit PROVE FifoTypes
    OBVIOUS
  <2>1. rx = <<>> /\ isCollecting = FALSE /\ hostHead = TRUE /\ sent = 0
    BY DEF ConsoleInit
  <2>2. rx \in Seq(Byte) /\ sent \in 0..HostBudget
    BY <2>1, EmptyFifo, NothingSent
  <2> QED
    BY <2>1, <2>2 DEF FifoTypes
<1>2. ConsoleInit => ReadLoopIgnoresLockedBytes
  BY DEF ConsoleInit, ReadLoopIgnoresLockedBytes
<1> QED
  BY <1>1, <1>2, FifoStep, NoneLockedStep, PTL DEF ConsoleSpec
-----------------------------------------------------------------------------
(***************************************************************************)
(* The FIFO holds a stretch of what the host typed, in order and without   *)
(* gaps, except in a locked read loop, which may clear a receive error     *)
(* and go on; that loop unlocks only once it has drained the FIFO.         *)
(***************************************************************************)
NoGaps ==
  \A i \in DOMAIN rx : i + 1 \in DOMAIN rx =>
    /\ rx[i + 1].seq = rx[i].seq + 1
    /\ rx[i + 1].head <=> rx[i].byte = "cr"
EndsAtTheHost ==
  rx # <<>> /\ ~overrun =>
    /\ rx[Len(rx)].seq = sent
    /\ hostHead <=> rx[Len(rx)].byte = "cr"
Stream == ~isCollecting \/ loop # "read" => NoGaps /\ EndsAtTheHost

(* Only a full UART overruns, and it stays full until the error is read.   *)
OverrunIsFull == overrun => Len(rx) = RxCapacity /\ loop # "peek"

(* On an uncut line the next byte to read is the next one the host typed.  *)
PromptFollows ==
  ~cut =>
    /\ ~isCollecting /\ line # "torn"
    /\ rx # <<>> => rx[1].seq = upTo + 1 /\ (rx[1].head <=> line = "none")
    /\ rx = <<>> /\ ~overrun => sent = upTo /\ (hostHead <=> line = "none")

LineInv == Stream /\ OverrunIsFull /\ PromptFollows

LEMMA TailBytes ==
  ASSUME NEW s \in Seq(Byte), s # <<>>
  PROVE  /\ Len(s) \in Nat \ {0} /\ s[1] \in Byte /\ Head(s) = s[1]
         /\ Len(Tail(s)) = Len(s) - 1
         /\ \A i \in DOMAIN Tail(s) : i + 1 \in DOMAIN s /\ Tail(s)[i] = s[i + 1]
  OBVIOUS

LEMMA OneByte ==
  ASSUME NEW s \in Seq(Byte), s # <<>>, Tail(s) = <<>>
  PROVE  Len(s) = 1
<1>1. Len(Tail(s)) = Len(s) - 1 /\ Len(s) \in Nat
  BY HeadTailProperties, LenProperties
<1>2. Len(Tail(s)) = 0
  BY EmptySeq, Zenon
<1> QED
  BY <1>1, <1>2

LEMMA AppendBytes ==
  ASSUME NEW s \in Seq(Byte), NEW r \in Byte
  PROVE  /\ Len(s) \in Nat /\ Len(Append(s, r)) = Len(s) + 1
         /\ DOMAIN Append(s, r) = 1..Len(s) + 1
         /\ \A i \in DOMAIN s : i \in 1..Len(s) /\ Append(s, r)[i] = s[i]
         /\ Append(s, r)[Len(s) + 1] = r
  OBVIOUS

LEMMA SuffixBytes ==
  ASSUME NEW s \in Seq(Byte), NEW n \in 1..Len(s)
  PROVE  LET t == SubSeq(s, n + 1, Len(s))
         IN  /\ Len(t) = Len(s) - n /\ Len(t) \in Nat
             /\ \A i \in DOMAIN t : i + n \in DOMAIN s /\ t[i] = s[i + n]
<1>1. n \in Nat /\ Len(s) \in Nat /\ n >= 1 /\ n <= Len(s)
  OBVIOUS
<1> QED
  BY <1>1

(* What each operation on the FIFO does to a gapless stretch.              *)
LEMMA TailKeepsStream ==
  ASSUME FifoTypes, rx # <<>>, NoGaps, EndsAtTheHost, rx' = Tail(rx),
         UNCHANGED <<overrun, sent, hostHead>>
  PROVE  NoGaps' /\ EndsAtTheHost'
<1>1. rx \in Seq(Byte) /\ Tail(rx) \in Seq(Byte)
  BY DEF FifoTypes
<1>2. NoGaps'
  BY <1>1, TailBytes DEF NoGaps
<1>3. EndsAtTheHost'
  <2> SUFFICES ASSUME rx' # <<>>, ~overrun
               PROVE  rx'[Len(rx')].seq = sent /\ (hostHead <=> rx'[Len(rx')].byte = "cr")
    BY DEF EndsAtTheHost
  <2>1. rx'[Len(rx')] = rx[Len(rx)]
    BY <1>1, TailBytes
  <2> QED
    BY <2>1 DEF EndsAtTheHost
<1> QED
  BY <1>2, <1>3

LEMMA DropKeepsStream ==
  ASSUME FifoTypes, NoGaps, EndsAtTheHost, NEW n \in 1..Len(rx),
         rx' = SubSeq(rx, n + 1, Len(rx)), UNCHANGED <<overrun, sent, hostHead>>
  PROVE  NoGaps' /\ EndsAtTheHost'
<1>1. rx \in Seq(Byte) /\ Len(rx) \in Nat /\ n \in Nat
  BY DEF FifoTypes
<1>2. Len(rx') = Len(rx) - n /\ Len(rx') \in Nat /\ DOMAIN rx' = 1..Len(rx')
      /\ \A i \in DOMAIN rx' : i + n \in DOMAIN rx /\ rx'[i] = rx[i + n]
  BY <1>1, SuffixBytes
<1>3. NoGaps'
  <2> SUFFICES ASSUME NEW i \in DOMAIN rx', i + 1 \in DOMAIN rx'
               PROVE  /\ rx'[i + 1].seq = rx'[i].seq + 1
                      /\ rx'[i + 1].head <=> rx'[i].byte = "cr"
    BY DEF NoGaps
  <2>1. rx'[i] = rx[i + n] /\ rx'[i + 1] = rx[(i + n) + 1]
        /\ i + n \in DOMAIN rx /\ (i + n) + 1 \in DOMAIN rx
    BY <1>1, <1>2
  <2> QED
    BY <2>1 DEF NoGaps
<1>4. EndsAtTheHost'
  <2> SUFFICES ASSUME rx' # <<>>, ~overrun
               PROVE  rx'[Len(rx')].seq = sent /\ (hostHead <=> rx'[Len(rx')].byte = "cr")
    BY DEF EndsAtTheHost
  <2>1. Len(rx') \in DOMAIN rx' /\ Len(rx') + n = Len(rx) /\ rx # <<>>
    BY <1>1, <1>2
  <2>2. rx'[Len(rx')] = rx[Len(rx') + n]
    BY <1>2, <2>1
  <2> QED
    BY <2>1, <2>2 DEF EndsAtTheHost
<1> QED
  BY <1>3, <1>4

LEMMA AppendKeepsStream ==
  ASSUME FifoTypes, NoGaps, EndsAtTheHost, ~overrun, NEW b \in Bytes, NEW r \in Byte,
         r.byte = b, r.seq = sent + 1, r.head = hostHead,
         rx' = Append(rx, r), sent' = sent + 1, hostHead' = (b = "cr")
  PROVE  NoGaps' /\ EndsAtTheHost'
<1>1. rx \in Seq(Byte) /\ sent \in Nat
  BY BudgetIsNat DEF FifoTypes
<1>2. /\ Len(rx) \in Nat /\ Len(rx') = Len(rx) + 1 /\ DOMAIN rx' = 1..Len(rx) + 1
      /\ \A i \in DOMAIN rx : i \in 1..Len(rx) /\ rx'[i] = rx[i]
      /\ rx'[Len(rx) + 1] = r
  BY <1>1, AppendBytes
<1>3. NoGaps'
  <2> SUFFICES ASSUME NEW i \in DOMAIN rx', i + 1 \in DOMAIN rx'
               PROVE  /\ rx'[i + 1].seq = rx'[i].seq + 1
                      /\ rx'[i + 1].head <=> rx'[i].byte = "cr"
    BY DEF NoGaps
  <2>1. i \in DOMAIN rx /\ rx'[i] = rx[i]
    BY <1>1, <1>2
  <2>2. CASE i + 1 \in DOMAIN rx
    BY <1>2, <2>1, <2>2 DEF NoGaps
  <2>3. CASE i = Len(rx)
    <3>1. rx # <<>> /\ rx'[i + 1] = r
      BY <1>1, <1>2, <2>1, <2>3
    <3> QED
      BY <2>1, <2>3, <3>1 DEF EndsAtTheHost
  <2> QED
    BY <1>1, <1>2, <2>2, <2>3
<1>4. EndsAtTheHost'
  BY <1>2 DEF EndsAtTheHost
<1> QED
  BY <1>3, <1>4

-----------------------------------------------------------------------------
(* One step per action; the FIFO's own steps are above.                    *)
LEMMA StreamStep ==
  ASSUME FifoTypes, LineInv, [ConsoleNext]_all
  PROVE  Stream' /\ OverrunIsFull'
<1> DEFINE Goal == Stream' /\ OverrunIsFull'
<1> SUFFICES Goal
  OBVIOUS
<1>0. Stream /\ OverrunIsFull
  BY DEF LineInv
<1>1. ASSUME UNCHANGED <<rx, overrun, sent, hostHead, isCollecting, loop>> PROVE Goal
  BY <1>0, <1>1 DEF Stream, OverrunIsFull, NoGaps, EndsAtTheHost
<1>2. ASSUME rx' = <<>>, overrun' = FALSE PROVE Goal
  BY <1>2 DEF Stream, OverrunIsFull, NoGaps, EndsAtTheHost
<1>3. ASSUME NEW b \in LineKeys, HostTypes(b) PROVE Goal
  <2>1. /\ sent' = sent + 1 /\ hostHead' = (b = "cr") /\ b \in Bytes
        /\ UNCHANGED <<isCollecting, loop>>
    BY <1>3, KeysAreBytes DEF HostTypes, cli
  <2>2. CASE Len(rx) = RxCapacity /\ loop # "peek" /\ overrun' = TRUE /\ UNCHANGED rx
    BY <1>0, <2>1, <2>2 DEF Stream, OverrunIsFull, NoGaps, EndsAtTheHost
  <2>3. CASE Len(rx) < RxCapacity /\ UNCHANGED overrun
             /\ rx' = Append(rx, [byte |-> b, seq |-> sent + 1, head |-> hostHead,
                                  locked |-> isCollecting])
    <3> DEFINE r == [byte |-> b, seq |-> sent + 1, head |-> hostHead, locked |-> isCollecting]
    <3>1. r \in Byte /\ r.byte = b /\ r.seq = sent + 1 /\ r.head = hostHead
      BY <1>3, TypedByte DEF HostTypes
    <3>2. ~overrun
      BY <1>0, <2>3, CapacityIsNat DEF OverrunIsFull, FifoTypes
    <3>3. NoGaps /\ EndsAtTheHost => NoGaps' /\ EndsAtTheHost'
      <4> HIDE DEF r
      <4> QED
        BY <2>1, <2>3, <3>1, <3>2, AppendKeepsStream DEF r
    <3> QED
      BY <1>0, <2>1, <2>3, <3>2, <3>3 DEF Stream, OverrunIsFull
  <2> QED
    BY <1>3, <2>2, <2>3 DEF HostTypes, Accept
<1>4. ASSUME AtPrompt PROVE Goal
  <2>1. /\ ~isCollecting /\ ~overrun /\ rx # <<>> /\ rx' = Tail(rx)
        /\ UNCHANGED <<overrun, sent, hostHead>>
    BY <1>4 DEF AtPrompt, Consume
  <2> QED
    BY <1>0, <2>1, TailKeepsStream DEF Stream, OverrunIsFull
<1>5. CASE EditKey \/ Submit
  BY <1>4, <1>5 DEF EditKey, Submit
<1>6. CASE ReadPanics
  BY <1>1, <1>6 DEF ReadPanics, console
<1>7. CASE DropBurst
  <2>1. /\ isCollecting /\ UNCHANGED <<overrun, sent, hostHead, isCollecting, loop>>
        /\ loop \in {"peek", "read"} /\ (loop = "read" => ~overrun)
    BY <1>7 DEF DropBurst, cli
  <2>2. PICK n \in 1..Len(rx) : rx' = SubSeq(rx, n + 1, Len(rx))
    BY <1>7 DEF DropBurst
  <2>3. Stream'
    BY <1>0, <2>1, <2>2, DropKeepsStream DEF Stream
  <2>4. ~overrun'
    BY <1>0, <2>1 DEF OverrunIsFull
  <2> QED
    BY <2>3, <2>4 DEF OverrunIsFull
<1>8. CASE LockedReadError
  BY <1>8 DEF LockedReadError, Stream, OverrunIsFull, cli
<1>9. CASE Unlock
  <2>1. /\ UNCHANGED <<rx, overrun, sent, hostHead, loop>>
        /\ loop = "read" => rx = <<>>
    BY <1>9 DEF Unlock, DoneIsSeen, console
  <2>2. CASE loop = "read"
    BY <1>0, <2>1, <2>2 DEF Stream, OverrunIsFull, NoGaps, EndsAtTheHost
  <2>3. CASE loop # "read"
    BY <1>0, <2>1, <2>3 DEF Stream, OverrunIsFull, NoGaps, EndsAtTheHost
  <2> QED
    BY <2>2, <2>3
<1>10. CASE RunBegins \/ RunEnds \/ RadioOff
  BY <1>1, <1>10 DEF RunBegins, RunEnds, RadioOff, console
<1>11. CASE Reset
  BY <1>2, <1>11 DEF Reset
<1>12. CASE UNCHANGED all
  BY <1>1, <1>12 DEF all, cli, console
<1> QED
  BY <1>3, <1>5, <1>6, <1>7, <1>8, <1>9, <1>10, <1>11, <1>12 DEF ConsoleNext

LEMMA PromptStep ==
  ASSUME FifoTypes, LineInv, [ConsoleNext]_all
  PROVE  PromptFollows'
<1>0. Stream /\ OverrunIsFull /\ PromptFollows
  BY DEF LineInv
<1>1. ASSUME UNCHANGED <<rx, overrun, sent, hostHead, isCollecting, history>>
      PROVE  PromptFollows'
  BY <1>0, <1>1 DEF PromptFollows, history
<1>2. ASSUME cut' PROVE PromptFollows'
  BY <1>2 DEF PromptFollows
<1>3. ASSUME isCollecting, UNCHANGED cut PROVE PromptFollows'
  BY <1>0, <1>3 DEF PromptFollows
<1>4. ASSUME NEW b \in LineKeys, HostTypes(b) PROVE PromptFollows'
  <2>1. /\ sent' = sent + 1 /\ UNCHANGED <<isCollecting, history>>
    BY <1>4 DEF HostTypes, cli
  <2>2. CASE overrun' = TRUE /\ UNCHANGED rx /\ Len(rx) = RxCapacity
    <3>1. rx # <<>>
      BY <2>2, CapacityIsNat
    <3> QED
      BY <1>0, <2>1, <2>2, <3>1 DEF PromptFollows, history
  <2>3. CASE Len(rx) < RxCapacity /\ UNCHANGED overrun
             /\ rx' = Append(rx, [byte |-> b, seq |-> sent + 1, head |-> hostHead,
                                  locked |-> isCollecting])
    <3> DEFINE r == [byte |-> b, seq |-> sent + 1, head |-> hostHead, locked |-> isCollecting]
    <3>1. r \in Byte /\ r.seq = sent + 1 /\ r.head = hostHead
      BY <1>4, TypedByte DEF HostTypes
    <3>2. ~overrun
      BY <1>0, <2>3, CapacityIsNat DEF OverrunIsFull, FifoTypes
    <3> HIDE DEF r
    <3>3. rx \in Seq(Byte) /\ rx' = Append(rx, r)
      BY <2>3 DEF FifoTypes, r
    <3>4. rx' # <<>>
      BY <3>1, <3>3
    <3>5. CASE rx = <<>>
      <4>1. rx'[1] = r
        BY <3>1, <3>3, <3>5
      <4> QED
        BY <1>0, <2>1, <3>1, <3>2, <3>4, <3>5, <4>1 DEF PromptFollows, history
    <3>6. CASE rx # <<>>
      <4>1. rx'[1] = rx[1]
        BY <3>1, <3>3, <3>6
      <4> QED
        BY <1>0, <2>1, <3>4, <3>6, <4>1 DEF PromptFollows, history
    <3> QED
      BY <3>5, <3>6
  <2> QED
    BY <1>4, <2>2, <2>3 DEF HostTypes, Accept
(* After the first byte of the FIFO comes the second, or the host's next.  *)
<1>5. ASSUME AtPrompt
      PROVE  /\ ~isCollecting /\ rx # <<>> /\ upTo' = rx[1].seq /\ Head(rx) = rx[1]
             /\ rx' # <<>> => rx'[1].seq = upTo' + 1
                              /\ (rx'[1].head <=> Head(rx).byte = "cr")
             /\ rx' = <<>> /\ ~overrun' => sent' = upTo'
                                         /\ (hostHead' <=> Head(rx).byte = "cr")
  <2>1. /\ ~isCollecting /\ ~overrun /\ rx # <<>> /\ rx' = Tail(rx)
        /\ upTo' = Head(rx).seq /\ UNCHANGED <<overrun, sent, hostHead>>
    BY <1>5 DEF AtPrompt, Consume
  <2>2. NoGaps /\ EndsAtTheHost
    BY <1>0, <2>1 DEF Stream
  <2>3. rx \in Seq(Byte) /\ Head(rx) = rx[1]
    BY <2>1, TailBytes DEF FifoTypes
  <2>4. CASE rx' # <<>>
    <3>1. 1 \in DOMAIN rx /\ 2 \in DOMAIN rx /\ rx'[1] = rx[2]
      BY <2>1, <2>3, <2>4, TailBytes
    <3>2. rx[1 + 1].seq = rx[1].seq + 1 /\ (rx[1 + 1].head <=> rx[1].byte = "cr")
      BY <2>2, <3>1 DEF NoGaps
    <3> QED
      BY <2>1, <2>3, <2>4, <3>1, <3>2
  <2>5. CASE rx' = <<>>
    <3>1. Len(rx) = 1
      BY <2>1, <2>3, <2>5, OneByte
    <3> QED
      BY <2>1, <2>2, <2>3, <2>5, <3>1 DEF EndsAtTheHost
  <2> QED
    BY <2>1, <2>3, <2>4, <2>5
<1>6. CASE EditKey
  <2>1. AtPrompt /\ Head(rx).byte # "cr" /\ line' = OnLine(Head(rx))
        /\ UNCHANGED <<cut, isCollecting>>
    BY <1>6 DEF EditKey
  <2>2. SUFFICES ASSUME ~cut PROVE PromptFollows'
    BY <1>2, <2>1 DEF PromptFollows
  <2>3. line' \notin {"torn", "none"}
    BY <1>0, <1>5, <2>1, <2>2 DEF PromptFollows, OnLine
  <2> QED
    BY <1>5, <2>1, <2>3 DEF PromptFollows
<1>7. CASE Submit
  <2>1. AtPrompt /\ Head(rx).byte = "cr" /\ line' = "none" /\ cut' = isCollecting'
    BY <1>7 DEF Submit
  <2> QED
    BY <1>5, <2>1 DEF PromptFollows
<1>8. CASE ReadPanics
  BY <1>1, <1>8 DEF ReadPanics, console
<1>9. CASE DropBurst \/ LockedReadError \/ Unlock
  BY <1>3, <1>9 DEF DropBurst, LockedReadError, Unlock, history
<1>10. CASE RunBegins \/ RunEnds \/ RadioOff
  BY <1>1, <1>10 DEF RunBegins, RunEnds, RadioOff, console
<1>11. CASE Reset
  BY <1>2, <1>11 DEF Reset
<1>12. CASE UNCHANGED all
  BY <1>1, <1>12 DEF all, cli, console
<1> QED
  BY <1>4, <1>6, <1>7, <1>8, <1>9, <1>10, <1>11, <1>12 DEF ConsoleNext

(* Only the line that a lock, an unlock or a boot has cut can lack bytes   *)
(* the host typed; every later line of the prompt is one of the host's.    *)
THEOREM EnterResynchronises == ConsoleSpec => []OnlyFirstLineIsTorn
<1>1. ConsoleInit => FifoTypes /\ LineInv
  <2> SUFFICES ASSUME ConsoleInit PROVE FifoTypes /\ LineInv
    OBVIOUS
  <2>1. /\ rx = <<>> /\ isCollecting = FALSE /\ hostHead = TRUE /\ sent = 0
        /\ overrun = FALSE /\ cut = TRUE
    BY DEF ConsoleInit
  <2>2. rx \in Seq(Byte) /\ sent \in 0..HostBudget
    BY <2>1, EmptyFifo, NothingSent
  <2>3. FifoTypes
    BY <2>1, <2>2 DEF FifoTypes
  <2>4. LineInv
    BY <2>1 DEF LineInv, Stream, NoGaps, EndsAtTheHost, OverrunIsFull, PromptFollows
  <2> QED
    BY <2>3, <2>4
<1>2. FifoTypes /\ LineInv /\ [ConsoleNext]_all => FifoTypes' /\ LineInv'
  BY FifoStep, StreamStep, PromptStep DEF LineInv
<1>3. LineInv => OnlyFirstLineIsTorn
  BY DEF LineInv, PromptFollows, OnlyFirstLineIsTorn
<1> QED
  BY <1>1, <1>2, <1>3, PTL DEF ConsoleSpec

-----------------------------------------------------------------------------
(***************************************************************************)
(* The editor behind the FIFO and the lock.  A step of the console feeds   *)
(* it one of the host's keys, starts it afresh, or leaves it alone: the    *)
(* unlock resets only what the Enter that locked had left empty.           *)
(***************************************************************************)
EditorStep == [Next]_vars \/ Init'

LEMMA EditorIsDriven ==
  ASSUME FifoTypes, LockedLineIsEmpty, [ConsoleNext]_all
  PROVE  EditorStep
<1>1. ASSUME UNCHANGED editor PROVE EditorStep
  BY <1>1 DEF EditorStep, editor
<1>2. ASSUME NEW b \in LineKeys, HostTypes(b) PROVE EditorStep
  BY <1>1, <1>2 DEF HostTypes
<1>3. ASSUME AtPrompt PROVE Head(rx).byte \in LineKeys
  <2>1. rx \in Seq(Byte) /\ rx # <<>>
    BY <1>3 DEF AtPrompt, FifoTypes
  <2>2. Head(rx) \in Byte
    BY <2>1
  <2>. QED
    BY <2>2 DEF Byte
<1>4. ASSUME NEW b \in LineKeys, Input(b) PROVE EditorStep
  BY <1>4 DEF EditorStep, Next
<1>5. CASE EditKey
  <2>1. AtPrompt /\ (Input(Head(rx).byte) \/ UNCHANGED editor)
    BY <1>5 DEF EditKey
  <2>. QED
    BY <1>1, <1>3, <1>4, <2>1
<1>6. CASE Submit
  <2>1. AtPrompt /\ Head(rx).byte = "cr" /\ CarriageReturn
    BY <1>6 DEF Submit
  <2>2. "cr" \in LineKeys
    BY <1>3, <2>1
  <2>3. Input("cr")
    BY <2>1 DEF Input
  <2>. QED
    BY <1>4, <2>2, <2>3
<1>7. CASE ReadPanics \/ RunBegins \/ RunEnds \/ RadioOff
  BY <1>1, <1>7 DEF ReadPanics, RunBegins, RunEnds, RadioOff
<1>8. CASE DropBurst \/ LockedReadError
  BY <1>1, <1>8 DEF DropBurst, LockedReadError
<1>9. CASE Unlock
  BY <1>1, <1>9 DEF Unlock, LockedLineIsEmpty, editor, vars
<1>10. CASE Reset
  BY <1>10 DEF Reset, EditorStep, Init
<1>11. CASE UNCHANGED all
  BY <1>1, <1>11 DEF all
<1>. QED
  BY <1>2, <1>5, <1>6, <1>7, <1>8, <1>9, <1>10, <1>11 DEF ConsoleNext

LEMMA FifoInitially == ConsoleInit => FifoTypes /\ LockedLineIsEmpty
<1>. SUFFICES ASSUME ConsoleInit PROVE FifoTypes /\ LockedLineIsEmpty
  OBVIOUS
<1>1. rx = <<>> /\ isCollecting = FALSE /\ hostHead = TRUE /\ sent = 0
  BY DEF ConsoleInit
<1>2. rx \in Seq(Byte) /\ sent \in 0..HostBudget
  BY <1>1, EmptyFifo, NothingSent
<1>. QED
  BY <1>1, <1>2 DEF FifoTypes, LockedLineIsEmpty

LEMMA LockedFifoHolds == ConsoleSpec => [](FifoTypes /\ LockedLineIsEmpty)
BY FifoInitially, FifoStep, LockedLineStep, PTL DEF ConsoleSpec

(* Whatever the FIFO, the lock loops, the unlock and the resets do, the    *)
(* editor behind them is LineEditor with restarts (main.rs:708-727): it    *)
(* takes LineEditor's steps and, at a boot, begins where LineEditor does.  *)
THEOREM ConsoleDrivesTheEditor == ConsoleSpec => Init /\ [][Next \/ Init']_vars
<1>1. ConsoleInit => Init
  BY DEF ConsoleInit
<1>2. FifoTypes /\ LockedLineIsEmpty /\ [ConsoleNext]_all => [Next \/ Init']_vars
  BY EditorIsDriven DEF EditorStep
<1>. QED
  BY <1>1, <1>2, LockedFifoHolds, PTL DEF ConsoleSpec

LEMMA CommandInvHolds == ConsoleSpec => []CommandInv
<1>1. CommandInv /\ [Next \/ Init']_vars => CommandInv'
  <2>1. Init' => CommandInv'
    BY CommandInitially, PTL
  <2>2. CommandInv /\ (Next \/ UNCHANGED vars) => CommandInv'
    BY CommandPreserved
  <2>. QED
    BY <2>1, <2>2
<1>. QED
  BY <1>1, CommandInitially, ConsoleDrivesTheEditor, PTL

(* So what LineEditor proves of a line holds of every line typed at this   *)
(* prompt, before, between and after runs, resets and panics: the count    *)
(* mirrors menu's `used` (main.rs:628), the open quote is the shadow's     *)
(* (main.rs:610), and an intact line is mirrored by the shadow and is the  *)
(* command menu will run (main.rs:615, 778).                               *)
THEOREM EditorBehindTheLock ==
  ConsoleSpec => [](TypeOK /\ ForwardedMirrorsUsed /\ QuoteMatchesShadow
                      /\ ShadowMirrorsLine /\ IntactLineIsCommand)
<1>1. CommandInv => /\ TypeOK /\ ForwardedMirrorsUsed /\ QuoteMatchesShadow
                    /\ ShadowMirrorsLine /\ IntactLineIsCommand
  BY DEF CommandInv, MirrorInv, Inv, Mirrored, Mirror, Coherent,
         ShadowMirrorsLine, IntactLineIsCommand, CommandIsVisibleLine
<1>. QED
  BY <1>1, CommandInvHolds, PTL

(* And the whole console keeps the editor's promise: locks, unlocks and    *)
(* drained bytes leave line and command alone, and a reset is an Enter     *)
(* (main.rs:708-727).                                                      *)
THEOREM ConsoleImplementsCommandLine == ConsoleSpec => Shell!Spec
<1>1. Init => Shell!Init
  BY DEF Init, Shell!Init
<1>2. CommandInv /\ [Next \/ Init']_vars => ShellStep
  <2>1. Init' => Shell!Enter
    BY DEF Init, Shell!Enter
  <2>. QED
    BY <2>1, EditorIsShell DEF ShellStep, Shell!Next
<1>. QED
  BY <1>1, <1>2, CommandInvHolds, ConsoleDrivesTheEditor, PTL DEF Shell!Spec, ShellStep

-----------------------------------------------------------------------------
(***************************************************************************)
(* The types of the console.                                               *)
(***************************************************************************)
LEMMA FifoFits ==
  ASSUME FifoTypes, Len(rx) <= RxCapacity, [ConsoleNext]_all
  PROVE  Len(rx') <= RxCapacity
<1>1. rx \in Seq(Byte) /\ Len(rx) \in Nat /\ RxCapacity \in Nat \ {0}
  BY CapacityIsNat DEF FifoTypes
<1>2. ASSUME rx' \in {rx, <<>>} PROVE Len(rx') <= RxCapacity
  BY <1>1, <1>2
<1>3. ASSUME NEW b \in LineKeys, HostTypes(b) PROVE Len(rx') <= RxCapacity
  <2>1. CASE UNCHANGED rx
    BY <1>2, <2>1
  <2>2. CASE rx' # rx
    <3> DEFINE r == [byte |-> b, seq |-> sent + 1, head |-> hostHead, locked |-> isCollecting]
    <3>1. rx' = Append(rx, r) /\ Len(rx) < RxCapacity
      BY <1>3, <2>2 DEF HostTypes, Accept
    <3>2. r \in Byte
      BY <1>3, TypedByte DEF HostTypes
    <3> HIDE DEF r
    <3>. QED
      BY <1>1, <3>1, <3>2
  <2>. QED
    BY <2>1, <2>2
<1>4. ASSUME AtPrompt PROVE Len(rx') <= RxCapacity
  BY <1>1, <1>4, TailBytes DEF AtPrompt, Consume
<1>5. CASE EditKey \/ Submit
  BY <1>4, <1>5 DEF EditKey, Submit
<1>6. CASE DropBurst
  <2>1. PICK n \in 1..Len(rx) : rx' = SubSeq(rx, n + 1, Len(rx))
    BY <1>6 DEF DropBurst
  <2>2. Len(rx') = Len(rx) - n /\ n \in Nat
    BY <1>1, <2>1, SuffixBytes
  <2>. QED
    BY <1>1, <2>2
<1>7. CASE LockedReadError \/ Reset
  BY <1>2, <1>7 DEF LockedReadError, Reset
<1>8. CASE ReadPanics \/ Unlock \/ RunBegins \/ RunEnds \/ RadioOff
  BY <1>2, <1>8 DEF ReadPanics, Unlock, RunBegins, RunEnds, RadioOff, console
<1>9. CASE UNCHANGED all
  BY <1>2, <1>9 DEF all, console
<1>. QED
  BY <1>3, <1>5, <1>6, <1>7, <1>8, <1>9 DEF ConsoleNext

(* The other variables.                                                    *)
RestTypes ==
  /\ loop \in Loops
  /\ overrun \in BOOLEAN /\ halted \in BOOLEAN /\ cut \in BOOLEAN
  /\ run \in {"none", "asked", "going", "ended"}
  /\ rebooting \in {"no", "asked", "radio off"}
  /\ line \in {"none", "whole", "torn"}
  /\ upTo \in 0..HostBudget

LEMMA RestStep ==
  ASSUME FifoTypes, RestTypes, [ConsoleNext]_all
  PROVE  RestTypes'
<1>1. ASSUME UNCHANGED <<cli, history>>, overrun' \in BOOLEAN PROVE RestTypes'
  BY <1>1 DEF RestTypes, cli, history
<1>2. ASSUME NEW b \in LineKeys, HostTypes(b) PROVE RestTypes'
  <2>1. overrun' \in BOOLEAN
    BY <1>2 DEF HostTypes, Accept, RestTypes
  <2>. QED
    BY <1>1, <1>2, <2>1 DEF HostTypes
<1>3. ASSUME AtPrompt
      PROVE  upTo' \in 0..HostBudget /\ OnLine(Head(rx)) \in {"none", "whole", "torn"}
             /\ UNCHANGED <<overrun, halted, loop>>
  <2>1. rx \in Seq(Byte) /\ rx # <<>> /\ upTo' = Head(rx).seq
    BY <1>3 DEF AtPrompt, FifoTypes
  <2>2. Head(rx).seq \in 1..HostBudget
    <3>1. Head(rx) \in Byte
      BY <2>1
    <3>. QED
      BY <3>1 DEF Byte
  <2>3. upTo' \in 0..HostBudget
    BY <2>1, <2>2, BudgetIsNat
  <2>4. OnLine(Head(rx)) \in {"none", "whole", "torn"}
    BY DEF OnLine, RestTypes
  <2>. QED
    BY <1>3, <2>3, <2>4 DEF AtPrompt
<1>4. CASE EditKey
  BY <1>3, <1>4 DEF EditKey, RestTypes
<1>5. CASE Submit
  <2>1. /\ cut' \in BOOLEAN /\ line' = "none"
        /\ run' \in {"asked", run} /\ rebooting' \in {"asked", rebooting}
    BY <1>5 DEF Submit, Execute
  <2>. QED
    BY <1>3, <1>5, <2>1 DEF Submit, RestTypes
<1>6. CASE ReadPanics
  BY <1>6 DEF ReadPanics, RestTypes, console, history
<1>7. CASE DropBurst \/ LockedReadError
  BY <1>1, <1>7 DEF DropBurst, LockedReadError, RestTypes
<1>8. CASE Unlock
  BY <1>8 DEF Unlock, RestTypes, console, history
<1>9. CASE RunBegins \/ RunEnds \/ RadioOff
  BY <1>9 DEF RunBegins, RunEnds, RadioOff, RestTypes, console, history
<1>10. CASE Reset
  BY <1>10 DEF Reset, RestTypes
<1>11. CASE UNCHANGED all
  BY <1>1, <1>11 DEF all, console, RestTypes
<1>. QED
  BY <1>2, <1>4, <1>5, <1>6, <1>7, <1>8, <1>9, <1>10, <1>11 DEF ConsoleNext

LEMMA RestInitially == ConsoleInit => RestTypes /\ Len(rx) <= RxCapacity
<1>. SUFFICES ASSUME ConsoleInit PROVE RestTypes /\ Len(rx) <= RxCapacity
  OBVIOUS
<1>1. /\ loop \in Loops /\ rx = <<>> /\ overrun = FALSE /\ run = "none"
      /\ rebooting = "no" /\ halted = FALSE /\ line = "none" /\ upTo = 0 /\ cut = TRUE
  BY DEF ConsoleInit
<1>2. Len(rx) <= RxCapacity
  BY <1>1, CapacityIsNat
<1>. QED
  BY <1>1, <1>2, NothingSent DEF RestTypes

(* The console's types: in particular the receive FIFO never holds more    *)
(* than its capacity, the prompt reads only bytes that were typed, and a   *)
(* reset never settles on a lock loop the image does not have.             *)
THEOREM ConsoleTypeCorrect == ConsoleSpec => []ConsoleTypeOK
<1> DEFINE Types == FifoTypes /\ RestTypes /\ Len(rx) <= RxCapacity
<1>1. ConsoleInit => Types
  BY FifoInitially, RestInitially
<1>2. Types /\ [ConsoleNext]_all => Types'
  BY FifoStep, RestStep, FifoFits
<1>3. Types => ConsoleTypeOK
  <2>1. \A r \in Byte : r \in Received
    BY KeysAreBytes DEF Byte, Received
  <2>2. \A s \in Seq(Byte) : s \in Seq(Received)
    BY <2>1
  <2>. QED
    BY <2>2 DEF FifoTypes, RestTypes, ConsoleTypeOK
<1> HIDE DEF Types
<1>. QED
  BY <1>1, <1>2, <1>3, PTL DEF ConsoleSpec

-----------------------------------------------------------------------------
(***************************************************************************)
(* The two tables, compared pair by pair.                                  *)
(***************************************************************************)
LEMMA TablesAgree ==
  ASSUME NEW chip \in Chips, NEW item, NEW flag
  PROVE  <<item, flag>> \in LookedUp(chip) <=>
           /\ <<item, flag>> \in Declared(chip)
           /\ <<item, flag>> # <<"set-measurement", "type">>
BY DEF LookedUp, Declared, IsAx, Ax, C5, Chips,
       SetMeasurementItem, SetCsiOutputItem, SetCsiFilterItem, SetLogModeItem,
       ClassicCsiItem, AxCsiItem, SetWifiItem, StartItem, SetRateItem,
       SetProtocolItem, SetIoTasksItem, SetCsiDeliveryItem, SetReportingItem,
       SetSessionItem,
       MeasurementLookups, CsiOutputLookups, CsiFilterLookups, LogModeLookups,
       ClassicCsiLookups, AxCsiLookups, NetworkLookups, RadioLookups, StartLookups,
       RateLookups, ProtocolLookups, IoTasksLookups, CsiDeliveryLookups,
       ReportingLookups, SessionLookups

LEMMA EveryImageHears == Chips \subseteq HearsItsFlags
<1>1. ASSUME NEW chip \in Chips, NEW pair \in LookedUp(chip) \cup Declared(chip)
      PROVE  \E item, flag : pair = <<item, flag>>
  BY DEF LookedUp, Declared
<1>. QED
  BY <1>1, TablesAgree DEF HearsItsFlags

(* In no image, with whichever lock loop, does a handler look up a flag    *)
(* its item does not declare, or never look up one it does (mod.rs:457).   *)
THEOREM EveryFlagIsHeard == ConsoleSpec => []NoFlagIsIgnored
<1>1. NoFlagIsIgnored
  BY EveryImageHears DEF NoFlagIsIgnored, ChipsWith
<1>. QED
  BY <1>1, PTL
=============================================================================
