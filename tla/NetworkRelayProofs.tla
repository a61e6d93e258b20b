------------------------- MODULE NetworkRelayProofs -------------------------
(***************************************************************************)
(* Proofs about the relay, for every size of the buffer and every length   *)
(* of a source: its types, the bound on what is read ahead, the order of   *)
(* what is delivered, and the closing of the source; and about a streamed  *)
(* completion, which is a relay: the credit of the model follows the       *)
(* source, and the router hears how the stream went.                       *)
(***************************************************************************)
EXTENDS ManagedStream, TLAPS

Items == {Failure, End} \cup 1..MaxChunks

\* What the producer holds, by the place it is at.
HeldByPlace ==
  /\ ppc = "putting" => held \in 1..MaxChunks
  /\ ppc = "terminal" => held \in {End, Failure}
  /\ ppc \notin {"putting", "terminal"} => held = Nothing

\* A source is open from the start of the producer to its terminal item.
OpenByPlace == ppc \in {"start", "terminal", "done"} => ~open

\* Where the caller is when the relay is left, and when it has an outcome.
CallerByPlace ==
  /\ closing <=> cpc \in {"join", "exited"}
  /\ cpc = "exited" => ppc = "done"
  /\ cpc \in {"body", "get"} => outcome = "streaming"
  /\ cpc = "end" => outcome = "exhausted"

\* Before the relay is left, only the source cancels the producer, so that one
\* that has not run yet is not cancelled.
CancelledBySource == pcancel /\ ~closing => ppc \in {"reading", "putting", "terminal"}

\* A stream that came to its end has a producer that did.
EndedTogether == outcome \in {"exhausted", "failed"} => ppc = "done" /\ delivered = Kept

\* A chunk that was taken from the producer is the last it reads, and a failure
\* follows; a terminal item that was taken was the last of all.
LostLast ==
  /\ "chunk" \in lost =>
       /\ ppc \in {"cleanup", "terminal", "done"} /\ read > 0
       /\ ~closing => \A i \in 1..Len(InFlight) : InFlight[i] # End
  /\ "terminal" \in lost => ppc = "done" /\ outcome \notin {"exhausted", "failed"}
  /\ outcome = "exhausted" => lost = {}

\* The terminal item is in flight or was delivered.
Closed == ppc \in {"terminal", "done"} /\ "terminal" \notin lost

\* How much is in flight before the relay is left: the chunks that were read and
\* not delivered, and a terminal item once the source has ended.
Level ==
  ~closing =>
    /\ delivered <= Kept
    /\ ~Closed => Len(InFlight) = Kept - delivered
    /\ Closed /\ outcome = "streaming" => Len(InFlight) = Kept - delivered + 1
    /\ outcome # "streaming" => Len(InFlight) = 0

\* What is in flight, item by item.
InOrder ==
  ~closing => \A i \in 1..Len(InFlight) :
    IF delivered + i <= Kept THEN InFlight[i] = delivered + i ELSE InFlight[i] \in {End, Failure}

IInv ==
  /\ TypeOK /\ Len(queue) <= BufferChunks
  /\ HeldByPlace /\ OpenByPlace /\ CallerByPlace /\ CancelledBySource
  /\ EndedTogether /\ LostLast /\ Level /\ InOrder

-----------------------------------------------------------------------------

\* What is in flight is a sequence of items.
LEMMA InFlightType ==
  ASSUME TypeOK, HeldByPlace
  PROVE  /\ InFlight \in Seq(Items)
         /\ Len(InFlight) \in Nat
         /\ held = Nothing => Len(InFlight) = Len(queue)
         /\ held # Nothing => Len(InFlight) = Len(queue) + 1
<1>1. queue \in Seq(Items)
  BY DEF TypeOK, Items
<1>2. held # Nothing => held \in Items
  BY DEF TypeOK, Items, Nothing
<1> QED
  BY <1>1, <1>2 DEF InFlight

\* A put by a producer that holds nothing adds its item to what is in flight.
LEMMA PutEffect ==
  ASSUME TypeOK, held = Nothing, NEW value \in Items,
         NEW blocked, NEW after, NEW cancels \in BOOLEAN, Put(value, blocked, after, cancels)
  PROVE  /\ InFlight' = Append(InFlight, value)
         /\ Full => ppc' = blocked /\ held' = value /\ queue' = queue
         /\ ~Full => ppc' = after /\ held' = Nothing /\ queue' = Append(queue, value)
         /\ pcancel' \in BOOLEAN /\ (pcancel' => ppc' = blocked)
<1>1. value # Nothing
  BY ConstantsAssumption DEF Items, Nothing, Failure, End
<1> QED
  BY <1>1 DEF Put, InFlight

\* A blocked put that finds room leaves what is in flight as it is.
LEMMA UnblockEffect ==
  ASSUME TypeOK, HeldByPlace, Unblock
  PROVE  /\ InFlight' = InFlight /\ held' = Nothing /\ queue' = Append(queue, held)
         /\ pcancel' = FALSE
         /\ ppc = "putting" => ppc' = "reading"
         /\ ppc = "terminal" => ppc' = "done"
<1>1. held # Nothing
  BY ConstantsAssumption DEF Unblock, HeldByPlace, Nothing, Failure, End
<1> QED
  BY <1>1 DEF Unblock, Put, InFlight

\* Taking the head of the queue takes the first item in flight.
LEMMA TakeEffect ==
  ASSUME TypeOK, HeldByPlace, queue # <<>>, queue' = Tail(queue), held' = held
  PROVE  /\ InFlight # <<>> /\ InFlight' = Tail(InFlight) /\ InFlight[1] = Head(queue)
         /\ Len(InFlight') = Len(InFlight) - 1
         /\ \A i \in 1..Len(InFlight') : InFlight'[i] = InFlight[i + 1]
<1>1. queue \in Seq(Items) /\ (held # Nothing => held \in Items)
  BY DEF TypeOK, Items, Nothing
<1>2. CASE held = Nothing
  BY <1>1, <1>2 DEF InFlight
<1>3. CASE held # Nothing
  <2>1. InFlight = Append(queue, held) /\ InFlight' = Append(Tail(queue), held)
    BY <1>3 DEF InFlight
  <2>2. Len(queue) \in Nat \ {0} /\ Tail(queue) \in Seq(Items) /\ Len(Tail(queue)) = Len(queue) - 1
    BY <1>1
  <2>3. InFlight \in Seq(Items) /\ InFlight' \in Seq(Items) /\ Len(InFlight) = Len(queue) + 1
        /\ Len(InFlight') = Len(queue)
    BY <1>1, <1>3, <2>1, <2>2
  <2>4. \A i \in 1..Len(InFlight') : InFlight'[i] = InFlight[i + 1]
    BY <1>1, <1>3, <2>1, <2>2, <2>3
  <2>5. InFlight[1] = Head(queue) /\ InFlight # <<>>
    BY <1>1, <1>3, <2>1, <2>2, <2>3
  <2>6. InFlight' = Tail(InFlight)
    BY <2>3, <2>4
  <2> QED
    BY <2>3, <2>4, <2>5, <2>6
<1> QED
  BY <1>2, <1>3

\* Sequences of items that differ by an item at their end.
LEMMA AppendItems ==
  ASSUME NEW s \in Seq(Items), NEW value \in Items
  PROVE  /\ Len(Append(s, value)) = Len(s) + 1
         /\ \A i \in 1..Len(s) : Append(s, value)[i] = s[i]
         /\ Append(s, value)[Len(s) + 1] = value
OBVIOUS

\* A producer that loses what it holds takes the last item from what is in flight.
LEMMA DropEffect ==
  ASSUME TypeOK, HeldByPlace, held # Nothing, held' = Nothing, queue' = queue
  PROVE  /\ Len(InFlight') \in Nat /\ Len(InFlight') = Len(InFlight) - 1
         /\ \A i \in 1..Len(InFlight') : i \in 1..Len(InFlight) /\ InFlight'[i] = InFlight[i]
<1>1. queue \in Seq(Items) /\ held \in Items
  BY DEF TypeOK, Items, Nothing
<1>2. InFlight' = queue /\ InFlight = Append(queue, held)
  BY DEF InFlight
<1> QED
  BY <1>1, <1>2

\* The chunks that were kept are a number of those that were read.
LEMMA KeptType ==
  ASSUME TypeOK, LostLast
  PROVE  Kept \in 0..MaxChunks /\ Kept <= read
<1>1. read \in 0..MaxChunks /\ ("chunk" \in lost => read > 0)
  BY DEF TypeOK, LostLast
<1> QED
  BY <1>1, ConstantsAssumption DEF Kept, ConstantsAssumption

\* While the source runs, no terminal item is in flight and none was delivered.
LEMMA RunningHasNoEnd ==
  ASSUME IInv, ppc \notin {"terminal", "done"}
  PROVE  /\ outcome \notin {"exhausted", "failed"}
         /\ ~closing => \A i \in 1..Len(InFlight) : InFlight[i] \notin {End, Failure}
<1>1. outcome \notin {"exhausted", "failed"}
  BY DEF IInv, EndedTogether
<1>2. ASSUME ~closing, NEW i \in 1..Len(InFlight) PROVE InFlight[i] \notin {End, Failure}
  <2>1. Kept \in Int /\ delivered \in Nat /\ Len(InFlight) = Kept - delivered
    BY <1>2, KeptType, ConstantsAssumption DEF IInv, TypeOK, Level, Closed, ConstantsAssumption
  <2>2. IF delivered + i <= Kept THEN InFlight[i] = delivered + i ELSE InFlight[i] \in {End, Failure}
    BY <1>2 DEF IInv, InOrder
  <2>3. InFlight[i] = delivered + i
    BY <2>1, <2>2
  <2> QED
    BY <2>1, <2>3 DEF End, Failure
<1> QED
  BY <1>1, <1>2

-----------------------------------------------------------------------------

LEMMA InitIInv == Init => IInv
<1> SUFFICES ASSUME Init PROVE IInv
  OBVIOUS
<1> USE ConstantsAssumption DEF ConstantsAssumption, Init
<1>1. TypeOK /\ Len(queue) <= BufferChunks
  <2>1. pcancel \in BOOLEAN /\ open \in BOOLEAN /\ closing \in BOOLEAN
    BY Zenon
  <2>2. queue \in Seq(Items) /\ Len(queue) <= BufferChunks
    OBVIOUS
  <2>3. read \in 0..MaxChunks /\ delivered \in 0..MaxChunks
    OBVIOUS
  <2>4. ppc = "start" /\ held = Nothing /\ cpc = "body" /\ outcome = "streaming" /\ lost = {}
    OBVIOUS
  <2> QED
    BY <2>1, <2>2, <2>3, <2>4, Zenon DEF TypeOK, Items
<1>2. HeldByPlace /\ OpenByPlace /\ CallerByPlace /\ CancelledBySource /\ EndedTogether /\ LostLast
  BY DEF HeldByPlace, OpenByPlace, CallerByPlace, CancelledBySource, EndedTogether, LostLast
<1>3. InFlight = <<>> /\ Kept = 0
  BY DEF InFlight, Kept
<1>4. Level /\ InOrder
  BY <1>3 DEF Level, InOrder, Closed
<1> QED
  BY <1>1, <1>2, <1>4 DEF IInv

\* A put at the end of what is in flight, of the next chunk or of the terminal
\* item, by a producer that runs.
LEMMA PutKeeps ==
  ASSUME IInv, ppc \in {"reading", "cleanup"}, NEW value \in Items, NEW blocked, NEW after,
         NEW cancels \in BOOLEAN, Put(value, blocked, after, cancels), UNCHANGED <<callerVars, lost>>,
         \/ /\ blocked = "putting" /\ after = "reading" /\ ppc = "reading"
            /\ value = read + 1 /\ read' = read + 1 /\ read < MaxChunks
            /\ UNCHANGED open
         \/ /\ blocked = "terminal" /\ after = "done" /\ (value = End => ppc = "reading")
            /\ value \in {End, Failure} /\ UNCHANGED read
            /\ open' = FALSE
  PROVE  IInv'
<1> USE ConstantsAssumption
<1>1. held = Nothing /\ TypeOK /\ HeldByPlace /\ LostLast
  BY DEF IInv, HeldByPlace
<1>2. /\ InFlight' = Append(InFlight, value)
      /\ Full => ppc' = blocked /\ held' = value /\ queue' = queue
      /\ ~Full => ppc' = after /\ held' = Nothing /\ queue' = Append(queue, value)
      /\ pcancel' \in BOOLEAN /\ (pcancel' => ppc' = blocked)
  BY <1>1, PutEffect
<1>3. /\ InFlight \in Seq(Items) /\ Len(InFlight) \in Nat
  BY <1>1, InFlightType
<1>4. /\ Len(InFlight') = Len(InFlight) + 1
      /\ \A i \in 1..Len(InFlight) : InFlight'[i] = InFlight[i]
      /\ InFlight'[Len(InFlight) + 1] = value
  BY <1>2, <1>3, AppendItems
<1>5. queue \in Seq(Items) /\ read \in 0..MaxChunks /\ delivered \in 0..MaxChunks
  BY <1>1 DEF TypeOK, Items
<1>6. Len(queue') <= BufferChunks /\ queue' \in Seq(Items)
  BY <1>2, <1>5 DEF IInv, Full
<1>7. ppc' \in {blocked, after} /\ held' \in {Nothing, value}
  BY <1>2
<1>8. TypeOK'
  <2>1. pcancel' \in BOOLEAN /\ open' \in BOOLEAN
    BY <1>1, <1>2, Zenon DEF TypeOK
  <2>2. read' \in 0..MaxChunks
    BY <1>5
  <2>3. ppc' \in {"reading", "putting", "terminal", "done"} /\ held' \in Items \cup {Nothing}
    BY <1>7
  <2> QED
    BY <1>1, <1>6, <2>1, <2>2, <2>3 DEF TypeOK, Items, callerVars
<1>9. HeldByPlace'
  BY <1>2, <1>5 DEF HeldByPlace, Items
<1>10. OpenByPlace'
  BY <1>7 DEF IInv, OpenByPlace
<1>11. CallerByPlace' /\ CancelledBySource'
  BY <1>2, <1>7 DEF IInv, CallerByPlace, CancelledBySource, callerVars
<1>12. outcome \notin {"exhausted", "failed"} /\ "terminal" \notin lost
  BY <1>1 DEF IInv, EndedTogether, LostLast
<1>13. EndedTogether'
  BY <1>12 DEF EndedTogether, callerVars
<1>14. Kept \in 0..MaxChunks
       /\ (~closing => Len(InFlight) = Kept - delivered /\ outcome = "streaming" /\ delivered <= Kept)
  BY <1>12, <1>1, KeptType DEF IInv, Level, Closed, CallerByPlace, TypeOK
<1>15. /\ ~Closed' => Kept' = Kept + 1 /\ value = Kept + 1
       /\ Closed' => Kept' = Kept /\ value \in {End, Failure}
  <2>1. CASE blocked = "putting"
    <3>1. "chunk" \notin lost /\ ppc' \in {"putting", "reading"}
      BY <1>1, <1>7, <2>1 DEF LostLast
    <3> QED
      BY <2>1, <3>1 DEF Kept, Closed
  <2>2. CASE blocked = "terminal"
    BY <1>7, <1>12, <2>2 DEF Kept, Closed
  <2> QED
    BY <2>1, <2>2
<1>16. Level'
  BY <1>3, <1>4, <1>5, <1>14, <1>15 DEF Level, callerVars
<1>17. InOrder'
  <2> SUFFICES ASSUME ~closing', NEW i \in 1..Len(InFlight')
               PROVE  IF delivered' + i <= Kept' THEN InFlight'[i] = delivered' + i
                      ELSE InFlight'[i] \in {End, Failure}
    BY DEF InOrder
  <2>1. ~closing /\ delivered' = delivered /\ Len(InFlight) = Kept - delivered
    BY <1>14 DEF callerVars
  <2>2. CASE i \in 1..Len(InFlight)
    <3>1. delivered + i <= Kept /\ Kept <= Kept'
      BY <1>5, <1>14, <1>15, <2>1, <2>2
    <3>2. InFlight[i] = delivered + i
      BY <2>1, <2>2, <3>1 DEF IInv, InOrder
    <3> QED
      BY <1>4, <1>5, <1>14, <1>15, <2>1, <2>2, <3>1, <3>2
  <2>3. CASE i = Len(InFlight) + 1
    <3>1. delivered + i = Kept + 1
      BY <1>5, <1>14, <2>1, <2>3
    <3> QED
      BY <1>4, <1>14, <1>15, <2>1, <2>3, <3>1
  <2> QED
    BY <1>3, <1>4, <2>2, <2>3
<1>18. LostLast'
  <2>1. ASSUME "chunk" \in lost
        PROVE  /\ ppc' \in {"terminal", "done"} /\ read' > 0 /\ value # End
    BY <1>1, <1>7, <2>1 DEF LostLast
  <2>2. ASSUME "chunk" \in lost, ~closing, NEW i \in 1..Len(InFlight')
        PROVE  InFlight'[i] # End
    <3>1. i \in 1..Len(InFlight) \/ i = Len(InFlight) + 1
      BY <1>3, <1>4
    <3> QED
      BY <1>1, <1>4, <2>1, <2>2, <3>1 DEF LostLast
  <2> QED
    BY <1>1, <1>12, <2>1, <2>2 DEF LostLast, callerVars
<1> QED
  BY <1>6, <1>8, <1>9, <1>10, <1>11, <1>13, <1>16, <1>17, <1>18 DEF IInv

\* The context is left, with any outcome: only the types, the places and the
\* ends remain to be shown.
LEMMA TeardownKeeps ==
  ASSUME IInv, Teardown, UNCHANGED producerVars, ~closing,
         queue' \in Seq(Items), Len(queue') <= BufferChunks,
         delivered' \in 0..MaxChunks,
         outcome' \in {"streaming", "exhausted", "failed", "cancelled"},
         outcome' \in {"exhausted", "failed"} =>
           ppc = "done" /\ delivered' = Kept /\ "terminal" \notin lost,
         outcome' = "exhausted" => lost = {}
  PROVE  IInv'
<1>1. TypeOK'
  BY DEF IInv, TypeOK, Teardown, producerVars, Items
<1>2. HeldByPlace' /\ OpenByPlace'
  BY DEF IInv, HeldByPlace, OpenByPlace, producerVars
<1>3. closing' /\ cpc' \in {"join", "exited"} /\ (cpc' = "exited" => ppc' = "done")
  BY DEF Teardown, producerVars
<1>4. CallerByPlace' /\ CancelledBySource' /\ Level' /\ InOrder'
  BY <1>3 DEF CallerByPlace, CancelledBySource, Level, InOrder
<1>5. EndedTogether' /\ LostLast'
  BY <1>3 DEF IInv, EndedTogether, LostLast, Kept, producerVars
<1> QED
  BY <1>1, <1>2, <1>4, <1>5 DEF IInv

\* The head of the queue is the next chunk or, with all chunks delivered, the
\* terminal item, which is the last.
LEMMA HeadIsNext ==
  ASSUME IInv, cpc = "get", queue # <<>>
  PROVE  /\ ~closing /\ outcome = "streaming" /\ Head(queue) \in Items
         /\ Head(queue) > 0 => delivered + 1 <= Kept /\ Head(queue) = delivered + 1
         /\ Head(queue) \in {End, Failure} =>
              delivered = Kept /\ ppc = "done" /\ Len(InFlight) = 1 /\ held = Nothing
         /\ Head(queue) \in {End, Failure} => "terminal" \notin lost
         /\ Head(queue) = End => lost = {}
<1> USE ConstantsAssumption
<1>1. ~closing /\ outcome = "streaming" /\ TypeOK /\ HeldByPlace /\ LostLast
  BY DEF IInv, CallerByPlace
<1>2. queue \in Seq(Items) /\ Head(queue) \in Items /\ Len(queue) >= 1
  BY <1>1 DEF TypeOK, Items
<1>3. Len(InFlight) \in Nat /\ Len(InFlight) >= 1
      /\ (held # Nothing => Len(InFlight) = Len(queue) + 1)
  BY <1>1, <1>2, InFlightType
<1>4. InFlight[1] = Head(queue)
  BY <1>1, <1>2 DEF InFlight, TypeOK, Items
<1>5. delivered \in 0..MaxChunks /\ Kept \in 0..MaxChunks /\ delivered <= Kept
  BY <1>1, KeptType DEF IInv, TypeOK, Level
<1>6. IF delivered + 1 <= Kept THEN Head(queue) = delivered + 1 ELSE Head(queue) \in {End, Failure}
  BY <1>1, <1>3, <1>4, <1>5 DEF IInv, InOrder
<1>7. ASSUME Head(queue) \in {End, Failure}
      PROVE  /\ delivered = Kept /\ ppc = "done" /\ Len(InFlight) = 1 /\ held = Nothing
             /\ "terminal" \notin lost
  <2>1. delivered = Kept
    BY <1>5, <1>6, <1>7 DEF End, Failure
  <2>2. Closed /\ Len(InFlight) = 1
    BY <1>1, <1>3, <1>5, <2>1 DEF IInv, Level
  <2>3. held = Nothing
    BY <1>2, <1>3, <2>2
  <2>4. ppc # "terminal"
    BY <1>1, <2>3 DEF HeldByPlace, Nothing, End, Failure
  <2> QED
    BY <2>1, <2>2, <2>3, <2>4 DEF Closed
<1>8. ASSUME Head(queue) = End PROVE lost = {}
  <2>1. "terminal" \notin lost
    BY <1>7, <1>8
  <2>2. 1 \in 1..Len(InFlight)
    BY <1>3
  <2>3. "chunk" \notin lost
    BY <1>1, <1>4, <1>8, <2>2 DEF LostLast
  <2> QED
    BY <1>1, <2>1, <2>3 DEF TypeOK
<1> QED
  BY <1>1, <1>2, <1>5, <1>6, <1>7, <1>8 DEF End, Failure

LEMMA NextIInv == IInv /\ [Next]_vars => IInv'
<1> SUFFICES ASSUME IInv, [Next]_vars PROVE IInv'
  OBVIOUS
<1> USE ConstantsAssumption
<1>a. TypeOK /\ HeldByPlace /\ queue \in Seq(Items) /\ Len(queue) <= BufferChunks
      /\ read \in 0..MaxChunks /\ delivered \in 0..MaxChunks /\ LostLast
      /\ Kept \in 0..MaxChunks
  BY KeptType DEF IInv, TypeOK, Items
\* Steps that change neither what is in flight nor its counts.
<1>b. ASSUME UNCHANGED <<read, queue, callerVars, lost>>,
             held' = held \/ closing,
             TypeOK', HeldByPlace', OpenByPlace', CancelledBySource',
             ppc = "done" => ppc' = "done",
             ppc \in {"cleanup", "terminal"} => ppc' \in {"cleanup", "terminal", "done"},
             ~closing => ppc' \notin {"terminal", "done"} /\ ppc \notin {"terminal", "done"}
      PROVE  IInv'
  <2>1. CallerByPlace' /\ EndedTogether'
    BY <1>b DEF IInv, CallerByPlace, EndedTogether, Kept, callerVars
  <2>2. /\ ~closing => InFlight' = InFlight
        /\ Kept' = Kept /\ (~closing => Closed' = Closed)
    BY <1>b DEF InFlight, Kept, Closed
  <2>3. Level' /\ InOrder'
    BY <1>b, <2>2 DEF IInv, Level, InOrder, callerVars
  <2>4. LostLast'
    BY <1>b, <2>2, <1>a DEF LostLast, callerVars
  <2> QED
    BY <1>b, <2>1, <2>3, <2>4, <1>a DEF IInv
<1>1. CASE Start
  <2>1. ppc = "start" /\ ppc' = "reading" /\ open' = TRUE /\ ~pcancel /\ UNCHANGED <<pcancel, held, read, queue, callerVars, lost>>
    BY <1>1 DEF Start
  <2>2. TypeOK' /\ HeldByPlace' /\ OpenByPlace' /\ CancelledBySource'
    BY <2>1, <1>a DEF TypeOK, HeldByPlace, OpenByPlace, CancelledBySource, callerVars
  <2> QED
    BY <1>b, <2>1, <2>2
<1>2. CASE CancelledAtStart
  <2>1. /\ ppc = "start" /\ ppc' = "done" /\ pcancel /\ pcancel' = FALSE
        /\ UNCHANGED <<held, read, open, queue, callerVars, lost>>
    BY <1>2 DEF CancelledAtStart
  <2>2. TypeOK' /\ HeldByPlace' /\ OpenByPlace' /\ CancelledBySource'
    BY <2>1, <1>a DEF IInv, TypeOK, HeldByPlace, OpenByPlace, CancelledBySource, callerVars
  <2>3. closing
    BY <2>1 DEF IInv, CancelledBySource
  <2> QED
    BY <1>b, <2>1, <2>2, <2>3
<1>3. ASSUME NEW cancels \in BOOLEAN, ReadChunk(cancels)
      PROVE  IInv'
  <2>1. /\ ppc \in {"reading", "cleanup"} /\ ppc = "reading" /\ read < MaxChunks
        /\ read' = read + 1 /\ Put(read + 1, "putting", "reading", cancels) /\ UNCHANGED open
        /\ UNCHANGED <<callerVars, lost>>
    BY <1>3 DEF ReadChunk
  <2>2. read + 1 \in Items
    BY <2>1, <1>a, ConstantsAssumption DEF Items, ConstantsAssumption
  <2> QED
    BY <2>1, <2>2, PutKeeps
<1>4. CASE SourceCancelsTask
  <2>1. /\ ppc = "reading" /\ pcancel' = TRUE
        /\ UNCHANGED <<ppc, held, read, open, queue, callerVars, lost>>
    BY <1>4 DEF SourceCancelsTask, producerVars
  <2>2. TypeOK' /\ HeldByPlace' /\ OpenByPlace' /\ CancelledBySource'
    BY <2>1, <1>a DEF IInv, TypeOK, HeldByPlace, OpenByPlace, CancelledBySource, callerVars
  <2> QED
    BY <1>b, <2>1, <2>2
<1>5. ASSUME NEW item \in {End, Failure}, NEW cancels \in BOOLEAN, SourceStops(item, cancels)
      PROVE  IInv'
  <2>1. /\ ppc \in {"reading", "cleanup"} /\ ppc = "reading" /\ Put(item, "terminal", "done", cancels)
        /\ UNCHANGED read /\ open' = FALSE /\ UNCHANGED <<callerVars, lost>>
    BY <1>5, <1>a DEF SourceStops, TypeOK
  <2>2. item \in Items
    BY DEF Items
  <2> QED
    BY <2>1, <2>2, PutKeeps
<1>6. CASE Unblock
  <2>1. /\ ppc \in {"putting", "terminal"} /\ ~pcancel /\ ~Full
        /\ UNCHANGED <<read, open, callerVars, lost>>
    BY <1>6 DEF Unblock
  <2>2. /\ InFlight' = InFlight /\ held' = Nothing /\ queue' = Append(queue, held) /\ pcancel' = FALSE
        /\ ppc = "putting" => ppc' = "reading"
        /\ ppc = "terminal" => ppc' = "done"
    BY <1>6, <1>a, UnblockEffect
  <2>3. held \in Items
    BY <2>1, <1>a DEF HeldByPlace, Items
  <2>4. queue' \in Seq(Items) /\ Len(queue') <= BufferChunks
    BY <2>1, <2>2, <2>3, <1>a, ConstantsAssumption DEF Full, ConstantsAssumption
  <2>5. TypeOK'
    BY <2>1, <2>2, <2>4, <1>a DEF TypeOK, Items, callerVars
  <2>6. HeldByPlace' /\ OpenByPlace' /\ CallerByPlace' /\ CancelledBySource' /\ EndedTogether'
    BY <2>1, <2>2 DEF IInv, HeldByPlace, OpenByPlace, CallerByPlace, CancelledBySource,
                       EndedTogether, Kept, callerVars
  <2>7. Kept' = Kept /\ Closed' = Closed
    BY <2>1, <2>2 DEF Kept, Closed
  <2>8. Level' /\ InOrder'
    BY <2>1, <2>2, <2>7 DEF IInv, Level, InOrder, callerVars
  <2>9. LostLast'
    BY <2>1, <2>2, <1>a DEF LostLast, callerVars
  <2> QED
    BY <2>4, <2>5, <2>6, <2>8, <2>9 DEF IInv
<1>7. CASE CancelledWhileOpen
  <2>1. /\ ppc \in {"reading", "putting"} /\ pcancel /\ ppc' = "cleanup" /\ held' = Nothing
        /\ pcancel' = FALSE /\ UNCHANGED <<read, open, queue, callerVars>>
        /\ lost' = IF ppc = "putting" /\ ~closing THEN lost \cup {"chunk"} ELSE lost
    BY <1>7 DEF CancelledWhileOpen
  <2>2. TypeOK' /\ HeldByPlace' /\ OpenByPlace' /\ CancelledBySource'
    BY <2>1, <1>a DEF TypeOK, HeldByPlace, OpenByPlace, CancelledBySource, callerVars
  <2>3. CASE ppc = "reading" \/ closing
    <3>1. lost' = lost /\ (held' = held \/ closing)
      BY <2>1, <2>3, <1>a DEF HeldByPlace
    <3> QED
      BY <1>b, <2>1, <2>2, <2>3, <3>1
  <2>4. CASE ppc = "putting" /\ ~closing
    <3>1. /\ held # Nothing /\ lost' = lost \cup {"chunk"} /\ "chunk" \notin lost
          /\ "terminal" \notin lost /\ outcome \notin {"exhausted", "failed"}
      BY <2>1, <2>4, <1>a DEF IInv, HeldByPlace, LostLast, EndedTogether, Nothing
    <3>2. /\ Len(InFlight') \in Nat /\ Len(InFlight') = Len(InFlight) - 1
          /\ \A i \in 1..Len(InFlight') : i \in 1..Len(InFlight) /\ InFlight'[i] = InFlight[i]
      BY <2>1, <3>1, <1>a, DropEffect
    <3>3. /\ Kept = read /\ Kept' = read - 1 /\ ~Closed /\ ~Closed'
      BY <2>1, <2>4, <3>1 DEF Kept, Closed
    <3>4. Len(InFlight) = Kept - delivered
      BY <2>4, <3>3 DEF IInv, Level
    <3>5. outcome = "streaming"
      BY <2>4, <3>1, <1>a DEF IInv, CallerByPlace, TypeOK
    <3>6. Level'
      BY <2>1, <3>2, <3>3, <3>4, <3>5, <1>a DEF Level, callerVars
    <3>7. ASSUME NEW i \in 1..Len(InFlight')
          PROVE  delivered + i <= Kept' /\ InFlight'[i] = delivered + i
      <4>1. i \in 1..Len(InFlight) /\ delivered + i <= Kept /\ delivered + i <= Kept'
        BY <3>2, <3>3, <3>4, <1>a
      <4>2. InFlight[i] = delivered + i
        BY <2>4, <4>1 DEF IInv, InOrder
      <4> QED
        BY <3>2, <4>1, <4>2
    <3>8. InOrder'
      BY <2>1, <3>7 DEF InOrder, callerVars
    <3>9. read > 0 /\ \A i \in 1..Len(InFlight') : InFlight'[i] # End
      BY <3>2, <3>3, <3>4, <3>7, <1>a DEF End
    <3>10. LostLast'
      BY <2>1, <3>1, <3>5, <3>9 DEF LostLast, callerVars
    <3>11. CallerByPlace' /\ EndedTogether'
      BY <2>1, <2>4, <3>1 DEF IInv, CallerByPlace, EndedTogether, callerVars
    <3> QED
      BY <2>1, <2>2, <3>6, <3>8, <3>10, <3>11, <1>a DEF IInv
  <2> QED
    BY <2>1, <2>3, <2>4
<1>8. ASSUME NEW fails \in BOOLEAN, NEW cancels \in BOOLEAN, CleanupEnds(fails, cancels)
      PROVE  IInv'
  <2>1. /\ ppc = "cleanup" /\ open' = FALSE
        /\ UNCHANGED <<read, callerVars, lost>>
    BY <1>8 DEF CleanupEnds
  <2>2. CASE fails \/ ~closing
    <3>1. /\ Put(Failure, "terminal", "done", cancels) /\ Failure \in Items /\ Failure # End
          /\ ppc \in {"reading", "cleanup"}
      BY <1>8, <2>1, <2>2 DEF CleanupEnds, Items, Failure, End
    <3> QED
      BY <2>1, <3>1, PutKeeps
  <2>3. CASE ~(fails \/ ~closing)
    <3>1. ppc' = "done" /\ pcancel' = FALSE /\ UNCHANGED <<held, queue>>
      BY <1>8, <2>3 DEF CleanupEnds
    <3>2. TypeOK' /\ HeldByPlace' /\ OpenByPlace' /\ CancelledBySource'
      BY <2>1, <3>1, <1>a DEF TypeOK, HeldByPlace, OpenByPlace, CancelledBySource, callerVars
    <3> QED
      BY <1>b, <2>1, <2>3, <3>1, <3>2
  <2> QED
    BY <2>2, <2>3
<1>9. CASE CancelledAtTerminal
  <2>1. /\ ppc = "terminal" /\ pcancel /\ ppc' = "done" /\ held' = Nothing
        /\ pcancel' = FALSE /\ UNCHANGED <<read, open, queue, callerVars>>
        /\ lost' = IF closing THEN lost ELSE lost \cup {"terminal"}
    BY <1>9 DEF CancelledAtTerminal
  <2>2. TypeOK' /\ HeldByPlace' /\ OpenByPlace' /\ CancelledBySource'
    BY <2>1, <1>a DEF IInv, TypeOK, HeldByPlace, OpenByPlace, CancelledBySource, callerVars
  <2>3. CASE closing
    <3>1. lost' = lost
      BY <2>1, <2>3
    <3> QED
      BY <1>b, <2>1, <2>2, <2>3, <3>1
  <2>4. CASE ~closing
    <3>1. /\ held # Nothing /\ lost' = lost \cup {"terminal"} /\ "terminal" \notin lost
          /\ outcome \notin {"exhausted", "failed"}
      BY <2>1, <2>4, <1>a DEF IInv, HeldByPlace, LostLast, EndedTogether, Nothing, End, Failure
    <3>2. /\ Len(InFlight') \in Nat /\ Len(InFlight') = Len(InFlight) - 1
          /\ \A i \in 1..Len(InFlight') : i \in 1..Len(InFlight) /\ InFlight'[i] = InFlight[i]
      BY <2>1, <3>1, <1>a, DropEffect
    <3>3. Kept' = Kept /\ Closed /\ ~Closed'
      BY <2>1, <3>1 DEF Kept, Closed
    <3>4. outcome = "streaming"
      BY <2>4, <3>1, <1>a DEF IInv, CallerByPlace, TypeOK
    <3>5. Len(InFlight) = Kept - delivered + 1 /\ delivered <= Kept
      BY <2>4, <3>3, <3>4 DEF IInv, Level
    <3>6. Level'
      BY <2>1, <3>2, <3>3, <3>4, <3>5, <1>a DEF Level, callerVars
    <3>7. InOrder'
      BY <2>1, <2>4, <3>2, <3>3 DEF IInv, InOrder, callerVars
    <3>8. LostLast'
      BY <2>1, <2>4, <3>1, <3>2, <3>4, <1>a DEF LostLast, callerVars
    <3>9. CallerByPlace' /\ EndedTogether'
      BY <2>1, <2>4, <3>1 DEF IInv, CallerByPlace, EndedTogether, callerVars
    <3> QED
      BY <2>1, <2>2, <3>6, <3>7, <3>8, <3>9, <1>a DEF IInv
  <2> QED
    BY <2>3, <2>4
<1>10. CASE AskNext
  <2>1. /\ cpc = "body" /\ cpc' = "get"
        /\ UNCHANGED <<ppc, held, read, open, pcancel, queue, delivered, closing, outcome, lost>>
    BY <1>10 DEF AskNext, producerVars
  <2>2. TypeOK' /\ HeldByPlace' /\ OpenByPlace' /\ CallerByPlace' /\ CancelledBySource' /\ EndedTogether'
    BY <2>1 DEF IInv, TypeOK, HeldByPlace, OpenByPlace, CallerByPlace, CancelledBySource, EndedTogether, Kept
  <2>3. InFlight' = InFlight /\ Kept' = Kept /\ Closed' = Closed
    BY <2>1 DEF InFlight, Kept, Closed
  <2>4. Level' /\ InOrder' /\ LostLast'
    BY <2>1, <2>3 DEF IInv, Level, InOrder, LostLast
  <2> QED
    BY <2>1, <2>2, <2>4, <1>a DEF IInv
<1>11. CASE Get
  <2>1. /\ cpc = "get" /\ queue # <<>> /\ queue' = Tail(queue)
        /\ UNCHANGED <<ppc, held, read, open, lost>> /\ Kept' = Kept /\ Closed' = Closed
    BY <1>11 DEF Get, producerVars, Kept, Closed
  <2>2. /\ ~closing /\ outcome = "streaming" /\ Head(queue) \in Items
        /\ Head(queue) > 0 => delivered + 1 <= Kept /\ Head(queue) = delivered + 1
        /\ Head(queue) \in {End, Failure} =>
             delivered = Kept /\ ppc = "done" /\ Len(InFlight) = 1 /\ held = Nothing
        /\ Head(queue) \in {End, Failure} => "terminal" \notin lost
        /\ Head(queue) = End => lost = {}
    BY <2>1, HeadIsNext
  <2>3. queue' \in Seq(Items) /\ Len(queue') <= BufferChunks
    BY <2>1, <1>a, ConstantsAssumption DEF ConstantsAssumption
  <2>4. /\ InFlight # <<>> /\ Len(InFlight') = Len(InFlight) - 1
        /\ \A i \in 1..Len(InFlight') : InFlight'[i] = InFlight[i + 1]
    BY <2>1, <1>a, TakeEffect
  <2>5. Len(InFlight) \in Nat
    BY <1>a, InFlightType
  <2>6. CASE Head(queue) > 0
    <3>1. cpc' = "body" /\ delivered' = delivered + 1 /\ UNCHANGED <<pcancel, closing, outcome>>
      BY <1>11, <2>6 DEF Get, End, Failure
    <3>2. delivered' <= Kept /\ delivered' \in 0..MaxChunks
      BY <3>1, <2>2, <2>6, <1>a
    <3>3. TypeOK'
      BY <2>1, <2>3, <3>1, <3>2, <1>a DEF TypeOK, Items
    <3>4. HeldByPlace' /\ OpenByPlace' /\ CallerByPlace' /\ CancelledBySource' /\ EndedTogether'
      BY <2>1, <2>2, <3>1 DEF IInv, HeldByPlace, OpenByPlace, CallerByPlace, CancelledBySource, EndedTogether
    <3>5. Level'
      BY <2>1, <2>2, <2>4, <2>5, <3>1, <3>2, <1>a DEF IInv, Level
    <3>6. InOrder'
      <4> SUFFICES ASSUME NEW i \in 1..Len(InFlight')
                   PROVE  IF delivered' + i <= Kept' THEN InFlight'[i] = delivered' + i
                          ELSE InFlight'[i] \in {End, Failure}
        BY DEF InOrder
      <4>1. i + 1 \in 1..Len(InFlight) /\ InFlight'[i] = InFlight[i + 1]
        BY <2>4, <2>5
      <4>2. IF delivered + (i + 1) <= Kept THEN InFlight[i + 1] = delivered + (i + 1)
            ELSE InFlight[i + 1] \in {End, Failure}
        BY <4>1, <2>2 DEF IInv, InOrder
      <4>3. delivered' + i = delivered + (i + 1) /\ Kept' = Kept
        BY <3>1, <2>1, <1>a
      <4> QED
        BY <4>1, <4>2, <4>3
    <3>7. LostLast'
      <4>1. \A i \in 1..Len(InFlight') : i + 1 \in 1..Len(InFlight) /\ InFlight'[i] = InFlight[i + 1]
        BY <2>4, <2>5
      <4> QED
        BY <2>1, <2>2, <3>1, <4>1, <1>a DEF LostLast
    <3> QED
      BY <2>3, <3>3, <3>4, <3>5, <3>6, <3>7 DEF IInv
  <2>7. CASE Head(queue) = End
    <3>1. cpc' = "end" /\ outcome' = "exhausted" /\ UNCHANGED <<pcancel, closing, delivered>>
      BY <1>11, <2>7 DEF Get, End, Failure
    <3>2. delivered = Kept /\ ppc = "done" /\ Len(InFlight') = 0 /\ lost = {}
      BY <2>2, <2>4, <2>7
    <3>3. TypeOK'
      BY <2>1, <2>3, <3>1, <1>a DEF TypeOK, Items
    <3>4. HeldByPlace' /\ OpenByPlace' /\ CallerByPlace' /\ CancelledBySource' /\ EndedTogether'
      BY <2>1, <2>2, <3>1, <3>2 DEF IInv, HeldByPlace, OpenByPlace, CallerByPlace, CancelledBySource,
                                     EndedTogether
    <3>5. Level' /\ InOrder'
      BY <2>1, <3>1, <3>2, <1>a DEF Level, InOrder
    <3>6. LostLast'
      BY <2>1, <3>2 DEF LostLast
    <3> QED
      BY <2>3, <3>3, <3>4, <3>5, <3>6 DEF IInv
  <2>8. CASE Head(queue) = Failure
    <3>1. Teardown /\ outcome' = "failed" /\ UNCHANGED delivered
      BY <1>11, <2>8 DEF Get, End, Failure
    <3> QED
      BY <2>1, <2>2, <2>3, <2>8, <3>1, <1>a, TeardownKeeps DEF producerVars
  <2> QED
    BY <2>2, <2>6, <2>7, <2>8 DEF Items
<1>12. CASE LeaveBody
  <2>1. cpc \in {"body", "end"} /\ Teardown /\ UNCHANGED producerVars /\ UNCHANGED <<queue, delivered, outcome>>
    BY <1>12 DEF LeaveBody
  <2>2. ~closing
    BY <2>1 DEF IInv, CallerByPlace
  <2> QED
    BY <2>1, <2>2, <1>a, TeardownKeeps DEF IInv, TypeOK, EndedTogether, LostLast
<1>13. CASE CancelCaller
  <2>1. CASE cpc = "get" /\ Teardown /\ outcome' = "cancelled" /\ UNCHANGED <<producerVars, queue, delivered>>
    <3>1. ~closing
      BY <2>1 DEF IInv, CallerByPlace
    <3> QED
      BY <2>1, <3>1, <1>a, TeardownKeeps
  <2>2. CASE cpc = "join" /\ ppc # "done" /\ pcancel' = TRUE /\ UNCHANGED <<producerVars, queue, callerVars>>
    <3>1. closing
      BY <2>2 DEF IInv, CallerByPlace
    <3>2. TypeOK' /\ HeldByPlace' /\ OpenByPlace' /\ CancelledBySource'
      BY <2>2, <3>1 DEF IInv, TypeOK, HeldByPlace, OpenByPlace, CancelledBySource, producerVars, callerVars
    <3> QED
      BY <1>b, <2>2, <3>1, <3>2 DEF producerVars
  <2> QED
    BY <1>13, <2>1, <2>2 DEF CancelCaller
<1>14. CASE Join
  <2>1. /\ cpc = "join" /\ ppc = "done" /\ cpc' = "exited"
        /\ UNCHANGED <<ppc, held, read, open, pcancel, queue, delivered, closing, outcome, lost>>
    BY <1>14 DEF Join, producerVars
  <2>2. closing
    BY <2>1 DEF IInv, CallerByPlace
  <2>3. TypeOK' /\ HeldByPlace' /\ OpenByPlace' /\ CallerByPlace' /\ CancelledBySource' /\ EndedTogether'
    BY <2>1, <2>2 DEF IInv, TypeOK, HeldByPlace, OpenByPlace, CallerByPlace, CancelledBySource, EndedTogether, Kept
  <2>4. Level' /\ InOrder' /\ LostLast'
    BY <2>1, <2>2 DEF IInv, Level, InOrder, LostLast
  <2> QED
    BY <2>1, <2>3, <2>4, <1>a DEF IInv
<1>15. CASE UNCHANGED vars
  BY <1>15 DEF vars, IInv, TypeOK, HeldByPlace, OpenByPlace, CallerByPlace, CancelledBySource,
               EndedTogether, Level, InOrder, InFlight, LostLast, Kept, Closed
<1> QED
  BY <1>1, <1>2, <1>3, <1>4, <1>5, <1>6, <1>7, <1>8, <1>9, <1>10, <1>11, <1>12, <1>13, <1>14, <1>15
     DEF Next, SourceActs, ProducerRuns, Terminated

-----------------------------------------------------------------------------

\* The invariant of the relay.
THEOREM Invariance == Spec => []IInv
BY InitIInv, NextIInv, PTL DEF Spec

\* The relay's state keeps its types, for every buffer and source.
THEOREM TypeCorrect == Spec => []TypeOK
<1>1. IInv => TypeOK
  BY DEF IInv
<1> QED
  BY Invariance, <1>1, PTL

\* The queue stays within its bound and the producer holds one chunk at most
\* beyond it, however slow the caller is (put() of NetworkHarness.relay).
THEOREM PrefetchIsBounded == Spec => []BoundedPrefetch
<1>1. IInv => BoundedPrefetch
  <2> SUFFICES ASSUME IInv, ~closing PROVE read - delivered <= BufferChunks + 1
    BY DEF IInv, BoundedPrefetch
  <2>1. /\ Kept \in Nat /\ delivered \in Nat /\ read \in Nat /\ Len(InFlight) \in Nat
        /\ read = IF "chunk" \in lost THEN Kept + 1 ELSE Kept
    BY KeptType, InFlightType, ConstantsAssumption DEF IInv, TypeOK, Kept, ConstantsAssumption
  <2>2. /\ Len(InFlight) <= BufferChunks + 1
        /\ held = Nothing => Len(InFlight) <= BufferChunks
    BY InFlightType, ConstantsAssumption DEF IInv, ConstantsAssumption, TypeOK
  <2>3. "chunk" \in lost /\ ~Closed => held = Nothing
    BY DEF IInv, LostLast, HeldByPlace, Closed
  <2>4. \/ delivered = Kept
        \/ Len(InFlight) = IF Closed THEN Kept - delivered + 1 ELSE Kept - delivered
    BY DEF IInv, Level, EndedTogether, CallerByPlace, TypeOK
  <2> QED
    BY <2>1, <2>2, <2>3, <2>4, ConstantsAssumption DEF ConstantsAssumption
<1> QED
  BY Invariance, <1>1, PTL

\* Chunks reach the caller once and in order, a terminal item after all of them,
\* and a stream that ends has delivered every one (produce() and consume()).
THEOREM DeliversInOrder == Spec => []ExactlyOnceInOrder
<1>1. IInv => ExactlyOnceInOrder
  <2> SUFFICES ASSUME IInv PROVE ExactlyOnceInOrder
    OBVIOUS
  <2>1. /\ outcome \in {"exhausted", "failed"} => delivered = Kept
        /\ outcome = "exhausted" => lost = {}
    BY DEF IInv, EndedTogether, LostLast
  <2>2. Len(InFlight) \in Nat /\ Kept \in Nat /\ delivered \in Nat
    BY InFlightType, KeptType, ConstantsAssumption DEF IInv, TypeOK, ConstantsAssumption
  <2>3. ASSUME ~closing
        PROVE  /\ outcome = "streaming" => Len(InFlight) >= Kept - delivered
               /\ Len(InFlight) <= Kept - delivered + 1
    BY <2>2, <2>3 DEF IInv, Level, CallerByPlace, TypeOK
  <2>4. ASSUME ~closing, NEW i \in 1..Len(InFlight)
        PROVE  IF delivered + i <= Kept THEN InFlight[i] = delivered + i
               ELSE i = Len(InFlight) /\ InFlight[i] \in {End, Failure}
    <3>1. IF delivered + i <= Kept THEN InFlight[i] = delivered + i ELSE InFlight[i] \in {End, Failure}
      BY <2>4 DEF IInv, InOrder
    <3> QED
      BY <3>1, <2>2, <2>3, <2>4
  <2> QED
    BY <2>1, <2>3, <2>4 DEF ExactlyOnceInOrder
<1> QED
  BY Invariance, <1>1, PTL

\* The source, with the admission slot it owns, is closed when the context is
\* left, and when the producer has nothing more to read (the finally block).
THEOREM SourceIsClosed == Spec => []ClosedOnExit
<1>1. IInv => ClosedOnExit
  BY DEF IInv, ClosedOnExit, CallerByPlace, OpenByPlace
<1> QED
  BY Invariance, <1>1, PTL

-----------------------------------------------------------------------------

\* A source that runs is open, and only one that runs has a live ticket.
TicketByPlace ==
  /\ ticket \in {"unmanaged", "none", "waiting", "active", "ok", "failed"}
  /\ ppc \in {"reading", "putting", "cleanup"} => open
  /\ ppc = "start" => ticket \in {"none", "unmanaged"}
  /\ ticket \in {"waiting", "active"} => ppc \in {"reading", "putting", "cleanup"}

\* What a terminal item in flight says of the ticket, and what the caller was told.
TicketTold ==
  /\ outcome = "exhausted" => ticket \in {"ok", "unmanaged"}
  /\ outcome = "failed" => ticket \in {"none", "failed", "unmanaged"}
  /\ ~closing => \A i \in 1..Len(InFlight) :
       /\ InFlight[i] = End => ticket \in {"ok", "unmanaged"}
       /\ InFlight[i] = Failure => ticket \in {"none", "failed", "unmanaged"}

ManagedInv == IInv /\ TicketByPlace /\ TicketTold

\* A put by a source that runs, with a ticket that goes with the item.
LEMMA PutTells ==
  ASSUME IInv, ppc \in {"reading", "cleanup"}, NEW value \in Items, NEW blocked, NEW after,
         NEW cancels \in BOOLEAN, Put(value, blocked, after, cancels), UNCHANGED callerVars,
         value = End => ticket' \in {"ok", "unmanaged"}, value = Failure => ticket' \in {"none", "failed", "unmanaged"}
  PROVE  TicketTold' /\ ppc' \in {blocked, after}
<1>1. held = Nothing /\ TypeOK /\ HeldByPlace
  BY DEF IInv, HeldByPlace
<1>2. InFlight' = Append(InFlight, value) /\ InFlight \in Seq(Items)
  BY <1>1, PutEffect, InFlightType
<1>3. /\ Len(InFlight') = Len(InFlight) + 1 /\ Len(InFlight) \in Nat
      /\ \A i \in 1..Len(InFlight) : InFlight'[i] = InFlight[i]
      /\ InFlight'[Len(InFlight) + 1] = value
  BY <1>2, AppendItems
<1>4. /\ outcome' \notin {"exhausted", "failed"}
      /\ ~closing' => \A i \in 1..Len(InFlight) : InFlight[i] \notin {End, Failure}
  BY RunningHasNoEnd DEF callerVars
<1>5. ASSUME ~closing', NEW i \in 1..Len(InFlight')
      PROVE  /\ InFlight'[i] = End => ticket' \in {"ok", "unmanaged"}
             /\ InFlight'[i] = Failure => ticket' \in {"none", "failed", "unmanaged"}
  <2>1. i \in 1..Len(InFlight) \/ i = Len(InFlight) + 1
    BY <1>3
  <2> QED
    BY <1>3, <1>4, <1>5, <2>1
<1> QED
  BY <1>4, <1>5 DEF TicketTold, Put

\* A step of a source that runs which puts nothing.
LEMMA SilentTells ==
  ASSUME IInv, ppc \notin {"terminal", "done"}, UNCHANGED callerVars,
         closing \/ UNCHANGED <<held, queue>>
  PROVE  TicketTold'
<1>1. outcome' \notin {"exhausted", "failed"}
  BY RunningHasNoEnd DEF callerVars
<1>2. ~closing' => ~closing /\ InFlight' = InFlight
  BY DEF InFlight, callerVars
<1> QED
  BY <1>1, <1>2, RunningHasNoEnd DEF TicketTold

\* Every step is a step of the relay or leaves the relay as it is.
LEMMA StepOfRelay == [ManagedNext]_managedVars => [Next]_vars
BY DEF ManagedNext, managedVars, Request, Admitted, Rejected, Streams, Finished, ProducerStops,
       CallerRuns, Abandoned, Next, SourceActs, ProducerRuns, Terminated, vars

LEMMA ManagedStep == ManagedInv /\ [ManagedNext]_managedVars => ManagedInv'
<1> SUFFICES ASSUME ManagedInv, [ManagedNext]_managedVars PROVE ManagedInv'
  OBVIOUS
<1>a. IInv /\ IInv'
  BY StepOfRelay, NextIInv DEF ManagedInv
<1>b. TicketByPlace /\ TicketTold
  BY DEF ManagedInv
<1>1. CASE Request
  <2>1. ppc = "start" /\ ppc' = "reading" /\ open' = TRUE /\ UNCHANGED <<held, queue, callerVars>>
    BY <1>1 DEF Request, Start
  <2>2. ticket' \in {"waiting", "unmanaged"}
    BY <1>1, <1>b, <2>1 DEF Request, TicketIs, TicketByPlace
  <2> QED
    BY <1>a, <2>1, <2>2, SilentTells DEF ManagedInv, TicketByPlace
<1>2. CASE Admitted
  <2>1. ppc = "reading" /\ ticket' = "active" /\ UNCHANGED <<ppc, open, held, queue, callerVars>>
    BY <1>2 DEF Admitted, vars, callerVars
  <2> QED
    BY <1>a, <1>b, <2>1, SilentTells DEF ManagedInv, TicketByPlace
<1>3. CASE Rejected
  <2>1. ppc = "reading" /\ ticket' = "none" /\ Put(Failure, "terminal", "done", FALSE) /\ UNCHANGED callerVars
    BY <1>3 DEF Rejected, SourceStops
  <2>2. Failure \in Items /\ Failure # End /\ FALSE \in BOOLEAN
    BY DEF Items, Failure, End
  <2>3. TicketTold' /\ ppc' \in {"terminal", "done"}
    BY <1>a, <2>1, <2>2, PutTells
  <2> QED
    BY <1>a, <2>1, <2>3 DEF ManagedInv, TicketByPlace
<1>4. ASSUME NEW cancels \in BOOLEAN, Streams, ReadChunk(cancels) PROVE ManagedInv'
  <2>1. /\ ppc = "reading" /\ Put(read + 1, "putting", "reading", cancels) /\ read < MaxChunks
        /\ UNCHANGED <<ticket, open, callerVars>>
    BY <1>4 DEF Streams, ReadChunk
  <2>2. read + 1 \in Items /\ read + 1 \notin {End, Failure}
    BY <1>a, <2>1, ConstantsAssumption DEF IInv, TypeOK, Items, End, Failure, ConstantsAssumption
  <2> QED
    BY <1>a, <1>b, <2>1, <2>2, PutTells DEF ManagedInv, TicketByPlace
<1>5. CASE Streams /\ SourceCancelsTask
  <2>1. ppc = "reading" /\ UNCHANGED <<ticket, ppc, open, held, queue, callerVars>>
    BY <1>5 DEF Streams, SourceCancelsTask, producerVars
  <2> QED
    BY <1>a, <1>b, <2>1, SilentTells DEF ManagedInv, TicketByPlace
<1>6. CASE Finished
  <2>1. PICK last \in {End, Failure}, cancels \in BOOLEAN :
          /\ Put(last, "terminal", "done", cancels) /\ TicketIs(IF last = End THEN "ok" ELSE "failed")
          /\ ppc = "reading" /\ UNCHANGED callerVars
    BY <1>6 DEF Finished, SourceStops
  <2>2. last \in Items /\ Failure # End
    BY DEF Items, Failure, End
  <2>3. ticket' \in IF last = End THEN {"ok", "unmanaged"} ELSE {"failed", "unmanaged"}
    BY <2>1 DEF TicketIs
  <2> QED
    BY <1>a, <2>1, <2>2, <2>3, PutTells DEF ManagedInv, TicketByPlace
<1>7. ASSUME NEW fails \in BOOLEAN, NEW cancels \in BOOLEAN, Abandoned(fails, cancels) PROVE ManagedInv'
  <2>1. ppc = "cleanup" /\ UNCHANGED callerVars /\ ticket' \in {"failed", "none", "unmanaged"}
    BY <1>7 DEF Abandoned, CleanupEnds, TicketIs
  <2>2. CASE fails \/ ~closing
    <3>1. Put(Failure, "terminal", "done", cancels) /\ Failure \in Items /\ Failure # End
      BY <1>7, <2>2 DEF Abandoned, CleanupEnds, Items, Failure, End
    <3> QED
      BY <1>a, <2>1, <3>1, PutTells DEF ManagedInv, TicketByPlace
  <2>3. CASE closing /\ ppc' = "done"
    BY <1>a, <2>1, <2>3, SilentTells DEF ManagedInv, TicketByPlace
  <2> QED
    BY <1>7, <2>2, <2>3 DEF Abandoned, CleanupEnds
\* What the relay does on its own leaves the ticket.
<1>c. ASSUME UNCHANGED ticket, ppc' \in {"reading", "putting", "cleanup"} => ppc \in {"reading", "putting", "cleanup"} /\ open',
             ppc' # "start" \/ ppc = "start",
             ppc \in {"reading", "putting", "cleanup"} => ppc' \in {"reading", "putting", "cleanup"}
      PROVE  TicketByPlace'
  BY <1>b, <1>c DEF TicketByPlace
<1>8. CASE CancelledAtStart /\ UNCHANGED ticket
  <2>1. ppc = "start" /\ ppc' = "done" /\ UNCHANGED <<held, queue, callerVars>>
    BY <1>8 DEF CancelledAtStart
  <2> QED
    BY <1>a, <1>8, <1>c, <2>1, SilentTells DEF ManagedInv
<1>9. CASE Unblock /\ UNCHANGED ticket
  <2>1. InFlight' = InFlight /\ (ppc = "putting" => ppc' = "reading") /\ (ppc = "terminal" => ppc' = "done")
    BY <1>9, <1>a, UnblockEffect DEF IInv
  <2>2. ppc \in {"putting", "terminal"} /\ UNCHANGED <<open, callerVars>>
    BY <1>9 DEF Unblock
  <2>3. TicketTold'
    BY <1>b, <1>9, <2>1, <2>2 DEF TicketTold, callerVars
  <2> QED
    BY <1>a, <1>b, <1>9, <1>c, <2>1, <2>2, <2>3 DEF ManagedInv, TicketByPlace
<1>10. CASE CancelledWhileOpen /\ UNCHANGED ticket
  <2>1. /\ ppc \in {"reading", "putting"} /\ pcancel /\ ppc' = "cleanup" /\ held' = Nothing
        /\ UNCHANGED <<open, queue, callerVars>>
    BY <1>10 DEF CancelledWhileOpen
  <2>2. ASSUME ~closing, held # Nothing PROVE TicketTold'
    <3>1. \A i \in 1..Len(InFlight') : i \in 1..Len(InFlight) /\ InFlight'[i] = InFlight[i]
      BY <1>a, <2>1, <2>2, DropEffect DEF IInv
    <3> QED
      BY <1>b, <1>10, <2>1, <3>1 DEF TicketTold, callerVars
  <2>3. ASSUME closing \/ held = Nothing PROVE TicketTold'
    BY <1>a, <2>1, <2>3, SilentTells
  <2> QED
    BY <1>a, <1>b, <1>10, <1>c, <2>1, <2>2, <2>3 DEF ManagedInv, TicketByPlace
<1>11. CASE CancelledAtTerminal /\ UNCHANGED ticket
  <2>1. /\ ppc = "terminal" /\ ppc' = "done" /\ held' = Nothing /\ held # Nothing
        /\ UNCHANGED <<queue, callerVars>>
    BY <1>a, <1>11 DEF CancelledAtTerminal, IInv, HeldByPlace, Nothing, End, Failure
  <2>2. \A i \in 1..Len(InFlight') : i \in 1..Len(InFlight) /\ InFlight'[i] = InFlight[i]
    BY <1>a, <2>1, DropEffect DEF IInv
  <2>3. TicketTold'
    BY <1>b, <1>11, <2>1, <2>2 DEF TicketTold, callerVars
  <2> QED
    BY <1>a, <1>11, <1>c, <2>1, <2>3 DEF ManagedInv
\* A step of the caller.
<1>d. ASSUME UNCHANGED <<ticket, ppc, open>>, TicketTold' PROVE ManagedInv'
  BY <1>a, <1>b, <1>d DEF ManagedInv, TicketByPlace
<1>12. CASE AskNext /\ UNCHANGED ticket
  <2>1. UNCHANGED <<ppc, held, open, queue, closing, outcome>>
    BY <1>12 DEF AskNext, producerVars
  <2> QED
    BY <1>b, <1>12, <1>d, <2>1 DEF TicketTold, InFlight
<1>13. CASE Get /\ UNCHANGED ticket
  <2>1. cpc = "get" /\ queue # <<>> /\ queue' = Tail(queue) /\ UNCHANGED <<ppc, held, open>>
    BY <1>13 DEF Get, producerVars
  <2>2. ~closing /\ Head(queue) \in Items
    BY <1>a, <2>1, HeadIsNext
  <2>3. /\ InFlight # <<>> /\ InFlight[1] = Head(queue) /\ Len(InFlight') = Len(InFlight) - 1
        /\ \A i \in 1..Len(InFlight') : InFlight'[i] = InFlight[i + 1]
    BY <1>a, <2>1, TakeEffect DEF IInv
  <2>4. Len(InFlight) \in Nat /\ InFlight \in Seq(Items)
    BY <1>a, InFlightType DEF IInv
  <2>5. Len(InFlight) >= 1
    BY <2>3, <2>4
  <2>6. /\ Head(queue) = End => ticket \in {"ok", "unmanaged"}
        /\ Head(queue) = Failure => ticket \in {"none", "failed", "unmanaged"}
    BY <1>b, <2>2, <2>3, <2>4, <2>5 DEF TicketTold
  <2>7. /\ outcome' = "exhausted" => outcome = "exhausted" \/ Head(queue) = End
        /\ outcome' = "failed" => outcome = "failed" \/ Head(queue) = Failure
    BY <1>13 DEF Get
  <2>8. \A i \in 1..Len(InFlight') : /\ InFlight'[i] = End => ticket \in {"ok", "unmanaged"}
                                     /\ InFlight'[i] = Failure => ticket \in {"none", "failed", "unmanaged"}
    BY <1>b, <2>2, <2>3, <2>4 DEF TicketTold
  <2>9. TicketTold'
    BY <1>b, <1>13, <2>6, <2>7, <2>8 DEF TicketTold
  <2> QED
    BY <1>13, <1>d, <2>1, <2>9
<1>14. CASE (LeaveBody \/ CancelCaller) /\ UNCHANGED ticket
  <2>1. UNCHANGED <<ppc, open>>
    BY <1>14 DEF LeaveBody, CancelCaller, producerVars
  <2>2. closing' /\ (outcome' = outcome \/ outcome' = "cancelled")
    BY <1>14, <1>a DEF LeaveBody, CancelCaller, Teardown, callerVars, IInv, CallerByPlace
  <2>3. TicketTold'
    BY <1>b, <1>14, <2>2 DEF TicketTold
  <2> QED
    BY <1>14, <1>d, <2>1, <2>3
<1>15. CASE Join /\ UNCHANGED ticket
  <2>1. UNCHANGED <<ppc, held, open, queue, closing, outcome>>
    BY <1>15 DEF Join, producerVars
  <2> QED
    BY <1>b, <1>15, <1>d, <2>1 DEF TicketTold, InFlight
<1>16. CASE UNCHANGED managedVars \/ (Terminated /\ UNCHANGED ticket)
  BY <1>16, <1>b, <1>d DEF managedVars, Terminated, vars, TicketTold, InFlight
<1> QED
  BY <1>1, <1>2, <1>3, <1>4, <1>5, <1>6, <1>7, <1>8, <1>9, <1>10, <1>11, <1>12, <1>13, <1>14, <1>15, <1>16
     DEF ManagedNext, ProducerStops, CallerRuns, Streams

\* A streamed completion is a relay, whatever the router does: what holds of every
\* relay holds of it.
THEOREM StreamIsRelay == ManagedSpec => Spec
<1>1. ManagedInit => Init
  BY DEF ManagedInit
<1> QED
  BY <1>1, StepOfRelay, PTL DEF ManagedSpec, Spec

\* The model's credit is back when the relay is left, whatever was cancelled and
\* when, and the router hears of a success exactly for an exhausted stream
\* (call() and stream() of application_adapter.py).
THEOREM TicketIsReturned == ManagedSpec => []TicketReturned
<1>1. ManagedInit => ManagedInv
  <2> SUFFICES ASSUME ManagedInit PROVE ManagedInv
    OBVIOUS
  <2>1. IInv /\ InFlight = <<>>
    BY InitIInv DEF ManagedInit, Init, InFlight
  <2> QED
    BY <2>1 DEF ManagedInv, ManagedInit, Init, TicketByPlace, TicketTold
<1>2. ManagedInv => TicketReturned
  BY DEF ManagedInv, IInv, CallerByPlace, TicketByPlace, TicketTold, TicketReturned
<1> QED
  BY <1>1, <1>2, ManagedStep, PTL DEF ManagedSpec
=============================================================================
