--------------------------- MODULE UdpSenderProofs ---------------------------
(***************************************************************************)
(* The sender of UdpSender has one send under way at most, counts its      *)
(* tasks exactly, is deleted only when nothing will touch it, and sends    *)
(* what it was given in order, for any number of callers and threads, any  *)
(* bursts and any limit of the queue.                                      *)
(***************************************************************************)
EXTENDS UdpSender, FiniteSetTheorems, SequenceTheorems, TLAPS

-----------------------------------------------------------------------------
(* Counting threads.                                                       *)

(* How many members of S the function f takes into P.                      *)
Count(S, f, P) == Cardinality({x \in S : f[x] \in P})

(* A count is a natural number, and zero when f takes nobody into P.       *)
LEMMA CountIs ==
  ASSUME NEW S, IsFiniteSet(S), NEW f, NEW P
  PROVE  /\ Count(S, f, P) \in Nat
         /\ Count(S, f, P) = 0 <=> \A x \in S : f[x] \notin P
<1> DEFINE T == {x \in S : f[x] \in P}
<1>1. T \subseteq S
  OBVIOUS
<1>2. IsFiniteSet(T)
  BY <1>1, FS_Subset
<1>3. Cardinality(T) \in Nat /\ (Cardinality(T) = 0 <=> T = {})
  BY <1>2, FS_CardinalityType, FS_EmptySet
<1>4. T = {} <=> \A x \in S : f[x] \notin P
  OBVIOUS
<1> QED
  BY <1>3, <1>4 DEF Count

(* One if v is in P, and zero otherwise.                                  *)
One(v, P) == IF v \in P THEN 1 ELSE 0

(* From f to g one member of S moves from old to new.                      *)
Moves(S, f, g, t, old, new) ==
  f[t] = old /\ \A x \in S : g[x] = IF x = t THEN new ELSE f[x]

(* When one member moves, it leaves one count and enters another.          *)
LEMMA CountMoves ==
  ASSUME NEW S, IsFiniteSet(S), NEW t \in S, NEW f, NEW g, NEW old, NEW new,
         Moves(S, f, g, t, old, new), NEW P
  PROVE  Count(S, g, P) = Count(S, f, P) + One(new, P)
                                         - One(old, P)
<1> DEFINE T == {x \in S : f[x] \in P}
           U == {x \in S : g[x] \in P}
           R == T \ {t}
<1>1. IsFiniteSet(T)
  <2>1. T \subseteq S
    OBVIOUS
  <2> QED
    BY <2>1, FS_Subset
<1>2. IsFiniteSet(R) /\ Cardinality(R) = IF t \in T THEN Cardinality(T) - 1 ELSE Cardinality(T)
  BY <1>1, FS_RemoveElement
<1>3. t \in T <=> old \in P
  BY DEF Moves
<1>4. CASE new \in P
  <2>1. U = R \cup {t}
    BY <1>4 DEF Moves
  <2>2. t \notin R
    OBVIOUS
  <2>3. Cardinality(U) = Cardinality(R) + 1
    <3> HIDE DEF R, U
    <3> QED
      BY <2>1, <2>2, <1>2, FS_AddElement
  <2>4. Cardinality(T) \in Nat
    BY <1>1, FS_CardinalityType
  <2> HIDE DEF R, T, U
  <2>5. Cardinality(U) = Cardinality(T) + One(new, P) - One(old, P)
    BY <2>3, <2>4, <1>2, <1>3, <1>4 DEF One
  <2> QED
    BY <2>5, <1>4 DEF One, Count, T, U
<1>5. CASE new \notin P
  <2>1. U = R
    BY <1>5 DEF Moves
  <2>2. Cardinality(T) \in Nat
    BY <1>1, FS_CardinalityType
  <2> HIDE DEF R, T, U
  <2>3. Cardinality(U) = Cardinality(T) + One(new, P) - One(old, P)
    BY <2>1, <2>2, <1>2, <1>3, <1>5 DEF One
  <2> QED
    BY <2>3, <1>5 DEF One, Count, T, U
<1> QED
  BY <1>4, <1>5

-----------------------------------------------------------------------------
(* The inductive invariant.                                                *)
Burst == Seq(Packet) \ {<<>>}

QueueOK ==
  /\ waitingQueue \in Seq(Burst)
  /\ sendBuff \in Packet \cup {0}
  /\ queued \in 0 .. MaxPackets

ControlOK ==
  /\ pending \in Nat
  /\ completed \in Seq({"sent", "failed"})
  /\ caller \in [Caller -> {"idle", "counted", "accepted", "queued", "trying"}]
  /\ handler \in [Thread -> {"none", "counted", "cleared", "trying", "leave"}]
  /\ result \in [Thread -> {"none", "sent", "failed"}]
  /\ closePc \in {"open", "flagged", "asking", "asked", "deleted"}

FlagsOK == isSending \in BOOLEAN /\ closed \in BOOLEAN

InCall    == Callers({"counted", "accepted", "queued", "trying"})
InFinish  == Handlers({"counted", "cleared", "trying"})
InLeave   == Handlers({"leave"})
InFlight  == pending + Len(completed) + Handlers({"counted"})

TasksCounted ==
  sendTasks = InCall + pending + Len(completed) + InLeave + 2 * InFinish

IInv ==
  /\ QueueOK /\ ControlOK /\ FlagsOK
  /\ TasksCounted /\ OneInFlight /\ SenderSafe

CallerPc  == {"idle", "counted", "accepted", "queued", "trying"}
HandlerPc == {"none", "counted", "cleared", "trying", "leave"}

(* The counts of the module are counts.                                    *)
LEMMA CountsAre ==
  /\ \A pcs : Callers(pcs) = Count(Caller, caller, pcs)
  /\ \A pcs : Handlers(pcs) = Count(Thread, handler, pcs)
  /\ \A pcs : Callers(pcs)' = Count(Caller, caller', pcs)
  /\ \A pcs : Handlers(pcs)' = Count(Thread, handler', pcs)
BY DEF Callers, Handlers, Count

(* The parts of the two sums are natural numbers.                          *)
LEMMA PartsAreNat ==
  ASSUME ControlOK
  PROVE  /\ InCall \in Nat /\ InFinish \in Nat /\ InLeave \in Nat
         /\ Handlers({"counted"}) \in Nat
         /\ pending \in Nat /\ Len(completed) \in Nat
         /\ InFlight \in Nat
<1>1. \A pcs : Callers(pcs) \in Nat /\ Handlers(pcs) \in Nat
  <2> TAKE pcs
  <2>1. Count(Caller, caller, pcs) \in Nat /\ Count(Thread, handler, pcs) \in Nat
    BY UdpSenderAssumption, CountIs
  <2> QED
    BY <2>1, CountsAre, Zenon
<1>2. /\ InCall \in Nat /\ InFinish \in Nat /\ InLeave \in Nat
      /\ Handlers({"counted"}) \in Nat
  BY <1>1, Zenon DEF InCall, InFinish, InLeave
<1>3. pending \in Nat /\ Len(completed) \in Nat
  BY LenProperties DEF ControlOK
<1> QED
  BY <1>2, <1>3 DEF InFlight

(* A caller that moves on.                                                 *)
LEMMA CallerMoves ==
  ASSUME ControlOK, NEW c \in Caller, NEW old, NEW new \in CallerPc,
         CallerStep(c, old, new)
  PROVE  /\ caller' \in [Caller -> CallerPc] /\ old \in CallerPc
         /\ InCall' = InCall + (IF new = "idle" THEN 0 ELSE 1)
                             - (IF old = "idle" THEN 0 ELSE 1)
<1> DEFINE P == {"counted", "accepted", "queued", "trying"}
<1>1. /\ caller \in [Caller -> CallerPc] /\ caller[c] = old
      /\ caller' = [caller EXCEPT ![c] = new]
  BY DEF ControlOK, CallerStep, CallerPc
<1>2. Count(Caller, caller', P) =
        Count(Caller, caller, P) + One(new, P)
                                 - One(old, P)
  <2>1. IsFiniteSet(Caller)
    BY UdpSenderAssumption
  <2>2. Moves(Caller, caller, caller', c, old, new)
    BY <1>1 DEF Moves
  <2> HIDE DEF P
  <2> QED
    BY <2>1, <2>2, CountMoves
<1>3. InCall = Count(Caller, caller, P) /\ InCall' = Count(Caller, caller', P)
  BY CountsAre, Zenon DEF InCall
<1>4. old \in CallerPc /\ caller' \in [Caller -> CallerPc]
  BY <1>1
<1>5. \A pc \in CallerPc : pc \in P <=> pc # "idle"
  BY DEF CallerPc
<1> HIDE DEF P
<1>6. /\ One(new, P) = (IF new = "idle" THEN 0 ELSE 1)
      /\ One(old, P) = (IF old = "idle" THEN 0 ELSE 1)
  BY <1>4, <1>5 DEF One
<1> QED
  BY <1>2, <1>3, <1>4, <1>6, Zenon

(* A handler that moves on.                                                *)
LEMMA HandlerMoves ==
  ASSUME ControlOK, NEW t \in Thread, NEW old, NEW new \in HandlerPc,
         HandlerStep(t, old, new)
  PROVE  /\ handler' \in [Thread -> HandlerPc]
         /\ \A pcs : Handlers(pcs)' = Handlers(pcs) + One(new, pcs)
                                                   - One(old, pcs)
<1>1. /\ handler \in [Thread -> HandlerPc] /\ handler[t] = old
      /\ handler' = [handler EXCEPT ![t] = new]
  BY DEF ControlOK, HandlerStep, HandlerPc
<1>2. ASSUME NEW pcs
      PROVE  Handlers(pcs)' = Handlers(pcs) + One(new, pcs)
                                            - One(old, pcs)
  <2>1. Count(Thread, handler', pcs) =
          Count(Thread, handler, pcs) + One(new, pcs)
                                      - One(old, pcs)
    <3>1. IsFiniteSet(Thread)
      BY UdpSenderAssumption
    <3>2. Moves(Thread, handler, handler', t, old, new)
      BY <1>1 DEF Moves
    <3> QED
      BY <3>1, <3>2, CountMoves
  <2> QED
    BY <2>1, CountsAre, Zenon
<1> QED
  BY <1>1, <1>2, Zenon

-----------------------------------------------------------------------------
(* The steps.                                                              *)

LEMMA InitIInv == Init => IInv
<1> SUFFICES ASSUME Init PROVE IInv
  OBVIOUS
<1>1. QueueOK
  BY UdpSenderAssumption, EmptySeq DEF Init, QueueOK
<1>2. ControlOK
  BY EmptySeq DEF Init, ControlOK
<1>3. FlagsOK
  BY Zenon DEF Init, FlagsOK
<1>4. \A pcs : /\ "idle" \notin pcs => Callers(pcs) = 0
               /\ "none" \notin pcs => Handlers(pcs) = 0
  <2> TAKE pcs
  <2>1. "idle" \notin pcs => Count(Caller, caller, pcs) = 0
    BY UdpSenderAssumption, CountIs DEF Init
  <2>2. "none" \notin pcs => Count(Thread, handler, pcs) = 0
    BY UdpSenderAssumption, CountIs DEF Init
  <2> QED
    BY <2>1, <2>2, CountsAre, Zenon
<1>5. InCall = 0 /\ InFinish = 0 /\ InLeave = 0 /\ Handlers({"counted"}) = 0
  BY <1>4 DEF InCall, InFinish, InLeave
<1>6. Len(completed) = 0 /\ pending = 0 /\ sendTasks = 0
  BY EmptySeq DEF Init
<1>7. TasksCounted
  BY <1>5, <1>6 DEF TasksCounted
<1>8. InFlight = 0
  BY <1>5, <1>6 DEF InFlight
<1>9. InFlight <= 1 /\ InFlight # 1
  BY <1>8
<1>10. OneInFlight
  BY <1>9, Zenon DEF OneInFlight, InFlight, Init
<1> QED
  BY <1>1, <1>2, <1>3, <1>7, <1>10 DEF IInv, SenderSafe, Init

(* OneInFlight is a statement about InFlight; what a step that leaves both *)
(* InFlight and isSending alone, or one that does not, makes of it.        *)
LEMMA FlightUnmoved ==
  ASSUME OneInFlight, InFlight' = InFlight, isSending' = isSending
  PROVE  OneInFlight'
BY Zenon DEF OneInFlight, InFlight

LEMMA FlightBegins ==
  ASSUME ControlOK, OneInFlight, ~isSending, InFlight' = InFlight + 1, isSending' = TRUE
  PROVE  OneInFlight'
<1>1. InFlight # 1 /\ InFlight <= 1
  BY Zenon DEF OneInFlight, InFlight
<1>2. InFlight' <= 1 /\ InFlight' = 1
  BY <1>1, PartsAreNat
<1> QED
  BY <1>2, Zenon DEF OneInFlight, InFlight

LEMMA FlightEnds ==
  ASSUME ControlOK, OneInFlight, InFlight' = InFlight - 1, isSending' = FALSE
  PROVE  OneInFlight'
<1>1. InFlight <= 1
  BY Zenon DEF OneInFlight, InFlight
<1>2. InFlight' <= 1 /\ InFlight' # 1
  BY <1>1, PartsAreNat
<1> QED
  BY <1>2, Zenon DEF OneInFlight, InFlight

(* A step that changes sendTasks by as much as what it counts.             *)
LEMMA TasksKept ==
  ASSUME ControlOK, TasksCounted,
         NEW call \in Int, NEW send \in Int, NEW leave \in Int, NEW finish \in Int,
         InCall' = InCall + call,
         pending' \in Nat, Len(completed') \in Nat,
         pending' + Len(completed') = pending + Len(completed) + send,
         InLeave' = InLeave + leave, InFinish' = InFinish + finish,
         sendTasks' = sendTasks + call + send + leave + 2 * finish
  PROVE  TasksCounted'
<1>1. /\ InCall \in Nat /\ InFinish \in Nat /\ InLeave \in Nat
      /\ pending \in Nat /\ Len(completed) \in Nat
  BY PartsAreNat
<1>2. sendTasks = InCall + pending + Len(completed) + InLeave + 2 * InFinish
  BY DEF TasksCounted
<1>3. InCall' \in Int /\ InLeave' \in Int /\ InFinish' \in Int
  BY <1>1
<1>4. sendTasks = InCall + (pending + Len(completed)) + InLeave + 2 * InFinish
  BY <1>1, <1>2
<1>5. sendTasks' = InCall' + (pending' + Len(completed')) + InLeave' + 2 * InFinish'
  <2> DEFINE sends == pending + Len(completed)
  <2>1. sends \in Int /\ pending' + Len(completed') = sends + send
    BY <1>1
  <2> HIDE DEF sends
  <2>2. sendTasks = InCall + sends + InLeave + 2 * InFinish
    BY <1>4 DEF sends
  <2> QED
    BY <1>1, <1>3, <2>1, <2>2
<1>6. sendTasks' = InCall' + pending' + Len(completed') + InLeave' + 2 * InFinish'
  BY <1>3, <1>5
<1> QED
  BY <1>6 DEF TasksCounted

(* What doSend does to the queue and to the counts.                        *)
LEMMA DoSendIs ==
  ASSUME IInv, DoSend
  PROVE  /\ waitingQueue' \in Seq(Burst) /\ sendBuff' \in Packet \cup {0}
         /\ isSending' \in BOOLEAN
         /\ \/ /\ sendTasks' = sendTasks - 1
               /\ pending' = pending /\ isSending' = isSending
            \/ /\ sendTasks' = sendTasks
               /\ pending' = pending + 1 /\ ~isSending /\ isSending' = TRUE
<1>1. waitingQueue \in Seq(Burst) /\ sendBuff \in Packet \cup {0} /\ isSending \in BOOLEAN
  BY DEF IInv, QueueOK, FlagsOK
<1>2. CASE waitingQueue' = waitingQueue /\ UNCHANGED <<isSending, sendBuff, pending>>
           /\ sendTasks' = sendTasks - 1
  BY <1>1, <1>2, Zenon
<1>3. CASE waitingQueue' = <<>> /\ UNCHANGED <<isSending, sendBuff, pending>>
           /\ sendTasks' = sendTasks - 1
  <2>1. <<>> \in Seq(Burst)
    BY EmptySeq
  <2> QED
    BY <1>1, <1>3, <2>1, Zenon
<1>4. CASE /\ ~isSending /\ Len(waitingQueue) \in 1 .. MAX_WAITING_QUEUE_SIZE
           /\ isSending' = TRUE /\ sendBuff' = Head(Head(waitingQueue))
           /\ pending' = pending + 1 /\ sendTasks' = sendTasks
           /\ waitingQueue' = IF Len(Head(waitingQueue)) = 1 THEN Tail(waitingQueue)
                              ELSE <<Tail(Head(waitingQueue))>> \o Tail(waitingQueue)
  <2> DEFINE b == Head(waitingQueue)
             rest == Tail(waitingQueue)
  <2>1. waitingQueue # <<>>
    BY <1>4, EmptySeq
  <2>2. b \in Burst /\ rest \in Seq(Burst)
    BY <1>1, <2>1, HeadTailProperties
  <2> HIDE DEF b, rest
  <2>3. Head(b) \in Packet /\ Tail(b) \in Seq(Packet) /\ Len(Tail(b)) = Len(b) - 1
        /\ Len(b) \in Nat
    BY <2>2, HeadTailProperties, LenProperties DEF Burst
  <2>4. Len(b) # 1 => Tail(b) \in Burst
    <3>1. Len(b) # 1 => Len(Tail(b)) # 0
      BY <2>3
    <3>2. Len(<<>>) = 0
      BY EmptySeq
    <3> QED
      BY <2>3, <3>1, <3>2 DEF Burst
  <2>5. Len(b) # 1 => <<Tail(b)>> \o rest \in Seq(Burst)
    <3>1. Tail(b) \in Burst => <<Tail(b)>> \in Seq(Burst)
      OBVIOUS
    <3> QED
      BY <2>2, <2>4, <3>1, ConcatProperties
  <2>6. waitingQueue' = IF Len(b) = 1 THEN rest ELSE <<Tail(b)>> \o rest
    BY <1>4 DEF b, rest
  <2>7. waitingQueue' \in Seq(Burst)
    BY <2>2, <2>5, <2>6
  <2>8. sendBuff' \in Packet \cup {0}
    BY <1>4, <2>3 DEF b
  <2> QED
    BY <1>4, <2>7, <2>8, Zenon
<1> QED
  BY <1>2, <1>3, <1>4, Zenon DEF DoSend

(* Whoever has not finished its call or its handler has kept the sender    *)
(* from being deleted, and so has a send.                                  *)
LEMMA NotDeleted ==
  ASSUME IInv
  PROVE  /\ \A c \in Caller : caller[c] # "idle" => closePc # "deleted"
         /\ \A t \in Thread : handler[t] # "none" => closePc # "deleted"
         /\ pending > 0 => closePc # "deleted"
         /\ completed # <<>> => closePc # "deleted"
BY DEF IInv, SenderSafe, ControlOK

(* A step of a caller in which nothing but the caller moves, and perhaps   *)
(* the count, and perhaps the queue grows.                                 *)
LEMMA CallerStepIs ==
  ASSUME IInv, NEW c \in Caller, NEW old, NEW new \in CallerPc,
         CallerStep(c, old, new),
         QueueOK',
         UNCHANGED <<isSending, closed, pending, completed, handler, result, closePc>>,
         sendTasks' = sendTasks + (IF new = "idle" THEN 0 ELSE 1)
                                - (IF old = "idle" THEN 0 ELSE 1),
         old # "idle" \/ closePc = "open"
  PROVE  IInv'
<1>1. ControlOK /\ TasksCounted /\ OneInFlight /\ FlagsOK
  BY DEF IInv
<1>2. /\ caller' \in [Caller -> CallerPc]
      /\ InCall' = InCall + (IF new = "idle" THEN 0 ELSE 1)
                          - (IF old = "idle" THEN 0 ELSE 1)
  BY <1>1, CallerMoves
<1>3. ControlOK'
  BY <1>1, <1>2 DEF ControlOK, CallerPc
<1>4. FlagsOK'
  BY <1>1, Zenon DEF FlagsOK
<1>5. /\ InFinish' = InFinish /\ InLeave' = InLeave
      /\ Handlers({"counted"})' = Handlers({"counted"})
  BY DEF InFinish, InLeave, Handlers
<1>6. TasksCounted'
  <2> DEFINE call == (IF new = "idle" THEN 0 ELSE 1) - (IF old = "idle" THEN 0 ELSE 1)
  <2>1. call \in Int
    OBVIOUS
  <2>2. InCall \in Nat /\ pending \in Nat /\ Len(completed) \in Nat /\ sendTasks \in Int
        /\ InFinish \in Nat /\ InLeave \in Nat
    BY <1>1, PartsAreNat DEF TasksCounted
  <2>3. InCall' = InCall + call /\ sendTasks' = sendTasks + call
    BY <1>2, <2>2
  <2> HIDE DEF call
  <2>4. /\ sendTasks' = sendTasks + call + 0 + 0 + 2 * 0
        /\ pending' = pending /\ completed' = completed
        /\ pending + Len(completed) = pending + Len(completed) + 0
        /\ InLeave' = InLeave + 0 /\ InFinish' = InFinish + 0
    BY <1>5, <2>1, <2>2, <2>3
  <2> QED
    BY <1>1, <2>1, <2>2, <2>3, <2>4, TasksKept
<1>7. OneInFlight'
  <2>1. InFlight' = InFlight
    BY <1>5 DEF InFlight
  <2> QED
    BY <2>1, <1>1, FlightUnmoved, Zenon
<1>8. SenderSafe'
  <2>1. caller[c] = old
    BY DEF CallerStep
  <2>2. closePc' # "deleted"
    BY <2>1, NotDeleted
  <2> QED
    BY <2>2 DEF SenderSafe
<1> QED
  BY <1>3, <1>4, <1>6, <1>7, <1>8 DEF IInv

(* The burst a call appends is one.                                        *)
LEMMA SendQueueIs == ASSUME IInv, NEW c \in Caller, SendQueue(c) PROVE QueueOK'
<1>1. waitingQueue \in Seq(Burst) /\ queued \in 0 .. MaxPackets
      /\ sendBuff' \in Packet \cup {0}
  BY DEF IInv, QueueOK, SendQueue
<1>2. PICK n \in 0 .. MaxBurst :
        /\ queued + n <= MaxPackets
        /\ queued' = queued + n
        /\ waitingQueue' = IF n = 0 THEN waitingQueue
                           ELSE Append(waitingQueue, [i \in 1 .. n |-> queued + i])
  BY DEF SendQueue
<1>3. n \in Nat /\ queued' \in 0 .. MaxPackets
  BY <1>1, <1>2, UdpSenderAssumption
<1> DEFINE b == [i \in 1 .. n |-> queued + i]
<1>4. n # 0 => b \in Burst
  <2>1. \A i \in 1 .. n : queued + i \in Packet
    BY <1>1, <1>2, <1>3, UdpSenderAssumption DEF Packet
  <2>2. b \in [1 .. n -> Packet]
    BY <2>1
  <2>3. b \in Seq(Packet) /\ Len(b) = n
    BY <2>2, <1>3
  <2>4. Len(<<>>) = 0
    BY EmptySeq
  <2> QED
    BY <2>3, <2>4 DEF Burst
<1>5. waitingQueue' \in Seq(Burst)
  <2> HIDE DEF b
  <2>1. waitingQueue' = IF n = 0 THEN waitingQueue ELSE Append(waitingQueue, b)
    BY <1>2 DEF b
  <2> QED
    BY <2>1, <1>1, <1>4, AppendProperties
<1> QED
  BY <1>1, <1>3, <1>5 DEF QueueOK

(* doSend by a caller.                                                     *)
LEMMA SendDoStep == ASSUME IInv, NEW c \in Caller, SendDo(c) PROVE IInv'
<1>1. ControlOK /\ TasksCounted /\ OneInFlight /\ FlagsOK /\ QueueOK
  BY DEF IInv
<1>2. /\ CallerStep(c, "trying", "idle")
      /\ UNCHANGED <<closed, completed, handler, result, closePc, queued>>
  BY DEF SendDo
<1>3. /\ caller' \in [Caller -> CallerPc]
      /\ InCall' = InCall - 1
  <2>1. "idle" \in CallerPc
    BY DEF CallerPc
  <2>2. InCall \in Nat
    BY <1>1, PartsAreNat
  <2> QED
    BY <1>1, <1>2, <2>1, <2>2, CallerMoves
<1>4. /\ waitingQueue' \in Seq(Burst) /\ sendBuff' \in Packet \cup {0}
      /\ isSending' \in BOOLEAN
      /\ \/ /\ sendTasks' = sendTasks - 1
            /\ pending' = pending /\ isSending' = isSending
         \/ /\ sendTasks' = sendTasks
            /\ pending' = pending + 1 /\ ~isSending /\ isSending' = TRUE
  BY DoSendIs, Zenon DEF SendDo
<1>5. QueueOK'
  BY <1>1, <1>2, <1>4 DEF QueueOK
<1>6. pending' \in Nat
  BY <1>1, <1>4 DEF ControlOK
<1>7. ControlOK'
  BY <1>1, <1>2, <1>3, <1>6 DEF ControlOK, CallerPc
<1>8. FlagsOK'
  BY <1>1, <1>2, <1>4, Zenon DEF FlagsOK
<1>9. /\ InFinish' = InFinish /\ InLeave' = InLeave
      /\ Handlers({"counted"})' = Handlers({"counted"})
  BY <1>2 DEF InFinish, InLeave, Handlers
<1>10. TasksCounted'
  <2>1. InCall \in Nat /\ pending \in Nat /\ Len(completed) \in Nat /\ sendTasks \in Int
        /\ InFinish \in Nat /\ InLeave \in Nat /\ completed' = completed
    BY <1>1, <1>2, PartsAreNat DEF TasksCounted
  <2>2. PICK send \in {0, 1} :
          pending' = pending + send /\ sendTasks' = sendTasks - 1 + send
    BY <1>4, <2>1
  <2>3. /\ InCall' = InCall + (-1) /\ InLeave' = InLeave + 0 /\ InFinish' = InFinish + 0
        /\ pending' + Len(completed') = pending + Len(completed) + send
        /\ Len(completed') \in Nat
        /\ sendTasks' = sendTasks + (-1) + send + 0 + 2 * 0
    BY <1>3, <1>9, <2>1, <2>2
  <2> QED
    BY <1>1, <1>6, <2>3, TasksKept
<1>11. OneInFlight'
  <2>1. CASE pending' = pending /\ isSending' = isSending
    <3>1. InFlight' = InFlight
      BY <2>1, <1>2, <1>9 DEF InFlight
    <3> QED
      BY <3>1, <2>1, <1>1, FlightUnmoved, Zenon
  <2>2. CASE pending' = pending + 1 /\ ~isSending /\ isSending' = TRUE
    <3>1. InFlight' = InFlight + 1
      BY <2>2, <1>1, <1>2, <1>9, PartsAreNat DEF InFlight
    <3> QED
      BY <3>1, <2>2, <1>1, FlightBegins, Zenon
  <2> QED
    BY <2>1, <2>2, <1>4, Zenon
<1>12. SenderSafe'
  <2>1. caller[c] # "idle"
    BY <1>2 DEF CallerStep
  <2>2. closePc' # "deleted"
    BY <2>1, <1>2, NotDeleted
  <2> QED
    BY <2>2 DEF SenderSafe
<1> QED
  BY <1>5, <1>7, <1>8, <1>10, <1>11, <1>12 DEF IInv

(* A step of a handler that leaves the queue, the sends and the callers    *)
(* alone.  Everything else follows from how the counts change.             *)
LEMMA HandlerStepIs ==
  ASSUME IInv, NEW t \in Thread, NEW old \in HandlerPc \ {"none"}, NEW new \in HandlerPc,
         HandlerStep(t, old, new),
         UNCHANGED <<waitingQueue, sendBuff, queued, closed, pending, completed,
                     caller, closePc>>,
         result' \in [Thread -> {"none", "sent", "failed"}],
         isSending' \in BOOLEAN,
         sendTasks' = sendTasks
           + One(new, {"leave"}) - One(old, {"leave"})
           + 2 * (One(new, {"counted", "cleared", "trying"})
                    - One(old, {"counted", "cleared", "trying"})),
         OneInFlight'
  PROVE  IInv'
<1>1. ControlOK /\ TasksCounted /\ FlagsOK /\ QueueOK
  BY DEF IInv
<1>2. /\ handler' \in [Thread -> HandlerPc]
      /\ \A pcs : Handlers(pcs)' = Handlers(pcs) + One(new, pcs) - One(old, pcs)
  BY <1>1, HandlerMoves
<1>3. ControlOK'
  BY <1>1, <1>2 DEF ControlOK, HandlerPc
<1>4. FlagsOK' /\ QueueOK'
  BY <1>1, Zenon DEF FlagsOK, QueueOK
<1>5. InCall' = InCall
  BY DEF InCall, Callers
<1>6. /\ InLeave' = InLeave + One(new, {"leave"}) - One(old, {"leave"})
      /\ InFinish' = InFinish + One(new, {"counted", "cleared", "trying"})
                              - One(old, {"counted", "cleared", "trying"})
  BY <1>2, Zenon DEF InLeave, InFinish
<1>7. TasksCounted'
  <2> DEFINE leave == One(new, {"leave"}) - One(old, {"leave"})
             finish == One(new, {"counted", "cleared", "trying"})
                         - One(old, {"counted", "cleared", "trying"})
  <2>1. leave \in Int /\ finish \in Int
    BY DEF One
  <2>2. /\ InCall \in Nat /\ pending \in Nat /\ Len(completed) \in Nat /\ sendTasks \in Int
        /\ InFinish \in Nat /\ InLeave \in Nat
    BY <1>1, PartsAreNat DEF TasksCounted
  <2>3. InLeave' = InLeave + leave /\ InFinish' = InFinish + finish
    <3>1. \A v, P : One(v, P) \in Int
      BY DEF One
    <3> QED
      BY <3>1, <2>2, <1>6
  <2>4. sendTasks' = sendTasks + leave + 2 * finish
    <3>1. \A v, P : One(v, P) \in Int
      BY DEF One
    <3> QED
      BY <3>1, <2>2
  <2> HIDE DEF leave, finish
  <2>5. /\ sendTasks' = sendTasks + 0 + 0 + leave + 2 * finish
        /\ InCall' = InCall + 0
        /\ pending' \in Nat /\ Len(completed') \in Nat
        /\ pending' + Len(completed') = pending + Len(completed) + 0
    BY <1>5, <2>1, <2>2, <2>4
  <2> QED
    BY <1>1, <2>1, <2>3, <2>5, TasksKept
<1>8. SenderSafe'
  <2>1. handler[t] # "none"
    BY DEF HandlerStep
  <2>2. closePc' # "deleted"
    BY <2>1, NotDeleted
  <2> QED
    BY <2>2 DEF SenderSafe
<1> QED
  BY <1>3, <1>4, <1>7, <1>8 DEF IInv

(* A step of a handler that is neither entering nor clearing the flag.     *)
LEMMA HandlerFlight ==
  ASSUME IInv, NEW t \in Thread, NEW old, NEW new \in HandlerPc,
         HandlerStep(t, old, new), old # "counted", new # "counted",
         UNCHANGED <<isSending, pending, completed>>
  PROVE  OneInFlight'
<1>1. ControlOK /\ OneInFlight
  BY DEF IInv
<1>2. Handlers({"counted"})' = Handlers({"counted"}) + One(new, {"counted"})
                                                     - One(old, {"counted"})
  BY <1>1, HandlerMoves
<1>3. One(new, {"counted"}) = 0 /\ One(old, {"counted"}) = 0
  BY DEF One
<1>4. InFlight' = InFlight
  BY <1>1, <1>2, <1>3, PartsAreNat DEF InFlight
<1> QED
  BY <1>1, <1>4, FlightUnmoved, Zenon

(* FinishReturn, FinishTry and FinishLeave.                                *)
LEMMA FinishPlainStep ==
  ASSUME IInv, NEW t \in Thread, FinishReturn(t) \/ FinishTry(t) \/ FinishLeave(t)
  PROVE  IInv'
<1>1. isSending \in BOOLEAN /\ result \in [Thread -> {"none", "sent", "failed"}]
      /\ sendTasks \in Int
  BY PartsAreNat DEF IInv, FlagsOK, ControlOK, TasksCounted
<1>2. CASE FinishReturn(t)
  <2>1. /\ HandlerStep(t, "cleared", "leave") /\ sendTasks' = sendTasks - 1
        /\ UNCHANGED <<waitingQueue, sendBuff, queued, closed, pending, completed,
                        caller, closePc, isSending, result>>
    BY <1>2 DEF FinishReturn
  <2>2. OneInFlight'
    BY <2>1, HandlerFlight DEF HandlerPc
  <2>3. sendTasks' = sendTasks
           + One("leave", {"leave"}) - One("cleared", {"leave"})
           + 2 * (One("leave", {"counted", "cleared", "trying"})
                    - One("cleared", {"counted", "cleared", "trying"}))
    BY <1>1, <2>1 DEF One
  <2>4. isSending' \in BOOLEAN
    BY <1>1, <2>1, Zenon
  <2> QED
    BY <1>1, <2>1, <2>2, <2>3, <2>4, HandlerStepIs DEF HandlerPc
<1>3. CASE FinishTry(t)
  <2>1. /\ HandlerStep(t, "cleared", "trying") /\ sendTasks' = sendTasks
        /\ UNCHANGED <<waitingQueue, sendBuff, queued, closed, pending, completed,
                        caller, closePc, isSending, result>>
    BY <1>3 DEF FinishTry, queueVars
  <2>2. OneInFlight'
    BY <2>1, HandlerFlight DEF HandlerPc
  <2>3. sendTasks' = sendTasks
           + One("trying", {"leave"}) - One("cleared", {"leave"})
           + 2 * (One("trying", {"counted", "cleared", "trying"})
                    - One("cleared", {"counted", "cleared", "trying"}))
    BY <1>1, <2>1 DEF One
  <2>4. isSending' \in BOOLEAN
    BY <1>1, <2>1, Zenon
  <2> QED
    BY <1>1, <2>1, <2>2, <2>3, <2>4, HandlerStepIs DEF HandlerPc
<1>4. CASE FinishLeave(t)
  <2>1. /\ HandlerStep(t, "leave", "none") /\ sendTasks' = sendTasks - 1
        /\ UNCHANGED <<waitingQueue, sendBuff, queued, closed, pending, completed,
                        caller, closePc, isSending>>
        /\ result' \in [Thread -> {"none", "sent", "failed"}]
    BY <1>1, <1>4 DEF FinishLeave
  <2>2. OneInFlight'
    BY <2>1, HandlerFlight DEF HandlerPc
  <2>3. sendTasks' = sendTasks
           + One("none", {"leave"}) - One("leave", {"leave"})
           + 2 * (One("none", {"counted", "cleared", "trying"})
                    - One("leave", {"counted", "cleared", "trying"}))
    BY <1>1, <2>1 DEF One
  <2>4. isSending' \in BOOLEAN
    BY <1>1, <2>1, Zenon
  <2> QED
    BY <1>1, <2>1, <2>2, <2>3, <2>4, HandlerStepIs DEF HandlerPc
<1> QED
  BY <1>2, <1>3, <1>4

(* The handler clears the flag: its send is no longer in flight.           *)
LEMMA FinishClearStep == ASSUME IInv, NEW t \in Thread, FinishClear(t) PROVE IInv'
<1>1. /\ HandlerStep(t, "counted", "cleared") /\ sendTasks' = sendTasks
      /\ isSending' = FALSE
      /\ UNCHANGED <<waitingQueue, sendBuff, queued, closed, pending, completed,
                      caller, closePc, result>>
  BY DEF FinishClear
<1>2. ControlOK /\ OneInFlight /\ sendTasks \in Int
      /\ result \in [Thread -> {"none", "sent", "failed"}]
  BY PartsAreNat DEF IInv, ControlOK, TasksCounted
<1>3. OneInFlight'
  <2>1. Handlers({"counted"})' = Handlers({"counted"}) + One("cleared", {"counted"})
                                                       - One("counted", {"counted"})
    BY <1>1, <1>2, HandlerMoves DEF HandlerPc
  <2>2. InFlight' = InFlight - 1
    BY <1>1, <1>2, <2>1, PartsAreNat DEF InFlight, One
  <2> QED
    BY <1>1, <1>2, <2>2, FlightEnds, Zenon
<1>4. sendTasks' = sendTasks
         + One("cleared", {"leave"}) - One("counted", {"leave"})
         + 2 * (One("cleared", {"counted", "cleared", "trying"})
                  - One("counted", {"counted", "cleared", "trying"}))
  BY <1>1, <1>2 DEF One
<1>5. isSending' \in BOOLEAN
  BY <1>1, Zenon
<1> QED
  BY <1>1, <1>2, <1>3, <1>4, <1>5, HandlerStepIs DEF HandlerPc

(* A thread takes a completion: a send more in a handler, one less there.  *)
LEMMA FinishCountStep == ASSUME IInv, NEW t \in Thread, FinishCount(t) PROVE IInv'
<1>1. /\ HandlerStep(t, "none", "counted") /\ sendTasks' = sendTasks + 1
      /\ completed # <<>> /\ completed' = Tail(completed)
      /\ result' = [result EXCEPT ![t] = Head(completed)]
      /\ UNCHANGED <<waitingQueue, sendBuff, queued, closed, pending,
                      caller, closePc, isSending>>
  BY DEF FinishCount
<1>2. ControlOK /\ TasksCounted /\ OneInFlight /\ FlagsOK /\ QueueOK
  BY DEF IInv
<1>3. /\ handler' \in [Thread -> HandlerPc]
      /\ \A pcs : Handlers(pcs)' = Handlers(pcs) + One("counted", pcs) - One("none", pcs)
  BY <1>1, <1>2, HandlerMoves DEF HandlerPc
<1>4. /\ completed' \in Seq({"sent", "failed"}) /\ Head(completed) \in {"sent", "failed"}
      /\ Len(completed') = Len(completed) - 1
  BY <1>1, <1>2, HeadTailProperties DEF ControlOK
<1>5. ControlOK'
  BY <1>1, <1>2, <1>3, <1>4 DEF ControlOK, HandlerPc
<1>6. FlagsOK' /\ QueueOK'
  BY <1>1, <1>2, Zenon DEF FlagsOK, QueueOK
<1>7. /\ InCall \in Nat /\ pending \in Nat /\ Len(completed) \in Nat /\ sendTasks \in Int
      /\ InFinish \in Nat /\ InLeave \in Nat /\ Handlers({"counted"}) \in Nat
      /\ Len(completed') \in Nat
  BY <1>2, <1>5, PartsAreNat, LenProperties DEF TasksCounted, ControlOK
<1>8. InCall' = InCall
  BY <1>1 DEF InCall, Callers
<1>9. InLeave' = InLeave + 0 /\ InFinish' = InFinish + 1
      /\ Handlers({"counted"})' = Handlers({"counted"}) + 1
  <2>1. /\ InLeave' = InLeave + One("counted", {"leave"}) - One("none", {"leave"})
        /\ InFinish' = InFinish + One("counted", {"counted", "cleared", "trying"})
                                - One("none", {"counted", "cleared", "trying"})
        /\ Handlers({"counted"})' = Handlers({"counted"}) + One("counted", {"counted"})
                                                          - One("none", {"counted"})
    BY <1>3, Zenon DEF InLeave, InFinish
  <2> QED
    BY <2>1, <1>7 DEF One
<1>10. TasksCounted'
  <2>1. /\ InCall' = InCall + 0 /\ pending' \in Nat
        /\ pending' + Len(completed') = pending + Len(completed) + (-1)
        /\ sendTasks' = sendTasks + 0 + (-1) + 0 + 2 * 1
    BY <1>1, <1>4, <1>7, <1>8
  <2> QED
    BY <1>2, <1>7, <1>9, <2>1, TasksKept
<1>11. OneInFlight'
  <2>1. InFlight' = InFlight
    BY <1>1, <1>4, <1>7, <1>9 DEF InFlight
  <2> QED
    BY <1>1, <1>2, <2>1, FlightUnmoved, Zenon
<1>12. SenderSafe'
  BY <1>1, NotDeleted DEF SenderSafe
<1> QED
  BY <1>5, <1>6, <1>10, <1>11, <1>12 DEF IInv

(* doSend by a handler.                                                    *)
LEMMA FinishDoStep == ASSUME IInv, NEW t \in Thread, FinishDo(t) PROVE IInv'
<1>1. /\ HandlerStep(t, "trying", "leave")
      /\ UNCHANGED <<closed, completed, caller, result, closePc, queued>>
  BY DEF FinishDo
<1>2. ControlOK /\ TasksCounted /\ OneInFlight /\ FlagsOK /\ QueueOK
  BY DEF IInv
<1>3. /\ handler' \in [Thread -> HandlerPc]
      /\ \A pcs : Handlers(pcs)' = Handlers(pcs) + One("leave", pcs) - One("trying", pcs)
  BY <1>1, <1>2, HandlerMoves DEF HandlerPc
<1>4. /\ waitingQueue' \in Seq(Burst) /\ sendBuff' \in Packet \cup {0}
      /\ isSending' \in BOOLEAN
      /\ \/ /\ sendTasks' = sendTasks - 1
            /\ pending' = pending /\ isSending' = isSending
         \/ /\ sendTasks' = sendTasks
            /\ pending' = pending + 1 /\ ~isSending /\ isSending' = TRUE
  BY DoSendIs, Zenon DEF FinishDo
<1>5. QueueOK'
  BY <1>1, <1>2, <1>4 DEF QueueOK
<1>6. pending' \in Nat
  BY <1>2, <1>4 DEF ControlOK
<1>7. ControlOK'
  BY <1>1, <1>2, <1>3, <1>6 DEF ControlOK, HandlerPc
<1>8. FlagsOK'
  BY <1>1, <1>2, <1>4, Zenon DEF FlagsOK
<1>9. /\ InCall \in Nat /\ pending \in Nat /\ Len(completed) \in Nat /\ sendTasks \in Int
      /\ InFinish \in Nat /\ InLeave \in Nat /\ Handlers({"counted"}) \in Nat
  BY <1>2, PartsAreNat DEF TasksCounted
<1>10. InLeave' = InLeave + 1 /\ InFinish' = InFinish + (-1)
       /\ Handlers({"counted"})' = Handlers({"counted"})
  <2>1. /\ InLeave' = InLeave + One("leave", {"leave"}) - One("trying", {"leave"})
        /\ InFinish' = InFinish + One("leave", {"counted", "cleared", "trying"})
                                - One("trying", {"counted", "cleared", "trying"})
        /\ Handlers({"counted"})' = Handlers({"counted"}) + One("leave", {"counted"})
                                                          - One("trying", {"counted"})
    BY <1>3, Zenon DEF InLeave, InFinish
  <2> QED
    BY <2>1, <1>9 DEF One
<1>11. TasksCounted'
  <2>1. PICK send \in {0, 1} :
          pending' = pending + send /\ sendTasks' = sendTasks - 1 + send
    BY <1>4, <1>9
  <2>2. InCall' = InCall + 0
    <3>1. InCall' = InCall
      BY <1>1 DEF InCall, Callers
    <3> QED
      BY <3>1, <1>9
  <2>3. /\ pending' + Len(completed') = pending + Len(completed) + send
        /\ Len(completed') \in Nat
        /\ sendTasks' = sendTasks + 0 + send + 1 + 2 * (-1)
    BY <1>1, <1>9, <2>1
  <2> QED
    BY <1>2, <1>6, <1>10, <2>2, <2>3, TasksKept
<1>12. OneInFlight'
  <2>1. CASE pending' = pending /\ isSending' = isSending
    <3>1. InFlight' = InFlight
      BY <2>1, <1>1, <1>10 DEF InFlight
    <3> QED
      BY <3>1, <2>1, <1>2, FlightUnmoved, Zenon
  <2>2. CASE pending' = pending + 1 /\ ~isSending /\ isSending' = TRUE
    <3>1. InFlight' = InFlight + 1
      BY <2>2, <1>1, <1>9, <1>10 DEF InFlight
    <3> QED
      BY <3>1, <2>2, <1>2, FlightBegins, Zenon
  <2> QED
    BY <2>1, <2>2, <1>4, Zenon
<1>13. SenderSafe'
  <2>1. handler[t] # "none"
    BY <1>1 DEF HandlerStep
  <2>2. closePc' # "deleted"
    BY <2>1, <1>1, NotDeleted
  <2> QED
    BY <2>2 DEF SenderSafe
<1> QED
  BY <1>5, <1>7, <1>8, <1>11, <1>12, <1>13 DEF IInv

(* Sends that complete, one by the socket or all by the cancel: what is    *)
(* no longer pending is completed.                                         *)
LEMMA CompleteStep ==
  ASSUME IInv,
         UNCHANGED <<waitingQueue, isSending, sendTasks, sendBuff, closed, caller,
                     handler, result, queued>>,
         pending' \in Nat,
         completed' \in Seq({"sent", "failed"}),
         pending' + Len(completed') = pending + Len(completed),
         closePc' \in {"open", "flagged", "asking", "asked"}
  PROVE  IInv'
<1>1. ControlOK /\ TasksCounted /\ OneInFlight /\ FlagsOK /\ QueueOK
  BY DEF IInv
<1>2. ControlOK'
  BY <1>1 DEF ControlOK
<1>3. FlagsOK' /\ QueueOK'
  BY <1>1, Zenon DEF FlagsOK, QueueOK
<1>4. /\ InCall \in Nat /\ pending \in Nat /\ Len(completed) \in Nat /\ sendTasks \in Int
      /\ InFinish \in Nat /\ InLeave \in Nat /\ Handlers({"counted"}) \in Nat
      /\ Len(completed') \in Nat
  BY <1>1, PartsAreNat, LenProperties DEF TasksCounted
<1>5. InCall' = InCall /\ InLeave' = InLeave /\ InFinish' = InFinish
      /\ Handlers({"counted"})' = Handlers({"counted"})
  BY DEF InCall, InLeave, InFinish, Callers, Handlers
<1>6. TasksCounted'
  <2>1. /\ InCall' = InCall + 0 /\ InLeave' = InLeave + 0 /\ InFinish' = InFinish + 0
        /\ pending' + Len(completed') = pending + Len(completed) + 0
        /\ sendTasks' = sendTasks + 0 + 0 + 0 + 2 * 0
    BY <1>4, <1>5
  <2> QED
    BY <1>1, <1>4, <2>1, TasksKept
<1>7. OneInFlight'
  <2>1. InFlight' = InFlight
    BY <1>4, <1>5 DEF InFlight
  <2> QED
    BY <1>1, <2>1, FlightUnmoved, Zenon
<1> QED
  BY <1>2, <1>3, <1>6, <1>7 DEF IInv, SenderSafe

LEMMA TransmitStep == ASSUME IInv, Transmit PROVE IInv'
<1>1. /\ pending \in Nat /\ pending > 0 /\ pending' = pending - 1
      /\ UNCHANGED <<waitingQueue, isSending, sendTasks, sendBuff, closed, caller,
                      handler, result, closePc, queued>>
      /\ \E r \in {"sent", "failed"} : completed' = Append(completed, r)
  BY DEF Transmit, IInv, ControlOK
<1>2. completed \in Seq({"sent", "failed"})
      /\ closePc \in {"open", "flagged", "asking", "asked", "deleted"}
  BY DEF IInv, ControlOK
<1>3. completed' \in Seq({"sent", "failed"}) /\ Len(completed') = Len(completed) + 1
  BY <1>1, <1>2, AppendProperties
<1>4. pending' \in Nat /\ pending' + Len(completed') = pending + Len(completed)
  BY <1>1, <1>2, <1>3, LenProperties
<1>5. closePc' \in {"open", "flagged", "asking", "asked"}
  BY <1>1, <1>2, NotDeleted
<1> QED
  BY <1>1, <1>3, <1>4, <1>5, CompleteStep

LEMMA CloseCancelStep == ASSUME IInv, CloseCancel PROVE IInv'
<1>1. /\ pending' = 0 /\ completed' = completed \o [i \in 1 .. pending |-> "failed"]
      /\ UNCHANGED <<waitingQueue, isSending, sendTasks, sendBuff, closed, caller,
                      handler, result, queued>>
      /\ closePc' = "asking"
  BY DEF CloseCancel, CloseStep
<1>2. completed \in Seq({"sent", "failed"}) /\ pending \in Nat
  BY DEF IInv, ControlOK
<1> DEFINE failed == [i \in 1 .. pending |-> "failed"]
<1>3. failed \in Seq({"sent", "failed"}) /\ Len(failed) = pending
  <2>1. failed \in [1 .. pending -> {"sent", "failed"}]
    OBVIOUS
  <2> QED
    BY <1>2, <2>1
<1> HIDE DEF failed
<1>4. completed' = completed \o failed
  BY <1>1 DEF failed
<1>5. completed' \in Seq({"sent", "failed"}) /\ Len(completed') = Len(completed) + pending
  BY <1>2, <1>3, <1>4, ConcatProperties
<1>6. pending' \in Nat /\ pending' + Len(completed') = pending + Len(completed)
  BY <1>1, <1>2, <1>5, LenProperties
<1> QED
  BY <1>1, <1>5, <1>6, CompleteStep

(* The other steps of close.  When the count is zero nobody is left, which *)
(* is what lets the sender be deleted.                                     *)
LEMMA CloseOtherStep ==
  ASSUME IInv, CloseFlag \/ CloseAsk \/ CloseAnswer
  PROVE  IInv'
<1>1. /\ UNCHANGED <<queueVars, completed, caller, handler, result, queued>>
      /\ closed' = TRUE \/ closed' = closed
      /\ closePc' \in {"flagged", "asking", "asked", "deleted"}
      /\ closePc' = "deleted" => sendTasks = 0
  BY DEF CloseFlag, CloseAsk, CloseAnswer, CloseStep, isStoppedThen
<1>2. ControlOK /\ TasksCounted /\ OneInFlight /\ FlagsOK /\ QueueOK
  BY DEF IInv
<1>3. ControlOK'
  BY <1>1, <1>2 DEF ControlOK, queueVars
<1>4. FlagsOK'
  BY <1>1, <1>2, Zenon DEF FlagsOK, queueVars
<1>5. QueueOK'
  BY <1>1, <1>2 DEF QueueOK, queueVars
<1>6. TasksCounted'
  BY <1>1, <1>2 DEF TasksCounted, InCall, InLeave, InFinish, Callers, Handlers, queueVars
<1>7. OneInFlight'
  <2>1. InFlight' = InFlight
    BY <1>1 DEF InFlight, Handlers, queueVars
  <2>2. isSending' = isSending
    BY <1>1 DEF queueVars
  <2> QED
    BY <1>2, <2>1, <2>2, FlightUnmoved, Zenon
<1>8. SenderSafe'
  <2> SUFFICES ASSUME closePc' = "deleted" PROVE SenderSafe'
    BY DEF SenderSafe
  <2>1. /\ InCall \in Nat /\ pending \in Nat /\ Len(completed) \in Nat
        /\ InFinish \in Nat /\ InLeave \in Nat
    BY <1>2, PartsAreNat
  <2>2. InCall = 0 /\ pending = 0 /\ Len(completed) = 0 /\ InFinish = 0 /\ InLeave = 0
    BY <1>1, <1>2, <2>1 DEF TasksCounted
  <2>3. completed = <<>>
    BY <1>2, <2>2, EmptySeq DEF ControlOK
  <2>4. ASSUME NEW c \in Caller PROVE caller[c] = "idle"
    <3>1. Count(Caller, caller, {"counted", "accepted", "queued", "trying"}) = 0
      BY <2>2, CountsAre, Zenon DEF InCall
    <3>2. caller[c] \notin {"counted", "accepted", "queued", "trying"}
      BY <3>1, UdpSenderAssumption, CountIs
    <3> QED
      BY <3>2, <1>2 DEF ControlOK
  <2>5. ASSUME NEW t \in Thread PROVE handler[t] = "none"
    <3>1. /\ Count(Thread, handler, {"counted", "cleared", "trying"}) = 0
          /\ Count(Thread, handler, {"leave"}) = 0
      BY <2>2, CountsAre, Zenon DEF InFinish, InLeave
    <3>2. handler[t] \notin {"counted", "cleared", "trying"} /\ handler[t] \notin {"leave"}
      BY <3>1, UdpSenderAssumption, CountIs
    <3> QED
      BY <3>2, <1>2 DEF ControlOK
  <2> QED
    BY <1>1, <2>2, <2>3, <2>4, <2>5 DEF SenderSafe, queueVars
<1> QED
  BY <1>3, <1>4, <1>5, <1>6, <1>7, <1>8 DEF IInv

(* The steps of a call other than doSend.                                  *)
LEMMA SendPlainStep ==
  ASSUME IInv, NEW c \in Caller,
         \/ SendCount(c) \/ SendRefuse(c) \/ SendAccept(c)
         \/ SendQueue(c) \/ SendLeave(c) \/ SendTry(c)
  PROVE  IInv'
<1>1. QueueOK /\ sendTasks \in Int
  BY PartsAreNat DEF IInv, TasksCounted
<1>2. CASE SendCount(c)
  <2>1. /\ CallerStep(c, "idle", "counted") /\ closePc = "open"
        /\ UNCHANGED <<waitingQueue, sendBuff, queued>>
        /\ UNCHANGED <<isSending, closed, pending, completed, handler, result, closePc>>
        /\ sendTasks' = sendTasks + 1 - 0
    BY <1>1, <1>2 DEF SendCount
  <2>2. QueueOK'
    BY <1>1, <2>1 DEF QueueOK
  <2> QED
    BY <2>1, <2>2, CallerStepIs DEF CallerPc
<1>3. CASE SendRefuse(c)
  <2>1. /\ CallerStep(c, "counted", "idle")
        /\ UNCHANGED <<waitingQueue, sendBuff, queued>>
        /\ UNCHANGED <<isSending, closed, pending, completed, handler, result, closePc>>
        /\ sendTasks' = sendTasks + 0 - 1
    BY <1>1, <1>3 DEF SendRefuse
  <2>2. QueueOK'
    BY <1>1, <2>1 DEF QueueOK
  <2> QED
    BY <2>1, <2>2, CallerStepIs DEF CallerPc
<1>4. CASE SendAccept(c)
  <2>1. /\ CallerStep(c, "counted", "accepted")
        /\ UNCHANGED <<waitingQueue, sendBuff, queued>>
        /\ UNCHANGED <<isSending, closed, pending, completed, handler, result, closePc>>
        /\ sendTasks' = sendTasks + 1 - 1
    BY <1>1, <1>4 DEF SendAccept, queueVars
  <2>2. QueueOK'
    BY <1>1, <2>1 DEF QueueOK
  <2> QED
    BY <2>1, <2>2, CallerStepIs DEF CallerPc
<1>5. CASE SendQueue(c)
  <2>1. /\ CallerStep(c, "accepted", "queued")
        /\ UNCHANGED <<isSending, closed, pending, completed, handler, result, closePc>>
        /\ sendTasks' = sendTasks + 1 - 1
    BY <1>1, <1>5 DEF SendQueue
  <2>2. QueueOK'
    BY <1>5, SendQueueIs
  <2> QED
    BY <2>1, <2>2, CallerStepIs DEF CallerPc
<1>6. CASE SendLeave(c)
  <2>1. /\ CallerStep(c, "queued", "idle")
        /\ UNCHANGED <<waitingQueue, sendBuff, queued>>
        /\ UNCHANGED <<isSending, closed, pending, completed, handler, result, closePc>>
        /\ sendTasks' = sendTasks + 0 - 1
    BY <1>1, <1>6 DEF SendLeave
  <2>2. QueueOK'
    BY <1>1, <2>1 DEF QueueOK
  <2> QED
    BY <2>1, <2>2, CallerStepIs DEF CallerPc
<1>7. CASE SendTry(c)
  <2>1. /\ CallerStep(c, "queued", "trying")
        /\ UNCHANGED <<waitingQueue, sendBuff, queued>>
        /\ UNCHANGED <<isSending, closed, pending, completed, handler, result, closePc>>
        /\ sendTasks' = sendTasks + 1 - 1
    BY <1>1, <1>7 DEF SendTry, queueVars
  <2>2. QueueOK'
    BY <1>1, <2>1 DEF QueueOK
  <2> QED
    BY <2>1, <2>2, CallerStepIs DEF CallerPc
<1> QED
  BY <1>2, <1>3, <1>4, <1>5, <1>6, <1>7

LEMMA StutterStep == ASSUME IInv, UNCHANGED vars PROVE IInv'
<1>1. /\ UNCHANGED <<waitingQueue, isSending, sendTasks, sendBuff, closed, caller,
                      handler, result, queued>>
      /\ UNCHANGED <<pending, completed, closePc>>
  BY DEF vars, queueVars
<1>2. QueueOK' /\ ControlOK'
  BY <1>1 DEF IInv, QueueOK, ControlOK
<1>3. FlagsOK'
  BY <1>1, Zenon DEF IInv, FlagsOK
<1>4. TasksCounted'
  BY <1>1 DEF IInv, TasksCounted, InCall, InLeave, InFinish, Callers, Handlers
<1>5. OneInFlight'
  <2>1. InFlight' = InFlight
    BY <1>1 DEF InFlight, Handlers
  <2> QED
    BY <1>1, <2>1, FlightUnmoved, Zenon DEF IInv
<1>6. SenderSafe'
  BY <1>1 DEF IInv, SenderSafe
<1> QED
  BY <1>2, <1>3, <1>4, <1>5, <1>6 DEF IInv

-----------------------------------------------------------------------------
(* The invariant holds in every behaviour.                                 *)
LEMMA Invariance == Spec => []IInv
<1>1. IInv /\ [Next]_vars => IInv'
  <2> SUFFICES ASSUME IInv, [Next]_vars PROVE IInv'
    OBVIOUS
  <2>1. CASE UNCHANGED vars
    BY <2>1, StutterStep
  <2>2. ASSUME NEW c \in Caller, Send(c) PROVE IInv'
    BY <2>2, SendPlainStep, SendDoStep DEF Send
  <2>3. CASE Transmit
    BY <2>3, TransmitStep
  <2>4. ASSUME NEW t \in Thread, Finish(t) PROVE IInv'
    BY <2>4, FinishCountStep, FinishClearStep, FinishPlainStep, FinishDoStep DEF Finish
  <2>5. CASE Close
    BY <2>5, CloseCancelStep, CloseOtherStep DEF Close
  <2> QED
    BY <2>1, <2>2, <2>3, <2>4, <2>5 DEF Next
<1> QED
  BY <1>1, InitIInv, PTL DEF Spec

(* The variables keep their types, and sendTasks counts every call, every  *)
(* send and every handler under way, which is what isStopped relies on.    *)
THEOREM TypeCorrect == Spec => []TypeOK
<1>1. IInv => TypeOK
  <2> SUFFICES ASSUME IInv PROVE TypeOK
    OBVIOUS
  <2>1. waitingQueue \in Seq(Seq(Packet)) /\ sendBuff \in Packet \cup {0}
    <3>1. waitingQueue \in Seq(Burst)
      BY DEF IInv, QueueOK
    <3>2. /\ Len(waitingQueue) \in Nat
          /\ waitingQueue \in [1 .. Len(waitingQueue) -> Burst]
      BY <3>1
    <3>3. waitingQueue \in [1 .. Len(waitingQueue) -> Seq(Packet)]
      BY <3>2 DEF Burst
    <3> QED
      BY <3>2, <3>3 DEF IInv, QueueOK
  <2>2. sendTasks = Callers({"counted", "accepted", "queued", "trying"})
               + pending + Len(completed)
               + Handlers({"leave"}) + 2 * Handlers({"counted", "cleared", "trying"})
    BY DEF IInv, TasksCounted, InCall, InLeave, InFinish
  <2>3. isSending \in BOOLEAN /\ closed \in BOOLEAN
    BY Zenon DEF IInv, FlagsOK
  <2> QED
    BY <2>1, <2>2, <2>3, Zenon DEF IInv, ControlOK, TypeOK
<1> QED
  BY <1>1, Invariance, PTL

(* At most one asynchronous send is under way, and isSending says so: the  *)
(* buffer of a send is never overwritten before its handler runs.          *)
THEOREM OneSend == Spec => []OneInFlight
<1>1. IInv => OneInFlight
  BY DEF IInv
<1> QED
  BY <1>1, Invariance, PTL

(* When isStopped lets the sender be deleted no call, no send and no       *)
(* handler is left that would touch it.                                    *)
THEOREM SafeDelete == Spec => []SenderSafe
<1>1. IInv => SenderSafe
  BY DEF IInv
<1> QED
  BY <1>1, Invariance, PTL

-----------------------------------------------------------------------------
(***************************************************************************)
(* SentInOrder. The packets that wait are in the order of their numbers,   *)
(* within a burst and from burst to burst; the one in the buffer comes     *)
(* before them and after those that are sent.                              *)
(***************************************************************************)
Members(q) == UNION {ToSet(q[i]) : i \in DOMAIN q}

Ordered(q) ==
  \A i, j \in 1 .. Len(q) : \A k \in 1 .. Len(q[i]), l \in 1 .. Len(q[j]) :
    i < j \/ (i = j /\ k < l) => q[i][k] < q[j][l]

OrderInv ==
  /\ wire \in Seq(Packet)
  /\ Ordered(waitingQueue)
  /\ \A y \in ToSet(wire), x \in WaitingPackets : y < x
  /\ pending > 0 => /\ \A x \in WaitingPackets : sendBuff < x
                    /\ \A y \in ToSet(wire) : y < sendBuff
  /\ SentInOrder

(* Queues of bursts, packet by packet.                                     *)
LEMMA BurstsAre ==
  ASSUME NEW q \in Seq(Burst)
  PROVE  /\ Len(q) \in Nat /\ DOMAIN q = 1 .. Len(q)
         /\ \A i \in 1 .. Len(q) :
              /\ q[i] \in Seq(Packet) /\ Len(q[i]) \in Nat \ {0}
              /\ DOMAIN q[i] = 1 .. Len(q[i])
              /\ \A k \in 1 .. Len(q[i]) : q[i][k] \in Packet
<1>1. Len(q) \in Nat /\ DOMAIN q = 1 .. Len(q)
  BY LenProperties
<1>2. ASSUME NEW i \in 1 .. Len(q)
      PROVE  /\ q[i] \in Seq(Packet) /\ Len(q[i]) \in Nat \ {0}
             /\ DOMAIN q[i] = 1 .. Len(q[i])
             /\ \A k \in 1 .. Len(q[i]) : q[i][k] \in Packet
  <2>1. q[i] \in Seq(Packet) /\ q[i] # <<>>
    BY ElementOfSeq DEF Burst
  <2> QED
    BY <2>1, LenProperties, ElementOfSeq, EmptySeq
<1> QED
  BY <1>1, <1>2

LEMMA MemberIs ==
  ASSUME NEW q \in Seq(Burst)
  PROVE  \A y : y \in Members(q) <=> \E i \in 1 .. Len(q) : \E k \in 1 .. Len(q[i]) : y = q[i][k]
<1> SUFFICES ASSUME NEW y
             PROVE  y \in Members(q) <=> \E i \in 1 .. Len(q) : \E k \in 1 .. Len(q[i]) : y = q[i][k]
  OBVIOUS
<1>1. DOMAIN q = 1 .. Len(q) /\ \A i \in 1 .. Len(q) : DOMAIN q[i] = 1 .. Len(q[i])
  BY BurstsAre
<1>2. y \in Members(q) <=> \E i \in DOMAIN q : y \in ToSet(q[i])
  BY Zenon DEF Members
<1>3. \A i : y \in ToSet(q[i]) <=> \E k \in DOMAIN q[i] : y = q[i][k]
  BY Zenon DEF ToSet
<1> QED
  BY <1>1, <1>2, <1>3, Zenon

(* The queue when its first burst was one packet, and is taken.            *)
LEMMA BurstGone ==
  ASSUME NEW q \in Seq(Burst), Ordered(q), Len(q) # 0, Len(q[1]) = 1,
         NEW r \in Seq(Burst), Len(r) = Len(q) - 1,
         \A i \in 1 .. Len(q) - 1 : r[i] = q[i + 1]
  PROVE  /\ Ordered(r)
         /\ Members(q) = {q[1][1]} \cup Members(r)
         /\ \A x \in Members(r) : q[1][1] < x
<1>1. /\ Len(q) \in Nat \ {0} /\ 1 \in 1 .. Len(q) /\ 1 \in 1 .. Len(q[1])
      /\ \A i \in 1 .. Len(r) : i + 1 \in 1 .. Len(q) /\ r[i] = q[i + 1] /\ 1 < i + 1
      /\ \A i \in 1 .. Len(q) : i # 1 => i - 1 \in 1 .. Len(r) /\ r[i - 1] = q[i]
  BY BurstsAre
<1>2. Ordered(r)
  <2> SUFFICES ASSUME NEW i \in 1 .. Len(r), NEW j \in 1 .. Len(r),
                      NEW k \in 1 .. Len(r[i]), NEW l \in 1 .. Len(r[j]),
                      i < j \/ (i = j /\ k < l)
               PROVE  r[i][k] < r[j][l]
    BY DEF Ordered
  <2>1. /\ i + 1 \in 1 .. Len(q) /\ r[i] = q[i + 1] /\ j + 1 \in 1 .. Len(q) /\ r[j] = q[j + 1]
        /\ i + 1 < j + 1 \/ (i + 1 = j + 1 /\ k < l)
    BY <1>1
  <2> QED
    BY <2>1 DEF Ordered
<1>3. ASSUME NEW y \in Members(q) PROVE y = q[1][1] \/ y \in Members(r)
  <2>8. y \in Members(q) /\ q \in Seq(Burst)
    BY <1>3
  <2>0. PICK i \in 1 .. Len(q) : \E kk \in 1 .. Len(q[i]) : y = q[i][kk]
    BY <2>8, MemberIs
  <2>1. PICK k \in 1 .. Len(q[i]) : y = q[i][k]
    BY <2>0
  <2>2. CASE i = 1
    BY <2>1, <2>2
  <2>3. CASE i # 1
    <3>1. i - 1 \in 1 .. Len(r) /\ r[i - 1] = q[i]
      BY <1>1, <2>3
    <3>2. PICK j : j \in 1 .. Len(r) /\ k \in 1 .. Len(r[j]) /\ y = r[j][k]
      BY <2>1, <3>1
    <3> QED
      BY <3>2, MemberIs, Zenon
  <2> QED
    BY <2>2, <2>3
<1>4. ASSUME NEW y \in Members(r) PROVE y \in Members(q) /\ q[1][1] < y
  <2>8. y \in Members(r) /\ r \in Seq(Burst)
    BY <1>4
  <2>0. PICK i \in 1 .. Len(r) : \E kk \in 1 .. Len(r[i]) : y = r[i][kk]
    BY <2>8, MemberIs
  <2>1. PICK k \in 1 .. Len(r[i]) : y = r[i][k]
    BY <2>0
  <2>2. PICK j : j = i + 1 /\ j \in 1 .. Len(q) /\ 1 < j /\ k \in 1 .. Len(q[j]) /\ y = q[j][k]
    BY <1>1, <2>1
  <2>3. y \in Members(q)
    BY <2>2, MemberIs, Zenon
  <2> QED
    BY <1>1, <2>2, <2>3 DEF Ordered
<1>5. q[1][1] \in Members(q)
  BY <1>1, MemberIs, Zenon
<1> QED
  BY <1>2, <1>3, <1>4, <1>5

(* The queue when its first burst loses its first packet.                  *)
LEMMA BurstShorter ==
  ASSUME NEW q \in Seq(Burst), Ordered(q), Len(q) # 0,
         NEW r \in Seq(Burst), Len(r) = Len(q),
         \A i \in 1 .. Len(q) : i # 1 => r[i] = q[i],
         Len(r[1]) = Len(q[1]) - 1,
         \A k \in 1 .. Len(q[1]) - 1 : r[1][k] = q[1][k + 1]
  PROVE  /\ Ordered(r)
         /\ Members(q) = {q[1][1]} \cup Members(r)
         /\ \A x \in Members(r) : q[1][1] < x
<1>1. Len(q) \in Nat \ {0} /\ 1 \in 1 .. Len(q) /\ Len(q[1]) \in Nat \ {0} /\ 1 \in 1 .. Len(q[1])
  BY BurstsAre
<1>2. /\ \A k \in 1 .. Len(r[1]) : k + 1 \in 1 .. Len(q[1]) /\ r[1][k] = q[1][k + 1]
      /\ \A k \in 1 .. Len(q[1]) : k # 1 => k - 1 \in 1 .. Len(r[1]) /\ r[1][k - 1] = q[1][k]
  BY <1>1
<1>3. ASSUME NEW i \in 1 .. Len(r), NEW k \in 1 .. Len(r[i])
      PROVE  \E kk \in 1 .. Len(q[i]) : r[i][k] = q[i][kk] /\ kk = IF i = 1 THEN k + 1 ELSE k
  <2>1. CASE i = 1
    BY <1>2, <2>1
  <2>2. CASE i # 1
    BY <2>2
  <2> QED
    BY <2>1, <2>2
<1>4. Ordered(r)
  <2> SUFFICES ASSUME NEW i \in 1 .. Len(r), NEW j \in 1 .. Len(r),
                      NEW k \in 1 .. Len(r[i]), NEW l \in 1 .. Len(r[j]),
                      i < j \/ (i = j /\ k < l)
               PROVE  r[i][k] < r[j][l]
    BY DEF Ordered
  <2>1. PICK kk \in 1 .. Len(q[i]) : r[i][k] = q[i][kk] /\ kk = IF i = 1 THEN k + 1 ELSE k
    BY <1>3
  <2>2. PICK ll \in 1 .. Len(q[j]) : r[j][l] = q[j][ll] /\ ll = IF j = 1 THEN l + 1 ELSE l
    BY <1>3
  <2>3. i < j \/ (i = j /\ kk < ll)
    BY <2>1, <2>2
  <2>4. i \in 1 .. Len(q) /\ j \in 1 .. Len(q)
    OBVIOUS
  <2> QED
    BY <2>1, <2>2, <2>3, <2>4 DEF Ordered
<1>5. ASSUME NEW y \in Members(q) PROVE y = q[1][1] \/ y \in Members(r)
  <2>8. y \in Members(q) /\ q \in Seq(Burst)
    BY <1>5
  <2>0. PICK i \in 1 .. Len(q) : \E kk \in 1 .. Len(q[i]) : y = q[i][kk]
    BY <2>8, MemberIs
  <2>1. PICK k \in 1 .. Len(q[i]) : y = q[i][k]
    BY <2>0
  <2>2. CASE i = 1 /\ k = 1
    BY <2>1, <2>2
  <2>3. CASE i = 1 /\ k # 1
    <3>1. PICK l : l \in 1 .. Len(r[1]) /\ y = r[1][l] /\ 1 \in 1 .. Len(r)
      BY <1>1, <1>2, <2>1, <2>3
    <3> QED
      BY <3>1, MemberIs, Zenon
  <2>4. CASE i # 1
    <3>1. i \in 1 .. Len(r) /\ k \in 1 .. Len(r[i]) /\ y = r[i][k]
      BY <2>1, <2>4
    <3> QED
      BY <3>1, MemberIs, Zenon
  <2> QED
    BY <2>2, <2>3, <2>4
<1>6. ASSUME NEW y \in Members(r) PROVE y \in Members(q) /\ q[1][1] < y
  <2>8. y \in Members(r) /\ r \in Seq(Burst)
    BY <1>6
  <2>0. PICK i \in 1 .. Len(r) : \E kk \in 1 .. Len(r[i]) : y = r[i][kk]
    BY <2>8, MemberIs
  <2>1. PICK k \in 1 .. Len(r[i]) : y = r[i][k]
    BY <2>0
  <2>2. PICK kk \in 1 .. Len(q[i]) : r[i][k] = q[i][kk] /\ kk = IF i = 1 THEN k + 1 ELSE k
    BY <1>3
  <2>3. i \in 1 .. Len(q) /\ (1 < i \/ (1 = i /\ 1 < kk))
    BY <2>2
  <2>4. q[1][1] < q[i][kk]
    BY <1>1, <2>3 DEF Ordered
  <2>5. y \in Members(q)
    BY <2>1, <2>2, <2>3, MemberIs, Zenon
  <2> QED
    BY <2>1, <2>2, <2>4, <2>5
<1>7. q[1][1] \in Members(q)
  BY <1>1, MemberIs, Zenon
<1> QED
  BY <1>4, <1>5, <1>6, <1>7

(* The queue when its first packet is taken.                               *)
Rest(q) == IF Len(Head(q)) = 1 THEN Tail(q) ELSE <<Tail(Head(q))>> \o Tail(q)

LEMMA FirstTaken ==
  ASSUME NEW q \in Seq(Burst), q # <<>>, Ordered(q), NEW r \in Seq(Burst), r = Rest(q)
  PROVE  /\ Ordered(r)
         /\ Members(q) = {Head(Head(q))} \cup Members(r)
         /\ \A x \in Members(r) : Head(Head(q)) < x
<1>1. PICK b, w : b = Head(q) /\ w = Tail(q)
  OBVIOUS
<1>2. /\ b \in Burst /\ b = q[1] /\ w \in Seq(Burst) /\ Len(w) = Len(q) - 1
      /\ \A i \in 1 .. Len(q) - 1 : w[i] = q[i + 1]
  <2>1. b \in Burst /\ w \in Seq(Burst) /\ Len(w) = Len(q) - 1
        /\ \A i \in 1 .. Len(w) : w[i] = q[i + 1]
    BY <1>1, HeadTailProperties, Zenon
  <2>2. \A i \in 1 .. Len(q) - 1 : w[i] = q[i + 1]
    BY <2>1, Zenon
  <2>3. b = q[1]
    BY <1>1 DEF Head
  <2> QED
    BY <2>1, <2>2, <2>3
<1>3. Len(q) \in Nat \ {0} /\ Len(b) \in Nat \ {0}
  BY <1>2, BurstsAre, EmptySeq DEF Burst
<1>4. /\ Head(b) = b[1] /\ Tail(b) \in Seq(Packet) /\ Len(Tail(b)) = Len(b) - 1
      /\ \A k \in 1 .. Len(b) - 1 : Tail(b)[k] = b[k + 1]
  BY <1>2, HeadTailProperties DEF Burst
<1>5. r = IF Len(b) = 1 THEN w ELSE <<Tail(b)>> \o w
  BY <1>1 DEF Rest
<1>6. Head(Head(q)) = q[1][1]
  BY <1>1, <1>2, <1>4
<1>7. CASE Len(b) = 1
  <2>1. Len(q) # 0 /\ Len(q[1]) = 1
    BY <1>2, <1>3, <1>7
  <2>2. r = w
    BY <1>5, <1>7
  <2>3. Len(r) = Len(q) - 1 /\ \A i \in 1 .. Len(q) - 1 : r[i] = q[i + 1]
    BY <1>2, <2>2, Zenon
  <2>4. /\ Ordered(r)
        /\ Members(q) = {q[1][1]} \cup Members(r)
        /\ \A x \in Members(r) : q[1][1] < x
    BY <2>1, <2>3, BurstGone, Zenon
  <2> QED
    BY <1>6, <2>4, Zenon
<1>8. CASE Len(b) # 1
  <2>1. PICK s : s = <<Tail(b)>>
    OBVIOUS
  <2>2. s \in Seq(Seq(Packet)) /\ Len(s) = 1 /\ s[1] = Tail(b)
    BY <1>4, <2>1
  <2>3. w \in Seq(Seq(Packet))
    <3>1. Seq(Burst) \subseteq Seq(Seq(Packet))
      BY DEF Burst
    <3> QED
      BY <1>2, <3>1, Zenon
  <2>4. r = s \o w
    BY <1>5, <1>8, <2>1
  <2>5. /\ Len(r) = 1 + Len(w)
        /\ \A i \in 1 .. 1 + Len(w) : r[i] = IF i <= 1 THEN s[i] ELSE w[i - 1]
    <3>1. /\ Len(s \o w) = Len(s) + Len(w)
          /\ \A i \in 1 .. Len(s) + Len(w) : (s \o w)[i] = IF i <= Len(s) THEN s[i] ELSE w[i - Len(s)]
      BY <2>2, <2>3, ConcatProperties, Zenon
    <3> QED
      BY <2>2, <2>4, <3>1, Zenon
  <2>6. Len(r) = Len(q) /\ r[1] = Tail(b)
    <3>1. Len(q) \in Nat /\ Len(w) = Len(q) - 1
      BY <1>2, <1>3, Zenon
    <3>2. Len(r) = Len(q) /\ 1 \in 1 .. 1 + Len(w)
      <4> HIDE DEF Rest
      <4>1. Len(r) = 1 + Len(w)
        BY <2>5, Zenon
      <4>2. PICK x, y, z : x = Len(r) /\ y = Len(w) /\ z = Len(q)
        OBVIOUS
      <4> QED
        BY <1>3, <3>1, <4>1, <4>2
    <3>3. r[1] = s[1]
      <4>1. r[1] = IF 1 <= 1 THEN s[1] ELSE w[1 - 1]
        BY <2>5, <3>2, Zenon
      <4>2. 1 <= 1
        OBVIOUS
      <4> QED
        BY <4>1, <4>2, Zenon
    <3> QED
      BY <2>2, <3>2, <3>3, Zenon
  <2>7. ASSUME NEW i \in 1 .. Len(q), i # 1 PROVE r[i] = q[i]
    <3>1. r[i] = w[i - 1] /\ i - 1 \in 1 .. Len(q) - 1 /\ (i - 1) + 1 = i
      BY <1>2, <1>3, <2>5, <2>7
    <3> QED
      BY <1>2, <3>1
  <2> QED
    <3>1. /\ Len(q) # 0 /\ Len(r[1]) = Len(q[1]) - 1
          /\ \A k \in 1 .. Len(q[1]) - 1 : r[1][k] = q[1][k + 1]
      BY <1>2, <1>3, <1>4, <2>6
    <3>2. \A i \in 1 .. Len(q) : i # 1 => r[i] = q[i]
      BY <2>7, Zenon
    <3>3. /\ Ordered(r)
          /\ Members(q) = {q[1][1]} \cup Members(r)
          /\ \A x \in Members(r) : q[1][1] < x
      BY <2>6, <3>1, <3>2, BurstShorter, Zenon
    <3> QED
      BY <1>6, <3>3, Zenon
<1> QED
  BY <1>7, <1>8

(* The queue when a burst of the next n packets is queued.                 *)
LEMMA BurstAppended ==
  ASSUME NEW q \in Seq(Burst), Ordered(q), NEW m \in Nat, NEW n \in Nat \ {0},
         Members(q) \subseteq 1 .. m, NEW b \in Burst, b = [i \in 1 .. n |-> m + i]
  PROVE  /\ Ordered(Append(q, b))
         /\ Members(Append(q, b)) = Members(q) \cup (m + 1 .. m + n)
<1>1. PICK r \in Seq(Burst) : r = Append(q, b)
  BY AppendProperties
<1>2. /\ Len(r) = Len(q) + 1 /\ r[Len(q) + 1] = b /\ Len(q) \in Nat
      /\ \A i \in 1 .. Len(q) : r[i] = q[i]
  BY <1>1, AppendProperties, BurstsAre
<1>3. Len(b) = n /\ \A k \in 1 .. n : b[k] = m + k
  OBVIOUS
<1>4. PICK e : e = Len(q) + 1
  OBVIOUS
<1>5. /\ \A i \in 1 .. Len(r) : i = e \/ i \in 1 .. Len(q)
      /\ \A i \in 1 .. Len(q) : i \in 1 .. Len(r) /\ i < e
      /\ e \in 1 .. Len(r) /\ r[e] = b
  BY <1>2, <1>4
<1>6. \A i \in 1 .. Len(q) : \A k \in 1 .. Len(q[i]) : q[i][k] \in 1 .. m
  BY MemberIs
<1>7. Ordered(r)
  <2> SUFFICES ASSUME NEW i \in 1 .. Len(r), NEW j \in 1 .. Len(r),
                      NEW k \in 1 .. Len(r[i]), NEW l \in 1 .. Len(r[j]),
                      i < j \/ (i = j /\ k < l)
               PROVE  r[i][k] < r[j][l]
    BY DEF Ordered
  <2>1. CASE j = e /\ i = e
    <3>1. k \in 1 .. n /\ l \in 1 .. n /\ k < l
      BY <1>3, <1>5, <2>1
    <3> QED
      BY <1>3, <1>5, <2>1, <3>1
  <2>2. CASE j = e /\ i # e
    <3>1. i \in 1 .. Len(q) /\ r[i] = q[i] /\ r[i][k] \in 1 .. m
      BY <1>2, <1>5, <1>6, <2>2
    <3>2. l \in 1 .. n /\ r[j][l] = m + l
      BY <1>3, <1>5, <2>2
    <3> QED
      BY <3>1, <3>2
  <2>3. CASE j # e
    <3>1. j \in 1 .. Len(q) /\ i \in 1 .. Len(q)
      BY <1>2, <1>4, <1>5, <2>3
    <3> QED
      BY <1>2, <3>1 DEF Ordered
  <2> QED
    BY <2>1, <2>2, <2>3
<1>8. ASSUME NEW y \in Members(r) PROVE y \in Members(q) \cup (m + 1 .. m + n)
  <2>0. PICK i \in 1 .. Len(r) : \E kk \in 1 .. Len(r[i]) : y = r[i][kk]
    BY MemberIs
  <2>1. PICK k \in 1 .. Len(r[i]) : y = r[i][k]
    BY <2>0
  <2>2. CASE i = e
    <3>1. k \in 1 .. n /\ y = m + k
      BY <1>3, <1>5, <2>1, <2>2
    <3> QED
      BY <3>1
  <2>3. CASE i # e
    <3>1. i \in 1 .. Len(q) /\ r[i] = q[i]
      BY <1>2, <1>5, <2>3
    <3> QED
      BY <2>1, <3>1, MemberIs
  <2> QED
    BY <2>2, <2>3
<1>9. ASSUME NEW y \in Members(q) PROVE y \in Members(r)
  <2>0. PICK i \in 1 .. Len(q) : \E kk \in 1 .. Len(q[i]) : y = q[i][kk]
    BY MemberIs
  <2>1. PICK k \in 1 .. Len(q[i]) : y = q[i][k]
    BY <2>0
  <2>2. i \in 1 .. Len(r) /\ r[i] = q[i]
    BY <1>2, <1>5
  <2> QED
    BY <2>1, <2>2, MemberIs
<1>10. ASSUME NEW y \in m + 1 .. m + n PROVE y \in Members(r)
  <2>1. y - m \in 1 .. n /\ y = m + (y - m)
    OBVIOUS
  <2>2. y - m \in 1 .. Len(r[e]) /\ y = r[e][y - m]
    BY <1>3, <1>5, <2>1
  <2> QED
    BY <1>5, <2>2, MemberIs
<1> QED
  BY <1>1, <1>7, <1>8, <1>9, <1>10
(* The packets that wait are those of the bursts, and the buffer of a send *)
(* under way holds one of the packets queued.                              *)
LEMMA OrderHas ==
  ASSUME IInv, OrderInv
  PROVE  /\ WaitingPackets = Members(waitingQueue) /\ waitingQueue \in Seq(Burst)
         /\ queued \in Nat /\ MaxPackets \in Nat /\ queued <= MaxPackets
         /\ ToSet(wire) \subseteq 1 .. queued /\ WaitingPackets \subseteq 1 .. queued
         /\ lost \subseteq 1 .. queued
         /\ pending > 0 => sendBuff \in 1 .. queued /\ sendBuff \in Packet
         /\ pending \in {0, 1} /\ (~isSending => pending = 0)
<1>1. WaitingPackets = Members(waitingQueue)
  BY DEF WaitingPackets, Members
<1>2. waitingQueue \in Seq(Burst) /\ queued \in Nat /\ MaxPackets \in Nat /\ queued <= MaxPackets
  BY UdpSenderAssumption DEF IInv, QueueOK
<1>3. 1 .. queued = ToSet(wire) \cup lost \cup WaitingPackets
                     \cup (IF pending > 0 THEN {sendBuff} ELSE {})
  BY Zenon DEF OrderInv, SentInOrder
<1>4. /\ ToSet(wire) \subseteq 1 .. queued /\ WaitingPackets \subseteq 1 .. queued
      /\ lost \subseteq 1 .. queued /\ (pending > 0 => sendBuff \in 1 .. queued)
  <2> DEFINE A == ToSet(wire)
             B == WaitingPackets
  <2> HIDE DEF A, B
  <2>1. 1 .. queued = A \cup lost \cup B \cup (IF pending > 0 THEN {sendBuff} ELSE {})
    BY <1>3 DEF A, B
  <2>2. /\ A \subseteq 1 .. queued /\ B \subseteq 1 .. queued
        /\ lost \subseteq 1 .. queued /\ (pending > 0 => sendBuff \in 1 .. queued)
    BY <2>1, Zenon
  <2> QED
    BY <2>2 DEF A, B
<1>5. pending > 0 => sendBuff \in Packet
  BY <1>2, <1>4 DEF Packet
<1>6. pending \in {0, 1} /\ (~isSending => pending = 0)
  <2>1. InFlight <= 1 /\ (isSending <=> InFlight = 1) /\ ControlOK
    BY Zenon DEF IInv, OneInFlight, InFlight
  <2>2. /\ Handlers({"counted"}) \in Nat
        /\ pending \in Nat /\ Len(completed) \in Nat
        /\ InFlight = pending + Len(completed) + Handlers({"counted"})
    BY <2>1, PartsAreNat DEF InFlight
  <2> HIDE DEF InFlight
  <2> QED
    BY <2>1, <2>2
<1> QED
  BY <1>1, <1>2, <1>4, <1>5, <1>6

(* A step that touches no packet.                                          *)
LEMMA OrderFrame ==
  ASSUME OrderInv, UNCHANGED <<waitingQueue, wire, lost, queued, pending, sendBuff>>
  PROVE  OrderInv'
BY DEF OrderInv, SentInOrder, WaitingPackets, ToSet, Ordered

(* A burst is queued behind those that wait.                               *)
LEMMA QueueOrder == ASSUME IInv, OrderInv, NEW c \in Caller, SendQueue(c) PROVE OrderInv'
<1>1. PICK n \in 0 .. MaxBurst :
        /\ queued' = queued + n
        /\ waitingQueue' = IF n = 0 THEN waitingQueue
                           ELSE Append(waitingQueue, [i \in 1 .. n |-> queued + i])
        /\ queued + n <= MaxPackets
  BY DEF SendQueue
<1>2. UNCHANGED <<wire, lost, pending, sendBuff>>
  BY DEF SendQueue
<1>3. n \in Nat
  BY UdpSenderAssumption
<1>4. CASE n = 0
  <2>1. waitingQueue' = waitingQueue /\ queued' = queued
    BY <1>1, <1>4, OrderHas
  <2> QED
    BY <1>2, <2>1, OrderFrame
<1>5. CASE n # 0
  <2> DEFINE b == [i \in 1 .. n |-> queued + i]
             W == WaitingPackets
             new == queued + 1 .. queued + n
  <2>1. /\ waitingQueue \in Seq(Burst) /\ Ordered(waitingQueue)
        /\ W = Members(waitingQueue) /\ W \subseteq 1 .. queued
        /\ ToSet(wire) \subseteq 1 .. queued
        /\ queued \in Nat /\ MaxPackets \in Nat
        /\ pending > 0 => sendBuff \in 1 .. queued
    BY OrderHas DEF OrderInv
  <2>2. b \in Burst
    <3>1. b \in Seq(Packet) /\ Len(b) = n
      BY <1>1, <1>3, <2>1 DEF Packet
    <3> QED
      BY <1>5, <3>1, EmptySeq DEF Burst
  <2>3. waitingQueue' = Append(waitingQueue, b)
    BY <1>1, <1>5
  <2>4. n \in Nat \ {0} /\ Members(waitingQueue) \subseteq 1 .. queued
    BY <1>3, <1>5, <2>1
  <2>5. \A bb \in Burst : bb = [i \in 1 .. n |-> queued + i] =>
          /\ Ordered(Append(waitingQueue, bb))
          /\ Members(Append(waitingQueue, bb)) = Members(waitingQueue) \cup (queued + 1 .. queued + n)
    <3> HIDE DEF W
    <3> QED
      BY <2>1, <2>4, BurstAppended
  <2>6. Ordered(waitingQueue') /\ Members(waitingQueue') = W \cup new
    BY <2>1, <2>2, <2>3, <2>5, Zenon
  <2>7. WaitingPackets' = W \cup new
    <3>1. WaitingPackets' = Members(waitingQueue')
      BY DEF WaitingPackets, Members
    <3> QED
      BY <2>6, <3>1
  <2>8. 1 .. queued' = (1 .. queued) \cup new
    BY <1>1, <1>3, <2>1
  <2>9. \A x \in new : \A y \in 1 .. queued : y < x
    BY <2>1, <1>3
  <2>10. wire' = wire /\ lost' = lost /\ pending' = pending /\ sendBuff' = sendBuff
    BY <1>2
  <2>11. ToSet(wire)' = ToSet(wire)
    BY <2>10 DEF ToSet
  <2> HIDE DEF W, new, b
  <2>12. /\ wire \in Seq(Packet)
         /\ \A y \in ToSet(wire), x \in W : y < x
         /\ pending > 0 => /\ \A x \in W : sendBuff < x
                           /\ \A y \in ToSet(wire) : y < sendBuff
         /\ \A i, j \in DOMAIN wire : i < j => wire[i] < wire[j]
         /\ 1 .. queued = ToSet(wire) \cup lost \cup W \cup (IF pending > 0 THEN {sendBuff} ELSE {})
    BY Zenon DEF OrderInv, SentInOrder, W
  <2>13. \A y \in ToSet(wire)', x \in WaitingPackets' : y < x
    BY <2>1, <2>7, <2>9, <2>11, <2>12, Zenon
  <2>14. pending' > 0 => /\ \A x \in WaitingPackets' : sendBuff' < x
                         /\ \A y \in ToSet(wire)' : y < sendBuff'
    <3> SUFFICES ASSUME pending > 0
                 PROVE  /\ \A x \in WaitingPackets' : sendBuff < x
                        /\ \A y \in ToSet(wire)' : y < sendBuff
      BY <2>10, Zenon
    <3> QED
      BY <2>1, <2>7, <2>9, <2>11, <2>12, Zenon
  <2>15. 1 .. queued' = ToSet(wire)' \cup lost' \cup WaitingPackets'
                     \cup (IF pending' > 0 THEN {sendBuff'} ELSE {})
    BY <2>7, <2>8, <2>10, <2>11, <2>12, Zenon
  <2>16. wire' \in Seq(Packet) /\ \A i, j \in DOMAIN wire' : i < j => wire'[i] < wire'[j]
    BY <2>10, <2>12, Zenon
  <2> QED
    BY <2>6, <2>13, <2>14, <2>15, <2>16, Zenon DEF OrderInv, SentInOrder
<1> QED
  BY <1>4, <1>5

(* doSend takes the first packet into the buffer, or throws all away.      *)
LEMMA DoSendOrder ==
  ASSUME IInv, OrderInv, DoSend, UNCHANGED <<queued, wire>>
  PROVE  OrderInv'
<1> DEFINE W == WaitingPackets
           h == Head(Head(waitingQueue))
<1>1. /\ waitingQueue \in Seq(Burst) /\ Ordered(waitingQueue)
      /\ W = Members(waitingQueue) /\ (~isSending => pending = 0) /\ pending \in {0, 1}
  BY OrderHas DEF OrderInv
<1>2. /\ wire \in Seq(Packet)
      /\ \A y \in ToSet(wire), x \in W : y < x
      /\ pending > 0 => /\ \A x \in W : sendBuff < x
                        /\ \A y \in ToSet(wire) : y < sendBuff
      /\ \A i, j \in DOMAIN wire : i < j => wire[i] < wire[j]
      /\ 1 .. queued = ToSet(wire) \cup lost \cup W \cup (IF pending > 0 THEN {sendBuff} ELSE {})
  BY Zenon DEF OrderInv, SentInOrder
<1>3. wire' = wire /\ queued' = queued /\ ToSet(wire)' = ToSet(wire)
  BY DEF ToSet
<1>4. WaitingPackets' = Members(waitingQueue')
  BY DEF WaitingPackets, Members
<1>5. wire' \in Seq(Packet) /\ \A i, j \in DOMAIN wire' : i < j => wire'[i] < wire'[j]
  BY <1>2, <1>3, Zenon
<1>6. CASE UNCHANGED <<waitingQueue, isSending, sendBuff, pending, lost>>
  BY <1>3, <1>6, OrderFrame
<1>7. CASE ~isSending /\ lost' = lost \cup WaitingPackets /\ waitingQueue' = <<>> /\ pending' = pending
  <2>1. pending = 0 /\ ~(pending > 0) /\ ~(pending' > 0)
    BY <1>1, <1>7
  <2>2. Ordered(waitingQueue') /\ WaitingPackets' = {}
    BY <1>4, <1>7 DEF Ordered, Members
  <2> HIDE DEF W
  <2>3. lost' = lost \cup W
    BY <1>7 DEF W
  <2>4. 1 .. queued' = ToSet(wire)' \cup lost' \cup WaitingPackets'
                     \cup (IF pending' > 0 THEN {sendBuff'} ELSE {})
    BY <1>2, <1>3, <2>1, <2>2, <2>3, Zenon
  <2> QED
    BY <1>5, <2>1, <2>2, <2>4, Zenon DEF OrderInv, SentInOrder
<1>8. CASE /\ ~isSending /\ Len(waitingQueue) \in 1 .. MAX_WAITING_QUEUE_SIZE
           /\ sendBuff' = Head(Head(waitingQueue))
           /\ pending' = pending + 1 /\ lost' = lost
           /\ waitingQueue' = IF Len(Head(waitingQueue)) = 1 THEN Tail(waitingQueue)
                              ELSE <<Tail(Head(waitingQueue))>> \o Tail(waitingQueue)
  <2>1. ~(pending > 0) /\ pending' > 0
    BY <1>1, <1>8
  <2>2. waitingQueue # <<>>
    BY <1>8, EmptySeq
  <2>3. waitingQueue' \in Seq(Burst)
    BY DoSendIs
  <2>4. waitingQueue' = IF Len(Head(waitingQueue)) = 1 THEN Tail(waitingQueue)
                        ELSE <<Tail(Head(waitingQueue))>> \o Tail(waitingQueue)
    BY <1>8
  <2>5. /\ Ordered(waitingQueue')
        /\ Members(waitingQueue) = {h} \cup Members(waitingQueue')
        /\ \A x \in Members(waitingQueue') : h < x
    <3>1. waitingQueue' = Rest(waitingQueue)
      BY <2>4, Zenon DEF Rest
    <3>2. \A q \in Seq(Burst) :
            q # <<>> /\ Ordered(q) /\ Rest(q) \in Seq(Burst) =>
              /\ Ordered(Rest(q))
              /\ Members(q) = {Head(Head(q))} \cup Members(Rest(q))
              /\ \A x \in Members(Rest(q)) : Head(Head(q)) < x
      BY FirstTaken, Zenon
    <3> QED
      BY <1>1, <2>2, <2>3, <3>1, <3>2, Zenon
  <2>6. sendBuff' = h
    BY <1>8
  <2> HIDE DEF W, h
  <2>7. W = {h} \cup WaitingPackets' /\ \A x \in WaitingPackets' : h < x
    BY <1>1, <1>4, <2>5, Zenon
  <2>8. \A y \in ToSet(wire)', x \in WaitingPackets' : y < x
    BY <1>2, <1>3, <2>7, Zenon
  <2>9. (\A x \in WaitingPackets' : sendBuff' < x) /\ (\A y \in ToSet(wire)' : y < sendBuff')
    <3>1. h \in W
      BY <2>7, Zenon
    <3> QED
      BY <1>2, <1>3, <2>6, <2>7, <3>1, Zenon
  <2>10. 1 .. queued' = ToSet(wire)' \cup lost' \cup WaitingPackets'
                     \cup (IF pending' > 0 THEN {sendBuff'} ELSE {})
    <3>1. 1 .. queued = ToSet(wire) \cup lost \cup W
      BY <1>2, <2>1, Zenon
    <3>2. lost' = lost
      BY <1>8
    <3>3. 1 .. queued' = ToSet(wire)' \cup lost' \cup WaitingPackets' \cup {h}
      BY <1>3, <2>7, <3>1, <3>2, Zenon
    <3> QED
      BY <2>1, <2>6, <3>3, Zenon
  <2> QED
    BY <1>5, <2>5, <2>8, <2>9, <2>10, Zenon DEF OrderInv, SentInOrder
<1> QED
  BY <1>6, <1>7, <1>8, Zenon DEF DoSend

(* The send under way ends: its packet is sent, or it is lost.             *)
LEMMA SendEndsOrder ==
  ASSUME IInv, OrderInv, pending > 0, pending' = 0, UNCHANGED <<waitingQueue, queued>>,
         \/ wire' = Append(wire, sendBuff) /\ lost' = lost
         \/ wire' = wire /\ lost' = lost \cup {sendBuff}
  PROVE  OrderInv'
<1> DEFINE W == WaitingPackets
<1>1. sendBuff \in Packet
  BY OrderHas
<1>2. /\ Ordered(waitingQueue) /\ wire \in Seq(Packet)
      /\ \A y \in ToSet(wire), x \in W : y < x
      /\ \A x \in W : sendBuff < x
      /\ \A y \in ToSet(wire) : y < sendBuff
      /\ \A i, j \in DOMAIN wire : i < j => wire[i] < wire[j]
      /\ 1 .. queued = ToSet(wire) \cup lost \cup W \cup {sendBuff}
  BY Zenon DEF OrderInv, SentInOrder
<1>3. /\ queued' = queued /\ WaitingPackets' = W /\ Ordered(waitingQueue')
      /\ ~(pending' > 0)
  BY <1>2 DEF WaitingPackets, ToSet
<1>4. SUFFICES /\ wire' \in Seq(Packet)
               /\ \A y \in ToSet(wire)', x \in W : y < x
               /\ \A i, j \in DOMAIN wire' : i < j => wire'[i] < wire'[j]
               /\ 1 .. queued = ToSet(wire)' \cup lost' \cup W
  <2> HIDE DEF W
  <2>1. 1 .. queued' = ToSet(wire)' \cup lost' \cup WaitingPackets'
                     \cup (IF pending' > 0 THEN {sendBuff'} ELSE {})
    BY <1>3, <1>4, Zenon
  <2> QED
    BY <1>3, <1>4, <2>1, Zenon DEF OrderInv, SentInOrder
<1>5. CASE wire' = wire /\ lost' = lost \cup {sendBuff}
  <2>1. ToSet(wire)' = ToSet(wire)
    BY <1>5 DEF ToSet
  <2> HIDE DEF W
  <2>2. 1 .. queued = ToSet(wire)' \cup lost' \cup W
    BY <1>2, <1>5, <2>1, Zenon
  <2> QED
    BY <1>2, <1>5, <2>1, <2>2, Zenon
<1>6. CASE wire' = Append(wire, sendBuff) /\ lost' = lost
  <2>1. PICK v : v = wire'
    OBVIOUS
  <2>2. /\ v \in Seq(Packet) /\ Len(wire) \in Nat /\ DOMAIN wire = 1 .. Len(wire)
        /\ DOMAIN v = 1 .. Len(wire) + 1
        /\ \A i \in 1 .. Len(wire) : v[i] = wire[i]
        /\ v[Len(wire) + 1] = sendBuff
    BY <1>1, <1>2, <1>6, <2>1, AppendProperties, LenProperties
  <2>3. ToSet(v) = ToSet(wire) \cup {sendBuff}
    BY <2>2 DEF ToSet
  <2>4. ToSet(wire)' = ToSet(v)
    BY <2>1 DEF ToSet
  <2>5. \A i \in DOMAIN wire : wire[i] < sendBuff
    <3>1. \A i \in DOMAIN wire : wire[i] \in ToSet(wire)
      BY DEF ToSet
    <3> QED
      BY <1>2, <3>1, Zenon
  <2>6. ASSUME NEW i \in DOMAIN v, NEW j \in DOMAIN v, i < j PROVE v[i] < v[j]
    <3>1. i \in 1 .. Len(wire)
      BY <2>2, <2>6
    <3>2. CASE j = Len(wire) + 1
      BY <2>2, <2>5, <3>1, <3>2
    <3>3. CASE j # Len(wire) + 1
      <4>1. j \in 1 .. Len(wire)
        BY <2>2, <3>3
      <4> QED
        BY <1>2, <2>2, <2>6, <3>1, <4>1
    <3> QED
      BY <3>2, <3>3
  <2> HIDE DEF W
  <2>7. 1 .. queued = ToSet(wire)' \cup lost' \cup W
    BY <1>2, <1>6, <2>3, <2>4, Zenon
  <2>8. \A y \in ToSet(wire)', x \in W : y < x
    BY <1>2, <2>3, <2>4, Zenon
  <2> QED
    BY <2>1, <2>2, <2>6, <2>7, <2>8, Zenon
<1> QED
  BY <1>5, <1>6

(* Every step keeps the order.                                             *)
LEMMA OrderStep == ASSUME IInv, OrderInv, [Next]_vars PROVE OrderInv'
<1>1. pending \in {0, 1}
  BY OrderHas
<1>2. CASE UNCHANGED vars
  BY <1>2, OrderFrame DEF vars, queueVars
<1>3. ASSUME NEW c \in Caller, Send(c) PROVE OrderInv'
  <2>1. CASE SendCount(c)
    BY <2>1, OrderFrame DEF SendCount
  <2>2. CASE SendRefuse(c)
    BY <2>2, OrderFrame DEF SendRefuse
  <2>3. CASE SendAccept(c)
    BY <2>3, OrderFrame DEF SendAccept, queueVars
  <2>4. CASE SendQueue(c)
    BY <2>4, QueueOrder
  <2>5. CASE SendLeave(c)
    BY <2>5, OrderFrame DEF SendLeave
  <2>6. CASE SendTry(c)
    BY <2>6, OrderFrame DEF SendTry, queueVars
  <2>7. CASE SendDo(c)
    BY <2>7, DoSendOrder DEF SendDo
  <2> QED
    BY <1>3, <2>1, <2>2, <2>3, <2>4, <2>5, <2>6, <2>7 DEF Send
<1>4. CASE Transmit
  <2>1. /\ pending > 0 /\ pending' = pending - 1 /\ UNCHANGED <<waitingQueue, queued>>
        /\ \/ wire' = Append(wire, sendBuff) /\ lost' = lost
           \/ wire' = wire /\ lost' = lost \cup {sendBuff}
    BY <1>4, Zenon DEF Transmit
  <2>2. pending' = 0
    BY <1>1, <2>1
  <2> QED
    BY <2>1, <2>2, SendEndsOrder, Zenon
<1>5. ASSUME NEW t \in Thread, Finish(t) PROVE OrderInv'
  <2>1. CASE FinishCount(t)
    BY <2>1, OrderFrame DEF FinishCount
  <2>2. CASE FinishClear(t)
    BY <2>2, OrderFrame DEF FinishClear
  <2>3. CASE FinishReturn(t)
    BY <2>3, OrderFrame DEF FinishReturn
  <2>4. CASE FinishTry(t)
    BY <2>4, OrderFrame DEF FinishTry, queueVars
  <2>5. CASE FinishDo(t)
    BY <2>5, DoSendOrder DEF FinishDo
  <2>6. CASE FinishLeave(t)
    BY <2>6, OrderFrame DEF FinishLeave
  <2> QED
    BY <1>5, <2>1, <2>2, <2>3, <2>4, <2>5, <2>6 DEF Finish
<1>6. CASE CloseFlag \/ CloseAsk \/ CloseAnswer
  BY <1>6, OrderFrame DEF CloseFlag, CloseAsk, CloseAnswer, queueVars
<1>7. CASE CloseCancel
  <2>1. CASE pending > 0
    <3>1. /\ pending' = 0 /\ UNCHANGED <<waitingQueue, queued>>
          /\ wire' = wire /\ lost' = lost \cup {sendBuff}
      BY <1>7, <2>1 DEF CloseCancel
    <3> QED
      BY <2>1, <3>1, SendEndsOrder, Zenon
  <2>2. CASE ~(pending > 0)
    <3>1. pending' = pending /\ UNCHANGED <<waitingQueue, wire, lost, queued, sendBuff>>
      BY <1>1, <1>7, <2>2 DEF CloseCancel
    <3> QED
      BY <3>1, OrderFrame
  <2> QED
    BY <2>1, <2>2
<1> QED
  BY <1>2, <1>3, <1>4, <1>5, <1>6, <1>7 DEF Next, Close

(* Packets are sent in the order in which they were queued, each at most   *)
(* once, and none disappears: every packet queued is sent, waiting, in the *)
(* buffer of the send under way, or was given up by an error or a limit.   *)
THEOREM InOrder == Spec => []SentInOrder
<1>1. Init => OrderInv
  <2> SUFFICES ASSUME Init PROVE OrderInv
    OBVIOUS
  <2>1. /\ wire = <<>> /\ waitingQueue = <<>> /\ lost = {} /\ ~(pending > 0) /\ queued = 0
    BY DEF Init
  <2>2. ToSet(wire) = {} /\ WaitingPackets = {} /\ Ordered(waitingQueue) /\ DOMAIN wire = {}
        /\ wire \in Seq(Packet)
    BY <2>1 DEF ToSet, WaitingPackets, Ordered
  <2>3. 1 .. queued = {}
    BY <2>1
  <2> QED
    BY <2>1, <2>2, <2>3, Zenon DEF OrderInv, SentInOrder
<1>2. (IInv /\ OrderInv) /\ [Next]_vars => OrderInv'
  BY OrderStep
<1>3. OrderInv => SentInOrder
  BY DEF OrderInv
<1> QED
  BY <1>1, <1>2, <1>3, Invariance, PTL DEF Spec

=============================================================================
