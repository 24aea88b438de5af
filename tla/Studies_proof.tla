---- MODULE Studies_proof ----
(* Proofs about the small programs, for every value of their constants, and   *)
(* that each keeps what it keeps alone when Studies runs it.                  *)
EXTENDS Studies, TLAPS, FiniteSetTheorems

-----------------------------------------------------------------------------
(* The hand-over of SemHandoff.                                               *)

(* There is one token: in a semaphore, or with the thread between its wait    *)
(* and its post.                                                              *)
OneToken == empty + full + (IF prod \in {"write", "post"} THEN 1 ELSE 0)
                      + (IF cons \in {"read", "post"} THEN 1 ELSE 0) = 1

(* A number is underway from the write to the read, and shared_num holds it.  *)
Underway == prod = "post" \/ full = 1 \/ cons = "read"

Lag ==
    /\ Len(produced) = Len(received) + (IF Underway THEN 1 ELSE 0)
    /\ Underway => shared_num = produced[Len(produced)]
    /\ \A i \in 1 .. Len(received) : received[i] = produced[i]

HandoffInv == TypeOK /\ OneToken /\ Lag

(* The token is in empty.                                                     *)
LEMMA HandoffStarts == Init => HandoffInv
<1> SUFFICES ASSUME Init PROVE HandoffInv
    OBVIOUS
<1>1. TypeOK  BY DEF Init, TypeOK
<1>2. OneToken  BY DEF Init, OneToken
<1>3. Lag  BY DEF Init, Lag, Underway
<1> QED BY <1>1, <1>2, <1>3 DEF HandoffInv

(* A wait takes the token, the post after it puts it back.                    *)
LEMMA HandoffKeeps == HandoffInv /\ [Next]_vars => HandoffInv'
<1> SUFFICES ASSUME HandoffInv, [Next]_vars PROVE HandoffInv'
    OBVIOUS
<1> USE ValuesAssumption DEF HandoffInv, TypeOK, OneToken, Lag, Underway
<1>1. CASE ProducerWait   BY <1>1, SMT DEF ProducerWait
<1>2. CASE ProducerWrite
  <2>1. PICK v \in Values : shared_num' = v /\ produced' = Append(produced, v)
    BY <1>2 DEF ProducerWrite
  <2>2. TypeOK' /\ OneToken'  BY <1>2, <2>1, SMT DEF ProducerWrite
  <2>3. Lag'  BY <1>2, <2>1, SMT DEF ProducerWrite
  <2> QED BY <2>2, <2>3
<1>3. CASE ProducerPost   BY <1>3, SMT DEF ProducerPost
<1>4. CASE ProducerEnds   BY <1>4, SMT DEF ProducerEnds
<1>5. CASE ConsumerWait   BY <1>5, SMT DEF ConsumerWait
<1>6. CASE ConsumerRead
  <2>1. TypeOK' /\ OneToken'  BY <1>6, SMT DEF ConsumerRead
  <2>2. Lag'  BY <1>6, SMT DEF ConsumerRead
  <2> QED BY <2>1, <2>2
<1>7. CASE ConsumerPost   BY <1>7, SMT DEF ConsumerPost
<1>8. CASE ConsumerEnds   BY <1>8, SMT DEF ConsumerEnds
<1>9. CASE MainJoins      BY <1>9, SMT DEF MainJoins
<1>10. CASE UNCHANGED vars  BY <1>10, SMT DEF vars
<1> QED BY <1>1, <1>2, <1>3, <1>4, <1>5, <1>6, <1>7, <1>8, <1>9, <1>10
        DEF Next, Producer, Consumer

(* Two threads between their waits and their posts would be two tokens.       *)
LEMMA HandoffFollows == HandoffInv => TypeOK /\ MutualExclusion /\ ReceivedInOrder
BY SMT DEF HandoffInv, TypeOK, OneToken, Lag, MutualExclusion, ReceivedInOrder

(* The inductive invariant of the hand-over.                                  *)
LEMMA HandoffInvariant == Spec => []HandoffInv
BY HandoffStarts, HandoffKeeps, PTL DEF Spec

(* One thread at a time is between its wait and its post, and the consumer    *)
(* prints what was produced, in order.                                        *)
THEOREM HandoffInOrder == Spec => [](TypeOK /\ MutualExclusion /\ ReceivedInOrder)
BY HandoffFollows, HandoffInvariant, PTL

(* The program is a one-place channel: the write is the put, the read is the  *)
(* get, and every other step leaves the channel alone.                        *)
THEOREM HandoffIsSlot == Spec => SlotSpec
<1>1. Init => Slot!Init
  BY SMT DEF Init, Slot!Init
<1>2. HandoffInv /\ [Next]_vars => [Slot!Next]_(Slot!vars)
  <2> SUFFICES ASSUME HandoffInv, [Next]_vars PROVE [Slot!Next]_(Slot!vars)
      OBVIOUS
  <2> USE ValuesAssumption DEF HandoffInv, TypeOK, OneToken, Lag, Underway
  <2>1. CASE ProducerWrite
    <3>1. PICK v \in Values : shared_num' = v /\ produced' = Append(produced, v)
      BY <2>1 DEF ProducerWrite
    <3>2. Slot!Put(v)
      BY <2>1, <3>1, SMT DEF ProducerWrite, Slot!Put
    <3> QED BY <3>2 DEF Slot!Next
  <2>2. CASE ConsumerRead
    <3>1. Slot!Get
      BY <2>2, SMT DEF ConsumerRead, Slot!Get
    <3> QED BY <3>1 DEF Slot!Next
  <2>3. CASE UNCHANGED <<shared_num, produced, received>>
    BY <2>3 DEF Slot!vars
  <2> QED BY <2>1, <2>2, <2>3
          DEF Next, Producer, Consumer, ProducerWait, ProducerPost, ProducerEnds,
              ConsumerWait, ConsumerPost, ConsumerEnds, MainJoins, vars
<1> QED BY <1>1, <1>2, HandoffInvariant, PTL DEF Spec, SlotSpec, Slot!Spec

(* A thread leaves its loop after the last round only.                        *)
RoundsInv ==
    /\ Len(produced) <= Rounds /\ Len(received) <= Rounds
    /\ prod = "write" => Len(produced) < Rounds
    /\ cons = "read" => Len(received) < Rounds
    /\ prod = "done" => Len(produced) = Rounds
    /\ cons = "done" => Len(received) = Rounds

(* A thread in sem_wait with nothing to take is waited for by nobody: the     *)
(* other is on its way to the post that wakes it.                             *)
ProducerWaits == prod = "loop" /\ Len(produced) < Rounds /\ empty = 0
ConsumerWaits == cons = "loop" /\ Len(received) < Rounds /\ full = 0
OtherWillPost ==
    /\ ProducerWaits => ~ConsumerWaits /\ cons # "done"
    /\ ConsumerWaits => ~ProducerWaits /\ prod # "done"

(* Each round ends with the post, and is counted before it.                   *)
LEMMA RoundsKept == HandoffInv /\ RoundsInv /\ [Next]_vars => RoundsInv'
<1> SUFFICES ASSUME HandoffInv, RoundsInv, [Next]_vars PROVE RoundsInv'
    OBVIOUS
<1>0. /\ produced \in Seq(Values) /\ received \in Seq(Values \cup {0}) /\ Rounds \in Nat
      /\ shared_num \in Values \cup {0}
  BY RoundsAssumption DEF HandoffInv, TypeOK
<1>a. /\ Len(produced) \in Nat /\ Len(received) \in Nat
      /\ \A v \in Values : Len(Append(produced, v)) = Len(produced) + 1
      /\ Len(Append(received, shared_num)) = Len(received) + 1
  BY <1>0
<1> USE DEF RoundsInv
<1>1. CASE ProducerWait \/ ProducerPost \/ ProducerEnds
  BY <1>0, <1>a, <1>1 DEF ProducerWait, ProducerPost, ProducerEnds
<1>2. CASE ProducerWrite
  BY <1>0, <1>a, <1>2 DEF ProducerWrite
<1>3. CASE ConsumerWait \/ ConsumerPost \/ ConsumerEnds
  BY <1>0, <1>a, <1>3 DEF ConsumerWait, ConsumerPost, ConsumerEnds
<1>4. CASE ConsumerRead
  BY <1>0, <1>a, <1>4 DEF ConsumerRead
<1>5. CASE MainJoins
  BY <1>5 DEF MainJoins
<1>6. CASE UNCHANGED vars
  BY <1>6 DEF vars
<1> QED BY <1>1, <1>2, <1>3, <1>4, <1>5, <1>6 DEF Next, Producer, Consumer

(* The one token is with the other thread, or about to be: it lags by the     *)
(* number underway, so it has a round left.                                   *)
LEMMA TokenElsewhere == HandoffInv /\ RoundsInv => OtherWillPost
<1> SUFFICES ASSUME HandoffInv, RoundsInv PROVE OtherWillPost
    OBVIOUS
<1>1. /\ Len(produced) \in Nat /\ Len(received) \in Nat /\ Rounds \in Nat
      /\ empty \in 0 .. 1 /\ full \in 0 .. 1
  BY RoundsAssumption DEF HandoffInv, TypeOK
<1> QED
  BY <1>1, SMT DEF HandoffInv, OneToken, Lag, Underway, RoundsInv, OtherWillPost,
                   ProducerWaits, ConsumerWaits

(* The two semaphores never let both threads wait, nor one for a thread that  *)
(* has left its loop, for any number of rounds.                               *)
THEOREM HandoffNeverStuck == Spec => []OtherWillPost
<1>1. Init => HandoffInv /\ RoundsInv
  BY HandoffStarts, RoundsAssumption DEF Init, RoundsInv
<1>2. (HandoffInv /\ RoundsInv) /\ [Next]_vars => (HandoffInv /\ RoundsInv)'
  BY HandoffKeeps, RoundsKept
<1> QED BY <1>1, <1>2, TokenElsewhere, PTL DEF Spec

-----------------------------------------------------------------------------
(* The ring of CharRing.                                                      *)

(* Characters that thread1_func has stored and thread2_func has cleared.      *)
Stored == IF ch = NUL THEN typed ELSE typed - 1
Cleared == IF opc = "clear" THEN Len(printed) - 1 ELSE Len(printed)

(* How far behind the reading position a cell is, going round the ring.       *)
Behind(p) == IF p >= take THEN p - take ELSE p - take + BUF_LEN

RTypes ==
    /\ buf \in [Cells -> Nat]
    /\ ch \in Nat /\ typed \in Nat /\ typed <= MaxTyped /\ ch \in {NUL, typed}
    /\ put \in Cells /\ take \in Cells
    /\ opc \in {"test", "print", "clear"}
    /\ printed \in Seq(Nat)
    /\ lapped \in BOOLEAN

(* The cell thread2_func has tested is still full when it is read again.      *)
TestedInv == opc = "print" => buf[take] # NUL

(* Without a lap the characters stored and not yet cleared lie in the cells   *)
(* from take on, in order, and put is the cell behind the last of them.       *)
WindowInv ==
    ~lapped =>
        /\ Cleared \in 0 .. Stored
        /\ Stored - Cleared <= BUF_LEN
        /\ opc = "clear" => Cleared < Stored
        /\ \/ put = take + (Stored - Cleared)
           \/ put = take + (Stored - Cleared) - BUF_LEN
        /\ \A p \in Cells :
              buf[p] = IF Behind(p) < Stored - Cleared THEN Cleared + 1 + Behind(p) ELSE NUL
        /\ \A k \in DOMAIN printed : printed[k] = k

(* A character is in one cell only, and printed only if that is the cell      *)
(* thread2_func is about to clear; the one just read is in neither place.     *)
OnceInv ==
    /\ \A p \in Cells : buf[p] <= Stored
    /\ \A p, q \in Cells : buf[p] # NUL /\ buf[p] = buf[q] => p = q
    /\ \A k \in DOMAIN printed : printed[k] \in 1 .. Stored
    /\ \A k \in DOMAIN printed, p \in Cells :
          buf[p] = printed[k] => opc = "clear" /\ p = take
    /\ \A k, l \in DOMAIN printed : printed[k] = printed[l] => k = l

RInv == RTypes /\ TestedInv /\ WindowInv /\ OnceInv

-----------------------------------------------------------------------------
(* An index goes to the next cell, or from the last one to the first.         *)
LEMMA AdvanceWraps ==
    ASSUME NEW i \in Cells
    PROVE  /\ Advance(i) \in Cells
           /\ \/ Advance(i) = i + 1 /\ i + 1 < BUF_LEN
              \/ Advance(i) = 0 /\ i + 1 = BUF_LEN
  BY RingAssumption, SMT DEF Cells, Advance

(* An empty ring.                                                             *)
LEMMA RingStarts == RingInit => RInv
<1> SUFFICES ASSUME RingInit PROVE RInv
  OBVIOUS
<1> USE RingAssumption DEF RingInit, NUL, Cells
<1>1. RTypes
  BY SMT DEF RTypes
<1>2. TestedInv
  BY DEF TestedInv
<1>3. Stored = 0 /\ Cleared = 0
  BY DEF Stored, Cleared
<1>4. WindowInv
  BY <1>3, SMT DEF WindowInv, Behind
<1>5. OnceInv
  BY <1>3, SMT DEF OnceInv
<1> QED
  BY <1>1, <1>2, <1>4, <1>5 DEF RInv

(* Reading a character touches no cell.                                       *)
LEMMA FgetcKeeps == RInv /\ Fgetc => RInv'
<1> SUFFICES ASSUME RInv, Fgetc PROVE RInv'
  OBVIOUS
<1> USE RingAssumption DEF NUL
<1>1. RTypes'
  BY DEF RInv, RTypes, Fgetc
<1>2. TestedInv'
  BY DEF RInv, TestedInv, Fgetc
<1>3. Stored' = Stored /\ Cleared' = Cleared /\ \A p \in Cells : Behind(p)' = Behind(p)
  BY SMT DEF RInv, RTypes, Fgetc, Stored, Cleared, Behind
<1>4. WindowInv'
  BY <1>3 DEF RInv, WindowInv, Fgetc
<1>5. OnceInv'
  BY <1>3 DEF RInv, OnceInv, Fgetc
<1> QED
  BY <1>1, <1>2, <1>4, <1>5 DEF RInv

(* What is tested is full until it is cleared: nobody else stores NUL.        *)
LEMMA LookKeeps == RInv /\ Look => RInv'
<1> SUFFICES ASSUME RInv, Look PROVE RInv'
  OBVIOUS
<1>1. RTypes'
  BY DEF RInv, RTypes, Look
<1>2. TestedInv'
  BY DEF TestedInv, Look
<1>3. Stored' = Stored /\ Cleared' = Cleared /\ \A p \in Cells : Behind(p)' = Behind(p)
  BY DEF Look, Stored, Cleared, Behind
<1>4. WindowInv'
  BY <1>3 DEF RInv, WindowInv, Look
<1>5. OnceInv'
  BY <1>3 DEF RInv, OnceInv, Look
<1> QED
  BY <1>1, <1>2, <1>4, <1>5 DEF RInv

(* Without a lap the cell stored to is the first free one behind the window.  *)
LEMMA StoreKeeps == RInv /\ Store => RInv'
<1> SUFFICES ASSUME RInv, Store PROVE RInv'
  OBVIOUS
<1> USE RingAssumption DEF NUL
<1>1. RTypes'
  BY AdvanceWraps, SMT DEF RInv, RTypes, Store
<1>2. TestedInv'
  BY DEF RInv, RTypes, TestedInv, Store
<1>3. /\ Stored \in Nat /\ Stored' = Stored + 1 /\ ch = Stored + 1
      /\ Cleared' = Cleared /\ \A p \in Cells : Behind(p)' = Behind(p)
  BY SMT DEF RInv, RTypes, Store, Stored, Cleared, Behind
<1>4. ASSUME ~lapped' PROVE WindowInv'
  <2>1. ~lapped /\ buf[put] = NUL
    BY <1>4 DEF Store
  <2>2. WindowInv /\ RTypes
    BY DEF RInv
  <2>3. Cleared \in Nat /\ Behind(put) \in 0 .. BUF_LEN - 1
    BY <2>1, <2>2, SMT DEF RTypes, WindowInv, Behind, Cells
  <2>4. Behind(put) >= Stored - Cleared
    BY <1>3, <2>1, <2>2, <2>3, SMT DEF WindowInv, RTypes
  <2>5. Behind(put) = Stored - Cleared
    BY <1>3, <2>1, <2>2, <2>3, <2>4, SMT DEF WindowInv, RTypes, Behind, Cells
  <2>6. ASSUME NEW p \in Cells
        PROVE  buf'[p] = IF Behind(p)' < Stored' - Cleared' THEN Cleared' + 1 + Behind(p)' ELSE NUL
    <3>1. CASE p = put
      BY <1>3, <2>2, <2>3, <2>5, <3>1, SMT DEF Store, RTypes
    <3>2. CASE p # put
      <4>1. Behind(p) # Behind(put) /\ Behind(p) \in Nat
        BY <2>2, <3>2, SMT DEF Behind, Cells, RTypes
      <4>2. buf'[p] = buf[p]
        BY <2>2, <3>2 DEF Store, RTypes
      <4> QED
        BY <1>3, <2>1, <2>2, <2>3, <2>5, <4>1, <4>2, SMT DEF WindowInv
    <3> QED
      BY <3>1, <3>2
  <2>7. \/ put' = take' + (Stored' - Cleared')
        \/ put' = take' + (Stored' - Cleared') - BUF_LEN
    <3>1. put \in Cells /\ take \in Cells /\ put' = Advance(put) /\ take' = take
      BY <2>2 DEF RTypes, Store
    <3> QED
      BY <1>3, <2>1, <2>2, <2>3, <2>5, <3>1, AdvanceWraps, SMT DEF WindowInv, Cells
  <2>8. Cleared' \in 0 .. Stored' /\ Stored' - Cleared' <= BUF_LEN /\ (opc' = "clear" => Cleared' < Stored')
    BY <1>3, <2>1, <2>2, <2>3, <2>5, SMT DEF WindowInv, Store
  <2>9. \A k \in DOMAIN printed' : printed'[k] = k
    BY <2>1, <2>2 DEF WindowInv, Store
  <2> QED
    BY <2>6, <2>7, <2>8, <2>9 DEF WindowInv
<1>5. WindowInv'
  BY <1>4 DEF WindowInv
<1>6. OnceInv'
  <2>1. RTypes /\ OnceInv
    BY DEF RInv
  <2>2. \A p \in Cells : buf'[p] = (IF p = put THEN Stored + 1 ELSE buf[p]) /\ buf[p] \in Nat
    BY <1>3, <2>1 DEF RTypes, Store
  <2>3. printed' = printed /\ \A k \in DOMAIN printed : printed[k] \in Nat
    BY <2>1 DEF RTypes, Store
  <2>4. \A p \in Cells : buf'[p] <= Stored'
    BY <1>3, <2>1, <2>2, SMT DEF OnceInv
  <2>5. \A p, q \in Cells : buf'[p] # NUL /\ buf'[p] = buf'[q] => p = q
    BY <1>3, <2>1, <2>2, SMT DEF OnceInv
  <2>6. \A k \in DOMAIN printed' : printed'[k] \in 1 .. Stored'
    BY <1>3, <2>1, <2>3, SMT DEF OnceInv
  <2>7. \A k \in DOMAIN printed', p \in Cells :
           buf'[p] = printed'[k] => opc' = "clear" /\ p = take'
    <3>1. opc' = opc /\ take' = take
      BY DEF Store
    <3> QED
      BY <1>3, <2>1, <2>2, <2>3, <3>1, SMT DEF OnceInv
  <2>8. \A k, l \in DOMAIN printed' : printed'[k] = printed'[l] => k = l
    BY <2>1, <2>3 DEF OnceInv
  <2> QED
    BY <2>4, <2>5, <2>6, <2>7, <2>8 DEF OnceInv
<1> QED
  BY <1>1, <1>2, <1>5, <1>6 DEF RInv

(* The cell printed is the first of the window.                               *)
LEMMA FputcKeeps == RInv /\ Fputc => RInv'
<1> SUFFICES ASSUME RInv, Fputc PROVE RInv'
  OBVIOUS
<1> USE RingAssumption DEF NUL
<1> DEFINE c == buf[take]
<1>0. RTypes /\ WindowInv /\ OnceInv /\ TestedInv /\ take \in Cells /\ c \in Nat \ {0}
  BY DEF RInv, RTypes, TestedInv, Fputc
<1>1. RTypes'
  BY <1>0 DEF RTypes, Fputc
<1>2. TestedInv'
  BY DEF TestedInv, Fputc
<1>3. /\ Stored' = Stored /\ Cleared' = Cleared /\ Stored \in Int
      /\ Cleared = Len(printed) /\ \A p \in Cells : Behind(p)' = Behind(p)
  BY <1>0, SMT DEF RTypes, Fputc, Stored, Cleared, Behind
<1>4. /\ DOMAIN printed = 1 .. Len(printed) /\ Len(printed) \in Nat
      /\ DOMAIN printed' = 1 .. Len(printed) + 1
      /\ \A k \in 1 .. Len(printed) : printed'[k] = printed[k] /\ printed[k] \in Nat
      /\ printed'[Len(printed) + 1] = c
  BY <1>0, SMT DEF RTypes, Fputc
<1>5. ASSUME ~lapped PROVE WindowInv'
  <2>1. Behind(take) = 0
    BY <1>0, SMT DEF Behind, Cells
  <2>2. c = Len(printed) + 1 /\ Cleared < Stored
    BY <1>0, <1>3, <1>4, <1>5, <2>1, SMT DEF WindowInv
  <2>3. \A k \in DOMAIN printed' : printed'[k] = k
    BY <1>0, <1>4, <1>5, <2>2, SMT DEF WindowInv
  <2> QED
    BY <1>0, <1>3, <1>5, <2>2, <2>3 DEF WindowInv, Fputc
<1>6. WindowInv'
  BY <1>5 DEF WindowInv, Fputc
<1>7. OnceInv'
  <2>1. \A k \in DOMAIN printed : printed[k] # c
    BY <1>0 DEF OnceInv, Fputc
  <2>2. \A p \in Cells : buf'[p] <= Stored'
    BY <1>0, <1>3 DEF OnceInv, Fputc
  <2>3. \A p, q \in Cells : buf'[p] # NUL /\ buf'[p] = buf'[q] => p = q
    BY <1>0 DEF OnceInv, Fputc
  <2>4. \A k \in DOMAIN printed' : printed'[k] \in 1 .. Stored'
    BY <1>0, <1>3, <1>4, SMT DEF OnceInv
  <2>5. \A k \in DOMAIN printed', p \in Cells :
           buf'[p] = printed'[k] => opc' = "clear" /\ p = take'
    <3> SUFFICES ASSUME NEW k \in DOMAIN printed', NEW p \in Cells, buf'[p] = printed'[k]
                 PROVE  opc' = "clear" /\ p = take'
      OBVIOUS
    <3>1. opc' = "clear" /\ take' = take /\ buf' = buf /\ opc = "print"
      BY DEF Fputc
    <3>2. CASE k = Len(printed) + 1
      BY <1>0, <1>4, <3>1, <3>2 DEF OnceInv
    <3>3. CASE k # Len(printed) + 1
      <4>1. k \in DOMAIN printed
        BY <1>4, <3>3, SMT
      <4> QED
        BY <1>0, <1>4, <3>1, <4>1 DEF OnceInv
    <3> QED
      BY <3>2, <3>3
  <2>6. \A k, l \in DOMAIN printed' : printed'[k] = printed'[l] => k = l
    BY <1>0, <1>4, <2>1, SMT DEF OnceInv
  <2> QED
    BY <2>2, <2>3, <2>4, <2>5, <2>6 DEF OnceInv
<1> QED
  BY <1>1, <1>2, <1>6, <1>7 DEF RInv

(* Clearing moves the window by one cell.                                     *)
LEMMA ClearKeeps == RInv /\ Clear => RInv'
<1> SUFFICES ASSUME RInv, Clear PROVE RInv'
  OBVIOUS
<1> USE RingAssumption DEF NUL
<1>0. RTypes /\ WindowInv /\ OnceInv /\ take \in Cells
  BY DEF RInv, RTypes
<1>1. RTypes'
  BY <1>0, AdvanceWraps, SMT DEF RTypes, Clear
<1>2. TestedInv'
  BY DEF TestedInv, Clear
<1>3. /\ Stored' = Stored /\ Stored \in Int
      /\ Cleared = Len(printed) - 1 /\ Cleared' = Cleared + 1 /\ Len(printed) \in Nat
      /\ printed' = printed
  BY <1>0, SMT DEF RTypes, Clear, Stored, Cleared
<1>4. \A p \in Cells : buf'[p] = (IF p = take THEN NUL ELSE buf[p]) /\ buf[p] \in Nat
  BY <1>0 DEF RTypes, Clear
<1>5. ASSUME ~lapped PROVE WindowInv'
  <2>1. Cleared < Stored /\ Cleared \in Nat
    BY <1>0, <1>3, <1>5, SMT DEF WindowInv, Clear
  <2>2. take' = Advance(take)
    BY DEF Clear
  <2>3. ASSUME NEW p \in Cells
        PROVE  /\ p # take => Behind(p)' = Behind(p) - 1 /\ Behind(p) \in 1 .. BUF_LEN - 1
               /\ p = take => Behind(p)' = BUF_LEN - 1 /\ Behind(p) = 0
    BY <1>0, <2>2, AdvanceWraps, SMT DEF Behind, Cells
  <2>4. ASSUME NEW p \in Cells
        PROVE  buf'[p] = IF Behind(p)' < Stored' - Cleared' THEN Cleared' + 1 + Behind(p)' ELSE NUL
    <3>1. CASE p = take
      BY <1>0, <1>3, <1>4, <1>5, <2>1, <2>3, <3>1, SMT DEF WindowInv
    <3>2. CASE p # take
      BY <1>0, <1>3, <1>4, <1>5, <2>1, <2>3, <3>2, SMT DEF WindowInv
    <3> QED
      BY <3>1, <3>2
  <2>5. \/ put' = take' + (Stored' - Cleared')
        \/ put' = take' + (Stored' - Cleared') - BUF_LEN
    <3> DEFINE n == Stored - Cleared
    <3>1. put' = put /\ put \in Cells /\ n \in Nat \ {0} /\ Stored' - Cleared' = n - 1
      BY <1>0, <1>3, <2>1, SMT DEF RTypes, Clear
    <3>2. put = take + n \/ put = take + n - BUF_LEN
      BY <1>0, <1>5 DEF WindowInv
    <3>3. \/ take' = take + 1
          \/ take' = 0 /\ take + 1 = BUF_LEN
      BY <1>0, <2>2, AdvanceWraps
    <3> HIDE DEF n
    <3> QED
      BY <1>0, <3>1, <3>2, <3>3, SMT DEF Cells
  <2>6. Cleared' \in 0 .. Stored' /\ Stored' - Cleared' <= BUF_LEN /\ (opc' = "clear" => Cleared' < Stored')
    BY <1>0, <1>3, <1>5, <2>1, SMT DEF WindowInv, Clear
  <2> QED
    BY <1>0, <1>3, <1>5, <2>4, <2>5, <2>6 DEF WindowInv
<1>6. WindowInv'
  BY <1>5 DEF WindowInv, Clear
<1>7. OnceInv'
  BY <1>0, <1>3, <1>4, SMT DEF OnceInv
<1> QED
  BY <1>1, <1>2, <1>6, <1>7 DEF RInv

(* Every step of the ring program keeps its invariant.                        *)
LEMMA RingStepKeeps == RInv /\ [RingNext]_rvars => RInv'
<1>1. ASSUME RInv, UNCHANGED rvars PROVE RInv'
  <2>1. UNCHANGED <<buf, ch, put, opc, take, typed, printed, lapped>>
    BY <1>1 DEF rvars
  <2>2. Stored' = Stored /\ Cleared' = Cleared /\ \A p \in Cells : Behind(p)' = Behind(p)
    BY <2>1 DEF Stored, Cleared, Behind
  <2>3. RTypes' /\ TestedInv'
    BY <1>1, <2>1 DEF RInv, RTypes, TestedInv
  <2>4. WindowInv'
    BY <1>1, <2>1, <2>2 DEF RInv, WindowInv
  <2>5. OnceInv'
    BY <1>1, <2>1, <2>2 DEF RInv, OnceInv
  <2> QED BY <2>3, <2>4, <2>5 DEF RInv
<1> QED BY <1>1, FgetcKeeps, StoreKeeps, LookKeeps, FputcKeeps, ClearKeeps
        DEF RingNext, thread1_func, thread2_func

(* The cells between reader and writer being in order, so is the output.      *)
LEMMA RingFollows == RInv => RingInOrder /\ RingTypeOK
<1> SUFFICES ASSUME RInv PROVE RingInOrder /\ RingTypeOK
    OBVIOUS
<1>1. RingInOrder  BY DEF RInv, WindowInv, OnceInv, RingInOrder
<1>2. Stored \in Int /\ Stored <= typed
  BY SMT DEF RInv, RTypes, Stored, NUL
<1>3. buf \in [Cells -> 0 .. typed]
  BY <1>2, SMT DEF RInv, RTypes, OnceInv
<1>4. printed \in Seq(1 .. typed)
  <2>1. \A k \in 1 .. Len(printed) : printed[k] \in 1 .. typed
    BY <1>2, SMT DEF RInv, RTypes, OnceInv
  <2> QED BY <2>1, SMT DEF RInv, RTypes
<1>5. typed \in 0 .. MaxTyped  BY RingAssumption, SMT DEF RInv, RTypes
<1> QED BY <1>1, <1>3, <1>4, <1>5 DEF RInv, RTypes, RingTypeOK

(* For a ring of any length and any number of characters: until the storing   *)
(* thread has lapped the other, thread2_func prints what was typed, in order  *)
(* and without a gap, and lapped or not it prints no character twice.         *)
THEOREM RingOrder == RingSpec => []RingInOrder
BY RingStarts, RingStepKeeps, RingFollows, PTL DEF RingSpec

-----------------------------------------------------------------------------
(* The clients and the server of UdpEcho.                                     *)

InQueue(k) == \E i \in DOMAIN rcvqueue : rcvqueue[i].from = k

(* No client has two datagrams in the server's buffer.                        *)
OneEachInv ==
    \A i, j \in DOMAIN rcvqueue :
        rcvqueue[i].from = rcvqueue[j].from /\ rcvqueue[i].from # Stranger => i = j

(* InStep without cardinalities, for one client.                              *)
Idle(k) == ~InQueue(k) /\ ~BeingAnswered(k) /\ answers[k] = 0

OneOfFour(k) ==
    \/ k \in vanished /\ Idle(k)
    \/ k \notin vanished /\ InQueue(k) /\ ~BeingAnswered(k) /\ answers[k] = 0
    \/ k \notin vanished /\ ~InQueue(k) /\ BeingAnswered(k) /\ answers[k] = 0
    \/ k \notin vanished /\ ~InQueue(k) /\ ~BeingAnswered(k) /\ answers[k] = 1

Client(k) ==
    /\ asker[k] = "input" => Idle(k) /\ k \notin vanished
    /\ asker[k] = "wait" => OneOfFour(k)

UInv == UdpTypeOK /\ OneEachInv /\ \A k \in UdpClients : Client(k)

(* Nothing has been sent.                                                     *)
LEMMA UdpStarts == UdpInit => UInv
<1> SUFFICES ASSUME UdpInit PROVE UInv
    OBVIOUS
<1>1. UdpTypeOK
  BY UdpAssumption, SMT DEF UdpInit, UdpTypeOK, Senders
<1>2. OneEachInv /\ \A k \in UdpClients : Client(k)
  BY SMT DEF UdpInit, OneEachInv, Client, Idle, InQueue, BeingAnswered
<1> QED BY <1>1, <1>2 DEF UInv

(* Who is served or has a datagram queued is one of the senders.              *)
LEMMA Known ==
    ASSUME UInv
    PROVE  /\ rcvqueue \in Seq(Datagram) /\ DOMAIN rcvqueue = 1 .. Len(rcvqueue)
           /\ Len(rcvqueue) \in Nat
           /\ \A i \in DOMAIN rcvqueue : rcvqueue[i] \in Datagram /\ rcvqueue[i].from \in Senders
           /\ answers \in [UdpClients -> Nat]
           /\ asker \in [UdpClients -> {"input", "wait", "over"}]
           /\ vanished \in SUBSET Senders
<1>1. rcvqueue \in Seq(Datagram)  BY DEF UInv, UdpTypeOK
<1>2. \A i \in DOMAIN rcvqueue : rcvqueue[i] \in Datagram  BY <1>1, SMT
<1>3. \A x \in Datagram : x.from \in Senders  BY DEF Datagram
<1> QED BY <1>1, <1>2, <1>3, SMT DEF UInv, UdpTypeOK

(* The server ends: whatever was on its way through it has vanished.          *)
LEMMA CloseKeeps ==
    ASSUME UInv, NEW lost, UdpClose(lost), lost \subseteq Senders,
           spc = "sendto" => lost = {client_addr}, spc # "sendto" => lost = {},
           UNCHANGED <<asker, answers, lines, starts, stray>>, client_addr' \in Senders
    PROVE  UInv'
<1> USE Known
<1>1. /\ spc' = "off" /\ rcvqueue' = <<>>
      /\ vanished' = vanished \cup lost \cup {rcvqueue[i].from : i \in DOMAIN rcvqueue}
  BY DEF UdpClose
<1>2. <<>> \in Seq(Datagram) /\ Len(<<>>) = 0 /\ DOMAIN <<>> = {} /\ 0 <= RcvBuf
  BY UdpAssumption, SMT
<1>3. UdpTypeOK'
  BY <1>1, <1>2 DEF UInv, UdpTypeOK
<1>4. OneEachInv'  BY <1>1, <1>2 DEF OneEachInv
<1>5. ASSUME NEW k \in UdpClients PROVE Client(k)'
  <2>1. Client(k)  BY DEF UInv
  <2>2. /\ ~InQueue(k)' /\ ~BeingAnswered(k)'
        /\ k \in vanished' <=> (k \in vanished \/ BeingAnswered(k) \/ InQueue(k))
    BY <1>1, <1>2 DEF InQueue, BeingAnswered
  <2> QED BY <2>1, <2>2 DEF Client, Idle, OneOfFour
<1> QED BY <1>3, <1>4, <1>5 DEF UInv

(* The server.                                                                *)
LEMMA ServerKeeps == ASSUME UInv, UdpBind \/ udp_server \/ SendtoFails PROVE UInv'
<1> USE Known
<1>1. CASE UdpBind
  <2>1. /\ spc = "off" /\ spc' = "recvfrom" /\ starts' = starts + 1 /\ starts < MaxStarts
        /\ UNCHANGED <<rcvqueue, client_addr, asker, answers, lines, vanished, stray>>
    BY <1>1 DEF UdpBind
  <2>2. starts' \in 0 .. MaxStarts
    BY <2>1, UdpAssumption, SMT DEF UInv, UdpTypeOK
  <2>3. UdpTypeOK'  BY <2>1, <2>2 DEF UInv, UdpTypeOK
  <2>4. OneEachInv' /\ \A k \in UdpClients : Client(k)'
    BY <2>1 DEF UInv, OneEachInv, Client, Idle, OneOfFour, InQueue, BeingAnswered
  <2> QED BY <2>3, <2>4 DEF UInv
<1>2. CASE Recvfrom
  <2> DEFINE h == rcvqueue[1]
  <2>1. /\ spc = "recvfrom" /\ rcvqueue # <<>> /\ client_addr' = Head(rcvqueue).from
        /\ UNCHANGED <<asker, answers, lines, starts, stray>>
        /\ \/ /\ rcvqueue' = Tail(rcvqueue) /\ spc' = "sendto" /\ UNCHANGED vanished
           \/ UdpClose({})
    BY <1>2 DEF Recvfrom
  <2>2. /\ Head(rcvqueue) = h /\ 1 \in DOMAIN rcvqueue /\ h.from \in Senders
        /\ Tail(rcvqueue) \in Seq(Datagram) /\ Len(Tail(rcvqueue)) = Len(rcvqueue) - 1
        /\ \A i \in DOMAIN Tail(rcvqueue) : /\ i \in Int /\ i + 1 \in DOMAIN rcvqueue /\ i + 1 # 1
                                            /\ Tail(rcvqueue)[i] = rcvqueue[i + 1]
        /\ \A i \in DOMAIN rcvqueue : i # 1 =>
              i - 1 \in DOMAIN Tail(rcvqueue) /\ Tail(rcvqueue)[i - 1] = rcvqueue[i]
    BY <2>1, SMT
  <2>3. CASE UdpClose({})
    <3>1. client_addr' \in Senders /\ spc # "sendto"
      BY <2>1, <2>2
    <3> QED BY <2>1, <2>3, <3>1, CloseKeeps
  <2>4. CASE rcvqueue' = Tail(rcvqueue) /\ spc' = "sendto" /\ UNCHANGED vanished
    <3>1. Len(rcvqueue') <= RcvBuf
      BY <2>2, <2>4, UdpAssumption, SMT DEF UInv, UdpTypeOK
    <3>2. UdpTypeOK'  BY <2>1, <2>2, <2>4, <3>1 DEF UInv, UdpTypeOK
    <3>3. OneEachInv'
      <4> SUFFICES ASSUME NEW i \in DOMAIN rcvqueue', NEW j \in DOMAIN rcvqueue',
                          rcvqueue'[i].from = rcvqueue'[j].from, rcvqueue'[i].from # Stranger
                   PROVE  i = j
          BY DEF OneEachInv
      <4>1. i + 1 = j + 1 /\ i \in Int /\ j \in Int
        BY <2>2, <2>4 DEF UInv, OneEachInv
      <4> QED BY <4>1, SMT
    <3>4. ASSUME NEW k \in UdpClients PROVE Client(k)'
      <4>1. Client(k) /\ k # Stranger  BY UdpAssumption DEF UInv
      <4>2. BeingAnswered(k)' <=> k = h.from
        BY <2>1, <2>2, <2>4 DEF BeingAnswered
      <4>3. ~BeingAnswered(k)  BY <2>1 DEF BeingAnswered
      <4>4. InQueue(k)' <=> InQueue(k) /\ k # h.from
        <5>1. ASSUME InQueue(k)' PROVE InQueue(k) /\ k # h.from
          <6>1. PICK i \in DOMAIN rcvqueue' : rcvqueue'[i].from = k
            BY <5>1 DEF InQueue
          <6>2. i + 1 \in DOMAIN rcvqueue /\ i + 1 # 1 /\ rcvqueue[i + 1].from = k
            BY <2>2, <2>4, <6>1
          <6> QED BY <2>2, <4>1, <6>2 DEF InQueue, UInv, OneEachInv
        <5>2. ASSUME InQueue(k), k # h.from PROVE InQueue(k)'
          <6>1. PICK i \in DOMAIN rcvqueue : rcvqueue[i].from = k
            BY <5>2 DEF InQueue
          <6>2. i - 1 \in DOMAIN rcvqueue' /\ rcvqueue'[i - 1].from = k
            BY <2>2, <2>4, <5>2, <6>1
          <6> QED BY <6>2 DEF InQueue
        <5> QED BY <5>1, <5>2
      <4>5. k = h.from => InQueue(k)
        BY <2>2 DEF InQueue
      <4> QED BY <2>1, <2>4, <4>1, <4>2, <4>3, <4>4, <4>5 DEF Client, Idle, OneOfFour
    <3> QED BY <3>2, <3>3, <3>4 DEF UInv
  <2> QED BY <2>1, <2>3, <2>4
<1>3. CASE Sendto
  <2> DEFINE waits == {k \in UdpClients : k = client_addr /\ asker[k] = "wait"}
  <2>1. /\ spc = "sendto" /\ spc' = "recvfrom"
        /\ answers' = [k \in UdpClients |-> IF k \in waits THEN answers[k] + 1 ELSE answers[k]]
        /\ UNCHANGED <<rcvqueue, client_addr, asker, lines, vanished, starts, stray>>
    BY <1>3 DEF Sendto
  <2>2. answers' \in [UdpClients -> Nat]
    BY <2>1, SMT
  <2>3. UdpTypeOK'  BY <2>1, <2>2 DEF UInv, UdpTypeOK
  <2>4. ASSUME NEW k \in UdpClients PROVE Client(k)'
    <3>1. Client(k)  BY DEF UInv
    <3>2. /\ ~BeingAnswered(k)' /\ InQueue(k)' = InQueue(k)
          /\ BeingAnswered(k) <=> k = client_addr
          /\ answers'[k] = IF k = client_addr /\ asker[k] = "wait" THEN answers[k] + 1 ELSE answers[k]
      BY <2>1 DEF BeingAnswered, InQueue
    <3>3. 0 + 1 = 1  BY SMT
    <3> QED BY <2>1, <3>1, <3>2, <3>3 DEF Client, Idle, OneOfFour
  <2>5. OneEachInv'  BY <2>1 DEF UInv, OneEachInv
  <2> QED BY <2>3, <2>4, <2>5 DEF UInv
<1>4. CASE SendtoFails
  BY <1>4, CloseKeeps DEF SendtoFails, UInv, UdpTypeOK
<1> QED BY <1>1, <1>2, <1>3, <1>4 DEF udp_server

(* A datagram of somebody who has none in the buffer and awaits no answer is  *)
(* put there or vanishes.                                                     *)
LEMMA DeliverKeeps ==
    ASSUME UInv, NEW k \in Senders, NEW text \in {"line", "empty", "EOF"}, Deliver(k, text),
           UNCHANGED <<spc, client_addr, answers>>, k # Stranger => Idle(k) /\ k \notin vanished
    PROVE  /\ rcvqueue' \in Seq(Datagram) /\ Len(rcvqueue') <= RcvBuf
           /\ spc = "off" => rcvqueue' = <<>>
           /\ vanished' \in SUBSET Senders
           /\ OneEachInv'
           /\ \A c \in UdpClients : c # k => /\ InQueue(c)' = InQueue(c)
                                             /\ c \in vanished' <=> c \in vanished
           /\ k # Stranger => \/ InQueue(k)' /\ k \notin vanished'
                              \/ ~InQueue(k)' /\ k \in vanished'
<1> USE Known
<1> DEFINE x == [from |-> k, text |-> text]
<1>t. /\ Len(rcvqueue) <= RcvBuf /\ (spc = "off" => rcvqueue = <<>>)
      /\ RcvBuf \in Nat
  BY UdpAssumption DEF UInv, UdpTypeOK
<1>1. CASE vanished' = vanished \cup {k} /\ UNCHANGED rcvqueue
  BY <1>1, <1>t DEF UInv, OneEachInv, InQueue, Idle
<1>2. CASE /\ spc # "off" /\ Len(rcvqueue) # RcvBuf
           /\ rcvqueue' = Append(rcvqueue, x) /\ UNCHANGED vanished
  <2>1. x \in Datagram /\ x.from = k  BY DEF Datagram
  <2> HIDE DEF x
  <2>2. /\ rcvqueue' \in Seq(Datagram) /\ Len(rcvqueue') = Len(rcvqueue) + 1
        /\ DOMAIN rcvqueue' = 1 .. Len(rcvqueue) + 1
        /\ rcvqueue'[Len(rcvqueue) + 1] = x
        /\ \A i \in DOMAIN rcvqueue : rcvqueue'[i] = rcvqueue[i]
    BY <1>2, <2>1, SMT
  <2>3. Len(rcvqueue') <= RcvBuf
    <3>1. Len(rcvqueue) \in Nat
      BY DEF UInv, UdpTypeOK
    <3>2. Len(rcvqueue) # RcvBuf /\ Len(rcvqueue) <= RcvBuf /\ Len(rcvqueue') = Len(rcvqueue) + 1
      BY <1>t, <1>2, <2>2
    <3>3. \A m, n, b \in Nat : m # b /\ m <= b /\ n = m + 1 => n <= b
      OBVIOUS
    <3>4. Len(rcvqueue') \in Nat
      BY <3>1, <3>2
    <3> QED BY <3>1, <3>2, <3>3, <3>4, <1>t, Zenon
  <2>4. \A i \in DOMAIN rcvqueue' : i \in DOMAIN rcvqueue \/ (i = Len(rcvqueue) + 1 /\ rcvqueue'[i].from = k)
    BY <2>1, <2>2, SMT
  <2>5. DOMAIN rcvqueue \subseteq DOMAIN rcvqueue' /\ Len(rcvqueue) + 1 \in DOMAIN rcvqueue'
    BY <2>2, SMT
  <2>6. k # Stranger => \A i \in DOMAIN rcvqueue : rcvqueue[i].from # k
    BY DEF Idle, InQueue
  <2>7. OneEachInv'
    BY <2>2, <2>4, <2>6 DEF UInv, OneEachInv
  <2>8. \A c \in UdpClients : c # k => InQueue(c)' = InQueue(c)
    BY <2>2, <2>4, <2>5 DEF InQueue
  <2>9. InQueue(k)'
    BY <2>1, <2>2, <2>5 DEF InQueue
  <2> QED BY <1>2, <2>2, <2>3, <2>7, <2>8, <2>9
<1> QED BY <1>1, <1>2 DEF Deliver

(* The clients and the stranger.                                              *)
LEMMA AskerKeeps ==
    ASSUME UInv, NEW k \in UdpClients,
           SendtoServer(k) \/ QuitClient(k) \/ RecvfromServer(k) \/ InterruptClient(k)
    PROVE  UInv'
<1> USE Known
<1>k. Client(k) /\ k \in Senders /\ k # Stranger
  BY UdpAssumption DEF UInv, Senders
<1>o. ASSUME NEW c \in UdpClients, c # k, asker'[c] = asker[c], answers'[c] = answers[c],
             UNCHANGED <<spc, client_addr>>, InQueue(c)' = InQueue(c), c \in vanished' <=> c \in vanished
      PROVE  Client(c)'
  BY <1>o DEF UInv, Client, Idle, OneOfFour, BeingAnswered
<1>1. CASE SendtoServer(k)
  <2>1. /\ asker[k] = "input" /\ lines[k] < MaxLines /\ lines' = [lines EXCEPT ![k] = @ + 1]
        /\ asker' = [asker EXCEPT ![k] = "wait"]
        /\ UNCHANGED <<spc, client_addr, answers, starts, stray>>
    BY <1>1 DEF SendtoServer
  <2>2. PICK text \in {"line", "empty"} : Deliver(k, text)
    BY <1>1 DEF SendtoServer
  <2>3. Idle(k) /\ k \notin vanished
    BY <1>k, <2>1 DEF Client
  <2>4. text \in {"line", "empty", "EOF"}
    OBVIOUS
  <2>5. /\ rcvqueue' \in Seq(Datagram) /\ Len(rcvqueue') <= RcvBuf
        /\ spc = "off" => rcvqueue' = <<>>
        /\ vanished' \in SUBSET Senders
        /\ OneEachInv'
        /\ \A c \in UdpClients : c # k => /\ InQueue(c)' = InQueue(c)
                                          /\ c \in vanished' <=> c \in vanished
        /\ \/ InQueue(k)' /\ k \notin vanished'
           \/ ~InQueue(k)' /\ k \in vanished'
    BY <1>k, <2>1, <2>2, <2>3, <2>4, DeliverKeeps
  <2>6. lines' \in [UdpClients -> 0 .. MaxLines]
    <3>1. lines \in [UdpClients -> 0 .. MaxLines]  BY DEF UInv, UdpTypeOK
    <3>2. lines[k] + 1 \in 0 .. MaxLines  BY <2>1, <3>1, UdpAssumption, SMT
    <3> QED BY <2>1, <3>1, <3>2
  <2>7. UdpTypeOK'
    BY <2>1, <2>5, <2>6 DEF UInv, UdpTypeOK
  <2>8. Client(k)'
    BY <2>1, <2>3, <2>5 DEF Client, OneOfFour, Idle, BeingAnswered
  <2>9. \A c \in UdpClients : c # k => Client(c)'
    BY <1>o, <2>1, <2>5
  <2> QED BY <2>5, <2>7, <2>8, <2>9 DEF UInv
<1>2. CASE QuitClient(k) \/ RecvfromServer(k) \/ InterruptClient(k)
  <2>1. /\ UNCHANGED <<spc, rcvqueue, client_addr, lines, vanished, starts, stray>>
        /\ asker' \in {[asker EXCEPT ![k] = "over"], [asker EXCEPT ![k] = "input"]}
        /\ \A c \in UdpClients : c # k => answers'[c] = answers[c]
        /\ asker'[k] = "over" \/ (asker[k] = "wait" /\ answers[k] > 0 /\ answers'[k] = answers[k] - 1)
        /\ answers' \in [UdpClients -> Nat]
    BY <1>2, SMT DEF QuitClient, RecvfromServer, InterruptClient
  <2>2. UdpTypeOK'
    BY <2>1 DEF UInv, UdpTypeOK
  <2>3. OneEachInv' /\ \A c \in UdpClients : InQueue(c)' = InQueue(c)
    BY <2>1 DEF UInv, OneEachInv, InQueue
  <2>4. Client(k)'
    <3>1. CASE asker'[k] = "over"  BY <3>1 DEF Client
    <3>2. CASE asker[k] = "wait" /\ answers[k] > 0 /\ answers'[k] = answers[k] - 1
      <4>1. ~(0 > 0) /\ 1 - 1 = 0  BY SMT
      <4>2. k \notin vanished /\ ~InQueue(k) /\ ~BeingAnswered(k) /\ answers[k] = 1
        BY <1>k, <3>2, <4>1 DEF Client, OneOfFour, Idle
      <4>3. asker'[k] # "wait"  BY <2>1
      <4> QED BY <2>1, <2>3, <3>2, <4>1, <4>2, <4>3 DEF Client, Idle, BeingAnswered
    <3> QED BY <2>1, <3>1, <3>2
  <2>5. \A c \in UdpClients : c # k => Client(c)'
    BY <1>o, <2>1, <2>3
  <2> QED BY <2>2, <2>3, <2>4, <2>5 DEF UInv
<1> QED BY <1>1, <1>2

(* A stranger's datagram changes nothing for the clients.                     *)
LEMMA StrangerKeeps == ASSUME UInv, StrangerSends PROVE UInv'
<1> USE Known
<1>1. /\ stray < MaxStray /\ stray' = stray + 1
      /\ UNCHANGED <<spc, client_addr, asker, answers, lines, starts>>
  BY DEF StrangerSends
<1>2. PICK text \in {"line", "empty", "EOF"} : Deliver(Stranger, text)
  BY DEF StrangerSends
<1>3. Stranger \in Senders  BY DEF Senders
<1>4. /\ rcvqueue' \in Seq(Datagram) /\ Len(rcvqueue') <= RcvBuf
      /\ spc = "off" => rcvqueue' = <<>>
      /\ vanished' \in SUBSET Senders
      /\ OneEachInv'
      /\ \A c \in UdpClients : c # Stranger => /\ InQueue(c)' = InQueue(c)
                                               /\ c \in vanished' <=> c \in vanished
  BY <1>1, <1>2, <1>3, DeliverKeeps
<1>5. stray' \in 0 .. MaxStray
  BY <1>1, UdpAssumption, SMT DEF UInv, UdpTypeOK
<1>6. UdpTypeOK'  BY <1>1, <1>4, <1>5 DEF UInv, UdpTypeOK
<1>7. ASSUME NEW c \in UdpClients PROVE Client(c)'
  <2>1. c # Stranger  BY UdpAssumption
  <2> QED BY <1>1, <1>4, <2>1 DEF UInv, Client, Idle, OneOfFour, BeingAnswered
<1> QED BY <1>4, <1>6, <1>7 DEF UInv

(* Every step of the UDP pair keeps its invariant.                            *)
LEMMA UdpStepKeeps == UInv /\ [UdpNext]_uvars => UInv'
<1> SUFFICES ASSUME UInv, [UdpNext]_uvars PROVE UInv'
    OBVIOUS
<1>1. CASE UNCHANGED uvars
  BY <1>1 DEF uvars, UInv, UdpTypeOK, OneEachInv, Client, Idle, OneOfFour, InQueue, BeingAnswered
<1> QED BY <1>1, ServerKeeps, AskerKeeps, StrangerKeeps DEF UdpNext

(* A client in one of the four situations is in step with its answers.        *)
LEMMA InStepFollows == UInv => InStep
<1> SUFFICES ASSUME UInv, NEW k \in UdpClients
             PROVE  /\ asker[k] = "input" =>
                          Queued(k) = {} /\ ~BeingAnswered(k) /\ answers[k] = 0 /\ k \notin vanished
                    /\ asker[k] = "wait" =>
                          \/ k \in vanished /\ Queued(k) = {} /\ ~BeingAnswered(k) /\ answers[k] = 0
                          \/ k \notin vanished /\ Cardinality(Queued(k)) = 1 /\ ~BeingAnswered(k) /\ answers[k] = 0
                          \/ k \notin vanished /\ Queued(k) = {} /\ BeingAnswered(k) /\ answers[k] = 0
                          \/ k \notin vanished /\ Queued(k) = {} /\ ~BeingAnswered(k) /\ answers[k] = 1
    BY DEF InStep
<1>1. Client(k) /\ k # Stranger  BY UdpAssumption DEF UInv
<1>2. ~InQueue(k) => Queued(k) = {}
  BY DEF InQueue, Queued
<1>3. InQueue(k) => Cardinality(Queued(k)) = 1
  <2> SUFFICES ASSUME InQueue(k) PROVE Cardinality(Queued(k)) = 1
      OBVIOUS
  <2>1. PICK i \in DOMAIN rcvqueue : rcvqueue[i].from = k
    BY DEF InQueue
  <2>2. Queued(k) = {i}
    BY <1>1, <2>1 DEF Queued, UInv, OneEachInv
  <2> QED BY <2>2, FS_Singleton
<1> QED BY <1>1, <1>2, <1>3 DEF Client, Idle, OneOfFour

(* For any number of clients, any buffer and any number of restarts: request  *)
(* and answer of a client are never out of step.                              *)
THEOREM UdpInStep == UdpSpec => []InStep
BY UdpStarts, UdpStepKeeps, InStepFollows, PTL DEF UdpSpec

-----------------------------------------------------------------------------
(* Two readers of one input, SharedInput, and the scripts of Cancel.          *)

(* The buffers hold something.                                                *)
LEMMA SharedStarts == SharedInit => SharedTypeOK
BY DEF SharedInit, SharedTypeOK, Lines, Nothing

(* A line, or what the buffer held before it, is a line.                      *)
LEMMA SharedKeeps == SharedTypeOK /\ [SharedNext]_sivars => SharedTypeOK'
<1> SUFFICES ASSUME SharedTypeOK, [SharedNext]_sivars PROVE SharedTypeOK'
    OBVIOUS
<1> USE DEF SharedTypeOK
<1>1. CASE Type  BY <1>1 DEF Type
<1>2. CASE JoinRoses  BY <1>2 DEF JoinRoses
<1>3. ASSUME NEW t \in Roses, FgetsLine(t) PROVE SharedTypeOK'
  <2>1. ans' \in [Roses -> Lines]
    <3>1. CASE terminal # Nothing /\ ans' = [ans EXCEPT ![t] = terminal]
      <4>1. terminal \in Lines  BY <3>1
      <4> QED BY <3>1, <4>1
    <3>2. CASE ans' = ans  BY <3>2
    <3> QED BY <1>3, <3>1, <3>2 DEF FgetsLine
  <2> QED BY <1>3, <2>1 DEF FgetsLine
<1>4. ASSUME NEW t \in Roses, Test(t) PROVE SharedTypeOK'
  BY <1>4 DEF Test
<1>5. CASE UNCHANGED sivars  BY <1>5 DEF sivars
<1> QED BY <1>1, <1>2, <1>3, <1>4, <1>5 DEF SharedNext

(* Every script starts with a printf, so a loop has a statement to go back    *)
(* to.                                                                        *)
LEMMA Scripts ==
    ASSUME NEW s \in DOMAIN thread_func
    PROVE  /\ Len(thread_func[s]) \in Nat \ {0}
           /\ thread_func[s][1] = "printf"
           /\ Len(main_func[s]) \in Nat \ {0}
<1>1. CASE s = "async"     BY <1>1, SMT DEF thread_func, main_func
<1>2. CASE s = "deferred"  BY <1>2, SMT DEF thread_func, main_func
<1>3. CASE s = "disable"   BY <1>3, SMT DEF thread_func, main_func
<1>4. CASE s = "exit"      BY <1>4, SMT DEF thread_func, main_func
<1>5. CASE s = "detach"    BY <1>5, SMT DEF thread_func, main_func
<1> QED BY <1>1, <1>2, <1>3, <1>4, <1>5 DEF thread_func

(* Every script has a first statement.                                        *)
LEMMA CancelStarts == CancelInit => CancelTypeOK
<1> SUFFICES ASSUME CancelInit PROVE CancelTypeOK
    OBVIOUS
<1>1. /\ Len(thread_func[script]) \in Nat \ {0} /\ Len(main_func[script]) \in Nat \ {0}
  BY Scripts DEF CancelInit
<1>2. tpc \in 0 .. Len(thread_func[script]) /\ cmain \in 1 .. MainOver
  BY <1>1, SMT DEF CancelInit, MainOver
<1> QED BY <1>2 DEF CancelInit, CancelTypeOK

(* The two programs stay within their scripts, and who is inside printf holds *)
(* stdout.                                                                    *)
LEMMA CancelKeeps == CancelTypeOK /\ [CancelNext]_cavars => CancelTypeOK'
<1> SUFFICES ASSUME CancelTypeOK, [CancelNext]_cavars PROVE CancelTypeOK'
    OBVIOUS
<1> DEFINE n == Len(thread_func[script])
           m == Len(main_func[script])
<1>a. /\ script \in DOMAIN thread_func /\ n \in Nat \ {0} /\ m \in Nat \ {0}
      /\ tpc \in 0 .. n /\ cmain \in 1 .. m + 1
      /\ thread_func[script][1] = "printf"
  BY Scripts DEF CancelTypeOK, MainOver
<1>b. ASSUME NextStmt, tpc # 0
      PROVE  tpc' \in 0 .. n /\ tres' \in {"none", "null", "canceled"}
  <2>1. CASE tpc = n /\ tpc' = 0 /\ tres' = "null"  BY <1>a, <2>1, SMT
  <2>2. CASE tpc # n /\ tpc' = tpc + 1 /\ tres' = tres
    BY <1>a, <1>b, <2>2, SMT DEF CancelTypeOK
  <2> QED BY <1>b, <2>1, <2>2 DEF NextStmt, ThreadOver
<1>c. ASSUME NEW p, NEW c, p \in 0 .. n, c \in 1 .. m + 1, script' = script, tpc' = p, cmain' = c
      PROVE  /\ script' \in DOMAIN thread_func
             /\ tpc' \in 0 .. Len(thread_func[script'])
             /\ cmain' \in 1 .. (MainOver)'
  BY <1>a, <1>c DEF MainOver
<1> USE DEF CancelTypeOK, Running, At, ThreadOver
<1>1. CASE PrintfLocks  BY <1>1, <1>a, <1>c DEF PrintfLocks
<1>2. CASE PrintfReturns  BY <1>2, <1>a, <1>b, <1>c DEF PrintfReturns
<1>3. CASE Loop
  <2>1. tpc - 1 \in 0 .. n
    <3>1. tpc # 0  BY <1>3 DEF Loop
    <3> QED BY <3>1, <1>a, SMT
  <2> QED BY <1>3, <2>1, <1>a, <1>c DEF Loop
<1>4. CASE SetCancel
  <2>1. (enabled /\ ~At("setoff")) \in BOOLEAN  OBVIOUS
  <2> QED BY <1>4, <2>1, <1>a, <1>b, <1>c DEF SetCancel
<1>5. CASE PassPoint  BY <1>5, <1>a, <1>b, <1>c DEF PassPoint
<1>z. 0 \in 0 .. n  BY <1>a, SMT
<1>6. CASE CancelAtPoint  BY <1>6, <1>a, <1>c, <1>z DEF CancelAtPoint
<1>7. CASE CancelAnywhere  BY <1>7, <1>a, <1>c, <1>z DEF CancelAnywhere
<1>8. CASE cancel_main
  <2>1. UNCHANGED <<script, tpc, inside, ctype, enabled, lock, tres>>
    BY <1>8 DEF cancel_main, PthreadCancel, PthreadJoin, MainPrintf, MainSleep
  <2>2. pending' \in BOOLEAN
    BY <1>8 DEF cancel_main, PthreadCancel, PthreadJoin, MainPrintf, MainSleep
  <2>3. cmain # m + 1 /\ (cmain' = cmain + 1 \/ cmain' = m + 1)
    BY <1>8 DEF cancel_main, PthreadCancel, PthreadJoin, MainPrintf, MainSleep, MainAt, MainOver
  <2>4. cmain' \in 1 .. m + 1  BY <1>a, <2>3, SMT
  <2> QED BY <1>a, <1>c, <2>1, <2>2, <2>4
<1>9. CASE UNCHANGED cavars  BY <1>9, <1>a, <1>c DEF cavars
<1> QED BY <1>1, <1>2, <1>3, <1>4, <1>5, <1>6, <1>7, <1>8, <1>9 DEF CancelNext, cancel_thread

(* What a cancellation leaves behind.                                         *)
CancelInv ==
    /\ ctype = "async" => script = "async"
    /\ tpc # ThreadOver => tres = "none"
    /\ inside <=> lock = "thread"
    /\ inside => tpc # ThreadOver /\ thread_func[script][tpc] = "printf"
    /\ tres = "canceled" => pending /\ enabled
    /\ lock = "lost" => tres = "canceled" /\ ctype = "async"

(* Only a thread that asked for asynchronous cancellation can take stdout     *)
(* with it; and nobody is cancelled who has not been asked to go or has       *)
(* disabled it.                                                               *)
CancelTells ==
    /\ lock = "lost" => script = "async" /\ tres = "canceled"
    /\ tres = "canceled" => pending /\ enabled
    /\ tpc = ThreadOver => lock # "thread"

(* The scripts in which the type is set.                                      *)
LEMMA SetsAsync ==
    ASSUME CancelTypeOK, At("setasync")
    PROVE  script = "async"
<1>1. script \in DOMAIN thread_func /\ tpc \in 1 .. Len(thread_func[script])
      /\ thread_func[script][tpc] = "setasync"
  BY Scripts, SMT DEF CancelTypeOK, At, Running, ThreadOver
<1>2. CASE script = "deferred"  BY <1>1, <1>2, SMT DEF thread_func
<1>3. CASE script = "disable"   BY <1>1, <1>3, SMT DEF thread_func
<1>4. CASE script = "exit"      BY <1>1, <1>4, SMT DEF thread_func
<1>5. CASE script = "detach"    BY <1>1, <1>5, SMT DEF thread_func
<1> QED BY <1>1, <1>2, <1>3, <1>4, <1>5 DEF thread_func

(* A cancellation in printf gives stdout back if it is a deferred one.        *)
LEMMA CancelInvKept == CancelTypeOK /\ CancelInv /\ [CancelNext]_cavars => CancelInv'
<1> SUFFICES ASSUME CancelTypeOK, CancelInv, [CancelNext]_cavars PROVE CancelInv'
    OBVIOUS
<1>0. /\ inside \in BOOLEAN /\ enabled \in BOOLEAN /\ pending \in BOOLEAN
      /\ lock \in {"free", "thread", "lost"} /\ tpc \in Nat
  <2>1. tpc \in Nat  BY Scripts, SMT DEF CancelTypeOK
  <2> QED BY <2>1 DEF CancelTypeOK
<1> USE DEF CancelInv, ThreadOver
<1>1. CASE PrintfLocks
  BY <1>0, <1>1 DEF PrintfLocks, At, Running
<1>n. ASSUME NextStmt, tpc # 0 PROVE /\ tpc' # 0 => tres' = "none"
                                    /\ tres' # "canceled"
  BY <1>0, <1>n DEF NextStmt
<1>2. CASE PrintfReturns
  BY <1>0, <1>2, <1>n DEF PrintfReturns, At, Running
<1>3. CASE Loop
  BY <1>0, <1>3 DEF Loop, At, Running
<1>4. CASE SetCancel
  <2>1. lock # "lost" /\ tres = "none" /\ ~inside
    BY <1>4 DEF SetCancel, At, Running
  <2>2. ctype' = "async" => script = "async"
    BY <1>4, SetsAsync DEF SetCancel
  <2> QED BY <1>0, <1>4, <1>n, <2>1, <2>2 DEF SetCancel, At, Running
<1>5. CASE PassPoint
  BY <1>0, <1>5, <1>n DEF PassPoint, At, Running
<1>6. CASE CancelAtPoint
  BY <1>0, <1>6 DEF CancelAtPoint, CancelDue, At, Running
<1>7. CASE CancelAnywhere
  BY <1>0, <1>7 DEF CancelAnywhere, CancelDue, Running
<1>8. CASE cancel_main
  BY <1>0, <1>8 DEF cancel_main, PthreadCancel, PthreadJoin, MainPrintf, MainSleep
<1>9. CASE UNCHANGED cavars
  BY <1>9 DEF cavars
<1> QED BY <1>1, <1>2, <1>3, <1>4, <1>5, <1>6, <1>7, <1>8, <1>9 DEF CancelNext, cancel_thread

(* In all five programs only an asynchronous cancellation leaves stdout       *)
(* locked, and a thread that has disabled cancellation is not cancelled.      *)
THEOREM CancelSafe == CancelSpec => []CancelTells
<1>1. CancelInit => CancelTypeOK /\ CancelInv
  BY CancelStarts DEF CancelInit, CancelInv, ThreadOver
<1>2. (CancelTypeOK /\ CancelInv) /\ [CancelNext]_cavars => (CancelTypeOK /\ CancelInv)'
  BY CancelKeeps, CancelInvKept
<1>3. CancelTypeOK /\ CancelInv => CancelTells
  BY DEF CancelInv, CancelTells
<1> QED BY <1>1, <1>2, <1>3, PTL DEF CancelSpec

-----------------------------------------------------------------------------
(* The conversation of ChatPair.                                              *)

(* What one end says is with the other, on the wire, or lost.                 *)
Account(e) == heard[Peer(e)] + wire[e] <= said[e]

CTypes ==
    /\ life \in [Ends -> {"off", "listen", "open", "done", "failed"}]
    /\ life["client"] # "listen"
    /\ speaker \in [Ends -> {"none", "run", "done"}]
    /\ hearer \in [Ends -> {"none", "run", "done"}]
    /\ said \in [Ends -> 0 .. MaxSaid]
    /\ heard \in [Ends -> Nat]
    /\ wire \in [Ends -> Nat]
    /\ shut \in [Ends -> BOOLEAN]
    /\ rst \in BOOLEAN /\ killed \in BOOLEAN
    /\ \A e \in Ends : Account(e)

(* While nobody interrupts, one end's steps follow the other's: it has shut   *)
(* its direction only after its last line, heard the end only with all lines  *)
(* before it, and closed only after that.                                     *)
Orderly(e) ==
    /\ shut[e] => speaker[e] = "done"
    /\ hearer[e] = "done" => shut[Peer(e)] /\ wire[Peer(e)] = 0
    /\ life[e] = "done" => hearer[e] = "done"
    /\ life[e] = "failed" => e = "client" /\ speaker["client"] = "none" /\ speaker["server"] = "none"
    /\ life[e] \in {"off", "listen"} => speaker[e] = "none"
    /\ heard[Peer(e)] + wire[e] = said[e]

CInv ==
    /\ CTypes
    /\ ~killed => ~rst /\ \A e \in Ends : Orderly(e)

(* There are two ends.                                                        *)
LEMMA Opposite ==
    ASSUME NEW e \in Ends
    PROVE  Peer(e) \in Ends /\ Peer(e) # e /\ Peer(Peer(e)) = e /\ Ends = {e, Peer(e)}
BY DEF Ends, Peer

(* Before the connection.                                                     *)
LEMMA ChatStarts == ChatInit => CInv
<1> SUFFICES ASSUME ChatInit PROVE CInv
    OBVIOUS
<1>1. CTypes
  <2>1. \A e \in Ends : Account(e)  BY Opposite, SMT DEF ChatInit, Account
  <2>2. 0 \in 0 .. MaxSaid  BY ChatAssumption, SMT
  <2> QED BY <2>1, <2>2 DEF ChatInit, CTypes, Ends
<1>2. ASSUME NEW e \in Ends PROVE Orderly(e)
  <2>1. heard[Peer(e)] + wire[e] = said[e]  BY Opposite, SMT DEF ChatInit
  <2> QED BY <2>1 DEF ChatInit, Orderly, Ends
<1> QED BY <1>1, <1>2 DEF CInv, ChatInit

(* Going leaves the three counts alone.                                       *)
LEMMA GoneTypes ==
    ASSUME CTypes, NEW e \in Ends, NEW how \in {"done", "failed"}, Gone(e, how),
           UNCHANGED <<said, heard, wire, killed>>
    PROVE  CTypes'
<1>1. rst' \in BOOLEAN
  <2>1. (rst \/ wire[Peer(e)] > 0) \in BOOLEAN  OBVIOUS
  <2> QED BY <2>1 DEF Gone
<1>2. \A d \in Ends : Account(d)'
  BY DEF CTypes, Account
<1> QED BY <1>1, <1>2 DEF CTypes, Gone, Ends

(* Every step of the conversation keeps the types and the account.            *)
LEMMA ChatTypes == ASSUME CTypes, ChatNext PROVE CTypes'
<1>1. CASE Listen \/ ConnectToServer \/ ConnectRefusedByServer \/ AcceptClient
  <2>1. /\ UNCHANGED <<said, heard, wire, shut, rst, killed>>
        /\ life' \in [Ends -> {"off", "listen", "open", "done", "failed"}]
        /\ life'["client"] # "listen"
        /\ speaker' \in [Ends -> {"none", "run", "done"}]
        /\ hearer' \in [Ends -> {"none", "run", "done"}]
    BY <1>1 DEF Listen, ConnectToServer, ConnectRefusedByServer, AcceptClient, BothThreads, CTypes, Ends
  <2> QED BY <2>1 DEF CTypes, Account
<1>2. ASSUME NEW e \in Ends, CloseBoth(e) PROVE CTypes'
  BY <1>2, GoneTypes DEF CloseBoth
<1>3. ASSUME NEW e \in Ends, KillEnd(e) PROVE CTypes'
  <2>1. (rst \/ wire[Peer(e)] > 0 \/ (life[e] = "listen" /\ life["client"] = "open")) \in BOOLEAN
    OBVIOUS
  <2>2. rst' \in BOOLEAN  BY <1>3, <2>1 DEF KillEnd
  <2>3. \A d \in Ends : Account(d)'  BY <1>3 DEF KillEnd, CTypes, Account
  <2> QED BY <1>3, <2>2, <2>3 DEF KillEnd, CTypes, Ends
<1>4. ASSUME NEW e \in Ends, Speak(e) PROVE CTypes'
  <2>1. CASE Gone(e, "failed") /\ UNCHANGED <<said, wire, heard, killed>>
    BY <2>1, GoneTypes
  <2>2. CASE ~rst
    <3>1. /\ UNCHANGED <<life, speaker, hearer, shut, heard, killed>>
          /\ said' = [said EXCEPT ![e] = @ + 1] /\ said[e] < MaxSaid
          /\ rst' \in BOOLEAN
          /\ wire' = wire \/ wire' = [wire EXCEPT ![e] = @ + 1]
      BY <1>4, <2>2 DEF Speak, CTypes
    <3>2. said' \in [Ends -> 0 .. MaxSaid] /\ wire' \in [Ends -> Nat]
      BY <3>1, ChatAssumption, SMT DEF CTypes
    <3>3. \A d \in Ends : Account(d)'
      BY <3>1, Opposite, SMT DEF CTypes, Account
    <3> QED BY <3>1, <3>2, <3>3 DEF CTypes
  <2> QED BY <1>4, <2>1, <2>2 DEF Speak
<1>5. ASSUME NEW e \in Ends, Hush(e) PROVE CTypes'
  BY <1>5 DEF Hush, CTypes, Account
<1>6. ASSUME NEW e \in Ends, Hear(e) PROVE CTypes'
  <2>1. ASSUME NEW k \in 1 .. wire[Peer(e)],
               heard' = [heard EXCEPT ![e] = @ + k],
               wire' = [wire EXCEPT ![Peer(e)] = @ - k],
               UNCHANGED <<life, speaker, hearer, shut, rst, said, killed>>
        PROVE  CTypes'
    <3>1. heard' \in [Ends -> Nat] /\ wire' \in [Ends -> Nat]
      BY <2>1, Opposite, SMT DEF CTypes
    <3>2. \A d \in Ends : Account(d)'
      BY <2>1, Opposite, SMT DEF CTypes, Account
    <3> QED BY <2>1, <3>1, <3>2 DEF CTypes
  <2>2. CASE /\ hearer' = [hearer EXCEPT ![e] = "done"]
             /\ UNCHANGED <<life, speaker, heard, wire, shut, rst, said, killed>>
    BY <2>2 DEF CTypes, Account
  <2>3. CASE Gone(e, "failed") /\ UNCHANGED <<said, wire, heard, killed>>
    BY <2>3, GoneTypes
  <2> QED BY <1>6, <2>1, <2>2, <2>3 DEF Hear
<1> QED BY <1>1, <1>2, <1>3, <1>4, <1>5, <1>6 DEF ChatNext, write_to_server, write_to_client,
           read_from_server, read_from_client, Ends

(* Without an interrupt nobody speaks to an end that has gone.                *)
LEMMA ChatKeeps == CInv /\ [ChatNext]_chvars => CInv'
<1> SUFFICES ASSUME CInv, [ChatNext]_chvars PROVE CInv'
    OBVIOUS
<1>0. CASE UNCHANGED chvars
  BY <1>0 DEF chvars, CInv, CTypes, Account, Orderly
<1>00. CASE ChatNext
  <2>0. CTypes /\ CTypes'  BY <1>00, ChatTypes DEF CInv
  <2> SUFFICES ASSUME ~killed' PROVE ~rst' /\ \A e \in Ends : Orderly(e)'
      BY <2>0 DEF CInv
  <2>a. ~killed
    BY <1>00 DEF ChatNext, Listen, ConnectToServer, ConnectRefusedByServer, AcceptClient,
        CloseBoth, KillEnd, write_to_server, write_to_client, read_from_server, read_from_client,
        Speak, Hush, Hear, CInv, CTypes
  <2>b. ~rst /\ \A e \in Ends : Orderly(e)
    BY <2>a DEF CInv
  <2> USE <2>0
  <2>c. "client" \in Ends /\ "server" \in Ends /\ Peer("client") = "server" /\ Peer("server") = "client"
    BY DEF Ends, Peer
  <2>1. CASE Listen \/ ConnectToServer \/ ConnectRefusedByServer \/ AcceptClient
    <3>1. UNCHANGED <<said, heard, wire, shut, rst, killed>>
      BY <2>1 DEF Listen, ConnectToServer, ConnectRefusedByServer, AcceptClient
    <3>2. ASSUME NEW e \in Ends PROVE Orderly(e)'
      <4>1. heard'[Peer(e)] + wire'[e] = said'[e]  BY <2>b, <3>1 DEF Orderly
      <4>2. Orderly(e) /\ Orderly("client") /\ Orderly("server")  BY <2>b DEF Ends
      <4>3. CASE Listen
        BY <4>1, <4>2, <4>3 DEF Listen, Orderly, CTypes, Ends
      <4>4. CASE ConnectToServer
        <5>1. life["server"] = "listen"  BY <4>4 DEF ConnectToServer
        <5>2. CASE e = "client"
          BY <4>1, <4>2, <4>4, <5>2 DEF ConnectToServer, BothThreads, Orderly, CTypes, Ends
        <5>3. CASE e = "server"
          BY <4>1, <4>2, <4>4, <5>1, <5>3 DEF ConnectToServer, BothThreads, Orderly, CTypes, Ends
        <5> QED BY <5>2, <5>3 DEF Ends
      <4>5. CASE ConnectRefusedByServer
        <5>1. speaker["client"] = "none"  BY <4>2, <4>5 DEF ConnectRefusedByServer, Orderly
        <5>2. ~shut["client"]  BY <4>2, <5>1 DEF Orderly
        <5>3. hearer["server"] # "done"  BY <2>c, <4>2, <5>2 DEF Orderly
        <5>4. life["server"] # "done" /\ life["server"] # "failed"  BY <4>2, <5>3 DEF Orderly
        <5>5. life["server"] = "off"
          BY <2>c, <4>5, <5>4 DEF ConnectRefusedByServer, CTypes
        <5>6. speaker["server"] = "none"  BY <4>2, <5>5 DEF Orderly
        <5>7. /\ life' = [life EXCEPT !["client"] = "failed"]
              /\ UNCHANGED <<speaker, hearer>>
          BY <4>5 DEF ConnectRefusedByServer
        <5>8. hearer["client"] # "done"
          BY <2>c, <4>2, <5>6 DEF Orderly
        <5> QED BY <2>c, <3>1, <4>1, <4>2, <5>1, <5>6, <5>7, <5>8 DEF Orderly, CTypes
      <4>6. CASE AcceptClient
        <5>2. CASE e = "client"
          BY <4>1, <4>2, <4>6, <5>2 DEF AcceptClient, BothThreads, Orderly, CTypes, Ends
        <5>3. CASE e = "server"
          BY <4>1, <4>2, <4>6, <5>3 DEF AcceptClient, BothThreads, Orderly, CTypes, Ends
        <5> QED BY <5>2, <5>3 DEF Ends
      <4> QED BY <2>1, <4>3, <4>4, <4>5, <4>6
    <3> QED BY <2>b, <3>1, <3>2
  <2>2. ASSUME NEW e \in Ends, CloseBoth(e) PROVE ~rst' /\ \A d \in Ends : Orderly(d)'
    <3>1. wire[Peer(e)] = 0 /\ ~(0 > 0)  BY <2>2, <2>b, SMT DEF CloseBoth, Orderly
    <3>2. ~rst'  BY <2>2, <2>b, <3>1 DEF CloseBoth, Gone
    <3>3. ASSUME NEW d \in Ends PROVE Orderly(d)'
      <4>1. heard'[Peer(d)] + wire'[d] = said'[d]  BY <2>b, <2>2 DEF Orderly, CloseBoth
      <4> QED BY <2>2, <2>b, <2>c, <4>1, Opposite DEF CloseBoth, Gone, Orderly, CTypes
    <3> QED BY <3>2, <3>3
  <2>3. ASSUME NEW e \in Ends, KillEnd(e) PROVE FALSE
    BY <2>3 DEF KillEnd
  <2>4. ASSUME NEW e \in Ends, Speak(e) PROVE ~rst' /\ \A d \in Ends : Orderly(d)'
    <3>1. ~Over(Peer(e))
      BY <2>4, <2>b, <2>c, Opposite DEF Speak, Over, Orderly, Ends
    <3>2. /\ UNCHANGED <<life, speaker, hearer, shut, rst, heard, killed>>
          /\ said' = [said EXCEPT ![e] = @ + 1] /\ wire' = [wire EXCEPT ![e] = @ + 1]
      BY <2>4, <2>b, <3>1 DEF Speak
    <3>3. ASSUME NEW d \in Ends PROVE Orderly(d)'
      <4>1. heard'[Peer(d)] + wire'[d] = said'[d]
        <5>1. Peer(d) \in Ends /\ heard' = heard /\ heard[Peer(d)] + wire[d] = said[d]
          BY <2>b, <3>2, Opposite DEF Orderly
        <5>2. heard[Peer(d)] \in Nat  BY <5>1 DEF CTypes
        <5> QED BY <3>2, <5>1, <5>2, SMT DEF CTypes
      <4>2. hearer'[d] = "done" => shut'[Peer(d)] /\ wire'[Peer(d)] = 0
        <5>1. CASE d = e  BY <2>b, <3>2, <5>1, Opposite DEF Orderly, CTypes
        <5>2. CASE d # e
          <6>1. Peer(d) = e  BY <5>2, Opposite DEF Ends, Peer
          <6> QED BY <2>b, <2>4, <3>2, <6>1 DEF Orderly, Speak
        <5> QED BY <5>1, <5>2
      <4> QED BY <2>b, <3>2, <4>1, <4>2 DEF Orderly
    <3> QED BY <2>b, <3>2, <3>3
  <2>5. ASSUME NEW e \in Ends, Hush(e) PROVE ~rst' /\ \A d \in Ends : Orderly(d)'
    <3>3. ASSUME NEW d \in Ends PROVE Orderly(d)'
      <4>1. heard'[Peer(d)] + wire'[d] = said'[d]  BY <2>b, <2>5 DEF Orderly, Hush
      <4>2. Peer(d) \in Ends  BY Opposite
      <4> QED BY <2>5, <2>b, <4>1, <4>2 DEF Hush, Orderly, CTypes, Ends
    <3> QED BY <2>5, <2>b, <3>3 DEF Hush
  <2>6. ASSUME NEW e \in Ends, Hear(e) PROVE ~rst' /\ \A d \in Ends : Orderly(d)'
    <3>1. ASSUME NEW k \in 1 .. wire[Peer(e)],
                 heard' = [heard EXCEPT ![e] = @ + k],
                 wire' = [wire EXCEPT ![Peer(e)] = @ - k],
                 UNCHANGED <<life, speaker, hearer, shut, rst, said, killed>>
          PROVE  ~rst' /\ \A d \in Ends : Orderly(d)'
      <4>1. ASSUME NEW d \in Ends PROVE Orderly(d)'
        <5>1. heard'[Peer(d)] + wire'[d] = said'[d]
          BY <2>b, <3>1, Opposite, SMT DEF Orderly, CTypes
        <5>2. hearer'[d] = "done" => shut'[Peer(d)] /\ wire'[Peer(d)] = 0
          <6>1. CASE d = e  BY <2>6, <3>1, <6>1 DEF Hear
          <6>2. CASE d # e  BY <2>b, <3>1, <6>2, Opposite DEF Orderly, CTypes
          <6> QED BY <6>1, <6>2
        <5> QED BY <2>b, <3>1, <5>1, <5>2 DEF Orderly
      <4> QED BY <2>b, <3>1, <4>1
    <3>2. CASE /\ wire[Peer(e)] = 0 /\ shut[Peer(e)]
               /\ hearer' = [hearer EXCEPT ![e] = "done"]
               /\ UNCHANGED <<life, speaker, heard, wire, shut, rst, said, killed>>
      BY <2>b, <3>2 DEF Orderly, CTypes
    <3> QED BY <2>6, <2>b, <3>1, <3>2 DEF Hear
  <2> QED BY <1>00, <2>1, <2>2, <2>3, <2>4, <2>5, <2>6, <2>c DEF ChatNext, write_to_server,
             write_to_client, read_from_server, read_from_client
<1> QED BY <1>0, <1>00

(* An end that has closed has heard the end of the other, behind all it said. *)
LEMMA ChatFollows == CInv => ChatTypeOK /\ ChatComplete
<1> SUFFICES ASSUME CInv PROVE ChatTypeOK /\ ChatComplete
    OBVIOUS
<1>1. heard \in [Ends -> 0 .. MaxSaid] /\ wire \in [Ends -> 0 .. MaxSaid]
  <2>1. ASSUME NEW e \in Ends PROVE heard[e] \in 0 .. MaxSaid /\ wire[e] \in 0 .. MaxSaid
    <3>1. Peer(e) \in Ends /\ Account(e) /\ Account(Peer(e)) /\ Peer(Peer(e)) = e
      BY Opposite DEF CInv, CTypes
    <3> QED BY <3>1, ChatAssumption, SMT DEF CInv, CTypes, Account
  <2> QED BY <2>1 DEF CInv, CTypes
<1>2. ChatTypeOK  BY <1>1 DEF CInv, CTypes, ChatTypeOK
<1>3. ASSUME ~killed, NEW e \in Ends, life[e] = "done"
      PROVE  heard[e] = said[Peer(e)] /\ shut[Peer(e)]
  <2>1. Orderly(e) /\ Orderly(Peer(e)) /\ Peer(e) \in Ends /\ Peer(Peer(e)) = e
    BY <1>3, Opposite DEF CInv
  <2> QED BY <1>3, <2>1, SMT DEF Orderly, CInv, CTypes
<1> QED BY <1>2, <1>3 DEF ChatComplete, CInv

(* For any number of lines at either end: without an interrupt no connection  *)
(* is reset, whichever end closes first, and both have heard everything.      *)
THEOREM ChatCloses == ChatSpec => [](ChatTypeOK /\ ChatComplete)
BY ChatStarts, ChatKeeps, ChatFollows, PTL DEF ChatSpec

-----------------------------------------------------------------------------
(* The clients of EchoServer.                                                 *)

(* A client's own steps.                                                      *)
LEMMA ClientStepTypes ==
    ASSUME ClientTypeOK, NEW c \in Clients, ClientStep(c) \/ Abort(c)
    PROVE  ClientTypeOK'
<1> USE MessageAssumption DEF ClientTypeOK, lvars
<1>1. CASE Connect(c)      BY <1>1, SMT DEF Connect
<1>2. CASE SendLine(c)
  <2>1. CASE Die(c, "sigpipe") /\ UNCHANGED <<sent, inbox, reset, got, outbox, closed, backlog>>
    BY <2>1, SMT DEF Die
  <2>2. CASE ~reset[c]
    <3>1. /\ sent[c] < MaxMessage[c]
          /\ sent' = [sent EXCEPT ![c] = @ + 1]
          /\ UNCHANGED <<cpc, writer, reader, fin, got, outbox, closed, backlog>>
      BY <1>2, <2>2 DEF SendLine
    <3>2. CASE closed[c]
      <4>1. reset' = [reset EXCEPT ![c] = TRUE] /\ UNCHANGED inbox
        BY <1>2, <2>2, <3>2 DEF SendLine
      <4> QED BY <3>1, <4>1, SMT
    <3>3. CASE ~closed[c]
      <4>1. inbox' = [inbox EXCEPT ![c] = @ + 1] /\ UNCHANGED reset
        BY <1>2, <2>2, <3>3 DEF SendLine
      <4> QED BY <3>1, <4>1, SMT
    <3> QED BY <3>2, <3>3
  <2> QED BY <1>2, <2>1, <2>2 DEF SendLine
<1>3. CASE EndOfInput(c)   BY <1>3, SMT DEF EndOfInput
<1>4. CASE ReadReplies(c)
  <2>1. CASE outbox[c] > 0
    <3>1. /\ got' = [got EXCEPT ![c] = @ + outbox[c]]
          /\ outbox' = [outbox EXCEPT ![c] = 0]
          /\ UNCHANGED <<cpc, writer, reader, sent, inbox, fin, closed, reset, backlog>>
      BY <1>4, <2>1, SMT DEF ReadReplies
    <3> QED BY <3>1, SMT
  <2>2. CASE ~(outbox[c] > 0)
    <3>1. /\ reader' = [reader EXCEPT ![c] = "done"]
          /\ UNCHANGED <<cpc, writer, sent, got, inbox, outbox, fin, closed, reset, backlog>>
      BY <1>4, <2>2, SMT DEF ReadReplies
    <3> QED BY <3>1, SMT
  <2> QED BY <2>1, <2>2
<1>5. CASE CloseClient(c)  BY <1>5, SMT DEF CloseClient
<1>6. CASE Abort(c)        BY <1>6, SMT DEF Abort, Die
<1> QED BY <1>1, <1>2, <1>3, <1>4, <1>5, <1>6 DEF ClientStep

(* What a server does to a connection, and nothing else.                      *)
ServerEndStep(c, S) ==
    \/ \E k \in 1 .. inbox[c] : TakeLines(c, k)
    \/ PutReply(c)
    \/ CloseServerEnd(S)
    \/ UNCHANGED lvars

LEMMA ServerEndTypes ==
    ASSUME ClientTypeOK, UNCHANGED cvars, backlog' \in Seq(Clients),
           NEW c \in Clients, NEW S, ServerEndStep(c, S)
    PROVE  ClientTypeOK'
<1>0. /\ inbox \in [Clients -> Nat] /\ outbox \in [Clients -> Nat] /\ fin \in [Clients -> BOOLEAN]
      /\ closed \in [Clients -> BOOLEAN] /\ reset \in [Clients -> BOOLEAN]
  BY DEF ClientTypeOK
<1>e. ASSUME inbox' \in [Clients -> Nat], outbox' \in [Clients -> Nat], UNCHANGED fin,
             closed' \in [Clients -> BOOLEAN], reset' \in [Clients -> BOOLEAN]
      PROVE  ClientTypeOK'
  BY <1>e DEF ClientTypeOK, cvars
<1>1. CASE \E k \in 1 .. inbox[c] : TakeLines(c, k)
  <2>1. PICK k \in 1 .. inbox[c] : inbox' = [inbox EXCEPT ![c] = @ - k]
    BY <1>1 DEF TakeLines
  <2>2. inbox[c] - k \in Nat
    BY <1>0, <2>1
  <2>3. inbox' \in [Clients -> Nat]
    BY <1>0, <2>1, <2>2
  <2> QED BY <1>0, <1>1, <1>e, <2>3 DEF TakeLines
<1>2. CASE PutReply(c)
  BY <1>0, <1>2, <1>e DEF PutReply
<1>3. CASE CloseServerEnd(S)
  <2>1. /\ closed' = [d \in Clients |-> closed[d] \/ d \in S]
        /\ reset' = [d \in Clients |-> reset[d] \/ (d \in S /\ inbox[d] > 0)]
        /\ UNCHANGED <<inbox, outbox, fin>>
    BY <1>3 DEF CloseServerEnd
  <2>2. closed' \in [Clients -> BOOLEAN] /\ reset' \in [Clients -> BOOLEAN]
    BY <2>1
  <2> QED BY <1>0, <1>e, <2>1, <2>2
<1>4. CASE UNCHANGED lvars
  BY <1>0, <1>4, <1>e DEF lvars
<1> QED BY <1>1, <1>2, <1>3, <1>4 DEF ServerEndStep

(* Lines of a client that are in the server's buffer.                         *)
InBuffer(c) == IF epc = "send" /\ ecur = c THEN held ELSE 0

Alive(c) == cpc[c] \in {"open", "done"}

(* Each connection is queued or served once, from connect to close.           *)
QueueInv ==
    /\ \A i, j \in DOMAIN backlog : backlog[i] = backlog[j] => i = j
    /\ \A i \in DOMAIN backlog :
          /\ cpc[backlog[i]] # "new" /\ ~closed[backlog[i]]
          /\ Serving => backlog[i] # ecur
    /\ Serving => cpc[ecur] # "new" /\ ~closed[ecur]

(* The account of a connection, and the order of its two half-closes: the     *)
(* server closes behind the client's, with nothing left to read.              *)
Course(c) ==
    /\ cpc[c] = "new" => /\ sent[c] = 0 /\ got[c] = 0 /\ inbox[c] = 0 /\ outbox[c] = 0
                         /\ ~closed[c] /\ ~reset[c]
    /\ fin[c] => writer[c] = "done" /\ cpc[c] # "new"
    /\ cpc[c] = "done" => reader[c] = "done"
    /\ Alive(c) =>
         /\ ~reset[c]
         /\ reader[c] = "done" => closed[c] /\ outbox[c] = 0
         /\ closed[c] \/ (epc = "close" /\ ecur = c) => inbox[c] = 0 /\ fin[c]
         /\ got[c] + outbox[c] + inbox[c] + InBuffer(c) = sent[c]

EInv ==
    /\ EchoTypeOK
    /\ epc # "dead" => QueueInv /\ \A c \in Clients : Course(c)

(* No client has connected.                                                   *)
LEMMA EchoStarts == EchoInit => EInv
<1> SUFFICES ASSUME EchoInit PROVE EInv
    OBVIOUS
<1>1. EchoTypeOK
  BY MessageAssumption, SMT DEF EchoInit, ClientInit, EchoTypeOK, ClientTypeOK
<1>2. QueueInv
  BY SMT DEF EchoInit, ClientInit, QueueInv, Serving
<1>3. ASSUME NEW c \in Clients PROVE Course(c)
  BY DEF EchoInit, ClientInit, Course, Alive
<1> QED BY <1>1, <1>2, <1>3 DEF EInv

(* Types, by the steps of a client and of a server on its end.                *)
LEMMA EchoTypes == EchoTypeOK /\ EchoNext => EchoTypeOK'
<1> SUFFICES ASSUME EchoTypeOK, EchoNext PROVE EchoTypeOK'
    OBVIOUS
<1>0. ClientTypeOK /\ ecur \in Clients /\ held \in Nat
  BY DEF EchoTypeOK
<1>a. ASSUME UNCHANGED cvars, backlog' \in Seq(Clients), NEW S, ServerEndStep(ecur, S)
      PROVE  ClientTypeOK'
  BY <1>0, <1>a, ServerEndTypes
<1>1. CASE EchoAccept
  <2>1. ecur' \in Clients /\ backlog' \in Seq(Clients)
    BY <1>0, <1>1, SMT DEF EchoAccept, ClientTypeOK
  <2>2. ClientTypeOK'  BY <1>1, <1>a, <2>1 DEF EchoAccept, ServerEndStep
  <2> QED BY <1>1, <2>1, <2>2 DEF EchoAccept, EchoTypeOK
<1>2. CASE EchoRecv
  <2>1. ServerEndStep(ecur, {}) /\ UNCHANGED cvars /\ backlog' \in Seq(Clients)
    BY <1>0, <1>2 DEF EchoRecv, ServerEndStep, ClientTypeOK
  <2>2. ClientTypeOK'  BY <1>a, <2>1
  <2>3. held' \in Nat
    <3>1. CASE UNCHANGED held  BY <1>0, <3>1
    <3>2. ASSUME NEW k \in 1 .. inbox[ecur], held' = k PROVE held' \in Nat  BY <3>2, SMT
    <3> QED BY <1>2, <3>1, <3>2 DEF EchoRecv
  <2> QED BY <1>2, <1>0, <2>2, <2>3 DEF EchoRecv, EchoTypeOK
<1>3. CASE EchoSend
  <2>1. CASE outbox' = [outbox EXCEPT ![ecur] = @ + held] /\ UNCHANGED <<cvars, backlog, inbox, fin, closed, reset>>
    <3>1. outbox' \in [Clients -> Nat]  BY <1>0, <2>1, SMT DEF ClientTypeOK
    <3> QED BY <1>3, <1>0, <2>1, <3>1 DEF EchoSend, EchoTypeOK, ClientTypeOK, cvars
  <2>2. CASE UNCHANGED <<cvars, lvars, backlog>>
    BY <1>3, <2>2 DEF EchoSend, EchoTypeOK, ClientTypeOK, cvars, lvars
  <2>3. CASE CloseServerEnd({ecur}) /\ UNCHANGED <<cvars, backlog>>
    <3>1. ClientTypeOK'  BY <1>0, <1>a, <2>3 DEF ServerEndStep, ClientTypeOK
    <3> QED BY <1>3, <3>1 DEF EchoSend, EchoTypeOK
  <2> QED BY <1>3, <2>1, <2>2, <2>3 DEF EchoSend
<1>4. CASE EchoClose
  <2>1. ClientTypeOK'  BY <1>0, <1>a, <1>4 DEF EchoClose, ServerEndStep, ClientTypeOK
  <2> QED BY <1>4, <2>1 DEF EchoClose, EchoTypeOK
<1>5. CASE EchoQueueReset
  <2>1. Tail(backlog) \in Seq(Clients)  BY <1>0, <1>5, SMT DEF EchoQueueReset, ClientTypeOK
  <2> QED BY <1>5, <2>1 DEF EchoQueueReset, EchoTypeOK, ClientTypeOK, cvars
<1>6. ASSUME NEW k \in Clients, echo_reader(k) \/ echo_user(k) PROVE EchoTypeOK'
  <2>1. (ClientStep(k) \/ Abort(k)) /\ UNCHANGED <<epc, ecur, held>>
    BY <1>6 DEF echo_reader, echo_user, ClientStep
  <2>2. ClientTypeOK'  BY <1>0, <2>1, ClientStepTypes
  <2> QED BY <2>1, <2>2 DEF EchoTypeOK
<1>7. ASSUME NEW k \in Clients, EchoRefuses(k) PROVE EchoTypeOK'
  BY <1>7 DEF EchoRefuses, EchoTypeOK, ClientTypeOK, lvars
<1> QED BY <1>1, <1>2, <1>3, <1>4, <1>5, <1>6, <1>7 DEF EchoNext, echo_server

(* A server's step changes nothing on a connection it does not touch.         *)
LEMMA CourseElsewhere ==
    ASSUME NEW c \in Clients, Course(c),
           UNCHANGED <<cpc[c], writer[c], reader[c], sent[c], got[c], inbox[c], outbox[c],
                       fin[c], closed[c], reset[c]>>,
           InBuffer(c)' = InBuffer(c),
           ~(epc' = "close" /\ ecur' = c /\ ~(epc = "close" /\ ecur = c))
    PROVE  Course(c)'
BY DEF Course, Alive

(* The server moves lines from one column of the account to the next.         *)
LEMMA ServerKeepsEcho == ASSUME EInv, epc' # "dead", echo_server PROVE EInv'
<1>a. epc # "dead" /\ EchoTypeOK'
  BY EchoTypes DEF EchoNext, echo_server, EchoQueueReset, EchoAccept, EchoRecv, EchoSend, EchoClose, EInv
<1>0. QueueInv /\ (\A c \in Clients : Course(c)) /\ EchoTypeOK
  BY <1>a DEF EInv
<1>t. ClientTypeOK /\ ecur \in Clients /\ held \in Nat
  BY <1>0 DEF EchoTypeOK
<1> SUFFICES QueueInv' /\ \A c \in Clients : Course(c)'
  BY <1>a DEF EInv
<1>1. CASE EchoAccept
  <2>1. /\ epc = "accept" /\ epc' = "recv" /\ backlog # <<>>
        /\ ecur' = backlog[1] /\ backlog' = Tail(backlog)
        /\ UNCHANGED <<cvars, lvars, held>>
    BY <1>1, <1>t DEF EchoAccept, ClientTypeOK
  <2>2. /\ backlog \in Seq(Clients) /\ 1 \in DOMAIN backlog
        /\ \A i \in DOMAIN backlog' : i + 1 \in DOMAIN backlog /\ backlog'[i] = backlog[i + 1] /\ i + 1 # 1
        /\ DOMAIN backlog' \subseteq Nat
    <3> DEFINE b == backlog
    <3>1. b \in Seq(Clients) /\ b # <<>> /\ backlog' = Tail(b)  BY <1>t, <2>1 DEF ClientTypeOK
    <3>2. Len(b) \in Nat \ {0} /\ DOMAIN b = 1 .. Len(b)  BY <3>1, SMT
    <3>3. DOMAIN Tail(b) = 1 .. Len(b) - 1 /\ \A i \in 1 .. Len(b) - 1 : Tail(b)[i] = b[i + 1]
      BY <3>1, SMT
    <3>4. 1 \in DOMAIN b /\ DOMAIN Tail(b) \subseteq Nat
      BY <3>2, <3>3, SMT
    <3>5. \A i \in DOMAIN Tail(b) : i + 1 \in DOMAIN b /\ i + 1 # 1
      BY <3>2, <3>3, SMT
    <3> QED BY <3>1, <3>3, <3>4, <3>5
  <2>3. UNCHANGED <<cpc, closed>>  BY <2>1 DEF cvars, lvars
  <2>4. QueueInv'
    <3>1. \A i, j \in DOMAIN backlog' : backlog'[i] = backlog'[j] => i = j
      <4> SUFFICES ASSUME NEW i \in DOMAIN backlog', NEW j \in DOMAIN backlog', backlog'[i] = backlog'[j]
                   PROVE  i = j
          OBVIOUS
      <4>1. i + 1 = j + 1  BY <1>0, <2>2 DEF QueueInv
      <4> QED BY <2>2, <4>1, SMT
    <3>2. \A i \in DOMAIN backlog' : cpc'[backlog'[i]] # "new" /\ ~closed'[backlog'[i]] /\ backlog'[i] # ecur'
      BY <1>0, <2>1, <2>2, <2>3 DEF QueueInv
    <3>3. cpc'[ecur'] # "new" /\ ~closed'[ecur']
      BY <1>0, <2>1, <2>2, <2>3 DEF QueueInv
    <3> QED BY <3>1, <3>2, <3>3 DEF QueueInv
  <2>5. ASSUME NEW c \in Clients PROVE Course(c)'
    <3>1. InBuffer(c)' = InBuffer(c)  BY <2>1 DEF InBuffer
    <3> QED BY <1>0, <2>1, <3>1 DEF Course, Alive, cvars, lvars
  <2> QED BY <2>4, <2>5
<1>2. CASE EchoRecv
  <2>1. epc = "recv" /\ UNCHANGED <<cvars, backlog, ecur, outbox, fin, closed, reset>>
    BY <1>2 DEF EchoRecv, TakeLines, lvars
  <2>2. QueueInv'
    BY <1>0, <1>2, <2>1 DEF QueueInv, Serving, EchoRecv, cvars
  <2>3. ASSUME NEW k \in 1 .. inbox[ecur], TakeLines(ecur, k), held' = k, epc' = "send", NEW c \in Clients
        PROVE  Course(c)'
    <3>1. CASE c = ecur
      <4>1. /\ inbox'[c] = inbox[c] - k /\ InBuffer(c)' = k /\ InBuffer(c) = 0
            /\ inbox[c] \in Nat /\ got[c] \in Nat /\ outbox[c] \in Nat /\ k \in Nat
        BY <1>t, <2>1, <2>3, <3>1, SMT DEF TakeLines, ClientTypeOK, InBuffer
      <4>2. cpc[c] # "new" /\ ~closed[c]  BY <1>0, <2>1, <3>1 DEF QueueInv, Serving
      <4>3. Alive(c) => got[c] + outbox[c] + inbox'[c] + InBuffer(c)' = sent[c]
        BY <1>0, <4>1, SMT DEF Course
      <4> QED BY <1>0, <2>1, <2>3, <4>2, <4>3 DEF Course, Alive, cvars
    <3>2. CASE c # ecur
      <4>1. inbox'[c] = inbox[c] /\ InBuffer(c)' = InBuffer(c)
        BY <1>t, <2>1, <2>3, <3>2 DEF TakeLines, ClientTypeOK, InBuffer
      <4> QED BY <1>0, <2>1, <2>3, <4>1, CourseElsewhere DEF cvars
    <3> QED BY <3>1, <3>2
  <2>4. ASSUME inbox[ecur] = 0, fin[ecur], epc' = "close", UNCHANGED <<lvars, held>>, NEW c \in Clients
        PROVE  Course(c)'
    <3>1. InBuffer(c)' = InBuffer(c)  BY <2>1, <2>4 DEF InBuffer
    <3> QED BY <1>0, <2>1, <2>4, <3>1 DEF Course, Alive, cvars, lvars
  <2> QED BY <1>2, <2>2, <2>3, <2>4 DEF EchoRecv
<1>3. CASE EchoSend
  <2>1. epc = "send" /\ UNCHANGED <<cvars, ecur, backlog, inbox, fin, closed, reset>> /\ epc' \in {"recv", "close"}
    BY <1>3, <1>a DEF EchoSend, lvars
  <2>2. QueueInv'
    BY <1>0, <2>1 DEF QueueInv, Serving, cvars
  <2>3. ASSUME outbox' = [outbox EXCEPT ![ecur] = @ + held], epc' = "recv", NEW c \in Clients
        PROVE  Course(c)'
    <3>1. CASE c = ecur
      <4>1. /\ outbox'[c] = outbox[c] + held /\ InBuffer(c)' = 0 /\ InBuffer(c) = held
            /\ inbox[c] \in Nat /\ got[c] \in Nat /\ outbox[c] \in Nat
        BY <1>t, <2>1, <2>3, <3>1 DEF ClientTypeOK, InBuffer
      <4>2. cpc[c] # "new" /\ ~closed[c]  BY <1>0, <2>1, <3>1 DEF QueueInv, Serving
      <4>3. Alive(c) => got[c] + outbox'[c] + inbox[c] + InBuffer(c)' = sent[c]
        BY <1>0, <1>t, <4>1, SMT DEF Course
      <4> QED BY <1>0, <2>1, <2>3, <4>2, <4>3 DEF Course, Alive, cvars
    <3>2. CASE c # ecur
      <4>1. outbox'[c] = outbox[c] /\ InBuffer(c)' = InBuffer(c)
        BY <1>t, <2>1, <2>3, <3>2 DEF ClientTypeOK, InBuffer
      <4> QED BY <1>0, <2>1, <2>3, <4>1, CourseElsewhere DEF cvars
    <3> QED BY <3>1, <3>2
  <2>4. ASSUME PeerGone(ecur), epc' = "close", UNCHANGED outbox, NEW c \in Clients
        PROVE  Course(c)'
    <3>1. CASE c = ecur
      <4>1. ~closed[c]  BY <1>0, <2>1, <3>1 DEF QueueInv, Serving
      <4>2. ~Alive(c) /\ cpc[c] # "new"
        BY <1>0, <2>4, <3>1, <4>1 DEF PeerGone, Course, Alive
      <4> QED BY <1>0, <2>1, <4>2 DEF Course, Alive, cvars
    <3>2. CASE c # ecur
      <4>1. InBuffer(c)' = InBuffer(c)  BY <2>1, <3>2 DEF InBuffer
      <4> QED BY <1>0, <2>1, <2>4, <3>2, <4>1, CourseElsewhere DEF cvars
    <3> QED BY <3>1, <3>2
  <2> QED BY <1>3, <1>a, <2>2, <2>3, <2>4 DEF EchoSend, lvars
<1>4. CASE EchoClose
  <2>1. /\ epc = "close" /\ epc' = "accept" /\ UNCHANGED <<cvars, backlog, ecur, held, inbox, outbox, fin>>
        /\ closed' = [c \in Clients |-> closed[c] \/ c \in {ecur}]
        /\ reset' = [c \in Clients |-> reset[c] \/ (c \in {ecur} /\ inbox[c] > 0)]
    BY <1>4 DEF EchoClose, CloseServerEnd
  <2>2. QueueInv'
    BY <1>0, <1>t, <2>1 DEF QueueInv, Serving, cvars, ClientTypeOK
  <2>3. ASSUME NEW c \in Clients PROVE Course(c)'
    <3>1. InBuffer(c)' = InBuffer(c)  BY <2>1 DEF InBuffer
    <3>2. CASE c = ecur
      <4>1. closed'[c] /\ (reset'[c] <=> reset[c] \/ inbox[c] > 0)  BY <2>1, <3>2
      <4>2. cpc[c] # "new"  BY <1>0, <2>1, <3>2 DEF QueueInv, Serving
      <4>3. Alive(c) => inbox[c] = 0 /\ fin[c] /\ ~(0 > 0)
        BY <1>0, <2>1, <3>2, SMT DEF Course
      <4> QED BY <1>0, <2>1, <3>1, <4>1, <4>2, <4>3 DEF Course, Alive, cvars
    <3>3. CASE c # ecur
      <4>1. closed'[c] = closed[c] /\ reset'[c] = reset[c]
        BY <1>t, <2>1, <3>3 DEF ClientTypeOK
      <4> QED BY <1>0, <2>1, <3>1, <4>1, CourseElsewhere DEF cvars
    <3> QED BY <3>2, <3>3
  <2> QED BY <2>2, <2>3
<1>5. CASE EchoQueueReset  BY <1>5, <1>a DEF EchoQueueReset
<1> QED BY <1>1, <1>2, <1>3, <1>4, <1>5 DEF echo_server

(* A client that can still send has not half-closed, so the server has not    *)
(* closed.                                                                    *)
LEMMA ClientKeepsEcho ==
    ASSUME EInv, epc # "dead", UNCHANGED <<epc, ecur, held>>,
           NEW k \in Clients, ClientStep(k) \/ Abort(k)
    PROVE  QueueInv' /\ \A c \in Clients : Course(c)'
<1>0. QueueInv /\ (\A c \in Clients : Course(c)) /\ ClientTypeOK
  BY DEF EInv, EchoTypeOK
<1> USE DEF ClientTypeOK
<1>e. \A c \in Clients : InBuffer(c)' = InBuffer(c)  BY DEF InBuffer
<1>o. ASSUME NEW c \in Clients, c # k PROVE Course(c)'
  <2>1. UNCHANGED <<cpc[c], writer[c], reader[c], sent[c], got[c], inbox[c], outbox[c],
                    fin[c], closed[c], reset[c]>>
    BY <1>0, <1>o DEF ClientStep, Abort, Connect, SendLine, Die, EndOfInput, ReadReplies, CloseClient, lvars
  <2> QED BY <1>0, <1>e, <2>1, CourseElsewhere
<1>1. CASE Connect(k)
  <2>1. /\ cpc[k] = "new" /\ cpc' = [cpc EXCEPT ![k] = "open"]
        /\ writer' = [writer EXCEPT ![k] = "write"] /\ reader' = [reader EXCEPT ![k] = "recv"]
        /\ backlog' = Append(backlog, k) /\ UNCHANGED <<sent, got, inbox, outbox, fin, closed, reset>>
    BY <1>1 DEF Connect, lvars
  <2>2. /\ DOMAIN backlog' = DOMAIN backlog \cup {Len(backlog) + 1}
        /\ backlog'[Len(backlog) + 1] = k
        /\ \A i \in DOMAIN backlog : backlog'[i] = backlog[i] /\ backlog[i] # k /\ backlog[i] \in Clients
    <3>1. backlog \in Seq(Clients)  BY <1>0
    <3>2. DOMAIN backlog' = DOMAIN backlog \cup {Len(backlog) + 1}  BY <2>1, <3>1, SMT
    <3>3. backlog'[Len(backlog) + 1] = k  BY <2>1, <3>1, SMT
    <3>4. \A i \in DOMAIN backlog : backlog'[i] = backlog[i] /\ backlog[i] \in Clients
      BY <2>1, <3>1, SMT
    <3> QED BY <1>0, <2>1, <3>2, <3>3, <3>4 DEF QueueInv
  <2>3. Serving => ecur # k  BY <1>0, <2>1 DEF QueueInv
  <2>4. ~closed[k] /\ ~reset[k] /\ ~fin[k] /\ sent[k] = 0 /\ got[k] = 0 /\ inbox[k] = 0 /\ outbox[k] = 0
    BY <1>0, <2>1 DEF Course
  <2>5. QueueInv'
    <3>1. \A i, j \in DOMAIN backlog' : backlog'[i] = backlog'[j] => i = j
      BY <1>0, <2>2 DEF QueueInv
    <3>2. \A i \in DOMAIN backlog' :
             cpc'[backlog'[i]] # "new" /\ ~closed'[backlog'[i]] /\ (Serving' => backlog'[i] # ecur')
      BY <1>0, <2>1, <2>2, <2>3, <2>4 DEF QueueInv, Serving
    <3>3. Serving' => cpc'[ecur'] # "new" /\ ~closed'[ecur']
      BY <1>0, <2>1, <2>3 DEF QueueInv, Serving
    <3> QED BY <3>1, <3>2, <3>3 DEF QueueInv
  <2>6. InBuffer(k)' = 0  BY <1>e, <2>3 DEF InBuffer, Serving
  <2>7. ~(epc' = "close" /\ ecur' = k)  BY <2>3 DEF Serving
  <2>8. 0 + 0 + 0 + 0 = 0  BY SMT
  <2>9. Course(k)'
    BY <1>0, <2>1, <2>4, <2>6, <2>7, <2>8 DEF Course, Alive
  <2> QED BY <1>o, <2>5, <2>9
<1>q. ASSUME UNCHANGED <<backlog, closed>>, cpc[k] # "new", \E x : x # "new" /\ cpc' = [cpc EXCEPT ![k] = x]
      PROVE  QueueInv'
  <2>1. \A c \in Clients : cpc'[c] = "new" <=> cpc[c] = "new"  BY <1>0, <1>q
  <2>2. \A i \in DOMAIN backlog : backlog[i] \in Clients  BY <1>0, SMT
  <2>3. ecur \in Clients  BY DEF EInv, EchoTypeOK
  <2> QED BY <1>0, <1>q, <2>1, <2>2, <2>3 DEF QueueInv, Serving
<1>d. ASSUME NEW how \in {"aborted", "sigpipe"}, Die(k, how), UNCHANGED <<backlog, closed>>, cpc[k] # "new"
      PROVE  QueueInv' /\ Course(k)'
  <2>1. QueueInv'  BY <1>q, <1>d DEF Die
  <2>2. cpc'[k] = how /\ writer'[k] = "done"  BY <1>0, <1>d DEF Die
  <2> QED BY <2>1, <2>2, <1>d DEF Course, Alive
<1>u. UNCHANGED cpc /\ UNCHANGED <<backlog, closed>> => QueueInv'
  BY <1>0 DEF QueueInv, Serving
<1>2. CASE SendLine(k)
  <2>1. CASE Die(k, "sigpipe")
    BY <1>2, <1>d, <1>o, <2>1 DEF SendLine
  <2>2. CASE ~reset[k] /\ UNCHANGED <<cpc, writer, reader, fin>>
    <3>1. cpc[k] = "open" /\ writer[k] = "write" /\ ~closed[k]
      BY <1>0, <1>2 DEF SendLine, Course, Alive
    <3>2. /\ sent' = [sent EXCEPT ![k] = @ + 1] /\ inbox' = [inbox EXCEPT ![k] = @ + 1]
          /\ UNCHANGED <<cpc, writer, reader, fin, reset, got, outbox, closed, backlog>>
      BY <1>2, <2>2, <3>1 DEF SendLine, Die
    <3>3. got[k] + outbox[k] + inbox'[k] + InBuffer(k) = sent'[k]
      <4>1. got[k] + outbox[k] + inbox[k] + InBuffer(k) = sent[k] /\ InBuffer(k) \in Nat
        BY <1>0, <3>1 DEF Course, Alive, InBuffer, EInv, EchoTypeOK
      <4> QED BY <1>0, <3>2, <4>1, SMT
    <3>4. ~fin[k]  BY <1>0, <3>1 DEF Course
    <3>5. Course(k)'
      BY <1>0, <1>e, <3>1, <3>2, <3>3, <3>4 DEF Course, Alive
    <3> QED BY <1>o, <1>u, <3>2, <3>5
  <2> QED BY <1>2, <2>1, <2>2 DEF SendLine
<1>3. CASE EndOfInput(k)
  <2>1. Course(k)'  BY <1>0, <1>e, <1>3 DEF EndOfInput, Course, Alive
  <2> QED BY <1>o, <1>u, <1>3, <2>1 DEF EndOfInput
<1>4. CASE ReadReplies(k)
  <2>1. CASE outbox[k] > 0 /\ got' = [got EXCEPT ![k] = @ + outbox[k]] /\ outbox' = [outbox EXCEPT ![k] = 0] /\ UNCHANGED reader
    <3>1. Alive(k) => got'[k] + outbox'[k] + inbox[k] + InBuffer(k) = sent[k]
      <4>1. InBuffer(k) \in Nat  BY DEF InBuffer, EInv, EchoTypeOK
      <4> QED BY <1>0, <2>1, <4>1, SMT DEF Course
    <3>2. cpc[k] = "open" /\ outbox[k] # 0  BY <1>4, <2>1, SMT DEF ReadReplies
    <3>3. Course(k)'
      BY <1>0, <1>e, <1>4, <2>1, <3>1, <3>2 DEF ReadReplies, Course, Alive
    <3> QED BY <1>o, <1>u, <1>4, <3>3 DEF ReadReplies
  <2>2. CASE outbox[k] = 0 /\ (closed[k] \/ reset[k]) /\ reader' = [reader EXCEPT ![k] = "done"] /\ UNCHANGED <<got, outbox>>
    <3>1. Course(k)'
      BY <1>0, <1>e, <1>4, <2>2 DEF ReadReplies, Course, Alive
    <3> QED BY <1>o, <1>u, <1>4, <3>1 DEF ReadReplies
  <2> QED BY <1>4, <2>1, <2>2 DEF ReadReplies
<1>5. CASE CloseClient(k)
  <2>1. QueueInv'  BY <1>5, <1>q DEF CloseClient, lvars
  <2>2. Course(k)'
    BY <1>0, <1>e, <1>5 DEF CloseClient, Course, Alive, lvars
  <2> QED BY <1>o, <2>1, <2>2
<1>6. CASE Abort(k)
  BY <1>6, <1>d, <1>o DEF Abort
<1> QED BY <1>1, <1>2, <1>3, <1>4, <1>5, <1>6 DEF ClientStep

(* Every step of the echo server and of its clients.                          *)
LEMMA EchoKeeps == EInv /\ [EchoNext]_evars => EInv'
<1> SUFFICES ASSUME EInv, [EchoNext]_evars PROVE EInv'
    OBVIOUS
<1>1. CASE UNCHANGED evars
  BY <1>1 DEF evars, cvars, lvars, EInv, EchoTypeOK, ClientTypeOK, QueueInv, Serving, Course, Alive, InBuffer
<1>2. CASE EchoNext
  <2>1. EchoTypeOK'  BY <1>2, EchoTypes DEF EInv
  <2> SUFFICES ASSUME epc' # "dead" PROVE EInv'
      BY <2>1 DEF EInv
  <2>2. CASE echo_server  BY <2>2, ServerKeepsEcho
  <2>3. ASSUME NEW k \in Clients, echo_reader(k) \/ echo_user(k) PROVE EInv'
    <3>1. (ClientStep(k) \/ Abort(k)) /\ UNCHANGED <<epc, ecur, held>>
      BY <2>3 DEF echo_reader, echo_user, ClientStep
    <3>2. epc # "dead"  BY <3>1
    <3>3. QueueInv' /\ \A c \in Clients : Course(c)'  BY <3>1, <3>2, ClientKeepsEcho
    <3> QED BY <2>1, <3>3 DEF EInv
  <2>4. ASSUME NEW k \in Clients, EchoRefuses(k) PROVE EInv'
    BY <2>4 DEF EchoRefuses
  <2> QED BY <1>2, <2>2, <2>3, <2>4 DEF EchoNext
<1> QED BY <1>1, <1>2

(* Closed without being reset, with nothing left unread, everything is on its *)
(* way back.                                                                  *)
LEMMA EchoFollows == EInv => EchoTypeOK /\ EchoedInFull
<1> SUFFICES ASSUME EInv, epc # "dead", NEW k \in Clients
             PROVE  /\ closed[k] /\ cpc[k] \in {"open", "done"} =>
                          ~reset[k] /\ got[k] + outbox[k] = sent[k]
                    /\ cpc[k] = "done" => got[k] = sent[k]
    BY DEF EInv, EchoedInFull
<1>0. QueueInv /\ Course(k) /\ ClientTypeOK  BY DEF EInv, EchoTypeOK
<1>1. ASSUME closed[k], Alive(k) PROVE ~reset[k] /\ got[k] + outbox[k] = sent[k]
  <2>1. inbox[k] = 0 /\ got[k] + outbox[k] + inbox[k] + InBuffer(k) = sent[k] /\ ~reset[k]
    BY <1>0, <1>1 DEF Course
  <2>2. InBuffer(k) = 0  BY <1>0, <1>1 DEF InBuffer, QueueInv, Serving
  <2> QED BY <1>0, <2>1, <2>2, SMT DEF ClientTypeOK
<1>2. ASSUME cpc[k] = "done" PROVE got[k] = sent[k]
  <2>1. closed[k] /\ outbox[k] = 0 /\ Alive(k)  BY <1>0, <1>2 DEF Course, Alive
  <2>2. got[k] + outbox[k] = sent[k]  BY <1>1, <2>1
  <2> QED BY <1>0, <2>1, <2>2, SMT DEF ClientTypeOK
<1> QED BY <1>1, <1>2 DEF Alive

(* For any set of clients and any number of lines: what the server closes is  *)
(* echoed in full.                                                            *)
THEOREM EchoInFull == EchoSpec => [](EchoTypeOK /\ EchoedInFull)
BY EchoStarts, EchoKeeps, EchoFollows, PTL DEF EchoSpec

-----------------------------------------------------------------------------
(* The two ends of DaemonClient.                                              *)

(* The five situations of a client and its daemon while nobody is killed.     *)
Before ==
    /\ words = 0 /\ replies = 0 /\ unheard = 0 /\ unread = 0 /\ ~torn
    /\ dialog # "recv" /\ desk # "send"
    /\ dialog = "new" => desk = "busy"
    /\ desk \in {"close", "closed"} => dialog = "over"

AskedFirst ==
    /\ words = 1 /\ replies = 0 /\ unheard = 0 /\ ~torn
    /\ dialog = "recv"
    /\ \/ desk \in {"busy", "recv"} /\ unread = 1
       \/ desk = "send" /\ unread = 0

OnItsWay ==
    /\ words = 1 /\ replies = 0 /\ unheard = 1 /\ unread = 0 /\ ~torn
    /\ dialog = "recv" /\ desk \in {"close", "closed"}

HeardFirst ==
    /\ words = 1 /\ replies = 1 /\ unheard = 0 /\ unread = 0 /\ ~torn
    /\ dialog \in {"input", "over"} /\ desk \in {"close", "closed"}

AskedAgain ==
    /\ words = 2 /\ replies = 1 /\ unheard = 0
    /\ dialog \in {"recv", "over"} /\ desk \in {"close", "closed"}

DTypes ==
    /\ dialog \in {"new", "input", "recv", "over"}
    /\ desk \in {"busy", "recv", "send", "close", "closed", "dead"}
    /\ words \in 0 .. MaxWords /\ replies \in Nat
    /\ unread \in Nat /\ unheard \in Nat
    /\ torn \in BOOLEAN /\ stopped \in BOOLEAN
    /\ replies + unheard + unread + (IF desk = "send" THEN 1 ELSE 0) <= words

DInv ==
    /\ DTypes
    /\ desk # "dead" /\ ~stopped => Before \/ AskedFirst \/ OnItsWay \/ HeardFirst \/ AskedAgain

(* Nothing has been asked.                                                    *)
LEMMA DialogStarts == DialogInit => DInv
<1> SUFFICES ASSUME DialogInit PROVE DInv
    OBVIOUS
<1>0. torn \in BOOLEAN /\ stopped \in BOOLEAN  BY DEF DialogInit
<1>1. DTypes  BY <1>0, WordsAssumption, SMT DEF DialogInit, DTypes
<1>2. Before  BY DEF DialogInit, Before
<1> QED BY <1>1, <1>2 DEF DInv

(* A line has one reply at most.                                              *)
LEMMA DialogTypes == DTypes /\ DialogNext => DTypes'
<1> SUFFICES ASSUME DTypes, DialogNext PROVE DTypes'
    OBVIOUS
<1> USE WordsAssumption DEF DTypes, Closed
<1>1. CASE DialogConnect  BY <1>1, SMT DEF DialogConnect
<1>2. CASE DialogSend
  <2>0. torn \in BOOLEAN /\ (desk \in {"closed", "dead"}) \in BOOLEAN
    OBVIOUS
  <2>1. torn' \in BOOLEAN
    <3>1. torn' = torn \/ torn' = (desk \in {"closed", "dead"})  BY <1>2 DEF DialogSend
    <3> HIDE DEF DTypes
    <3> QED BY <2>0, <3>1, Zenon
  <2>2. CASE torn   BY <1>2, <2>1, <2>2 DEF DialogSend
  <2>3. CASE ~torn
    <3>1. /\ words < MaxWords /\ words' = words + 1
          /\ unread' = unread \/ unread' = unread + 1
          /\ dialog' = "recv"
          /\ UNCHANGED <<desk, replies, unheard, stopped>>
      BY <1>2, <2>3 DEF DialogSend
    <3> QED BY <2>1, <3>1, SMT
  <2> QED BY <2>2, <2>3
<1>3. CASE DialogQuit     BY <1>3, SMT DEF DialogQuit
<1>4. CASE DialogRecv     BY <1>4, SMT DEF DialogRecv
<1>5. CASE DialogStopped  BY <1>5, SMT DEF DialogStopped
<1>6. CASE DeskAccept     BY <1>6, SMT DEF DeskAccept
<1>7. CASE DeskRecv       BY <1>7, SMT DEF DeskRecv
<1>8. CASE DeskSend       BY <1>8, SMT DEF DeskSend
<1>9. CASE DeskClose      BY <1>9, SMT DEF DeskClose
<1>10. CASE DeskDies      BY <1>10, SMT DEF DeskDies
<1> QED BY <1>1, <1>2, <1>3, <1>4, <1>5, <1>6, <1>7, <1>8, <1>9, <1>10
        DEF DialogNext, handle_client

(* The second line may come before the close or after: the first reply has    *)
(* been read by then.                                                         *)
LEMMA DialogKeeps == DInv /\ [DialogNext]_dcvars => DInv'
<1> SUFFICES ASSUME DInv, [DialogNext]_dcvars PROVE DInv'
    OBVIOUS
<1> USE DEF Closed, Before, AskedFirst, OnItsWay, HeardFirst, AskedAgain
<1>0. CASE UNCHANGED dcvars
  BY <1>0 DEF dcvars, DInv, DTypes
<1>1. CASE DialogNext
  <2>1. DTypes'  BY <1>1, DialogTypes DEF DInv
  <2> SUFFICES ASSUME desk' # "dead", ~stopped'
               PROVE  (Before \/ AskedFirst \/ OnItsWay \/ HeardFirst \/ AskedAgain)'
      BY <2>1 DEF DInv
  <2>2. DTypes /\ desk # "dead" /\ ~stopped
    BY <1>1 DEF DialogNext, handle_client, DialogConnect, DialogSend, DialogQuit, DialogRecv,
                DialogStopped, DeskAccept, DeskRecv, DeskSend, DeskClose, DeskDies, DInv, DTypes
  <2>3. Before \/ AskedFirst \/ OnItsWay \/ HeardFirst \/ AskedAgain
    BY <2>2 DEF DInv
  <2> HIDE DEF DInv
  <2> USE <2>2, <2>3 DEF DTypes
  <2>4. CASE DialogConnect  BY <2>4, SMT DEF DialogConnect
  <2>5. CASE DialogSend     BY <2>5, SMT DEF DialogSend
  <2>6. CASE DialogQuit     BY <2>6, SMT DEF DialogQuit
  <2>7. CASE DialogRecv     BY <2>7, SMT DEF DialogRecv
  <2>8. CASE DialogStopped  BY <2>8 DEF DialogStopped
  <2>9. CASE DeskAccept     BY <2>9, SMT DEF DeskAccept
  <2>10. CASE DeskRecv      BY <2>10, SMT DEF DeskRecv
  <2>11. CASE DeskSend      BY <2>11, SMT DEF DeskSend
  <2>12. CASE DeskClose     BY <2>12, SMT DEF DeskClose
  <2>13. CASE DeskDies      BY <2>13 DEF DeskDies
  <2> QED BY <1>1, <2>4, <2>5, <2>6, <2>7, <2>8, <2>9, <2>10, <2>11, <2>12, <2>13
          DEF DialogNext, handle_client
<1> QED BY <1>0, <1>1

(* In all five situations.                                                    *)
LEMMA DialogFollows == DInv => DialogTypeOK /\ FirstLineAnswered
<1> SUFFICES ASSUME DInv PROVE DialogTypeOK /\ FirstLineAnswered
    OBVIOUS
<1>1. DialogTypeOK
  BY WordsAssumption, SMT DEF DInv, DTypes, DialogTypeOK
<1>2. FirstLineAnswered
  BY SMT DEF DInv, DTypes, FirstLineAnswered, Before, AskedFirst, OnItsWay, HeardFirst, AskedAgain
<1> QED BY <1>1, <1>2

(* However many lines are typed: the first has its reply, and there is no     *)
(* third.                                                                     *)
THEOREM FirstReply == DialogSpec => [](DialogTypeOK /\ FirstLineAnswered)
BY DialogStarts, DialogKeeps, DialogFollows, PTL DEF DialogSpec

-----------------------------------------------------------------------------
(* All of them in Studies: a step of one program leaves the others alone.     *)

StudiesInv ==
    /\ study \in Studied
    /\ HandoffInv /\ RInv /\ SharedTypeOK /\ CancelTypeOK
    /\ UInv /\ CInv /\ EInv /\ DInv

(* Each program starts as it does alone.                                      *)
LEMMA AllStart == StudiesInit => StudiesInv
BY HandoffStarts, RingStarts, SharedStarts, CancelStarts, UdpStarts, ChatStarts, EchoStarts,
   DialogStarts DEF StudiesInit, StudiesInv

(* A step of Studies is a step or a stutter of each of them.                  *)
LEMMA EachSteps ==
    ASSUME [StudiesNext]_studyvars
    PROVE  /\ [Next]_vars /\ [RingNext]_rvars /\ [SharedNext]_sivars /\ [CancelNext]_cavars
           /\ [UdpNext]_uvars /\ [ChatNext]_chvars /\ [EchoNext]_evars /\ [DialogNext]_dcvars
           /\ study' = study
BY DEF StudiesNext, studyvars, Others, Handoff, Ring, Input, Canceling, Udp, Chat, Echo, Dialog

(* No invariant mentions two of the programs.                                 *)
LEMMA AllKeep == StudiesInv /\ [StudiesNext]_studyvars => StudiesInv'
<1> SUFFICES ASSUME StudiesInv, [StudiesNext]_studyvars PROVE StudiesInv'
    OBVIOUS
<1>1. HandoffInv' /\ RInv' /\ SharedTypeOK' /\ CancelTypeOK'
  BY EachSteps, HandoffKeeps, RingStepKeeps, SharedKeeps, CancelKeeps DEF StudiesInv
<1>2. UInv' /\ CInv' /\ EInv' /\ DInv'
  BY EachSteps, UdpStepKeeps, ChatKeeps, EchoKeeps, DialogKeeps DEF StudiesInv
<1>3. study' \in Studied  BY EachSteps DEF StudiesInv
<1> QED BY <1>1, <1>2, <1>3 DEF StudiesInv

(* For every value of the constants the programs keep together what each      *)
(* keeps alone: types, mutual exclusion of the hand-over, UDP answers in step *)
(* with their requests, nothing cut off by a close, the order of the ring.    *)
THEOREM StudiesKeep ==
    StudiesSpec =>
        [](StudiesTypeOK /\ MutualExclusion /\ InStep /\ NothingCut /\ RingInOrder)
<1>1. StudiesInv => StudiesTypeOK
  BY RingFollows, ChatFollows, EchoFollows, DialogFollows
     DEF StudiesInv, StudiesTypeOK, HandoffInv, UInv
<1>2. StudiesInv => MutualExclusion /\ InStep /\ RingInOrder
  BY HandoffFollows, InStepFollows, RingFollows DEF StudiesInv
<1>3. StudiesInv => NothingCut
  BY ChatFollows, EchoFollows, DialogFollows DEF StudiesInv, NothingCut
<1> QED BY <1>1, <1>2, <1>3, AllStart, AllKeep, PTL DEF StudiesSpec

(* All variables of all the programs keep their types, whichever one runs.    *)
THEOREM StudiesTyped == StudiesSpec => []StudiesTypeOK
BY StudiesKeep, PTL

(* The hand-over implements the channel there too.                            *)
THEOREM StudiesSlot == StudiesSpec => SlotSpec
<1>1. StudiesInit => Init  BY DEF StudiesInit
<1>2. [StudiesNext]_studyvars => [Next]_vars  BY EachSteps
<1>3. StudiesSpec => Spec  BY <1>1, <1>2, PTL DEF StudiesSpec, Spec
<1> QED BY <1>3, HandoffIsSlot
====
