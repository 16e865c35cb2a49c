-------------------------- MODULE BackGroundProofs --------------------------
(***************************************************************************)
(* Proofs about module BackGround, for every set of threads and wrappers,  *)
(* every owner, period and flag.                                           *)
(*                                                                         *)
(* The invariant is built in layers, each inductive relative to the ones   *)
(* before it: types and the mutex; who holds which connection; deadlines.  *)
(***************************************************************************)
EXTENDS BackGround, SequenceTheorems, TLAPS

-----------------------------------------------------------------------------
(* The sequence operators the list is changed with.                        *)

\* RemoveAt drops the i-th element and shifts what follows.
LEMMA RemoveAtFacts ==
  ASSUME NEW S, NEW s \in Seq(S), NEW i \in DOMAIN s
  PROVE  /\ RemoveAt(s, i) \in Seq(S)
         /\ Len(RemoveAt(s, i)) = Len(s) - 1
         /\ \A j \in 1..(Len(s) - 1) :
              RemoveAt(s, i)[j] = IF j < i THEN s[j] ELSE s[j + 1]
<1> DEFINE a == SubSeq(s, 1, i-1)
           b == SubSeq(s, i+1, Len(s))
<1>1. Len(s) \in Nat /\ i \in 1..Len(s) /\ \A j \in 1..Len(s) : s[j] \in S
  OBVIOUS
<1>2. /\ a \in Seq(S) /\ Len(a) = i - 1
      /\ \A j \in 1..(i-1) : a[j] = s[j]
  <2>1. \A j \in 1..(i-1) : s[j] \in S
    BY <1>1
  <2>2. /\ a \in Seq(S)
        /\ Len(a) = IF 1 <= i-1 THEN (i-1)-1+1 ELSE 0
        /\ \A j \in 1..((i-1)-1+1) : a[j] = s[1+j-1]
    BY <1>1, <2>1, SubSeqProperties
  <2> QED BY <1>1, <2>2
<1>3. /\ b \in Seq(S) /\ Len(b) = Len(s) - i
      /\ \A j \in 1..(Len(s)-i) : b[j] = s[i+j]
  <2>1. \A j \in (i+1)..Len(s) : s[j] \in S
    BY <1>1
  <2>2. /\ b \in Seq(S)
        /\ Len(b) = IF i+1 <= Len(s) THEN Len(s)-(i+1)+1 ELSE 0
        /\ \A j \in 1..(Len(s)-(i+1)+1) : b[j] = s[(i+1)+j-1]
    BY <1>1, <2>1, SubSeqProperties
  <2> QED BY <1>1, <2>2
<1> DEFINE c == a \o b
<1>4. RemoveAt(s, i) = c
  BY DEF RemoveAt
<1> HIDE DEF a, b
<1>5. /\ c \in Seq(S) /\ Len(c) = Len(a) + Len(b)
      /\ \A j \in 1..(Len(a) + Len(b)) : c[j] = IF j <= Len(a) THEN a[j] ELSE b[j - Len(a)]
  BY <1>2, <1>3, ConcatProperties
<1> HIDE DEF c
<1>6. ASSUME NEW j \in 1..(Len(s) - 1)
      PROVE  c[j] = IF j < i THEN s[j] ELSE s[j + 1]
  <2>1. CASE j < i
    <3>1. j \in 1..(i-1) /\ j \in 1..(Len(a) + Len(b)) /\ j <= Len(a)
      BY <1>1, <1>2, <1>3, <2>1
    <3> QED BY <1>2, <1>5, <2>1, <3>1
  <2>2. CASE ~(j < i)
    <3> DEFINE k == j - (i - 1)
    <3>1. k \in 1..(Len(s) - i) /\ i + k = j + 1 /\ k = j - Len(a)
      BY <1>1, <1>2, <2>2
    <3>2. j \in 1..(Len(a) + Len(b)) /\ ~(j <= Len(a))
      BY <1>1, <1>2, <1>3, <2>2
    <3> HIDE DEF k
    <3>3. c[j] = b[k]
      BY <1>5, <3>1, <3>2
    <3>4. b[k] = s[j + 1]
      BY <1>3, <3>1
    <3> QED BY <2>2, <3>3, <3>4
  <2> QED BY <2>1, <2>2
<1>7. Len(a) + Len(b) = Len(s) - 1
  BY <1>1, <1>2, <1>3
<1> QED BY <1>4, <1>5, <1>6, <1>7

\* The rotation of the list puts its head last.
LEMMA RotatedFacts ==
  ASSUME NEW S, mConnections \in Seq(S), mConnections # <<>>
  PROVE  /\ Rotated \in Seq(S)
         /\ Len(Rotated) = Len(mConnections)
         /\ \A j \in 1..(Len(mConnections) - 1) : Rotated[j] = mConnections[j + 1]
         /\ Rotated[Len(mConnections)] = mConnections[1]
<1> DEFINE t == Tail(mConnections)
           h == Head(mConnections)
<1>1. Len(mConnections) \in Nat \ {0} /\ h = mConnections[1]
  BY EmptySeq
<1>2. /\ h \in S /\ t \in Seq(S) /\ Len(t) = Len(mConnections) - 1
      /\ \A i \in 1..Len(t) : t[i] = mConnections[i+1]
  BY HeadTailProperties
<1>3. /\ Append(t, h) \in Seq(S) /\ Len(Append(t, h)) = Len(t) + 1
      /\ \A i \in 1..Len(t) : Append(t, h)[i] = t[i]
      /\ Append(t, h)[Len(t) + 1] = h
  BY <1>2, AppendProperties
<1>4. Rotated = Append(t, h)
  BY DEF Rotated
<1> HIDE DEF t, h
<1> QED BY <1>1, <1>2, <1>3, <1>4
-----------------------------------------------------------------------------
(* Layer 1: types, and who holds the mutex.                                *)

\* The mutex is held across a step by the background thread while it services
\* the head of the list, and by a caller in the middle of AddConnection.
MutexInv ==
  /\ bgPC = "service" <=> mWorkMutex = BG
  /\ bgPC = "service" => mConnections # <<>>
  /\ \A t \in Threads : fgPC[t] = "push" <=> mWorkMutex = t

Inv1 == TypeOK /\ MutexInv

LEMMA Inv1Init == Init => Inv1
<1> SUFFICES ASSUME Init PROVE Inv1
  OBVIOUS
<1>1. TypeOK
  <2>1. mConnections \in Seq(Wrappers)
    BY EmptySeq DEF Init
  <2>2. \A t \in Threads : fgConn[t] \in Wrappers <=> fgPC[t] \in InMethod
    BY ThreadsAssumption DEF Init, InMethod
  <2> QED BY <2>1, <2>2, ThreadsAssumption DEF Init, TypeOK, InMethod
<1>2. MutexInv
  BY HolderAssumption DEF Init, MutexInv, BG, Free
<1> QED BY <1>1, <1>2 DEF Inv1

LEMMA Inv1Step == Inv1 /\ [Next]_vars => Inv1'
<1> SUFFICES ASSUME Inv1, [Next]_vars PROVE Inv1'
  OBVIOUS
<1> USE ThreadsAssumption, PeriodAssumption, HolderAssumption
        DEF Inv1, TypeOK, MutexInv, BG, Free, InMethod
<1>1. CASE BGCheck
  BY <1>1 DEF BGCheck, fgVars, envVars
<1>2. CASE BGWait
  <2>1. timeOut' \in Nat
    BY <1>2, EmptySeq DEF BGWait, Deadline
  <2> QED BY <1>2, <2>1 DEF BGWait, fgVars, envVars
<1>3. CASE BGTimeout
  BY <1>3 DEF BGTimeout, fgVars, envVars
<1>4. CASE BGSpurious
  BY <1>4 DEF BGSpurious, fgVars, envVars
<1>5. CASE BGLoop
  BY <1>5 DEF BGLoop, LoopAgain, fgVars, envVars
<1>6. CASE BGServe
  BY <1>6 DEF BGServe, fgVars, envVars
<1>7. CASE BGService
  <2>1. mConnections' \in Seq(Wrappers) /\ Head(mConnections) \in Wrappers
    BY <1>7, RotatedFacts, HeadTailProperties DEF BGService
  <2> QED BY <1>7, <2>1 DEF BGService, SetTimeoutTime, EndOfTurn, LoopAgain, fgVars
<1>8. CASE BGThrow
  BY <1>8 DEF BGThrow, bgVars, fgVars
<1>9. ASSUME NEW t \in Threads, Operation(t) PROVE Inv1'
  <2>1. ASSUME NEW w \in Wrappers, Connect(t, w) PROVE Inv1'
    BY <2>1 DEF Connect, Calls, Goes, bgVars, envVars
  <2>2. ASSUME NEW w \in Wrappers, RemoveReadSize(t, w) PROVE Inv1'
    BY <2>2 DEF RemoveReadSize, SizeSeen, Calls, Goes, bgVars, envVars
  <2>3. CASE RemoveErase(t)
    <3>1. PICK i \in EraseAt(t) :
            /\ mConnections' = RemoveAt(mConnections, i)
            /\ due' = [due EXCEPT ![mConnections[i]] = 0]
      BY <2>3 DEF RemoveErase
    <3>2. i \in DOMAIN mConnections
      BY <3>1 DEF EraseAt
    <3>3. mConnections' \in Seq(Wrappers) /\ mConnections[i] \in Wrappers
      BY <3>1, <3>2, RemoveAtFacts
    <3>4. fgConn[t] \in Wrappers
      BY <2>3 DEF RemoveErase
    <3>5. TypeOK'
      <4>1. fgPC' \in [Threads -> InMethod \cup {"idle", "stop", "join"}]
        BY <2>3 DEF RemoveErase, Goes
      <4>2. \A u \in Threads : fgConn'[u] \in Wrappers <=> fgPC'[u] \in InMethod
        BY <2>3, <3>4 DEF RemoveErase, Goes
      <4>3. bgPC' \in {"none", "check", "enter", "wait", "signalled", "timedout", "service",
                       "done"} /\ timeOut' \in Nat
        BY <2>3 DEF RemoveErase, NotifyOne
      <4>4. due' \in [Wrappers -> Nat] /\ fgIndex' \in [Threads -> Nat]
        BY <2>3, <3>1, <3>3 DEF RemoveErase
      <4> QED BY <2>3, <3>3, <4>1, <4>2, <4>3, <4>4 DEF RemoveErase, envVars
    <3>6. MutexInv'
      BY <2>3 DEF RemoveErase, NotifyOne, Goes, envVars
    <3> QED BY <3>5, <3>6
  <2>4. CASE RemoveThrow(t)
    BY <2>4 DEF RemoveThrow, Leaves, Goes, bgVars, envVars
  <2>5. CASE OpReturn(t)
    BY <2>5 DEF OpReturn, Goes, bgVars
  <2>6. CASE OpThrow(t)
    BY <2>6 DEF OpThrow, Leaves, Goes, bgVars, envVars
  <2>7. CASE OpDisconnect(t)
    BY <2>7 DEF OpDisconnect, Leaves, Goes, bgVars
  <2>8. CASE OpNullContext(t)
    BY <2>8 DEF OpNullContext, bgVars, fgVars
  <2>9. CASE AddEnter(t)
    <3>1. bgPC' # "service" /\ mWorkMutex' = t
      BY <2>9 DEF AddEnter, StartBackGroundTask, joinable
    <3>2. MutexInv'
      BY <2>9, <3>1 DEF AddEnter, Goes, envVars
    <3>3. TypeOK'
      <4>1. fgPC' \in [Threads -> InMethod \cup {"idle", "stop", "join"}]
        BY <2>9 DEF AddEnter, Goes
      <4>2. \A u \in Threads : fgConn'[u] \in Wrappers <=> fgPC'[u] \in InMethod
        BY <2>9 DEF AddEnter, Goes
      <4>3. mStop' \in BOOLEAN /\ bgPC' \in {"none", "check", "enter", "wait", "signalled",
                                            "timedout", "service", "done"}
        BY <2>9 DEF AddEnter, StartBackGroundTask, joinable
      <4> QED BY <2>9, <3>1, <4>1, <4>2, <4>3 DEF AddEnter, envVars
    <3> QED BY <3>2, <3>3
  <2>10. CASE AddPush(t)
    <3>1. fgConn[t] \in Wrappers
      BY <2>10 DEF AddPush
    <3>2. mConnections' \in Seq(Wrappers) /\ mConnections' # <<>>
      BY <2>10, <3>1, AppendProperties DEF AddPush
    <3>3. TypeOK'
      <4>1. fgPC' \in [Threads -> InMethod \cup {"idle", "stop", "join"}]
        BY <2>10 DEF AddPush, Leaves, Goes
      <4>2. /\ fgConn' \in [Threads -> Wrappers \cup {NoWrapper}]
            /\ \A u \in Threads : fgConn'[u] \in Wrappers <=> fgPC'[u] \in InMethod
        BY <2>10 DEF AddPush, Leaves, Goes
      <4>3. bgPC' \in {"none", "check", "enter", "wait", "signalled", "timedout", "service",
                       "done"} /\ timeOut' \in Nat
        BY <2>10 DEF AddPush, NotifyOne
      <4>4. due' \in [Wrappers -> Nat]
        BY <2>10, <3>1 DEF AddPush, SetTimeoutTime
      <4> QED BY <2>10, <3>2, <4>1, <4>2, <4>3, <4>4 DEF AddPush, envVars
    <3>4. MutexInv'
      BY <2>10, <3>2 DEF AddPush, NotifyOne, Leaves, Goes, envVars
    <3> QED BY <3>3, <3>4
  <2> QED
    BY <1>9, <2>1, <2>2, <2>3, <2>4, <2>5, <2>6, <2>7, <2>8, <2>9, <2>10 DEF Operation
<1>10. CASE StopCheck
  BY <1>10 DEF StopCheck, Goes, bgVars, envVars
<1>11. CASE Exit
  BY <1>11 DEF Exit, Goes, bgVars
<1>12. CASE StopSignal
  BY <1>12 DEF StopSignal, NotifyOne, Goes, envVars
<1>13. CASE StopJoin
  BY <1>13 DEF StopJoin, Goes
<1>14. CASE Tick
  BY <1>14 DEF Tick, Less, fgVars, envVars
<1>15. ASSUME NEW w \in Wrappers, Destroy(w) \/ TargetNop(w) \/ TargetClose(w)
       PROVE  Inv1'
  <2>1. CASE Destroy(w)
    BY <2>1 DEF Destroy, bgVars, fgVars
  <2>2. CASE TargetNop(w)
    BY <2>2 DEF TargetNop, bgVars, fgVars
  <2>3. CASE TargetClose(w)
    BY <2>3 DEF TargetClose, bgVars, fgVars
  <2> QED BY <1>15, <2>1, <2>2, <2>3
<1>16. CASE UNCHANGED vars
  BY <1>16 DEF vars, bgVars, fgVars, envVars
<1>17. ASSUME NEW w \in Wrappers, ConnectNullContext(w) PROVE Inv1'
  BY <1>17 DEF ConnectNullContext, bgVars, fgVars
<1> QED
  BY <1>1, <1>2, <1>3, <1>4, <1>5, <1>6, <1>7, <1>8, <1>9, <1>10, <1>11, <1>12, <1>13,
     <1>14, <1>15, <1>16, <1>17 DEF Next, Background, Stopping, Environment, Over
-----------------------------------------------------------------------------
(* Layer 2: who holds which connection.                                    *)

Distinct(s) == \A i, j \in DOMAIN s : s[i] = s[j] => i = j

\* What the three changes of the list do to its elements.
LEMMA EraseElements ==
  ASSUME NEW S, NEW s \in Seq(S), Distinct(s), NEW i \in DOMAIN s
  PROVE  /\ Distinct(RemoveAt(s, i))
         /\ ToSet(RemoveAt(s, i)) = ToSet(s) \ {s[i]}
<1> DEFINE r == RemoveAt(s, i)
<1>1. /\ r \in Seq(S) /\ Len(r) = Len(s) - 1
      /\ \A j \in 1..(Len(s) - 1) : r[j] = IF j < i THEN s[j] ELSE s[j + 1]
  BY RemoveAtFacts
<1> HIDE DEF r
<1>2. DOMAIN s = 1..Len(s) /\ DOMAIN r = 1..(Len(s) - 1) /\ Len(s) \in Nat
  BY <1>1
<1>3. Distinct(r)
  <2>1. SUFFICES ASSUME NEW j \in DOMAIN r, NEW k \in DOMAIN r, r[j] = r[k] PROVE j = k
    BY DEF Distinct
  <2> DEFINE from(x) == IF x < i THEN x ELSE x + 1
  <2>2. from(j) \in DOMAIN s /\ from(k) \in DOMAIN s
    BY <1>2
  <2>3. r[j] = s[from(j)] /\ r[k] = s[from(k)]
    BY <1>1, <1>2
  <2>4. from(j) = from(k)
    BY <2>1, <2>2, <2>3 DEF Distinct
  <2> QED BY <1>2, <2>4
<1>4. ASSUME NEW j \in DOMAIN r PROVE r[j] \in ToSet(s) \ {s[i]}
  BY <1>1, <1>2 DEF ToSet, Distinct
<1>5. ASSUME NEW j \in DOMAIN s, s[j] # s[i] PROVE s[j] \in ToSet(r)
  <2>1. CASE j < i
    <3>1. j \in DOMAIN r /\ r[j] = s[j]
      BY <1>1, <1>2, <2>1
    <3> QED BY <3>1 DEF ToSet
  <2>2. CASE j > i
    <3>1. j - 1 \in 1..(Len(s) - 1) /\ ~(j - 1 < i) /\ (j - 1) + 1 = j
      BY <1>2, <2>2
    <3>2. r[j - 1] = s[j]
      BY <1>1, <3>1
    <3> QED BY <1>2, <3>1, <3>2 DEF ToSet
  <2> QED BY <1>2, <1>5, <2>1, <2>2
<1>6. ToSet(r) = ToSet(s) \ {s[i]}
  BY <1>4, <1>5 DEF ToSet
<1> QED BY <1>3, <1>6 DEF r

LEMMA AppendElements ==
  ASSUME NEW S, NEW s \in Seq(S), Distinct(s), NEW e \in S, e \notin ToSet(s)
  PROVE  /\ Distinct(Append(s, e))
         /\ ToSet(Append(s, e)) = ToSet(s) \cup {e}
<1> DEFINE r == Append(s, e)
<1>1. /\ r \in Seq(S) /\ Len(r) = Len(s) + 1
      /\ \A j \in 1..Len(s) : r[j] = s[j]
      /\ r[Len(s) + 1] = e
  BY AppendProperties
<1> HIDE DEF r
<1>2. DOMAIN s = 1..Len(s) /\ DOMAIN r = 1..(Len(s) + 1) /\ Len(s) \in Nat
  BY <1>1
<1>3. Distinct(r)
  BY <1>1, <1>2 DEF Distinct, ToSet
<1>4. ToSet(r) \subseteq ToSet(s) \cup {e}
  BY <1>1, <1>2 DEF ToSet
<1>5. ToSet(s) \cup {e} \subseteq ToSet(r)
  BY <1>1, <1>2 DEF ToSet
<1>6. ToSet(r) = ToSet(s) \cup {e}
  BY <1>4, <1>5
<1> QED BY <1>3, <1>6 DEF r

LEMMA RotatedElements ==
  ASSUME NEW S, mConnections \in Seq(S), mConnections # <<>>, Distinct(mConnections)
  PROVE  Distinct(Rotated) /\ ToSet(Rotated) = ToSet(mConnections)
<1> DEFINE s == mConnections
           n == Len(mConnections)
<1>1. /\ Rotated \in Seq(S) /\ Len(Rotated) = n
      /\ \A j \in 1..(n - 1) : Rotated[j] = s[j + 1]
      /\ Rotated[n] = s[1]
  BY RotatedFacts
<1>2. n \in Nat \ {0} /\ DOMAIN s = 1..n /\ DOMAIN Rotated = 1..n
  BY <1>1, EmptySeq
<1> HIDE DEF n
<1>3. \A j \in 1..n : Rotated[j] = s[IF j < n THEN j + 1 ELSE 1]
  BY <1>1, <1>2
<1>4. Distinct(Rotated)
  <2>1. SUFFICES ASSUME NEW j \in 1..n, NEW k \in 1..n, Rotated[j] = Rotated[k] PROVE j = k
    BY <1>2 DEF Distinct
  <2> DEFINE from(x) == IF x < n THEN x + 1 ELSE 1
  <2>2. from(j) \in DOMAIN s /\ from(k) \in DOMAIN s
    BY <1>2
  <2>3. Rotated[j] = s[from(j)] /\ Rotated[k] = s[from(k)]
    BY <1>3
  <2>4. from(j) = from(k)
    BY <2>1, <2>2, <2>3 DEF Distinct
  <2> QED BY <1>2, <2>4
<1>5. ToSet(Rotated) \subseteq ToSet(s)
  BY <1>2, <1>3 DEF ToSet
<1>6. ASSUME NEW j \in 1..n PROVE s[j] \in ToSet(Rotated)
  <2>1. CASE j = 1
    BY <1>2, <1>3, <2>1 DEF ToSet
  <2>2. CASE j # 1
    <3>1. j - 1 \in 1..n /\ (j - 1) < n /\ (j - 1) + 1 = j
      BY <1>2, <2>2
    <3>2. Rotated[j - 1] = s[j]
      BY <1>3, <3>1
    <3> QED BY <1>2, <3>1, <3>2 DEF ToSet
  <2> QED BY <2>1, <2>2
<1>7. ToSet(s) \subseteq ToSet(Rotated)
  BY <1>2, <1>6 DEF ToSet
<1> QED BY <1>4, <1>5, <1>7

\* A thread runs the methods of its own wrappers only.
OwnerInv == \A t \in Threads : fgConn[t] \in Wrappers => Owner[fgConn[t]] = t

\* A wrapper without a context is neither listed nor about to be.
ContextInv ==
  /\ \A w \in Registered : mIscsi[w] # "null"
  /\ \A t \in Threads : fgPC[t] \in {"add", "push"} => mIscsi[fgConn[t]] # "null"

Inv2 == OwnerInv /\ ContextInv /\ OffTheListInUse

LEMMA Inv2Init == Init => Inv2
<1> SUFFICES ASSUME Init PROVE Inv2
  OBVIOUS
<1>1. OwnerInv
  BY ThreadsAssumption DEF Init, OwnerInv
<1>2. Registered = {}
  BY DEF Init, Registered, ToSet
<1>3. ContextInv
  BY <1>2 DEF Init, ContextInv
<1>4. OffTheListInUse
  BY <1>2, ThreadsAssumption DEF Init, OffTheListInUse, InUse, Using
<1> QED BY <1>1, <1>3, <1>4 DEF Inv2

\* The steps that leave alone everything Inv2 is about.
LEMMA Inv2Same == Inv2 /\ UNCHANGED <<mConnections, fgPC, fgConn, mIscsi>> => Inv2'
BY DEF Inv2, OwnerInv, ContextInv, OffTheListInUse, Registered, InUse, Using

LEMMA Inv2Step == Inv1 /\ Inv2 /\ [Next]_vars => Inv2'
<1> SUFFICES ASSUME Inv1, Inv2, [Next]_vars PROVE Inv2'
  OBVIOUS
<1> DEFINE Same == UNCHANGED <<mConnections, fgPC, fgConn, mIscsi>>
<1>1. TypeOK /\ MutexInv /\ Distinct(mConnections) /\ Registered \subseteq Wrappers
  BY DEF Inv1, Inv2, OffTheListInUse, Distinct, TypeOK, Registered, ToSet
<1>2. CASE BGCheck \/ BGWait \/ BGTimeout \/ BGSpurious \/ BGLoop \/ BGServe \/ BGThrow
  <2>1. Same
    BY <1>2 DEF BGCheck, BGWait, BGTimeout, BGSpurious, BGLoop, BGServe, BGThrow, fgVars
  <2> QED BY <2>1, Inv2Same
<1>3. CASE BGService
  <2>1. mConnections # <<>> /\ mConnections \in Seq(Wrappers)
    BY <1>1, <1>3 DEF BGService, MutexInv, TypeOK
  <2>2. Distinct(mConnections') /\ Registered' = Registered
    BY <1>1, <1>3, <2>1, RotatedElements DEF BGService, Registered
  <2> QED
    BY <1>3, <2>2 DEF BGService, fgVars, Inv2, OwnerInv, ContextInv, OffTheListInUse,
                      Distinct, InUse, Using
<1>4. ASSUME NEW t \in Threads, Operation(t) PROVE Inv2'
  <2> USE ThreadsAssumption, <1>1
      DEF Inv2, OwnerInv, ContextInv, OffTheListInUse, InUse, Using, TypeOK
  <2>1. ASSUME NEW w \in Wrappers, Connect(t, w) PROVE Inv2'
    BY <2>1 DEF Connect, Calls, Goes, Registered, InMethod
  <2>2. ASSUME NEW w \in Wrappers, RemoveReadSize(t, w) PROVE Inv2'
    BY <2>2 DEF RemoveReadSize, Calls, Goes, Registered, InMethod
  <2>3. CASE RemoveErase(t)
    <3>1. PICK i \in EraseAt(t) : mConnections' = RemoveAt(mConnections, i)
      BY <2>3 DEF RemoveErase
    <3>2. i \in DOMAIN mConnections
          /\ (fgConn[t] \in Registered => mConnections[i] = fgConn[t])
      BY <3>1 DEF EraseAt
    <3>3. Distinct(mConnections') /\ Registered' = Registered \ {mConnections[i]}
      BY <3>1, <3>2, EraseElements DEF Registered
    <3>4. fgConn[t] \notin Registered' /\ Registered' \subseteq Registered
      BY <3>2, <3>3
    <3> QED BY <2>3, <3>3, <3>4 DEF RemoveErase, Goes, InMethod, Distinct
  <2>4. CASE RemoveThrow(t)
    BY <2>4 DEF RemoveThrow, Leaves, Goes, Registered
  <2>5. CASE OpReturn(t)
    BY <2>5 DEF OpReturn, Goes, Registered
  <2>6. CASE OpThrow(t)
    BY <2>6 DEF OpThrow, Leaves, Goes, Registered
  <2>7. CASE OpDisconnect(t)
    BY <2>7 DEF OpDisconnect, Leaves, Goes, Registered, InMethod
  <2>8. CASE OpNullContext(t)
    BY <2>8, Inv2Same DEF OpNullContext, fgVars
  <2>9. CASE AddEnter(t)
    BY <2>9 DEF AddEnter, Goes, Registered
  <2>10. CASE AddPush(t)
    <3>1. fgConn[t] \in Wrappers /\ Owner[fgConn[t]] = t
      BY <2>10 DEF AddPush, InMethod
    <3>2. fgConn[t] \notin Registered /\ mIscsi[fgConn[t]] # "null"
      BY <2>10, <3>1 DEF AddPush
    <3>3. Distinct(mConnections') /\ Registered' = Registered \cup {fgConn[t]}
      BY <2>10, <3>1, <3>2, AppendElements DEF AddPush, Registered
    <3> QED BY <2>10, <3>1, <3>2, <3>3 DEF AddPush, Leaves, Goes, Distinct
  <2> QED
    BY <1>4, <2>1, <2>2, <2>3, <2>4, <2>5, <2>6, <2>7, <2>8, <2>9, <2>10 DEF Operation
<1>5. CASE Stopping
  <2> USE <1>1 DEF Inv2, OwnerInv, ContextInv, OffTheListInUse, InUse, Using, TypeOK,
                   Registered, Goes
  <2>1. CASE StopCheck
    BY <2>1 DEF StopCheck
  <2>2. CASE Exit
    <3>1. CASE MayStop
      BY <2>2, <3>1, ThreadsAssumption DEF Exit
    <3>2. CASE ~MayStop
      BY <2>2, <3>2, Inv2Same DEF Exit
    <3> QED BY <3>1, <3>2
  <2>3. CASE StopSignal
    BY <2>3 DEF StopSignal
  <2>4. CASE StopJoin
    BY <2>4 DEF StopJoin
  <2> QED BY <1>5, <2>1, <2>2, <2>3, <2>4 DEF Stopping
<1>6. CASE Tick
  BY <1>6, Inv2Same DEF Tick, fgVars
<1>7. ASSUME NEW w \in Wrappers, Destroy(w) \/ TargetNop(w) \/ TargetClose(w)
      PROVE  Inv2'
  <2>1. CASE Destroy(w)
    <3>1. UNCHANGED <<mConnections, fgPC, fgConn>> /\ Registered' = Registered
      BY <2>1 DEF Destroy, fgVars, Registered
    <3>2. \A v \in Wrappers : mIscsi[v] # "null" => mIscsi'[v] # "null"
      BY <1>1, <2>1 DEF Destroy, TypeOK
    <3>3. \A t \in Threads : fgPC[t] \in {"add", "push"} => fgConn[t] \in Wrappers
      BY <1>1 DEF TypeOK, InMethod
    <3>4. ContextInv'
      BY <1>1, <3>1, <3>2, <3>3 DEF Inv2, ContextInv
    <3> QED
      BY <3>1, <3>4 DEF Inv2, OwnerInv, OffTheListInUse, InUse, Using
  <2>2. CASE TargetNop(w)
    BY <2>2, Inv2Same DEF TargetNop, fgVars
  <2>3. CASE TargetClose(w)
    BY <2>3, Inv2Same DEF TargetClose, fgVars
  <2> QED BY <1>7, <2>1, <2>2, <2>3
<1>8. CASE UNCHANGED vars
  BY <1>8, Inv2Same DEF vars, fgVars
<1>9. ASSUME NEW w \in Wrappers, ConnectNullContext(w) PROVE Inv2'
  BY <1>9, Inv2Same DEF ConnectNullContext, fgVars
<1> QED
  BY <1>2, <1>3, <1>4, <1>5, <1>6, <1>7, <1>8, <1>9 DEF Next, Background, Environment, Over
-----------------------------------------------------------------------------
(* Layer 3: deadlines.                                                     *)

\* SetTimeoutTime never puts a deadline further away than Period.
DueInv == \A w \in Wrappers : due[w] <= Period

Inv3 == DueInv /\ SortedByDeadline /\ NeverOversleeps

LEMMA Inv3Init == Init => Inv3
BY PeriodAssumption
DEF Init, Inv3, DueInv, SortedByDeadline, NeverOversleeps

\* The steps that leave the list and the deadlines alone, and do not start a sleep.
LEMMA Inv3Same ==
  Inv3 /\ UNCHANGED <<mConnections, due, timeOut>> /\ (bgPC' = "wait" => bgPC = "wait")
  => Inv3'
BY DEF Inv3, DueInv, SortedByDeadline, NeverOversleeps, Registered

LEMMA LessFacts ==
  ASSUME NEW m \in Nat
  PROVE  Less(m) \in Nat /\ Less(m) <= m /\ (\A n \in Nat : m <= n => Less(m) <= Less(n))
BY DEF Less

\* NotifyOne never leaves the thread asleep.
LEMMA NotifyOneWakes == NotifyOne => bgPC' # "wait"
BY DEF NotifyOne

LEMMA Inv3Step == Inv1 /\ Inv2 /\ Inv3 /\ [Next]_vars => Inv3'
<1> SUFFICES ASSUME Inv1, Inv2, Inv3, [Next]_vars PROVE Inv3'
  OBVIOUS
<1> DEFINE s == mConnections
           n == Len(mConnections)
<1>1. /\ s \in Seq(Wrappers) /\ n \in Nat /\ DOMAIN s = 1..n
      /\ \A j \in 1..n : s[j] \in Wrappers
      /\ due \in [Wrappers -> Nat] /\ Distinct(s)
      /\ Registered = {s[j] : j \in 1..n}
  BY DEF Inv1, TypeOK, Inv2, OffTheListInUse, Distinct, Registered, ToSet
<1>2. /\ DueInv /\ NeverOversleeps
      /\ \A i, j \in 1..n : i < j => due[s[i]] <= due[s[j]]
      /\ \A i, j \in 1..n : i # j => s[i] # s[j]
  BY <1>1 DEF Inv3, SortedByDeadline, Distinct
<1>3. CASE BGWait
  <2>1. Registered' = Registered /\ SortedByDeadline'
    BY <1>1, <1>2, <1>3 DEF BGWait, SortedByDeadline, Registered
  <2>2. \A w \in Registered : timeOut' <= due[w]
    <3>1. SUFFICES ASSUME NEW j \in 1..n PROVE timeOut' <= due[s[j]]
      BY <1>1
    <3>2. s # <<>> /\ 1 \in 1..n /\ timeOut' = due[s[1]]
      BY <1>1, <1>3, <3>1, EmptySeq DEF BGWait, Deadline
    <3>3. CASE j = 1
      BY <1>1, <3>2, <3>3
    <3>4. CASE 1 < j
      BY <1>2, <3>2, <3>4
    <3> QED BY <1>1, <3>3, <3>4
  <2> QED BY <1>2, <1>3, <2>1, <2>2 DEF BGWait, Inv3, DueInv, NeverOversleeps
<1>4. CASE BGService
  <2>1. s # <<>> /\ n \in Nat \ {0} /\ Head(s) = s[1]
    BY <1>1, <1>4, EmptySeq DEF BGService, Inv1, MutexInv
  <2>2. /\ DOMAIN mConnections' = 1..n
        /\ \A j \in 1..(n - 1) : mConnections'[j] = s[j + 1]
        /\ mConnections'[n] = s[1]
    BY <1>1, <1>4, <2>1, RotatedFacts DEF BGService
  <2>3. due' = [due EXCEPT ![s[1]] = Period] /\ bgPC' # "wait"
    BY <1>4, <2>1 DEF BGService, SetTimeoutTime, EndOfTurn, LoopAgain
  <2> HIDE DEF n, s
  <2>4. DueInv'
    BY <1>1, <1>2, <2>3, PeriodAssumption DEF DueInv
  <2>5. ASSUME NEW i \in 1..n, NEW j \in 1..n, i < j
        PROVE  due'[mConnections'[i]] <= due'[mConnections'[j]]
    <3>1. i \in 1..(n - 1) /\ i + 1 \in 1..n /\ i + 1 # 1
      BY <1>1, <2>5
    <3>2. mConnections'[i] = s[i + 1] /\ s[i + 1] # s[1]
      <4>1. 1 \in 1..n
        BY <2>1
      <4> QED BY <1>2, <2>2, <3>1, <4>1
    <3>3. due'[mConnections'[i]] = due[s[i + 1]]
      BY <1>1, <2>3, <3>1, <3>2
    <3>4. CASE j = n
      <4>1. due'[mConnections'[j]] = Period
        BY <1>1, <2>1, <2>2, <2>3, <3>4
      <4> QED BY <1>1, <1>2, <3>1, <3>3, <4>1 DEF DueInv
    <3>5. CASE j # n
      <4>1. j \in 1..(n - 1) /\ j + 1 \in 1..n /\ j + 1 # 1 /\ i + 1 < j + 1
        BY <1>1, <2>5, <3>5
      <4>2. mConnections'[j] = s[j + 1] /\ s[j + 1] # s[1]
        <5>1. 1 \in 1..n
          BY <2>1
        <5> QED BY <1>2, <2>2, <4>1, <5>1
      <4>3. due'[mConnections'[j]] = due[s[j + 1]]
        BY <1>1, <2>3, <4>1, <4>2
      <4> QED BY <1>2, <3>1, <3>3, <4>1, <4>3
    <3> QED BY <3>4, <3>5
  <2> QED BY <2>2, <2>3, <2>4, <2>5 DEF Inv3, SortedByDeadline, NeverOversleeps
<1>5. ASSUME NEW t \in Threads, RemoveErase(t) PROVE Inv3'
  <2>1. PICK i \in EraseAt(t) :
          mConnections' = RemoveAt(s, i) /\ due' = [due EXCEPT ![s[i]] = 0]
    BY <1>5 DEF RemoveErase
  <2>2. i \in 1..n /\ bgPC' # "wait"
    BY <1>1, <1>5, <2>1, NotifyOneWakes DEF EraseAt, RemoveErase
  <2>3. /\ DOMAIN mConnections' = 1..(n - 1)
        /\ \A j \in 1..(n - 1) : mConnections'[j] = IF j < i THEN s[j] ELSE s[j + 1]
    <3>1. i \in DOMAIN mConnections
      BY <1>1, <2>2
    <3>2. /\ mConnections' \in Seq(Wrappers) /\ Len(mConnections') = n - 1
          /\ \A j \in 1..(n - 1) : mConnections'[j] = IF j < i THEN s[j] ELSE s[j + 1]
      BY <1>1, <2>1, <3>1, RemoveAtFacts
    <3>3. DOMAIN mConnections' = 1..Len(mConnections')
      BY <3>2
    <3> QED BY <3>2, <3>3
  <2> HIDE DEF n, s
  <2>4. DueInv'
    BY <1>1, <1>2, <2>1, PeriodAssumption DEF DueInv
  <2> DEFINE from(x) == IF x < i THEN x ELSE x + 1
  <2>5. ASSUME NEW j \in 1..(n - 1)
        PROVE  from(j) \in 1..n /\ due'[mConnections'[j]] = due[s[from(j)]]
    <3>1. from(j) \in 1..n /\ from(j) # i
      BY <1>1, <2>2, <2>5
    <3>2. mConnections'[j] = s[from(j)]
      BY <2>3, <2>5
    <3>3. s[from(j)] # s[i]
      BY <1>2, <2>2, <3>1
    <3> QED BY <1>1, <2>1, <3>1, <3>2, <3>3
  <2>6. ASSUME NEW j \in 1..(n - 1), NEW k \in 1..(n - 1), j < k
        PROVE  due'[mConnections'[j]] <= due'[mConnections'[k]]
    <3>1. from(j) < from(k)
      BY <1>1, <2>2, <2>6
    <3> QED BY <1>2, <2>5, <3>1
  <2> QED BY <2>2, <2>3, <2>4, <2>6 DEF Inv3, SortedByDeadline, NeverOversleeps
<1>6. ASSUME NEW t \in Threads, AddPush(t) PROVE Inv3'
  <2> DEFINE e == fgConn[t]
  <2>1. e \in Wrappers /\ Owner[e] = t
    BY <1>6 DEF AddPush, Inv1, TypeOK, InMethod, Inv2, OwnerInv
  <2>2. e \notin Registered
    BY <1>6, <2>1 DEF AddPush, Inv2, OffTheListInUse, InUse, Using
  <2>3. /\ mConnections' = Append(s, e) /\ due' = [due EXCEPT ![e] = Period]
        /\ bgPC' # "wait"
    BY <1>6, NotifyOneWakes DEF AddPush, SetTimeoutTime
  <2>4. /\ DOMAIN mConnections' = 1..(n + 1)
        /\ \A j \in 1..n : mConnections'[j] = s[j]
        /\ mConnections'[n + 1] = e
    BY <1>1, <2>1, <2>3, AppendProperties
  <2> HIDE DEF n, s, e
  <2>5. DueInv'
    BY <1>1, <1>2, <2>3, PeriodAssumption DEF DueInv
  <2>6. ASSUME NEW j \in 1..n PROVE due'[mConnections'[j]] = due[s[j]]
    <3>1. s[j] # e /\ s[j] \in Wrappers
      BY <1>1, <2>2
    <3> QED BY <1>1, <2>3, <2>4, <3>1
  <2>7. ASSUME NEW j \in 1..(n + 1), NEW k \in 1..(n + 1), j < k
        PROVE  due'[mConnections'[j]] <= due'[mConnections'[k]]
    <3>1. j \in 1..n /\ due'[mConnections'[j]] = due[s[j]]
      BY <1>1, <2>6, <2>7
    <3>2. CASE k = n + 1
      <4>1. due'[mConnections'[k]] = Period
        BY <1>1, <2>1, <2>3, <2>4, <3>2
      <4> QED BY <1>1, <1>2, <3>1, <4>1 DEF DueInv
    <3>3. CASE k # n + 1
      <4>1. k \in 1..n
        BY <1>1, <3>3
      <4> QED BY <1>2, <2>6, <2>7, <3>1, <4>1
    <3> QED BY <3>2, <3>3
  <2> QED BY <2>3, <2>4, <2>5, <2>7 DEF Inv3, SortedByDeadline, NeverOversleeps
<1>7. CASE Tick
  <2>1. /\ mConnections' = mConnections /\ bgPC' = bgPC
        /\ timeOut' = Less(timeOut) /\ due' = [w \in Wrappers |-> Less(due[w])]
    BY <1>7 DEF Tick
  <2>2. Registered \subseteq Wrappers /\ timeOut \in Nat
    BY <1>1 DEF Inv1, TypeOK
  <2>3. DueInv'
    BY <1>1, <1>2, <2>1, LessFacts, PeriodAssumption DEF DueInv
  <2>4. SortedByDeadline'
    BY <1>1, <1>2, <2>1, LessFacts DEF SortedByDeadline
  <2>5. NeverOversleeps'
    BY <1>1, <1>2, <2>1, <2>2, LessFacts DEF NeverOversleeps, Registered
  <2> QED BY <2>3, <2>4, <2>5 DEF Inv3
<1>8. CASE BGCheck \/ BGTimeout \/ BGLoop \/ BGServe \/ BGThrow
  BY <1>8, Inv3Same DEF BGCheck, BGTimeout, BGLoop, LoopAgain, BGServe, BGThrow, bgVars
<1>9. CASE BGSpurious
  BY <1>9 DEF BGSpurious, Inv3, DueInv, SortedByDeadline, NeverOversleeps
<1>10. ASSUME NEW t \in Threads, NEW w \in Wrappers, Connect(t, w) \/ RemoveReadSize(t, w)
       PROVE  Inv3'
  BY <1>10, Inv3Same DEF Connect, RemoveReadSize, bgVars
<1>11. ASSUME NEW t \in Threads,
              \/ RemoveThrow(t) \/ OpReturn(t) \/ OpThrow(t) \/ OpDisconnect(t)
              \/ OpNullContext(t) \/ AddEnter(t)
       PROVE  Inv3'
  BY <1>11, Inv3Same
  DEF RemoveThrow, OpReturn, OpThrow, OpDisconnect, OpNullContext, AddEnter,
      StartBackGroundTask, bgVars
<1>12. CASE Stopping
  <2>1. CASE StopCheck \/ Exit \/ StopJoin
    BY <2>1, Inv3Same DEF StopCheck, Exit, StopJoin, bgVars
  <2>2. CASE StopSignal
    <3>1. UNCHANGED <<mConnections, due>> /\ bgPC' # "wait"
      BY <2>2, NotifyOneWakes DEF StopSignal
    <3> QED BY <3>1 DEF Inv3, DueInv, SortedByDeadline, NeverOversleeps
  <2> QED BY <1>12, <2>1, <2>2 DEF Stopping
<1>13. ASSUME NEW w \in Wrappers, Destroy(w) \/ TargetNop(w) \/ TargetClose(w)
       PROVE  Inv3'
  BY <1>13, Inv3Same DEF Destroy, TargetNop, TargetClose, bgVars
<1>14. CASE UNCHANGED vars
  BY <1>14, Inv3Same DEF vars, bgVars
<1>15. ASSUME NEW w \in Wrappers, ConnectNullContext(w) PROVE Inv3'
  BY <1>15, Inv3Same DEF ConnectNullContext, bgVars
<1> QED
  BY <1>3, <1>4, <1>5, <1>6, <1>7, <1>8, <1>9, <1>10, <1>11, <1>12, <1>13, <1>14, <1>15
  DEF Next, Background, Operation, Environment, Over
-----------------------------------------------------------------------------
(* Layer 4: programs with one foreground thread.                           *)

OneThread == Threads = {Main}

\* The background thread is stopped with an empty list only, and nothing is
\* added before the join is over.
StopInv ==
  /\ mStop => bgPC = "none" \/ fgPC[Main] = "join"
  /\ bgPC = "done" => mStop
  /\ fgPC[Main] \in {"stop", "join"} => mConnections = <<>> /\ bgPC # "none"
  /\ fgPC[Main] = "push" => bgPC # "none"
  /\ mConnections # <<>> => bgPC # "none"

\* What RemoveConnection took for the size is still no position of the list.
IndexInv == fgPC[Main] = "remove" => fgIndex[Main] >= Len(mConnections)

Inv4 == StopInv /\ IndexInv

LEMMA Inv4Init == Init => Inv4
<1> SUFFICES ASSUME Init PROVE Inv4
  OBVIOUS
<1>1. fgPC[Main] = "idle"
  BY ThreadsAssumption DEF Init
<1> QED BY <1>1 DEF Init, Inv4, StopInv, IndexInv

\* The steps that leave alone everything Inv4 is about.
LEMMA Inv4Same == Inv4 /\ UNCHANGED <<mConnections, mStop, bgPC, fgPC, fgIndex>> => Inv4'
BY DEF Inv4, StopInv, IndexInv

LEMMA Inv4Step ==
  ASSUME OneThread
  PROVE  Inv1 /\ Inv4 /\ [Next]_vars => Inv4'
<1> SUFFICES ASSUME Inv1, Inv4, [Next]_vars PROVE Inv4'
  OBVIOUS
<1>1. /\ Main \in Threads /\ \A t \in Threads : t = Main
      /\ fgPC \in [Threads -> InMethod \cup {"idle", "stop", "join"}]
      /\ fgIndex \in [Threads -> Nat]
      /\ mConnections \in Seq(Wrappers) /\ Len(mConnections) \in Nat
  BY ThreadsAssumption DEF OneThread, Inv1, TypeOK
<1> USE <1>1 DEF Inv4, StopInv, IndexInv
<1>2. CASE BGCheck \/ BGWait \/ BGTimeout \/ BGSpurious \/ BGLoop \/ BGServe \/ BGThrow
  BY <1>2 DEF BGCheck, BGWait, BGTimeout, BGSpurious, BGLoop, LoopAgain, BGServe, BGThrow,
              bgVars, fgVars
<1>3. CASE BGService
  <2>1. mConnections # <<>> /\ mConnections' = Rotated /\ UNCHANGED <<fgPC, fgIndex, mStop>>
    BY <1>3 DEF BGService, Inv1, MutexInv, fgVars
  <2>2. Len(mConnections') = Len(mConnections)
    BY <2>1, RotatedFacts
  <2>3. bgPC' = IF mStop THEN "done" ELSE "check"
    BY <1>3 DEF BGService, EndOfTurn, LoopAgain
  <2> QED BY <2>1, <2>2, <2>3
<1>4. ASSUME NEW t \in Threads, Operation(t) PROVE Inv4'
  <2>1. t = Main
    OBVIOUS
  <2>2. ASSUME NEW w \in Wrappers, Connect(t, w) PROVE Inv4'
    BY <2>1, <2>2 DEF Connect, Calls, Goes, bgVars
  <2>3. ASSUME NEW w \in Wrappers, RemoveReadSize(t, w) PROVE Inv4'
    BY <2>1, <2>3 DEF RemoveReadSize, SizeSeen, Calls, Goes, bgVars
  <2>4. CASE RemoveErase(t)
    <3>1. mConnections # <<>>
      BY <2>4 DEF RemoveErase, EraseAt
    <3>2. /\ fgPC[Main] = "remove" /\ fgPC'[Main] = "using"
          /\ mStop' = mStop /\ (bgPC' = bgPC \/ bgPC' = "signalled")
      BY <2>1, <2>4 DEF RemoveErase, Goes, NotifyOne
    <3>3. bgPC' = "done" => bgPC = "done"
      BY <3>2
    <3> QED BY <3>1, <3>2, <3>3
  <2>5. CASE RemoveThrow(t)
    BY <2>1, <2>5 DEF RemoveThrow, Leaves, Goes, bgVars
  <2>6. CASE OpReturn(t)
    BY <2>1, <2>6 DEF OpReturn, Goes, bgVars
  <2>7. CASE OpThrow(t)
    BY <2>1, <2>7 DEF OpThrow, Leaves, Goes, bgVars
  <2>8. CASE OpDisconnect(t)
    BY <2>1, <2>8 DEF OpDisconnect, Leaves, Goes, bgVars
  <2>9. CASE OpNullContext(t)
    BY <2>9 DEF OpNullContext, bgVars, fgVars
  <2>10. CASE AddEnter(t)
    BY <2>1, <2>10 DEF AddEnter, Goes, StartBackGroundTask, joinable
  <2>11. CASE AddPush(t)
    <3>1. /\ fgPC[Main] = "push" /\ fgPC'[Main] = "idle"
          /\ mStop' = mStop /\ (bgPC' = bgPC \/ bgPC' = "signalled")
      BY <2>1, <2>11 DEF AddPush, Leaves, Goes, NotifyOne
    <3> QED BY <3>1
  <2> QED
    BY <1>4, <2>2, <2>3, <2>4, <2>5, <2>6, <2>7, <2>8, <2>9, <2>10, <2>11 DEF Operation
<1>5. CASE Stopping
  <2>1. CASE StopCheck
    BY <2>1 DEF StopCheck, MayStop, joinable, Goes, bgVars
  <2>2. CASE Exit
    <3>1. CASE MayStop
      BY <2>2, <3>1 DEF Exit, MayStop, joinable, Goes, bgVars
    <3>2. CASE ~MayStop
      BY <2>2, <3>2, Inv4Same DEF Exit, bgVars
    <3> QED BY <3>1, <3>2
  <2>3. CASE StopSignal
    BY <2>3 DEF StopSignal, NotifyOne, Goes
  <2>4. CASE StopJoin
    BY <2>4 DEF StopJoin, Goes
  <2> QED BY <1>5, <2>1, <2>2, <2>3, <2>4 DEF Stopping
<1>6. CASE Environment
  <2>1. UNCHANGED <<mConnections, mStop, bgPC, fgPC, fgIndex>>
    BY <1>6 DEF Environment, Tick, Destroy, TargetNop, TargetClose, bgVars, fgVars
  <2> QED BY <2>1, Inv4Same
<1>7. CASE UNCHANGED vars
  BY <1>7, Inv4Same DEF vars, bgVars, fgVars
<1>8. ASSUME NEW w \in Wrappers, ConnectNullContext(w) PROVE Inv4'
  BY <1>8, Inv4Same DEF ConnectNullContext, bgVars, fgVars
<1> QED
  BY <1>2, <1>3, <1>4, <1>5, <1>6, <1>7, <1>8 DEF Next, Background, Over
-----------------------------------------------------------------------------
(* The theorems.                                                           *)

\* The variables keep their types, for every number of threads and wrappers.
THEOREM TypeCorrect == Spec => []TypeOK
<1>1. Inv1 => TypeOK
  BY DEF Inv1
<1> QED BY <1>1, Inv1Init, Inv1Step, PTL DEF Spec

\* However many threads there are and whatever the targets do, a connection in
\* use is not on the list, and no connection is on it twice.
THEOREM OffTheList == Spec => []OffTheListInUse
<1>1. Inv2 => OffTheListInUse
  BY DEF Inv2
<1> QED BY <1>1, Inv1Init, Inv1Step, Inv2Init, Inv2Step, PTL DEF Spec

\* The one that the background thread services under the mutex is in no caller's
\* hands.
THEOREM Exclusion == Spec => []NeverInTheWay
<1>1. Inv1 /\ Inv2 => NeverInTheWay
  <2> SUFFICES ASSUME Inv1, Inv2, bgPC = "service"
               PROVE  mConnections # <<>> /\ ~InUse(Head(mConnections))
    BY DEF NeverInTheWay
  <2>1. mConnections # <<>> /\ mConnections \in Seq(Wrappers)
    BY DEF Inv1, TypeOK, MutexInv
  <2>2. Head(mConnections) \in Wrappers /\ Head(mConnections) = mConnections[1]
        /\ 1 \in DOMAIN mConnections
    BY <2>1, EmptySeq, HeadTailProperties
  <2>3. Head(mConnections) \in Registered
    BY <2>2 DEF Registered, ToSet
  <2> QED BY <2>1, <2>2, <2>3 DEF Inv2, OffTheListInUse
<1> QED BY <1>1, Inv1Init, Inv1Step, Inv2Init, Inv2Step, PTL DEF Spec

\* The list is sorted by deadline: the head's is the first.
THEOREM Sorted == Spec => []SortedByDeadline
<1>1. Inv3 => SortedByDeadline
  BY DEF Inv3
<1> QED
  BY <1>1, Inv1Init, Inv1Step, Inv2Init, Inv2Step, Inv3Init, Inv3Step, PTL DEF Spec

\* The background thread never sleeps past a deadline: a notification is lost only
\* if no sleep it should have ended goes on.
THEOREM Deadlines == Spec => []NeverOversleeps
<1>1. Inv3 => NeverOversleeps
  BY DEF Inv3
<1> QED
  BY <1>1, Inv1Init, Inv1Step, Inv2Init, Inv2Step, Inv3Init, Inv3Step, PTL DEF Spec

\* In a program with one foreground thread StopBackGroundTask and AddConnection
\* never leave a listed connection without a background thread.
THEOREM Served == ASSUME OneThread PROVE Spec => []ListIsServed
<1>1. Inv4 => ListIsServed
  BY DEF Inv4, StopInv, ListIsServed, joinable
<1> QED BY <1>1, Inv1Init, Inv1Step, Inv4Init, Inv4Step, PTL DEF Spec

\* In such a program the size read before the mutex is taken does no harm:
\* RemoveConnection erases the caller's connection or throws.
THEOREM OwnErase == ASSUME OneThread PROVE Spec => ErasesOnlyItsOwn
<1>1. ASSUME Inv1, Inv2, Inv4, NEW t \in Threads, RemoveErase(t)
      PROVE  Registered \ Registered' \subseteq {fgConn[t]}
  <2>1. PICK i \in EraseAt(t) : mConnections' = RemoveAt(mConnections, i)
    BY <1>1 DEF RemoveErase
  <2>2. /\ mConnections \in Seq(Wrappers) /\ Distinct(mConnections)
        /\ i \in DOMAIN mConnections
    BY <1>1, <2>1 DEF EraseAt, Inv1, TypeOK, Inv2, OffTheListInUse, Distinct
  <2>3. fgIndex[t] \in Nat /\ fgIndex[t] >= Len(mConnections)
    BY <1>1 DEF OneThread, RemoveErase, Inv1, TypeOK, Inv4, IndexInv
  <2>4. i # fgIndex[t] + 1
    BY <2>2, <2>3
  <2>5. mConnections[i] = fgConn[t]
    BY <2>1, <2>4 DEF EraseAt
  <2>6. Registered' = Registered \ {mConnections[i]}
    BY <2>1, <2>2, EraseElements DEF Registered
  <2> QED BY <2>5, <2>6
<1>2. Inv1 /\ Inv2 /\ Inv4 /\ [Next]_vars
      => [\A t \in Threads : RemoveErase(t)
            => Registered \ Registered' \subseteq {fgConn[t]}]_vars
  BY <1>1
<1> QED
  BY <1>2, Inv1Init, Inv1Step, Inv2Init, Inv2Step, Inv4Init, Inv4Step, PTL
  DEF Spec, ErasesOnlyItsOwn
=============================================================================
