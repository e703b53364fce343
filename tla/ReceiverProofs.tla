--------------------------- MODULE ReceiverProofs ---------------------------
(***************************************************************************)
(* Proofs about the receive thread and the framing that it takes samples   *)
(* for.  Receiver, for any set of allocations: mutual exclusion on the     *)
(* synchroniser, its existence while samples are executed, that it is never*)
(* made from uninitialised memory, and that main() installs the allocation *)
(* it asked for until a NEW_ALLOC frame comes from the air.  Framing, for  *)
(* every number of users, allocation, modem and payload length: a frame has*)
(* symbols for all of its payloads while the record of the largest one is  *)
(* not stale, and a mobile that listens from the start of a frame gets its *)
(* payload unless the frame was cut.                                       *)
(***************************************************************************)
EXTENDS Receiver, Framing, SubsequenceProofs, TLAPS

-----------------------------------------------------------------------------
(* The synchroniser's mutex.                                               *)

\* The inductive invariant of the locking protocol.
LockInv == TypeOK /\ MutexOwner /\ DestroyedOnlyWhileCreating

\* The initial state satisfies the locking invariant.
LEMMA InitLock == Init => LockInv
<1> SUFFICES ASSUME Init PROVE LockInv
  OBVIOUS
<1>1. pc["main"] = "tasks" /\ pc["rx"] = "recv" /\ DOMAIN pc = Threads
  BY DEF Init, Threads
<1>2. MutexOwner
  BY <1>1, ReceiverAssumption DEF Init, MutexOwner, Holding, Executing, Threads
<1>3. Whole(FullBand) \in Halves \X Halves /\ Whole(Unset) \in Halves \X Halves
  BY ReceiverAssumption DEF Whole, Halves
<1>4. DestroyedOnlyWhileCreating
  BY <1>3, ReceiverAssumption DEF Init, DestroyedOnlyWhileCreating, Halves
<1>5. received_new_alloc \in BOOLEAN /\ from_air \in BOOLEAN
  BY Zenon DEF Init
<1>6. asked \in [Threads -> Allocs]
  BY ReceiverAssumption DEF Init
<1>7. TypeOK
  BY <1>1, <1>3, <1>5, <1>6 DEF Init, TypeOK, RecreateLabels
<1> QED  BY <1>2, <1>4, <1>7 DEF LockInv

\* recreate_modem(), in either thread, preserves the locking invariant.
LEMMA RecreateLock ==
  ASSUME LockInv, NEW t \in Threads, RecreateModem(t)
  PROVE  LockInv'
<1> USE ReceiverAssumption DEF LockInv, TypeOK, MutexOwner, DestroyedOnlyWhileCreating,
        Holding, Executing, Threads, RecreateLabels, Goto, Halves
<1>1. CASE Lock(t)
  BY <1>1 DEF Lock
<1>2. CASE Destroy(t)
  BY <1>2 DEF Destroy
<1>3. CASE Create(t)
  BY <1>3 DEF Create
<1>4. CASE Unlock(t)
  BY <1>4 DEF Unlock, After
<1> QED  BY <1>1, <1>2, <1>3, <1>4 DEF RecreateModem

\* main()'s copies preserve the locking invariant.
LEMMA MainCopyLock ==
  ASSUME LockInv, (\E a \in Allocs : MainCopyFirst(a)) \/ MainCopySecond
  PROVE  LockInv'
<1> USE ReceiverAssumption DEF LockInv, TypeOK, MutexOwner, DestroyedOnlyWhileCreating,
        Holding, Executing, Threads, RecreateLabels, Goto, Halves
<1>1. ASSUME NEW a \in Allocs, MainCopyFirst(a) PROVE LockInv'
  BY <1>1 DEF MainCopyFirst
<1>2. CASE MainCopySecond
  BY <1>2 DEF MainCopySecond
<1> QED  BY <1>1, <1>2

\* The receive loop and its callback preserve the locking invariant.
LEMMA RxLockInv ==
  ASSUME LockInv,
         \/ RxSamples \/ RxLock \/ CallbackCopyFirst \/ CallbackCopySecond \/ RxUnlock
         \/ RxError \/ \E a \in Allocs : CallbackNewAlloc(a)
  PROVE  LockInv'
<1> USE ReceiverAssumption DEF LockInv, TypeOK, MutexOwner, DestroyedOnlyWhileCreating,
        Holding, Executing, Threads, RecreateLabels, Goto, Halves
<1>1. CASE RxSamples
  BY <1>1 DEF RxSamples
<1>2. CASE RxLock
  BY <1>2 DEF RxLock
<1>3. CASE CallbackCopyFirst
  BY <1>3 DEF CallbackCopyFirst
<1>4. CASE CallbackCopySecond
  BY <1>4 DEF CallbackCopySecond
<1>5. CASE RxUnlock
  BY <1>5 DEF RxUnlock
<1>6. ASSUME NEW a \in Allocs, CallbackNewAlloc(a) PROVE LockInv'
  BY <1>6 DEF CallbackNewAlloc
<1>7. CASE RxError
  BY <1>7 DEF RxError
<1> QED  BY <1>1, <1>2, <1>3, <1>4, <1>5, <1>6, <1>7

\* Every step, stuttering included, preserves the locking invariant.
LEMMA NextLock == LockInv /\ [Next]_vars => LockInv'
<1> SUFFICES ASSUME LockInv, [Next]_vars PROVE LockInv'
  OBVIOUS
<1>1. CASE UNCHANGED vars
  BY <1>1 DEF vars, LockInv, TypeOK, MutexOwner, DestroyedOnlyWhileCreating,
              Holding, Executing
<1>2. CASE Next
  BY <1>2, RecreateLock, MainCopyLock, RxLockInv DEF Next, Main, Rx, Threads
<1> QED  BY <1>1, <1>2

\* The locking invariant holds in every reachable state.
LEMMA LockInvariant == Spec => []LockInv
  BY InitLock, NextLock, PTL DEF Spec

\* The type invariant: each thread stays at labels of its own code.
THEOREM TypeCorrect == Spec => []TypeOK
  BY LockInvariant, PTL DEF LockInv

\* sync_mutex is held exactly between lock and unlock, by one thread.
THEOREM MutexCorrect == Spec => []MutexOwner
  BY LockInvariant, PTL DEF LockInv

\* Samples are never executed on a destroyed synchroniser.
THEOREM LiveSyncCorrect == Spec => []ExecutesLiveSync
<1>1. LockInv => ExecutesLiveSync
  BY ReceiverAssumption
  DEF LockInv, TypeOK, MutexOwner, DestroyedOnlyWhileCreating, ExecutesLiveSync,
      Holding, Executing, Threads
<1> QED  BY <1>1, LockInvariant, PTL

\* The callback that runs under sync_mutex never makes its thread wait for it.
THEOREM SelfDeadlockFree == Spec => []NoSelfDeadlock
<1>1. LockInv => NoSelfDeadlock
  BY DEF LockInv, MutexOwner, NoSelfDeadlock, Holding, Executing, Threads
<1> QED  BY <1>1, LockInvariant, PTL

-----------------------------------------------------------------------------
\* The inductive invariant of what is installed.
SetInv == CopiedBeforeUse /\ InstalledIsSet

\* recreate_modem() preserves SetInv, in either thread.
LEMMA RecreateSet ==
  ASSUME LockInv, SetInv, NEW t \in Threads, RecreateModem(t)
  PROVE  SetInv'
<1> USE DEF SetInv, CopiedBeforeUse, InstalledIsSet, FirstHalfSet, SecondHalfSet,
        LockInv, TypeOK, Threads, RecreateLabels, Goto, Halves
<1>1. CASE Lock(t)
  BY <1>1 DEF Lock
<1>2. CASE Destroy(t)
  BY <1>2 DEF Destroy
<1>3. CASE Create(t)
  BY <1>3 DEF Create
<1>4. CASE Unlock(t)
  BY <1>4 DEF Unlock, After
<1> QED  BY <1>1, <1>2, <1>3, <1>4 DEF RecreateModem

\* Every step preserves SetInv.
LEMMA NextSet ==
  ASSUME LockInv, SetInv, [Next]_vars
  PROVE  SetInv'
<1> USE ReceiverAssumption DEF SetInv, CopiedBeforeUse, InstalledIsSet, FirstHalfSet,
        SecondHalfSet, LockInv, TypeOK, Threads, RecreateLabels, Goto, Halves
<1>1. CASE \E t \in Threads : RecreateModem(t)
  BY <1>1, RecreateSet
<1>2. ASSUME NEW a \in Allocs, MainCopyFirst(a) PROVE SetInv'
  BY <1>2 DEF MainCopyFirst
<1>3. CASE MainCopySecond
  BY <1>3 DEF MainCopySecond
<1>4. CASE RxSamples
  BY <1>4 DEF RxSamples
<1>5. CASE RxLock
  BY <1>5 DEF RxLock
<1>6. CASE RxUnlock
  BY <1>6 DEF RxUnlock
<1>7. CASE CallbackCopyFirst
  BY <1>7 DEF CallbackCopyFirst
<1>8. CASE CallbackCopySecond
  BY <1>8 DEF CallbackCopySecond
<1>9. ASSUME NEW a \in Allocs, CallbackNewAlloc(a) PROVE SetInv'
  BY <1>9 DEF CallbackNewAlloc
<1>10. CASE UNCHANGED vars
  BY <1>10 DEF vars
<1>11. CASE RxError
  BY <1>11 DEF RxError
<1> QED
  BY <1>1, <1>2, <1>3, <1>4, <1>5, <1>6, <1>7, <1>8, <1>9, <1>10, <1>11 DEF Next, Main, Rx

\* No synchroniser is ever created from memory that was never written.
THEOREM InstalledIsSetCorrect == Spec => []InstalledIsSet
<1>1. Init => SetInv
  <2> SUFFICES ASSUME Init PROVE SetInv
    OBVIOUS
  <2>1. pc["main"] = "tasks" /\ pc["rx"] = "recv"
    BY DEF Init, Threads
  <2>2. ~received_new_alloc
    BY Zenon DEF Init
  <2>3. CopiedBeforeUse
    BY <2>1, <2>2 DEF CopiedBeforeUse, RecreateLabels
  <2>4. InstalledIsSet
    BY ReceiverAssumption DEF Init, InstalledIsSet, Whole
  <2> QED  BY <2>3, <2>4 DEF SetInv
<1>2. LockInv /\ SetInv /\ [Next]_vars => SetInv'
  BY NextSet
<1>3. SetInv => InstalledIsSet
  BY DEF SetInv
<1> QED  BY <1>1, <1>2, <1>3, LockInvariant, PTL DEF Spec

-----------------------------------------------------------------------------
\* The inductive invariant of main()'s installation.
InstallInv == CopySurvives /\ MainInstallsAsked

\* A step preserves InstallInv.
LEMMA NextInstall ==
  ASSUME LockInv, InstallInv, [Next]_vars
  PROVE  InstallInv'
<1> USE DEF InstallInv, CopySurvives, MainInstallsAsked, LockInv, TypeOK, Threads,
        RecreateLabels, Goto, Whole, Halves
<1>1. CASE RecreateModem("main")
  <2>1. CASE Lock("main")  BY <1>1, <2>1 DEF Lock
  <2>2. CASE Destroy("main")  BY <1>1, <2>2 DEF Destroy
  <2>3. CASE Create("main")  BY <1>1, <2>3 DEF Create
  <2>4. CASE Unlock("main")  BY <1>1, <2>4 DEF Unlock, After
  <2> QED  BY <1>1, <2>1, <2>2, <2>3, <2>4 DEF RecreateModem
<1>2. CASE RecreateModem("rx")
  BY <1>2 DEF RecreateModem, Lock, Destroy, Create, Unlock
<1>3. CASE \E a \in Allocs : MainCopyFirst(a)
  BY <1>3 DEF MainCopyFirst
<1>4. CASE MainCopySecond
  BY <1>4 DEF MainCopySecond
<1>5. CASE RxSamples
  BY <1>5 DEF RxSamples
<1>6. CASE RxLock
  BY <1>6 DEF RxLock
<1>7. CASE RxUnlock
  BY <1>7 DEF RxUnlock
<1>8. CASE CallbackCopyFirst \/ CallbackCopySecond
  BY <1>8 DEF CallbackCopyFirst, CallbackCopySecond
<1>9. CASE \E a \in Allocs : CallbackNewAlloc(a)
  BY <1>9 DEF CallbackNewAlloc
<1>10. CASE UNCHANGED vars
  BY <1>10 DEF vars
<1>11. CASE RxError
  BY <1>11 DEF RxError
<1> QED
  BY <1>1, <1>2, <1>3, <1>4, <1>5, <1>6, <1>7, <1>8, <1>9, <1>10, <1>11 DEF Next, Main, Rx

\* Until a NEW_ALLOC frame comes from the air, each recreate_modem() of main()
\* installs all of the allocation that the controller copied without the lock.
THEOREM InstallCorrect == Spec => []MainInstallsAsked
<1>1. Init => InstallInv
  <2> SUFFICES ASSUME Init PROVE InstallInv
    OBVIOUS
  <2>1. pc["main"] = "tasks" /\ pc["rx"] = "recv"
    BY DEF Init, Threads
  <2>2. ~received_new_alloc
    BY Zenon DEF Init
  <2> QED  BY <2>1, <2>2 DEF InstallInv, CopySurvives, MainInstallsAsked, RecreateLabels
<1>2. LockInv /\ InstallInv /\ [Next]_vars => InstallInv'
  BY NextInstall
<1>3. InstallInv => MainInstallsAsked
  BY DEF InstallInv
<1> QED  BY <1>1, <1>2, <1>3, LockInvariant, PTL DEF Spec

-----------------------------------------------------------------------------
(* Rounding up.                                                            *)

LEMMA CeilDivBounds ==
  ASSUME NEW a \in Nat, NEW b \in Nat \ {0}
  PROVE  /\ CeilDiv(a, b) \in Nat
         /\ a <= CeilDiv(a, b) * b
         /\ CeilDiv(a, b) * b < a + b
<1> DEFINE q == a \div b
           r == a % b
<1>a. q \in Nat /\ r \in 0 .. b - 1 /\ a = q * b + r
  BY Division
<1>1. q \in Nat /\ r \in 0 .. b - 1 /\ a = q * b + r /\ q * b \in Nat
  BY <1>a, Products
<1>2. (q + 1) * b = q * b + b
  BY <1>1
<1>3. CeilDiv(a, b) = IF r = 0 THEN q ELSE q + 1
  BY DEF CeilDiv
<1> HIDE DEF q, r
<1>4. CASE r = 0
  BY <1>1, <1>3, <1>4
<1>5. CASE r # 0
  BY <1>1, <1>2, <1>3, <1>5
<1> QED
  BY <1>4, <1>5

\* k * b is below a exactly while k is below the quotient rounded up.
LEMMA CeilDivCounts ==
  ASSUME NEW a \in Nat, NEW b \in Nat \ {0}, NEW k \in Nat
  PROVE  k * b < a <=> k < CeilDiv(a, b)
<1> DEFINE c == CeilDiv(a, b)
<1>1. c \in Nat /\ a <= c * b /\ c * b < a + b /\ c * b \in Nat /\ k * b \in Nat
  BY CeilDivBounds
<1> HIDE DEF c
<1>2. c <= k => c * b <= k * b
  BY <1>1, Products
<1>3. k + 1 <= c => (k + 1) * b <= c * b
  BY <1>1, Products
<1>4. (k + 1) * b = k * b + b
  OBVIOUS
<1>5. k * b < a <=> k < c
  BY <1>1, <1>2, <1>3, <1>4
<1> QED
  BY <1>5 DEF c

LEMMA CeilDivMonotonic ==
  ASSUME NEW a \in Nat, NEW c \in Nat, NEW b \in Nat \ {0}, a <= c
  PROVE  CeilDiv(a, b) <= CeilDiv(c, b)
<1> DEFINE k == CeilDiv(c, b)
<1>a. k \in Nat /\ c <= k * b
  BY CeilDivBounds
<1>b. CeilDiv(a, b) \in Nat
  BY CeilDivBounds
<1>1. k \in Nat /\ c <= k * b /\ CeilDiv(a, b) \in Nat /\ k * b \in Nat
  BY <1>a, <1>b, Products
<1>2. k * b < a <=> k < CeilDiv(a, b)
  BY <1>1, CeilDivCounts
<1> HIDE DEF k
<1>3. CeilDiv(a, b) <= k
  BY <1>1, <1>2
<1> QED
  BY <1>3 DEF k

\* The smaller of two numbers.
LEMMA MinOfTwo ==
  ASSUME NEW a \in Int, NEW b \in Int
  PROVE  Min({a, b}) = IF a <= b THEN a ELSE b
<1>1. \A m \in {a, b} : (\A y \in {a, b} : m <= y) => m = IF a <= b THEN a ELSE b
  OBVIOUS
<1>2. \E m \in {a, b} : \A y \in {a, b} : m <= y
  OBVIOUS
<1> QED
  BY <1>1, <1>2 DEF Min

-----------------------------------------------------------------------------
(* Lengths and subcarriers.                                                *)

LEMMA ModLenType ==
  ASSUME NEW len \in Nat
  PROVE  ModLen(len) \in Nat \ {0}
<1> DEFINE bits == 8 * EncLen(len)
<1>1. Bps \in Nat \ {0}
  BY FramingAssumption
<1>2. bits \in Nat /\ 0 < bits
  BY DEF EncLen
<1>3. ModLen(len) = CeilDiv(bits, Bps)
  BY DEF ModLen
<1> HIDE DEF bits
<1>4. CeilDiv(bits, Bps) \in Nat /\ bits <= CeilDiv(bits, Bps) * Bps
  BY <1>1, <1>2, CeilDivBounds
<1>5. CeilDiv(bits, Bps) # 0
  BY <1>1, <1>2, <1>4
<1> QED
  BY <1>3, <1>4, <1>5

LEMMA ModLenMonotonic ==
  ASSUME NEW len \in Nat, NEW len2 \in Nat, len <= len2
  PROVE  ModLen(len) <= ModLen(len2)
<1>1. Bps \in Nat \ {0}
  BY FramingAssumption
<1>2. 8 * EncLen(len) \in Nat /\ 8 * EncLen(len2) \in Nat /\ 8 * EncLen(len) <= 8 * EncLen(len2)
  BY DEF EncLen
<1> QED
  BY <1>1, <1>2, CeilDivMonotonic DEF ModLen

LEMMA CarriersType ==
  ASSUME NEW d \in Carriers
  PROVE  d \in Nat \ {0} /\ d >= NumUsers
BY FramingAssumption

\* Every user has a subcarrier: there are at least as many as users.
LEMMA NumSubcarriersType ==
  ASSUME NEW d \in Carriers, NEW u \in Users
  PROVE  NumSubcarriers(d, u) \in Nat \ {0}
<1> DEFINE S == {k \in 0 .. d - 1 : k % NumUsers = u}
<1>1. d \in Nat \ {0} /\ d >= NumUsers /\ NumUsers \in Nat \ {0}
  BY CarriersType, FramingAssumption
<1>2. u \in 0 .. d - 1 /\ u % NumUsers = u
  BY <1>1 DEF Users
<1>3. IsFiniteSet(0 .. d - 1)
  BY <1>1, FS_Interval
<1>4. IsFiniteSet(S)
  BY <1>3, FS_Subset
<1>5. Cardinality(S) \in Nat
  BY <1>4, FS_CardinalityType
<1>6. S # {}
  BY <1>2
<1>7. Cardinality(S) # 0
  BY <1>4, <1>6, FS_EmptySet
<1> QED
  BY <1>5, <1>7 DEF NumSubcarriers

LEMMA LeastSubcarriersIsLeast ==
  ASSUME NEW d \in Carriers
  PROVE  /\ LeastSubcarriers(d) \in Nat \ {0}
         /\ \A u \in Users : LeastSubcarriers(d) <= NumSubcarriers(d, u)
<1> DEFINE T == {NumSubcarriers(d, u) : u \in Users}
<1>1. T \subseteq Nat \ {0}
  BY NumSubcarriersType
<1>2. 0 \in Users
  BY FramingAssumption DEF Users
<1>3. T # {}
  BY <1>2
<1>4. \E x \in T : \A y \in T : x <= y
  BY <1>1, <1>3, HasLeast
<1> HIDE DEF T
<1>5. Min(T) \in T /\ \A y \in T : Min(T) <= y
  BY <1>4 DEF Min
<1>6. \A u \in Users : NumSubcarriers(d, u) \in T
  BY DEF T
<1>7. LeastSubcarriers(d) = Min(T)
  BY DEF LeastSubcarriers, T
<1> QED
  BY <1>1, <1>5, <1>6, <1>7

-----------------------------------------------------------------------------
(* The inductive invariant.                                                *)

GeneratorType ==
  fg \in [d : Carriers, lens : [Users -> Nat], largest_payload : Nat, largest_user : Users,
          num_symbols_payload : Nat, state : {"load", "preamble", "header", "payload"},
          user : Users, symbol_number : Nat, sent : [Users -> Nat]]

MobileState ==
  [d : Carriers, state : {"seek", "header", "payload"}, got : Nat, need : Nat,
   good : BOOLEAN, result : {"none", "bad header", "valid", "invalid"}]

MobilesType ==
  /\ fs \in [Users -> MobileState]
  /\ joined \in [Users -> BOOLEAN]
  /\ short \in [Users -> BOOLEAN]

\* The generator's record of the lengths is what the symbols were computed from.
Sized ==
  /\ fg.num_symbols_payload = SymbolsFor(fg.lens, fg.largest_user, fg.d)
  /\ \A u \in Users : fg.lens[u] <= fg.largest_payload

\* How far the frame is: every user's subcarriers have carried symbol_number symbols.
Progress ==
  /\ fg.state = "header" => fg.symbol_number < CeilDiv(HeaderSyms, fg.d)
  /\ fg.state # "payload" => \A u \in Users : fg.sent[u] = 0
  /\ fg.state = "payload" =>
       \A u \in Users :
         fg.sent[u] = Min({fg.symbol_number * NumSubcarriers(fg.d, u), ModLen(fg.lens[u])})

\* A mobile that joined the frame is where the generator is.
InStep(u) ==
  /\ fg.state = "header" =>
       /\ fs[u].state = "header" /\ fs[u].d = fg.d /\ fs[u].good
       /\ fs[u].got = fg.symbol_number * fg.d
  /\ fg.state = "payload" =>
       \/ /\ fs[u].state = "payload" /\ fs[u].d = fg.d /\ fs[u].good
          /\ fs[u].need = ModLen(fg.lens[u])
          /\ fs[u].got = fg.symbol_number * NumSubcarriers(fg.d, u)
          /\ fs[u].got < fs[u].need
       \/ fs[u].state = "seek" /\ fs[u].result = "valid"
  /\ fg.state = "load" =>
       \/ fs[u].state = "seek" /\ fs[u].result = "valid"
       \/ short[u]

JoinedInStep == \A u \in Users : joined[u] => InStep(u)

FramingInv == GeneratorType /\ MobilesType /\ Sized /\ Progress /\ JoinedInStep

-----------------------------------------------------------------------------
(* Types.                                                                  *)

LEMMA SymbolsForType ==
  ASSUME NEW lens \in [Users -> Nat], NEW v \in Users, NEW d \in Carriers
  PROVE  SymbolsFor(lens, v, d) \in Nat
<1>1. ModLen(lens[v]) \in Nat
  BY ModLenType
<1>2. LeastSubcarriers(d) \in Nat \ {0}
  BY LeastSubcarriersIsLeast
<1> QED
  BY <1>1, <1>2, CeilDivBounds DEF SymbolsFor

LEMMA FreshGeneratorInv ==
  ASSUME NEW d \in Carriers, fg' = FreshGenerator(d)
  PROVE  GeneratorType' /\ Sized' /\ Progress' /\ fg'.state = "load"
<1> DEFINE zero == [u \in Users |-> 0]
           f == FreshGenerator(d)
<1>1. zero \in [Users -> Nat] /\ 0 \in Users
  BY FramingAssumption DEF Users
<1>2. SymbolsFor(zero, 0, d) \in Nat
  BY <1>1, SymbolsForType
<1>3. /\ fg'.d = d /\ fg'.lens = zero /\ fg'.largest_payload = 0 /\ fg'.largest_user = 0
      /\ fg'.num_symbols_payload = SymbolsFor(zero, 0, d) /\ fg'.state = "load"
      /\ fg'.sent = zero
  BY DEF FreshGenerator
<1>4. GeneratorType'
  BY <1>1, <1>2 DEF GeneratorType, FreshGenerator
<1>5. Sized'
  BY <1>3 DEF Sized
<1>6. Progress'
  BY <1>3 DEF Progress
<1> QED
  BY <1>3, <1>4, <1>5, <1>6

LEMMA ReceivedType ==
  ASSUME GeneratorType, NEW u \in Users, NEW s \in MobileState, NEW kind
  PROVE  Received(u, s, kind) \in MobileState
<1>1. s.d \in Carriers /\ s.d \in Nat /\ s.got \in Nat /\ s.need \in Nat /\ s.good \in BOOLEAN
  BY CarriersType DEF MobileState
<1>2. Seeking(s.d) \in MobileState
  BY <1>1 DEF Seeking, MobileState
<1>3. \A r \in {"none", "bad header", "valid", "invalid"} : Ended(s, r) \in MobileState
  BY <1>2 DEF Ended, MobileState
<1>4. NumSubcarriers(s.d, u) \in Nat
  BY <1>1, NumSubcarriersType
<1>5. fg.lens[u] \in Nat
  BY DEF GeneratorType
<1>6. ModLen(fg.lens[u]) \in Nat
  BY <1>5, ModLenType
<1>7. ASSUME NEW good \in BOOLEAN
      PROVE  RxHeader(u, s, good) \in MobileState
  <2> DEFINE got == s.got + s.d
             ok == s.good /\ good /\ s.d = fg.d
  <2>1. got \in Nat
    BY <1>1
  <2>2. ok \in BOOLEAN
    OBVIOUS
  <2>3. RxHeader(u, s, good) =
          IF got < HeaderSyms THEN [s EXCEPT !.got = got, !.good = ok]
          ELSE IF ok THEN [s EXCEPT !.state = "payload", !.got = 0, !.need = ModLen(fg.lens[u])]
          ELSE Ended(s, "bad header")
    BY DEF RxHeader
  <2> HIDE DEF got, ok
  <2>4. [s EXCEPT !.got = got, !.good = ok] \in MobileState
    BY <2>1, <2>2 DEF MobileState
  <2>5. [s EXCEPT !.state = "payload", !.got = 0, !.need = ModLen(fg.lens[u])] \in MobileState
    BY <1>6 DEF MobileState
  <2> QED
    BY <1>3, <2>3, <2>4, <2>5
<1>8. ASSUME NEW good \in BOOLEAN
      PROVE  RxPayload(u, s, good) \in MobileState
  <2> DEFINE got == s.got + NumSubcarriers(s.d, u)
             ok == s.good /\ good
  <2>1. got \in Nat
    BY <1>1, <1>4
  <2>2. ok \in BOOLEAN
    OBVIOUS
  <2>3. RxPayload(u, s, good) =
          IF got < s.need THEN [s EXCEPT !.got = got, !.good = ok]
          ELSE Ended(s, IF ok THEN "valid" ELSE "invalid")
    BY DEF RxPayload
  <2> HIDE DEF got, ok
  <2>4. [s EXCEPT !.got = got, !.good = ok] \in MobileState
    BY <2>1, <2>2 DEF MobileState
  <2> QED
    BY <1>3, <2>3, <2>4
<1>9. CASE s.state = "seek"
  <2>1. [Seeking(s.d) EXCEPT !.state = "header"] \in MobileState
    BY <1>2 DEF MobileState
  <2> QED
    BY <1>9, <2>1 DEF Received
<1>10. CASE s.state = "header"
  BY <1>7, <1>10 DEF Received
<1>11. CASE s.state = "payload"
  BY <1>8, <1>11 DEF Received
<1> QED
  BY <1>9, <1>10, <1>11 DEF MobileState

LEMMA AllReceiveType ==
  ASSUME GeneratorType, MobilesType, NEW kind, AllReceive(kind)
  PROVE  /\ fs' \in [Users -> MobileState]
         /\ \A u \in Users : fs'[u] = Received(u, fs[u], kind)
<1>1. \A u \in Users : fs[u] \in MobileState
  BY DEF MobilesType
<1>2. \A u \in Users : Received(u, fs[u], kind) \in MobileState
  BY <1>1, ReceivedType
<1> QED
  BY <1>2 DEF AllReceive

-----------------------------------------------------------------------------
(* Each step keeps the invariant.                                          *)

LEMMA InitInv == FramingInit => FramingInv
<1>1. SUFFICES ASSUME NEW d \in Carriers, fg = FreshGenerator(d),
                      fs = [u \in Users |-> Seeking(d)],
                      joined = [u \in Users |-> FALSE], short = [u \in Users |-> FALSE]
               PROVE  FramingInv
  BY DEF FramingInit
<1> DEFINE zero == [u \in Users |-> 0]
<1>2. zero \in [Users -> Nat] /\ 0 \in Users
  BY FramingAssumption DEF Users
<1>3. SymbolsFor(zero, 0, d) \in Nat
  BY <1>2, SymbolsForType
<1>4. GeneratorType
  BY <1>1, <1>2, <1>3 DEF GeneratorType, FreshGenerator
<1>5. Sized /\ Progress
  BY <1>1 DEF Sized, Progress, FreshGenerator
<1>6. MobilesType
  BY <1>1 DEF MobilesType, MobileState, Seeking
<1>7. JoinedInStep
  BY <1>1 DEF JoinedInStep
<1> QED
  BY <1>4, <1>5, <1>6, <1>7 DEF FramingInv

LEMMA BaseRecreateInv ==
  ASSUME FramingInv, NEW d \in Carriers, BaseRecreate(d)
  PROVE  FramingInv'
<1>1. GeneratorType' /\ Sized' /\ Progress' /\ fg'.state = "load"
  BY FreshGeneratorInv DEF BaseRecreate
<1>2. fs' = fs /\ joined' = joined /\ short' = short /\ fg.state = "load"
  BY DEF BaseRecreate
<1>3. MobilesType'
  BY <1>2 DEF FramingInv, MobilesType
<1>4. JoinedInStep'
  BY <1>1, <1>2 DEF FramingInv, JoinedInStep, InStep
<1> QED
  BY <1>1, <1>3, <1>4 DEF FramingInv

LEMMA UpdateDataInv ==
  ASSUME FramingInv, NEW len \in Lens, UpdateData(len)
  PROVE  FramingInv'
<1> DEFINE grows == len > fg.largest_payload
           largest == IF grows THEN fg.user ELSE fg.largest_user
           lens == [fg.lens EXCEPT ![fg.user] = len]
           next_user == (fg.user + 1) % NumUsers
           symbols == IF len # fg.lens[fg.user] THEN SymbolsFor(lens, largest, fg.d)
                                                ELSE fg.num_symbols_payload
           payload == IF grows THEN len ELSE fg.largest_payload
           state == IF fg.user + 1 = NumUsers THEN "preamble" ELSE "load"
<1>1. GeneratorType /\ Sized /\ Progress
  BY DEF FramingInv
<1>2. len \in Nat /\ NumUsers \in Nat \ {0}
  BY FramingAssumption
<1>3. /\ fg.d \in Carriers /\ fg.lens \in [Users -> Nat] /\ fg.largest_payload \in Nat
      /\ fg.largest_user \in Users /\ fg.num_symbols_payload \in Nat /\ fg.user \in Users
      /\ fg.sent \in [Users -> Nat] /\ fg.symbol_number \in Nat
  BY <1>1 DEF GeneratorType
<1>4. fs' = fs /\ joined' = joined /\ short' = short /\ fg.state = "load"
  BY DEF UpdateData
<1>5. /\ fg' = [fg EXCEPT !.largest_payload = payload, !.largest_user = largest, !.lens = lens,
                          !.num_symbols_payload = symbols, !.user = next_user, !.state = state]
  BY DEF UpdateData
<1>6. lens \in [Users -> Nat] /\ largest \in Users /\ payload \in Nat
  BY <1>2, <1>3
<1>7. symbols \in Nat
  BY <1>3, <1>6, SymbolsForType
<1>8. next_user \in Users
  <2>1. fg.user \in Nat
    BY <1>2, <1>3 DEF Users
  <2> QED
    BY <1>2, <2>1 DEF Users
<1>9. symbols = SymbolsFor(lens, largest, fg.d)
  <2>1. CASE len # fg.lens[fg.user]
    BY <2>1
  <2>2. CASE len = fg.lens[fg.user]
    <3>1. lens = fg.lens
      BY <1>3, <2>2
    <3>2. ~ grows
      BY <1>1, <1>2, <1>3, <2>2 DEF Sized
    <3> QED
      BY <1>1, <2>2, <3>1, <3>2 DEF Sized
  <2> QED
    BY <2>1, <2>2
<1>10. \A u \in Users : lens[u] <= payload
  BY <1>1, <1>2, <1>3 DEF Sized
<1>11. state \in {"load", "preamble"}
  OBVIOUS
<1> HIDE DEF grows, largest, lens, next_user, symbols, payload, state
<1>12. /\ fg'.d = fg.d /\ fg'.lens = lens /\ fg'.largest_payload = payload
       /\ fg'.largest_user = largest /\ fg'.num_symbols_payload = symbols /\ fg'.state = state
       /\ fg'.sent = fg.sent
  BY <1>1, <1>5 DEF GeneratorType
<1>13. GeneratorType'
  BY <1>1, <1>5, <1>6, <1>7, <1>8, <1>11 DEF GeneratorType
<1>14. Sized'
  BY <1>9, <1>10, <1>12 DEF Sized
<1>15. Progress'
  BY <1>1, <1>4, <1>11, <1>12 DEF Progress
<1>16. MobilesType'
  BY <1>4 DEF FramingInv, MobilesType
<1>17. JoinedInStep'
  BY <1>4, <1>11, <1>12 DEF FramingInv, JoinedInStep, InStep
<1> QED
  BY <1>13, <1>14, <1>15, <1>16, <1>17 DEF FramingInv

LEMMA MobileRecreateInv ==
  ASSUME FramingInv, NEW d \in Carriers, NEW u \in Users, MobileRecreate(u, d)
  PROVE  FramingInv'
<1>1. fg' = fg /\ short' = short /\ fs' = [fs EXCEPT ![u] = Seeking(d)]
      /\ joined' = [joined EXCEPT ![u] = FALSE]
  BY DEF MobileRecreate
<1>2. GeneratorType' /\ Sized' /\ Progress'
  BY <1>1 DEF FramingInv, GeneratorType, Sized, Progress
<1>3. Seeking(d) \in MobileState
  BY DEF Seeking, MobileState
<1>4. MobilesType'
  BY <1>1, <1>3 DEF FramingInv, MobilesType
<1>5. ASSUME NEW v \in Users, joined'[v]
      PROVE  InStep(v)'
  <2>1. v # u
    BY <1>1, <1>5 DEF FramingInv, MobilesType
  <2>2. joined[v] /\ fs'[v] = fs[v]
    BY <1>1, <1>5, <2>1 DEF FramingInv, MobilesType
  <2> QED
    BY <1>1, <2>2 DEF FramingInv, JoinedInStep, InStep
<1>6. JoinedInStep'
  BY <1>5 DEF JoinedInStep
<1> QED
  BY <1>2, <1>4, <1>6 DEF FramingInv

LEMMA WritePreambleInv ==
  ASSUME FramingInv, WritePreamble
  PROVE  FramingInv'
<1>1. GeneratorType /\ MobilesType /\ Sized /\ Progress
  BY DEF FramingInv
<1>2. fg.state = "preamble" /\ fg' = [fg EXCEPT !.state = "header", !.symbol_number = 0]
      /\ short' = short
  BY DEF WritePreamble
<1>3. /\ fg'.state = "header" /\ fg'.symbol_number = 0 /\ fg'.d = fg.d /\ fg'.lens = fg.lens
      /\ fg'.largest_user = fg.largest_user /\ fg'.largest_payload = fg.largest_payload
      /\ fg'.num_symbols_payload = fg.num_symbols_payload /\ fg'.sent = fg.sent
  BY <1>1, <1>2 DEF GeneratorType
<1>4. GeneratorType'
  BY <1>1, <1>2 DEF GeneratorType
<1>5. Sized'
  BY <1>1, <1>3 DEF Sized
<1>6. fg.d \in Nat \ {0} /\ HeaderSyms \in Nat \ {0}
  BY <1>1, CarriersType, FramingAssumption DEF GeneratorType
<1>7. 0 < CeilDiv(HeaderSyms, fg.d)
  <2>1. 0 * fg.d < HeaderSyms <=> 0 < CeilDiv(HeaderSyms, fg.d)
    BY <1>6, CeilDivCounts
  <2> QED
    BY <1>6, <2>1
<1>8. Progress'
  BY <1>1, <1>2, <1>3, <1>7 DEF Progress
<1>9. /\ fs' \in [Users -> MobileState]
      /\ \A u \in Users : fs'[u] = Received(u, fs[u], "preamble")
  <2>1. AllReceive("preamble")
    BY DEF WritePreamble
  <2> QED
    BY <1>1, <2>1, AllReceiveType
<1>10. joined' = [u \in Users |-> fs[u].state = "seek" /\ fs[u].d = fg.d]
  BY DEF WritePreamble
<1>11. MobilesType'
  BY <1>1, <1>2, <1>9, <1>10 DEF MobilesType
<1>12. ASSUME NEW u \in Users, joined'[u]
       PROVE  InStep(u)'
  <2>1. fs[u].state = "seek" /\ fs[u].d = fg.d
    BY <1>10, <1>12
  <2>2. fs'[u] = [Seeking(fg.d) EXCEPT !.state = "header"]
    BY <1>9, <2>1 DEF Received
  <2>3. fs'[u].state = "header" /\ fs'[u].d = fg.d /\ fs'[u].good /\ fs'[u].got = 0
    BY <2>2 DEF Seeking
  <2> QED
    BY <1>3, <1>6, <2>3 DEF InStep
<1>13. JoinedInStep'
  BY <1>12 DEF JoinedInStep
<1> QED
  BY <1>4, <1>5, <1>8, <1>11, <1>13 DEF FramingInv

LEMMA SilenceInv ==
  ASSUME FramingInv, Silence
  PROVE  FramingInv'
<1>1. fg' = fg /\ joined' = joined /\ short' = short /\ fg.state = "load"
  BY DEF Silence
<1>2. GeneratorType' /\ Sized' /\ Progress'
  BY <1>1 DEF FramingInv, GeneratorType, Sized, Progress
<1>3. /\ fs' \in [Users -> MobileState]
      /\ \A u \in Users : fs'[u] = Received(u, fs[u], "noise")
  <2>1. AllReceive("noise")
    BY DEF Silence
  <2> QED
    BY <2>1, AllReceiveType DEF FramingInv
<1>4. MobilesType'
  BY <1>1, <1>3 DEF FramingInv, MobilesType
<1>5. \A u \in Users : fs[u].state = "seek" => fs'[u] = fs[u]
  BY <1>3 DEF Received
<1>6. JoinedInStep'
  BY <1>1, <1>5 DEF FramingInv, JoinedInStep, InStep
<1> QED
  BY <1>2, <1>4, <1>6 DEF FramingInv

\* The header has as many symbols for the mobile as for the generator.
LEMMA WriteHeaderInv ==
  ASSUME FramingInv, WriteHeader
  PROVE  FramingInv'
<1> DEFINE n == fg.symbol_number
           last == n + 1 = CeilDiv(HeaderSyms, fg.d)
<1>1. GeneratorType /\ MobilesType /\ Sized /\ Progress /\ JoinedInStep
  BY DEF FramingInv
<1>2. fg.state = "header" /\ joined' = joined /\ short' = short
  BY DEF WriteHeader
<1>3. fg' = IF last THEN [fg EXCEPT !.state = "payload", !.symbol_number = 0]
                    ELSE [fg EXCEPT !.symbol_number = n + 1]
  BY DEF WriteHeader
<1>4. /\ n \in Nat /\ fg.d \in Nat \ {0} /\ HeaderSyms \in Nat \ {0} /\ fg.d \in Carriers
      /\ fg.lens \in [Users -> Nat]
  BY <1>1, CarriersType, FramingAssumption DEF GeneratorType
<1>5. /\ fg'.d = fg.d /\ fg'.lens = fg.lens
      /\ fg'.largest_user = fg.largest_user /\ fg'.largest_payload = fg.largest_payload
      /\ fg'.num_symbols_payload = fg.num_symbols_payload /\ fg'.sent = fg.sent
      /\ fg'.state = IF last THEN "payload" ELSE "header"
      /\ fg'.symbol_number = IF last THEN 0 ELSE n + 1
  BY <1>1, <1>2, <1>3 DEF GeneratorType
<1>6. GeneratorType'
  <2>1. n + 1 \in Nat
    BY <1>4
  <2> HIDE DEF n, last
  <2>2. CASE last
    BY <1>1, <1>3, <2>2 DEF GeneratorType
  <2>3. CASE ~ last
    BY <1>1, <1>3, <2>1, <2>3 DEF GeneratorType
  <2> QED
    BY <2>2, <2>3
<1>7. Sized'
  BY <1>1, <1>5 DEF Sized
<1>8. CeilDiv(HeaderSyms, fg.d) \in Nat
  BY <1>4, CeilDivBounds
<1>9. (n + 1) * fg.d < HeaderSyms <=> ~ last
  <2>1. (n + 1) * fg.d < HeaderSyms <=> n + 1 < CeilDiv(HeaderSyms, fg.d)
    BY <1>4, CeilDivCounts
  <2>2. n < CeilDiv(HeaderSyms, fg.d)
    BY <1>1, <1>2 DEF Progress
  <2> QED
    BY <1>4, <1>8, <2>1, <2>2
<1>10. Progress'
  <2>1. ASSUME NEW u \in Users
        PROVE  0 = Min({0 * NumSubcarriers(fg.d, u), ModLen(fg.lens[u])})
    <3>1. NumSubcarriers(fg.d, u) \in Nat /\ ModLen(fg.lens[u]) \in Nat
      BY <1>4, NumSubcarriersType, ModLenType
    <3> QED
      BY <3>1, MinOfTwo
  <2>2. \A u \in Users : fg.sent[u] = 0
    BY <1>1, <1>2 DEF Progress
  <2>3. CASE last
    BY <1>5, <2>1, <2>2, <2>3 DEF Progress
  <2>4. CASE ~ last
    <3>1. n + 1 < CeilDiv(HeaderSyms, fg.d)
      BY <1>1, <1>2, <1>4, <1>8, <2>4 DEF Progress
    <3> QED
      BY <1>5, <2>2, <2>4, <3>1 DEF Progress
  <2> QED
    BY <2>3, <2>4
<1>11. /\ fs' \in [Users -> MobileState]
       /\ \A u \in Users : fs'[u] = Received(u, fs[u], "header")
  <2>1. AllReceive("header")
    BY DEF WriteHeader
  <2> QED
    BY <1>1, <2>1, AllReceiveType
<1>12. MobilesType'
  BY <1>1, <1>2, <1>11 DEF MobilesType
<1>13. ASSUME NEW u \in Users, joined'[u]
       PROVE  InStep(u)'
  <2> DEFINE s == fs[u]
             need == ModLen(fg.lens[u])
  <2>1. s \in MobileState
    BY <1>1 DEF MobilesType
  <2>2. s.state = "header" /\ s.d = fg.d /\ s.good /\ s.got = n * fg.d
    BY <1>1, <1>2, <1>13 DEF JoinedInStep, InStep
  <2>3. s.got + s.d = (n + 1) * fg.d
    BY <1>4, <2>2
  <2>4. fs'[u] = IF ~ last THEN [s EXCEPT !.got = (n + 1) * fg.d, !.good = TRUE]
                 ELSE [s EXCEPT !.state = "payload", !.got = 0, !.need = need]
    <3>1. fs'[u] = RxHeader(u, s, TRUE)
      BY <1>11, <2>2 DEF Received
    <3> QED
      BY <1>9, <2>2, <2>3, <3>1 DEF RxHeader
  <2>5. CASE ~ last
    <3>1. fs'[u].state = "header" /\ fs'[u].d = fg.d /\ fs'[u].good /\ fs'[u].got = (n + 1) * fg.d
      BY <2>1, <2>2, <2>4, <2>5 DEF MobileState
    <3> QED
      BY <1>5, <2>5, <3>1 DEF InStep
  <2>6. CASE last
    <3>1. /\ fs'[u].state = "payload" /\ fs'[u].d = fg.d /\ fs'[u].good
          /\ fs'[u].got = 0 /\ fs'[u].need = need
      BY <2>1, <2>2, <2>4, <2>6 DEF MobileState
    <3>2. NumSubcarriers(fg.d, u) \in Nat /\ need \in Nat \ {0}
      BY <1>4, NumSubcarriersType, ModLenType
    <3>3. 0 < need /\ 0 = 0 * NumSubcarriers(fg.d, u)
      BY <3>2
    <3> QED
      BY <1>5, <2>6, <3>1, <3>3 DEF InStep
  <2> QED
    BY <2>5, <2>6
<1>14. JoinedInStep'
  BY <1>13 DEF JoinedInStep
<1> QED
  BY <1>6, <1>7, <1>10, <1>12, <1>14 DEF FramingInv

\* What a user has been sent, after one symbol more.
LEMMA SentNowCounts ==
  ASSUME GeneratorType, Progress, fg.state = "payload", NEW u \in Users
  PROVE  SentNow[u] = Min({(fg.symbol_number + 1) * NumSubcarriers(fg.d, u), ModLen(fg.lens[u])})
<1> DEFINE n == fg.symbol_number
           c == NumSubcarriers(fg.d, u)
           m == ModLen(fg.lens[u])
<1>1. n \in Nat /\ fg.d \in Carriers /\ fg.lens[u] \in Nat
  BY DEF GeneratorType
<1>2. c \in Nat /\ m \in Nat
  BY <1>1, NumSubcarriersType, ModLenType
<1>3. n * c \in Nat /\ (n + 1) * c = n * c + c
  BY <1>1, <1>2
<1>4. fg.sent[u] = Min({n * c, m}) /\ SentNow[u] = Min({fg.sent[u] + c, m})
  BY DEF Progress, SentNow
<1> HIDE DEF n, c, m
<1>5. fg.sent[u] = IF n * c <= m THEN n * c ELSE m
  BY <1>2, <1>3, <1>4, MinOfTwo
<1>6. SentNow[u] = IF fg.sent[u] + c <= m THEN fg.sent[u] + c ELSE m
  <2> DEFINE x == fg.sent[u] + c
  <2>1. x \in Int /\ m \in Int
    BY <1>2, <1>3, <1>5
  <2>2. SentNow[u] = Min({x, m})
    BY <1>4
  <2> HIDE DEF x
  <2>3. Min({x, m}) = IF x <= m THEN x ELSE m
    BY <2>1, MinOfTwo
  <2> QED
    BY <2>2, <2>3 DEF x
<1>7. Min({(n + 1) * c, m}) = IF (n + 1) * c <= m THEN (n + 1) * c ELSE m
  BY <1>2, <1>3, MinOfTwo
<1>8. SentNow[u] = Min({(n + 1) * c, m})
  BY <1>2, <1>3, <1>5, <1>6, <1>7
<1> QED
  BY <1>8 DEF n, c, m

LEMMA WritePayloadInv ==
  ASSUME FramingInv, WritePayload
  PROVE  FramingInv'
<1> DEFINE n == fg.symbol_number
<1>1. GeneratorType /\ MobilesType /\ Sized /\ Progress /\ JoinedInStep
  BY DEF FramingInv
<1>2. fg.state = "payload" /\ joined' = joined
  BY DEF WritePayload
<1>3. /\ fg' = IF LastSymbol
                 THEN [fg EXCEPT !.state = "load", !.symbol_number = 0, !.sent = [u \in Users |-> 0]]
                 ELSE [fg EXCEPT !.symbol_number = n + 1, !.sent = SentNow]
      /\ short' = IF LastSymbol THEN [u \in Users |-> SentNow[u] < ModLen(fg.lens[u])] ELSE short
  BY DEF WritePayload
<1>4. n \in Nat /\ fg.d \in Carriers /\ fg.lens \in [Users -> Nat]
  BY <1>1 DEF GeneratorType
<1>5. /\ fg'.d = fg.d /\ fg'.lens = fg.lens
      /\ fg'.largest_user = fg.largest_user /\ fg'.largest_payload = fg.largest_payload
      /\ fg'.num_symbols_payload = fg.num_symbols_payload
      /\ fg'.sent = IF LastSymbol THEN [u \in Users |-> 0] ELSE SentNow
      /\ fg'.state = IF LastSymbol THEN "load" ELSE "payload"
      /\ fg'.symbol_number = IF LastSymbol THEN 0 ELSE n + 1
  BY <1>1, <1>2, <1>3 DEF GeneratorType
<1>6. ASSUME NEW u \in Users
      PROVE  LET c == NumSubcarriers(fg.d, u)
                 m == ModLen(fg.lens[u])
             IN  /\ c \in Nat /\ m \in Nat /\ (n + 1) * c \in Nat /\ n * c \in Nat
                 /\ (n + 1) * c = n * c + c
                 /\ SentNow[u] = IF (n + 1) * c <= m THEN (n + 1) * c ELSE m
                 /\ SentNow[u] = Min({(n + 1) * c, m})
                 /\ fg.sent[u] = IF n * c <= m THEN n * c ELSE m
  <2> DEFINE c == NumSubcarriers(fg.d, u)
             m == ModLen(fg.lens[u])
  <2>1. c \in Nat /\ m \in Nat
    BY <1>4, NumSubcarriersType, ModLenType
  <2>2. (n + 1) * c \in Nat /\ n * c \in Nat /\ (n + 1) * c = n * c + c
    BY <1>4, <2>1
  <2>3. SentNow[u] = Min({(n + 1) * c, m})
    BY <1>1, <1>2, SentNowCounts
  <2>4. fg.sent[u] = Min({n * c, m})
    BY <1>1, <1>2 DEF Progress
  <2> HIDE DEF n, c, m
  <2>5. /\ SentNow[u] = IF (n + 1) * c <= m THEN (n + 1) * c ELSE m
        /\ fg.sent[u] = IF n * c <= m THEN n * c ELSE m
    BY <2>1, <2>2, <2>3, <2>4, MinOfTwo
  <2>6. /\ c \in Nat /\ m \in Nat /\ (n + 1) * c \in Nat /\ n * c \in Nat
        /\ (n + 1) * c = n * c + c
        /\ SentNow[u] = IF (n + 1) * c <= m THEN (n + 1) * c ELSE m
        /\ SentNow[u] = Min({(n + 1) * c, m})
        /\ fg.sent[u] = IF n * c <= m THEN n * c ELSE m
    BY <2>1, <2>2, <2>3, <2>5
  <2> QED
    BY <2>6 DEF c, m
<1>7. GeneratorType'
  <2>1. SentNow \in [Users -> Nat]
    <3>1. \A u \in Users : SentNow[u] \in Nat
      BY <1>6
    <3>2. SentNow = [u \in Users |-> SentNow[u]]
      BY DEF SentNow
    <3> QED
      BY <3>1, <3>2
  <2>2. n + 1 \in Nat
    BY <1>4
  <2> HIDE DEF n
  <2>3. CASE LastSymbol
    BY <1>1, <1>3, <2>3 DEF GeneratorType
  <2>4. CASE ~ LastSymbol
    BY <1>1, <1>3, <2>1, <2>2, <2>4 DEF GeneratorType
  <2> QED
    BY <2>3, <2>4
<1>8. Sized'
  BY <1>1, <1>5 DEF Sized
<1>9. Progress'
  <2>1. CASE LastSymbol
    BY <1>5, <2>1 DEF Progress
  <2>2. CASE ~ LastSymbol
    <3>1. \A u \in Users : SentNow[u] = Min({(n + 1) * NumSubcarriers(fg.d, u), ModLen(fg.lens[u])})
      BY <1>6
    <3> QED
      BY <1>5, <2>2, <3>1 DEF Progress
  <2> QED
    BY <2>1, <2>2
<1>10. /\ fs' \in [Users -> MobileState]
       /\ \A u \in Users : fs'[u] = Received(u, fs[u], "payload")
  <2>1. AllReceive("payload")
    BY DEF WritePayload
  <2> QED
    BY <1>1, <2>1, AllReceiveType
<1>11. MobilesType'
  BY <1>1, <1>2, <1>3, <1>10 DEF MobilesType
<1>12. ASSUME NEW u \in Users, joined'[u]
       PROVE  InStep(u)'
  <2> DEFINE s == fs[u]
             c == NumSubcarriers(fg.d, u)
             m == ModLen(fg.lens[u])
             got == (n + 1) * c
  <2>1. /\ c \in Nat /\ m \in Nat /\ got \in Nat /\ n * c \in Nat /\ got = n * c + c
        /\ SentNow[u] = IF got <= m THEN got ELSE m
        /\ fg.sent[u] = IF n * c <= m THEN n * c ELSE m
    BY <1>6
  <2>2. s \in MobileState
    BY <1>1 DEF MobilesType
  <2>3. CASE s.state = "seek" /\ s.result = "valid"
    <3>1. fs'[u] = s
      BY <1>10, <2>3 DEF Received
    <3> QED
      BY <1>5, <2>3, <3>1 DEF InStep
  <2>4. CASE s.state = "payload" /\ s.d = fg.d /\ s.good /\ s.need = m /\ s.got = n * c /\ s.got < s.need
    <3>1. fg.sent[u] = s.got /\ s.got + c = got
      BY <2>1, <2>4
    <3>2. fs'[u] = RxPayload(u, s, TRUE)
      BY <1>10, <2>4, <3>1 DEF Received
    <3>3. fs'[u] = IF got < m THEN [s EXCEPT !.got = got, !.good = TRUE] ELSE Ended(s, "valid")
      BY <2>4, <3>1, <3>2 DEF RxPayload
    <3>4. CASE got < m
      <4>1. /\ fs'[u].state = "payload" /\ fs'[u].d = fg.d /\ fs'[u].good
            /\ fs'[u].got = got /\ fs'[u].need = m
        BY <2>2, <2>4, <3>3, <3>4 DEF MobileState
      <4>2. CASE LastSymbol
        <5>1. SentNow[u] < m
          BY <2>1, <3>4
        <5>2. short'[u]
          BY <1>3, <4>2, <5>1
        <5> QED
          BY <1>5, <4>2, <5>2 DEF InStep
      <4>3. CASE ~ LastSymbol
        BY <1>5, <3>4, <4>1, <4>3 DEF InStep
      <4> QED
        BY <4>2, <4>3
    <3>5. CASE ~ (got < m)
      <4>1. fs'[u].state = "seek" /\ fs'[u].result = "valid"
        BY <3>3, <3>5 DEF Ended, Seeking
      <4> QED
        BY <1>5, <4>1 DEF InStep
    <3> QED
      BY <3>4, <3>5
  <2> QED
    BY <1>1, <1>2, <1>12, <2>3, <2>4 DEF JoinedInStep, InStep
<1>13. JoinedInStep'
  BY <1>12 DEF JoinedInStep
<1> QED
  BY <1>7, <1>8, <1>9, <1>11, <1>13 DEF FramingInv

-----------------------------------------------------------------------------
LEMMA FramingInvStep == FramingInv /\ [FramingNext]_framingVars => FramingInv'
<1> SUFFICES ASSUME FramingInv, [FramingNext]_framingVars
             PROVE  FramingInv'
  OBVIOUS
<1>1. ASSUME NEW len \in Lens, UpdateData(len)
      PROVE  FramingInv'
  BY <1>1, UpdateDataInv
<1>2. CASE WritePreamble
  BY <1>2, WritePreambleInv
<1>3. CASE WriteHeader
  BY <1>3, WriteHeaderInv
<1>4. CASE WritePayload
  BY <1>4, WritePayloadInv
<1>5. CASE Silence
  BY <1>5, SilenceInv
<1>6. ASSUME NEW d \in Carriers, BaseRecreate(d)
      PROVE  FramingInv'
  BY <1>6, BaseRecreateInv
<1>7. ASSUME NEW d \in Carriers, NEW u \in Users, MobileRecreate(u, d)
      PROVE  FramingInv'
  BY <1>7, MobileRecreateInv
<1>8. CASE UNCHANGED framingVars
  BY <1>8 DEF framingVars, FramingInv, GeneratorType, MobilesType, Sized, Progress, JoinedInStep,
              InStep
<1> QED
  BY <1>1, <1>2, <1>3, <1>4, <1>5, <1>6, <1>7, <1>8 DEF FramingNext, Load, Write, Recreate

LEMMA FramingInvariant == FramingSpec => []FramingInv
<1> QED
  BY InitInv, FramingInvStep, PTL DEF FramingSpec

LEMMA LongestBounds ==
  ASSUME FramingInv, NEW u \in Users
  PROVE  fg.lens[u] <= Longest
<1> DEFINE T == {fg.lens[v] : v \in Users}
<1>1. /\ T \subseteq Nat /\ fg.lens[u] \in T /\ fg.largest_payload \in Nat
      /\ \A x \in T : x <= fg.largest_payload
  BY DEF FramingInv, GeneratorType, Sized
<1> HIDE DEF T
<1>2. \E x \in T : \A y \in T : x >= y
  BY <1>1, HasGreatest
<1>3. Max(T) \in T /\ \A y \in T : Max(T) >= y
  BY <1>2 DEF Max
<1>4. Longest = Max(T)
  BY DEF Longest, T
<1> QED
  BY <1>1, <1>3, <1>4

LEMMA EnoughSymbols ==
  ASSUME FramingInv
  PROVE  CutOnlyByStaleRecord
<1>1. SUFFICES ASSUME fg.state = "payload", LastSymbol, fg.lens[fg.largest_user] = Longest,
                      NEW u \in Users
               PROVE  SentNow[u] = ModLen(fg.lens[u])
  BY DEF CutOnlyByStaleRecord
<1> DEFINE n == fg.symbol_number + 1
           c == NumSubcarriers(fg.d, u)
           least == LeastSubcarriers(fg.d)
           m == ModLen(fg.lens[u])
           most == ModLen(fg.lens[fg.largest_user])
<1>2. /\ fg.symbol_number \in Nat /\ fg.d \in Carriers /\ fg.lens[u] \in Nat
      /\ fg.lens[fg.largest_user] \in Nat
  BY DEF FramingInv, GeneratorType
<1>3. fg.lens[u] <= fg.lens[fg.largest_user]
  BY <1>1, LongestBounds
<1>4. m \in Nat /\ most \in Nat /\ m <= most
  BY <1>2, <1>3, ModLenType, ModLenMonotonic
<1>5. c \in Nat /\ least \in Nat \ {0} /\ least <= c
  BY <1>2, NumSubcarriersType, LeastSubcarriersIsLeast
<1>6. n \in Nat /\ n = CeilDiv(most, least)
  BY <1>1, <1>2 DEF LastSymbol, FramingInv, Sized, SymbolsFor
<1>7. SentNow[u] = Min({n * c, m})
  BY <1>1, SentNowCounts DEF FramingInv
<1> HIDE DEF n, c, least, m, most
<1>8. most <= n * least
  BY <1>4, <1>5, <1>6, CeilDivBounds
<1>9. n * least <= n * c /\ n * least \in Nat /\ n * c \in Nat
  <2>1. least * n <= c * n /\ least * n \in Nat /\ c * n \in Nat
    BY <1>5, <1>6, Products
  <2>2. least * n = n * least /\ c * n = n * c
    BY <1>5, <1>6
  <2> QED
    BY <2>1, <2>2
<1>10. m <= n * c
  BY <1>4, <1>8, <1>9
<1>11. Min({n * c, m}) = IF n * c <= m THEN n * c ELSE m
  BY <1>4, <1>9, MinOfTwo
<1>12. SentNow[u] = m
  BY <1>4, <1>7, <1>9, <1>10, <1>11
<1> QED
  BY <1>12 DEF m

\* For every number of users, allocation, modem and length: a frame has symbols
\* for all its payloads while the user on record for the largest payload has one
\* as long as any other (reconfigure_multi_user).
THEOREM FramingCutOnlyByStaleRecord == FramingSpec => []CutOnlyByStaleRecord
<1>1. FramingInv => CutOnlyByStaleRecord
  BY EnoughSymbols
<1> QED
  BY <1>1, FramingInvariant, PTL

\* For every number of users, allocation, modem and length: a mobile that
\* listens with the base's allocation from the preamble on has its payload,
\* valid, at the end of the frame unless the frame was cut (rxheader, rxpayload).
THEOREM FramingJoinedGetsPayload == FramingSpec => []JoinedGetsPayload
<1>1. FramingInv => JoinedGetsPayload
  BY DEF FramingInv, JoinedInStep, InStep, JoinedGetsPayload
<1> QED
  BY <1>1, FramingInvariant, PTL
=============================================================================
