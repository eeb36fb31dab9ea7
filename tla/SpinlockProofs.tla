--------------------------- MODULE SpinlockProofs ---------------------------
(***************************************************************************)
(* The spinlock's properties for any set of processors and whatever        *)
(* interrupts arrive.                                                      *)
(***************************************************************************)
EXTENDS Spinlock, TLAPS

(* Which steps the two levels can be in, and that the handler has a step   *)
(* exactly while it runs.                                                  *)
LevelsOK(c) ==
  /\ pc[c]["task"] \notin {"none", "ack", "log", "done"}
  /\ pc[c]["trap"] # "idle"
  /\ pc[c]["trap"] = "none" <=> level[c] = "task"

(* Before popCLI in SharedMain interrupts are off and pushCLI is never     *)
(* outermost.                                                              *)
BootMasked(c) ==
  phase[c] = "boot" => ~interruptFlag[c] /\ ~wereInterruptsEnabled[c]

(* What a level knows of its caller's interrupt flag: between eflags() and *)
(* cli it is still the running level's flag (the flag an interrupt will    *)
(* restore if it arrives there), and between pushCLI and popCLI it is what *)
(* wereInterruptsEnabled remembers.  A handler only ever reads it clear.   *)
FlagsKnown(c) ==
  /\ ~flags[c]["trap"]
  /\ pc[c][level[c]] \in {"acqCli", "relCli"} =>
       flags[c][level[c]] = interruptFlag[c]
  /\ level[c] = "trap" /\ pc[c]["task"] \in {"acqCli", "relCli"} =>
       flags[c]["task"]
  /\ \A l \in Level :
       Masked(c, l) => flags[c][l] = wereInterruptsEnabled[c]

MaskedCPU(c) ==
  LevelsOK(c) /\ BootMasked(c) /\ FlagsKnown(c) /\ MaskAccounted(c)

(* The inductive invariant of the masking proofs: a conjunction over the   *)
(* processors, because only the lock word is shared.                       *)
MaskInv == TypeOK /\ \A c \in CPU : MaskedCPU(c)

(* The lock word agrees with the owners. *)
OwnerHolds == \A c \in CPU, l \in Level : Owns(c, l) => held = 1

(* The inductive invariant of the mutual exclusion proof. *)
ExclusionInv == OwnerHolds /\ MutualExclusion

-----------------------------------------------------------------------------
(* The one-line parts of pushCLI, popCLI, acquire and release. *)
USE DEF Pushed, Outermost, TurnsOn, WasFree, Released

(* Nothing that belongs to processor d changes. *)
Untouched(d) ==
  /\ interruptFlag'[d] = interruptFlag[d]
  /\ cliCount'[d] = cliCount[d]
  /\ wereInterruptsEnabled'[d] = wereInterruptsEnabled[d]
  /\ flags'[d] = flags[d]
  /\ pc'[d] = pc[d]
  /\ level'[d] = level[d]
  /\ phase'[d] = phase[d]

(* A processor none of whose state changes keeps its part of MaskInv. *)
LEMMA UntouchedKeeps ==
  ASSUME NEW d \in CPU, MaskedCPU(d), Untouched(d)
  PROVE  MaskedCPU(d)'
  BY DEF MaskedCPU, LevelsOK, BootMasked, FlagsKnown, MaskAccounted, Masked,
         One, Untouched

(* A move of the running level of c changes no other step. *)
LEMMA GotoEffect ==
  ASSUME TypeOK, NEW c \in CPU, NEW from \in Step, NEW to \in Step,
         Goto(c, from, to)
  PROVE  /\ pc' \in [CPU -> [Level -> Step]]
         /\ pc[c][level[c]] = from
         /\ \A d \in CPU : d # c => pc'[d] = pc[d]
         /\ \A l \in Level :
              pc'[c][l] = IF l = level[c] THEN to ELSE pc[c][l]
  BY DEF Goto, TypeOK

(* pushCLI increments one counter and turns one interrupt flag off. *)
LEMMA PushEffect ==
  ASSUME TypeOK, NEW c \in CPU, pushCLI(c)
  PROVE  /\ held' = held /\ flags' = flags /\ level' = level /\ phase' = phase
         /\ interruptFlag' \in [CPU -> BOOLEAN] /\ cliCount' \in [CPU -> Nat]
         /\ wereInterruptsEnabled' \in [CPU -> BOOLEAN]
         /\ ~interruptFlag'[c]
         /\ cliCount'[c] = cliCount[c] + 1
         /\ wereInterruptsEnabled'[c] =
              IF cliCount[c] = 0 THEN flags[c][level[c]]
                                 ELSE wereInterruptsEnabled[c]
<1>1. flags[c][level[c]] \in BOOLEAN
  BY DEF TypeOK
<1> QED
  BY <1>1 DEF pushCLI, TypeOK

(* popCLI decrements one counter and may turn one interrupt flag on. *)
LEMMA PopEffect ==
  ASSUME TypeOK, NEW c \in CPU, cliCount[c] # 0, popCLI(c)
  PROVE  /\ held' = held /\ flags' = flags /\ level' = level
         /\ wereInterruptsEnabled' = wereInterruptsEnabled
         /\ interruptFlag' \in [CPU -> BOOLEAN] /\ cliCount' \in [CPU -> Nat]
         /\ cliCount'[c] = cliCount[c] - 1
         /\ interruptFlag'[c] =
              (interruptFlag[c] \/ (cliCount[c] = 1 /\ wereInterruptsEnabled[c]))
<1>1. cliCount[c] - 1 \in Nat
  BY DEF TypeOK
<1> QED
  BY <1>1 DEF popCLI, TypeOK

(* Reading the flags changes nothing but the local variable flags. *)
LEMMA ReadEffect ==
  ASSUME TypeOK, NEW c \in CPU, ReadFlags(c)
  PROVE  /\ flags' \in [CPU -> [Level -> BOOLEAN]]
         /\ \A d \in CPU : d # c => flags'[d] = flags[d]
         /\ \A l \in Level :
              flags'[c][l] = IF l = level[c] THEN interruptFlag[c] ELSE flags[c][l]
  BY DEF ReadFlags, TypeOK

(* The masking invariant holds when the processors start. *)
LEMMA MaskInvInit == Init => MaskInv
  BY DEF Init, MaskInv, TypeOK, MaskedCPU, LevelsOK, BootMasked, FlagsKnown,
         MaskAccounted, Masked, One, Level, Step

(* Every action of a processor keeps the masking invariant. *)
LEMMA MaskInvNext == MaskInv /\ [Next]_vars => MaskInv'
<1> SUFFICES ASSUME MaskInv, [Next]_vars PROVE MaskInv'
  OBVIOUS
<1>0. TypeOK /\ \A c \in CPU : MaskedCPU(c)
  BY DEF MaskInv
<1> USE DEF Level
<1>1. CASE UNCHANGED vars
  BY <1>0, <1>1 DEF vars, MaskInv, TypeOK, MaskedCPU, LevelsOK, BootMasked,
     FlagsKnown, MaskAccounted, Masked, One
<1>2. ASSUME NEW c \in CPU, AcquireCall(c) PROVE MaskInv'
  <2>1. PICK from \in {"idle", "log"} : Goto(c, from, "acqCli")
    BY <1>2 DEF AcquireCall
  <2>2. /\ pc' \in [CPU -> [Level -> Step]]
        /\ pc[c][level[c]] = from
        /\ \A d \in CPU : d # c => pc'[d] = pc[d]
        /\ \A l \in Level :
             pc'[c][l] = IF l = level[c] THEN "acqCli" ELSE pc[c][l]
    <3>1. TypeOK
      BY <1>0
    <3>2. from \in Step /\ "acqCli" \in Step
      BY DEF Step
    <3> QED
      BY <2>1, <3>1, <3>2, GotoEffect
  <2>3. /\ flags' \in [CPU -> [Level -> BOOLEAN]]
        /\ \A d \in CPU : d # c => flags'[d] = flags[d]
        /\ \A l \in Level :
            flags'[c][l] = IF l = level[c] THEN interruptFlag[c] ELSE flags[c][l]
    BY <1>0, <1>2, ReadEffect DEF AcquireCall
  <2>4. TypeOK /\ MaskedCPU(c)
    BY <1>0
  <2>5. TypeOK'
    BY <1>0, <1>2, <2>2, <2>3 DEF AcquireCall, ReadFlags, TypeOK
  <2>6. ASSUME NEW d \in CPU, d # c PROVE Untouched(d)
    BY <1>0, <1>2, <2>6, <2>2, <2>3 DEF AcquireCall, ReadFlags, TypeOK,
       Untouched
  <2>7. ASSUME level[c] = "task" PROVE MaskedCPU(c)'
    BY <2>4, <1>2, <2>5, <2>2, <2>3, <2>7 DEF AcquireCall, ReadFlags, TypeOK,
       MaskedCPU, LevelsOK, BootMasked,
       FlagsKnown, MaskAccounted, Masked, One
  <2>8. ASSUME level[c] = "trap" PROVE MaskedCPU(c)'
    BY <2>4, <1>2, <2>5, <2>2, <2>3, <2>8 DEF AcquireCall, ReadFlags, TypeOK,
       MaskedCPU, LevelsOK, BootMasked,
       FlagsKnown, MaskAccounted, Masked, One
  <2> QED
    BY <1>0, <2>5, <2>6, <2>7, <2>8, UntouchedKeeps DEF MaskInv, TypeOK
<1>3. ASSUME NEW c \in CPU, AcquireCLI(c) PROVE MaskInv'
  <2>1. /\ pc' \in [CPU -> [Level -> Step]]
        /\ pc[c][level[c]] = "acqCli"
        /\ \A d \in CPU : d # c => pc'[d] = pc[d]
        /\ \A l \in Level :
             pc'[c][l] = IF l = level[c] THEN "acqSpin" ELSE pc[c][l]
    BY <1>0, <1>3, GotoEffect DEF AcquireCLI, Step
  <2>2. /\ held' = held /\ flags' = flags /\ level' = level /\ phase' = phase
        /\ interruptFlag' \in [CPU -> BOOLEAN] /\ cliCount' \in [CPU -> Nat]
        /\ wereInterruptsEnabled' \in [CPU -> BOOLEAN]
        /\ ~interruptFlag'[c]
        /\ cliCount'[c] = cliCount[c] + 1
        /\ wereInterruptsEnabled'[c] =
            IF cliCount[c] = 0 THEN flags[c][level[c]]
                               ELSE wereInterruptsEnabled[c]
    BY <1>0, <1>3, PushEffect DEF AcquireCLI
  <2>3. TypeOK /\ MaskedCPU(c)
    BY <1>0
  <2>4. TypeOK'
    BY <1>0, <1>3, <2>1, <2>2 DEF AcquireCLI, TypeOK
  <2>5. ASSUME NEW d \in CPU, d # c PROVE Untouched(d)
    BY <1>0, <1>3, <2>5, <2>1, <2>2 DEF AcquireCLI, pushCLI, TypeOK, Untouched
  <2>6. ASSUME level[c] = "task" PROVE MaskedCPU(c)'
    BY <2>3, <2>4, <2>1, <2>2, <2>6 DEF TypeOK, MaskedCPU, LevelsOK,
       BootMasked,
       FlagsKnown, MaskAccounted, Masked, One
  <2>7. ASSUME level[c] = "trap" PROVE MaskedCPU(c)'
    BY <2>3, <2>4, <2>1, <2>2, <2>7 DEF TypeOK, MaskedCPU, LevelsOK,
       BootMasked,
       FlagsKnown, MaskAccounted, Masked, One
  <2> QED
    BY <1>0, <2>4, <2>5, <2>6, <2>7, UntouchedKeeps DEF MaskInv, TypeOK
<1>4. ASSUME NEW c \in CPU, AcquireTestAndSet(c) PROVE MaskInv'
  <2>1. /\ pc' \in [CPU -> [Level -> Step]]
        /\ pc[c][level[c]] = "acqSpin"
        /\ \A d \in CPU : d # c => pc'[d] = pc[d]
        /\ \A l \in Level :
             pc'[c][l] = IF l = level[c] THEN "acqPop" ELSE pc[c][l]
    BY <1>0, <1>4, GotoEffect DEF AcquireTestAndSet, Step
  <2>2. TypeOK /\ MaskedCPU(c)
    BY <1>0
  <2>3. TypeOK'
    BY <1>0, <1>4, <2>1 DEF AcquireTestAndSet, TypeOK
  <2>4. ASSUME NEW d \in CPU, d # c PROVE Untouched(d)
    BY <1>0, <1>4, <2>4, <2>1 DEF AcquireTestAndSet, TypeOK, Untouched
  <2>5. ASSUME level[c] = "task" PROVE MaskedCPU(c)'
    BY <2>2, <1>4, <2>3, <2>1, <2>5 DEF AcquireTestAndSet, TypeOK, MaskedCPU,
       LevelsOK, BootMasked,
       FlagsKnown, MaskAccounted, Masked, One
  <2>6. ASSUME level[c] = "trap" PROVE MaskedCPU(c)'
    BY <2>2, <1>4, <2>3, <2>1, <2>6 DEF AcquireTestAndSet, TypeOK, MaskedCPU,
       LevelsOK, BootMasked,
       FlagsKnown, MaskAccounted, Masked, One
  <2> QED
    BY <1>0, <2>3, <2>4, <2>5, <2>6, UntouchedKeeps DEF MaskInv, TypeOK
<1>5. ASSUME NEW c \in CPU, AcquireReturn(c) PROVE MaskInv'
  <2>1. /\ pc' \in [CPU -> [Level -> Step]]
        /\ pc[c][level[c]] = "acqPop"
        /\ \A d \in CPU : d # c => pc'[d] = pc[d]
        /\ \A l \in Level :
             pc'[c][l] = IF l = level[c] THEN "critical" ELSE pc[c][l]
    BY <1>0, <1>5, GotoEffect DEF AcquireReturn, Step
  <2>2. cliCount[c] # 0
    <3>1. MaskAccounted(c) /\ level[c] \in Level
      BY <1>0 DEF MaskedCPU, TypeOK
    <3>2. Masked(c, "task") \/ Masked(c, "trap")
      BY <2>1, <3>1 DEF Masked
    <3> QED
      BY <3>1, <3>2 DEF MaskAccounted, One
  <2>3. /\ held' = held /\ flags' = flags /\ level' = level
        /\ wereInterruptsEnabled' = wereInterruptsEnabled
        /\ interruptFlag' \in [CPU -> BOOLEAN] /\ cliCount' \in [CPU -> Nat]
        /\ cliCount'[c] = cliCount[c] - 1
        /\ interruptFlag'[c] =
            (interruptFlag[c] \/ (cliCount[c] = 1 /\ wereInterruptsEnabled[c]))
    BY <1>0, <1>5, <2>2, PopEffect DEF AcquireReturn
  <2>4. TypeOK /\ MaskedCPU(c)
    BY <1>0
  <2>5. phase' = phase
    BY <1>5 DEF AcquireReturn
  <2>6. TypeOK'
    BY <1>0, <1>5, <2>1, <2>3 DEF AcquireReturn, TypeOK
  <2>7. ASSUME NEW d \in CPU, d # c PROVE Untouched(d)
    BY <1>0, <1>5, <2>7, <2>1, <2>3 DEF AcquireReturn, popCLI, TypeOK,
       Untouched
  <2>8. ASSUME level[c] = "task" PROVE MaskedCPU(c)'
    BY <2>4, <1>5, <2>6, <2>1, <2>3, <2>8 DEF AcquireReturn, TypeOK,
       MaskedCPU, LevelsOK, BootMasked,
       FlagsKnown, MaskAccounted, Masked, One
  <2>9. ASSUME level[c] = "trap" PROVE MaskedCPU(c)'
    <3> USE <2>4, <2>6, <2>1, <2>3, <2>9, <2>5 DEF TypeOK, Level, MaskedCPU,
       Masked, One
    <3>1. LevelsOK(c)'
      BY DEF LevelsOK
    <3>2. BootMasked(c)'
      BY DEF LevelsOK, BootMasked, MaskAccounted
    <3>3. MaskAccounted(c)'
      BY DEF LevelsOK, BootMasked, FlagsKnown, MaskAccounted
    <3>4. FlagsKnown(c)'
      BY DEF LevelsOK, BootMasked, FlagsKnown, MaskAccounted
    <3> QED
      BY <3>1, <3>2, <3>3, <3>4
  <2> QED
    BY <1>0, <2>6, <2>7, <2>8, <2>9, UntouchedKeeps DEF MaskInv, TypeOK
<1>6. ASSUME NEW c \in CPU, ReleaseCall(c) PROVE MaskInv'
  <2>1. /\ pc' \in [CPU -> [Level -> Step]]
        /\ pc[c][level[c]] = "critical"
        /\ \A d \in CPU : d # c => pc'[d] = pc[d]
        /\ \A l \in Level :
             pc'[c][l] = IF l = level[c] THEN "relCli" ELSE pc[c][l]
    BY <1>0, <1>6, GotoEffect DEF ReleaseCall, Step
  <2>2. /\ flags' \in [CPU -> [Level -> BOOLEAN]]
        /\ \A d \in CPU : d # c => flags'[d] = flags[d]
        /\ \A l \in Level :
            flags'[c][l] = IF l = level[c] THEN interruptFlag[c] ELSE flags[c][l]
    BY <1>0, <1>6, ReadEffect DEF ReleaseCall
  <2>3. TypeOK /\ MaskedCPU(c)
    BY <1>0
  <2>4. TypeOK'
    BY <1>0, <1>6, <2>1, <2>2 DEF ReleaseCall, ReadFlags, TypeOK
  <2>5. ASSUME NEW d \in CPU, d # c PROVE Untouched(d)
    BY <1>0, <1>6, <2>5, <2>1, <2>2 DEF ReleaseCall, ReadFlags, TypeOK,
       Untouched
  <2>6. ASSUME level[c] = "task" PROVE MaskedCPU(c)'
    BY <2>3, <1>6, <2>4, <2>1, <2>2, <2>6 DEF ReleaseCall, ReadFlags, TypeOK,
       MaskedCPU, LevelsOK, BootMasked,
       FlagsKnown, MaskAccounted, Masked, One
  <2>7. ASSUME level[c] = "trap" PROVE MaskedCPU(c)'
    BY <2>3, <1>6, <2>4, <2>1, <2>2, <2>7 DEF ReleaseCall, ReadFlags, TypeOK,
       MaskedCPU, LevelsOK, BootMasked,
       FlagsKnown, MaskAccounted, Masked, One
  <2> QED
    BY <1>0, <2>4, <2>5, <2>6, <2>7, UntouchedKeeps DEF MaskInv, TypeOK
<1>7. ASSUME NEW c \in CPU, ReleaseCLI(c) PROVE MaskInv'
  <2>1. /\ pc' \in [CPU -> [Level -> Step]]
        /\ pc[c][level[c]] = "relCli"
        /\ \A d \in CPU : d # c => pc'[d] = pc[d]
        /\ \A l \in Level :
             pc'[c][l] = IF l = level[c] THEN "relStore" ELSE pc[c][l]
    BY <1>0, <1>7, GotoEffect DEF ReleaseCLI, Step
  <2>2. /\ held' = held /\ flags' = flags /\ level' = level /\ phase' = phase
        /\ interruptFlag' \in [CPU -> BOOLEAN] /\ cliCount' \in [CPU -> Nat]
        /\ wereInterruptsEnabled' \in [CPU -> BOOLEAN]
        /\ ~interruptFlag'[c]
        /\ cliCount'[c] = cliCount[c] + 1
        /\ wereInterruptsEnabled'[c] =
            IF cliCount[c] = 0 THEN flags[c][level[c]]
                               ELSE wereInterruptsEnabled[c]
    BY <1>0, <1>7, PushEffect DEF ReleaseCLI
  <2>3. TypeOK /\ MaskedCPU(c)
    BY <1>0
  <2>4. TypeOK'
    BY <1>0, <1>7, <2>1, <2>2 DEF ReleaseCLI, TypeOK
  <2>5. ASSUME NEW d \in CPU, d # c PROVE Untouched(d)
    BY <1>0, <1>7, <2>5, <2>1, <2>2 DEF ReleaseCLI, pushCLI, TypeOK, Untouched
  <2>6. ASSUME level[c] = "task" PROVE MaskedCPU(c)'
    BY <2>3, <2>4, <2>1, <2>2, <2>6 DEF TypeOK, MaskedCPU, LevelsOK,
       BootMasked,
       FlagsKnown, MaskAccounted, Masked, One
  <2>7. ASSUME level[c] = "trap" PROVE MaskedCPU(c)'
    BY <2>3, <2>4, <2>1, <2>2, <2>7 DEF TypeOK, MaskedCPU, LevelsOK,
       BootMasked,
       FlagsKnown, MaskAccounted, Masked, One
  <2> QED
    BY <1>0, <2>4, <2>5, <2>6, <2>7, UntouchedKeeps DEF MaskInv, TypeOK
<1>8. ASSUME NEW c \in CPU, ReleaseStore(c) PROVE MaskInv'
  <2>1. /\ pc' \in [CPU -> [Level -> Step]]
        /\ pc[c][level[c]] = "relStore"
        /\ \A d \in CPU : d # c => pc'[d] = pc[d]
        /\ \A l \in Level :
             pc'[c][l] = IF l = level[c] THEN "relPop" ELSE pc[c][l]
    BY <1>0, <1>8, GotoEffect DEF ReleaseStore, Step
  <2>2. TypeOK /\ MaskedCPU(c)
    BY <1>0
  <2>3. TypeOK'
    BY <1>0, <1>8, <2>1 DEF ReleaseStore, TypeOK
  <2>4. ASSUME NEW d \in CPU, d # c PROVE Untouched(d)
    BY <1>0, <1>8, <2>4, <2>1 DEF ReleaseStore, TypeOK, Untouched
  <2>5. ASSUME level[c] = "task" PROVE MaskedCPU(c)'
    BY <2>2, <1>8, <2>3, <2>1, <2>5 DEF ReleaseStore, TypeOK, MaskedCPU,
       LevelsOK, BootMasked,
       FlagsKnown, MaskAccounted, Masked, One
  <2>6. ASSUME level[c] = "trap" PROVE MaskedCPU(c)'
    BY <2>2, <1>8, <2>3, <2>1, <2>6 DEF ReleaseStore, TypeOK, MaskedCPU,
       LevelsOK, BootMasked,
       FlagsKnown, MaskAccounted, Masked, One
  <2> QED
    BY <1>0, <2>3, <2>4, <2>5, <2>6, UntouchedKeeps DEF MaskInv, TypeOK
<1>9. ASSUME NEW c \in CPU, ReleaseReturn(c) PROVE MaskInv'
  <2> DEFINE to == IF level[c] = "task" THEN "idle" ELSE "done"
  <2>1. Goto(c, "relPop", to) /\ to \in Step
    BY <1>9 DEF ReleaseReturn, Step
  <2>2. /\ pc' \in [CPU -> [Level -> Step]]
        /\ pc[c][level[c]] = "relPop"
        /\ \A d \in CPU : d # c => pc'[d] = pc[d]
        /\ \A l \in Level :
             pc'[c][l] = IF l = level[c] THEN to ELSE pc[c][l]
    <3> HIDE DEF to
    <3>1. TypeOK
      BY <1>0
    <3>2. "relPop" \in Step
      BY DEF Step
    <3> QED
      BY <2>1, <3>1, <3>2, GotoEffect
  <2>3. cliCount[c] # 0
    <3>1. MaskAccounted(c) /\ level[c] \in Level
      BY <1>0 DEF MaskedCPU, TypeOK
    <3>2. Masked(c, "task") \/ Masked(c, "trap")
      BY <2>2, <3>1 DEF Masked
    <3> QED
      BY <3>1, <3>2 DEF MaskAccounted, One
  <2>4. /\ held' = held /\ flags' = flags /\ level' = level
        /\ wereInterruptsEnabled' = wereInterruptsEnabled
        /\ interruptFlag' \in [CPU -> BOOLEAN] /\ cliCount' \in [CPU -> Nat]
        /\ cliCount'[c] = cliCount[c] - 1
        /\ interruptFlag'[c] =
            (interruptFlag[c] \/ (cliCount[c] = 1 /\ wereInterruptsEnabled[c]))
    BY <1>0, <1>9, <2>3, PopEffect DEF ReleaseReturn
  <2>5. TypeOK /\ MaskedCPU(c)
    BY <1>0
  <2>6. phase' = phase
    BY <1>9 DEF ReleaseReturn
  <2>7. TypeOK'
    BY <1>0, <1>9, <2>2, <2>4 DEF ReleaseReturn, TypeOK
  <2>8. ASSUME NEW d \in CPU, d # c PROVE Untouched(d)
    BY <1>0, <1>9, <2>8, <2>2, <2>4 DEF ReleaseReturn, popCLI, TypeOK,
       Untouched
  <2>9. ASSUME level[c] = "task" PROVE MaskedCPU(c)'
    BY <2>5, <1>9, <2>7, <2>2, <2>4, <2>9 DEF ReleaseReturn, TypeOK,
       MaskedCPU, LevelsOK, BootMasked,
       FlagsKnown, MaskAccounted, Masked, One
  <2>10. ASSUME level[c] = "trap" PROVE MaskedCPU(c)'
    <3> USE <2>5, <2>7, <2>2, <2>4, <2>10, <2>6 DEF TypeOK, Level, MaskedCPU,
       Masked, One
    <3>1. LevelsOK(c)'
      BY DEF LevelsOK
    <3>2. BootMasked(c)'
      BY DEF LevelsOK, BootMasked, MaskAccounted
    <3>3. MaskAccounted(c)'
      BY DEF LevelsOK, BootMasked, FlagsKnown, MaskAccounted
    <3>4. FlagsKnown(c)'
      BY DEF LevelsOK, BootMasked, FlagsKnown, MaskAccounted
    <3> QED
      BY <3>1, <3>2, <3>3, <3>4
  <2> QED
    BY <1>0, <2>7, <2>8, <2>9, <2>10, UntouchedKeeps DEF MaskInv, TypeOK
<1>10. ASSUME NEW c \in CPU, FinishBoot(c) PROVE MaskInv'
  <2>1. cliCount[c] # 0
    BY <1>0, <1>10 DEF FinishBoot, MaskedCPU, MaskAccounted, Masked, One,
       TypeOK
  <2>2. /\ held' = held /\ flags' = flags /\ level' = level
        /\ wereInterruptsEnabled' = wereInterruptsEnabled
        /\ interruptFlag' \in [CPU -> BOOLEAN] /\ cliCount' \in [CPU -> Nat]
        /\ cliCount'[c] = cliCount[c] - 1
        /\ interruptFlag'[c] =
            (interruptFlag[c] \/ (cliCount[c] = 1 /\ wereInterruptsEnabled[c]))
    BY <1>0, <1>10, <2>1, PopEffect DEF FinishBoot
  <2>3. TypeOK /\ MaskedCPU(c)
    BY <1>0
  <2>4. TypeOK'
    BY <1>0, <1>10, <2>2 DEF FinishBoot, TypeOK, Step
  <2>5. ASSUME NEW d \in CPU, d # c PROVE Untouched(d)
    BY <1>0, <1>10, <2>5, <2>2 DEF FinishBoot, popCLI, TypeOK, Untouched
  <2>6. ASSUME level[c] = "task" PROVE MaskedCPU(c)'
    BY <2>3, <1>10, <2>4, <2>2, <2>6 DEF FinishBoot, TypeOK, Step, MaskedCPU,
       LevelsOK, BootMasked,
       FlagsKnown, MaskAccounted, Masked, One
  <2>7. ASSUME level[c] = "trap" PROVE MaskedCPU(c)'
    BY <2>3, <1>10, <2>4, <2>2, <2>7 DEF FinishBoot, TypeOK, Step, MaskedCPU,
       LevelsOK, BootMasked,
       FlagsKnown, MaskAccounted, Masked, One
  <2> QED
    BY <1>0, <2>4, <2>5, <2>6, <2>7, UntouchedKeeps DEF MaskInv, TypeOK
<1>11. ASSUME NEW c \in CPU, EnableInterrupts(c) PROVE MaskInv'
  <2>1. /\ interruptFlag'[c] /\ phase[c] = "up" /\ pc[c]["task"] = "idle"
        /\ cliCount' = cliCount /\ flags' = flags /\ pc' = pc /\ level' = level
        /\ wereInterruptsEnabled' = wereInterruptsEnabled /\ phase' = phase
        /\ level[c] = "task"
    BY <1>0, <1>11 DEF EnableInterrupts, TypeOK
  <2>2. TypeOK /\ MaskedCPU(c)
    BY <1>0
  <2>3. TypeOK'
    BY <1>0, <1>11, <2>1 DEF EnableInterrupts, TypeOK, Step
  <2>4. ASSUME NEW d \in CPU, d # c PROVE Untouched(d)
    BY <1>0, <1>11, <2>4, <2>1 DEF EnableInterrupts, TypeOK, Untouched
  <2>5. ASSUME level[c] = "task" PROVE MaskedCPU(c)'
    <3> USE <2>2, <2>3, <2>1, <2>5 DEF TypeOK, Level, Step, MaskedCPU,
       Masked, One
    <3>1. LevelsOK(c)'
      BY DEF LevelsOK
    <3>2. BootMasked(c)'
      BY DEF LevelsOK, BootMasked, MaskAccounted
    <3>3. MaskAccounted(c)'
      BY DEF LevelsOK, BootMasked, FlagsKnown, MaskAccounted
    <3>4. FlagsKnown(c)'
      BY DEF LevelsOK, BootMasked, FlagsKnown, MaskAccounted
    <3> QED
      BY <3>1, <3>2, <3>3, <3>4
  <2>6. ASSUME level[c] = "trap" PROVE MaskedCPU(c)'
    BY <2>2, <2>3, <2>1, <2>6 DEF TypeOK, Step, MaskedCPU, LevelsOK,
       BootMasked,
       FlagsKnown, MaskAccounted, Masked, One
  <2> QED
    BY <1>0, <2>3, <2>4, <2>5, <2>6, UntouchedKeeps DEF MaskInv, TypeOK
<1>12. ASSUME NEW c \in CPU, NEW h \in {"ack", "log"},
        Interrupt(c, h) PROVE MaskInv'
  <2>1. /\ interruptFlag[c] /\ ~interruptFlag'[c] /\ level'[c] = "trap"
        /\ \A l \in Level : pc'[c][l] = IF l = "trap" THEN h ELSE pc[c][l]
        /\ cliCount' = cliCount /\ flags' = flags /\ phase' = phase
        /\ wereInterruptsEnabled' = wereInterruptsEnabled
    BY <1>0, <1>12 DEF Interrupt, TypeOK
  <2>2. TypeOK /\ MaskedCPU(c)
    BY <1>0
  <2>3. TypeOK'
    BY <1>0, <1>12, <2>1 DEF Interrupt, TypeOK, Step
  <2>4. ASSUME NEW d \in CPU, d # c PROVE Untouched(d)
    BY <1>0, <1>12, <2>4, <2>1 DEF Interrupt, TypeOK, Untouched
  <2>5. ASSUME level[c] = "task" PROVE MaskedCPU(c)'
    <3> USE <2>2, <2>3, <2>1, <2>5 DEF TypeOK, Level, Step, MaskedCPU,
       Masked, One
    <3>1. LevelsOK(c)'
      BY DEF LevelsOK
    <3>2. BootMasked(c)'
      BY DEF LevelsOK, BootMasked, MaskAccounted
    <3>3. MaskAccounted(c)'
      BY DEF LevelsOK, BootMasked, FlagsKnown, MaskAccounted
    <3>4. FlagsKnown(c)'
      BY DEF LevelsOK, BootMasked, FlagsKnown, MaskAccounted
    <3> QED
      BY <3>1, <3>2, <3>3, <3>4
  <2>6. ASSUME level[c] = "trap" PROVE MaskedCPU(c)'
    BY <2>2, <2>3, <2>1, <2>6 DEF TypeOK, Step, MaskedCPU, LevelsOK,
       BootMasked,
       FlagsKnown, MaskAccounted, Masked, One
  <2> QED
    BY <1>0, <2>3, <2>4, <2>5, <2>6, UntouchedKeeps DEF MaskInv, TypeOK
<1>13. ASSUME NEW c \in CPU, AcknowledgeInterrupt(c) PROVE MaskInv'
  <2>1. /\ pc' \in [CPU -> [Level -> Step]]
        /\ pc[c][level[c]] = "ack"
        /\ \A d \in CPU : d # c => pc'[d] = pc[d]
        /\ \A l \in Level :
             pc'[c][l] = IF l = level[c] THEN "done" ELSE pc[c][l]
    BY <1>0, <1>13, GotoEffect DEF AcknowledgeInterrupt, Step
  <2>2. TypeOK /\ MaskedCPU(c)
    BY <1>0
  <2>3. TypeOK'
    BY <1>0, <1>13, <2>1 DEF AcknowledgeInterrupt, TypeOK
  <2>4. ASSUME NEW d \in CPU, d # c PROVE Untouched(d)
    BY <1>0, <1>13, <2>4, <2>1 DEF AcknowledgeInterrupt, TypeOK, Untouched
  <2>5. ASSUME level[c] = "task" PROVE MaskedCPU(c)'
    BY <2>2, <1>13, <2>3, <2>1, <2>5 DEF AcknowledgeInterrupt, TypeOK,
       MaskedCPU, LevelsOK, BootMasked,
       FlagsKnown, MaskAccounted, Masked, One
  <2>6. ASSUME level[c] = "trap" PROVE MaskedCPU(c)'
    BY <2>2, <1>13, <2>3, <2>1, <2>6 DEF AcknowledgeInterrupt, TypeOK,
       MaskedCPU, LevelsOK, BootMasked,
       FlagsKnown, MaskAccounted, Masked, One
  <2> QED
    BY <1>0, <2>3, <2>4, <2>5, <2>6, UntouchedKeeps DEF MaskInv, TypeOK
<1>14. ASSUME NEW c \in CPU, TrapRet(c) PROVE MaskInv'
  <2>1. /\ interruptFlag'[c] /\ level'[c] = "task" /\ pc[c]["trap"] = "done"
        /\ \A l \in Level : pc'[c][l] = IF l = "trap" THEN "none" ELSE pc[c][l]
        /\ cliCount' = cliCount /\ flags' = flags /\ phase' = phase
        /\ wereInterruptsEnabled' = wereInterruptsEnabled
        /\ level[c] = "trap"
    BY <1>0, <1>14 DEF TrapRet, TypeOK
  <2>2. TypeOK /\ MaskedCPU(c)
    BY <1>0
  <2>3. TypeOK'
    BY <1>0, <1>14, <2>1 DEF TrapRet, TypeOK, Step
  <2>4. ASSUME NEW d \in CPU, d # c PROVE Untouched(d)
    BY <1>0, <1>14, <2>4, <2>1 DEF TrapRet, TypeOK, Untouched
  <2>5. ASSUME level[c] = "task" PROVE MaskedCPU(c)'
    BY <2>2, <2>3, <2>1, <2>5 DEF TypeOK, Step, MaskedCPU, LevelsOK,
       BootMasked,
       FlagsKnown, MaskAccounted, Masked, One
  <2>6. ASSUME level[c] = "trap" PROVE MaskedCPU(c)'
    <3> USE <2>2, <2>3, <2>1, <2>6 DEF TypeOK, Level, Step, MaskedCPU,
       Masked, One
    <3>1. LevelsOK(c)'
      BY DEF LevelsOK
    <3>2. BootMasked(c)'
      BY DEF LevelsOK, BootMasked, MaskAccounted
    <3>3. MaskAccounted(c)'
      BY DEF LevelsOK, BootMasked, FlagsKnown, MaskAccounted
    <3>4. FlagsKnown(c)'
      BY DEF LevelsOK, BootMasked, FlagsKnown, MaskAccounted
    <3> QED
      BY <3>1, <3>2, <3>3, <3>4
  <2> QED
    BY <1>0, <2>3, <2>4, <2>5, <2>6, UntouchedKeeps DEF MaskInv, TypeOK
<1> QED
  BY <1>1, <1>2, <1>3, <1>4, <1>5, <1>6, <1>7, <1>8, <1>9, <1>10, <1>11,
     <1>12, <1>13, <1>14 DEF Next, TimerInterrupt, UnhandledInterrupt

-----------------------------------------------------------------------------
(* Nobody holds the lock at the start. *)
LEMMA ExclusionInit == Init => ExclusionInv
  BY DEF Init, ExclusionInv, OwnerHolds, MutualExclusion, Owns, Level

(* Only the test-and-set makes an owner, and only out of a free lock; only *)
(* the owner's store frees the lock.                                       *)
LEMMA ExclusionNext ==
  MaskInv /\ ExclusionInv /\ [Next]_vars => ExclusionInv'
<1> SUFFICES ASSUME MaskInv, ExclusionInv, [Next]_vars PROVE ExclusionInv'
  OBVIOUS
<1>0. TypeOK
  BY DEF MaskInv
<1> USE DEF ExclusionInv, OwnerHolds, MutualExclusion, Owns
(* A step that leaves the lock word alone and makes no new owner. *)
<1>1. ASSUME held' = held,
             \A d \in CPU : \A l \in Level : Owns(d, l)' => Owns(d, l)
      PROVE  ExclusionInv'
  BY <1>1
<1>2. ASSUME NEW c \in CPU, AcquireTestAndSet(c) PROVE ExclusionInv'
  <2>1. /\ held = 0 /\ held' = 1
        /\ \A d \in CPU : d # c => pc'[d] = pc[d]
        /\ \A l \in Level :
             pc'[c][l] = IF l = level[c] THEN "acqPop" ELSE pc[c][l]
    BY <1>0, <1>2, GotoEffect DEF AcquireTestAndSet, Step
  <2>2. \A d \in CPU : \A l \in Level : Owns(d, l)' => d = c /\ l = level[c]
    BY <2>1
  <2> QED
    BY <2>1, <2>2
<1>3. ASSUME NEW c \in CPU, ReleaseStore(c) PROVE ExclusionInv'
  <2>1. /\ pc[c][level[c]] = "relStore" /\ level[c] \in Level
        /\ \A d \in CPU : d # c => pc'[d] = pc[d]
        /\ \A l \in Level :
             pc'[c][l] = IF l = level[c] THEN "relPop" ELSE pc[c][l]
    BY <1>0, <1>3, GotoEffect DEF ReleaseStore, Step, TypeOK
  <2>2. \A d \in CPU : \A l \in Level : ~Owns(d, l)'
    BY <2>1
  <2> QED
    BY <2>2
<1>4. ASSUME NEW c \in CPU, NEW from \in Step, NEW to \in Step,
             Goto(c, from, to), held' = held,
             to \in {"acqPop", "critical", "relCli", "relStore"} =>
               from \in {"acqPop", "critical", "relCli", "relStore"}
      PROVE  ExclusionInv'
  <2>1. /\ pc[c][level[c]] = from /\ level[c] \in Level
        /\ \A d \in CPU : d # c => pc'[d] = pc[d]
        /\ \A l \in Level : pc'[c][l] = IF l = level[c] THEN to ELSE pc[c][l]
    BY <1>0, <1>4, GotoEffect DEF TypeOK
  <2>2. \A d \in CPU : \A l \in Level : Owns(d, l)' => Owns(d, l)
    BY <2>1, <1>4
  <2> QED
    BY <1>1, <1>4, <2>2
<1>5. ASSUME NEW c \in CPU, NEW v \in {"ack", "log", "none"},
             pc' = [pc EXCEPT ![c]["trap"] = v], held' = held
      PROVE  ExclusionInv'
  <2>1. /\ \A d \in CPU : d # c => pc'[d] = pc[d]
        /\ pc'[c]["task"] = pc[c]["task"]
        /\ pc'[c]["trap"] = v
    BY <1>0, <1>5 DEF TypeOK, Level
  <2>2. \A l \in Level : Owns(c, l)' => Owns(c, l)
    BY <2>1 DEF Level
  <2>3. \A d \in CPU : \A l \in Level : Owns(d, l)' => Owns(d, l)
    BY <2>1, <2>2
  <2> QED
    BY <1>1, <1>5, <2>3
<1>6. ASSUME NEW c \in CPU,
             \/ AcquireCall(c) \/ AcquireCLI(c) \/ AcquireReturn(c)
             \/ ReleaseCall(c) \/ ReleaseCLI(c) \/ ReleaseReturn(c)
             \/ AcknowledgeInterrupt(c)
      PROVE  ExclusionInv'
  BY <1>4, <1>6 DEF AcquireCall, AcquireCLI, AcquireReturn, ReleaseCall,
     ReleaseCLI, ReleaseReturn, AcknowledgeInterrupt, ReadFlags, pushCLI,
     popCLI, Step
<1>7. ASSUME NEW c \in CPU,
             TimerInterrupt(c) \/ UnhandledInterrupt(c) \/ TrapRet(c)
      PROVE  ExclusionInv'
  BY <1>5, <1>7 DEF TimerInterrupt, UnhandledInterrupt, Interrupt, TrapRet
<1>8. ASSUME pc' = pc, held' = held PROVE ExclusionInv'
  BY <1>8
<1>9. ASSUME NEW c \in CPU, FinishBoot(c) \/ EnableInterrupts(c)
      PROVE  ExclusionInv'
  BY <1>8, <1>9 DEF FinishBoot, EnableInterrupts, popCLI
<1> QED
  BY <1>2, <1>3, <1>6, <1>7, <1>8, <1>9 DEF Next, vars

-----------------------------------------------------------------------------
(* The two invariants hold in every reachable state. *)
THEOREM Invariance == Spec => [](MaskInv /\ ExclusionInv)
<1>1. Init => MaskInv /\ ExclusionInv
  BY MaskInvInit, ExclusionInit
<1>2. (MaskInv /\ ExclusionInv) /\ [Next]_vars => (MaskInv /\ ExclusionInv)'
  BY MaskInvNext, ExclusionNext
<1> QED
  BY <1>1, <1>2, PTL DEF Spec

(* Every variable keeps its type, for any set of processors; in particular *)
(* cliCount, which popCLI decrements, never drops below zero.              *)
THEOREM TypeCorrect == Spec => []TypeOK
<1>1. MaskInv => TypeOK
  BY DEF MaskInv
<1> QED
  BY <1>1, Invariance, PTL

(* Spinlock::acquire and Spinlock::release give mutual exclusion on any    *)
(* number of processors, between the two levels of one processor too.      *)
THEOREM Exclusion == Spec => []MutualExclusion
<1>1. ExclusionInv => MutualExclusion
  BY DEF ExclusionInv
<1> QED
  BY <1>1, Invariance, PTL

(* cliCount is exact and interrupts are off while it is positive, on every *)
(* processor.                                                              *)
THEOREM Accounting == Spec => []MaskAccounting
<1>1. MaskInv => MaskAccounting
  BY DEF MaskInv, MaskedCPU, MaskAccounting
<1> QED
  BY <1>1, Invariance, PTL

(* acquire and release return with their caller's interrupt flag, whatever *)
(* interrupts arrive inside them.                                          *)
THEOREM FlagRestored == Spec => CallerFlagRestored
<1>1. ASSUME MaskInv, Next, NEW c \in CPU,
             level'[c] = level[c], pc[c][level[c]] \in {"acqPop", "relPop"},
             pc'[c][level[c]] # pc[c][level[c]]
      PROVE  interruptFlag'[c] = flags[c][level[c]]
  <2>1. TypeOK /\ MaskedCPU(c)
    BY <1>1 DEF MaskInv
  <2>2. PICK d \in CPU :
          \/ AcquireReturn(d) \/ ReleaseReturn(d)
          \/ \E from, to \in Step :
               Goto(d, from, to) /\ from \notin {"acqPop", "relPop"}
          \/ pc' = pc
          \/ \E to \in Step : pc' = [pc EXCEPT ![d]["trap"] = to]
                              /\ level'[d] # level[d]
    <3>1. \A d \in CPU : MaskedCPU(d)
      BY <1>1 DEF MaskInv
    <3> QED
      BY <1>1, <2>1, <3>1 DEF Next, AcquireCall, AcquireCLI, AcquireTestAndSet,
         ReleaseCall, ReleaseCLI, ReleaseStore, FinishBoot, EnableInterrupts,
         TimerInterrupt, UnhandledInterrupt, Interrupt, AcknowledgeInterrupt,
         TrapRet, Step, TypeOK, MaskedCPU, MaskAccounted, Level
  <2>3. d = c /\ (AcquireReturn(c) \/ ReleaseReturn(c))
    BY <1>1, <2>1, <2>2 DEF Goto, TypeOK, AcquireReturn, ReleaseReturn
  <2>4. popCLI(c) /\ level[c] \in Level /\ Masked(c, level[c])
    BY <1>1, <2>1, <2>3 DEF AcquireReturn, ReleaseReturn, TypeOK, Masked
  <2>5. /\ cliCount[c] # 0 /\ ~interruptFlag[c]
        /\ flags[c][level[c]] = wereInterruptsEnabled[c]
        /\ phase[c] = "up" => cliCount[c] = 1
        /\ phase[c] = "boot" => ~wereInterruptsEnabled[c]
        /\ phase[c] \in {"boot", "up"}
    BY <2>1, <2>4 DEF MaskedCPU, MaskAccounted, BootMasked, FlagsKnown,
       LevelsOK, Masked, One, TypeOK, Level
  <2> QED
    BY <2>1, <2>4, <2>5, PopEffect DEF TypeOK
<1>2. MaskInv /\ [Next]_vars => [\A c \in CPU : ReturnsWithCallerFlag(c)]_vars
  BY <1>1 DEF ReturnsWithCallerFlag
<1> QED
  BY <1>2, Invariance, PTL DEF CallerFlagRestored, Spec
=============================================================================
