----------------------------- MODULE TrapsProofs -----------------------------
(***************************************************************************)
(* The way into the kernel and back, for any place of the stacks, any      *)
(* exceptions a process can raise and any depth of the C functions that    *)
(* are called: what is interrupted goes on as it was, the kernel keeps to  *)
(* its stack, and a fault of the process never makes the kernel panic.     *)
(***************************************************************************)
EXTENDS Traps, SequenceTheorems, TLAPS

Register == ToSet(PushOrder)

(* Steps of SyscallHandler; steps of TrapCommon, TrapHandler and TrapRet. *)
Kernel == {"entry", "saved", "switched", "call", "inside", "pop", "popped",
           "restored"}
Handler == {"stub", "handler", "trapret", "exited"}

Steps == {"user", "reset"} \union Kernel \union Handler

(* What Saved records. *)
Context == [regs : [Register -> Int], rip : Int, rsp : Int, rflags : Int,
            cpl : {0, 3}, pc : Steps]

(* The registers g were pushed below the address top. *)
RegsAt(m, top, g) ==
  \A i \in 1 .. 15 : top - i \in DOMAIN m /\ m[top - i] = g[PushOrder[i]]

(* A process in user code, and one that has made a system call. *)
UserContext(r) ==
  /\ r.pc = "user" /\ r.cpl = 3 /\ r.rflags = IF1 /\ r.rsp \in {0, UserTop}
CallContext(u) ==
  /\ u \in Context /\ UserContext(u)
  /\ u.rip = 0 /\ u.regs["rcx"] = 0 /\ u.regs["r11"] = IF1

(* SyscallHandler at r, serving the call of u: where u's registers and     *)
(* stack pointer are.                                                      *)
KernelContext(m, us, r, u) ==
  /\ r.pc \in Kernel /\ r.cpl = 0 /\ r.rflags = IF1
  /\ r.pc \in {"entry", "saved", "switched", "popped", "restored"} =>
       r.regs = u.regs
  /\ r.pc \in {"entry", "saved", "restored"} => r.rsp = u.rsp
  /\ r.pc \in {"switched", "popped"} => r.rsp = InterruptStack
  /\ r.pc \in {"call", "pop"} => r.rsp = InterruptStack - 15
  /\ r.pc = "inside" =>
       /\ r.regs["rbx"] = InterruptStack - 15
       /\ r.rsp \in InterruptStack - 15 - CallWords .. InterruptStack - 16
  /\ r.pc \in {"call", "inside", "pop"} => RegsAt(m, InterruptStack, u.regs)
  /\ r.pc \in {"saved", "switched", "call", "inside", "pop", "popped"} =>
       us = u.rsp

(* Code that interrupts may come between: below it in resume is nothing,   *)
(* or the process that made the call.                                      *)
Runs(m, us, r, res) ==
  \/ UserContext(r) /\ res = <<>>
  \/ Len(res) = 1 /\ CallContext(res[1]) /\ KernelContext(m, us, r, res[1])

(* Where the processor starts to push, and the words it pushes. *)
Start(r) == IF r.cpl = 3 THEN InterruptStack ELSE r.rsp - (r.rsp % 2)
FrameAt(m, r) ==
  /\ {Start(r) - j : j \in 2 .. 5} \subseteq DOMAIN m
  /\ m[Start(r) - 2] = r.rsp /\ m[Start(r) - 3] = r.rflags
  /\ m[Start(r) - 4] = (IF r.cpl = 3 THEN UserCS ELSE KernelCS)
  /\ m[Start(r) - 5] = r.rip

(* The vectors a handler can see; only exceptions come from user code      *)
(* alone.                                                                  *)
Vectors == Exceptions \union {11, TimerVector}
SeenAt(v, r) == v \in Vectors /\ (v \notin {11, TimerVector} => r.cpl = 3)

TypeInv ==
  /\ regs \in [Register -> Int] /\ rip \in Int /\ rsp \in Int
  /\ rflags \in Int /\ cpl \in {0, 3} /\ userStack \in Int
  /\ resume \in Seq(Context)
  /\ pc \in Steps

RunInv ==
  pc \in {"user"} \union Kernel => Runs(mem, userStack, Saved, resume)

(* The whole frame is below what was interrupted: 5 words of the           *)
(* processor, 2 of the stub and 15 registers.                              *)
HandlerInv ==
  pc \in Handler =>
    /\ resume # <<>> /\ cpl = 0 /\ rflags = IF0
    /\ Runs(mem, userStack, Last(resume), Front(resume))
    /\ FrameAt(mem, Last(resume))
    /\ pc = "stub" =>
         /\ SeenAt(rip, Last(resume)) /\ regs = Last(resume).regs
         /\ rsp = Start(Last(resume)) - (IF rip \in PushesErrorCode THEN 6 ELSE 5)
    /\ pc # "stub" =>
         /\ rsp = Start(Last(resume)) - 22
         /\ RegsAt(mem, Start(Last(resume)) - 7, Last(resume).regs)
    /\ pc = "handler" => Number = rip /\ SeenAt(rip, Last(resume))

(* The inductive invariant. *)
TrapInv == TypeInv /\ RunInv /\ HandlerInv

-----------------------------------------------------------------------------
(* Memory, registers and the history *)

(* A stored word is read back. *)
LEMMA StoredNew ==
  ASSUME NEW m, NEW sp \in Int, NEW words \in Seq(Int), NEW a \in Int,
         sp - Len(words) <= a, a < sp
  PROVE  /\ a \in DOMAIN Stored(m, sp, words)
         /\ Stored(m, sp, words)[a] = words[sp - a]
  BY DEF Stored

(* A push changes nothing at the stack pointer and above. *)
LEMMA StoredOld ==
  ASSUME NEW m, NEW sp \in Int, NEW words \in Seq(Int), NEW a \in DOMAIN m,
         a \in Int, a >= sp
  PROVE  /\ a \in DOMAIN Stored(m, sp, words)
         /\ Stored(m, sp, words)[a] = m[a]
  BY DEF Stored

(* PushOrder and PopOrder are each other's reverse. *)
LEMMA Orders ==
  /\ DOMAIN PushOrder = 1 .. 15 /\ DOMAIN PopOrder = 1 .. 15
  /\ Len(PushOrder) = 15 /\ Len(PopOrder) = 15
  /\ \A i \in 1 .. 15 : PopOrder[16 - i] = PushOrder[i]
  /\ \A i \in 1 .. 15 : PushOrder[i] \in Register
  /\ \A r \in Register : \E i \in 1 .. 15 : PushOrder[i] = r
  /\ "rcx" \in Register /\ "r11" \in Register /\ "rbx" \in Register
<1>1. DOMAIN PushOrder = 1 .. 15 /\ DOMAIN PopOrder = 1 .. 15
      /\ Len(PushOrder) = 15 /\ Len(PopOrder) = 15
  BY DEF PopOrder, PushOrder
<1>2. \A i \in 1 .. 15 : PopOrder[16 - i] = PushOrder[i]
  BY DEF PopOrder, PushOrder
<1>3. Register = {PushOrder[i] : i \in 1 .. 15}
  BY <1>1 DEF Register, ToSet
<1>4. PushOrder[3] = "rcx" /\ PushOrder[11] = "r11" /\ PushOrder[2] = "rbx"
  BY DEF PushOrder
<1>5. 3 \in 1 .. 15 /\ 11 \in 1 .. 15 /\ 2 \in 1 .. 15
  OBVIOUS
<1> HIDE DEF Register
<1> QED
  BY <1>1, <1>2, <1>3, <1>4, <1>5

(* What was pushed comes back when it is popped. *)
LEMMA PopsBack ==
  ASSUME NEW m, NEW top \in Int, NEW g \in [Register -> Int], RegsAt(m, top, g)
  PROVE  Popped(m, top - 15) = g
<1>1. ASSUME NEW r \in Register PROVE Popped(m, top - 15)[r] = g[r]
  <2> DEFINE j == CHOOSE i \in DOMAIN PopOrder : PopOrder[i] = r
  <2>1. PICK i \in 1 .. 15 : PushOrder[i] = r
    BY Orders
  <2>2. 16 - i \in DOMAIN PopOrder /\ PopOrder[16 - i] = r
    BY <2>1, Orders
  <2>3. j \in DOMAIN PopOrder /\ PopOrder[j] = r
    BY <2>2
  <2>4. j \in 1 .. 15
    BY <2>3, Orders
  <2> HIDE DEF j
  <2>5. 16 - j \in 1 .. 15 /\ 16 - (16 - j) = j
    BY <2>4
  <2>6. PushOrder[16 - j] = r
    BY <2>3, <2>5, Orders
  <2>7. m[top - (16 - j)] = g[r]
    BY <2>5, <2>6 DEF RegsAt
  <2>8. top - (16 - j) = top - 15 - 1 + j
    BY <2>4
  <2>9. Popped(m, top - 15)[r] = m[top - 15 - 1 + j]
    BY <1>1 DEF Popped, Register, j
  <2> QED
    BY <2>7, <2>8, <2>9
<1>2. Popped(m, top - 15) = [r \in Register |-> Popped(m, top - 15)[r]]
  BY DEF Popped, Register
<1> QED
  BY <1>1, <1>2

(* The words of a push of all registers. *)
LEMMA PushedWords ==
  ASSUME NEW g \in [Register -> Int], NEW words,
         words = [i \in DOMAIN PushOrder |-> g[PushOrder[i]]]
  PROVE  /\ words \in Seq(Int) /\ Len(words) = 15
         /\ \A i \in 1 .. 15 : words[i] = g[PushOrder[i]]
<1>1. words = [i \in 1 .. 15 |-> g[PushOrder[i]]]
  BY Orders
<1>2. \A i \in 1 .. 15 : g[PushOrder[i]] \in Int
  BY Orders
<1> QED
  BY <1>1, <1>2

(* Where the words are. *)
LEMMA PushedOffset ==
  ASSUME NEW sp \in Int, NEW d \in Nat, NEW i \in 1 .. 15, NEW l, l = d + 15
  PROVE  /\ sp - d - i \in Int /\ sp - l <= sp - d - i
         /\ sp - d - i < sp /\ sp - (sp - d - i) = d + i
  OBVIOUS

(* The registers are found where a push of d other words and them has left *)
(* them.                                                                   *)
LEMMA PushedAt ==
  ASSUME NEW m, NEW sp \in Int, NEW words \in Seq(Int), NEW g, NEW d \in Nat,
         Len(words) = d + 15,
         \A i \in 1 .. 15 : words[d + i] = g[PushOrder[i]]
  PROVE  RegsAt(Stored(m, sp, words), sp - d, g)
<1> SUFFICES ASSUME NEW i \in 1 .. 15
             PROVE  /\ sp - d - i \in DOMAIN Stored(m, sp, words)
                    /\ Stored(m, sp, words)[sp - d - i] = g[PushOrder[i]]
  BY DEF RegsAt
<1>1. /\ sp - d - i \in Int /\ sp - Len(words) <= sp - d - i
      /\ sp - d - i < sp /\ sp - (sp - d - i) = d + i
  BY PushedOffset
<1>2. PICK a \in Int : a = sp - d - i
  BY <1>1
<1>3. sp - Len(words) <= a /\ a < sp /\ sp - a = d + i
  BY <1>1, <1>2
<1>4. /\ a \in DOMAIN Stored(m, sp, words)
      /\ Stored(m, sp, words)[a] = words[sp - a]
  BY <1>3 DEF Stored
<1> QED
  BY <1>2, <1>3, <1>4

(* What a push leaves alone. *)
LEMMA RegsAtKept ==
  ASSUME NEW m, NEW sp \in Int, NEW words \in Seq(Int), NEW top \in Int, NEW g,
         RegsAt(m, top, g), sp <= top - 15
  PROVE  RegsAt(Stored(m, sp, words), top, g)
<1> SUFFICES ASSUME NEW i \in 1 .. 15
             PROVE  /\ top - i \in DOMAIN Stored(m, sp, words)
                    /\ Stored(m, sp, words)[top - i] = g[PushOrder[i]]
  BY DEF RegsAt
<1>1. top - i \in DOMAIN m /\ m[top - i] = g[PushOrder[i]]
  BY DEF RegsAt
<1>2. top - i \in Int /\ top - i >= sp
  OBVIOUS
<1> QED
  BY <1>1, <1>2, StoredOld

(* A push below the registers of a system call leaves what was interrupted. *)
LEMMA RunsKept ==
  ASSUME NEW m, NEW us, NEW r, NEW res, Runs(m, us, r, res),
         NEW sp \in Int, NEW words \in Seq(Int),
         r.pc \in {"call", "inside", "pop"} => sp <= InterruptStack - 15
  PROVE  Runs(Stored(m, sp, words), us, r, res)
<1>1. r.pc \in {"call", "inside", "pop"} =>
        (RegsAt(m, InterruptStack, res[1].regs) =>
           RegsAt(Stored(m, sp, words), InterruptStack, res[1].regs))
  BY RegsAtKept, LayoutAssumption
<1> QED
  BY <1>1 DEF Runs, KernelContext

(* A push below the frame leaves the frame. *)
LEMMA FrameKept ==
  ASSUME NEW m, NEW r \in Context, FrameAt(m, r),
         NEW sp \in Int, NEW words \in Seq(Int), sp <= Start(r) - 5
  PROVE  FrameAt(Stored(m, sp, words), r)
<1>1. Start(r) \in Int
  BY LayoutAssumption DEF Start, Context
<1>2. \A j \in 2 .. 5 : /\ Start(r) - j \in DOMAIN m /\ Start(r) - j \in Int
                        /\ Start(r) - j >= sp
  BY <1>1 DEF FrameAt
<1>3. \A j \in 2 .. 5 :
        /\ Start(r) - j \in DOMAIN Stored(m, sp, words)
        /\ Stored(m, sp, words)[Start(r) - j] = m[Start(r) - j]
  BY <1>2, StoredOld
<1>4. 2 \in 2 .. 5 /\ 3 \in 2 .. 5 /\ 4 \in 2 .. 5 /\ 5 \in 2 .. 5
  OBVIOUS
<1> QED
  BY <1>3, <1>4 DEF FrameAt

(* Append, Last and Front. *)
LEMMA Appended ==
  ASSUME NEW S, NEW s \in Seq(S), NEW e \in S
  PROVE  /\ Append(s, e) \in Seq(S) /\ Append(s, e) # <<>>
         /\ Last(Append(s, e)) = e /\ Front(Append(s, e)) = s
         /\ Len(Append(s, e)) = Len(s) + 1
  BY DEF Last, Front

(* A sequence of one is not empty. *)
LEMMA NotEmpty ==
  ASSUME NEW S, NEW s \in Seq(S), Len(s) = 1
  PROVE  s # <<>>
  OBVIOUS

(* The parts of a sequence that is not empty. *)
LEMMA LastFront ==
  ASSUME NEW S, NEW s \in Seq(S), s # <<>>
  PROVE  /\ Last(s) \in S /\ Front(s) \in Seq(S)
         /\ Len(Front(s)) = Len(s) - 1
<1>1. Len(s) \in Nat /\ Len(s) # 0
  OBVIOUS
<1>2. Len(s) \in 1 .. Len(s) /\ Len(s) - 1 \in Int /\ Len(s) \in Int
  BY <1>1
<1>3. Last(s) \in S
  BY <1>2 DEF Last
<1>4. \A i \in 1 .. Len(s) - 1 : s[i] \in S
  BY <1>1
<1>5. /\ Front(s) \in Seq(S)
      /\ Len(Front(s)) = IF 1 <= Len(s) - 1 THEN Len(s) - 1 - 1 + 1 ELSE 0
  BY <1>2, <1>4, SubSeqProperties DEF Front
<1> QED
  BY <1>1, <1>3, <1>5

(* The processor's record of itself. *)
LEMMA SavedContext ==
  ASSUME TypeInv
  PROVE  /\ Saved \in Context
         /\ Saved.regs = regs /\ Saved.rip = rip /\ Saved.rsp = rsp
         /\ Saved.rflags = rflags /\ Saved.cpl = cpl /\ Saved.pc = pc
  BY DEF TypeInv, Saved, Context

(* The same after a step. *)
LEMMA SavedNext ==
  ASSUME TypeInv'
  PROVE  /\ Saved' \in Context
         /\ Saved'.regs = regs' /\ Saved'.rip = rip' /\ Saved'.rsp = rsp'
         /\ Saved'.rflags = rflags' /\ Saved'.cpl = cpl' /\ Saved'.pc = pc'
  BY DEF TypeInv, Saved, Context

(* Two contexts with the same parts are the same. *)
LEMMA SameContext ==
  ASSUME NEW r \in Context, NEW g, NEW i, NEW s, NEW f, NEW c, NEW p,
         r.regs = g, r.rip = i, r.rsp = s, r.rflags = f, r.cpl = c, r.pc = p
  PROVE  [regs |-> g, rip |-> i, rsp |-> s, rflags |-> f, cpl |-> c, pc |-> p] = r
  BY DEF Context

-----------------------------------------------------------------------------
(* The steps of the process *)

(* Nothing in resume below user code. *)
LEMMA InUser ==
  ASSUME TrapInv, pc = "user"
  PROVE  /\ cpl = 3 /\ rflags = IF1 /\ rsp \in {0, UserTop} /\ resume = <<>>
<1>1. Saved.pc = pc /\ Saved.cpl = cpl /\ Saved.rflags = rflags
      /\ Saved.rsp = rsp
  BY SavedContext DEF TrapInv
<1>2. Runs(mem, userStack, Saved, resume)
  BY DEF TrapInv, RunInv
<1>3. UserContext(Saved) /\ resume = <<>>
  BY <1>1, <1>2 DEF Runs, KernelContext, Kernel
<1> QED
  BY <1>1, <1>3 DEF UserContext

(* In SyscallHandler the process that made the call is in resume. *)
LEMMA InKernel ==
  ASSUME TrapInv, pc \in Kernel
  PROVE  /\ Len(resume) = 1 /\ CallContext(resume[1])
         /\ KernelContext(mem, userStack, Saved, resume[1])
         /\ Saved.pc = pc /\ Saved.rsp = rsp /\ Saved.regs = regs
         /\ cpl = 0 /\ rflags = IF1
<1>1. Saved.pc = pc /\ Saved.cpl = cpl /\ Saved.rflags = rflags
      /\ Saved.rsp = rsp /\ Saved.regs = regs
  BY SavedContext DEF TrapInv
<1>2. Runs(mem, userStack, Saved, resume)
  BY DEF TrapInv, RunInv
<1>3. ~UserContext(Saved)
  BY <1>1 DEF UserContext, Kernel
<1> QED
  BY <1>1, <1>2, <1>3 DEF Runs, KernelContext

(* User code that is as it should be satisfies the invariant. *)
LEMMA UserHolds ==
  ASSUME TypeInv', pc' = "user", cpl' = 3, rflags' = IF1,
         rsp' \in {0, UserTop}, resume' = <<>>
  PROVE  TrapInv'
<1>1. UserContext(Saved')
  BY SavedNext DEF UserContext
<1> QED
  BY <1>1 DEF TrapInv, RunInv, HandlerInv, Runs, Handler

(* SyscallHandler that is as it should be satisfies the invariant. *)
LEMMA KernelHolds ==
  ASSUME TypeInv', pc' \in Kernel, Len(resume') = 1, CallContext(resume'[1]),
         KernelContext(mem', userStack', Saved', resume'[1])
  PROVE  TrapInv'
  BY DEF TrapInv, RunInv, HandlerInv, Runs, Handler, Kernel

(* The process runs. *)
LEMMA UserKeeps ==
  ASSUME TrapInv, UserStep \/ UserLoad
  PROVE  TrapInv' /\ resume' = resume
<1>1. pc = "user" /\ pc' = "user" /\ cpl' = cpl /\ rflags' = rflags
      /\ resume' = resume /\ userStack' = userStack
  BY DEF UserStep, UserLoad
<1>2. cpl = 3 /\ rflags = IF1 /\ rsp \in {0, UserTop} /\ resume = <<>>
  BY <1>1, InUser
<1>3. rsp' \in {0, UserTop}
  BY <1>2 DEF UserStep, UserLoad
<1>4. regs' \in [Register -> Int] /\ rip' \in Int
  <2>1. CASE UserStep
    BY <2>1 DEF UserStep, TrapInv, TypeInv
  <2>2. CASE UserLoad
    <3>1. DOMAIN regs = Register
      BY DEF TrapInv, TypeInv
    <3>2. ASSUME NEW r \in Register
          PROVE  (CHOOSE i \in DOMAIN PushOrder : PushOrder[i] = r) \in Int
      <4>1. \E i \in DOMAIN PushOrder : PushOrder[i] = r
        BY Orders
      <4>2. (CHOOSE i \in DOMAIN PushOrder : PushOrder[i] = r) \in DOMAIN PushOrder
        BY <4>1
      <4> QED
        BY <4>2, Orders
    <3>3. regs' = [r \in Register |->
                     100 + CHOOSE i \in DOMAIN PushOrder : PushOrder[i] = r]
      BY <2>2, <3>1 DEF UserLoad
    <3>4. regs' \in [Register -> Int]
      BY <3>2, <3>3
    <3> QED
      BY <2>2, <3>4 DEF UserLoad, TrapInv, TypeInv
  <2> QED
    BY <2>1, <2>2
<1>5. TypeInv'
  BY <1>1, <1>2, <1>3, <1>4, LayoutAssumption DEF TrapInv, TypeInv
<1> QED
  BY <1>1, <1>2, <1>3, <1>5, UserHolds

-----------------------------------------------------------------------------
(* The steps of a system call *)

(* The process makes a system call: it is to go on behind the instruction. *)
LEMMA SyscallKeeps ==
  ASSUME TrapInv, Syscall
  PROVE  TrapInv' /\ Len(resume') = Len(resume) + 1
<1> DEFINE u == [regs |-> regs', rip |-> 0, rsp |-> rsp, rflags |-> rflags,
                 cpl |-> cpl, pc |-> pc]
<1>1. /\ pc = "user" /\ pc' = "entry" /\ cpl' = 0
      /\ regs' = [regs EXCEPT !["rcx"] = 0, !["r11"] = rflags]
      /\ resume' = Append(resume, u)
      /\ UNCHANGED <<mem, rip, rsp, rflags, userStack>>
  BY DEF Syscall
<1>2. cpl = 3 /\ rflags = IF1 /\ rsp \in {0, UserTop} /\ resume = <<>>
  BY <1>1, InUser
<1>3. /\ regs' \in [Register -> Int]
      /\ regs'["rcx"] = 0 /\ regs'["r11"] = IF1
  BY <1>1, <1>2, Orders DEF TrapInv, TypeInv, IF1
<1>5. /\ u \in Context /\ u.regs = regs' /\ u.rip = 0 /\ u.rsp = rsp
      /\ u.rflags = rflags /\ u.cpl = cpl /\ u.pc = pc
  BY <1>3 DEF Context, TrapInv, TypeInv
<1> HIDE DEF u
<1>6. resume' = <<u>> /\ Len(resume') = 1 /\ resume'[1] = u
      /\ Len(resume) = 0 /\ resume' \in Seq(Context)
  BY <1>1, <1>2, <1>5
<1>7. CallContext(u)
  BY <1>1, <1>2, <1>3, <1>5 DEF CallContext, UserContext
<1>8. TypeInv'
  BY <1>1, <1>3, <1>6 DEF TrapInv, TypeInv, Steps, Kernel
<1>9. Saved'.pc = pc' /\ Saved'.cpl = cpl' /\ Saved'.rflags = rflags'
      /\ Saved'.rsp = rsp' /\ Saved'.regs = regs'
  BY <1>8, SavedNext
<1>10. KernelContext(mem', userStack', Saved', u)
  BY <1>1, <1>2, <1>5, <1>9 DEF KernelContext, Kernel
<1>11. pc' \in Kernel
  BY <1>1 DEF Kernel
<1>12. CallContext(resume'[1])
       /\ KernelContext(mem', userStack', Saved', resume'[1])
  BY <1>6, <1>7, <1>10
<1> QED
  BY <1>6, <1>8, <1>11, <1>12, KernelHolds

(* SyscallHandler's own steps change nothing in resume. *)
LEMMA SyscallStepKeeps ==
  ASSUME TrapInv,
         \/ SaveUserStack \/ SwitchStack \/ PushRegisters
         \/ KernelSyscallHandler \/ KernelSyscallReturn \/ PopRegisters
         \/ RestoreUserStack
  PROVE  TrapInv' /\ resume' = resume
<1> DEFINE u == resume[1]
<1>1. pc \in Kernel /\ pc' \in Kernel /\ pc' \in Steps
      /\ UNCHANGED <<rip, rflags, cpl, resume>>
  BY DEF SaveUserStack, SwitchStack, PushRegisters, KernelSyscallHandler,
         KernelSyscallReturn, PopRegisters, RestoreUserStack, Kernel, Steps
<1>2. /\ Len(resume) = 1 /\ CallContext(u)
      /\ KernelContext(mem, userStack, Saved, u)
      /\ Saved.pc = pc /\ Saved.rsp = rsp /\ Saved.regs = regs
      /\ cpl = 0 /\ rflags = IF1
  BY <1>1, InKernel
<1>3. u.regs \in [Register -> Int] /\ u.rsp \in Int /\ InterruptStack \in Int
  BY <1>2, LayoutAssumption DEF CallContext, Context
<1> HIDE DEF u
<1>4. ASSUME TypeInv', KernelContext(mem', userStack', Saved', u)
      PROVE  TrapInv' /\ resume' = resume
  BY <1>1, <1>2, <1>4, KernelHolds DEF u
<1>5. CASE SaveUserStack
  <2>1. TypeInv'
    BY <1>1, <1>5 DEF SaveUserStack, TrapInv, TypeInv
  <2>2. KernelContext(mem', userStack', Saved', u)
    BY <1>2, <1>5, <2>1, SavedNext DEF SaveUserStack, KernelContext, Kernel
  <2> QED
    BY <1>4, <2>1, <2>2
<1>6. CASE SwitchStack
  <2>1. TypeInv'
    BY <1>1, <1>3, <1>6 DEF SwitchStack, KernelStack, StackTop, TrapInv, TypeInv
  <2>2. KernelContext(mem', userStack', Saved', u)
    BY <1>2, <1>6, <2>1, SavedNext
       DEF SwitchStack, KernelStack, StackTop, KernelContext, Kernel
  <2> QED
    BY <1>4, <2>1, <2>2
<1>7. CASE PushRegisters
  <2> DEFINE words == [i \in DOMAIN PushOrder |-> regs[PushOrder[i]]]
  <2>1. /\ pc = "switched" /\ pc' = "call" /\ mem' = Stored(mem, rsp, words)
        /\ rsp' = rsp - Len(words) /\ regs' = regs /\ userStack' = userStack
    BY <1>7 DEF PushRegisters
  <2>2. regs = u.regs /\ rsp = InterruptStack /\ userStack = u.rsp
    BY <1>2, <2>1 DEF KernelContext
  <2>3. /\ words \in Seq(Int) /\ Len(words) = 15
        /\ \A i \in 1 .. 15 : words[i] = u.regs[PushOrder[i]]
    BY <1>3, <2>2, PushedWords
  <2> HIDE DEF words
  <2>4. TypeInv'
    BY <1>1, <1>3, <2>1, <2>2, <2>3 DEF TrapInv, TypeInv
  <2>5. RegsAt(mem', InterruptStack, u.regs)
    <3>1. Len(words) = 0 + 15 /\ 0 \in Nat
          /\ \A i \in 1 .. 15 : words[0 + i] = u.regs[PushOrder[i]]
      BY <2>3
    <3>2. RegsAt(Stored(mem, InterruptStack, words), InterruptStack - 0, u.regs)
      BY <1>3, <2>3, <3>1, PushedAt
    <3> QED
      BY <1>3, <2>1, <2>2, <3>2
  <2>6. KernelContext(mem', userStack', Saved', u)
    BY <1>1, <1>2, <1>3, <2>1, <2>2, <2>3, <2>4, <2>5, SavedNext
       DEF KernelContext, Kernel
  <2> QED
    BY <1>4, <2>4, <2>6
<1>8. CASE KernelSyscallHandler
  <2> DEFINE a == IF pc = "call" THEN rsp ELSE regs["rbx"]
  <2>1. /\ pc \in {"call", "inside"} /\ pc' = "inside" /\ userStack' = userStack
        /\ regs' = [r \in DOMAIN regs |-> IF r = "rbx" THEN a ELSE Junk]
    BY <1>8 DEF KernelSyscallHandler
  <2>2. PICK k \in 1 .. CallWords :
          rsp' = a - k /\ mem' = Stored(mem, a, [i \in 1 .. k |-> Junk])
    BY <1>8 DEF KernelSyscallHandler
  <2>3. /\ a = InterruptStack - 15 /\ RegsAt(mem, InterruptStack, u.regs)
        /\ userStack = u.rsp
    BY <1>2, <2>1 DEF KernelContext
  <2> HIDE DEF a
  <2> DEFINE words == [i \in 1 .. k |-> Junk]
  <2>4. words \in Seq(Int) /\ mem' = Stored(mem, a, words)
    BY <2>2, LayoutAssumption DEF Junk
  <2> HIDE DEF words
  <2>5. RegsAt(mem', InterruptStack, u.regs)
    BY <1>3, <2>3, <2>4, RegsAtKept
  <2>6. regs' \in [Register -> Int] /\ regs'["rbx"] = InterruptStack - 15
    <3>1. DOMAIN regs = Register /\ a \in Int /\ Junk \in Int
      BY <1>3, <2>3 DEF TrapInv, TypeInv, Junk
    <3> QED
      BY <2>1, <2>3, <3>1, Orders
  <2>7. /\ rsp' \in Int
        /\ rsp' \in InterruptStack - 15 - CallWords .. InterruptStack - 16
    BY <1>3, <2>2, <2>3, LayoutAssumption
  <2>8. TypeInv'
    BY <1>1, <2>1, <2>6, <2>7 DEF TrapInv, TypeInv
  <2>9. KernelContext(mem', userStack', Saved', u)
    BY <1>1, <1>2, <2>1, <2>3, <2>5, <2>6, <2>7, <2>8, SavedNext
       DEF KernelContext, Kernel
  <2> QED
    BY <1>4, <2>8, <2>9
<1>9. CASE KernelSyscallReturn
  <2>1. /\ pc = "inside" /\ pc' = "pop" /\ rsp' = regs["rbx"]
        /\ regs' = [r \in DOMAIN regs |-> Junk]
        /\ mem' = mem /\ userStack' = userStack
    BY <1>9 DEF KernelSyscallReturn
  <2>2. /\ rsp' = InterruptStack - 15 /\ RegsAt(mem, InterruptStack, u.regs)
        /\ userStack = u.rsp
    BY <1>2, <2>1 DEF KernelContext
  <2>3. TypeInv'
    BY <1>1, <1>3, <2>1, <2>2 DEF TrapInv, TypeInv, Junk
  <2>4. KernelContext(mem', userStack', Saved', u)
    BY <1>1, <1>2, <2>1, <2>2, <2>3, SavedNext DEF KernelContext, Kernel
  <2> QED
    BY <1>4, <2>3, <2>4
<1>10. CASE PopRegisters
  <2>1. /\ pc = "pop" /\ pc' = "popped" /\ regs' = Popped(mem, rsp)
        /\ rsp' = rsp + Len(PopOrder) /\ userStack' = userStack
    BY <1>10 DEF PopRegisters
  <2>2. /\ rsp = InterruptStack - 15 /\ RegsAt(mem, InterruptStack, u.regs)
        /\ userStack = u.rsp
    BY <1>2, <2>1 DEF KernelContext
  <2>3. regs' = u.regs
    BY <1>3, <2>1, <2>2, PopsBack
  <2>4. rsp' = InterruptStack
    BY <1>3, <2>1, <2>2, Orders
  <2>5. TypeInv'
    BY <1>1, <1>3, <2>1, <2>3, <2>4 DEF TrapInv, TypeInv
  <2>6. KernelContext(mem', userStack', Saved', u)
    BY <1>1, <1>2, <2>1, <2>2, <2>3, <2>4, <2>5, SavedNext
       DEF KernelContext, Kernel
  <2> QED
    BY <1>4, <2>5, <2>6
<1>11. CASE RestoreUserStack
  <2>1. TypeInv'
    BY <1>1, <1>11 DEF RestoreUserStack, TrapInv, TypeInv
  <2>2. KernelContext(mem', userStack', Saved', u)
    BY <1>2, <1>11, <2>1, SavedNext DEF RestoreUserStack, KernelContext, Kernel
  <2> QED
    BY <1>4, <2>1, <2>2
<1> QED
  BY <1>5, <1>6, <1>7, <1>8, <1>9, <1>10, <1>11

(* What the processor and resume agree on when a call or an interrupt      *)
(* returns.                                                                *)
Resumed ==
  [regs |-> regs', rip |-> rip', rsp |-> rsp', rflags |-> rflags', cpl |-> cpl',
   pc |-> pc'] = Last(resume)

(* sysretq goes back to the process that made the call. *)
LEMMA SysretKeeps ==
  ASSUME TrapInv, Sysret
  PROVE  TrapInv' /\ Resumed
<1> DEFINE u == resume[1]
<1>1. /\ pc = "restored" /\ pc' = "user" /\ cpl' = 3
      /\ rip' = regs["rcx"] /\ rflags' = regs["r11"] /\ resume' = Front(resume)
      /\ UNCHANGED <<mem, regs, rsp, userStack>>
  BY DEF Sysret
<1>2. /\ Len(resume) = 1 /\ CallContext(u)
      /\ KernelContext(mem, userStack, Saved, u)
      /\ Saved.pc = pc /\ Saved.rsp = rsp /\ Saved.regs = regs
  BY <1>1, InKernel DEF Kernel
<1>3. regs = u.regs /\ rsp = u.rsp
  BY <1>1, <1>2 DEF KernelContext
<1>4. Last(resume) = u /\ Front(resume) = <<>>
  <2>1. resume \in Seq(Context) /\ resume # <<>>
    <3>1. resume \in Seq(Context)
      BY DEF TrapInv, TypeInv
    <3> QED
      BY <1>2, <3>1, NotEmpty
  <2>2. Front(resume) \in Seq(Context) /\ Len(Front(resume)) = 0
    BY <1>2, <2>1, LastFront
  <2> QED
    BY <1>2, <2>2 DEF Last
<1> HIDE DEF u
<1>5. /\ u \in Context /\ u.rip = rip' /\ u.rflags = rflags' /\ u.cpl = cpl'
      /\ u.pc = pc' /\ u.rsp \in {0, UserTop} /\ rflags' = IF1 /\ rip' = 0
  BY <1>1, <1>2, <1>3 DEF CallContext, UserContext
<1>6. Resumed
  BY <1>1, <1>3, <1>4, <1>5, SameContext DEF Resumed
<1>7. TypeInv'
  BY <1>1, <1>4, <1>5 DEF TrapInv, TypeInv, Steps, IF1
<1>8. TrapInv'
  BY <1>1, <1>3, <1>4, <1>5, <1>7, UserHolds
<1> QED
  BY <1>6, <1>8

-----------------------------------------------------------------------------
(* Interrupts and exceptions *)

(* While a system call has the registers on the stack, an interrupt starts *)
(* below them.                                                             *)
LEMMA StartBelow ==
  ASSUME NEW m, NEW us, NEW r \in Context, NEW res, Runs(m, us, r, res)
  PROVE  /\ Start(r) \in Int
         /\ r.pc \in {"call", "inside", "pop"} => Start(r) <= InterruptStack - 15
         /\ r.pc \in {"user"} \union Kernel
<1>1. InterruptStack \in Int /\ r.rsp \in Int
  BY LayoutAssumption DEF Context
<1>2. Start(r) \in Int
  BY <1>1 DEF Start
<1>3. r.pc \in {"call", "inside", "pop"} => r.cpl = 0 /\ r.rsp <= InterruptStack - 15
  BY <1>1, LayoutAssumption DEF Runs, UserContext, KernelContext
<1>4. r.pc \in {"call", "inside", "pop"} => Start(r) <= InterruptStack - 15
  BY <1>1, <1>3 DEF Start
<1> QED
  BY <1>2, <1>4 DEF Runs, UserContext, KernelContext

(* One sequence of words after another. *)
LEMMA Joined ==
  ASSUME NEW s \in Seq(Int), NEW t \in Seq(Int)
  PROVE  /\ s \o t \in Seq(Int) /\ Len(s \o t) = Len(s) + Len(t)
         /\ \A i \in 1 .. Len(s) : (s \o t)[i] = s[i]
         /\ \A i \in 1 .. Len(t) : (s \o t)[Len(s) + i] = t[i]
  BY ConcatProperties

(* The words the processor pushes: five of them, and maybe an error code. *)
LEMMA FrameOf ==
  ASSUME NEW s \in Seq(Int), NEW t \in Seq(Int), Len(s) = 5
  PROVE  /\ s \o t \in Seq(Int) /\ Len(s \o t) = 5 + Len(t)
         /\ (s \o t)[2] = s[2] /\ (s \o t)[3] = s[3]
         /\ (s \o t)[4] = s[4] /\ (s \o t)[5] = s[5]
<1>1. /\ s \o t \in Seq(Int) /\ Len(s \o t) = Len(s) + Len(t)
      /\ \A i \in 1 .. Len(s) : (s \o t)[i] = s[i]
  BY Joined, Zenon
<1>2. \A i \in 1 .. 5 : (s \o t)[i] = s[i]
  BY <1>1, Zenon
<1>3. 2 \in 1 .. 5 /\ 3 \in 1 .. 5 /\ 4 \in 1 .. 5 /\ 5 \in 1 .. 5
  OBVIOUS
<1> QED
  BY <1>1, <1>2, <1>3, Zenon

(* The processor leaves the code v interrupts, and pushes where Start says. *)
LEMMA DeliverKeeps ==
  ASSUME TrapInv, pc \in {"user"} \union Kernel, NEW v \in Int,
         SeenAt(v, Saved), Deliver(v)
  PROVE  TrapInv' /\ ~(Len(resume') < Len(resume))
<1> DEFINE r == Saved
           sp == IF cpl = 3 THEN StackTop ELSE rsp - (rsp % 2)
           frame == <<SS, rsp, rflags, CS, rip>> \o
                      (IF v \in PushesErrorCode THEN <<Code>> ELSE <<>>)
<1>1. /\ r \in Context /\ r.regs = regs /\ r.rip = rip /\ r.rsp = rsp
      /\ r.rflags = rflags /\ r.cpl = cpl /\ r.pc = pc
  BY SavedContext DEF TrapInv
<1>2. Runs(mem, userStack, r, resume) /\ resume \in Seq(Context)
  BY DEF TrapInv, TypeInv, RunInv
<1>3. sp = Start(r)
  BY <1>1 DEF Start, StackTop
<1>4. CASE ~HasMemory(sp)
  <2>1. /\ pc' = "reset"
        /\ UNCHANGED <<mem, regs, rip, rsp, rflags, cpl, userStack, resume>>
    BY <1>4 DEF Deliver
  <2>2. TypeInv'
    BY <2>1 DEF TrapInv, TypeInv, Steps
  <2>3. RunInv' /\ HandlerInv'
    BY <2>1 DEF RunInv, HandlerInv, Kernel, Handler
  <2>4. ~(Len(resume') < Len(resume))
    BY <1>2, <2>1
  <2> QED
    BY <2>2, <2>3, <2>4 DEF TrapInv
<1>5. CASE HasMemory(sp)
  <2>1. /\ mem' = Stored(mem, sp, frame) /\ rsp' = sp - Len(frame)
        /\ rflags' = IF0 /\ cpl' = 0 /\ rip' = v /\ pc' = "stub"
        /\ resume' = Append(resume, r)
        /\ UNCHANGED <<regs, userStack>>
    BY <1>5 DEF Deliver
  <2>2. CS = (IF r.cpl = 3 THEN UserCS ELSE KernelCS) /\ CS \in Int
    BY <1>1 DEF CS, UserCS, KernelCS
  <2>3. /\ frame \in Seq(Int)
        /\ Len(frame) = (IF v \in PushesErrorCode THEN 6 ELSE 5)
        /\ frame[2] = rsp /\ frame[3] = rflags /\ frame[4] = CS
        /\ frame[5] = rip
    <3>1. SS \in Int /\ rsp \in Int /\ rflags \in Int /\ rip \in Int
      BY DEF SS, TrapInv, TypeInv
    <3> DEFINE t == IF v \in PushesErrorCode THEN <<Code>> ELSE <<>>
    <3>2. t \in Seq(Int) /\ Len(t) = (IF v \in PushesErrorCode THEN 1 ELSE 0)
      BY DEF Code
    <3> DEFINE s == <<SS, rsp, rflags, CS, rip>>
    <3>3. /\ s \in Seq(Int) /\ Len(s) = 5 /\ s[2] = rsp /\ s[3] = rflags
          /\ s[4] = CS /\ s[5] = rip
      BY <2>2, <3>1
    <3>4. frame = s \o t
      OBVIOUS
    <3> HIDE DEF s, t, frame
    <3>5. /\ s \o t \in Seq(Int) /\ Len(s \o t) = 5 + Len(t)
          /\ (s \o t)[2] = s[2] /\ (s \o t)[3] = s[3]
          /\ (s \o t)[4] = s[4] /\ (s \o t)[5] = s[5]
      BY <3>2, <3>3, FrameOf, Zenon
    <3>6. /\ frame \in Seq(Int) /\ Len(frame) = 5 + Len(t)
          /\ frame[2] = rsp /\ frame[3] = rflags /\ frame[4] = CS /\ frame[5] = rip
      BY <3>3, <3>4, <3>5, Zenon
    <3>7. Len(frame) = (IF v \in PushesErrorCode THEN 6 ELSE 5)
      BY <3>2, <3>6
    <3> QED
      BY <3>6, <3>7, Zenon
  <2> HIDE DEF r, sp, frame
  <2>4. sp \in Int /\ (r.pc \in {"call", "inside", "pop"} => sp <= InterruptStack - 15)
    BY <1>1, <1>2, <1>3, StartBelow
  <2>5. Runs(mem', userStack', r, resume)
    BY <1>2, <2>1, <2>3, <2>4, RunsKept
  <2>6. FrameAt(mem', r)
    <3>1. ASSUME NEW j \in 2 .. 5
          PROVE  sp - j \in DOMAIN mem' /\ mem'[sp - j] = frame[j]
      <4>1. PICK a \in Int : a = sp - j
        BY <2>4
      <4>2. Len(frame) \in Int /\ Len(frame) >= 5
        BY <2>3
      <4>3. sp - Len(frame) <= a /\ a < sp /\ sp - a = j
        BY <2>4, <4>1, <4>2
      <4>4. a \in DOMAIN mem' /\ mem'[a] = frame[sp - a]
        BY <2>1, <2>3, <2>4, <4>3 DEF Stored
      <4> QED
        BY <4>1, <4>3, <4>4
    <3>2. 2 \in 2 .. 5 /\ 3 \in 2 .. 5 /\ 4 \in 2 .. 5 /\ 5 \in 2 .. 5
      OBVIOUS
    <3>3. /\ mem'[sp - 2] = r.rsp /\ mem'[sp - 3] = r.rflags
          /\ mem'[sp - 4] = (IF r.cpl = 3 THEN UserCS ELSE KernelCS)
          /\ mem'[sp - 5] = r.rip
      BY <1>1, <2>2, <2>3, <3>1, <3>2
    <3>4. {sp - j : j \in 2 .. 5} \subseteq DOMAIN mem'
      BY <3>1
    <3> QED
      BY <1>3, <3>3, <3>4 DEF FrameAt
  <2>7. /\ resume' \in Seq(Context) /\ resume' # <<>>
        /\ Last(resume') = r /\ Front(resume') = resume
        /\ Len(resume') = Len(resume) + 1
    BY <1>1, <1>2, <2>1, Appended
  <2>8. rsp' = Start(Last(resume')) - (IF rip' \in PushesErrorCode THEN 6 ELSE 5)
    BY <1>3, <2>1, <2>3, <2>7
  <2>9. TypeInv'
    <3>1. rsp' \in Int
      BY <2>1, <2>3, <2>4
    <3> QED
      BY <2>1, <2>7, <3>1 DEF TrapInv, TypeInv, IF0, Steps, Handler
  <2>10. HandlerInv'
    <3>1. SeenAt(rip', Last(resume'))
      BY <2>1, <2>7 DEF r
    <3> QED
      BY <1>1, <2>1, <2>5, <2>6, <2>7, <2>8, <3>1 DEF HandlerInv
  <2>11. RunInv'
    BY <2>1 DEF RunInv, Kernel
  <2>12. ~(Len(resume') < Len(resume))
    BY <1>2, <2>7
  <2> QED
    BY <2>9, <2>10, <2>11, <2>12 DEF TrapInv
<1> QED
  BY <1>4, <1>5

(* Interrupts come where they are on: in user code and in SyscallHandler. *)
LEMMA InterruptKeeps ==
  ASSUME TrapInv, Interrupt(TimerVector) \/ Interrupt(ErrorVector)
  PROVE  TrapInv' /\ ~(Len(resume') < Len(resume))
<1>1. PICK v \in {11, TimerVector} : Deliver(v)
  BY DEF Interrupt, TimerVector, ErrorVector
<1>2. rflags = IF1 /\ pc \notin {"reset", "exited"}
  BY DEF Interrupt
<1>3. pc \in {"user"} \union Kernel
  BY <1>2 DEF TrapInv, TypeInv, HandlerInv, Steps, Handler, IF0, IF1
<1>4. v \in Int /\ SeenAt(v, Saved)
  BY DEF SeenAt, Vectors, TimerVector
<1> QED
  BY <1>1, <1>3, <1>4, DeliverKeeps

(* Exceptions come from user code. *)
LEMMA ExceptionKeeps ==
  ASSUME TrapInv, NEW v \in Exceptions, Exception(v)
  PROVE  TrapInv' /\ ~(Len(resume') < Len(resume))
<1>1. pc = "user" /\ Deliver(v)
  BY DEF Exception
<1>2. Saved.cpl = 3
  BY <1>1, InUser, SavedContext DEF TrapInv
<1>3. v \in Int /\ SeenAt(v, Saved)
  BY <1>2, ExceptionsAssumption DEF SeenAt, Vectors
<1> QED
  BY <1>1, <1>3, DeliverKeeps

(* What a handler knows. *)
LEMMA InHandler ==
  ASSUME TrapInv, pc \in Handler
  PROVE  /\ Last(resume) \in Context /\ Front(resume) \in Seq(Context)
         /\ Start(Last(resume)) \in Int
         /\ Last(resume).pc \in {"user"} \union Kernel
         /\ Last(resume).pc \in {"call", "inside", "pop"} =>
              Start(Last(resume)) <= InterruptStack - 15
         /\ resume # <<>> /\ resume \in Seq(Context) /\ cpl = 0 /\ rflags = IF0
         /\ Runs(mem, userStack, Last(resume), Front(resume))
         /\ FrameAt(mem, Last(resume)) /\ rsp \in Int
<1>1. /\ resume # <<>> /\ resume \in Seq(Context) /\ cpl = 0 /\ rflags = IF0
      /\ Runs(mem, userStack, Last(resume), Front(resume))
      /\ FrameAt(mem, Last(resume)) /\ rsp \in Int
  BY DEF TrapInv, TypeInv, HandlerInv
<1>2. Last(resume) \in Context /\ Front(resume) \in Seq(Context)
  BY <1>1, LastFront
<1> QED
  BY <1>1, <1>2, StartBelow

(* The stub adds an error code exactly where the processor has not. *)
LEMMA StubLength ==
  ASSUME NEW v \in Vectors
  PROVE  LET w == StubWords(v)
             d == IF v \in PushesErrorCode THEN 1 ELSE 2
         IN  w \in Seq(Int) /\ Len(w) = d /\ w[d] = v /\ d \in 1 .. Len(w)
<1>1. v \in Int
  BY ExceptionsAssumption DEF Vectors, TimerVector
<1>2. CASE v \in {8, 10, 11, 12, 13, 14}
  <2>1. StubWords(v) = <<v>> /\ v \in PushesErrorCode
    BY <1>2 DEF StubWords, PushesErrorCode
  <2> QED
    BY <1>1, <2>1
<1>3. CASE v \notin {8, 10, 11, 12, 13, 14}
  <2>1. StubWords(v) = <<0, v>> /\ v \notin PushesErrorCode
    BY <1>1, <1>3, ExceptionsAssumption
       DEF StubWords, PushesErrorCode, Vectors, TimerVector
  <2> QED
    BY <1>1, <2>1
<1> QED
  BY <1>2, <1>3

(* The stub completes the frame. *)
LEMMA StubKeeps ==
  ASSUME TrapInv, Stub
  PROVE  TrapInv' /\ resume' = resume
<1> DEFINE w == StubWords(rip)
           p == [i \in DOMAIN PushOrder |-> regs[PushOrder[i]]]
           words == w \o p
<1>1. /\ pc = "stub" /\ pc' = "handler" /\ mem' = Stored(mem, rsp, words)
      /\ rsp' = rsp - Len(words)
      /\ UNCHANGED <<regs, rip, rflags, cpl, userStack, resume>>
  BY DEF Stub
<1>2. pc \in Handler /\ pc' \in Steps /\ pc' \notin {"user"} \union Kernel
  BY <1>1 DEF Handler, Kernel, Steps
<1>3. PICK r : r = Last(resume)
  OBVIOUS
<1>4. PICK s : s = Start(r)
  OBVIOUS
<1>5. /\ r \in Context /\ s \in Int /\ rsp \in Int
      /\ r.pc \in {"call", "inside", "pop"} => s <= InterruptStack - 15
      /\ resume # <<>> /\ cpl = 0 /\ rflags = IF0
      /\ Runs(mem, userStack, r, Front(resume)) /\ FrameAt(mem, r)
  BY <1>2, <1>3, <1>4, InHandler
<1>6. /\ SeenAt(rip, r) /\ regs = r.regs /\ regs \in [Register -> Int]
      /\ rsp = s - (IF rip \in PushesErrorCode THEN 6 ELSE 5)
  BY <1>1, <1>2, <1>3, <1>4 DEF TrapInv, TypeInv, HandlerInv
<1>7. PICK d : d = IF rip \in PushesErrorCode THEN 1 ELSE 2
  OBVIOUS
<1>8. d \in {1, 2} /\ rsp = s - 7 + d /\ rsp - d = s - 7
  BY <1>5, <1>6, <1>7
<1>9. w \in Seq(Int) /\ Len(w) = d /\ w[d] = rip /\ d \in 1 .. Len(w)
  BY <1>6, <1>7, StubLength DEF SeenAt
<1>10. /\ p \in Seq(Int) /\ Len(p) = 15
       /\ \A i \in 1 .. 15 : p[i] = r.regs[PushOrder[i]]
  <2> HIDE DEF p
  <2>1. /\ p \in Seq(Int) /\ Len(p) = 15
        /\ \A i \in 1 .. 15 : p[i] = regs[PushOrder[i]]
    <3>1. p = [i \in DOMAIN PushOrder |-> regs[PushOrder[i]]]
      BY DEF p
    <3> QED
      BY <1>6, <3>1, PushedWords, Zenon
  <2> QED
    BY <1>6, <2>1, Zenon
<1> HIDE DEF w, p
<1>11. /\ words \in Seq(Int) /\ Len(words) = Len(w) + Len(p)
       /\ \A i \in 1 .. Len(w) : words[i] = w[i]
       /\ \A i \in 1 .. Len(p) : words[Len(w) + i] = p[i]
  BY <1>9, <1>10, Joined, Zenon
<1> HIDE DEF words
<1>12. /\ Len(words) = d + 15 /\ words[d] = rip
       /\ \A i \in 1 .. 15 : words[d + i] = r.regs[PushOrder[i]]
  BY <1>9, <1>10, <1>11
<1>13. rsp' = s - 22 /\ rsp' \in Int
  BY <1>1, <1>5, <1>8, <1>12
<1>14. RegsAt(mem', s - 7, r.regs)
  <2>1. RegsAt(Stored(mem, rsp, words), rsp - d, r.regs)
    <3>1. d \in Nat
      BY <1>8
    <3> QED
      BY <1>5, <1>11, <1>12, <3>1, PushedAt, Zenon
  <2> QED
    BY <1>1, <1>8, <2>1
<1>15. Runs(mem', userStack', r, Front(resume'))
  <2>1. r.pc \in {"call", "inside", "pop"} => rsp <= InterruptStack - 15
    BY <1>5, <1>8, LayoutAssumption
  <2> QED
    BY <1>1, <1>5, <1>11, <2>1, RunsKept
<1>16. FrameAt(mem', r)
  <2>1. rsp <= Start(r) - 5
    BY <1>4, <1>5, <1>8
  <2> QED
    BY <1>1, <1>5, <1>11, <2>1, FrameKept
<1>17. Number' = rip
  <2>1. PICK a \in Int : a = s - 7
    BY <1>5
  <2>2. rsp - Len(words) <= a /\ a < rsp /\ rsp - a = d
    <3>1. /\ Len(words) = d + 15 /\ s \in Int /\ d \in {1, 2}
          /\ rsp = s - 7 + d
      BY <1>5, <1>8, <1>12, Zenon
    <3> QED
      BY <2>1, <3>1
  <2>3. mem'[a] = words[rsp - a]
    BY <1>1, <1>5, <1>11, <2>2 DEF Stored
  <2>4. rsp' + NumberAt = a
    BY <1>5, <1>13, <2>1 DEF NumberAt
  <2> QED
    BY <1>12, <2>2, <2>3, <2>4 DEF Number
<1>18. TypeInv'
  BY <1>1, <1>2, <1>13 DEF TrapInv, TypeInv
<1>19. HandlerInv'
  <2>1. Last(resume') = r /\ resume' # <<>>
    BY <1>1, <1>3, <1>5
  <2>2. Number' = rip' /\ SeenAt(rip', r)
    BY <1>1, <1>6, <1>17
  <2>3. cpl' = 0 /\ rflags' = IF0 /\ pc' # "stub"
    BY <1>1, <1>5
  <2> QED
    BY <1>4, <1>13, <1>14, <1>15, <1>16, <2>1, <2>2, <2>3 DEF HandlerInv
<1>20. RunInv'
  BY <1>2 DEF RunInv
<1> QED
  BY <1>1, <1>18, <1>19, <1>20 DEF TrapInv

(* Where a handler finds its frame. *)
LEMMA FrameRead ==
  ASSUME TrapInv, pc \in {"handler", "trapret"}, NEW r, r = Last(resume)
  PROVE  /\ mem[rsp + RipAt] = r.rip
         /\ mem[rsp + RipAt + 1] = (IF r.cpl = 3 THEN UserCS ELSE KernelCS)
         /\ mem[rsp + RipAt + 2] = r.rflags /\ mem[rsp + RipAt + 3] = r.rsp
         /\ RegsAt(mem, Start(r) - 7, r.regs) /\ rsp = Start(r) - 22
<1>1. pc \in Handler
  BY DEF Handler
<1>2. Start(r) \in Int /\ FrameAt(mem, r)
  BY <1>1, InHandler
<1>3. rsp = Start(r) - 22 /\ RegsAt(mem, Start(r) - 7, r.regs)
  BY <1>1 DEF TrapInv, HandlerInv
<1>4. /\ rsp + RipAt = Start(r) - 5 /\ rsp + RipAt + 1 = Start(r) - 4
      /\ rsp + RipAt + 2 = Start(r) - 3 /\ rsp + RipAt + 3 = Start(r) - 2
  BY <1>2, <1>3 DEF RipAt
<1> QED
  BY <1>2, <1>3, <1>4 DEF FrameAt

(* TrapHandler leaves the frame as it is, and ends the process for a fault *)
(* of the process: the kernel never faults.                                *)
LEMMA HandleKeeps ==
  ASSUME TrapInv, HandleTimer \/ HandleFault \/ HandleUnhandled
  PROVE  TrapInv' /\ resume' = resume
<1> DEFINE words == [i \in 1 .. CallWords |-> Junk]
<1>1. /\ pc = "handler" /\ mem' = Stored(mem, rsp, words)
      /\ UNCHANGED <<regs, rip, rsp, rflags, cpl, userStack, resume>>
  BY DEF HandleTimer, HandleFault, HandleUnhandled, Handled
<1>2. pc \in Handler
  BY <1>1 DEF Handler
<1>3. PICK r : r = Last(resume)
  OBVIOUS
<1>4. /\ r \in Context /\ Start(r) \in Int /\ rsp \in Int
      /\ r.pc \in {"call", "inside", "pop"} => Start(r) <= InterruptStack - 15
      /\ resume # <<>> /\ cpl = 0 /\ rflags = IF0
      /\ Runs(mem, userStack, r, Front(resume)) /\ FrameAt(mem, r)
  BY <1>2, <1>3, InHandler
<1>5. rsp = Start(r) - 22 /\ RegsAt(mem, Start(r) - 7, r.regs)
  BY <1>1, <1>3, FrameRead
<1>6. pc' \in {"trapret", "exited"}
  <2>1. CASE HandleFault
    <3>1. /\ Number \in {8, 13, 14}
          /\ pc' = IF Number = 8 \/ mem[rsp + RipAt + 1] = KernelCS
                   THEN "panic" ELSE "exited"
      BY <2>1 DEF HandleFault
    <3>2. SeenAt(Number, r)
      BY <1>1, <1>2, <1>3 DEF TrapInv, HandlerInv
    <3>3. Number # 8 /\ r.cpl = 3
      BY <3>1, <3>2, ExceptionsAssumption DEF SeenAt, Vectors, TimerVector
    <3>4. mem[rsp + RipAt + 1] = UserCS
      BY <1>1, <1>3, <3>3, FrameRead
    <3> QED
      BY <3>1, <3>3, <3>4 DEF UserCS, KernelCS
  <2>2. CASE HandleTimer \/ HandleUnhandled
    BY <2>2 DEF HandleTimer, HandleUnhandled
  <2> QED
    BY <2>1, <2>2
<1>7. words \in Seq(Int)
  BY LayoutAssumption DEF Junk
<1> HIDE DEF words
<1>8. RegsAt(mem', Start(r) - 7, r.regs)
  <2>1. Start(r) - 7 \in Int /\ rsp <= Start(r) - 7 - 15
    BY <1>4, <1>5
  <2> QED
    BY <1>1, <1>4, <1>5, <1>7, <2>1, RegsAtKept
<1>9. Runs(mem', userStack', r, Front(resume'))
  <2>1. r.pc \in {"call", "inside", "pop"} => rsp <= InterruptStack - 15
    BY <1>4, <1>5, LayoutAssumption
  <2> QED
    BY <1>1, <1>4, <1>7, <2>1, RunsKept
<1>10. FrameAt(mem', r)
  <2>1. rsp <= Start(r) - 5
    BY <1>4, <1>5
  <2> QED
    BY <1>1, <1>4, <1>7, <2>1, FrameKept
<1>11. TypeInv'
  BY <1>1, <1>6 DEF TrapInv, TypeInv, Steps, Handler
<1>12. HandlerInv'
  <2>1. Last(resume') = r /\ resume' # <<>>
    BY <1>1, <1>3, <1>4
  <2>2. cpl' = 0 /\ rflags' = IF0 /\ rsp' = Start(r) - 22
    BY <1>1, <1>4, <1>5
  <2> QED
    BY <1>6, <1>8, <1>9, <1>10, <2>1, <2>2 DEF HandlerInv
<1>13. RunInv'
  BY <1>6 DEF RunInv, Kernel
<1> QED
  BY <1>1, <1>11, <1>12, <1>13 DEF TrapInv

(* TrapRet goes back to what was interrupted. *)
LEMMA TrapRetKeeps ==
  ASSUME TrapInv, TrapRet
  PROVE  TrapInv' /\ Resumed
<1>1. /\ pc = "trapret" /\ regs' = Popped(mem, rsp)
      /\ rip' = mem[rsp + RipAt] /\ rflags' = mem[rsp + RipAt + 2]
      /\ rsp' = mem[rsp + RipAt + 3]
      /\ cpl' = (IF mem[rsp + RipAt + 1] = KernelCS THEN 0 ELSE 3)
      /\ pc' = Last(resume).pc /\ resume' = Front(resume)
      /\ mem' = mem /\ userStack' = userStack
  BY DEF TrapRet
<1>2. pc \in Handler
  BY <1>1 DEF Handler
<1>3. PICK r : r = Last(resume)
  OBVIOUS
<1>4. /\ r \in Context /\ Start(r) \in Int
      /\ r.pc \in {"user"} \union Kernel /\ Front(resume) \in Seq(Context)
      /\ Runs(mem, userStack, r, Front(resume))
  BY <1>2, <1>3, InHandler
<1>5. /\ mem[rsp + RipAt] = r.rip
      /\ mem[rsp + RipAt + 1] = (IF r.cpl = 3 THEN UserCS ELSE KernelCS)
      /\ mem[rsp + RipAt + 2] = r.rflags /\ mem[rsp + RipAt + 3] = r.rsp
      /\ RegsAt(mem, Start(r) - 7, r.regs) /\ rsp = Start(r) - 22
  BY <1>1, <1>3, FrameRead
<1>6. /\ r.regs \in [Register -> Int] /\ r.cpl \in {0, 3} /\ r.rip \in Int
      /\ r.rsp \in Int /\ r.rflags \in Int /\ r.pc \in Steps
  BY <1>4 DEF Context
<1>7. regs' = r.regs
  <2>1. PICK top \in Int : top = Start(r) - 7
    BY <1>4
  <2>2. rsp = top - 15
    BY <1>4, <1>5, <2>1
  <2> QED
    BY <1>1, <1>5, <1>6, <2>1, <2>2, PopsBack
<1>8. /\ rip' = r.rip /\ rflags' = r.rflags /\ rsp' = r.rsp /\ pc' = r.pc
      /\ cpl' = r.cpl
  BY <1>1, <1>3, <1>5, <1>6 DEF UserCS, KernelCS
<1>9. Resumed
  BY <1>3, <1>4, <1>7, <1>8, SameContext DEF Resumed
<1>10. Saved' = r
  BY <1>3, <1>9 DEF Resumed, Saved
<1>11. TypeInv'
  BY <1>1, <1>4, <1>6, <1>7, <1>8 DEF TrapInv, TypeInv
<1>12. RunInv'
  BY <1>1, <1>4, <1>10 DEF RunInv
<1>13. HandlerInv'
  BY <1>4, <1>8 DEF HandlerInv, Handler, Kernel
<1> QED
  BY <1>9, <1>11, <1>12, <1>13 DEF TrapInv

(* An interrupt request changes nothing but the APIC. *)
LEMMA RequestKeeps ==
  ASSUME TrapInv, Tick \/ ApicError \/ UNCHANGED vars
  PROVE  TrapInv' /\ resume' = resume
<1>1. UNCHANGED <<mem, regs, rip, rsp, rflags, cpl, userStack, resume, pc>>
  BY DEF Tick, ApicError, vars
<1>2. TypeInv'
  BY <1>1 DEF TrapInv, TypeInv
<1>3. Saved' = Saved /\ Number' = Number
  BY <1>1 DEF Saved, Number
<1>4. RunInv'
  BY <1>1, <1>3 DEF TrapInv, RunInv
<1>5. HandlerInv'
  BY <1>1, <1>3 DEF TrapInv, HandlerInv
<1> QED
  BY <1>1, <1>2, <1>4, <1>5 DEF TrapInv

(* The process starts as it should be. *)
LEMMA InitHolds == Init => TrapInv
<1> SUFFICES ASSUME Init PROVE TrapInv
  OBVIOUS
<1>1. /\ regs = [r \in Register |-> 0]
      /\ rip = 0 /\ rsp = 0 /\ rflags = IF1 /\ cpl = 3
      /\ userStack = 0 /\ resume = <<>> /\ pc = "user"
  BY DEF Init, Register
<1>2. TypeInv
  BY <1>1 DEF TypeInv, IF1, Steps
<1>3. UserContext(Saved)
  BY <1>1, <1>2, SavedContext DEF UserContext
<1> QED
  BY <1>1, <1>2, <1>3 DEF TrapInv, RunInv, HandlerInv, Runs, Handler

(* A resume that stays as it is does not get shorter. *)
LEMMA Shortened ==
  ASSUME TrapInv, resume' = resume
  PROVE  ~(Len(resume') < Len(resume))
<1>1. Len(resume) \in Nat
  BY DEF TrapInv, TypeInv
<1> QED
  BY <1>1

(* Every step keeps the invariant, and one that takes an entry off resume  *)
(* goes on as that entry says.                                             *)
LEMMA StepKeeps ==
  ASSUME TrapInv, [Next]_vars
  PROVE  TrapInv' /\ (Len(resume') < Len(resume) => Resumed)
<1>1. CASE UserStep \/ UserLoad
  BY <1>1, UserKeeps, Shortened
<1>2. CASE Syscall
  BY <1>2, SyscallKeeps
<1>3. ASSUME NEW v \in Exceptions, Exception(v)
      PROVE  TrapInv' /\ (Len(resume') < Len(resume) => Resumed)
  BY <1>3, ExceptionKeeps
<1>4. CASE Interrupt(TimerVector) \/ Interrupt(ErrorVector)
  BY <1>4, InterruptKeeps
<1>5. CASE Stub
  BY <1>5, StubKeeps, Shortened
<1>6. CASE HandleTimer \/ HandleFault \/ HandleUnhandled
  BY <1>6, HandleKeeps, Shortened
<1>7. CASE TrapRet
  BY <1>7, TrapRetKeeps
<1>8. CASE Sysret
  BY <1>8, SysretKeeps
<1>9. CASE \/ SaveUserStack \/ SwitchStack \/ PushRegisters
           \/ KernelSyscallHandler \/ KernelSyscallReturn \/ PopRegisters
           \/ RestoreUserStack
  BY <1>9, SyscallStepKeeps, Shortened
<1>10. CASE Tick \/ ApicError \/ UNCHANGED vars
  BY <1>10, RequestKeeps, Shortened
<1> QED
  BY <1>1, <1>2, <1>3, <1>4, <1>5, <1>6, <1>7, <1>8, <1>9, <1>10
     DEF Next, HandlerStep, SyscallStep

-----------------------------------------------------------------------------
(* The theorems *)

(* The invariant holds at any time: where every word of a frame lies, what *)
(* is on the stack under it, and that nothing is nested deeper than an     *)
(* interrupt of SyscallHandler.                                            *)
THEOREM Invariance == Spec => []TrapInv
<1>1. TrapInv /\ [Next]_vars => TrapInv'
  BY StepKeeps
<1> QED
  BY InitHolds, <1>1, PTL DEF Spec

(* Whatever an interrupt, an exception or a system call came between goes  *)
(* on with its registers, stack pointer, instruction, interrupt flag and   *)
(* privilege (TrapCommon, TrapRet, SyscallHandler).                        *)
THEOREM ResumesExactly == Spec => ResumedExactly
<1>1. TrapInv /\ [Next]_vars => [Len(resume') < Len(resume) => Resumed]_vars
  BY StepKeeps
<1>2. [][Len(resume') < Len(resume) => Resumed]_vars => ResumedExactly
  BY PTL DEF ResumedExactly, Resumed
<1> QED
  BY Invariance, <1>1, <1>2, PTL DEF Spec

(* The handler sees the number of what happened, and a fault of the        *)
(* process never makes the kernel panic (GenerateISRStub, TrapHandler).    *)
THEOREM FaultsEnd == Spec => []FaultEndsProcess
<1>1. TrapInv => FaultEndsProcess
  BY DEF TrapInv, TypeInv, HandlerInv, FaultEndsProcess, Steps, Kernel, Handler,
         SeenAt, Vectors
<1> QED
  BY Invariance, <1>1, PTL

(* From the switch of stacks on the kernel uses the stack it was given and *)
(* of it no more than a system call with its C functions and one interrupt *)
(* in it, unless an interrupt came in the window in which the process's    *)
(* stack pointer is in ring 0 (SyscallHandler, TrapCommon).                *)
THEOREM KeepsToStack == Spec => []OnKernelStack
<1>1. ASSUME TrapInv, cpl = 0, ~Elsewhere
      PROVE  rsp \in StackTop - Depth .. StackTop
  <2>1. /\ InterruptStack \in Int /\ StackTop = InterruptStack
        /\ CallWords \in Nat /\ Depth = 15 + CallWords + 1 + 24
    BY LayoutAssumption, Orders DEF StackTop, Depth, FrameWords
  <2>2. /\ pc \notin Window \union {"reset"}
        /\ ~ \E i \in DOMAIN resume : resume[i].pc \in Window
    BY <1>1 DEF Elsewhere
  <2>3. CASE pc = "user"
    BY <1>1, <2>3, InUser
  <2>4. CASE pc \in Kernel
    <3>1. \/ rsp \in {InterruptStack, InterruptStack - 15}
          \/ rsp \in InterruptStack - 15 - CallWords .. InterruptStack - 16
      BY <1>1, <2>4, <2>2, InKernel DEF KernelContext, Kernel, Window
    <3> QED
      BY <2>1, <3>1
  <2>5. CASE pc \in Handler
    <3>1. PICK r : r = Last(resume)
      OBVIOUS
    <3>2. /\ r \in Context /\ Start(r) \in Int /\ resume \in Seq(Context)
          /\ resume # <<>> /\ Runs(mem, userStack, r, Front(resume))
      BY <1>1, <2>5, <3>1, InHandler
    <3>3. r.pc \notin Window
      <4>1. Len(resume) \in DOMAIN resume
        BY <3>2
      <4> QED
        BY <2>2, <3>1, <4>1 DEF Last
    <3>4. Start(r) \in InterruptStack - 16 - CallWords .. InterruptStack
      <4>1. \/ r.cpl = 3
            \/ /\ r.cpl = 0
               /\ r.rsp \in InterruptStack - 15 - CallWords .. InterruptStack
        <5>1. \/ r.cpl = 3
              \/ r.cpl = 0 /\ r.rsp \in {InterruptStack, InterruptStack - 15}
              \/ /\ r.cpl = 0
                 /\ r.rsp \in InterruptStack - 15 - CallWords .. InterruptStack - 16
          BY <3>2, <3>3 DEF Runs, UserContext, KernelContext, Kernel, Window
        <5> QED
          BY <2>1, <5>1
      <4>2. ASSUME NEW x \in InterruptStack - 15 - CallWords .. InterruptStack
            PROVE  x - (x % 2) \in InterruptStack - 16 - CallWords .. InterruptStack
        BY <2>1
      <4> QED
        BY <2>1, <4>1, <4>2 DEF Start
    <3>5. rsp = Start(r) - 22 \/ rsp = Start(r) - 6 \/ rsp = Start(r) - 5
      BY <1>1, <2>5, <3>1 DEF TrapInv, HandlerInv
    <3> QED
      BY <2>1, <3>2, <3>4, <3>5
  <2> QED
    BY <1>1, <2>2, <2>3, <2>4, <2>5 DEF TrapInv, TypeInv, Steps
<1>2. TrapInv => OnKernelStack
  BY <1>1 DEF OnKernelStack
<1> QED
  BY Invariance, <1>2, PTL
=============================================================================
