---------------------- MODULE IrreversibleActionsProofs ----------------------
(***************************************************************************)
(* What claims and receipts guarantee for any number of approvals, plans   *)
(* of any length, processes and runs, whatever people write, providers     *)
(* fail to answer and power losses take from the disk.                     *)
(***************************************************************************)
EXTENDS IrreversibleActions, TLAPS

IsProc(x) ==
    /\ x = [ pc |-> x.pc, run |-> x.run, action |-> x.action, n |-> x.n,
             tried |-> x.tried, failed |-> x.failed, raced |-> x.raced ]
    /\ x.n \in Nat
    /\ x.pc # "idle" => x.action \in Actions

IsDisk(d) ==
    /\ d = [ claims |-> d.claims, operations |-> d.operations,
             unflushed |-> d.unflushed, receipt |-> d.receipt ]
    /\ d.receipt = [a \in Actions |-> d.receipt[a]]

Shapes ==
    /\ proc = [p \in Procs |-> proc[p]]
    /\ \A p \in Procs : IsProc(proc[p])
    /\ IsDisk(files)
    /\ envelope = [a \in Actions |-> envelope[a]]
    /\ \A x \in sent : x[2] \in Actions
    /\ \A p \in Procs : proc[p].pc # "idle" => envelope[proc[p].action] # None

\* A provider key that no power loss can free again.
Secured(k) == k \in files.operations /\ <<"operation", k>> \notin files.unflushed

Working == {"check", "write", "prove", "receipt", "sign", "keepReceipt"}
Holding == {"keepOperation"} \cup Working

\* A run that holds a provider key is the only one that sends under it; it
\* knows whether it has, and of an unfailed one every effect before the one
\* at hand took hold.
Claims(x) ==
    /\ x.pc \in Holding => Key[x.action] \in files.operations
    /\ x.pc \in Working => <<"operation", Key[x.action]>> \notin files.unflushed

Sends(x) ==
    x.pc \in Holding =>
        \A y \in sent : Key[y[2]] = Key[x.action] => x.tried /\ y = <<x.run, x.action>>

Files(x) == x.pc \in Holding \ {"keepReceipt"} => files.receipt[x.action] \notin Outcomes

Done(a, k) == \A i \in 1 .. k : <<a, i>> \in applied
Applies(x) ==
    ~x.failed =>
        /\ x.pc \in {"check", "write"} => Done(x.action, x.n - 1)
        /\ x.pc = "prove" => Done(x.action, x.n)
        /\ x.pc \in {"receipt", "sign"} => Done(x.action, Len(envelope[x.action].plan))

Sound(x) == Claims(x) /\ Sends(x) /\ Files(x) /\ Applies(x)

Apart == \A p, q \in Procs :
    /\ proc[p].pc \in Holding /\ proc[q].pc \in Holding
    /\ Key[proc[p].action] = Key[proc[q].action]
    => p = q

\* What was sent or filed keeps its key for good.
Told(a) ==
    /\ files.receipt[a] = "failed_before_effect" => \A x \in sent : x[2] # a
    /\ files.receipt[a] = "succeeded" => Done(a, Len(envelope[a].plan))
    /\ files.receipt[a] \in Outcomes => Secured(Key[a]) /\ envelope[a] # None

IInv ==
    /\ Shapes
    /\ \A p \in Procs : Sound(proc[p])
    /\ Apart
    /\ \A x \in sent : Secured(Key[x[2]])
    /\ \A a \in Actions : Told(a)
    /\ SpentOnce
------------------------------------------------------------------------------
LEMMA IdleIsSound == IsProc(Idle) /\ Idle.pc = "idle" /\ Sound(Idle)
<1>1. Idle.pc = "idle" /\ Idle.n = 0
  BY DEF Idle
<1>2. IsProc(Idle)
  BY <1>1 DEF Idle, IsProc
<1>3. Sound(Idle)
  BY <1>1 DEF Sound, Claims, Sends, Files, Applies, Holding, Working
<1>q. QED
  BY <1>1, <1>2, <1>3

LEMMA InitIsSound == ASSUME Init PROVE IInv
<1>1. \A p \in Procs : proc[p] = Idle
  BY DEF Init
<1>2. Shapes
  <2>1. proc = [p \in Procs |-> proc[p]] /\ envelope = [a \in Actions |-> envelope[a]]
    BY DEF Init
  <2>2. IsDisk(files)
    BY DEF Init, IsDisk
  <2>q. QED
    BY <1>1, <2>1, <2>2, IdleIsSound DEF Shapes, Init
<1>3. Apart
  BY <1>1, IdleIsSound DEF Apart, Holding, Working
<1>4. \A a \in Actions : Told(a)
  BY DEF Init, Told, Outcomes
<1>q. QED
  BY <1>1, <1>2, <1>3, <1>4, IdleIsSound DEF IInv, Init, SpentOnce

\* Two records of one process that differ in nothing but raced.
Like(x, y) ==
    /\ IsProc(x) /\ x.pc = y.pc /\ x.run = y.run /\ x.action = y.action
    /\ x.n = y.n /\ x.tried = y.tried /\ x.failed = y.failed

LEMMA LikeItself == ASSUME NEW x, IsProc(x) PROVE Like(x, x)
  BY DEF Like

LEMMA RacingLike ==
    ASSUME IInv, NEW t, NEW q \in Procs
    PROVE  Like(Racing(t)[q], proc[q])
<1>1. PICK raced : raced = (proc[q].raced \/ (proc[q].pc = "write" /\ Effect(q).at = t))
  OBVIOUS
<1>2. PICK x : x = [proc[q] EXCEPT !.raced = raced]
  OBVIOUS
<1>3. Racing(t)[q] = x
  BY <1>1, <1>2 DEF Racing
<1>4. IsProc(proc[q])
  BY DEF IInv, Shapes
<1>q. QED
  BY <1>2, <1>3, <1>4 DEF Like, IsProc

\* How a step of p may change what other processes rely on.
Grows(p) ==
    /\ UNCHANGED envelope
    /\ applied \subseteq applied'
    /\ files.operations \subseteq files'.operations
    /\ \A k \in files.operations :
         <<"operation", k>> \in files'.unflushed => <<"operation", k>> \in files.unflushed
    /\ \/ sent' = sent /\ files'.receipt = files.receipt
       \/ /\ proc[p].pc \in Working
          /\ sent' \subseteq sent \cup {<<proc[p].run, proc[p].action>>}
          /\ sent \subseteq sent'
          /\ \A a \in Actions \ {proc[p].action} : files'.receipt[a] = files.receipt[a]

LEMMA OthersStay ==
    ASSUME IInv, NEW p \in Procs, Grows(p), NEW q \in Procs \ {p}, Like(proc'[q], proc[q])
    PROVE  Sound(proc[q])'
<1>1. Sound(proc[q]) /\ (proc[q].pc \in Holding => proc[q].action \in Actions)
  BY DEF IInv, Shapes, IsProc, Holding, Working
<1>2. /\ proc'[q].pc = proc[q].pc /\ proc'[q].run = proc[q].run
      /\ proc'[q].action = proc[q].action /\ proc'[q].n = proc[q].n
      /\ proc'[q].tried = proc[q].tried /\ proc'[q].failed = proc[q].failed
  BY DEF Like
<1>3. proc[q].pc \in Holding /\ proc[p].pc \in Holding =>
        /\ Key[proc[q].action] # Key[proc[p].action]
        /\ proc[q].action # proc[p].action
  BY DEF IInv, Apart
<1>4. Claims(proc[q])'
  BY <1>1, <1>2 DEF Sound, Claims, Grows, Working, Holding
<1>5. Sends(proc[q])'
  BY <1>1, <1>2, <1>3 DEF Sound, Sends, Grows, Holding
<1>6. Files(proc[q])'
  BY <1>1, <1>2, <1>3 DEF Sound, Files, Grows, Holding
<1>7. Applies(proc[q])'
  BY <1>1, <1>2 DEF Sound, Applies, Done, Grows
<1>q. QED
  BY <1>4, <1>5, <1>6, <1>7 DEF Sound

\* What a step of p has to show.
Steps(p) ==
    /\ proc' = [q \in Procs |-> proc'[q]]
    /\ IsProc(proc'[p])
    /\ \A q \in Procs \ {p} : Like(proc'[q], proc[q])
    /\ proc'[p].pc # "idle" => envelope[proc'[p].action] # None
    /\ proc'[p].pc \in Holding =>
         \/ proc[p].pc \in Holding /\ proc'[p].action = proc[p].action
         \/ Key[proc'[p].action] \notin files.operations

LEMMA StepKeeps ==
    ASSUME IInv, NEW p \in Procs, Grows(p), Steps(p), IsDisk(files'), Sound(proc[p])',
           \A a \in Actions : proc[p].pc \in Working /\ a = proc[p].action => Told(a)'
    PROVE  IInv'
<1>1. Shapes'
  <2>1. \A q \in Procs : IsProc(proc'[q])
    BY DEF Steps, Like
  <2>2. \A q \in Procs : proc'[q].pc # "idle" => envelope'[proc'[q].action] # None
    BY DEF IInv, Shapes, Steps, Like, Grows
  <2>3. \A x \in sent' : x[2] \in Actions
    BY DEF IInv, Shapes, Grows, IsProc, Working
  <2>4. proc' = [q \in Procs |-> proc'[q]] /\ envelope' = [a \in Actions |-> envelope'[a]]
    BY DEF IInv, Shapes, Steps, Grows
  <2>q. QED
    BY <2>1, <2>2, <2>3, <2>4 DEF Shapes
<1>2. \A q \in Procs : Sound(proc[q])'
  BY OthersStay DEF Steps
<1>3. Apart'
  <2>1. SUFFICES ASSUME NEW q \in Procs, NEW o \in Procs, q # o,
                        proc'[q].pc \in Holding, proc'[o].pc \in Holding,
                        Key[proc'[q].action] = Key[proc'[o].action]
                 PROVE  FALSE
    BY DEF Apart
  <2>2. CASE q # p /\ o # p
    BY <2>1, <2>2 DEF IInv, Apart, Steps, Like
  <2>3. ASSUME NEW other \in Procs \ {p}, proc'[other].pc \in Holding, proc'[p].pc \in Holding,
               Key[proc'[other].action] = Key[proc'[p].action]
        PROVE  FALSE
    <3>1. proc[other].pc \in Holding /\ proc'[other].action = proc[other].action
      BY <2>3 DEF Steps, Like
    <3>2. Key[proc[other].action] \in files.operations
      BY <3>1 DEF IInv, Sound, Claims
    <3>3. proc[p].pc \in Holding /\ proc'[p].action = proc[p].action
      BY <2>3, <3>1, <3>2 DEF Steps
    <3>q. QED
      BY <2>3, <3>1, <3>3 DEF IInv, Apart
  <2>q. QED
    BY <2>1, <2>2, <2>3
<1>4. ASSUME NEW k, Secured(k) PROVE Secured(k)'
  BY <1>4 DEF Secured, Grows
<1>5. ASSUME NEW x \in sent', x \notin sent
      PROVE  /\ proc[p].pc \in Working /\ x = <<proc[p].run, proc[p].action>>
             /\ x[2] = proc[p].action
  BY <1>5 DEF Grows
<1>6. \A x \in sent' : Secured(Key[x[2]])'
  <2>1. ASSUME NEW x \in sent', x \notin sent PROVE Secured(Key[x[2]])
    BY <1>5, <2>1 DEF IInv, Sound, Claims, Secured, Holding
  <2>q. QED
    BY <1>4, <2>1 DEF IInv
<1>7. \A a \in Actions : Told(a)'
  <2>1. SUFFICES ASSUME NEW a \in Actions, ~(proc[p].pc \in Working /\ a = proc[p].action)
                 PROVE  Told(a)'
    OBVIOUS
  <2>2. files'.receipt[a] = files.receipt[a] /\ Told(a)
    BY <2>1 DEF Grows, IInv
  <2>3. \A x \in sent' : x[2] = a => x \in sent
    BY <1>5, <2>1
  <2>4. Done(a, Len(envelope[a].plan)) => Done(a, Len(envelope[a].plan))'
    BY DEF Done, Grows
  <2>q. QED
    BY <1>4, <2>2, <2>3, <2>4 DEF Told, Grows
<1>8. SpentOnce'
  <2>1. SUFFICES ASSUME NEW x \in sent', NEW y \in sent', Key[x[2]] = Key[y[2]]
                 PROVE  x = y
    BY DEF SpentOnce
  <2>2. CASE x \in sent /\ y \in sent
    BY <2>1, <2>2 DEF IInv, SpentOnce
  <2>3. ASSUME NEW v \in sent', v \notin sent, NEW w \in sent', Key[v[2]] = Key[w[2]]
        PROVE  v = w
    <3>1. CASE w \notin sent
      BY <1>5, <2>3, <3>1
    <3>2. CASE w \in sent
      <4>1. w = <<proc[p].run, proc[p].action>>
        BY <1>5, <2>3, <3>2 DEF IInv, Sound, Sends, Holding
      <4>q. QED
        BY <1>5, <2>3, <4>1
    <3>q. QED
      BY <3>1, <3>2
  <2>q. QED
    BY <2>1, <2>2, <2>3
<1>q. QED
  BY <1>1, <1>2, <1>3, <1>6, <1>7, <1>8 DEF IInv

------------------------------------------------------------------------------
\* A step of p alone: the others' records stay as they are.
LEMMA AloneSteps ==
    ASSUME IInv, NEW p \in Procs, NEW next, proc' = [proc EXCEPT ![p] = next], IsProc(next),
           next.pc # "idle" => envelope[next.action] # None,
           next.pc \in Holding =>
               \/ proc[p].pc \in Holding /\ next.action = proc[p].action
               \/ Key[next.action] \notin files.operations
    PROVE  Steps(p) /\ proc'[p] = next
<1>1. proc'[p] = next /\ \A q \in Procs \ {p} : proc'[q] = proc[q]
  BY DEF IInv, Shapes
<1>2. \A q \in Procs \ {p} : Like(proc'[q], proc[q])
  BY <1>1, LikeItself DEF IInv, Shapes
<1>3. proc' = [q \in Procs |-> proc'[q]]
  BY DEF IInv, Shapes
<1>q. QED
  BY <1>1, <1>2, <1>3 DEF Steps

\* ... and nothing that is shared changes either.
LEMMA QuietStep ==
    ASSUME IInv, NEW p \in Procs, NEW next, proc' = [proc EXCEPT ![p] = next], IsProc(next),
           UNCHANGED <<envelope, files, sent, applied>>,
           next.pc # "idle" => envelope[next.action] # None,
           next.pc \in Holding => proc[p].pc \in Holding /\ next.action = proc[p].action,
           Sound(next)
    PROVE  IInv'
<1>1. Steps(p) /\ proc'[p] = next
  BY AloneSteps
<1>2. Grows(p)
  BY DEF Grows
<1>3. Sound(proc[p])'
  BY <1>1 DEF Sound, Claims, Sends, Files, Applies, Done
<1>4. \A a \in Actions : Told(a)'
  BY DEF IInv, Told, Done, Secured
<1>5. IsDisk(files')
  BY DEF IInv, Shapes
<1>q. QED
  BY <1>1, <1>2, <1>3, <1>4, <1>5, StepKeeps

LEMMA StopKeeps ==
    ASSUME IInv, NEW p \in Procs, Stop(p), UNCHANGED <<envelope, files, sent, applied>>
    PROVE  IInv'
<1>1. Idle.pc \notin Holding
  BY IdleIsSound DEF Holding, Working
<1>q. QED
  BY <1>1, IdleIsSound, QuietStep DEF Stop

\* The same process at another step.
LEMMA Going ==
    ASSUME IInv, NEW p \in Procs, proc[p].pc # "idle", NEW pc, pc # "idle",
           NEW x, x = [proc[p] EXCEPT !.pc = pc]
    PROVE  /\ IsProc(x) /\ x.pc = pc /\ x.run = proc[p].run /\ x.action = proc[p].action
           /\ x.n = proc[p].n /\ x.tried = proc[p].tried /\ x.failed = proc[p].failed
           /\ envelope[x.action] # None
<1>1. IsProc(proc[p]) /\ envelope[proc[p].action] # None
  BY DEF IInv, Shapes
<1>q. QED
  BY <1>1 DEF IsProc

LEMMA RecheckKeeps == ASSUME IInv, NEW p \in Procs, Recheck(p) PROVE IInv'
<1>1. UNCHANGED <<envelope, files, sent, applied>> /\ proc[p].pc = "recheck"
  BY DEF Recheck, At, history
<1>2. CASE Stop(p)
  BY <1>1, <1>2, StopKeeps
<1>3. CASE Goto(p, "claim")
  <2>1. PICK x : x = [proc[p] EXCEPT !.pc = "claim"]
    OBVIOUS
  <2>2. proc' = [proc EXCEPT ![p] = x]
    BY <1>3, <2>1 DEF Goto
  <2>3. IsProc(x) /\ x.pc = "claim" /\ envelope[x.action] # None
    BY <1>1, <2>1, Going
  <2>4. Sound(x) /\ x.pc \notin Holding
    BY <2>3 DEF Sound, Claims, Sends, Files, Applies, Holding, Working
  <2>q. QED
    BY <1>1, <2>2, <2>3, <2>4, QuietStep
<1>q. QED
  BY <1>2, <1>3 DEF Recheck

LEMMA BeginKeeps == ASSUME IInv, NEW p \in Procs, NEW a \in Actions, Begin(p, a) PROVE IInv'
<1>1. PICK pc \in {"recheck", "claim"} :
        pc = IF envelope[a].surface = "migrate" THEN "recheck" ELSE "claim"
  OBVIOUS
<1>2. PICK x : x = [Idle EXCEPT !.pc = pc, !.run = runs + 1, !.action = a]
  OBVIOUS
<1>3. proc' = [proc EXCEPT ![p] = x] /\ UNCHANGED <<envelope, files, sent, applied>>
      /\ envelope[a] # None
  BY <1>1, <1>2 DEF Begin, history
<1>4. /\ x = [ pc |-> pc, run |-> runs + 1, action |-> a, n |-> 0, tried |-> FALSE,
                failed |-> FALSE, raced |-> FALSE ]
      /\ x.pc = pc /\ x.run = runs + 1 /\ x.action = a /\ x.n = 0 /\ x.tried = FALSE
      /\ x.failed = FALSE /\ x.raced = FALSE
  BY <1>2 DEF Idle
<1>5. IsProc(x)
  <2>1. x.n \in Nat /\ x.action \in Actions
    BY <1>4
  <2>q. QED
    BY <1>4, <2>1, Zenon DEF IsProc
<1>6. Sound(x) /\ x.pc \notin Holding
  BY <1>1, <1>4 DEF Sound, Claims, Sends, Files, Applies, Holding, Working
<1>q. QED
  BY <1>3, <1>4, <1>5, <1>6, QuietStep

\* The claim files.
LEMMA ClaimKeeps == ASSUME IInv, NEW p \in Procs, Claim(p) \/ KeepClaim(p) PROVE IInv'
<1>1. PICK pc \in {"keepClaim", "operation"} : Goto(p, pc)
  BY DEF Claim, KeepClaim
<1>2. PICK x : x = [proc[p] EXCEPT !.pc = pc]
  OBVIOUS
<1>3. proc[p].pc \in {"claim", "keepClaim"} /\ proc' = [proc EXCEPT ![p] = x]
  BY <1>1, <1>2 DEF Claim, KeepClaim, At, Goto
<1>4. IsProc(x) /\ x.pc = pc /\ envelope[x.action] # None
  BY <1>2, <1>3, Going
<1>5. Steps(p) /\ proc'[p] = x
  BY <1>3, <1>4, AloneSteps DEF Holding, Working
<1>6. Sound(proc[p])'
  BY <1>4, <1>5 DEF Sound, Claims, Sends, Files, Applies, Holding, Working
<1>7. IsDisk(files') /\ files'.operations = files.operations /\ files'.receipt = files.receipt
      /\ \A k \in files.operations :
           <<"operation", k>> \in files'.unflushed => <<"operation", k>> \in files.unflushed
  <2>1. CASE Claim(p)
    <3>1. /\ IsDisk(files') /\ files'.operations = files.operations
          /\ files'.receipt = files.receipt
          /\ files'.unflushed = files.unflushed \cup {<<"claim", proc[p].action>>}
      BY <2>1 DEF IInv, Shapes, IsDisk, Claim
    <3>2. \A k : <<"operation", k>> # <<"claim", proc[p].action>>
      OBVIOUS
    <3>q. QED
      BY <3>1, <3>2
  <2>2. CASE KeepClaim(p)
    <3>1. /\ IsDisk(files') /\ files'.operations = files.operations
          /\ files'.receipt = files.receipt
          /\ files'.unflushed = files.unflushed \ {<<"claim", proc[p].action>>}
      BY <2>2 DEF IInv, Shapes, IsDisk, KeepClaim
    <3>q. QED
      BY <3>1
  <2>q. QED
    BY <2>1, <2>2
<1>8. Grows(p)
  BY <1>7 DEF Grows, Claim, KeepClaim, history
<1>q. QED
  BY <1>3, <1>5, <1>6, <1>7, <1>8, StepKeeps DEF Working

\* The key was free, so nothing was sent or filed under it.
LEMMA ClaimOperationKeeps == ASSUME IInv, NEW p \in Procs, ClaimOperation(p) PROVE IInv'
<1>1. PICK x : x = [proc[p] EXCEPT !.pc = "keepOperation"]
  OBVIOUS
<1>2. proc[p].pc = "operation" /\ proc' = [proc EXCEPT ![p] = x]
      /\ Key[proc[p].action] \notin files.operations
  BY <1>1 DEF ClaimOperation, At, Goto
<1>3. IsProc(x) /\ x.pc = "keepOperation" /\ x.action = proc[p].action
      /\ envelope[x.action] # None
  BY <1>1, <1>2, Going
<1>4. Steps(p) /\ proc'[p] = x
  BY <1>2, <1>3, AloneSteps
<1>5. /\ IsDisk(files') /\ files'.receipt = files.receipt
      /\ files'.operations = files.operations \cup {Key[proc[p].action]}
      /\ files'.unflushed = files.unflushed \cup {<<"operation", Key[proc[p].action]>>}
  BY DEF IInv, Shapes, IsDisk, ClaimOperation
<1>6. Grows(p)
  BY <1>2, <1>5 DEF Grows, ClaimOperation, history
<1>7. Sound(proc[p])'
  <2>1. x.action \in Actions
    BY <1>3 DEF IsProc
  <2>2. Claims(proc[p])'
    BY <1>3, <1>4, <1>5 DEF Claims, Working
  <2>3. Sends(proc[p])'
    <3>1. \A y \in sent : Key[y[2]] # Key[x.action]
      BY <1>2, <1>3 DEF IInv, Secured
    <3>q. QED
      BY <1>4, <3>1 DEF Sends, ClaimOperation, history
  <2>4. Files(proc[p])'
    BY <1>2, <1>3, <1>4, <1>5, <2>1 DEF Files, IInv, Told, Secured
  <2>5. Applies(proc[p])'
    BY <1>3, <1>4 DEF Applies
  <2>q. QED
    BY <2>2, <2>3, <2>4, <2>5 DEF Sound
<1>q. QED
  BY <1>2, <1>4, <1>5, <1>6, <1>7, StepKeeps DEF Working

LEMMA KeepOperationKeeps == ASSUME IInv, NEW p \in Procs, KeepOperation(p) PROVE IInv'
<1>1. PICK pc \in {"check", "write"} : pc = Approach(Surface(p), 1)
  BY DEF Approach
<1>2. PICK x : x = [proc[p] EXCEPT !.pc = pc, !.n = 1]
  OBVIOUS
<1>3. proc[p].pc = "keepOperation" /\ proc' = [proc EXCEPT ![p] = x]
  BY <1>1, <1>2 DEF KeepOperation, At
<1>4. IsProc(proc[p]) /\ envelope[proc[p].action] # None /\ Sound(proc[p])
  BY <1>3 DEF IInv, Shapes
<1>5. /\ IsProc(x) /\ x.pc = pc /\ x.run = proc[p].run /\ x.action = proc[p].action
      /\ x.n = 1 /\ x.tried = proc[p].tried /\ x.failed = proc[p].failed
  BY <1>2, <1>3, <1>4 DEF IsProc
<1>6. Steps(p) /\ proc'[p] = x
  <2>1. envelope[x.action] # None /\ proc[p].pc \in Holding
    BY <1>3, <1>4, <1>5 DEF Holding
  <2>q. QED
    BY <1>3, <1>5, <2>1, AloneSteps
<1>7. /\ IsDisk(files') /\ files'.receipt = files.receipt /\ files'.operations = files.operations
      /\ files'.unflushed = files.unflushed \ {<<"operation", Key[proc[p].action]>>}
  BY DEF IInv, Shapes, IsDisk, KeepOperation
<1>8. Grows(p)
  BY <1>7 DEF Grows, KeepOperation, history
<1>9. Sound(proc[p])'
  <2>1. Claims(proc[p])'
    BY <1>3, <1>4, <1>5, <1>6, <1>7 DEF Sound, Claims, Holding
  <2>2. Sends(proc[p])'
    BY <1>3, <1>4, <1>5, <1>6 DEF Sound, Sends, Holding, KeepOperation, history
  <2>3. Files(proc[p])'
    BY <1>3, <1>4, <1>5, <1>6, <1>7 DEF Sound, Files, Holding
  <2>4. Applies(proc[p])'
    BY <1>5, <1>6 DEF Applies, Done
  <2>q. QED
    BY <2>1, <2>2, <2>3, <2>4 DEF Sound
<1>q. QED
  BY <1>3, <1>6, <1>7, <1>8, <1>9, StepKeeps DEF Working

LEMMA RefusedKeeps == ASSUME IInv, NEW p \in Procs, Refused(p) PROVE IInv'
  BY StopKeeps DEF Refused, history

------------------------------------------------------------------------------
\* Comparisons and readbacks.
Moved(x, y, pc, n) ==
    /\ IsProc(x) /\ x.pc = pc /\ x.n = n /\ x.run = y.run /\ x.action = y.action
    /\ x.tried = y.tried /\ x.failed = y.failed

LEMMA Staying ==
    ASSUME IInv, NEW p \in Procs, proc[p].pc \in Working,
           NEW pc \in Working \ {"sign", "keepReceipt"}, NEW n, NEW x, Moved(x, proc[p], pc, n),
           proc[p].pc # "keepReceipt", Applies(x), proc' = [proc EXCEPT ![p] = x],
           UNCHANGED <<envelope, files, sent, applied>>
    PROVE  IInv'
<1>1. /\ Sound(proc[p]) /\ envelope[x.action] # None /\ proc[p].pc \in Holding
      /\ x.pc \in Working /\ x.pc \in Holding /\ x.pc # "idle"
  BY DEF IInv, Shapes, Moved, Holding, Working
<1>2. Claims(x) /\ Sends(x) /\ Files(x)
  BY <1>1 DEF Sound, Claims, Sends, Files, Moved, Holding
<1>q. QED
  BY <1>1, <1>2, QuietStep DEF Sound, Moved

LEMMA FailLike ==
    ASSUME IInv, NEW p \in Procs, proc[p].pc \in Working, NEW x, x = Fails(proc[p])
    PROVE  /\ IsProc(x) /\ x.pc = "receipt" /\ x.run = proc[p].run /\ x.n = proc[p].n
           /\ x.action = proc[p].action /\ x.tried = proc[p].tried /\ x.failed = TRUE
<1>1. IsProc(proc[p]) /\ proc[p].action \in Actions
  BY DEF IInv, Shapes, IsProc, Working
<1>q. QED
  BY <1>1 DEF IsProc, Fails

LEMMA FailKeeps ==
    ASSUME IInv, NEW p \in Procs, proc[p].pc \in {"check", "prove"},
           proc' = [proc EXCEPT ![p] = Fails(proc[p])],
           UNCHANGED <<envelope, files, sent, applied>>
    PROVE  IInv'
<1>1. PICK x : x = Fails(proc[p])
  OBVIOUS
<1>2. /\ IsProc(x) /\ x.pc = "receipt" /\ x.run = proc[p].run /\ x.n = proc[p].n
      /\ x.action = proc[p].action /\ x.tried = proc[p].tried /\ x.failed = TRUE
  BY <1>1, FailLike DEF Working
<1>3. /\ Sound(proc[p]) /\ envelope[x.action] # None /\ proc[p].pc \in Holding
      /\ proc[p].pc \in Working
  BY <1>2 DEF IInv, Shapes, Holding, Working
<1>4. Sound(x)
  BY <1>2, <1>3 DEF Sound, Claims, Sends, Files, Applies, Holding, Working
<1>q. QED
  BY <1>1, <1>2, <1>3, <1>4, QuietStep

LEMMA CheckKeeps == ASSUME IInv, NEW p \in Procs, Check(p) PROVE IInv'
<1>1. proc[p].pc = "check" /\ UNCHANGED <<envelope, files, sent, applied>>
  BY DEF Check, At, history
<1>2. CASE proc' = [proc EXCEPT ![p] = Fails(proc[p])]
  BY <1>1, <1>2, FailKeeps
<1>3. CASE proc' = [proc EXCEPT ![p] = [proc[p] EXCEPT !.pc = "write", !.raced = FALSE]]
  <2>1. PICK x : x = [proc[p] EXCEPT !.pc = "write", !.raced = FALSE]
    OBVIOUS
  <2>2. IsProc(proc[p]) /\ Sound(proc[p])
    BY DEF IInv, Shapes
  <2>3. Moved(x, proc[p], "write", proc[p].n)
    BY <1>1, <2>1, <2>2 DEF Moved, IsProc
  <2>4. Applies(x)
    BY <1>1, <2>2, <2>3 DEF Sound, Applies, Moved
  <2>q. QED
    BY <1>1, <1>3, <2>1, <2>3, <2>4, Staying DEF Working
<1>q. QED
  BY <1>2, <1>3 DEF Check

LEMMA ProveKeeps == ASSUME IInv, NEW p \in Procs, Prove(p) PROVE IInv'
<1>1. proc[p].pc = "prove" /\ UNCHANGED <<envelope, files, sent, applied>>
  BY DEF Prove, At, history
<1>2. IsProc(proc[p]) /\ Sound(proc[p])
  BY DEF IInv, Shapes
<1>3. CASE proc' = [proc EXCEPT ![p] = Fails(proc[p])]
  BY <1>1, <1>3, FailKeeps
<1>4. CASE proc[p].n = Len(Plan(p)) /\ proc' = [proc EXCEPT ![p] = [proc[p] EXCEPT !.pc = "receipt"]]
  <2>1. PICK x : x = [proc[p] EXCEPT !.pc = "receipt"]
    OBVIOUS
  <2>2. Moved(x, proc[p], "receipt", proc[p].n)
    BY <1>1, <1>2, <2>1 DEF Moved, IsProc
  <2>3. Applies(x)
    BY <1>1, <1>2, <1>4, <2>2 DEF Sound, Applies, Moved, Plan
  <2>q. QED
    BY <1>1, <1>4, <2>1, <2>2, <2>3, Staying DEF Working
<1>5. CASE proc' = [proc EXCEPT ![p] =
                [proc[p] EXCEPT !.pc = Approach(Surface(p), proc[p].n + 1), !.n = proc[p].n + 1]]
  <2>1. PICK pc \in {"check", "write"} : pc = Approach(Surface(p), proc[p].n + 1)
    BY DEF Approach
  <2>2. PICK n : n = proc[p].n + 1
    OBVIOUS
  <2>3. PICK x : x = [proc[p] EXCEPT !.pc = pc, !.n = n]
    OBVIOUS
  <2>4. n \in Nat /\ n - 1 = proc[p].n
    BY <1>2, <2>2 DEF IsProc
  <2>5. Moved(x, proc[p], pc, n)
    BY <1>1, <1>2, <2>1, <2>3, <2>4 DEF Moved, IsProc
  <2>6. Applies(x)
    BY <1>1, <1>2, <2>1, <2>4, <2>5 DEF Sound, Applies, Moved
  <2>q. QED
    BY <1>1, <1>5, <2>1, <2>2, <2>3, <2>5, <2>6, Staying DEF Working
<1>q. QED
  BY <1>3, <1>4, <1>5 DEF Prove

LEMMA ReadFailsKeeps == ASSUME IInv, NEW p \in Procs, ReadFails(p) PROVE IInv'
  BY FailKeeps DEF ReadFails, At

------------------------------------------------------------------------------
\* Effects: the run that holds the key sends, and knows that it has.
LEMMA SendKeeps ==
    ASSUME IInv, NEW p \in Procs, proc[p].pc = "write", NEW t, NEW next,
           proc' = [Racing(t) EXCEPT ![p] = next], IsProc(next),
           next.pc \in {"check", "write", "prove", "receipt"},
           next.run = proc[p].run, next.action = proc[p].action, next.tried,
           sent' = sent \cup {<<proc[p].run, proc[p].action>>},
           UNCHANGED <<envelope, files>>, applied \subseteq applied', Applies(next)'
    PROVE  IInv'
<1>1. proc'[p] = next /\ \A q \in Procs \ {p} : proc'[q] = Racing(t)[q]
  BY DEF Racing
<1>2. Steps(p)
  <2>1. proc' = [q \in Procs |-> proc'[q]]
    BY DEF Racing
  <2>2. \A q \in Procs \ {p} : Like(proc'[q], proc[q])
    BY <1>1, RacingLike
  <2>3. envelope[proc[p].action] # None /\ proc[p].pc \in Holding
    BY DEF IInv, Shapes, Holding, Working
  <2>q. QED
    BY <1>1, <2>1, <2>2, <2>3 DEF Steps
<1>3. Grows(p)
  BY DEF Grows, Working
<1>4. Sound(proc[p]) /\ proc[p].action \in Actions
  BY DEF IInv, Shapes, IsProc
<1>5. Sound(proc[p])'
  <2>1. Claims(next)'
    BY <1>4 DEF Sound, Claims, Holding, Working
  <2>2. Sends(next)'
    BY <1>4 DEF Sound, Sends, Holding, Working
  <2>3. Files(next)'
    BY <1>4 DEF Sound, Files, Holding, Working
  <2>q. QED
    BY <1>1, <2>1, <2>2, <2>3 DEF Sound, Claims, Sends, Files, Applies, Done
<1>6. Told(proc[p].action) /\ files.receipt[proc[p].action] \notin Outcomes
  BY <1>4 DEF IInv, Sound, Files, Holding, Working
<1>7. \A a \in Actions : proc[p].pc \in Working /\ a = proc[p].action => Told(a)'
  BY <1>6 DEF Told, Outcomes
<1>8. IsDisk(files')
  BY DEF IInv, Shapes
<1>q. QED
  BY <1>2, <1>3, <1>5, <1>7, <1>8, StepKeeps

LEMMA WriteKeeps == ASSUME IInv, NEW p \in Procs, Write(p) PROVE IInv'
<1>1. /\ proc[p].pc = "write" /\ UNCHANGED <<envelope, files>>
      /\ sent' = sent \cup {<<proc[p].run, proc[p].action>>}
      /\ applied' = applied \cup {<<proc[p].action, proc[p].n>>}
  BY DEF Write, Send, TakesHold, At
<1>2. IsProc(proc[p]) /\ Sound(proc[p])
  BY DEF IInv, Shapes
<1>3. PICK pc, n : /\ pc = IF ProvesAfter(Surface(p), proc[p].n) THEN "prove"
                           ELSE Approach(Surface(p), proc[p].n + 1)
                   /\ n = IF ProvesAfter(Surface(p), proc[p].n) THEN proc[p].n
                          ELSE proc[p].n + 1
  OBVIOUS
<1>4. PICK x : x = [[proc[p] EXCEPT !.tried = TRUE] EXCEPT !.pc = pc, !.n = n]
  OBVIOUS
<1>5. proc' = [Racing(Effect(p).at) EXCEPT ![p] = x]
  BY <1>3, <1>4 DEF Write, Onward, Attempted
<1>6. \/ pc = "prove" /\ n = proc[p].n
      \/ pc \in {"check", "write"} /\ n = proc[p].n + 1
  BY <1>3 DEF Approach
<1>7. n \in Nat
  BY <1>2, <1>6 DEF IsProc
<1>8. /\ IsProc(x) /\ x.pc = pc /\ x.run = proc[p].run /\ x.action = proc[p].action
      /\ x.n = n /\ x.tried /\ x.failed = proc[p].failed
  BY <1>1, <1>2, <1>4, <1>6, <1>7 DEF IsProc
<1>9. PICK a, k : a = proc[p].action /\ k = proc[p].n
  OBVIOUS
<1>10. ASSUME ~proc[p].failed PROVE Done(a, k)'
  <2>1. SUFFICES ASSUME NEW i \in 1 .. k PROVE <<a, i>> \in applied'
    BY DEF Done
  <2>2. Done(a, k - 1)
    BY <1>1, <1>2, <1>9, <1>10 DEF Sound, Applies
  <2>3. CASE i = k
    BY <1>1, <1>9, <2>3
  <2>4. CASE i # k
    <3>1. i \in 1 .. k - 1
      BY <1>2, <1>9, <2>1, <2>4 DEF IsProc
    <3>q. QED
      BY <1>1, <2>2, <3>1 DEF Done
  <2>q. QED
    BY <2>3, <2>4
<1>11. Applies(x)'
  <2>1. ~x.failed => Done(x.action, k)'
    BY <1>8, <1>9, <1>10
  <2>2. pc # "prove" => x.n - 1 = k
    BY <1>2, <1>6, <1>8, <1>9 DEF IsProc
  <2>3. pc = "prove" => x.n = k
    BY <1>6, <1>8, <1>9
  <2>q. QED
    BY <1>6, <1>8, <2>1, <2>2, <2>3 DEF Applies
<1>q. QED
  BY <1>1, <1>5, <1>6, <1>8, <1>11, SendKeeps

LEMMA WriteFailsKeeps == ASSUME IInv, NEW p \in Procs, WriteFails(p) PROVE IInv'
<1>1. /\ proc[p].pc = "write" /\ UNCHANGED <<envelope, files>>
      /\ sent' = sent \cup {<<proc[p].run, proc[p].action>>}
      /\ applied \subseteq applied'
  BY DEF WriteFails, Send, TakesHold, At
<1>2. PICK x : x = Fails(Attempted(p))
  OBVIOUS
<1>3. proc' = [Racing(Effect(p).at) EXCEPT ![p] = x]
  BY <1>2 DEF WriteFails
<1>4. IsProc(proc[p]) /\ proc[p].action \in Actions
  BY <1>1 DEF IInv, Shapes, IsProc
<1>5. /\ IsProc(x) /\ x.pc = "receipt" /\ x.run = proc[p].run
      /\ x.action = proc[p].action /\ x.tried /\ x.failed = TRUE
  BY <1>2, <1>4 DEF IsProc, Fails, Attempted
<1>6. Applies(x)'
  BY <1>5 DEF Applies
<1>q. QED
  BY <1>1, <1>3, <1>5, <1>6, SendKeeps
------------------------------------------------------------------------------
\* The receipt.
LEMMA ReceiptSteps ==
    ASSUME IInv, NEW p \in Procs, proc[p].pc \in Working, NEW next,
           proc' = [proc EXCEPT ![p] = next], IsProc(next),
           \/ next.pc = "idle"
           \/ /\ next.pc \in {"sign", "keepReceipt"} /\ next.run = proc[p].run
              /\ next.action = proc[p].action /\ next.tried = proc[p].tried,
           UNCHANGED <<envelope, sent, applied>>,
           IsDisk(files'), files'.operations = files.operations,
           \A k : <<"operation", k>> \in files'.unflushed => <<"operation", k>> \in files.unflushed,
           \A a \in Actions \ {proc[p].action} : files'.receipt[a] = files.receipt[a],
           Files(next)', Applies(next)',
           \A a \in Actions : a = proc[p].action => Told(a)'
    PROVE  IInv'
<1>1. Sound(proc[p]) /\ envelope[proc[p].action] # None /\ proc[p].pc \in Holding
  BY DEF IInv, Shapes, Holding, Working
<1>2. Steps(p) /\ proc'[p] = next
  <2>1. next.pc # "idle" => envelope[next.action] # None
    BY <1>1
  <2>2. next.pc \in Holding => proc[p].pc \in Holding /\ next.action = proc[p].action
    BY <1>1 DEF Holding, Working
  <2>q. QED
    BY <2>1, <2>2, AloneSteps
<1>3. Grows(p)
  BY DEF Grows
<1>4. Claims(next)' /\ Sends(next)'
  BY <1>1 DEF Sound, Claims, Sends, Holding, Working
<1>5. Sound(proc[p])'
  BY <1>2, <1>4 DEF Sound, Claims, Sends, Files, Applies, Done
<1>q. QED
  BY <1>2, <1>3, <1>5, StepKeeps

LEMMA OpenReceiptKeeps == ASSUME IInv, NEW p \in Procs, OpenReceipt(p) PROVE IInv'
<1>1. PICK x, a : x = [proc[p] EXCEPT !.pc = "sign"] /\ a = proc[p].action
  OBVIOUS
<1>2. /\ proc[p].pc = "receipt" /\ proc' = [proc EXCEPT ![p] = x]
      /\ UNCHANGED <<envelope, sent, applied>>
  BY <1>1 DEF OpenReceipt, At, Goto, history
<1>3. IsProc(proc[p]) /\ Sound(proc[p]) /\ a \in Actions
  BY <1>1, <1>2 DEF IInv, Shapes, IsProc
<1>4. /\ IsProc(x) /\ x.pc = "sign" /\ x.run = proc[p].run /\ x.action = a
      /\ x.tried = proc[p].tried /\ x.failed = proc[p].failed
  BY <1>1, <1>2, Going
<1>5. /\ IsDisk(files') /\ files'.operations = files.operations
      /\ files'.unflushed = files.unflushed \cup {<<"receipt", a>>}
      /\ files'.receipt[a] = "torn"
      /\ \A o \in Actions \ {a} : files'.receipt[o] = files.receipt[o]
  BY <1>1, <1>3 DEF IInv, Shapes, IsDisk, OpenReceipt
<1>6. \A k : <<"operation", k>> # <<"receipt", a>>
  OBVIOUS
<1>7. Files(x)'
  BY <1>4, <1>5 DEF Files, Outcomes
<1>8. Applies(x)'
  BY <1>1, <1>2, <1>3, <1>4 DEF Sound, Applies, Done
<1>9. Told(a)'
  BY <1>5 DEF Told, Outcomes
<1>q. QED
  BY <1>1, <1>2, <1>4, <1>5, <1>6, <1>7, <1>8, <1>9, ReceiptSteps DEF Working

\* The outcome that is filed is what the run knows: it sent nothing, or all
\* of its effects took hold, or it says that it does not know.
LEMMA SignReceiptKeeps == ASSUME IInv, NEW p \in Procs, SignReceipt(p) PROVE IInv'
<1>1. PICK x, a, r : /\ x = [proc[p] EXCEPT !.pc = "keepReceipt"] /\ a = proc[p].action
                     /\ r = OutcomeOf(p)
  OBVIOUS
<1>2. /\ proc[p].pc = "sign" /\ proc' = [proc EXCEPT ![p] = x]
      /\ UNCHANGED <<envelope, sent, applied>>
  BY <1>1 DEF SignReceipt, At, Goto, history
<1>3. /\ IsProc(proc[p]) /\ Sound(proc[p]) /\ a \in Actions /\ envelope[a] # None
  BY <1>1, <1>2 DEF IInv, Shapes, IsProc
<1>4. /\ IsProc(x) /\ x.pc = "keepReceipt" /\ x.run = proc[p].run /\ x.action = a
      /\ x.tried = proc[p].tried /\ x.failed = proc[p].failed
  BY <1>1, <1>2, Going
<1>5. /\ IsDisk(files') /\ files'.operations = files.operations
      /\ files'.unflushed = files.unflushed
      /\ files'.receipt[a] = r
      /\ \A o \in Actions \ {a} : files'.receipt[o] = files.receipt[o]
  BY <1>1, <1>3 DEF IInv, Shapes, IsDisk, SignReceipt
<1>6. Files(x)' /\ Applies(x)'
  BY <1>4 DEF Files, Applies
<1>7. Told(a)'
  <2>1. Secured(Key[a])'
    BY <1>1, <1>2, <1>3, <1>5 DEF Sound, Claims, Secured, Holding, Working
  <2>2. r = "failed_before_effect" => \A y \in sent' : y[2] # a
    BY <1>1, <1>2, <1>3 DEF OutcomeOf, Sound, Sends, Holding, Working
  <2>3. r = "succeeded" => Done(a, Len(envelope[a].plan))
    BY <1>1, <1>2, <1>3 DEF OutcomeOf, Sound, Applies
  <2>4. Done(a, Len(envelope[a].plan)) => Done(a, Len(envelope[a].plan))'
    BY <1>2 DEF Done
  <2>q. QED
    BY <1>2, <1>3, <1>5, <2>1, <2>2, <2>3, <2>4 DEF Told
<1>q. QED
  BY <1>1, <1>2, <1>4, <1>5, <1>6, <1>7, ReceiptSteps DEF Working

LEMMA KeepReceiptKeeps == ASSUME IInv, NEW p \in Procs, KeepReceipt(p) PROVE IInv'
<1>1. /\ proc[p].pc = "keepReceipt" /\ proc' = [proc EXCEPT ![p] = Idle]
      /\ UNCHANGED <<envelope, sent, applied>>
  BY DEF KeepReceipt, At, Stop, history
<1>2. /\ IsDisk(files') /\ files'.operations = files.operations
      /\ files'.unflushed \subseteq files.unflushed /\ files'.receipt = files.receipt
  BY DEF IInv, Shapes, IsDisk, KeepReceipt
<1>3. Files(Idle)' /\ Applies(Idle)'
  BY IdleIsSound DEF Files, Applies, Holding, Working
<1>4. \A a \in Actions : Told(a)'
  BY <1>1, <1>2 DEF IInv, Told, Done, Secured
<1>q. QED
  BY <1>1, <1>2, <1>3, <1>4, IdleIsSound, ReceiptSteps DEF Working

------------------------------------------------------------------------------
\* What happens around the runs.
LEMMA RacedKeeps ==
    ASSUME IInv, proc' = [q \in Procs |-> proc'[q]], \A q \in Procs : Like(proc'[q], proc[q]),
           UNCHANGED <<envelope, files, sent>>, applied \subseteq applied'
    PROVE  IInv'
<1>1. Shapes'
  BY DEF IInv, Shapes, Like
<1>2. ASSUME NEW q \in Procs PROVE Sound(proc[q])'
  <2>1. Sound(proc[q]) /\ Like(proc'[q], proc[q])
    BY DEF IInv
  <2>q. QED
    BY <2>1 DEF Like, Sound, Claims, Sends, Files, Applies, Done
<1>3. Apart'
  BY DEF IInv, Apart, Like
<1>4. \A a \in Actions : Told(a)'
  BY DEF IInv, Told, Done, Secured
<1>5. (\A x \in sent : Secured(Key[x[2]]))' /\ SpentOnce'
  BY DEF IInv, Secured, SpentOnce
<1>q. QED
  BY <1>1, <1>2, <1>3, <1>4, <1>5 DEF IInv

LEMMA EditKeeps == ASSUME IInv, NEW t, NEW v, Edit(t, v) PROVE IInv'
<1>1. proc' = Racing(t) /\ UNCHANGED <<envelope, files, sent, applied>>
  BY DEF Edit, history
<1>2. proc' = [q \in Procs |-> proc'[q]]
  BY <1>1 DEF Racing
<1>q. QED
  BY <1>1, <1>2, RacingLike, RacedKeeps

LEMMA LandKeeps == ASSUME IInv, NEW w, Land(w) PROVE IInv'
<1>1. proc' = Racing(w.at) /\ UNCHANGED <<envelope, files, sent>> /\ applied \subseteq applied'
  BY DEF Land
<1>2. proc' = [q \in Procs |-> proc'[q]]
  BY <1>1 DEF Racing
<1>q. QED
  BY <1>1, <1>2, RacingLike, RacedKeeps

\* An approval is signed once, and no run works under it before.
LEMMA ApproveKeeps ==
    ASSUME IInv, NEW a \in Actions, NEW s \in Surfaces, Approve(a, s)
    PROVE  IInv'
<1>1. /\ envelope[a] = None /\ UNCHANGED <<files, proc, sent, applied>>
      /\ envelope' = [envelope EXCEPT ![a] = [surface |-> s, plan |-> Rendered(s, page)]]
  BY DEF Approve, history
<1>2. \A o \in Actions \ {a} : envelope'[o] = envelope[o]
  BY <1>1 DEF IInv, Shapes
<1>3. \A p \in Procs : proc[p].pc # "idle" => proc[p].action \in Actions \ {a}
  BY <1>1 DEF IInv, Shapes, IsProc
<1>4. Shapes'
  BY <1>1, <1>2, <1>3 DEF IInv, Shapes
<1>5. ASSUME NEW p \in Procs PROVE Sound(proc[p])'
  BY <1>1, <1>2, <1>3 DEF IInv, Sound, Claims, Sends, Files, Applies, Done
<1>6. Apart'
  BY <1>1 DEF IInv, Apart
<1>7. ASSUME NEW o \in Actions PROVE Told(o)'
  <2>1. CASE o = a
    BY <1>1, <2>1 DEF IInv, Told, Outcomes
  <2>2. CASE o # a
    BY <1>1, <1>2, <2>2 DEF IInv, Told, Done, Secured
  <2>q. QED
    BY <2>1, <2>2
<1>8. (\A x \in sent : Secured(Key[x[2]]))' /\ SpentOnce'
  BY <1>1 DEF IInv, Secured, SpentOnce
<1>q. QED
  BY <1>4, <1>5, <1>6, <1>7, <1>8 DEF IInv

\* Power takes only what was not flushed: neither a key under which something
\* was sent, nor one of a receipt that was filed.
LEMMA PowerLossKeeps == ASSUME IInv, PowerLoss PROVE IInv'
<1>1. PICK lost \in SUBSET files.unflushed, cut \in {"none", "torn"} :
        files' = [ claims |-> {a \in files.claims : <<"claim", a>> \notin lost},
                   operations |-> {k \in files.operations : <<"operation", k>> \notin lost},
                   receipt |-> [a \in Actions |->
                       IF <<"receipt", a>> \in lost THEN cut ELSE files.receipt[a]],
                   unflushed |-> {} ]
  BY DEF PowerLoss
<1>2. /\ files'.operations = {k \in files.operations : <<"operation", k>> \notin lost}
      /\ files'.unflushed = {} /\ IsDisk(files')
      /\ \A a \in Actions : files'.receipt[a] = cut \/ files'.receipt[a] = files.receipt[a]
  BY <1>1 DEF IsDisk
<1>3. \A p \in Procs : proc'[p] = Idle
  BY DEF PowerLoss
<1>4. proc' = [p \in Procs |-> proc'[p]] /\ UNCHANGED <<envelope, sent, applied>>
  BY DEF PowerLoss
<1>5. ASSUME NEW k, Secured(k) PROVE Secured(k)'
  BY <1>2, <1>5 DEF Secured
<1>6. Shapes'
  BY <1>2, <1>3, <1>4, IdleIsSound DEF IInv, Shapes
<1>7. ASSUME NEW p \in Procs PROVE Sound(proc[p])'
  BY <1>3, IdleIsSound DEF Sound, Claims, Sends, Files, Applies, Holding, Working
<1>8. Apart'
  BY <1>3, IdleIsSound DEF Apart, Holding, Working
<1>9. ASSUME NEW a \in Actions PROVE Told(a)'
  <2>1. Told(a)
    BY DEF IInv
  <2>2. Done(a, Len(envelope[a].plan)) => Done(a, Len(envelope[a].plan))'
    BY <1>4 DEF Done
  <2>q. QED
    BY <1>2, <1>4, <1>5, <2>1, <2>2 DEF Told, Outcomes
<1>10. (\A x \in sent : Secured(Key[x[2]]))' /\ SpentOnce'
  BY <1>4, <1>5 DEF IInv, SpentOnce
<1>q. QED
  BY <1>6, <1>7, <1>8, <1>9, <1>10 DEF IInv

------------------------------------------------------------------------------
LEMMA NextKeeps == ASSUME IInv, [Next]_vars PROVE IInv'
<1>1. ASSUME NEW p \in Procs, Advance(p) PROVE IInv'
  BY <1>1, RecheckKeeps, ClaimKeeps, ClaimOperationKeeps, KeepOperationKeeps, RefusedKeeps,
     CheckKeeps, WriteKeeps, WriteFailsKeeps, ProveKeeps, ReadFailsKeeps,
     OpenReceiptKeeps, SignReceiptKeeps, KeepReceiptKeeps DEF Advance
<1>2. ASSUME NEW p \in Procs, Dies(p) PROVE IInv'
  BY <1>2, StopKeeps DEF Dies
<1>3. ASSUME UNCHANGED vars PROVE IInv'
  <2>1. \A q \in Procs : Like(proc'[q], proc[q])
    BY <1>3, LikeItself DEF vars, IInv, Shapes
  <2>2. proc' = [q \in Procs |-> proc'[q]]
    BY <1>3 DEF vars, IInv, Shapes
  <2>q. QED
    BY <1>3, <2>1, <2>2, RacedKeeps DEF vars, history
<1>q. QED
  BY <1>1, <1>2, <1>3, BeginKeeps, ApproveKeeps, EditKeeps, LandKeeps, PowerLossKeeps DEF Next

(***************************************************************************)
(* Invariance: the inductive invariant holds in every reachable state.     *)
(* SpentOnce and ReceiptsTellTheTruth rest on who holds a provider key:    *)
(* one run, which knows what it sent, behind a claim that was flushed      *)
(* before its first request (irreversible-action.ts).                      *)
(***************************************************************************)
THEOREM Invariance == Spec => []IInv
<1>1. Init => IInv
  BY InitIsSound
<1>2. IInv /\ [Next]_vars => IInv'
  BY NextKeeps
<1>q. QED
  BY <1>1, <1>2, PTL DEF Spec

(***************************************************************************)
(* KeysAreSpentOnce: of all runs at most one ever sends an effect under a  *)
(* provider key (claimEnvelope).                                           *)
(***************************************************************************)
THEOREM KeysAreSpentOnce == Spec => []SpentOnce
<1>1. IInv => SpentOnce
  BY DEF IInv
<1>q. QED
  BY <1>1, Invariance, PTL

(***************************************************************************)
(* ReceiptsAreTrue: a receipt that claims that nothing was sent, or that   *)
(* everything took hold, is right (createClaimedActionFailureRecorder).    *)
(***************************************************************************)
THEOREM ReceiptsAreTrue == Spec => []ReceiptsTellTheTruth
<1>1. IInv => ReceiptsTellTheTruth
  BY DEF IInv, Told, Done, ReceiptsTellTheTruth
<1>q. QED
  BY <1>1, Invariance, PTL

------------------------------------------------------------------------------
(***************************************************************************)
(* ReceiptFollows: while a run that sent something works, it is on its way *)
(* to a receipt; what it filed is flushed or it is still there to do so.   *)
(***************************************************************************)
Followed(x) ==
    \/ files.receipt[x[2]] \in Outcomes \/ x[2] \in abandoned
    \/ \E p \in Procs : /\ proc[p].pc \in Working
                        /\ proc[p].run = x[1] /\ proc[p].action = x[2]

Filed(a) ==
    files.receipt[a] \in Outcomes /\ <<"receipt", a>> \in files.unflushed =>
        \/ a \in abandoned
        \/ \E p \in Procs : proc[p].pc = "keepReceipt" /\ proc[p].action = a

Signed(x) ==
    x.pc = "keepReceipt" => files.receipt[x.action] \in Outcomes \/ x.action \in abandoned

RInv ==
    /\ \A x \in sent : Followed(x)
    /\ \A a \in Actions : Filed(a)
    /\ \A p \in Procs : Signed(proc[p])

\* What a step of p has to show for it.
LEMMA StepFollows ==
    ASSUME RInv, NEW p \in Procs,
           \A q \in Procs \ {p} : Like(proc'[q], proc[q]),
           abandoned \subseteq abandoned',
           \A x \in sent' : \/ x \in sent
                            \/ /\ proc'[p].pc \in Working
                               /\ x = <<proc'[p].run, proc'[p].action>>,
           proc[p].pc \in Working =>
               \/ proc[p].action \in abandoned'
               \/ files'.receipt[proc[p].action] \in Outcomes
               \/ /\ proc'[p].pc \in Working /\ proc'[p].run = proc[p].run
                  /\ proc'[p].action = proc[p].action,
           \A a : files.receipt[a] \in Outcomes => files'.receipt[a] \in Outcomes,
           \A a \in Actions :
               files'.receipt[a] \in Outcomes /\ <<"receipt", a>> \in files'.unflushed =>
                   \/ /\ files.receipt[a] \in Outcomes /\ <<"receipt", a>> \in files.unflushed
                      /\ ~(proc[p].pc = "keepReceipt" /\ proc[p].action = a)
                   \/ a \in abandoned'
                   \/ proc'[p].pc = "keepReceipt" /\ proc'[p].action = a,
           Signed(proc[p])'
    PROVE  RInv'
<1>1. ASSUME NEW x \in sent' PROVE Followed(x)'
  <2>1. CASE x \in sent
    <3>1. Followed(x)
      BY <2>1 DEF RInv
    <3>2. CASE files.receipt[x[2]] \in Outcomes \/ x[2] \in abandoned
      BY <3>2 DEF Followed
    <3>3. CASE \E q \in Procs : /\ proc[q].pc \in Working
                                /\ proc[q].run = x[1] /\ proc[q].action = x[2]
      <4>1. PICK q \in Procs : /\ proc[q].pc \in Working
                               /\ proc[q].run = x[1] /\ proc[q].action = x[2]
        BY <3>3
      <4>2. CASE q = p
        BY <4>1, <4>2 DEF Followed
      <4>3. CASE q # p
        BY <4>1, <4>3 DEF Followed, Like
      <4>q. QED
        BY <4>2, <4>3
    <3>q. QED
      BY <3>1, <3>2, <3>3 DEF Followed
  <2>2. CASE x \notin sent
    <3>1. proc'[p].pc \in Working /\ proc'[p].run = x[1] /\ proc'[p].action = x[2]
      BY <2>2
    <3>q. QED
      BY <3>1 DEF Followed
  <2>q. QED
    BY <2>1, <2>2
<1>2. ASSUME NEW a \in Actions PROVE Filed(a)'
  <2>1. SUFFICES ASSUME files'.receipt[a] \in Outcomes, <<"receipt", a>> \in files'.unflushed,
                        a \notin abandoned',
                        ~(proc'[p].pc = "keepReceipt" /\ proc'[p].action = a)
                 PROVE  \E q \in Procs : proc'[q].pc = "keepReceipt" /\ proc'[q].action = a
    BY DEF Filed
  <2>2. /\ files.receipt[a] \in Outcomes /\ <<"receipt", a>> \in files.unflushed
        /\ ~(proc[p].pc = "keepReceipt" /\ proc[p].action = a)
    BY <2>1
  <2>3. PICK q \in Procs : proc[q].pc = "keepReceipt" /\ proc[q].action = a
    BY <2>1, <2>2 DEF RInv, Filed
  <2>q. QED
    BY <2>2, <2>3 DEF Like
<1>3. ASSUME NEW q \in Procs PROVE Signed(proc[q])'
  <2>1. CASE q = p
    BY <2>1
  <2>2. CASE q # p
    BY <2>2 DEF RInv, Signed, Like
  <2>q. QED
    BY <2>1, <2>2
<1>q. QED
  BY <1>1, <1>2, <1>3 DEF RInv

\* A step of p that files nothing and, if p works, lets it work on.
LEMMA QuietFollows ==
    ASSUME IInv, RInv, NEW p \in Procs, NEW next,
           proc' = [proc EXCEPT ![p] = next],
           proc[p].pc # "keepReceipt", next.pc # "keepReceipt",
           proc[p].pc \in Working =>
               next.pc \in Working /\ next.run = proc[p].run /\ next.action = proc[p].action,
           UNCHANGED <<sent, abandoned>>, files'.receipt = files.receipt,
           \A a : <<"receipt", a>> \in files'.unflushed => <<"receipt", a>> \in files.unflushed
    PROVE  RInv'
<1>1. proc'[p] = next /\ \A q \in Procs \ {p} : proc'[q] = proc[q]
  BY DEF IInv, Shapes
<1>2. \A q \in Procs \ {p} : Like(proc'[q], proc[q])
  BY <1>1, LikeItself DEF IInv, Shapes
<1>3. Signed(proc[p])'
  BY <1>1 DEF Signed
<1>q. QED
  BY <1>1, <1>2, <1>3, StepFollows

\* Up to its first effect a run has sent nothing.
LEMMA EarlyFollows ==
    ASSUME IInv, RInv, NEW p \in Procs,
           \/ Recheck(p) \/ Claim(p) \/ KeepClaim(p) \/ ClaimOperation(p)
           \/ KeepOperation(p) \/ Refused(p) \/ \E a \in Actions : Begin(p, a)
    PROVE  RInv'
<1>1. UNCHANGED <<sent, abandoned>>
  BY DEF Recheck, Claim, KeepClaim, ClaimOperation, KeepOperation, Refused, Begin, history
<1>2. proc[p].pc \notin Working
  BY DEF Recheck, Claim, KeepClaim, ClaimOperation, KeepOperation, Refused, Begin, At, Working
<1>3. /\ files'.receipt = files.receipt
      /\ \A a : <<"receipt", a>> \in files'.unflushed => <<"receipt", a>> \in files.unflushed
  <2>1. CASE UNCHANGED files
    BY <2>1
  <2>2. CASE Claim(p)
    <3>1. /\ files'.receipt = files.receipt
          /\ files'.unflushed = files.unflushed \cup {<<"claim", proc[p].action>>}
      BY <2>2 DEF IInv, Shapes, IsDisk, Claim
    <3>2. \A a : <<"receipt", a>> # <<"claim", proc[p].action>>
      OBVIOUS
    <3>q. QED
      BY <3>1, <3>2
  <2>3. CASE KeepClaim(p)
    <3>1. /\ files'.receipt = files.receipt
          /\ files'.unflushed = files.unflushed \ {<<"claim", proc[p].action>>}
      BY <2>3 DEF IInv, Shapes, IsDisk, KeepClaim
    <3>q. QED
      BY <3>1
  <2>4. CASE ClaimOperation(p)
    <3>1. /\ files'.receipt = files.receipt
          /\ files'.unflushed = files.unflushed \cup {<<"operation", Key[proc[p].action]>>}
      BY <2>4 DEF IInv, Shapes, IsDisk, ClaimOperation
    <3>2. \A a : <<"receipt", a>> # <<"operation", Key[proc[p].action]>>
      OBVIOUS
    <3>q. QED
      BY <3>1, <3>2
  <2>5. CASE KeepOperation(p)
    <3>1. /\ files'.receipt = files.receipt
          /\ files'.unflushed = files.unflushed \ {<<"operation", Key[proc[p].action]>>}
      BY <2>5 DEF IInv, Shapes, IsDisk, KeepOperation
    <3>q. QED
      BY <3>1
  <2>q. QED
    BY <2>1, <2>2, <2>3, <2>4, <2>5 DEF Recheck, Refused, Begin
<1>4. \E next : proc' = [proc EXCEPT ![p] = next] /\ next.pc # "keepReceipt"
  <2>1. CASE \E pc \in {"claim", "keepClaim", "operation", "keepOperation"} : Goto(p, pc)
    <3>1. PICK pc \in {"claim", "keepClaim", "operation", "keepOperation"} : Goto(p, pc)
      BY <2>1
    <3>2. PICK x : x = [proc[p] EXCEPT !.pc = pc]
      OBVIOUS
    <3>3. x.pc = pc
      BY <3>2 DEF IInv, Shapes, IsProc
    <3>q. QED
      BY <3>1, <3>2, <3>3 DEF Goto
  <2>2. CASE Stop(p)
    BY <2>2, IdleIsSound DEF Stop
  <2>3. CASE KeepOperation(p)
    <3>1. PICK pc, x : /\ pc = Approach(Surface(p), 1)
                       /\ x = [proc[p] EXCEPT !.pc = pc, !.n = 1]
      OBVIOUS
    <3>2. x.pc = pc /\ pc # "keepReceipt"
      BY <3>1 DEF IInv, Shapes, IsProc, Approach
    <3>q. QED
      BY <2>3, <3>1, <3>2 DEF KeepOperation
  <2>4. ASSUME NEW a \in Actions, Begin(p, a)
        PROVE  \E next : proc' = [proc EXCEPT ![p] = next] /\ next.pc # "keepReceipt"
    <3>1. PICK pc : pc = IF envelope[a].surface = "migrate" THEN "recheck" ELSE "claim"
      OBVIOUS
    <3>2. PICK x : x = [Idle EXCEPT !.pc = pc, !.run = runs + 1, !.action = a]
      OBVIOUS
    <3>3. x.pc = pc /\ pc # "keepReceipt"
      BY <3>1, <3>2 DEF Idle
    <3>4. proc' = [proc EXCEPT ![p] = x]
      BY <2>4, <3>1, <3>2 DEF Begin
    <3>q. QED
      BY <3>3, <3>4
  <2>q. QED
    BY <2>1, <2>2, <2>3, <2>4 DEF Recheck, Claim, KeepClaim, ClaimOperation, Refused
<1>q. QED
  BY <1>1, <1>2, <1>3, <1>4, QuietFollows DEF Working

\* Comparisons and readbacks lead on or to the receipt.
LEMMA ReadingFollows ==
    ASSUME IInv, RInv, NEW p \in Procs, Check(p) \/ Prove(p) \/ ReadFails(p)
    PROVE  RInv'
<1>1. UNCHANGED <<files, sent, abandoned>> /\ proc[p].pc \in {"check", "prove"}
  BY DEF Check, Prove, ReadFails, At, history
<1>2. IsProc(proc[p])
  BY DEF IInv, Shapes
<1>3. \E next : /\ proc' = [proc EXCEPT ![p] = next]
                /\ next.pc \in {"check", "write", "receipt"}
                /\ next.run = proc[p].run /\ next.action = proc[p].action
  <2>1. CASE proc' = [proc EXCEPT ![p] = Fails(proc[p])]
    BY <1>1, <2>1, FailLike DEF Working
  <2>2. CASE proc' = [proc EXCEPT ![p] = [proc[p] EXCEPT !.pc = "write", !.raced = FALSE]]
    <3>1. PICK x : x = [proc[p] EXCEPT !.pc = "write", !.raced = FALSE]
      OBVIOUS
    <3>2. x.pc = "write" /\ x.run = proc[p].run /\ x.action = proc[p].action
      BY <1>2, <3>1 DEF IsProc
    <3>q. QED
      BY <2>2, <3>1, <3>2
  <2>3. CASE proc' = [proc EXCEPT ![p] = [proc[p] EXCEPT !.pc = "receipt"]]
    <3>1. PICK x : x = [proc[p] EXCEPT !.pc = "receipt"]
      OBVIOUS
    <3>2. x.pc = "receipt" /\ x.run = proc[p].run /\ x.action = proc[p].action
      BY <1>2, <3>1 DEF IsProc
    <3>q. QED
      BY <2>3, <3>1, <3>2
  <2>4. CASE proc' = [proc EXCEPT ![p] = [proc[p] EXCEPT
                !.pc = Approach(Surface(p), proc[p].n + 1), !.n = proc[p].n + 1]]
    <3>1. PICK pc : pc = Approach(Surface(p), proc[p].n + 1)
      OBVIOUS
    <3>2. PICK x : x = [proc[p] EXCEPT !.pc = pc, !.n = proc[p].n + 1]
      OBVIOUS
    <3>3. x.pc = pc /\ x.run = proc[p].run /\ x.action = proc[p].action
      BY <1>2, <3>2 DEF IsProc
    <3>4. pc \in {"check", "write"}
      BY <3>1 DEF Approach
    <3>q. QED
      BY <2>4, <3>1, <3>2, <3>3, <3>4
  <2>q. QED
    BY <2>1, <2>2, <2>3, <2>4 DEF Check, Prove, ReadFails
<1>4. PICK next : /\ proc' = [proc EXCEPT ![p] = next]
                  /\ next.pc \in {"check", "write", "receipt"}
                  /\ next.run = proc[p].run /\ next.action = proc[p].action
  BY <1>3
<1>q. QED
  BY <1>1, <1>4, QuietFollows DEF Working

\* What a request leaves of the process that sent it.
LEMMA SendMoves ==
    ASSUME IInv, NEW p \in Procs, Write(p) \/ WriteFails(p)
    PROVE  /\ proc[p].pc = "write"
           /\ proc'[p].pc \in {"check", "write", "prove", "receipt"}
           /\ proc'[p].run = proc[p].run /\ proc'[p].action = proc[p].action
           /\ \A q \in Procs \ {p} : proc'[q] = Racing(Effect(p).at)[q]
           /\ proc' = [q \in Procs |-> proc'[q]]
<1>1. proc[p].pc = "write" /\ IsProc(proc[p])
  BY DEF Write, WriteFails, Send, At, IInv, Shapes
<1>2. PICK x : /\ proc' = [Racing(Effect(p).at) EXCEPT ![p] = x]
               /\ x = Onward(p) \/ x = Fails(Attempted(p))
  BY DEF Write, WriteFails
<1>3. proc'[p] = x /\ \A q \in Procs \ {p} : proc'[q] = Racing(Effect(p).at)[q]
  BY <1>2 DEF Racing
<1>4. proc' = [q \in Procs |-> proc'[q]]
  BY <1>2 DEF Racing
<1>5. CASE x = Onward(p)
  <2>1. PICK pc, n : /\ pc = IF ProvesAfter(Surface(p), proc[p].n) THEN "prove"
                             ELSE Approach(Surface(p), proc[p].n + 1)
                     /\ n = IF ProvesAfter(Surface(p), proc[p].n) THEN proc[p].n
                            ELSE proc[p].n + 1
    OBVIOUS
  <2>2. x = [[proc[p] EXCEPT !.tried = TRUE] EXCEPT !.pc = pc, !.n = n]
    BY <1>5, <2>1 DEF Onward, Attempted
  <2>3. pc \in {"check", "write", "prove"}
    BY <2>1 DEF Approach
  <2>4. x.pc = pc /\ x.run = proc[p].run /\ x.action = proc[p].action
    BY <1>1, <2>2 DEF IsProc
  <2>q. QED
    BY <1>1, <1>3, <1>4, <2>3, <2>4
<1>6. CASE x = Fails(Attempted(p))
  <2>1. x.pc = "receipt" /\ x.run = proc[p].run /\ x.action = proc[p].action
    BY <1>1, <1>6 DEF IsProc, Fails, Attempted
  <2>q. QED
    BY <1>1, <1>3, <1>4, <2>1
<1>q. QED
  BY <1>2, <1>5, <1>6

LEMMA SendFollows == ASSUME IInv, RInv, NEW p \in Procs, Write(p) \/ WriteFails(p) PROVE RInv'
<1>1. UNCHANGED <<files, abandoned>> /\ sent' = sent \cup {<<proc[p].run, proc[p].action>>}
  BY DEF Write, WriteFails, Send
<1>2. /\ proc[p].pc = "write"
      /\ proc'[p].pc \in {"check", "write", "prove", "receipt"}
      /\ proc'[p].run = proc[p].run /\ proc'[p].action = proc[p].action
      /\ \A q \in Procs \ {p} : proc'[q] = Racing(Effect(p).at)[q]
  BY SendMoves
<1>3. \A q \in Procs \ {p} : Like(proc'[q], proc[q])
  BY <1>2, RacingLike
<1>4. Signed(proc[p])'
  BY <1>2 DEF Signed
<1>5. proc'[p].pc \in Working /\ proc[p].pc # "keepReceipt"
  BY <1>2 DEF Working
<1>q. QED
  BY <1>1, <1>2, <1>3, <1>4, <1>5, StepFollows

\* A receipt is opened, signed and flushed, in this order.
LEMMA OpenReceiptFollows == ASSUME IInv, RInv, NEW p \in Procs, OpenReceipt(p) PROVE RInv'
<1>1. PICK x, a : x = [proc[p] EXCEPT !.pc = "sign"] /\ a = proc[p].action
  OBVIOUS
<1>2. /\ proc[p].pc = "receipt" /\ proc' = [proc EXCEPT ![p] = x]
      /\ UNCHANGED <<sent, abandoned>> /\ files.receipt[a] = "none"
  BY <1>1 DEF OpenReceipt, At, Goto, history
<1>3. IsProc(proc[p]) /\ a \in Actions
  BY <1>1, <1>2 DEF IInv, Shapes, IsProc
<1>4. x.pc = "sign" /\ x.run = proc[p].run /\ x.action = a
  BY <1>1, <1>3 DEF IsProc
<1>5. proc'[p] = x /\ \A q \in Procs \ {p} : proc'[q] = proc[q]
  BY <1>2 DEF IInv, Shapes
<1>6. \A q \in Procs \ {p} : Like(proc'[q], proc[q])
  BY <1>5, LikeItself DEF IInv, Shapes
<1>7. /\ files'.unflushed = files.unflushed \cup {<<"receipt", a>>}
      /\ files'.receipt = [files.receipt EXCEPT ![a] = "torn"]
  BY <1>1 DEF IInv, Shapes, IsDisk, OpenReceipt
<1>8. /\ files'.receipt[a] = "torn"
      /\ \A b : b # a => files'.receipt[b] = files.receipt[b]
  BY <1>3, <1>7 DEF IInv, Shapes, IsDisk
<1>9. \A b : b # a /\ <<"receipt", b>> \in files'.unflushed => <<"receipt", b>> \in files.unflushed
  BY <1>7
<1>10. Signed(proc[p])'
  BY <1>4, <1>5 DEF Signed
<1>11. "none" \notin Outcomes /\ "torn" \notin Outcomes
  BY DEF Outcomes
<1>q. QED
  BY <1>1, <1>2, <1>4, <1>5, <1>6, <1>8, <1>9, <1>10, <1>11, StepFollows DEF Working

LEMMA SignReceiptFollows == ASSUME IInv, RInv, NEW p \in Procs, SignReceipt(p) PROVE RInv'
<1>1. PICK x, a, r : /\ x = [proc[p] EXCEPT !.pc = "keepReceipt"] /\ a = proc[p].action
                     /\ r = OutcomeOf(p)
  OBVIOUS
<1>2. /\ proc[p].pc = "sign" /\ proc' = [proc EXCEPT ![p] = x]
      /\ UNCHANGED <<sent, abandoned>>
  BY <1>1 DEF SignReceipt, At, Goto, history
<1>3. IsProc(proc[p]) /\ a \in Actions
  BY <1>1, <1>2 DEF IInv, Shapes, IsProc
<1>4. x.pc = "keepReceipt" /\ x.run = proc[p].run /\ x.action = a
  BY <1>1, <1>3 DEF IsProc
<1>5. proc'[p] = x /\ \A q \in Procs \ {p} : proc'[q] = proc[q]
  BY <1>2 DEF IInv, Shapes
<1>6. \A q \in Procs \ {p} : Like(proc'[q], proc[q])
  BY <1>5, LikeItself DEF IInv, Shapes
<1>7. /\ files'.unflushed = files.unflushed
      /\ files'.receipt = [files.receipt EXCEPT ![a] = r]
  BY <1>1 DEF IInv, Shapes, IsDisk, SignReceipt
<1>8. /\ files'.receipt[a] = r /\ r \in Outcomes
      /\ \A b : b # a => files'.receipt[b] = files.receipt[b]
  BY <1>1, <1>3, <1>7 DEF IInv, Shapes, IsDisk, OutcomeOf, Outcomes
<1>9. Signed(proc[p])'
  BY <1>4, <1>5, <1>8 DEF Signed
<1>q. QED
  BY <1>1, <1>2, <1>4, <1>5, <1>6, <1>7, <1>8, <1>9, StepFollows, ZenonT(60) DEF Working

\* ... and the run is over, its receipt filed.
LEMMA KeepReceiptFollows == ASSUME IInv, RInv, NEW p \in Procs, KeepReceipt(p) PROVE RInv'
<1>1. PICK a : a = proc[p].action
  OBVIOUS
<1>2. /\ proc[p].pc = "keepReceipt" /\ proc' = [proc EXCEPT ![p] = Idle]
      /\ UNCHANGED <<sent, abandoned>>
  BY DEF KeepReceipt, At, Stop, history
<1>3. files.receipt[a] \in Outcomes \/ a \in abandoned
  BY <1>1, <1>2 DEF RInv, Signed
<1>4. proc'[p] = Idle /\ \A q \in Procs \ {p} : proc'[q] = proc[q]
  BY <1>2 DEF IInv, Shapes
<1>5. \A q \in Procs \ {p} : Like(proc'[q], proc[q])
  BY <1>4, LikeItself DEF IInv, Shapes
<1>6. /\ files'.unflushed = files.unflushed \ {<<"receipt", a>>}
      /\ files'.receipt = files.receipt
  BY <1>1 DEF IInv, Shapes, IsDisk, KeepReceipt
<1>7. Signed(proc[p])'
  BY <1>4, IdleIsSound DEF Signed
<1>8. \A b : <<"receipt", b>> \in files'.unflushed => /\ <<"receipt", b>> \in files.unflushed
                                                     /\ b # a
  BY <1>6
<1>q. QED
  BY <1>1, <1>2, <1>3, <1>4, <1>5, <1>6, <1>7, <1>8, StepFollows

\* Who dies or loses power is excused, and what power takes was unflushed.
LEMMA DiesFollows == ASSUME IInv, RInv, NEW p \in Procs, Dies(p) PROVE RInv'
<1>1. /\ proc' = [proc EXCEPT ![p] = Idle] /\ UNCHANGED <<sent, files>>
      /\ abandoned' = abandoned \cup {proc[p].action}
  BY DEF Dies, Stop
<1>2. proc'[p] = Idle /\ \A q \in Procs \ {p} : proc'[q] = proc[q]
  BY <1>1 DEF IInv, Shapes
<1>3. \A q \in Procs \ {p} : Like(proc'[q], proc[q])
  BY <1>2, LikeItself DEF IInv, Shapes
<1>4. Signed(proc[p])'
  BY <1>2, IdleIsSound DEF Signed
<1>q. QED
  BY <1>1, <1>2, <1>3, <1>4, StepFollows

LEMMA PowerLossFollows == ASSUME IInv, RInv, PowerLoss PROVE RInv'
<1>1. PICK lost \in SUBSET files.unflushed, cut \in {"none", "torn"} :
        files' = [ claims |-> {a \in files.claims : <<"claim", a>> \notin lost},
                   operations |-> {k \in files.operations : <<"operation", k>> \notin lost},
                   receipt |-> [a \in Actions |->
                       IF <<"receipt", a>> \in lost THEN cut ELSE files.receipt[a]],
                   unflushed |-> {} ]
  BY DEF PowerLoss
<1>2. /\ files'.unflushed = {}
      /\ \A a \in Actions : <<"receipt", a>> \notin files.unflushed =>
           files'.receipt[a] = files.receipt[a]
  BY <1>1
<1>3. /\ \A p \in Procs : proc'[p].pc = "idle"
      /\ sent' = sent /\ abandoned \subseteq abandoned'
      /\ \A p \in Procs : proc[p].pc # "idle" => proc[p].action \in abandoned'
  BY IdleIsSound DEF PowerLoss, At
<1>4. ASSUME NEW x \in sent PROVE Followed(x)'
  <2>1. x[2] \in Actions
    BY DEF IInv, Shapes
  <2>2. CASE \E p \in Procs : proc[p].pc \in Working /\ proc[p].action = x[2]
    BY <1>3, <2>2 DEF Followed, Working
  <2>3. CASE files.receipt[x[2]] \in Outcomes /\ <<"receipt", x[2]>> \notin files.unflushed
    BY <1>2, <2>1, <2>3 DEF Followed
  <2>4. CASE files.receipt[x[2]] \in Outcomes /\ <<"receipt", x[2]>> \in files.unflushed
    BY <1>3, <2>1, <2>4 DEF RInv, Filed, Followed
  <2>5. CASE x[2] \in abandoned
    BY <1>3, <2>5 DEF Followed
  <2>q. QED
    BY <2>2, <2>3, <2>4, <2>5 DEF RInv, Followed
<1>5. \A a \in Actions : Filed(a)'
  BY <1>2 DEF Filed
<1>6. \A p \in Procs : Signed(proc[p])'
  BY <1>3 DEF Signed
<1>q. QED
  BY <1>3, <1>4, <1>5, <1>6 DEF RInv

LEMMA AroundFollows ==
    ASSUME IInv, RInv,
           \/ \E a \in Actions, s \in Surfaces : Approve(a, s)
           \/ \E t \in Targets, v \in Edits : Edit(t, v)
           \/ \E w \in late : Land(w)
           \/ UNCHANGED vars
    PROVE  RInv'
<1>1. UNCHANGED <<files, sent, abandoned>>
  BY DEF Approve, Edit, Land, vars, history
<1>2. UNCHANGED proc \/ \E t : proc' = Racing(t)
  BY DEF Approve, Edit, Land, vars
<1>3. ASSUME NEW q \in Procs
      PROVE  /\ proc'[q].pc = proc[q].pc /\ proc'[q].run = proc[q].run
             /\ proc'[q].action = proc[q].action
  BY <1>2, RacingLike DEF Like
<1>q. QED
  BY <1>1, <1>3 DEF RInv, Followed, Filed, Signed

LEMMA NextFollows == ASSUME IInv, RInv, [Next]_vars PROVE RInv'
<1>1. ASSUME NEW p \in Procs, Advance(p) PROVE RInv'
  BY <1>1, EarlyFollows, ReadingFollows, SendFollows, OpenReceiptFollows, SignReceiptFollows,
     KeepReceiptFollows DEF Advance
<1>q. QED
  BY <1>1, EarlyFollows, DiesFollows, PowerLossFollows, AroundFollows DEF Next

(***************************************************************************)
(* EveryRunIsAccountedFor: a run that sent an effect and did not die ends  *)
(* with a receipt, whatever failed on the way; what it filed is not lost   *)
(* with the power once it is over (createClaimedActionFailureRecorder).    *)
(***************************************************************************)
THEOREM EveryRunIsAccountedFor == Spec => []ReceiptFollows
<1>1. Init => IInv /\ RInv
  BY InitIsSound, IdleIsSound DEF Init, RInv, Filed, Signed, Outcomes
<1>2. IInv /\ RInv /\ [Next]_vars => (IInv /\ RInv)'
  BY NextKeeps, NextFollows
<1>3. RInv => ReceiptFollows
  BY DEF RInv, Followed, ReceiptFollows
<1>q. QED
  BY <1>1, <1>2, <1>3, PTL DEF Spec

------------------------------------------------------------------------------
(***************************************************************************)
(* NothingBlind: a plan follows the changes of its surface, and what a run *)
(* has compared is still there unless somebody raced it.                   *)
(***************************************************************************)
Follows(e) ==
    /\ e.surface \in Surfaces
    /\ e.plan = [i \in 1 .. Len(Changes[e.surface]) |-> e.plan[i]]
    /\ \A i \in 1 .. Len(Changes[e.surface]) :
         e.plan[i].at = Changes[e.surface][i].at /\ e.plan[i].to = Changes[e.surface][i].to

AtHand(x) ==
    x.pc \in {"check", "write", "prove"} =>
        x.n \in 1 .. Len(Changes[envelope[x.action].surface])

Compared(x) ==
    LET e == envelope[x.action] IN
    x.pc = "write" /\ Checked(e.surface, x.n) /\ ~x.raced =>
        page[e.plan[x.n].at] = e.plan[x.n].from

PInv ==
    /\ page = [t \in Targets |-> page[t]]
    /\ \A a \in Actions : envelope[a] # None => Follows(envelope[a])
    /\ \A p \in Procs : AtHand(proc[p]) /\ Compared(proc[p])
    /\ blind = {}

LEMMA ChangesAreTargets ==
    ASSUME NEW s \in Surfaces
    PROVE  /\ Len(Changes[s]) \in Nat \ {0} /\ DOMAIN Changes[s] = 1 .. Len(Changes[s])
           /\ \A i \in 1 .. Len(Changes[s]) :
                Changes[s][i].at \in Targets /\ Changes[s][i].to \in Values
<1>1. Changes[s] \in Seq([at : Targets, to : Values]) /\ Len(Changes[s]) > 0
  BY ChangesAssumption
<1>2. PICK n \in Nat : n = Len(Changes[s])
  BY <1>1
<1>3. \A i \in 1 .. n : Changes[s][i] \in [at : Targets, to : Values]
  <2>1. PICK S, c : S = [at : Targets, to : Values] /\ c = Changes[s]
    OBVIOUS
  <2>2. c \in Seq(S) /\ Len(c) = n
    BY <1>1, <1>2, <2>1
  <2>3. \A i \in 1 .. n : c[i] \in S
    BY <2>2
  <2>q. QED
    BY <2>1, <2>3
<1>4. DOMAIN Changes[s] = 1 .. n /\ n # 0
  BY <1>1, <1>2
<1>5. ASSUME NEW i \in 1 .. n PROVE Changes[s][i].at \in Targets /\ Changes[s][i].to \in Values
  BY <1>3
<1>q. QED
  BY <1>2, <1>4, <1>5

\* A working run has a plan that follows its surface's changes.
LEMMA PlanFollows ==
    ASSUME IInv, PInv, NEW p \in Procs, proc[p].pc # "idle"
    PROVE  /\ proc[p].action \in Actions /\ Follows(envelope[proc[p].action])
           /\ Surface(p) \in Surfaces /\ Len(Plan(p)) = Len(Changes[Surface(p)])
<1>1. proc[p].action \in Actions /\ envelope[proc[p].action] # None
  BY DEF IInv, Shapes, IsProc
<1>2. Follows(envelope[proc[p].action])
  BY <1>1 DEF PInv
<1>3. PICK e : e = envelope[proc[p].action]
  OBVIOUS
<1>4. /\ e.surface \in Surfaces
      /\ e.plan = [i \in 1 .. Len(Changes[e.surface]) |-> e.plan[i]]
  BY <1>2, <1>3, Zenon DEF Follows
<1>5. Len(Changes[e.surface]) \in Nat
  BY <1>4, ChangesAreTargets
<1>6. Len(e.plan) = Len(Changes[e.surface])
  BY <1>4, <1>5
<1>q. QED
  BY <1>1, <1>2, <1>3, <1>4, <1>6, SMTT(60) DEF Surface, Plan

\* What the steps of a working run make of it.
LEMMA KeepOperationMoves ==
    ASSUME IInv, NEW p \in Procs, KeepOperation(p)
    PROVE  /\ proc[p].pc = "keepOperation"
           /\ proc'[p].pc = Approach(Surface(p), 1) /\ proc'[p].n = 1
           /\ proc'[p].action = proc[p].action /\ proc'[p].failed = proc[p].failed
           /\ \A q \in Procs \ {p} : proc'[q] = proc[q]
<1>1. PICK pc : pc = Approach(Surface(p), 1)
  OBVIOUS
<1>2. PICK x : x = [proc[p] EXCEPT !.pc = pc, !.n = 1]
  OBVIOUS
<1>3. proc[p].pc = "keepOperation" /\ proc' = [proc EXCEPT ![p] = x]
  BY <1>1, <1>2 DEF KeepOperation, At
<1>4. /\ x.pc = pc /\ x.n = 1 /\ x.action = proc[p].action /\ x.failed = proc[p].failed
  BY <1>2 DEF IInv, Shapes, IsProc
<1>5. proc'[p] = x /\ \A q \in Procs \ {p} : proc'[q] = proc[q]
  BY <1>3 DEF IInv, Shapes
<1>q. QED
  BY <1>1, <1>3, <1>4, <1>5

LEMMA CheckMoves ==
    ASSUME IInv, NEW p \in Procs, Check(p)
    PROVE  /\ proc[p].pc = "check" /\ proc'[p].action = proc[p].action
           /\ \A q \in Procs \ {p} : proc'[q] = proc[q]
           /\ \/ /\ page[Effect(p).at] = Effect(p).from
                 /\ proc'[p].pc = "write" /\ proc'[p].n = proc[p].n
                 /\ proc'[p].failed = proc[p].failed
              \/ /\ page[Effect(p).at] # Effect(p).from
                 /\ proc'[p].pc = "receipt"
<1>1. PICK x, y : /\ x = [proc[p] EXCEPT !.pc = "write", !.raced = FALSE]
                  /\ y = Fails(proc[p])
  OBVIOUS
<1>2. IsProc(proc[p]) /\ proc[p].pc = "check"
  BY DEF Check, At, IInv, Shapes
<1>3. /\ x.pc = "write" /\ x.n = proc[p].n /\ x.action = proc[p].action
      /\ x.failed = proc[p].failed
  BY <1>1, <1>2 DEF IsProc
<1>4. y.pc = "receipt" /\ y.action = proc[p].action
  BY <1>1, <1>2 DEF IsProc, Fails
<1>5. proc' = [proc EXCEPT ![p] = IF page[Effect(p).at] = Effect(p).from THEN x ELSE y]
  BY <1>1 DEF Check
<1>6. /\ proc'[p] = IF page[Effect(p).at] = Effect(p).from THEN x ELSE y
      /\ \A q \in Procs \ {p} : proc'[q] = proc[q]
  BY <1>5 DEF IInv, Shapes
<1>q. QED
  BY <1>2, <1>3, <1>4, <1>6

LEMMA ProveMoves ==
    ASSUME IInv, NEW p \in Procs, Prove(p)
    PROVE  /\ proc[p].pc = "prove" /\ proc'[p].action = proc[p].action
           /\ \A q \in Procs \ {p} : proc'[q] = proc[q]
           /\ \/ ~Holds(Surface(p), Plan(p), proc[p].n, page) /\ proc'[p].pc = "receipt"
              \/ proc'[p].pc = "receipt" /\ proc'[p].failed = proc[p].failed
              \/ /\ proc[p].n # Len(Plan(p))
                 /\ proc'[p].pc = Approach(Surface(p), proc[p].n + 1)
                 /\ proc'[p].n = proc[p].n + 1 /\ proc'[p].failed = proc[p].failed
<1>1. PICK pc : pc = Approach(Surface(p), proc[p].n + 1)
  OBVIOUS
<1>2. PICK x, y, z : /\ x = [proc[p] EXCEPT !.pc = "receipt"]
                     /\ y = Fails(proc[p])
                     /\ z = [proc[p] EXCEPT !.pc = pc, !.n = proc[p].n + 1]
  OBVIOUS
<1>3. IsProc(proc[p]) /\ proc[p].pc = "prove"
  BY DEF Prove, At, IInv, Shapes
<1>4. x.pc = "receipt" /\ x.action = proc[p].action /\ x.failed = proc[p].failed
  BY <1>2, <1>3 DEF IsProc
<1>5. y.pc = "receipt" /\ y.action = proc[p].action
  BY <1>2, <1>3 DEF IsProc, Fails
<1>6. /\ z.pc = pc /\ z.n = proc[p].n + 1 /\ z.action = proc[p].action
      /\ z.failed = proc[p].failed
  BY <1>2, <1>3 DEF IsProc
<1>7. proc' = [proc EXCEPT ![p] =
          IF ~Holds(Surface(p), Plan(p), proc[p].n, page) THEN y
          ELSE IF proc[p].n = Len(Plan(p)) THEN x ELSE z]
  BY <1>1, <1>2 DEF Prove
<1>8. /\ \A q \in Procs \ {p} : proc'[q] = proc[q]
      /\ \/ proc'[p] = y /\ ~Holds(Surface(p), Plan(p), proc[p].n, page)
         \/ proc'[p] = x
         \/ proc'[p] = z /\ proc[p].n # Len(Plan(p))
  BY <1>7 DEF IInv, Shapes
<1>q. QED
  BY <1>1, <1>3, <1>4, <1>5, <1>6, <1>8

LEMMA WriteMoves ==
    ASSUME IInv, NEW p \in Procs, Write(p)
    PROVE  /\ proc'[p].failed = proc[p].failed
           /\ IF ProvesAfter(Surface(p), proc[p].n)
              THEN proc'[p].pc = "prove" /\ proc'[p].n = proc[p].n
              ELSE /\ proc'[p].pc = Approach(Surface(p), proc[p].n + 1)
                   /\ proc'[p].n = proc[p].n + 1
<1>1. IsProc(proc[p])
  BY DEF IInv, Shapes
<1>2. PICK pc, n : /\ pc = IF ProvesAfter(Surface(p), proc[p].n) THEN "prove"
                           ELSE Approach(Surface(p), proc[p].n + 1)
                   /\ n = IF ProvesAfter(Surface(p), proc[p].n) THEN proc[p].n
                          ELSE proc[p].n + 1
  OBVIOUS
<1>3. PICK x : x = [[proc[p] EXCEPT !.tried = TRUE] EXCEPT !.pc = pc, !.n = n]
  OBVIOUS
<1>4. proc' = [Racing(Effect(p).at) EXCEPT ![p] = x]
  BY <1>2, <1>3 DEF Write, Onward, Attempted
<1>5. proc'[p] = x
  BY <1>4 DEF Racing
<1>6. x.pc = pc /\ x.n = n /\ x.failed = proc[p].failed
  BY <1>1, <1>3 DEF IsProc
<1>q. QED
  BY <1>2, <1>5, <1>6

LEMMA WriteFailsMoves ==
    ASSUME IInv, NEW p \in Procs, WriteFails(p) PROVE proc'[p].pc = "receipt"
<1>1. IsProc(proc[p])
  BY DEF IInv, Shapes
<1>2. PICK x : x = Fails(Attempted(p))
  OBVIOUS
<1>3. proc' = [Racing(Effect(p).at) EXCEPT ![p] = x]
  BY <1>2 DEF WriteFails
<1>4. proc'[p] = x
  BY <1>3 DEF Racing
<1>5. x.pc = "receipt"
  BY <1>1, <1>2 DEF IsProc, Fails, Attempted
<1>q. QED
  BY <1>4, <1>5

Before == {"idle", "claim", "keepClaim", "operation", "keepOperation"}
Later  == {"idle", "receipt", "sign", "keepReceipt"}

\* The steps that compare, send and prove nothing.
LEMMA PlainMoves ==
    ASSUME IInv, NEW p \in Procs,
           \/ Recheck(p) \/ Claim(p) \/ KeepClaim(p) \/ ClaimOperation(p) \/ Refused(p)
           \/ ReadFails(p) \/ OpenReceipt(p) \/ SignReceipt(p) \/ KeepReceipt(p) \/ Dies(p)
    PROVE  /\ proc[p].pc # "idle" /\ \A q \in Procs \ {p} : proc'[q] = proc[q]
           /\ \/ proc'[p].pc = "idle"
              \/ /\ proc'[p].action = proc[p].action
                 /\ \/ /\ proc'[p].pc \in Before /\ proc[p].pc \in Before \cup {"recheck"}
                       /\ proc'[p].failed = proc[p].failed
                    \/ ReadFails(p) /\ proc'[p].pc = "receipt"
                    \/ /\ proc'[p].pc \in Later /\ proc'[p].failed = proc[p].failed
                       /\ OpenReceipt(p) \/ SignReceipt(p)
<1>1. IsProc(proc[p])
  BY DEF IInv, Shapes
<1>2. CASE \E pc \in Before \cup Later : Goto(p, pc)
  <2>1. PICK pc \in Before \cup Later : Goto(p, pc)
    BY <1>2
  <2>2. PICK x : x = [proc[p] EXCEPT !.pc = pc]
    OBVIOUS
  <2>3. x.pc = pc /\ x.action = proc[p].action /\ x.failed = proc[p].failed
    BY <1>1, <2>2 DEF IsProc
  <2>4. proc'[p] = x /\ \A q \in Procs \ {p} : proc'[q] = proc[q]
    BY <2>1, <2>2 DEF Goto, IInv, Shapes
  <2>5. CASE Recheck(p) \/ Claim(p) \/ KeepClaim(p) \/ ClaimOperation(p)
    <3>1. proc[p].pc \in (Before \cup {"recheck"}) \ {"idle"}
      BY <2>5 DEF Recheck, Claim, KeepClaim, ClaimOperation, At, Before
    <3>2. proc'[p].pc \in Before
      <4>1. \E o \in Before : Goto(p, o) \/ Stop(p)
        BY <2>5 DEF Recheck, Claim, KeepClaim, ClaimOperation, Before
      <4>2. PICK o \in Before : Goto(p, o) \/ Stop(p)
        BY <4>1
      <4>3. PICK y : y = [proc[p] EXCEPT !.pc = o]
        OBVIOUS
      <4>4. y.pc = o
        BY <1>1, <4>3 DEF IsProc
      <4>5. proc'[p] = y \/ proc'[p] = Idle
        BY <4>2, <4>3 DEF Goto, Stop, IInv, Shapes
      <4>q. QED
        BY <4>4, <4>5, IdleIsSound DEF Before
    <3>q. QED
      BY <2>3, <2>4, <3>1, <3>2
  <2>6. CASE Refused(p) \/ KeepReceipt(p) \/ Dies(p) \/ ReadFails(p)
    BY <1>1, <2>6, IdleIsSound DEF Refused, KeepReceipt, Dies, Stop, At, ReadFails, IInv, Shapes,
       Fails, IsProc
  <2>7. CASE OpenReceipt(p) \/ SignReceipt(p)
    <3>1. proc[p].pc \in {"receipt", "sign"}
      BY <2>7 DEF OpenReceipt, SignReceipt, At
    <3>2. proc'[p].pc \in Later
      <4>1. PICK o \in Later : Goto(p, o)
        BY <2>7 DEF OpenReceipt, SignReceipt, Later
      <4>2. PICK y : y = [proc[p] EXCEPT !.pc = o]
        OBVIOUS
      <4>3. y.pc = o /\ proc'[p] = y
        BY <1>1, <4>1, <4>2 DEF IsProc, Goto, IInv, Shapes
      <4>q. QED
        BY <4>3
    <3>q. QED
      BY <2>3, <2>4, <2>7, <3>1, <3>2
  <2>q. QED
    BY <2>5, <2>6, <2>7
<1>3. CASE Stop(p)
  <2>1. proc'[p].pc = "idle" /\ \A q \in Procs \ {p} : proc'[q] = proc[q]
    BY <1>3, IdleIsSound DEF Stop, IInv, Shapes
  <2>2. proc[p].pc # "idle"
    BY DEF Recheck, Claim, KeepClaim, ClaimOperation, Refused, ReadFails, OpenReceipt,
       SignReceipt, KeepReceipt, Dies, At
  <2>q. QED
    BY <2>1, <2>2
<1>4. CASE ReadFails(p)
  <2>1. proc[p].pc \in {"check", "prove"} /\ proc' = [proc EXCEPT ![p] = Fails(proc[p])]
    BY <1>4 DEF ReadFails, At
  <2>2. PICK x : x = Fails(proc[p])
    OBVIOUS
  <2>3. x.pc = "receipt" /\ x.action = proc[p].action
    BY <1>1, <2>2 DEF IsProc, Fails
  <2>4. proc'[p] = x /\ \A q \in Procs \ {p} : proc'[q] = proc[q]
    BY <2>1, <2>2 DEF IInv, Shapes
  <2>q. QED
    BY <1>4, <2>1, <2>3, <2>4
<1>q. QED
  BY <1>2, <1>3, <1>4 DEF Recheck, Claim, KeepClaim, ClaimOperation, Refused, OpenReceipt,
     SignReceipt, KeepReceipt, Dies, Before, Later

\* A process whose turn it was not, after something was written at t.
LEMMA OthersCompared ==
    ASSUME IInv, PInv, NEW q \in Procs, NEW t, UNCHANGED envelope,
           proc'[q] = Racing(t)[q],
           \A u \in Targets : u # t => page'[u] = page[u]
    PROVE  AtHand(proc[q])' /\ Compared(proc[q])'
<1>1. IsProc(proc[q]) /\ AtHand(proc[q]) /\ Compared(proc[q])
  BY DEF IInv, Shapes, PInv
<1>2. PICK e, raced : /\ e = envelope[proc[q].action]
                      /\ raced = (proc[q].raced \/ (proc[q].pc = "write" /\ Effect(q).at = t))
  OBVIOUS
<1>3. PICK x : x = [proc[q] EXCEPT !.raced = raced]
  OBVIOUS
<1>4. /\ x.pc = proc[q].pc /\ x.n = proc[q].n /\ x.action = proc[q].action
      /\ x.raced = raced
  BY <1>1, <1>3 DEF IsProc
<1>5. proc'[q] = x
  BY <1>2, <1>3 DEF Racing
<1>6. AtHand(proc[q])'
  BY <1>1, <1>4, <1>5 DEF AtHand
<1>7. ASSUME x.pc = "write", Checked(e.surface, x.n), ~x.raced
      PROVE  page'[e.plan[x.n].at] = e.plan[x.n].from
  <2>1. proc[q].pc = "write"
    BY <1>4, <1>7
  <2>2. ~proc[q].raced /\ Effect(q).at # t
    BY <1>2, <1>4, <1>7, <2>1, Zenon
  <2>3. e.plan[x.n].at # t
    BY <1>2, <1>4, <2>2, Zenon DEF Effect, Plan
  <2>4. Follows(e) /\ x.n \in 1 .. Len(Changes[e.surface])
    BY <1>1, <1>2, <1>4, <2>1, PlanFollows DEF AtHand
  <2>5. e.plan[x.n].at \in Targets
    BY <2>4, ChangesAreTargets DEF Follows
  <2>6. page[e.plan[x.n].at] = e.plan[x.n].from
    BY <1>1, <1>2, <1>4, <1>7, <2>1, <2>2, Zenon DEF Compared
  <2>q. QED
    BY <2>3, <2>5, <2>6
<1>8. envelope'[proc'[q].action] = e
  BY <1>2, <1>4, <1>5
<1>9. Compared(proc[q])'
  BY <1>5, <1>7, <1>8, Zenon DEF Compared
<1>q. QED
  BY <1>6, <1>9

\* A run may go on to effect n of its plan: it compares what is compared.
LEMMA Approaching ==
    ASSUME NEW p \in Procs, UNCHANGED envelope, proc'[p].action = proc[p].action, NEW n,
           n \in 1 .. Len(Changes[Surface(p)]), proc'[p].n = n,
           proc'[p].pc = Approach(Surface(p), n)
    PROVE  AtHand(proc[p])' /\ Compared(proc[p])'
<1>1. PICK s : s = Surface(p)
  OBVIOUS
<1>2. envelope'[proc'[p].action].surface = s
  BY <1>1 DEF Surface
<1>3. proc'[p].pc = "write" => ~Checked(s, n)
  BY <1>1 DEF Approach
<1>q. QED
  BY <1>1, <1>2, <1>3 DEF AtHand, Compared

\* A step of p that leaves the workspace alone.
LEMMA StepCompares ==
    ASSUME IInv, PInv, NEW p \in Procs, UNCHANGED <<page, envelope, blind>>,
           \A q \in Procs \ {p} : proc'[q] = proc[q],
           AtHand(proc[p])', Compared(proc[p])'
    PROVE  PInv'
<1>1. ASSUME NEW q \in Procs PROVE AtHand(proc[q])' /\ Compared(proc[q])'
  <2>1. CASE q = p
    BY <2>1, SMTT(60)
  <2>2. CASE q # p
    BY <2>2, Zenon DEF PInv, AtHand, Compared
  <2>q. QED
    BY <2>1, <2>2
<1>2. \A a \in Actions : envelope'[a] # None => Follows(envelope'[a])
  BY DEF PInv
<1>q. QED
  BY <1>1, <1>2 DEF PInv

\* Where nothing is at hand.
LEMMA ElsewhereCompares ==
    ASSUME IInv, PInv, NEW p \in Procs, UNCHANGED <<page, envelope, blind>>,
           \A q \in Procs \ {p} : proc'[q] = proc[q],
           proc'[p].pc \notin {"check", "write", "prove"}
    PROVE  PInv'
<1>1. AtHand(proc[p])' /\ Compared(proc[p])'
  BY DEF AtHand, Compared
<1>q. QED
  BY <1>1, StepCompares

LEMMA BeginMoves ==
    ASSUME IInv, NEW p \in Procs, NEW a \in Actions, Begin(p, a)
    PROVE  /\ proc'[p].pc \in {"recheck", "claim"} /\ proc'[p].action = a
           /\ proc'[p].failed = FALSE /\ \A q \in Procs \ {p} : proc'[q] = proc[q]
<1>1. PICK pc : pc = IF envelope[a].surface = "migrate" THEN "recheck" ELSE "claim"
  OBVIOUS
<1>2. PICK x : x = [Idle EXCEPT !.pc = pc, !.run = runs + 1, !.action = a]
  OBVIOUS
<1>3. x.pc = pc /\ x.action = a /\ x.failed = FALSE
  BY <1>2 DEF Idle
<1>4. proc' = [proc EXCEPT ![p] = x]
  BY <1>1, <1>2 DEF Begin
<1>5. proc'[p] = x /\ \A q \in Procs \ {p} : proc'[q] = proc[q]
  BY <1>4 DEF IInv, Shapes
<1>q. QED
  BY <1>1, <1>3, <1>5

LEMMA PlainCompares ==
    ASSUME IInv, PInv, NEW p \in Procs,
           \/ Recheck(p) \/ Claim(p) \/ KeepClaim(p) \/ ClaimOperation(p) \/ Refused(p)
           \/ ReadFails(p) \/ OpenReceipt(p) \/ SignReceipt(p) \/ KeepReceipt(p) \/ Dies(p)
           \/ \E a \in Actions : Begin(p, a)
    PROVE  PInv'
<1>1. UNCHANGED <<page, envelope, blind>>
  BY DEF Recheck, Claim, KeepClaim, ClaimOperation, Refused, ReadFails, OpenReceipt,
     SignReceipt, KeepReceipt, Dies, Begin, history
<1>2. CASE \E a \in Actions : Begin(p, a)
  <2>1. /\ \A q \in Procs \ {p} : proc'[q] = proc[q]
        /\ proc'[p].pc \notin {"check", "write", "prove"}
    BY <1>2, BeginMoves
  <2>q. QED
    BY <1>1, <2>1, ElsewhereCompares
<1>3. CASE ~\E a \in Actions : Begin(p, a)
  <2>1. /\ \A q \in Procs \ {p} : proc'[q] = proc[q]
        /\ proc'[p].pc \in {"idle", "receipt"} \cup Before \cup Later
    BY <1>3, PlainMoves
  <2>q. QED
    BY <1>1, <2>1, ElsewhereCompares DEF Before, Later
<1>q. QED
  BY <1>2, <1>3

LEMMA KeepOperationCompares ==
    ASSUME IInv, PInv, NEW p \in Procs, KeepOperation(p) PROVE PInv'
<1>1. UNCHANGED <<page, envelope, blind>>
  BY DEF KeepOperation, history
<1>2. /\ proc[p].pc = "keepOperation" /\ proc'[p].pc = Approach(Surface(p), 1)
      /\ proc'[p].n = 1 /\ proc'[p].action = proc[p].action
      /\ \A q \in Procs \ {p} : proc'[q] = proc[q]
  BY KeepOperationMoves
<1>3. 1 \in 1 .. Len(Changes[Surface(p)])
  <2>1. Surface(p) \in Surfaces
    BY <1>2, PlanFollows
  <2>2. Len(Changes[Surface(p)]) \in Nat \ {0}
    BY <2>1, ChangesAreTargets
  <2>q. QED
    BY <2>2
<1>4. AtHand(proc[p])' /\ Compared(proc[p])'
  BY <1>1, <1>2, <1>3, Approaching
<1>q. QED
  BY <1>1, <1>2, <1>4, StepCompares

LEMMA CheckCompares == ASSUME IInv, PInv, NEW p \in Procs, Check(p) PROVE PInv'
<1>1. UNCHANGED <<page, envelope, blind>>
  BY DEF Check, history
<1>2. /\ proc[p].pc = "check" /\ proc'[p].action = proc[p].action
      /\ \A q \in Procs \ {p} : proc'[q] = proc[q]
      /\ \/ /\ page[Effect(p).at] = Effect(p).from
            /\ proc'[p].pc = "write" /\ proc'[p].n = proc[p].n
         \/ proc'[p].pc = "receipt"
  BY CheckMoves
<1>3. CASE proc'[p].pc = "receipt"
  BY <1>1, <1>2, <1>3, ElsewhereCompares
<1>4. CASE proc'[p].pc # "receipt"
  <2>1. PICK e : e = envelope[proc[p].action]
    BY SMTT(60)
  <2>2. page[e.plan[proc[p].n].at] = e.plan[proc[p].n].from /\ envelope'[proc'[p].action] = e
    BY <1>1, <1>2, <1>4, <2>1 DEF Effect, Plan
  <2>3. Compared(proc[p])'
    BY <1>1, <1>2, <1>4, <2>2 DEF Compared
  <2>4. AtHand(proc[p])'
    BY <1>1, <1>2, <1>4 DEF PInv, AtHand
  <2>q. QED
    BY <1>1, <1>2, <2>3, <2>4, StepCompares
<1>q. QED
  BY <1>3, <1>4

LEMMA ProveCompares == ASSUME IInv, PInv, NEW p \in Procs, Prove(p) PROVE PInv'
<1>1. UNCHANGED <<page, envelope, blind>>
  BY DEF Prove, history
<1>2. /\ proc[p].pc = "prove" /\ proc'[p].action = proc[p].action
      /\ \A q \in Procs \ {p} : proc'[q] = proc[q]
      /\ \/ proc'[p].pc = "receipt"
         \/ /\ proc[p].n # Len(Plan(p))
            /\ proc'[p].pc = Approach(Surface(p), proc[p].n + 1) /\ proc'[p].n = proc[p].n + 1
  BY ProveMoves
<1>3. CASE proc'[p].pc = "receipt"
  BY <1>1, <1>2, <1>3, ElsewhereCompares
<1>4. CASE proc'[p].pc # "receipt"
  <2>1. Len(Plan(p)) = Len(Changes[Surface(p)]) /\ Surface(p) \in Surfaces
    BY <1>2, PlanFollows
  <2>2. proc[p].n \in 1 .. Len(Changes[Surface(p)])
    BY <1>2 DEF PInv, AtHand, Surface
  <2>3. Len(Changes[Surface(p)]) \in Nat
    BY <2>1, ChangesAreTargets
  <2>4. proc[p].n + 1 \in 1 .. Len(Changes[Surface(p)])
    BY <1>2, <1>4, <2>1, <2>2, <2>3
  <2>5. AtHand(proc[p])' /\ Compared(proc[p])'
    BY <1>1, <1>2, <1>4, <2>4, Approaching
  <2>q. QED
    BY <1>1, <1>2, <2>5, StepCompares
<1>q. QED
  BY <1>3, <1>4

\* What is sent after a comparison replaces what was compared.
LEMMA SendCompares == ASSUME IInv, PInv, NEW p \in Procs, Write(p) \/ WriteFails(p) PROVE PInv'
<1>1. /\ UNCHANGED envelope
      /\ page' = page \/ page' = [page EXCEPT ![Effect(p).at] = Effect(p).to]
  BY DEF Write, WriteFails, Send, TakesHold
<1>2. /\ proc[p].pc = "write" /\ proc'[p].action = proc[p].action
      /\ \A q \in Procs \ {p} : proc'[q] = Racing(Effect(p).at)[q]
  BY SendMoves
<1>3. blind' = blind
  <2>1. ~(/\ Checked(Surface(p), proc[p].n) /\ ~proc[p].raced
          /\ page[Effect(p).at] # Effect(p).from)
    BY <1>2, Zenon DEF PInv, Compared, Effect, Plan, Surface
  <2>q. QED
    BY <2>1 DEF Write, WriteFails, Send
<1>4. PICK t : t = Effect(p).at
  OBVIOUS
<1>5. /\ page' = [u \in Targets |-> page'[u]]
      /\ \A u \in Targets : u # t => page'[u] = page[u]
  BY <1>1, <1>4 DEF PInv
<1>6. ASSUME NEW q \in Procs \ {p} PROVE AtHand(proc[q])' /\ Compared(proc[q])'
  <2>1. proc'[q] = Racing(t)[q]
    BY <1>2, <1>4
  <2>q. QED
    BY <1>1, <1>5, <2>1, OthersCompared
<1>7. AtHand(proc[p])' /\ Compared(proc[p])'
  <2>1. CASE WriteFails(p)
    <3>1. proc'[p].pc = "receipt"
      BY <2>1, WriteFailsMoves
    <3>q. QED
      BY <3>1 DEF AtHand, Compared
  <2>2. CASE Write(p)
    <3>1. IF ProvesAfter(Surface(p), proc[p].n)
          THEN proc'[p].pc = "prove" /\ proc'[p].n = proc[p].n
          ELSE /\ proc'[p].pc = Approach(Surface(p), proc[p].n + 1)
               /\ proc'[p].n = proc[p].n + 1
      BY <2>2, WriteMoves
    <3>2. proc[p].n \in 1 .. Len(Changes[Surface(p)])
      BY <1>2, SMTT(60) DEF PInv, AtHand, Surface
    <3>3. CASE ProvesAfter(Surface(p), proc[p].n)
      BY <1>1, <1>2, <3>1, <3>2, <3>3 DEF AtHand, Compared, Surface
    <3>4. CASE ~ProvesAfter(Surface(p), proc[p].n)
      <4>1. proc[p].n # Len(Changes[Surface(p)])
        BY <3>4 DEF ProvesAfter
      <4>2. Surface(p) \in Surfaces
        BY <1>2, PlanFollows
      <4>3. Len(Changes[Surface(p)]) \in Nat
        BY <4>2, ChangesAreTargets
      <4>4. proc[p].n + 1 \in 1 .. Len(Changes[Surface(p)])
        BY <3>2, <4>1, <4>3
      <4>q. QED
        BY <1>1, <1>2, <3>1, <3>4, <4>4, Approaching
    <3>q. QED
      BY <3>3, <3>4
  <2>q. QED
    BY <2>1, <2>2
<1>8. \A a \in Actions : envelope'[a] # None => Follows(envelope'[a])
  BY <1>1 DEF PInv
<1>q. QED
  BY <1>3, <1>5, <1>6, <1>7, <1>8 DEF PInv

LEMMA EditCompares ==
    ASSUME IInv, PInv, NEW t \in Targets, NEW v, page' = [page EXCEPT ![t] = v],
           proc' = Racing(t), UNCHANGED <<envelope, blind>>
    PROVE  PInv'
<1>1. page' = [u \in Targets |-> page'[u]] /\ \A u \in Targets : u # t => page'[u] = page[u]
  BY DEF PInv
<1>2. \A q \in Procs : AtHand(proc[q])' /\ Compared(proc[q])'
  BY <1>1, OthersCompared
<1>3. \A a \in Actions : envelope'[a] # None => Follows(envelope'[a])
  BY DEF PInv
<1>q. QED
  BY <1>1, <1>2, <1>3 DEF PInv

\* What was approved follows the surface's changes.
LEMMA RenderedFollows ==
    ASSUME NEW s \in Surfaces, NEW w PROVE Follows([surface |-> s, plan |-> Rendered(s, w)])
<1>1. PICK e : e = [surface |-> s, plan |-> Rendered(s, w)]
  OBVIOUS
<1>2. e.surface = s /\ e.plan = Rendered(s, w)
  BY <1>1
<1>3. /\ Rendered(s, w) = [i \in 1 .. Len(Changes[s]) |-> Rendered(s, w)[i]]
      /\ \A i \in 1 .. Len(Changes[s]) :
           /\ Rendered(s, w)[i].at = Changes[s][i].at
           /\ Rendered(s, w)[i].to = Changes[s][i].to
  BY DEF Rendered
<1>4. Follows(e)
  BY <1>2, <1>3 DEF Follows
<1>q. QED
  BY <1>1, <1>4

LEMMA ApproveCompares ==
    ASSUME IInv, PInv, NEW a \in Actions, NEW s \in Surfaces, Approve(a, s) PROVE PInv'
<1>1. /\ envelope[a] = None /\ UNCHANGED <<page, proc, blind>>
      /\ envelope' = [envelope EXCEPT ![a] = [surface |-> s, plan |-> Rendered(s, page)]]
  BY DEF Approve, history
<1>2. PICK e, w : e = [surface |-> s, plan |-> Rendered(s, w)] /\ w = page
  OBVIOUS
<1>3. Follows(e)
  BY <1>2, RenderedFollows
<1>4. envelope'[a] = e /\ \A o \in Actions \ {a} : envelope'[o] = envelope[o]
  BY <1>1, <1>2 DEF IInv, Shapes
<1>5. \A o \in Actions : envelope'[o] # None => Follows(envelope'[o])
  <2>1. ASSUME NEW o \in Actions, envelope'[o] # None PROVE Follows(envelope'[o])
    <3>1. CASE o = a
      BY <1>3, <1>4, <3>1
    <3>2. CASE o # a
      BY <1>4, <2>1, <3>2 DEF PInv
    <3>q. QED
      BY <3>1, <3>2
  <2>q. QED
    BY <2>1
<1>6. ASSUME NEW q \in Procs PROVE AtHand(proc[q])' /\ Compared(proc[q])'
  <2>1. CASE proc[q].pc = "idle"
    BY <1>1, <2>1 DEF AtHand, Compared
  <2>2. CASE proc[q].pc # "idle"
    <3>1. envelope'[proc[q].action] = envelope[proc[q].action]
      BY <1>1, <1>4, <2>2 DEF IInv, Shapes, IsProc
    <3>q. QED
      BY <1>1, <3>1, Zenon DEF PInv, AtHand, Compared
  <2>q. QED
    BY <2>1, <2>2
<1>q. QED
  BY <1>1, <1>5, <1>6 DEF PInv

\* An effect that lands late is one at a target of the workspace.
LInv == \A w \in late : w.at \in Targets

LEMMA LateTargets == ASSUME IInv, PInv, LInv, [Next]_vars PROVE LInv'
<1>1. ASSUME NEW p \in Procs, WriteFails(p) PROVE LInv'
  <2>1. proc[p].pc = "write"
    BY <1>1, SendMoves
  <2>2. /\ Follows(envelope[proc[p].action]) /\ Surface(p) \in Surfaces
        /\ proc[p].n \in 1 .. Len(Changes[Surface(p)])
    BY <2>1, PlanFollows DEF PInv, AtHand, Surface
  <2>3. Effect(p).at \in Targets
    BY <2>2, ChangesAreTargets, Zenon DEF Follows, Effect, Plan, Surface
  <2>4. PICK x : x = [ at |-> Effect(p).at, to |-> Effect(p).to,
                       action |-> proc[p].action, n |-> proc[p].n ]
    OBVIOUS
  <2>5. x.at \in Targets
    BY <2>3, <2>4
  <2>6. late' = late \/ late' = late \cup {x}
    BY <1>1, <2>4 DEF WriteFails
  <2>q. QED
    BY <2>5, <2>6 DEF LInv
<1>2. CASE late' \subseteq late
  BY <1>2, SMTT(60) DEF LInv
<1>3. CASE ~(late' \subseteq late)
  BY <1>1, <1>3 DEF Next, vars, Approve, Edit, Land, Begin, Advance, Recheck, Claim, KeepClaim,
     ClaimOperation, KeepOperation, Refused, Check, Write, Prove, ReadFails, OpenReceipt,
     SignReceipt, KeepReceipt, Dies, PowerLoss
<1>q. QED
  BY <1>2, <1>3

LEMMA NextCompares == ASSUME IInv, PInv, LInv, [Next]_vars PROVE PInv'
<1>1. ASSUME NEW p \in Procs, Advance(p) PROVE PInv'
  BY <1>1, PlainCompares, KeepOperationCompares, CheckCompares, SendCompares, ProveCompares
     DEF Advance
<1>2. ASSUME NEW t \in Targets, NEW v \in Edits, Edit(t, v) PROVE PInv'
  <2>1. page' = [page EXCEPT ![t] = v] /\ proc' = Racing(t) /\ UNCHANGED <<envelope, blind>>
    BY <1>2 DEF Edit, history
  <2>q. QED
    BY <2>1, EditCompares
<1>3. ASSUME NEW w \in late, Land(w) PROVE PInv'
  <2>1. PICK t, v : t = w.at /\ v = w.to
    OBVIOUS
  <2>2. /\ page' = [page EXCEPT ![t] = v] /\ proc' = Racing(t)
        /\ UNCHANGED <<envelope, blind>> /\ t \in Targets
    BY <1>3, <2>1 DEF Land, LInv
  <2>q. QED
    BY <2>2, EditCompares
<1>4. ASSUME PowerLoss PROVE PInv'
  <2>1. UNCHANGED <<page, envelope, blind>> /\ \A p \in Procs : proc'[p].pc = "idle"
    BY <1>4, IdleIsSound DEF PowerLoss
  <2>2. \A p \in Procs : AtHand(proc[p])' /\ Compared(proc[p])'
    BY <2>1 DEF AtHand, Compared
  <2>3. \A a \in Actions : envelope'[a] # None => Follows(envelope'[a])
    BY <2>1, SMTT(60) DEF PInv
  <2>q. QED
    BY <2>1, <2>2, <2>3 DEF PInv
<1>5. ASSUME UNCHANGED vars PROVE PInv'
  <2>1. UNCHANGED <<page, envelope, proc, blind>>
    BY <1>5 DEF vars, history
  <2>2. \A a \in Actions : envelope'[a] # None => Follows(envelope'[a])
    BY <2>1 DEF PInv
  <2>q. QED
    BY <2>1, <2>2, Zenon DEF PInv, AtHand, Compared
<1>q. QED
  BY <1>1, <1>2, <1>3, <1>4, <1>5, PlainCompares, ApproveCompares DEF Next

LEMMA InitCompares == ASSUME Init PROVE PInv /\ LInv
<1>1. page = [t \in Targets |-> page[t]]
  BY StartsAssumption DEF Init
<1>2. \A p \in Procs : AtHand(proc[p]) /\ Compared(proc[p])
  BY IdleIsSound DEF Init, AtHand, Compared
<1>q. QED
  BY <1>1, <1>2 DEF Init, PInv, LInv

(***************************************************************************)
(* NothingIsReplacedBlindly: a compared effect only replaces what the      *)
(* approver saw or this plan wrote, unless somebody wrote between the      *)
(* comparison and the request (applyEffect of the four surfaces).          *)
(***************************************************************************)
THEOREM NothingIsReplacedBlindly == Spec => []NothingBlind
<1>1. Init => IInv /\ PInv /\ LInv
  BY InitIsSound, InitCompares
<1>2. IInv /\ PInv /\ LInv /\ [Next]_vars => (IInv /\ PInv /\ LInv)'
  BY NextKeeps, NextCompares, LateTargets
<1>3. PInv => NothingBlind
  BY DEF PInv, NothingBlind
<1>q. QED
  BY <1>1, <1>2, <1>3, PTL DEF Spec

------------------------------------------------------------------------------
(***************************************************************************)
(* OnlyHindrancesFail: the workspace that the only run sees is what its    *)
(* plan was rendered from, with the effects applied so far.                *)
(***************************************************************************)
After(s, w, k) ==
    [t \in Targets |-> LET j == LastOf(Changes[s], k, t)
                       IN  IF j > 0 THEN Changes[s][j].to ELSE w[t]]

\* Effects of a run that took hold.
Progress(x) == IF x.pc \in {"check", "write"} THEN x.n - 1
               ELSE IF x.pc = "prove" THEN x.n ELSE 0

Trying == {"recheck", "claim", "keepClaim", "operation", "keepOperation",
           "check", "write", "prove"}

Underway(e, k) == \E w \in Starts :
    Renders(e.surface, w) /\ e.plan = Rendered(e.surface, w) /\ page = After(e.surface, w, k)

OnPlan(x) ==
    LET e == envelope[x.action] IN
    x.pc # "idle" /\ e.surface # "probe" =>
        /\ ~x.failed /\ (x.pc = "check" => Checked(e.surface, x.n))
        /\ x.pc \in Trying => Underway(e, Progress(x))

Failures == {"failed_before_effect", "outcome_unknown"}
Excused(a) == files.receipt[a] \in Failures => envelope[a].surface = "probe"

\* Actions that have a mark of a run.
Touched(a) ==
    \/ a \in Actions /\ files.receipt[a] # "none"
    \/ a \in hindered
    \/ \E p \in Procs : proc[p].pc # "idle" /\ proc[p].action = a

Undisturbed == edits = 0 /\ runs <= 1 /\ hindered = {}

UInv ==
    /\ runs \in Nat /\ edits \in Nat
    /\ runs = 0 => \A a : ~Touched(a)
    /\ runs <= 1 => \A a, b : Touched(a) /\ Touched(b) => a = b
    /\ runs <= 1 => \A p, q \in Procs : proc[p].pc # "idle" /\ proc[q].pc # "idle" => p = q
    /\ hindered = {} => late = {}
    /\ runs = 0 /\ edits = 0 => page \in Starts
    /\ \A a \in Actions : <<"receipt", a>> \in files.unflushed => files.receipt[a] # "none"
    /\ Undisturbed => /\ \A p \in Procs : OnPlan(proc[p])
                      /\ \A a \in Actions : Excused(a)

\* The last change of the first k to a target.
LEMMA LastIs ==
    ASSUME NEW c, NEW k \in Nat, NEW t, NEW i \in 1 .. k, c[i].at = t,
           \A j \in 1 .. k : c[j].at = t => j <= i
    PROVE  LastOf(c, k, t) = i
<1>1. PICK hits : hits = {j \in 1 .. k : c[j].at = t}
  OBVIOUS
<1>2. i \in hits /\ \A j \in hits : j <= i
  BY <1>1
<1>3. PICK m : m = CHOOSE l \in hits : \A j \in hits : j <= l
  OBVIOUS
<1>4. m \in hits /\ \A j \in hits : j <= m
  BY <1>2, <1>3
<1>5. m = i
  BY <1>1, <1>2, <1>4
<1>q. QED
  BY <1>1, <1>2, <1>3, <1>5 DEF LastOf

LEMMA LastIsNone ==
    ASSUME NEW c, NEW k, NEW t, \A j \in 1 .. k : c[j].at # t PROVE LastOf(c, k, t) = 0
  BY DEF LastOf

LEMMA LastStep ==
    ASSUME NEW c, NEW k \in Nat \ {0}, NEW t
    PROVE  LastOf(c, k, t) = IF c[k].at = t THEN k ELSE LastOf(c, k - 1, t)
<1>1. CASE c[k].at = t
  BY <1>1, LastIs
<1>2. CASE c[k].at # t
  <2>1. {j \in 1 .. k : c[j].at = t} = {j \in 1 .. k - 1 : c[j].at = t}
    BY <1>2
  <2>2. PICK hits : hits = {j \in 1 .. k : c[j].at = t}
    OBVIOUS
  <2>3. LastOf(c, k, t) = IF hits = {} THEN 0 ELSE CHOOSE i \in hits : \A j \in hits : j <= i
    BY <2>2 DEF LastOf
  <2>4. PICK fewer : fewer = {j \in 1 .. k - 1 : c[j].at = t}
    OBVIOUS
  <2>5. LastOf(c, k - 1, t) = IF fewer = {} THEN 0
                              ELSE CHOOSE i \in fewer : \A j \in fewer : j <= i
    BY <2>4 DEF LastOf
  <2>6. hits = fewer
    BY <2>1, <2>2, <2>4
  <2>q. QED
    BY <1>2, <2>3, <2>5, <2>6
<1>q. QED
  BY <1>1, <1>2

LEMMA LastSame ==
    ASSUME NEW c, NEW d, NEW k, NEW t, \A i \in 1 .. k : c[i].at = d[i].at
    PROVE  LastOf(c, k, t) = LastOf(d, k, t)
<1>1. {j \in 1 .. k : c[j].at = t} = {j \in 1 .. k : d[j].at = t}
  OBVIOUS
<1>2. PICK hits, others : /\ hits = {j \in 1 .. k : c[j].at = t}
                          /\ others = {j \in 1 .. k : d[j].at = t}
  OBVIOUS
<1>3. LastOf(c, k, t) = IF hits = {} THEN 0 ELSE CHOOSE i \in hits : \A j \in hits : j <= i
  BY <1>2 DEF LastOf
<1>4. LastOf(d, k, t) = IF others = {} THEN 0
                        ELSE CHOOSE i \in others : \A j \in others : j <= i
  BY <1>2 DEF LastOf
<1>5. hits = others
  BY <1>1, <1>2
<1>q. QED
  BY <1>3, <1>4, <1>5

LEMMA AfterNone == ASSUME NEW s, NEW w \in Starts PROVE After(s, w, 0) = w
<1>1. w = [t \in Targets |-> w[t]]
  BY StartsAssumption
<1>2. \A t : LastOf(Changes[s], 0, t) = 0
  BY LastIsNone
<1>q. QED
  BY <1>1, <1>2 DEF After

LEMMA AfterStep ==
    ASSUME NEW s \in Surfaces, NEW w, NEW k \in 1 .. Len(Changes[s])
    PROVE  After(s, w, k) = [After(s, w, k - 1) EXCEPT ![Changes[s][k].at] = Changes[s][k].to]
<1>1. Len(Changes[s]) \in Nat
  BY ChangesAreTargets
<1>2. k \in Nat \ {0} /\ k > 0
  BY <1>1
<1>3. PICK c, u, v : c = Changes[s] /\ u = After(s, w, k - 1) /\ v = After(s, w, k)
  OBVIOUS
<1>4. ASSUME NEW t \in Targets
      PROVE  v[t] = IF t = c[k].at THEN c[k].to ELSE u[t]
  <2>1. LastOf(c, k, t) = IF c[k].at = t THEN k ELSE LastOf(c, k - 1, t)
    BY <1>2, LastStep
  <2>2. v[t] = IF LastOf(c, k, t) > 0 THEN c[LastOf(c, k, t)].to ELSE w[t]
    BY <1>3 DEF After
  <2>3. u[t] = IF LastOf(c, k - 1, t) > 0 THEN c[LastOf(c, k - 1, t)].to ELSE w[t]
    BY <1>3 DEF After
  <2>4. CASE t = c[k].at
    BY <1>2, <2>1, <2>2, <2>4
  <2>5. CASE t # c[k].at
    BY <2>1, <2>2, <2>3, <2>5
  <2>q. QED
    BY <2>4, <2>5
<1>5. v = [t \in Targets |-> v[t]] /\ u = [t \in Targets |-> u[t]]
  BY <1>3 DEF After
<1>6. v = [u EXCEPT ![c[k].at] = c[k].to]
  BY <1>4, <1>5
<1>q. QED
  BY <1>3, <1>6

\* No earlier effect of its own plan makes a comparison fail.
LEMMA ComparisonHolds ==
    ASSUME PlansCohere, NEW s \in Surfaces \ {"probe"}, NEW w \in Starts,
           NEW i \in 1 .. Len(Changes[s]), Checked(s, i)
    PROVE  After(s, w, i - 1)[Changes[s][i].at] = From(s, i, w)
<1>1. Len(Changes[s]) \in Nat /\ Changes[s][i].at \in Targets
  BY ChangesAreTargets
<1>2. PICK c, t, j : c = Changes[s] /\ t = c[i].at /\ j = LastOf(c, i - 1, t)
  OBVIOUS
<1>3. After(s, w, i - 1)[t] = IF j > 0 THEN c[j].to ELSE w[t]
  BY <1>1, <1>2 DEF After
<1>4. CASE s = "support"
  BY <1>2, <1>3, <1>4 DEF From
<1>5. CASE s # "support"
  <2>1. s \in {"hygiene", "migrate"}
    BY <1>5 DEF Surfaces
  <2>2. \A l \in 1 .. i - 1 : c[l].at # t
    <3>1. ASSUME NEW l \in 1 .. i - 1, c[l].at = t PROVE FALSE
      <4>1. l \in 1 .. Len(Changes[s]) /\ l # i /\ l <= i
        BY <1>1, <3>1
      <4>2. CASE s = "hygiene"
        BY <1>2, <3>1, <4>1, <4>2 DEF PlansCohere
      <4>3. CASE s = "migrate"
        <5>1. i <= Split["migrate"] /\ l <= Split["migrate"]
          BY <1>1, <4>1, <4>3, ChangesAssumption DEF Checked, Surfaces
        <5>q. QED
          BY <1>2, <3>1, <4>1, <4>3, <5>1 DEF PlansCohere
      <4>q. QED
        BY <2>1, <4>2, <4>3
    <3>q. QED
      BY <3>1
  <2>3. j = 0
    BY <1>2, <2>2, LastIsNone
  <2>4. From(s, i, w) = w[t]
    <3>1. s \notin {"support", "probe"} /\ s # "probe"
      BY <2>1
    <3>2. From(s, i, w) = w[Changes[s][i].at]
      BY <3>1 DEF From
    <3>q. QED
      BY <1>2, <3>2
  <2>q. QED
    BY <1>2, <1>3, <2>3, <2>4
<1>q. QED
  BY <1>2, <1>4, <1>5

\* After k effects their readback finds what it asks for.
LEMMA ReadbackHolds ==
    ASSUME PlansCohere, NEW s \in Surfaces \ {"probe"}, NEW w \in Starts, Renders(s, w),
           NEW k \in 0 .. Len(Changes[s])
    PROVE  Holds(s, Rendered(s, w), k, After(s, w, k))
<1>1. Len(Changes[s]) \in Nat /\ Split[s] \in Nat
  BY ChangesAreTargets, ChangesAssumption
<1>2. PICK c, plan, u : c = Changes[s] /\ plan = Rendered(s, w) /\ u = After(s, w, k)
  OBVIOUS
<1>3. \A i \in 1 .. k : plan[i].at = c[i].at /\ plan[i].to = c[i].to /\ plan[i].from = From(s, i, w)
  BY <1>1, <1>2 DEF Rendered
<1>4. ASSUME NEW t \in Targets
      PROVE  /\ LastOf(c, k, t) > 0 => u[t] = c[LastOf(c, k, t)].to
             /\ LastOf(c, k, t) = 0 => u[t] = w[t]
  BY <1>2 DEF After
<1>5. \A i \in 1 .. k : i \in 1 .. Len(Changes[s]) /\ i > 0 /\ c[i].at \in Targets
  BY <1>1, <1>2, ChangesAreTargets
<1>6. CASE s = "hygiene"
  <2>1. ASSUME NEW i \in 1 .. k PROVE u[plan[i].at] = plan[i].to
    <3>1. \A j \in 1 .. k : c[j].at = c[i].at => j <= i
      BY <1>1, <1>2, <1>5, <1>6 DEF PlansCohere
    <3>2. LastOf(c, k, c[i].at) = i
      BY <1>1, <3>1, LastIs
    <3>q. QED
      BY <1>3, <1>4, <1>5, <3>2
  <2>q. QED
    BY <1>2, <1>6, <2>1 DEF Holds
<1>7. CASE s = "migrate"
  <2>1. ASSUME NEW i \in 1 .. k, ~(i <= Split[s]) PROVE u[plan[i].at] = plan[i].to
    <3>1. ASSUME NEW j \in 1 .. k, c[j].at = c[i].at, ~(j <= i) PROVE FALSE
      <4>1. ~(j <= Split[s]) /\ j # i
        BY <1>1, <2>1, <3>1
      <4>q. QED
        BY <1>2, <1>5, <1>7, <2>1, <3>1, <4>1 DEF PlansCohere
    <3>2. LastOf(c, k, c[i].at) = i
      BY <1>1, <3>1, LastIs
    <3>q. QED
      BY <1>3, <1>4, <1>5, <3>2
  <2>2. ASSUME NEW i \in 1 .. k, i <= Split[s] PROVE u[plan[i].at] # plan[i].from
    <3>1. PICK t : t = c[i].at
      OBVIOUS
    <3>2. t \in Targets /\ c[i].to = None /\ w[t] # None /\ plan[i].from = w[t]
      <4>1. i \in 1 .. Split[s]
        BY <1>1, <2>2
      <4>2. w[t] # None
        BY <1>2, <1>7, <3>1, <4>1 DEF Renders
      <4>3. c[i].to = None
        BY <1>2, <1>5, <1>7, <2>2 DEF PlansCohere
      <4>4. s \notin {"support", "probe"} /\ s # "probe"
        BY <1>7
      <4>5. From(s, i, w) = w[t]
        BY <1>2, <3>1, <4>4, Zenon DEF From
      <4>q. QED
        BY <1>3, <1>5, <3>1, <4>2, <4>3, <4>5
    <3>3. CASE \E j \in 1 .. k : c[j].at = t /\ ~(j <= Split[s])
      <4>1. PICK j \in 1 .. k : c[j].at = t /\ ~(j <= Split[s])
        BY <3>3
      <4>2. ASSUME NEW l \in 1 .. k, c[l].at = t, ~(l <= j) PROVE FALSE
        <5>1. ~(l <= Split[s]) /\ l # j
          BY <1>1, <4>1, <4>2
        <5>q. QED
          BY <1>2, <1>5, <1>7, <4>1, <4>2, <5>1 DEF PlansCohere
      <4>3. LastOf(c, k, t) = j
        BY <1>1, <4>1, <4>2, LastIs, SMTT(60)
      <4>4. u[t] = c[j].to
        BY <1>4, <1>5, <3>2, <4>3
      <4>5. c[j].to # w[t]
        BY <1>2, <1>5, <1>7, <4>1 DEF PlansCohere
      <4>q. QED
        BY <1>3, <3>1, <3>2, <4>4, <4>5
    <3>4. CASE ~\E j \in 1 .. k : c[j].at = t /\ ~(j <= Split[s])
      <4>1. ASSUME NEW l \in 1 .. k, c[l].at = t, ~(l <= i) PROVE FALSE
        <5>1. l <= Split[s] /\ l # i
          BY <1>1, <3>4, <4>1
        <5>q. QED
          BY <1>2, <1>5, <1>7, <2>2, <3>1, <4>1, <5>1 DEF PlansCohere
      <4>2. LastOf(c, k, t) = i
        BY <1>1, <3>1, <4>1, LastIs
      <4>q. QED
        BY <1>3, <1>4, <1>5, <3>1, <3>2, <4>2
    <3>q. QED
      BY <3>3, <3>4
  <2>3. \A i \in 1 .. k : IF i <= Split[s] THEN u[plan[i].at] # plan[i].from
                          ELSE u[plan[i].at] = plan[i].to
    BY <2>1, <2>2
  <2>4. s # "hygiene"
    BY <1>7
  <2>q. QED
    BY <1>2, <1>7, <2>3, <2>4 DEF Holds
<1>8. CASE s = "support"
  <2>1. ASSUME NEW i \in 1 .. k, LastOf(plan, k, plan[i].at) = i PROVE u[plan[i].at] = plan[i].to
    <3>1. LastOf(c, k, c[i].at) = i
      <4>1. LastOf(plan, k, c[i].at) = LastOf(c, k, c[i].at)
        BY <1>3, LastSame
      <4>q. QED
        BY <1>3, <2>1, <4>1
    <3>q. QED
      BY <1>3, <1>4, <1>5, <3>1
  <2>2. s # "hygiene" /\ s # "migrate"
    BY <1>8
  <2>q. QED
    BY <1>2, <1>8, <2>1, <2>2 DEF Holds
<1>q. QED
  BY <1>6, <1>7, <1>8 DEF Surfaces

\* A step of p, and what it must leave for the next one.
LEMMA OneRunSteps ==
    ASSUME IInv, UInv, NEW p \in Procs, proc[p].pc # "idle",
           UNCHANGED <<envelope, runs, edits>>,
           \A q \in Procs \ {p} : proc'[q].pc = proc[q].pc /\ proc'[q].action = proc[q].action,
           proc'[p].pc = "idle" \/ proc'[p].action = proc[p].action,
           hindered \subseteq hindered', hindered' \subseteq hindered \cup {proc[p].action},
           hindered' = {} => late' \subseteq late,
           \A a \in Actions \ {proc[p].action} : files'.receipt[a] = files.receipt[a],
           \A a \in Actions : <<"receipt", a>> \in files'.unflushed => files'.receipt[a] # "none",
           Undisturbed' => /\ OnPlan(proc[p])'
                           /\ \A a \in Actions : a = proc[p].action => Excused(a)'
    PROVE  UInv'
<1>1. proc[p].action \in Actions /\ Touched(proc[p].action) /\ runs # 0
  BY DEF IInv, Shapes, IsProc, UInv, Touched
<1>2. ASSUME NEW a, Touched(a)' PROVE Touched(a)
  <2>1. CASE a = proc[p].action
    BY <1>1, <2>1
  <2>2. CASE a # proc[p].action /\ \E q \in Procs : proc'[q].pc # "idle" /\ proc'[q].action = a
    BY <2>2 DEF Touched
  <2>3. CASE a # proc[p].action /\ a \in hindered'
    BY <2>3 DEF Touched
  <2>4. CASE a # proc[p].action /\ a \in Actions /\ files'.receipt[a] # "none"
    BY <2>4 DEF Touched
  <2>q. QED
    BY <1>2, <2>1, <2>2, <2>3, <2>4 DEF Touched
<1>3. runs' <= 1 => \A a, b : Touched(a)' /\ Touched(b)' => a = b
  BY <1>2 DEF UInv
<1>4. ASSUME NEW q \in Procs, proc'[q].pc # "idle" PROVE proc[q].pc # "idle"
  BY <1>4
<1>5. runs' <= 1 => \A q, r \in Procs : proc'[q].pc # "idle" /\ proc'[r].pc # "idle" => q = r
  BY <1>4 DEF UInv
<1>6. ASSUME Undisturbed'
      PROVE  (\A q \in Procs : OnPlan(proc[q])') /\ (\A a \in Actions : Excused(a)')
  <2>1. Undisturbed /\ runs <= 1
    BY <1>6 DEF Undisturbed
  <2>2. ASSUME NEW q \in Procs PROVE OnPlan(proc[q])'
    <3>1. CASE q = p
      BY <1>6, <3>1
    <3>2. CASE q # p
      <4>1. proc'[q].pc = "idle"
        BY <2>1, <3>2 DEF UInv
      <4>q. QED
        BY <4>1 DEF OnPlan
    <3>q. QED
      BY <3>1, <3>2
  <2>3. ASSUME NEW a \in Actions PROVE Excused(a)'
    <3>1. CASE a = proc[p].action
      BY <1>6, <3>1
    <3>2. CASE a # proc[p].action
      BY <2>1, <3>2 DEF UInv, Excused
    <3>q. QED
      BY <3>1, <3>2
  <2>q. QED
    BY <2>2, <2>3
<1>7. hindered' = {} => late' = {}
  BY DEF UInv
<1>8. runs' \in Nat /\ edits' \in Nat /\ runs' # 0
  BY <1>1 DEF UInv
<1>q. QED
  BY <1>3, <1>5, <1>6, <1>7, <1>8 DEF UInv

\* A step that files nothing.
LEMMA WorkingSteps ==
    ASSUME IInv, UInv, NEW p \in Procs, proc[p].pc # "idle",
           UNCHANGED <<envelope, runs, edits>>, files'.receipt = files.receipt,
           \A a \in Actions : <<"receipt", a>> \in files'.unflushed =>
               <<"receipt", a>> \in files.unflushed,
           \A q \in Procs \ {p} : proc'[q].pc = proc[q].pc /\ proc'[q].action = proc[q].action,
           proc'[p].pc = "idle" \/ proc'[p].action = proc[p].action,
           hindered \subseteq hindered', hindered' \subseteq hindered \cup {proc[p].action},
           hindered' = {} => late' \subseteq late,
           Undisturbed' => OnPlan(proc[p])'
    PROVE  UInv'
<1>1. \A a \in Actions : <<"receipt", a>> \in files'.unflushed => files'.receipt[a] # "none"
  BY DEF UInv
<1>2. ASSUME Undisturbed' PROVE \A a \in Actions : Excused(a)'
  BY <1>2 DEF UInv, Undisturbed, Excused
<1>q. QED
  BY <1>1, <1>2, OneRunSteps

\* The first steps of the run and the last.
LEMMA PlainStays ==
    ASSUME IInv, UInv, NEW p \in Procs,
           \/ Recheck(p) \/ Claim(p) \/ KeepClaim(p) \/ ClaimOperation(p) \/ Refused(p)
           \/ ReadFails(p) \/ KeepReceipt(p) \/ Dies(p)
    PROVE  UInv'
<1>1. /\ UNCHANGED <<page, late, envelope, runs, edits>>
      /\ hindered' = IF ReadFails(p) THEN hindered' ELSE hindered
  BY DEF Recheck, Claim, KeepClaim, ClaimOperation, Refused, ReadFails, KeepReceipt, Dies, history
<1>2. ReadFails(p) => hindered' = hindered \cup {proc[p].action}
  BY DEF ReadFails
<1>3. hindered \subseteq hindered' /\ hindered' \subseteq hindered \cup {proc[p].action}
  BY <1>1, <1>2
<1>4. /\ proc[p].pc # "idle" /\ \A q \in Procs \ {p} : proc'[q] = proc[q]
      /\ \/ proc'[p].pc = "idle"
         \/ /\ proc'[p].action = proc[p].action
            /\ \/ /\ proc'[p].pc \in Before /\ proc[p].pc \in Before \cup {"recheck"}
                  /\ proc'[p].failed = proc[p].failed
               \/ ReadFails(p)
               \/ OpenReceipt(p) \/ SignReceipt(p)
  BY PlainMoves
<1>5. /\ files'.receipt = files.receipt
      /\ \A a \in Actions : <<"receipt", a>> \in files'.unflushed =>
             <<"receipt", a>> \in files.unflushed
  <2>1. CASE files' = files
    BY <2>1
  <2>2. CASE Claim(p) \/ KeepClaim(p) \/ ClaimOperation(p) \/ KeepReceipt(p)
    <3>1. PICK o, k : o = proc[p].action /\ k = Key[o]
      OBVIOUS
    <3>2. /\ files'.receipt = files.receipt
          /\ files'.unflushed \subseteq files.unflushed \cup {<<"claim", o>>, <<"operation", k>>}
      <4>1. IsDisk(files)
        BY DEF IInv, Shapes
      <4>2. CASE Claim(p)
        BY <3>1, <4>1, <4>2 DEF IsDisk, Claim
      <4>3. CASE KeepClaim(p)
        BY <4>1, <4>3 DEF IsDisk, KeepClaim
      <4>4. CASE ClaimOperation(p)
        BY <3>1, <4>1, <4>4 DEF IsDisk, ClaimOperation
      <4>5. CASE KeepReceipt(p)
        BY <4>1, <4>5 DEF IsDisk, KeepReceipt
      <4>q. QED
        BY <2>2, <4>2, <4>3, <4>4, <4>5
    <3>q. QED
      BY <3>2
  <2>q. QED
    BY <2>1, <2>2 DEF Recheck, Refused, ReadFails, Dies
<1>6. ASSUME Undisturbed' PROVE OnPlan(proc[p])'
  <2>1. CASE proc'[p].pc = "idle"
    BY <2>1 DEF OnPlan
  <2>2. CASE proc'[p].pc # "idle"
    <3>1. ~ReadFails(p) /\ hindered' = {}
      BY <1>2, <1>6 DEF Undisturbed
    <3>2. ~OpenReceipt(p) /\ ~SignReceipt(p)
      <4>1. proc[p].pc \notin {"receipt", "sign"}
        BY <2>2, <3>1, IdleIsSound DEF Recheck, Claim, KeepClaim, ClaimOperation, Refused,
           KeepReceipt, Dies, At, Stop, IInv, Shapes
      <4>q. QED
        BY <4>1 DEF OpenReceipt, SignReceipt, At
    <3>3. /\ proc'[p].action = proc[p].action /\ proc'[p].failed = proc[p].failed
          /\ proc'[p].pc \in Before \ {"idle"}
          /\ proc[p].pc \in (Before \cup {"recheck"}) \ {"idle"}
      BY <1>4, <2>2, <3>1, <3>2
    <3>4. OnPlan(proc[p])
      BY <1>1, <1>3, <1>6 DEF UInv, Undisturbed
    <3>5. proc[p].pc \in Trying /\ proc'[p].pc \in Trying
      BY <3>3 DEF Before, Trying
    <3>6. Progress(proc[p]) = 0 /\ Progress(proc'[p]) = 0
      BY <3>3 DEF Before, Progress
    <3>7. PICK e : e = envelope[proc[p].action]
      OBVIOUS
    <3>8. e.surface # "probe" => ~proc[p].failed /\ Underway(e, 0)
      BY <3>3, <3>4, <3>5, <3>6, <3>7 DEF OnPlan
    <3>9. e.surface # "probe" => Underway(e, 0)'
      BY <1>1, <3>8 DEF Underway
    <3>10. envelope'[proc'[p].action] = e
      BY <1>1, <3>3, <3>7
    <3>11. proc'[p].pc # "check"
      BY <3>3 DEF Before
    <3>q. QED
      BY <3>3, <3>6, <3>8, <3>9, <3>10, <3>11 DEF OnPlan
  <2>q. QED
    BY <2>1, <2>2
<1>q. QED
  BY <1>1, <1>3, <1>4, <1>5, <1>6, WorkingSteps DEF Recheck, Claim, KeepClaim, ClaimOperation, Refused,
     KeepReceipt, Dies, ReadFails

LEMMA OpenReceiptStays == ASSUME IInv, UInv, NEW p \in Procs, OpenReceipt(p) PROVE UInv'
<1>1. PICK a : a = proc[p].action
  OBVIOUS
<1>2. /\ proc[p].pc = "receipt" /\ a \in Actions
      /\ UNCHANGED <<page, late, envelope, runs, edits, hindered>>
  BY <1>1 DEF OpenReceipt, At, history, IInv, Shapes, IsProc
<1>3. PICK x : x = [proc[p] EXCEPT !.pc = "sign"]
  OBVIOUS
<1>4. x.pc = "sign" /\ x.action = a /\ x.failed = proc[p].failed
  BY <1>1, <1>3 DEF IInv, Shapes, IsProc
<1>5. proc'[p] = x /\ \A q \in Procs \ {p} : proc'[q] = proc[q]
  BY <1>3 DEF OpenReceipt, Goto, IInv, Shapes
<1>6. /\ files'.unflushed = files.unflushed \cup {<<"receipt", a>>}
      /\ files'.receipt[a] = "torn"
      /\ \A o \in Actions \ {a} : files'.receipt[o] = files.receipt[o]
  BY <1>1, <1>2 DEF IInv, Shapes, IsDisk, OpenReceipt
<1>7. \A o \in Actions : <<"receipt", o>> \in files'.unflushed => files'.receipt[o] # "none"
  <2>1. ASSUME NEW o \in Actions, <<"receipt", o>> \in files'.unflushed
        PROVE  files'.receipt[o] # "none"
    <3>1. CASE o = a
      BY <1>6, <3>1
    <3>2. CASE o # a
      BY <1>6, <2>1, <3>2 DEF UInv
    <3>q. QED
      BY <3>1, <3>2
  <2>q. QED
    BY <2>1
<1>8. ASSUME Undisturbed'
      PROVE  OnPlan(proc[p])' /\ \A o \in Actions : o = proc[p].action => Excused(o)'
  <2>1. OnPlan(proc[p])
    BY <1>2, <1>8 DEF UInv, Undisturbed
  <2>2. OnPlan(proc[p])'
    BY <1>1, <1>2, <1>4, <1>5, <2>1 DEF OnPlan, Trying
  <2>3. Excused(a)'
    BY <1>6 DEF Excused, Failures
  <2>q. QED
    BY <1>1, <2>2, <2>3
<1>q. QED
  BY <1>1, <1>2, <1>4, <1>5, <1>6, <1>7, <1>8, OneRunSteps

\* A run that is on its plan has nothing bad to report.
LEMMA SignReceiptStays == ASSUME IInv, UInv, NEW p \in Procs, SignReceipt(p) PROVE UInv'
<1>1. PICK a, r : a = proc[p].action /\ r = OutcomeOf(p)
  OBVIOUS
<1>2. /\ proc[p].pc = "sign" /\ a \in Actions
      /\ UNCHANGED <<page, late, envelope, runs, edits, hindered>>
  BY <1>1 DEF SignReceipt, At, history, IInv, Shapes, IsProc
<1>3. PICK x : x = [proc[p] EXCEPT !.pc = "keepReceipt"]
  OBVIOUS
<1>4. x.pc = "keepReceipt" /\ x.action = a /\ x.failed = proc[p].failed
  BY <1>1, <1>3 DEF IInv, Shapes, IsProc
<1>5. proc'[p] = x /\ \A q \in Procs \ {p} : proc'[q] = proc[q]
  BY <1>3 DEF SignReceipt, Goto, IInv, Shapes
<1>6. /\ files'.unflushed = files.unflushed /\ files'.receipt[a] = r
      /\ \A o \in Actions \ {a} : files'.receipt[o] = files.receipt[o]
  BY <1>1, <1>2 DEF IInv, Shapes, IsDisk, SignReceipt
<1>7. \A o \in Actions : <<"receipt", o>> \in files'.unflushed => files'.receipt[o] # "none"
  <2>1. r # "none"
    BY <1>1 DEF OutcomeOf
  <2>q. QED
    BY <1>6, <2>1 DEF UInv
<1>8. ASSUME Undisturbed'
      PROVE  OnPlan(proc[p])' /\ \A o \in Actions : o = proc[p].action => Excused(o)'
  <2>1. OnPlan(proc[p])
    BY <1>2, <1>8 DEF UInv, Undisturbed
  <2>2. OnPlan(proc[p])'
    BY <1>1, <1>2, <1>4, <1>5, <2>1 DEF OnPlan, Trying
  <2>3. r \in Failures => envelope[a].surface = "probe"
    <3>1. envelope[a].surface # "probe" => ~proc[p].failed
      BY <1>1, <1>2, <2>1 DEF OnPlan
    <3>2. ~proc[p].failed => r = "succeeded"
      BY <1>1 DEF OutcomeOf
    <3>3. CASE r = "succeeded"
      BY <3>3 DEF Failures
    <3>4. CASE r # "succeeded"
      BY <3>1, <3>2, <3>4
    <3>q. QED
      BY <3>3, <3>4
  <2>4. Excused(a)'
    BY <1>2, <1>6, <2>3 DEF Excused
  <2>q. QED
    BY <1>1, <2>2, <2>4
<1>q. QED
  BY <1>1, <1>2, <1>4, <1>5, <1>6, <1>7, <1>8, OneRunSteps

\* The effect at hand of a run that is on its plan.
LEMMA OnPlanEffect ==
    ASSUME IInv, PInv, NEW p \in Procs, OnPlan(proc[p]), Surface(p) # "probe",
           proc[p].pc \in {"check", "write", "prove"}
    PROVE  /\ ~proc[p].failed /\ Surface(p) \in Surfaces \ {"probe"}
           /\ proc[p].n \in 1 .. Len(Changes[Surface(p)])
           /\ Len(Plan(p)) = Len(Changes[Surface(p)])
           /\ proc[p].pc = "check" => Checked(Surface(p), proc[p].n)
           /\ \E w \in Starts :
                /\ Renders(Surface(p), w) /\ Plan(p) = Rendered(Surface(p), w)
                /\ page = After(Surface(p), w, Progress(proc[p]))
                /\ Effect(p) = [ at |-> Changes[Surface(p)][proc[p].n].at,
                                 from |-> From(Surface(p), proc[p].n, w),
                                 to |-> Changes[Surface(p)][proc[p].n].to ]
<1>1. Surface(p) \in Surfaces /\ Len(Plan(p)) = Len(Changes[Surface(p)])
  BY PlanFollows
<1>2. proc[p].n \in 1 .. Len(Changes[Surface(p)])
  BY DEF PInv, AtHand, Surface
<1>3. /\ ~proc[p].failed /\ Underway(envelope[proc[p].action], Progress(proc[p]))
      /\ proc[p].pc = "check" => Checked(Surface(p), proc[p].n)
  BY DEF OnPlan, Trying, Surface
<1>4. PICK w \in Starts :
        /\ Renders(Surface(p), w) /\ Plan(p) = Rendered(Surface(p), w)
        /\ page = After(Surface(p), w, Progress(proc[p]))
  BY <1>3 DEF Underway, Surface, Plan
<1>5. PICK s, n : s = Surface(p) /\ n = proc[p].n
  OBVIOUS
<1>6. Rendered(s, w)[n] = [at |-> Changes[s][n].at, from |-> From(s, n, w), to |-> Changes[s][n].to]
  BY <1>2, <1>5 DEF Rendered
<1>7. Effect(p) = Rendered(s, w)[n]
  BY <1>4, <1>5 DEF Effect
<1>q. QED
  BY <1>1, <1>2, <1>3, <1>4, <1>5, <1>6, <1>7

\* The process has gone on, and the workspace with it.
LEMMA StaysOnPlan ==
    ASSUME NEW p \in Procs, UNCHANGED envelope, proc'[p].action = proc[p].action,
           ~proc'[p].failed, NEW k, Progress(proc'[p]) = k,
           proc'[p].pc = "check" => Checked(Surface(p), proc'[p].n),
           proc'[p].pc \in Trying => Underway(envelope[proc[p].action], k)'
    PROVE  OnPlan(proc[p])'
<1>1. envelope'[proc'[p].action] = envelope[proc[p].action]
  OBVIOUS
<1>q. QED
  BY <1>1 DEF OnPlan, Surface

LEMMA KeepOperationStays == ASSUME IInv, UInv, NEW p \in Procs, KeepOperation(p) PROVE UInv'
<1>1. UNCHANGED <<page, late, envelope, runs, edits, hindered>>
  BY DEF KeepOperation, history
<1>2. /\ proc[p].pc = "keepOperation" /\ proc'[p].pc = Approach(Surface(p), 1)
      /\ proc'[p].n = 1 /\ proc'[p].action = proc[p].action
      /\ proc'[p].failed = proc[p].failed /\ \A q \in Procs \ {p} : proc'[q] = proc[q]
  BY KeepOperationMoves
<1>3. files'.receipt = files.receipt /\ files'.unflushed \subseteq files.unflushed
  BY DEF IInv, Shapes, IsDisk, KeepOperation
<1>4. ASSUME Undisturbed' PROVE OnPlan(proc[p])'
  <2>1. OnPlan(proc[p])
    BY <1>1, <1>4 DEF UInv, Undisturbed
  <2>2. proc'[p].pc \in {"check", "write"}
    BY <1>2 DEF Approach
  <2>3. Progress(proc[p]) = 0 /\ Progress(proc'[p]) = 0
    BY <1>2, <2>2 DEF Progress
  <2>4. PICK e : e = envelope[proc[p].action]
    OBVIOUS
  <2>5. e.surface # "probe" => ~proc[p].failed /\ Underway(e, 0)
    BY <1>2, <2>1, <2>3, <2>4 DEF OnPlan, Trying
  <2>6. Underway(e, 0) => Underway(e, 0)'
    BY <1>1 DEF Underway
  <2>7. CASE e.surface = "probe"
    BY <1>1, <1>2, <2>4, <2>7 DEF OnPlan
  <2>8. CASE e.surface # "probe"
    <3>1. proc'[p].pc = "check" => Checked(Surface(p), proc'[p].n)
      BY <1>2 DEF Approach
    <3>q. QED
      BY <1>1, <1>2, <2>3, <2>4, <2>5, <2>6, <2>8, <3>1, StaysOnPlan
  <2>q. QED
    BY <2>7, <2>8
<1>q. QED
  BY <1>1, <1>2, <1>3, <1>4, WorkingSteps

LEMMA CheckStays ==
    ASSUME PlansCohere, IInv, PInv, UInv, NEW p \in Procs, Check(p) PROVE UInv'
<1>1. UNCHANGED <<page, late, envelope, files, runs, edits, hindered>>
  BY DEF Check, history
<1>2. /\ proc[p].pc = "check" /\ proc'[p].action = proc[p].action
      /\ \A q \in Procs \ {p} : proc'[q] = proc[q]
      /\ \/ /\ page[Effect(p).at] = Effect(p).from
            /\ proc'[p].pc = "write" /\ proc'[p].n = proc[p].n
            /\ proc'[p].failed = proc[p].failed
         \/ page[Effect(p).at] # Effect(p).from
  BY CheckMoves
<1>3. ASSUME Undisturbed' PROVE OnPlan(proc[p])'
  <2>1. OnPlan(proc[p])
    BY <1>1, <1>3 DEF UInv, Undisturbed
  <2>2. PICK e, n : e = envelope[proc[p].action] /\ n = proc[p].n
    OBVIOUS
  <2>3. CASE e.surface = "probe"
    BY <1>1, <1>2, <2>2, <2>3 DEF OnPlan
  <2>4. CASE e.surface # "probe"
    <3>1. Surface(p) # "probe"
      BY <2>2, <2>4 DEF Surface
    <3>2. ~proc[p].failed /\ Surface(p) \in Surfaces \ {"probe"} /\ n \in 1 .. Len(Changes[Surface(p)])
      BY <1>2, <2>1, <2>2, <3>1, OnPlanEffect
    <3>3. PICK w \in Starts :
            /\ Renders(Surface(p), w) /\ Plan(p) = Rendered(Surface(p), w)
            /\ page = After(Surface(p), w, Progress(proc[p]))
            /\ Effect(p) = [ at |-> Changes[Surface(p)][n].at, from |-> From(Surface(p), n, w),
                             to |-> Changes[Surface(p)][n].to ]
      BY <1>2, <2>1, <2>2, <3>1, OnPlanEffect
    <3>4. Progress(proc[p]) = n - 1
      BY <1>2, <2>2, SMTT(60) DEF Progress
    <3>5. page = After(e.surface, w, n - 1)
      BY <2>2, <3>3, <3>4 DEF Surface
    <3>6. page[Effect(p).at] = Effect(p).from
      <4>1. Checked(Surface(p), n)
        BY <1>2, <2>1, <2>2, <3>1, OnPlanEffect
      <4>2. After(Surface(p), w, n - 1)[Changes[Surface(p)][n].at] = From(Surface(p), n, w)
        BY <3>2, <4>1, ComparisonHolds
      <4>3. /\ Effect(p).at = Changes[Surface(p)][n].at
            /\ Effect(p).from = From(Surface(p), n, w)
        BY <3>3
      <4>4. page = After(Surface(p), w, n - 1)
        BY <3>3, <3>4
      <4>q. QED
        BY <4>2, <4>3, <4>4
    <3>7. proc'[p].pc = "write" /\ proc'[p].n = n /\ ~proc'[p].failed
      BY <1>2, <2>2, <3>2, <3>6
    <3>8. Progress(proc'[p]) = n - 1
      BY <3>7, SMTT(60) DEF Progress
    <3>9. Underway(e, n - 1)'
      BY <1>1, <2>2, <3>3, <3>5, Zenon DEF Underway, Surface, Plan
    <3>q. QED
      BY <1>1, <1>2, <2>2, <3>7, <3>8, <3>9, StaysOnPlan
  <2>q. QED
    BY <2>3, <2>4
<1>q. QED
  BY <1>1, <1>2, <1>3, WorkingSteps

LEMMA WriteStays ==
    ASSUME IInv, PInv, UInv, NEW p \in Procs, Write(p) PROVE UInv'
<1>1. /\ UNCHANGED <<late, envelope, files, runs, edits, hindered>>
      /\ page' = [page EXCEPT ![Effect(p).at] = Effect(p).to]
  BY DEF Write, Send, TakesHold
<1>2. /\ proc[p].pc = "write" /\ proc'[p].action = proc[p].action
      /\ \A q \in Procs \ {p} : proc'[q] = Racing(Effect(p).at)[q]
  BY SendMoves
<1>3. \A q \in Procs \ {p} : proc'[q].pc = proc[q].pc /\ proc'[q].action = proc[q].action
  BY <1>2, RacingLike DEF Like
<1>4. /\ proc'[p].failed = proc[p].failed
      /\ IF ProvesAfter(Surface(p), proc[p].n)
         THEN proc'[p].pc = "prove" /\ proc'[p].n = proc[p].n
         ELSE /\ proc'[p].pc = Approach(Surface(p), proc[p].n + 1)
              /\ proc'[p].n = proc[p].n + 1
  BY WriteMoves
<1>5. ASSUME Undisturbed' PROVE OnPlan(proc[p])'
  <2>1. OnPlan(proc[p])
    BY <1>1, <1>5 DEF UInv, Undisturbed
  <2>2. PICK e, s, n : e = envelope[proc[p].action] /\ n = proc[p].n /\ s = e.surface
    OBVIOUS
  <2>3. CASE s = "probe"
    BY <1>1, <1>2, <2>2, <2>3 DEF OnPlan
  <2>4. CASE s # "probe"
    <3>1. Surface(p) = s /\ Surface(p) # "probe"
      BY <2>2, <2>4 DEF Surface
    <3>2. ~proc[p].failed /\ s \in Surfaces \ {"probe"} /\ n \in 1 .. Len(Changes[s])
      BY <1>2, <2>1, <2>2, <3>1, OnPlanEffect, SMTT(60)
    <3>3. PICK w \in Starts :
            /\ Renders(s, w) /\ Plan(p) = Rendered(s, w)
            /\ page = After(s, w, Progress(proc[p]))
            /\ Effect(p) = [ at |-> Changes[s][n].at, from |-> From(s, n, w),
                             to |-> Changes[s][n].to ]
      BY <1>2, <2>1, <2>2, <3>1, OnPlanEffect
    <3>4. Progress(proc[p]) = n - 1 /\ n \in Nat
      BY <1>2, <2>2, <3>2, ChangesAreTargets DEF Progress
    <3>5. page' = [page EXCEPT ![Changes[s][n].at] = Changes[s][n].to]
      <4>1. Effect(p).at = Changes[s][n].at /\ Effect(p).to = Changes[s][n].to
        BY <3>3
      <4>q. QED
        BY <1>1, <4>1
    <3>6. page' = After(s, w, n)
      <4>1. After(s, w, n) = [After(s, w, n - 1) EXCEPT ![Changes[s][n].at] = Changes[s][n].to]
        BY <3>2, AfterStep
      <4>q. QED
        BY <3>3, <3>4, <3>5, <4>1
    <3>7. Progress(proc'[p]) = n
      BY <1>4, <2>2, <3>4, SMTT(60) DEF Progress, Approach
    <3>8. Underway(e, n)'
      BY <2>2, <3>3, <3>6, Zenon DEF Underway, Plan
    <3>9. proc'[p].pc = "check" => Checked(Surface(p), proc'[p].n)
      BY <1>4 DEF Approach
    <3>q. QED
      BY <1>1, <1>2, <1>4, <2>2, <3>2, <3>7, <3>8, <3>9, StaysOnPlan
  <2>q. QED
    BY <2>3, <2>4
<1>q. QED
  BY <1>1, <1>2, <1>3, <1>5, WorkingSteps

LEMMA WriteFailsStays ==
    ASSUME IInv, UInv, NEW p \in Procs, WriteFails(p) PROVE UInv'
<1>1. /\ UNCHANGED <<envelope, files, runs, edits>>
      /\ hindered' = hindered \cup {proc[p].action}
  BY DEF WriteFails, Send
<1>2. /\ proc[p].pc = "write" /\ proc'[p].action = proc[p].action
      /\ \A q \in Procs \ {p} : proc'[q] = Racing(Effect(p).at)[q]
  BY SendMoves
<1>3. \A q \in Procs \ {p} : proc'[q].pc = proc[q].pc /\ proc'[q].action = proc[q].action
  BY <1>2, RacingLike DEF Like
<1>4. ~Undisturbed' /\ hindered' # {}
  BY <1>1 DEF Undisturbed
<1>q. QED
  BY <1>1, <1>2, <1>3, <1>4, WorkingSteps

LEMMA ProveStays ==
    ASSUME PlansCohere, IInv, PInv, UInv, NEW p \in Procs, Prove(p) PROVE UInv'
<1>1. UNCHANGED <<page, late, envelope, files, runs, edits, hindered>>
  BY DEF Prove, history
<1>2. /\ proc[p].pc = "prove" /\ proc'[p].action = proc[p].action
      /\ \A q \in Procs \ {p} : proc'[q] = proc[q]
      /\ \/ ~Holds(Surface(p), Plan(p), proc[p].n, page)
         \/ proc'[p].pc = "receipt" /\ proc'[p].failed = proc[p].failed
         \/ /\ proc'[p].pc = Approach(Surface(p), proc[p].n + 1)
            /\ proc'[p].n = proc[p].n + 1 /\ proc'[p].failed = proc[p].failed
  BY ProveMoves
<1>3. ASSUME Undisturbed' PROVE OnPlan(proc[p])'
  <2>1. OnPlan(proc[p])
    BY <1>1, <1>3 DEF UInv, Undisturbed
  <2>2. PICK e, s, n : e = envelope[proc[p].action] /\ n = proc[p].n /\ s = e.surface
    OBVIOUS
  <2>3. CASE s = "probe"
    BY <1>1, <1>2, <2>2, <2>3 DEF OnPlan
  <2>4. CASE s # "probe"
    <3>1. Surface(p) = s /\ Surface(p) # "probe"
      BY <2>2, <2>4 DEF Surface
    <3>2. ~proc[p].failed /\ s \in Surfaces \ {"probe"} /\ n \in 1 .. Len(Changes[s])
      BY <1>2, <2>1, <2>2, <3>1, OnPlanEffect
    <3>3. PICK w \in Starts :
            /\ Renders(s, w) /\ Plan(p) = Rendered(s, w)
            /\ page = After(s, w, Progress(proc[p]))
      BY <1>2, <2>1, <2>2, <3>1, OnPlanEffect
    <3>4. Progress(proc[p]) = n /\ n \in Nat /\ n \in 0 .. Len(Changes[s])
      BY <1>2, <2>2, <3>2, ChangesAreTargets DEF Progress
    <3>5. Holds(s, Rendered(s, w), n, After(s, w, n))
      BY <3>2, <3>3, <3>4, ReadbackHolds
    <3>6. Holds(Surface(p), Plan(p), proc[p].n, page)
      BY <2>2, <3>1, <3>3, <3>4, <3>5
    <3>7. Underway(e, n)'
      BY <1>1, <2>2, <3>3, <3>4 DEF Underway, Plan
    <3>8. CASE proc'[p].pc = "receipt" /\ proc'[p].failed = proc[p].failed
      BY <1>1, <1>2, <3>2, <3>8 DEF OnPlan, Trying
    <3>9. CASE /\ proc'[p].pc = Approach(Surface(p), proc[p].n + 1)
               /\ proc'[p].n = proc[p].n + 1 /\ proc'[p].failed = proc[p].failed
      <4>1. Progress(proc'[p]) = n
        BY <2>2, <3>4, <3>9 DEF Progress, Approach
      <4>2. proc'[p].pc = "check" => Checked(Surface(p), proc'[p].n)
        BY <3>9 DEF Approach
      <4>q. QED
        BY <1>1, <1>2, <2>2, <3>2, <3>7, <3>9, <4>1, <4>2, StaysOnPlan
    <3>q. QED
      BY <1>2, <3>6, <3>8, <3>9
  <2>q. QED
    BY <2>3, <2>4
<1>q. QED
  BY <1>1, <1>2, <1>3, WorkingSteps

\* The first run renders its plan from what it finds.
LEMMA BeginStays ==
    ASSUME IInv, UInv, NEW p \in Procs, NEW a \in Actions, Begin(p, a) PROVE UInv'
<1>1. /\ proc'[p].pc \in {"recheck", "claim"} /\ proc'[p].action = a
      /\ proc'[p].failed = FALSE /\ \A q \in Procs \ {p} : proc'[q] = proc[q]
  BY BeginMoves
<1>2. /\ UNCHANGED <<page, late, envelope, files, edits, hindered>>
      /\ runs' = runs + 1 /\ Matches(a) /\ envelope[a] # None
  BY DEF Begin, history
<1>3. runs \in Nat /\ edits \in Nat
  BY DEF UInv
<1>4. CASE runs # 0
  <2>1. runs' \in Nat /\ runs' # 0 /\ ~(runs' <= 1)
    BY <1>2, <1>3, <1>4
  <2>2. ~Undisturbed'
    BY <2>1 DEF Undisturbed
  <2>q. QED
    BY <1>2, <2>1, <2>2 DEF UInv
<1>5. CASE runs = 0
  <2>1. \A o : ~Touched(o)
    BY <1>5 DEF UInv
  <2>2. \A q \in Procs : proc[q].pc = "idle"
    BY <2>1 DEF Touched
  <2>3. /\ hindered = {} /\ \A o \in Actions : files.receipt[o] = "none"
    BY <2>1 DEF Touched
  <2>4. \A o : Touched(o)' => o = a
    BY <1>1, <1>2, <2>2, <2>3 DEF Touched
  <2>5. \A q \in Procs : proc'[q].pc # "idle" => q = p
    BY <1>1, <2>2
  <2>6. ASSUME Undisturbed' PROVE OnPlan(proc[p])'
    <3>1. edits = 0 /\ page \in Starts
      BY <1>2, <1>5, <2>6 DEF Undisturbed, UInv
    <3>2. PICK e, s, w : e = envelope[a] /\ s = e.surface /\ w = page
      OBVIOUS
    <3>3. CASE s = "probe"
      BY <1>1, <1>2, <3>2, <3>3 DEF OnPlan
    <3>4. CASE s # "probe"
      <4>1. Renders(s, w) /\ e.plan = Rendered(s, w) /\ w \in Starts
        BY <1>2, <3>1, <3>2, <3>4 DEF Matches
      <4>2. page' = After(s, w, 0)
        BY <1>2, <3>2, <4>1, AfterNone
      <4>3. Underway(e, 0)'
        BY <3>2, <4>1, <4>2 DEF Underway
      <4>4. Progress(proc'[p]) = 0 /\ proc'[p].pc # "check"
        BY <1>1 DEF Progress
      <4>q. QED
        BY <1>1, <1>2, <3>2, <4>3, <4>4 DEF OnPlan
    <3>q. QED
      BY <3>3, <3>4
  <2>7. ASSUME Undisturbed', NEW q \in Procs PROVE OnPlan(proc[q])'
    <3>1. CASE q = p
      BY <2>6, <2>7, <3>1
    <3>2. CASE q # p
      BY <2>5, <3>2 DEF OnPlan
    <3>q. QED
      BY <3>1, <3>2
  <2>8. \A o \in Actions : Excused(o)'
    BY <1>2, <2>3 DEF Excused, Failures
  <2>9. /\ runs' \in Nat /\ runs' # 0 /\ edits' \in Nat
        /\ hindered' = {} => late' = {}
        /\ \A o \in Actions : <<"receipt", o>> \in files'.unflushed => files'.receipt[o] # "none"
    BY <1>2, <1>3, <1>5 DEF UInv
  <2>q. QED
    BY <2>4, <2>5, <2>7, <2>8, <2>9 DEF UInv
<1>q. QED
  BY <1>4, <1>5

\* What people, the provider and the machine do besides.
LEMMA ApproveStays ==
    ASSUME IInv, UInv, NEW a \in Actions, NEW s \in Surfaces, Approve(a, s) PROVE UInv'
<1>1. /\ envelope[a] = None /\ UNCHANGED <<page, late, files, proc, runs, edits, hindered>>
      /\ \A o \in Actions \ {a} : envelope'[o] = envelope[o]
  BY DEF Approve, history, IInv, Shapes
<1>2. \A o : Touched(o)' <=> Touched(o)
  BY <1>1 DEF Touched
<1>3. Undisturbed' => Undisturbed
  BY <1>1 DEF Undisturbed
<1>4. ASSUME Undisturbed, NEW q \in Procs PROVE OnPlan(proc[q])'
  <2>1. CASE proc[q].pc = "idle"
    BY <1>1, <2>1 DEF OnPlan
  <2>2. CASE proc[q].pc # "idle"
    <3>1. proc[q].action \in Actions \ {a}
      BY <1>1, <2>2 DEF IInv, Shapes, IsProc
    <3>2. PICK e, x : e = envelope[proc[q].action] /\ x = proc[q]
      OBVIOUS
    <3>3. envelope'[proc'[q].action] = e /\ proc'[q] = x
      BY <1>1, <3>1, <3>2
    <3>4. x.pc # "idle" /\ e.surface # "probe" =>
             /\ ~x.failed /\ (x.pc = "check" => Checked(e.surface, x.n))
             /\ x.pc \in Trying => Underway(e, Progress(x))
      BY <1>4, <3>2 DEF UInv, OnPlan
    <3>5. PICK k : k = Progress(x)
      OBVIOUS
    <3>6. Underway(e, k) => Underway(e, k)'
      BY <1>1 DEF Underway
    <3>q. QED
      BY <3>3, <3>4, <3>5, <3>6 DEF OnPlan
  <2>q. QED
    BY <2>1, <2>2
<1>5. ASSUME Undisturbed, NEW o \in Actions PROVE Excused(o)'
  <2>1. CASE o = a
    <3>1. files.receipt[a] \notin Failures
      BY <1>1 DEF IInv, Told, Outcomes, Failures
    <3>q. QED
      BY <1>1, <2>1, <3>1 DEF Excused
  <2>2. CASE o # a
    BY <1>1, <1>5, <2>2 DEF UInv, Excused
  <2>q. QED
    BY <2>1, <2>2
<1>q. QED
  BY <1>1, <1>2, <1>3, <1>4, <1>5 DEF UInv

\* Once somebody wrote, or a call failed, nothing is promised.
LEMMA RacedStays ==
    ASSUME IInv, UInv, NEW t, proc' = Racing(t), UNCHANGED <<envelope, files, runs, hindered>>,
           late' \subseteq late, edits' \in Nat, edits' # 0 \/ (runs # 0 /\ hindered # {})
    PROVE  UInv'
<1>1. \A q \in Procs : proc'[q].pc = proc[q].pc /\ proc'[q].action = proc[q].action
  BY RacingLike DEF Like
<1>2. \A o : Touched(o)' <=> Touched(o)
  BY <1>1 DEF Touched
<1>3. ~Undisturbed'
  BY DEF Undisturbed
<1>4. runs' <= 1 => \A p, q \in Procs : proc'[p].pc # "idle" /\ proc'[q].pc # "idle" => p = q
  BY <1>1 DEF UInv
<1>q. QED
  BY <1>2, <1>3, <1>4 DEF UInv

LEMMA EditStays == ASSUME IInv, UInv, NEW t, NEW v, Edit(t, v) PROVE UInv'
<1>1. /\ proc' = Racing(t) /\ UNCHANGED <<envelope, files, runs, hindered, late>>
      /\ edits' = edits + 1
  BY DEF Edit, history
<1>2. edits \in Nat
  BY DEF UInv
<1>3. edits' \in Nat /\ edits' # 0
  BY <1>1, <1>2
<1>q. QED
  BY <1>1, <1>3, RacedStays

LEMMA LandStays == ASSUME IInv, UInv, NEW w \in late, Land(w) PROVE UInv'
<1>1. PICK t : t = w.at
  OBVIOUS
<1>2. /\ proc' = Racing(t) /\ UNCHANGED <<envelope, files, runs, hindered, edits>>
      /\ late' \subseteq late
  BY <1>1 DEF Land
<1>3. hindered # {} /\ edits \in Nat
  BY DEF UInv
<1>4. runs # 0
  BY <1>3 DEF UInv, Touched
<1>q. QED
  BY <1>2, <1>3, <1>4, RacedStays

LEMMA PowerLossStays == ASSUME IInv, UInv, PowerLoss PROVE UInv'
<1>1. /\ UNCHANGED <<page, late, envelope, runs, edits, hindered>>
      /\ \A p \in Procs : proc'[p].pc = "idle"
  BY IdleIsSound DEF PowerLoss
<1>2. PICK lost \in SUBSET files.unflushed, cut \in {"none", "torn"} :
        /\ files'.unflushed = {}
        /\ \A a \in Actions : files'.receipt[a] = IF <<"receipt", a>> \in lost THEN cut
                                                  ELSE files.receipt[a]
  <2>1. PICK lost \in SUBSET files.unflushed, cut \in {"none", "torn"} :
         files' = [ claims |-> {a \in files.claims : <<"claim", a>> \notin lost},
                    operations |-> {k \in files.operations :
                                       <<"operation", k>> \notin lost},
                    receipt |-> [a \in Actions |->
                        IF <<"receipt", a>> \in lost THEN cut
                        ELSE files.receipt[a]],
                    unflushed |-> {} ]
    BY DEF PowerLoss
  <2>2. PICK cs, os, rs : /\ cs = {a \in files.claims : <<"claim", a>> \notin lost}
                          /\ os = {k \in files.operations : <<"operation", k>> \notin lost}
                          /\ rs = [a \in Actions |-> IF <<"receipt", a>> \in lost THEN cut
                                                     ELSE files.receipt[a]]
    OBVIOUS
  <2>3. files' = [claims |-> cs, operations |-> os, receipt |-> rs, unflushed |-> {}]
    BY <2>1, <2>2
  <2>4. files'.receipt = rs /\ files'.unflushed = {}
    BY <2>3
  <2>q. QED
    BY <2>2, <2>4
<1>3. ASSUME NEW a \in Actions, files'.receipt[a] # "none" PROVE files.receipt[a] # "none"
  BY <1>2, <1>3 DEF UInv
<1>4. \A o : Touched(o)' => Touched(o)
  BY <1>1, <1>3 DEF Touched
<1>5. \A q \in Procs : OnPlan(proc[q])'
  BY <1>1 DEF OnPlan
<1>6. ASSUME Undisturbed', NEW a \in Actions PROVE Excused(a)'
  <2>1. Excused(a) /\ files'.receipt[a] \in Failures => files'.receipt[a] = files.receipt[a]
    BY <1>2 DEF Failures
  <2>2. Undisturbed
    BY <1>1, <1>6 DEF Undisturbed
  <2>q. QED
    BY <1>1, <2>1, <2>2 DEF UInv, Excused
<1>q. QED
  BY <1>1, <1>2, <1>4, <1>5, <1>6 DEF UInv

LEMMA NextStays ==
    ASSUME PlansCohere, IInv, PInv, UInv, [Next]_vars PROVE UInv'
<1>1. ASSUME NEW p \in Procs, Advance(p) \/ Dies(p) PROVE UInv'
  BY <1>1, PlainStays, KeepOperationStays, CheckStays, WriteStays, WriteFailsStays, ProveStays,
     OpenReceiptStays, SignReceiptStays DEF Advance
<1>2. ASSUME UNCHANGED vars PROVE UInv'
  <2>1. UNCHANGED <<page, late, envelope, files, proc, runs, edits, hindered>>
    BY <1>2 DEF vars, history
  <2>2. /\ \A o : Touched(o)' <=> Touched(o)
        /\ Undisturbed' <=> Undisturbed
    BY <2>1 DEF Touched, Undisturbed
  <2>3. ASSUME NEW q \in Procs, OnPlan(proc[q]) PROVE OnPlan(proc[q])'
    <3>1. PICK e, x, k : e = envelope[proc[q].action] /\ x = proc[q] /\ k = Progress(x)
      OBVIOUS
    <3>2. envelope'[proc'[q].action] = e /\ proc'[q] = x
      BY <2>1, <3>1
    <3>3. x.pc # "idle" /\ e.surface # "probe" =>
             /\ ~x.failed /\ (x.pc = "check" => Checked(e.surface, x.n))
             /\ x.pc \in Trying => Underway(e, k)
      BY <2>3, <3>1 DEF OnPlan
    <3>4. Underway(e, k) => Underway(e, k)'
      BY <2>1 DEF Underway
    <3>q. QED
      BY <3>1, <3>2, <3>3, <3>4 DEF OnPlan
  <2>4. \A a \in Actions : Excused(a)' <=> Excused(a)
    BY <2>1 DEF Excused
  <2>q. QED
    BY <2>1, <2>2, <2>3, <2>4 DEF UInv
<1>q. QED
  BY <1>1, <1>2, BeginStays, ApproveStays, EditStays, LandStays, PowerLossStays DEF Next

LEMMA InitStays == ASSUME Init PROVE UInv
<1>1. /\ \A p \in Procs : proc[p].pc = "idle"
      /\ files.unflushed = {} /\ \A a \in Actions : files.receipt[a] = "none"
      /\ hindered = {} /\ late = {} /\ runs = 0 /\ edits = 0 /\ page \in Starts
  BY IdleIsSound DEF Init
<1>2. \A o : ~Touched(o)
  BY <1>1 DEF Touched
<1>3. \A p \in Procs : OnPlan(proc[p])
  BY <1>1 DEF OnPlan
<1>4. \A a \in Actions : Excused(a)
  BY <1>1 DEF Excused, Failures
<1>q. QED
  BY <1>1, <1>2, <1>3, <1>4 DEF UInv

(***************************************************************************)
(* OnlyHindrancesDo: a plan of any length never fails over itself.  Signed *)
(* and run once, with nobody editing and no call failing, it passes every  *)
(* comparison and every readback, if the plans are as their builders make  *)
(* them (PlansCohere).                                                     *)
(***************************************************************************)
THEOREM OnlyHindrancesDo == ASSUME PlansCohere PROVE Spec => []OnlyHindrancesFail
<1>1. Init => IInv /\ PInv /\ LInv /\ UInv
  BY InitIsSound, InitCompares, InitStays
<1>2. IInv /\ PInv /\ LInv /\ UInv /\ [Next]_vars => (IInv /\ PInv /\ LInv /\ UInv)'
  BY NextKeeps, NextCompares, LateTargets, NextStays
<1>3. IInv /\ UInv => OnlyHindrancesFail
  <2>1. ASSUME IInv, UInv, NEW a \in Actions, files.receipt[a] \in Failures,
               edits = 0, runs = 1, envelope[a].surface # "probe"
        PROVE  a \in hindered
    <3>1. Touched(a)
      BY <2>1 DEF Touched, Failures
    <3>2. hindered # {}
      BY <2>1 DEF UInv, Undisturbed, Excused
    <3>3. PICK b : b \in hindered
      BY <3>2
    <3>q. QED
      BY <2>1, <3>1, <3>3 DEF UInv, Touched
  <2>q. QED
    BY <2>1 DEF OnlyHindrancesFail, Failures
<1>q. QED
  BY <1>1, <1>2, <1>3, PTL DEF Spec

=============================================================================
