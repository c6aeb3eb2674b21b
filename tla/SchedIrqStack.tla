--------------------------- MODULE SchedIrqStack ----------------------------
(***************************************************************************)
(* How the steps of SchedIrq change the stacks.                            *)
(***************************************************************************)
EXTENDS SchedIrq, ListFacts

\* A new activation has the type of one.
LEMMA ActivationType ==
    ASSUME NEW at \in Points, NEW isr \in BOOLEAN
    PROVE  Activation(at, isr) \in Activations
  BY DEF Activation, Activations

\* The innermost activation of the stack in use exists.
LEMMA TopFacts ==
    ASSUME IrqSafe
    PROVE  /\ cpu \in Threads /\ exec \in Seq(Activations)
           /\ depth \in Nat /\ depth >= 1 /\ DOMAIN exec = 1..depth
           /\ depth \in DOMAIN exec /\ Top \in Activations
           /\ exec = stack[cpu] /\ depth = Len(stack[cpu]) /\ Top = stack[cpu][depth]
<1>1. cpu \in Threads /\ exec \in Seq(Activations) /\ exec /= <<>>
  BY DEF IrqSafe, TypeOK, StackShape, exec
<1> QED
  BY <1>1 DEF depth, Top, exec

\* Become changes the innermost activation of the stack in use and nothing else.
LEMMA BecomeFacts ==
    ASSUME IrqSafe, NEW act \in Activations, Become(act)
    PROVE  /\ stack' \in [Threads -> Seq(Activations)]
           /\ \A t \in Threads : /\ Len(stack'[t]) = Len(stack[t])
                                 /\ DOMAIN stack'[t] = DOMAIN stack[t]
           /\ \A t \in Threads : \A i \in DOMAIN stack[t] :
                stack'[t][i] = IF t = cpu /\ i = depth THEN act ELSE stack[t][i]
           /\ cpu' = cpu => depth' = depth /\ Top' = act
<1>1. stack' = [stack EXCEPT ![cpu] = [exec EXCEPT ![depth] = act]]
  BY DEF Become, Use
<1>2. /\ [exec EXCEPT ![depth] = act] \in Seq(Activations)
      /\ Len([exec EXCEPT ![depth] = act]) = Len(exec)
      /\ DOMAIN [exec EXCEPT ![depth] = act] = DOMAIN exec
      /\ \A i \in DOMAIN exec :
           [exec EXCEPT ![depth] = act][i] = IF i = depth THEN act ELSE exec[i]
  BY TopFacts
<1>3. stack \in [Threads -> Seq(Activations)] /\ cpu \in Threads
  BY DEF IrqSafe, TypeOK
<1>4. /\ stack' \in [Threads -> Seq(Activations)]
      /\ \A t \in Threads : stack'[t] = IF t = cpu THEN [exec EXCEPT ![depth] = act] ELSE stack[t]
  BY <1>1, <1>2, <1>3
<1>5. \A t \in Threads : /\ Len(stack'[t]) = Len(stack[t])
                         /\ DOMAIN stack'[t] = DOMAIN stack[t]
  BY <1>2, <1>3, <1>4 DEF exec
<1>6. \A t \in Threads : \A i \in DOMAIN stack[t] :
         stack'[t][i] = IF t = cpu /\ i = depth THEN act ELSE stack[t][i]
  BY <1>2, <1>3, <1>4 DEF exec
<1>7. cpu' = cpu => depth' = depth /\ Top' = act
  BY <1>3, <1>5, <1>6, TopFacts DEF exec, depth, Top
<1> QED
  BY <1>4, <1>5, <1>6, <1>7

\* Call puts an activation on the stack in use and changes no other.
LEMMA CallFacts ==
    ASSUME IrqSafe, NEW act \in Activations, Call(act)
    PROVE  /\ stack' \in [Threads -> Seq(Activations)]
           /\ \A t \in Threads \ {cpu} : stack'[t] = stack[t]
           /\ Len(stack'[cpu]) = depth + 1 /\ DOMAIN stack'[cpu] = 1..(depth + 1)
           /\ stack'[cpu][depth + 1] = act
           /\ \A i \in 1..depth : stack'[cpu][i] = stack[cpu][i]
           /\ cpu' = cpu => depth' = depth + 1 /\ Top' = act
<1>1. stack' = [stack EXCEPT ![cpu] = Append(exec, act)]
  BY DEF Call, Use
<1>2. stack \in [Threads -> Seq(Activations)] /\ cpu \in Threads
  BY DEF IrqSafe, TypeOK
<1>3. /\ Append(exec, act) \in Seq(Activations) /\ Len(Append(exec, act)) = depth + 1
      /\ DOMAIN Append(exec, act) = 1..(depth + 1) /\ Append(exec, act)[depth + 1] = act
      /\ \A i \in 1..depth : Append(exec, act)[i] = exec[i]
  BY TopFacts DEF depth
<1>4. stack' \in [Threads -> Seq(Activations)] /\ stack'[cpu] = Append(exec, act)
      /\ \A t \in Threads \ {cpu} : stack'[t] = stack[t]
  BY <1>1, <1>2, <1>3
<1>5. cpu' = cpu => depth' = depth + 1 /\ Top' = act
  BY <1>3, <1>4 DEF exec, depth, Top
<1> QED
  BY <1>3, <1>4, <1>5, Zenon DEF exec

\* Return takes the innermost activation off the stack in use.
LEMMA ReturnFacts ==
    ASSUME IrqSafe, Return, depth > 1
    PROVE  /\ stack' \in [Threads -> Seq(Activations)]
           /\ \A t \in Threads \ {cpu} : stack'[t] = stack[t]
           /\ Len(stack'[cpu]) = depth - 1 /\ DOMAIN stack'[cpu] = 1..(depth - 1)
           /\ \A i \in 1..(depth - 1) : stack'[cpu][i] = stack[cpu][i]
           /\ cpu' = cpu => depth' = depth - 1 /\ Top' = stack[cpu][depth - 1]
<1> DEFINE s == SubSeq(exec, 1, depth - 1)
<1>1. stack' = [stack EXCEPT ![cpu] = s]
  BY DEF Return, Use
<1>2. stack \in [Threads -> Seq(Activations)] /\ cpu \in Threads
  BY DEF IrqSafe, TypeOK
<1>3. /\ s \in Seq(Activations) /\ Len(s) = depth - 1
      /\ DOMAIN s = 1..(depth - 1)
      /\ \A i \in 1..(depth - 1) : s[i] = exec[i]
  BY TopFacts DEF depth
<1> HIDE DEF s
<1>4. stack' \in [Threads -> Seq(Activations)] /\ stack'[cpu] = s
      /\ \A t \in Threads \ {cpu} : stack'[t] = stack[t]
  BY <1>1, <1>2, <1>3
<1>5. cpu' = cpu => depth' = depth - 1 /\ Top' = stack[cpu][depth - 1]
  BY <1>3, <1>4, TopFacts DEF exec, depth, Top
<1> QED
  BY <1>3, <1>4, <1>5 DEF exec

\* Only innermost activations are in switch_thread or about to remove an event,
\* and a thread is in its own code exactly when its stack has one activation.
LEMMA OuterFacts ==
    ASSUME IrqSafe
    PROVE  /\ \A t \in Threads : \A i \in DOMAIN stack[t] :
                /\ stack[t][i] \in Activations
                /\ i \in 1..Len(stack[t])
                /\ stack[t][i].at \in Switching \cup {"remove"} => i = Len(stack[t])
           /\ \A t \in Threads : /\ Len(stack[t]) \in Nat /\ Len(stack[t]) >= 1
                                 /\ DOMAIN stack[t] = 1..Len(stack[t])
           /\ Top.at /= "run" /\ cpu /= Boot => depth > 1
           /\ Top.at = "run" => cpu /= Boot /\ depth = 1
<1>1. \A t \in Threads : /\ stack[t] \in Seq(Activations) /\ stack[t] /= <<>>
                         /\ Len(stack[t]) \in Nat /\ Len(stack[t]) >= 1
                         /\ DOMAIN stack[t] = 1..Len(stack[t])
                         /\ \A i \in DOMAIN stack[t] : stack[t][i] \in Activations
  BY DEF IrqSafe, TypeOK, StackShape
<1>2. \A t \in Threads : \A i \in DOMAIN stack[t] :
         stack[t][i].at \in Switching \cup {"remove"} => i = Len(stack[t])
  BY <1>1 DEF IrqSafe, StackShape, Switching
<1>3. Top.at = "run" => cpu /= Boot
  BY DEF IrqSafe, BootPhase
<1>4. ASSUME cpu /= Boot PROVE Top.at = "run" <=> depth = 1
  <2>1. depth \in 1..Len(stack[cpu]) /\ cpu \in Threads \ {Boot}
    BY <1>4, TopFacts
  <2>2. stack[cpu][depth].at = "run" <=> depth = 1
    BY <2>1 DEF IrqSafe, StackShape
  <2> QED
    BY <2>2, TopFacts
<1> QED
  BY <1>1, <1>2, <1>3, <1>4, TopFacts

\* Moving the innermost activation keeps the shape of the stacks.
LEMMA BecomeShape ==
    ASSUME IrqSafe, NEW act \in Activations, Become(act), cpu' = cpu,
           Top.at /= "run", act.at /= "run"
    PROVE  StackShape'
<1>1. /\ \A t \in Threads : /\ Len(stack'[t]) = Len(stack[t])
                            /\ DOMAIN stack'[t] = DOMAIN stack[t]
      /\ \A t \in Threads : \A i \in DOMAIN stack[t] :
           stack'[t][i] = IF t = cpu /\ i = depth THEN act ELSE stack[t][i]
      /\ stack' \in [Threads -> Seq(Activations)]
  BY BecomeFacts
<1>2. \A t \in Threads : /\ stack[t] \in Seq(Activations) /\ Len(stack[t]) \in Nat
                         /\ Len(stack[t]) >= 1 /\ DOMAIN stack[t] = 1..Len(stack[t])
  BY OuterFacts DEF IrqSafe, TypeOK
<1>3. ASSUME NEW t \in Threads PROVE stack'[t] /= <<>>
  BY <1>1, <1>2
<1>4. ASSUME NEW t \in Threads, NEW i \in 1..(Len(stack'[t]) - 1)
      PROVE  stack'[t][i].at \in {"run", "loop", "call", "append", "tail"}
  <2>1. i \in DOMAIN stack[t] /\ i \in 1..(Len(stack[t]) - 1) /\ i /= Len(stack[t])
    BY <1>1, <1>2
  <2>2. stack'[t][i] = stack[t][i]
    BY <1>1, <2>1, TopFacts
  <2> QED
    BY <2>1, <2>2 DEF IrqSafe, StackShape
<1>5. ASSUME NEW t \in Threads \ {Boot}, NEW i \in 1..Len(stack'[t])
      PROVE  stack'[t][i].at = "run" <=> i = 1
  <2>1. i \in DOMAIN stack[t] /\ i \in 1..Len(stack[t])
    BY <1>1, <1>2
  <2>2. CASE t = cpu /\ i = depth
    <3>1. stack[t][i].at /= "run" /\ stack'[t][i].at /= "run"
      BY <1>1, <2>1, <2>2, TopFacts
    <3> QED
      BY <2>1, <3>1 DEF IrqSafe, StackShape
  <2>3. CASE ~(t = cpu /\ i = depth)
    <3>1. stack'[t][i] = stack[t][i]
      BY <1>1, <2>1, <2>3
    <3> QED
      BY <2>1, <3>1 DEF IrqSafe, StackShape
  <2> QED
    BY <2>2, <2>3
<1>6. ASSUME NEW t \in Threads \ {cpu}
      PROVE  stack'[t][Len(stack'[t])].at = "resched"
  <2>1. stack'[t][Len(stack[t])] = stack[t][Len(stack[t])]
    BY <1>1, <1>2
  <2> QED
    BY <1>1, <2>1 DEF IrqSafe, StackShape
<1> QED
  BY <1>3, <1>4, <1>5, <1>6 DEF StackShape

\* Calling from thread code, or from handle_next_event outside the windows, keeps
\* the shape of the stacks.
LEMMA CallShape ==
    ASSUME IrqSafe, NEW act \in Activations, Call(act), cpu' = cpu, cpu /= Boot,
           Top.at \in {"run", "loop", "call", "append", "tail"}, act.at /= "run"
    PROVE  StackShape'
<1>1. /\ stack' \in [Threads -> Seq(Activations)]
      /\ \A t \in Threads \ {cpu} : stack'[t] = stack[t]
      /\ Len(stack'[cpu]) = depth + 1 /\ DOMAIN stack'[cpu] = 1..(depth + 1)
      /\ stack'[cpu][depth + 1] = act
      /\ \A i \in 1..depth : stack'[cpu][i] = stack[cpu][i]
  BY CallFacts
<1>2. /\ depth \in Nat /\ depth >= 1 /\ Top = stack[cpu][depth] /\ depth = Len(stack[cpu])
      /\ cpu \in Threads
  BY TopFacts
<1>3. ASSUME NEW t \in Threads PROVE stack'[t] /= <<>>
  <2>1. CASE t = cpu
    BY <1>1, <1>2, <2>1
  <2>2. CASE t /= cpu
    BY <1>1, <2>2 DEF IrqSafe, StackShape
  <2> QED
    BY <2>1, <2>2
<1>4. ASSUME NEW t \in Threads, NEW i \in 1..(Len(stack'[t]) - 1)
      PROVE  stack'[t][i].at \in {"run", "loop", "call", "append", "tail"}
  <2>1. CASE t = cpu
    <3>1. i \in 1..depth
      BY <1>1, <1>2, <1>4, <2>1
    <3>2. stack'[t][i] = stack[t][i] /\ (i = depth \/ i \in 1..(Len(stack[t]) - 1))
      BY <1>1, <1>2, <3>1, <2>1
    <3> QED
      BY <1>2, <2>1, <3>2 DEF IrqSafe, StackShape
  <2>2. CASE t /= cpu
    <3>1. stack'[t] = stack[t]
      BY <1>1, <2>2
    <3> QED
      BY <1>4, <3>1 DEF IrqSafe, StackShape
  <2> QED
    BY <2>1, <2>2
<1>5. ASSUME NEW t \in Threads \ {Boot}, NEW i \in 1..Len(stack'[t])
      PROVE  stack'[t][i].at = "run" <=> i = 1
  <2>1. CASE t = cpu /\ i \in 1..depth
    <3>1. stack'[t][i] = stack[t][i] /\ i \in 1..Len(stack[t])
      BY <1>1, <1>2, <2>1
    <3> QED
      BY <3>1 DEF IrqSafe, StackShape
  <2>2. CASE t = cpu /\ i \notin 1..depth
    <3>1. i = depth + 1 /\ i /= 1
      BY <1>1, <1>2, <1>5, <2>2
    <3> QED
      BY <1>1, <2>2, <3>1
  <2>3. CASE t /= cpu
    <3>1. stack'[t] = stack[t]
      BY <1>1, <2>3
    <3> QED
      BY <1>5, <3>1 DEF IrqSafe, StackShape
  <2> QED
    BY <2>1, <2>2, <2>3
<1>6. ASSUME NEW t \in Threads \ {cpu}
      PROVE  stack'[t][Len(stack'[t])].at = "resched"
  BY <1>1 DEF IrqSafe, StackShape
<1> QED
  BY <1>3, <1>4, <1>5, <1>6 DEF StackShape

\* Returning keeps the shape of the stacks.
LEMMA ReturnShape ==
    ASSUME IrqSafe, Return, depth > 1, cpu' = cpu
    PROVE  StackShape'
<1>1. /\ stack' \in [Threads -> Seq(Activations)]
      /\ \A t \in Threads \ {cpu} : stack'[t] = stack[t]
      /\ Len(stack'[cpu]) = depth - 1 /\ DOMAIN stack'[cpu] = 1..(depth - 1)
      /\ \A i \in 1..(depth - 1) : stack'[cpu][i] = stack[cpu][i]
  BY ReturnFacts
<1>2. /\ depth \in Nat /\ depth >= 1 /\ depth = Len(stack[cpu]) /\ cpu \in Threads
  BY TopFacts
<1>3. ASSUME NEW t \in Threads PROVE stack'[t] /= <<>>
  <2>1. CASE t = cpu
    BY <1>1, <1>2, <2>1
  <2>2. CASE t /= cpu
    BY <1>1, <2>2 DEF IrqSafe, StackShape
  <2> QED
    BY <2>1, <2>2
<1>4. ASSUME NEW t \in Threads, NEW i \in 1..(Len(stack'[t]) - 1)
      PROVE  stack'[t][i].at \in {"run", "loop", "call", "append", "tail"}
  <2>1. i \in 1..(Len(stack[t]) - 1) /\ stack'[t][i] = stack[t][i]
    <3>1. CASE t = cpu
      <4>1. i \in 1..(depth - 2)
        BY <1>1, <1>2, <1>4, <3>1
      <4>2. i \in 1..(depth - 1)
        BY <1>2, <4>1
      <4> QED
        BY <1>1, <1>2, <4>2, <3>1
    <3>2. CASE t /= cpu
      BY <1>1, <1>4, <3>2
    <3> QED
      BY <3>1, <3>2
  <2> QED
    BY <2>1 DEF IrqSafe, StackShape
<1>5. ASSUME NEW t \in Threads \ {Boot}, NEW i \in 1..Len(stack'[t])
      PROVE  stack'[t][i].at = "run" <=> i = 1
  <2>1. i \in 1..Len(stack[t]) /\ stack'[t][i] = stack[t][i]
    <3>1. CASE t = cpu
      <4>1. i \in 1..(depth - 1) /\ i \in 1..depth
        BY <1>1, <1>2, <1>5, <3>1
      <4> QED
        BY <1>1, <1>2, <4>1, <3>1
    <3>2. CASE t /= cpu
      BY <1>1, <1>5, <3>2
    <3> QED
      BY <3>1, <3>2
  <2> QED
    BY <2>1 DEF IrqSafe, StackShape
<1>6. ASSUME NEW t \in Threads \ {cpu}
      PROVE  stack'[t][Len(stack'[t])].at = "resched"
  BY <1>1 DEF IrqSafe, StackShape
<1> QED
  BY <1>3, <1>4, <1>5, <1>6 DEF StackShape

\* What an activation returns to is not inside switch_thread.
LEMMA ReturnTop ==
    ASSUME IrqSafe, Return, depth > 1, cpu' = cpu
    PROVE  Top'.at \in {"run", "loop", "call", "append", "tail"}
<1>1. depth - 1 \in 1..(Len(stack[cpu]) - 1) /\ cpu \in Threads
  BY TopFacts
<1>2. stack[cpu][depth - 1].at \in {"run", "loop", "call", "append", "tail"}
  BY <1>1 DEF IrqSafe, StackShape
<1> QED
  BY <1>2, ReturnFacts
=============================================================================
