---------------------------- MODULE BoardProofs ----------------------------
(***************************************************************************)
(* Proofs about Board, for every capacity of the queues, every set of      *)
(* switches and every memory a process can find when it starts.            *)
(***************************************************************************)
EXTENDS Board, SequenceTheorems, TLAPS

Counts == touches \in Nat /\ kills \in Nat

(* The type invariant is inductive with the counts apart.                  *)
Types == TypeOK /\ Counts

(* Until the output process starts, with whatever its data then is, what   *)
(* the main process has drawn is in the queue.  DisplayInOrder needs it.   *)
Waiting ==
  ~dropped /\ exists /\ mpc # "boot" /\ opc = "boot" => outq # <<>>

IInv == Types /\ InputInOrder /\ DisplayInOrder /\ Waiting

-----------------------------------------------------------------------------
(* What a msgsnd leaves in a queue.                                        *)
LEMMA PutType ==
  ASSUME NEW S, NEW q \in Seq(S), NEW cap \in Nat, NEW m \in S, Len(q) <= cap
  PROVE  put(q, cap, m) \in Seq(S) /\ Len(put(q, cap, m)) <= cap
BY DEF put

(* If the message was not dropped it is the newest.                        *)
LEMMA PutNewest ==
  ASSUME NEW S, NEW q \in Seq(S), NEW cap, NEW m \in S, put(q, cap, m) # q
  PROVE  put(q, cap, m) # <<>> /\ \A r : Newest(put(q, cap, m), r) = m
<1>1. put(q, cap, m) = Append(q, m)
  BY DEF put
<1>2. Append(q, m) # <<>> /\ Append(q, m)[Len(Append(q, m))] = m
  BY AppendProperties
<1> QED
  BY <1>1, <1>2 DEF Newest, Last

(* A msgrcv does not change what is the newest.                            *)
LEMMA TailNewest ==
  ASSUME NEW S, NEW q \in Seq(S), q # <<>>, NEW r
  PROVE  /\ Tail(q) \in Seq(S) /\ Head(q) \in S /\ Len(Tail(q)) <= Len(q)
         /\ Newest(Tail(q), Head(q)) = Newest(q, r)
<1>1. /\ Head(q) \in S /\ Tail(q) \in Seq(S)
      /\ Len(Tail(q)) = Len(q) - 1
      /\ \A i \in 1..Len(Tail(q)) : Tail(q)[i] = q[i + 1]
  BY HeadTailProperties
<1>2. Len(q) \in Nat /\ Len(q) > 0 /\ Head(q) = q[1]
  BY EmptySeq, LenProperties
<1>3. CASE Tail(q) = <<>>
  <2>1. Len(Tail(q)) = 0
    BY <1>3, EmptySeq
  <2>2. Len(q) = 1
    BY <2>1, <1>1, <1>2
  <2> QED
    BY <2>2, <1>1, <1>2, <1>3 DEF Newest, Last
<1>4. CASE Tail(q) # <<>>
  <2>1. Len(Tail(q)) \in 1..Len(Tail(q)) /\ Len(Tail(q)) + 1 = Len(q)
    BY <1>1, <1>2, <1>4, EmptySeq, LenProperties
  <2>2. Tail(q)[Len(Tail(q))] = q[Len(q)]
    BY <1>1, <2>1
  <2> QED
    BY <2>2, <1>1, <1>2, <1>4 DEF Newest, Last
<1> QED
  BY <1>3, <1>4

(* The pictures of mode_init.                                              *)
LEMMA ModeInitType ==
  \A m \in 0..4, v \in Vals :
    /\ mode_init(m) \in Pictures
    /\ [mode_init(m) EXCEPT !.val = v] \in Pictures
    /\ [mode_init(m) EXCEPT !.end = TRUE] \in Pictures
<1> SUFFICES ASSUME NEW m \in 0..4, NEW v \in Vals
             PROVE  /\ mode_init(m) \in Pictures
                    /\ [mode_init(m) EXCEPT !.val = v] \in Pictures
                    /\ [mode_init(m) EXCEPT !.end = TRUE] \in Pictures
  OBVIOUS
<1>1. 0 \in Vals /\ m \in 0..(MODE - 1)
  BY BoardAssumption DEF MODE
<1>2. mode_init(m) \in Pictures
  BY <1>1 DEF mode_init, Pictures
<1>3. \A p \in Pictures : [p EXCEPT !.val = v] \in Pictures /\ [p EXCEPT !.end = TRUE] \in Pictures
  BY DEF Pictures
<1> QED
  BY <1>2, <1>3

(* The modes go round.                                                     *)
LEMMA NewModeType == mode \in 0..4 => NewMode \in 0..4
BY DEF NewMode, MODE

(* The two sends keep the types of the queues.                             *)
LEMMA SendType ==
  ASSUME TypeOK
  PROVE  /\ \A m \in Inputs : SendIn(m) =>
               inq' \in Seq(Inputs) /\ Len(inq') <= InCap /\ dropped' \in BOOLEAN
         /\ \A m \in Pictures : SendOut(m) =>
               outq' \in Seq(Pictures) /\ Len(outq') <= OutCap /\ dropped' \in BOOLEAN
<1>1. /\ inq \in Seq(Inputs) /\ Len(inq) <= InCap /\ InCap \in Nat
      /\ outq \in Seq(Pictures) /\ Len(outq) <= OutCap /\ OutCap \in Nat
      /\ dropped \in BOOLEAN
  BY BoardAssumption DEF TypeOK
<1>2. ASSUME NEW m \in Inputs, SendIn(m)
      PROVE  inq' \in Seq(Inputs) /\ Len(inq') <= InCap /\ dropped' \in BOOLEAN
  <2>1. inq' = put(inq, InCap, m) /\ dropped' \in BOOLEAN
    BY <1>1, <1>2 DEF SendIn
  <2> QED
    BY <1>1, <2>1, PutType
<1>3. ASSUME NEW m \in Pictures, SendOut(m)
      PROVE  outq' \in Seq(Pictures) /\ Len(outq') <= OutCap /\ dropped' \in BOOLEAN
  <2>1. outq' = put(outq, OutCap, m) /\ dropped' \in BOOLEAN
    BY <1>1, <1>3 DEF SendOut
  <2> QED
    BY <1>1, <2>1, PutType
<1> QED
  BY <1>2, <1>3

(* What a read of the buttons leaves behind.                               *)
LEMMA ReadType ==
  ASSUME TypeOK, ReadButtons
  PROVE  /\ ev0' \in {NoEvent} \union (Keys \X BOOLEAN)
         /\ events' = <<>> /\ events' \in Seq(Keys \X BOOLEAN) /\ Len(events') <= EvMax
         /\ Buttons \in Inputs
<1>1. events # <<>> => Head(events) \in Keys \X BOOLEAN
  BY HeadTailProperties DEF TypeOK
<1>2. ev0' \in {NoEvent} \union (Keys \X BOOLEAN)
  BY <1>1 DEF ReadButtons, FirstEvent, TypeOK
<1>3. Buttons \in Inputs
  BY DEF Buttons, Inputs, Keys, TypeOK
<1>4. Len(<<>>) <= EvMax
  BY BoardAssumption
<1> QED
  BY <1>2, <1>3, <1>4 DEF ReadButtons

-----------------------------------------------------------------------------
(* The type invariant, and the number of touches.                          *)
LEMMA InitTypes == Init => Types
<1> SUFFICES ASSUME Init PROVE Types
  OBVIOUS
<1>1. mode_init(0) \in Pictures
  <2>1. 0 \in 0..4 /\ 0 \in Vals
    BY BoardAssumption
  <2> QED
    BY <2>1, ModeInitType
<1>2. ev0 \in {NoEvent} \union (Keys \X BOOLEAN)
  BY LeftAssumption DEF Init, Pressed
<1>3. 0 <= EvMax /\ 0 <= InCap /\ 0 <= OutCap /\ Budget \in Nat
  BY BoardAssumption
<1>4. Len(<<>>) = 0 /\ \A S : <<>> \in Seq(S)
  BY EmptySeq
<1>5. Counts /\ touches + kills \in 0..Budget
  BY <1>3 DEF Init, Counts
<1>6. held \subseteq Keys /\ swi \subseteq Switches /\ {data, prev, in} \subseteq Inputs
  BY DEF Init, Inputs
<1>7. mode \in 0..(MODE - 1) /\ turns \in 0..(MODE - 1)
  BY DEF Init, MODE
<1>8. {exists, polled, tidy, dropped} \subseteq BOOLEAN
  BY DEF Init
<1>9. /\ ipc \in {"boot", "loop", "done"}
      /\ mpc \in {"boot", "wait", "busy", "ending", "done"}
      /\ opc \in {"boot", "loop", "done"}
      /\ {out, shown} \subseteq Pictures
  BY <1>1 DEF Init
<1>10. /\ events \in Seq(Keys \X BOOLEAN) /\ Len(events) <= EvMax
       /\ inq \in Seq(Inputs) /\ Len(inq) <= InCap
       /\ outq \in Seq(Pictures) /\ Len(outq) <= OutCap
  BY <1>3, <1>4 DEF Init
<1> QED
  BY <1>2, <1>5, <1>6, <1>7, <1>8, <1>9, <1>10 DEF Types, TypeOK

(* A touch of the user.                                                    *)
LEMMA UserTypes ==
  ASSUME Types, User
  PROVE  Types'
<1> USE DEF Types, Counts
<1>1. \A e \in Keys \X BOOLEAN : Len(events) < EvMax
        => Append(events, e) \in Seq(Keys \X BOOLEAN) /\ Len(Append(events, e)) <= EvMax
  BY BoardAssumption, AppendProperties DEF TypeOK
<1>2. ASSUME NEW a \in BOOLEAN, Touch(a)
      PROVE  touches' \in Nat /\ kills' \in Nat /\ touches' + kills' \in 0..Budget
             /\ polled' \in BOOLEAN /\ tidy' \in BOOLEAN
  <2>1. tidy' \in BOOLEAN
    BY <1>2 DEF Touch
  <2>2. kills' \in Nat /\ touches' \in Nat /\ touches' + kills' \in 0..Budget
    BY <1>2, BoardAssumption DEF Touch
  <2> QED
    BY <1>2, <2>1, <2>2 DEF Touch
<1>3. ASSUME NEW k \in Keys, Press(k) PROVE Types'
  <2>1. turns' \in 0..(MODE - 1)
    BY <1>3 DEF Press, TypeOK, MODE
  <2>2. events' \in Seq(Keys \X BOOLEAN) /\ Len(events') <= EvMax
    BY <1>1, <1>3 DEF Press, Event, TypeOK
  <2> QED
    BY <1>2, <1>3, <2>1, <2>2 DEF Press, Touch, input, main, output, TypeOK
<1>4. ASSUME NEW k \in Keys, Release(k) PROVE Types'
  <2>1. events' \in Seq(Keys \X BOOLEAN) /\ Len(events') <= EvMax
    BY <1>1, <1>4 DEF Release, Event, TypeOK
  <2> QED
    BY <1>2, <1>4, <2>1 DEF Release, Touch, input, main, output, TypeOK
<1>5. ASSUME NEW s \in Switches, Switch(s) PROVE Types'
  BY <1>2, <1>5 DEF Switch, Touch, input, main, output, TypeOK
<1> QED
  BY <1>3, <1>4, <1>5 DEF User

(* A step of the input process.                                            *)
LEMMA InputTypes ==
  ASSUME Types, InputStep
  PROVE  Types'
<1> USE DEF Types, Counts
<1>1. CASE InputBoot
  <2>1. {} \in Inputs
    BY DEF Inputs
  <2>2. inq' \in Seq(Inputs) /\ Len(inq') <= InCap /\ dropped' \in BOOLEAN
    BY <1>1, <2>1, SendType DEF InputBoot, TypeOK
  <2> QED
    BY <1>1, <2>1, <2>2 DEF InputBoot, user, main, output, TypeOK
<1>2. CASE PollBack
  <2>1. data' \in Inputs
    BY <1>2, ReadType DEF PollBack, Inputs, Keys
  <2>2. inq' \in Seq(Inputs) /\ Len(inq') <= InCap /\ dropped' \in BOOLEAN
    BY <1>2, <2>1, SendType DEF PollBack
  <2> QED
    BY <1>2, <2>1, <2>2, ReadType DEF PollBack, ReadButtons, main, output, TypeOK
<1>3. CASE PollSwitches
  <2>1. data' \in Inputs
    BY <1>3, ReadType DEF PollSwitches, Inputs, TypeOK
  <2>2. /\ inq' \in Seq(Inputs) /\ Len(inq') <= InCap /\ dropped' \in BOOLEAN
        /\ prev' \in Inputs
    BY <1>3, <2>1, SendType DEF PollSwitches, SendChange, TypeOK
  <2> QED
    BY <1>3, <2>1, <2>2, ReadType DEF PollSwitches, ReadButtons, main, output, TypeOK
<1> QED
  BY <1>1, <1>2, <1>3 DEF InputStep

(* A step of the main process.                                             *)
LEMMA MainTypes ==
  ASSUME Types, MainStep
  PROVE  Types'
<1> USE DEF Types, Counts
<1>1. ASSUME NEW p \in Pictures, Show(p)
      PROVE  /\ out' \in Pictures /\ dropped' \in BOOLEAN
             /\ outq' \in Seq(Pictures) /\ Len(outq') <= OutCap
  BY <1>1, SendType DEF Show
<1>2. /\ 0 \in 0..4 /\ 0 \in Vals /\ mode \in 0..(MODE - 1) /\ mode \in 0..4
      /\ NewMode \in 0..4 /\ NewMode \in 0..(MODE - 1)
  BY BoardAssumption, NewModeType DEF TypeOK, MODE
<1>3. CASE MainBoot
  <2>1. mode_init(0) \in Pictures
    BY <1>2, ModeInitType
  <2>2. mode' \in 0..(MODE - 1)
    BY <1>3 DEF MainBoot, MODE
  <2> QED
    BY <1>1, <1>3, <2>1, <2>2 DEF MainBoot, user, input, output, TypeOK
<1>4. CASE MainReceive
  <2>1. in' \in Inputs /\ inq' \in Seq(Inputs) /\ Len(inq') <= InCap
    <3>1. Len(inq) \in Nat /\ Len(Tail(inq)) <= Len(inq) /\ InCap \in Nat
          /\ Len(Tail(inq)) \in Nat /\ Head(inq) \in Inputs /\ Tail(inq) \in Seq(Inputs)
      BY <1>4, TailNewest, LenProperties, BoardAssumption DEF MainReceive, TypeOK
    <3> QED
      BY <1>4, <3>1 DEF MainReceive, TypeOK
  <2> QED
    BY <1>4, <2>1 DEF MainReceive, user, input, output, TypeOK
<1>5. CASE MainBack
  <2>1. [mode_init(0) EXCEPT !.end = TRUE] \in Pictures
    BY <1>2, ModeInitType
  <2> QED
    BY <1>1, <1>2, <1>5, <2>1 DEF MainBack, user, input, output, TypeOK
<1>6. CASE MainPass
  <2>1. \A v \in Vals : [mode_init(NewMode) EXCEPT !.val = v] \in Pictures
    BY <1>2, ModeInitType
  <2>2. /\ out' \in Pictures /\ dropped' \in BOOLEAN
        /\ outq' \in Seq(Pictures) /\ Len(outq') <= OutCap
    BY <1>1, <1>6, <2>1 DEF MainPass, TypeOK
  <2> QED
    BY <1>2, <1>6, <2>2 DEF MainPass, user, input, output, TypeOK
<1>7. CASE MainRemove
  <2>1. Len(<<>>) <= InCap /\ Len(<<>>) <= OutCap
        /\ <<>> \in Seq(Inputs) /\ <<>> \in Seq(Pictures)
    BY BoardAssumption
  <2>2. dropped' \in BOOLEAN /\ exists' \in BOOLEAN
    BY <1>7 DEF MainRemove
  <2> QED
    BY <1>7, <2>1, <2>2 DEF MainRemove, user, input, output, TypeOK
<1> QED
  BY <1>3, <1>4, <1>5, <1>6, <1>7 DEF MainStep

(* A step of the output process.                                           *)
LEMMA OutputTypes ==
  ASSUME Types, OutputStep
  PROVE  Types'
<1> USE DEF Types, Counts
<1>1. CASE OutputBoot
  BY <1>1, LeftAssumption DEF OutputBoot, user, input, main, TypeOK
<1>2. CASE OutputPass
  <2>1. CASE outq = <<>>
    BY <1>2, <2>1 DEF OutputPass, user, input, main, TypeOK
  <2>2. CASE outq # <<>>
    <3>1. Len(outq) \in Nat /\ Len(Tail(outq)) <= Len(outq) /\ OutCap \in Nat
          /\ Len(Tail(outq)) \in Nat /\ Head(outq) \in Pictures
          /\ Tail(outq) \in Seq(Pictures)
      BY <2>2, TailNewest, LenProperties, BoardAssumption DEF TypeOK
    <3>2. shown' \in Pictures /\ outq' \in Seq(Pictures) /\ Len(outq') <= OutCap
      BY <1>2, <2>2, <3>1 DEF OutputPass, TypeOK
    <3> QED
      BY <1>2, <3>2 DEF OutputPass, user, input, main, TypeOK
  <2> QED
    BY <2>1, <2>2
<1> QED
  BY <1>1, <1>2 DEF OutputStep

(* The program is killed and started again.                                *)
LEMMA KillTypes ==
  ASSUME Types, Kill
  PROVE  Types'
<1> USE DEF Types, Counts
<1>1. mode_init(0) \in Pictures
  <2>1. 0 \in 0..4 /\ 0 \in Vals
    BY BoardAssumption
  <2> QED
    BY <2>1, ModeInitType
<1>2. ev0' \in {NoEvent} \union (Keys \X BOOLEAN)
  BY LeftAssumption DEF Kill, Pressed
<1>3. /\ touches' \in Nat /\ kills' \in Nat /\ touches' + kills' \in 0..Budget
  BY BoardAssumption DEF Kill
<1>4. /\ {data', prev', in'} \subseteq Inputs
      /\ mode' \in 0..(MODE - 1) /\ turns' \in 0..(MODE - 1)
      /\ exists' \in BOOLEAN
  BY DEF Kill, Inputs, MODE
<1>5. <<>> \in Seq(Keys \X BOOLEAN) /\ Len(<<>>) <= EvMax
  BY BoardAssumption
<1> QED
  BY <1>1, <1>2, <1>3, <1>4, <1>5 DEF Kill, TypeOK

LEMMA StepTypes == Types /\ [Next]_vars => Types'
<1> SUFFICES ASSUME Types, [Next]_vars PROVE Types'
  OBVIOUS
<1>1. CASE UNCHANGED vars
  BY <1>1 DEF vars, user, input, main, output, Types, Counts, TypeOK
<1> QED
  BY <1>1, UserTypes, InputTypes, MainTypes, OutputTypes, KillTypes DEF Next

(* The queues hold no more than fits, and the mode stays one of the five,  *)
(* whatever the three processes do and whatever a kill left behind.        *)
THEOREM TypeCorrect == Spec => []TypeOK
<1>1. Spec => []Types
  BY InitTypes, StepTypes, PTL DEF Spec
<1> QED
  BY <1>1, PTL DEF Types

-----------------------------------------------------------------------------
(* A message that was not dropped is the newest of its queue.              *)
LEMMA SentNewest ==
  ASSUME Types
  PROVE  /\ \A m \in Inputs : SendIn(m) /\ ~dropped' =>
               ~dropped /\ \A r : Newest(inq', r) = m
         /\ \A m \in Pictures : SendOut(m) /\ ~dropped' =>
               ~dropped /\ outq' # <<>> /\ \A r : Newest(outq', r) = m
<1>1. inq \in Seq(Inputs) /\ outq \in Seq(Pictures)
  BY DEF Types, TypeOK
<1>2. ASSUME NEW m \in Inputs, SendIn(m), ~dropped'
      PROVE  ~dropped /\ \A r : Newest(inq', r) = m
  <2>1. ~dropped /\ inq' = put(inq, InCap, m) /\ inq' # inq
    BY <1>2 DEF SendIn
  <2> QED
    BY <1>1, <2>1, PutNewest
<1>3. ASSUME NEW m \in Pictures, SendOut(m), ~dropped'
      PROVE  ~dropped /\ outq' # <<>> /\ \A r : Newest(outq', r) = m
  <2>1. ~dropped /\ outq' = put(outq, OutCap, m) /\ outq' # outq
    BY <1>3 DEF SendOut
  <2> QED
    BY <1>1, <2>1, PutNewest
<1> QED
  BY <1>2, <1>3

(* InputInOrder in each step.                                              *)
LEMMA StepInput == Types /\ InputInOrder /\ [Next]_vars => InputInOrder'
<1> SUFFICES ASSUME Types, InputInOrder, [Next]_vars, ~dropped', exists'
             PROVE  /\ ipc' = "loop" => Newest(inq', in') = prev'
                    /\ ipc' = "done" /\ "back" \in data' => Newest(inq', in') = data'
  BY DEF InputInOrder
<1>0. Types'
  BY StepTypes
<1>1. CASE UNCHANGED <<inq, in, ipc, prev, data, exists, dropped>>
  BY <1>1 DEF InputInOrder
<1>2. CASE InputBoot
  <2>1. CASE ipc' = "loop" /\ SendIn({})
    <3>1. {} \in Inputs
      BY DEF Inputs
    <3>2. Newest(inq', in') = {}
      BY <2>1, <3>1, SentNewest
    <3> QED
      BY <1>2, <2>1, <3>2 DEF InputBoot
  <2>2. CASE ipc' = "done"
    BY <1>2, <2>2 DEF InputBoot
  <2> QED
    BY <1>2, <2>1, <2>2 DEF InputBoot
<1>3. CASE PollBack
  <2>1. data' \in Inputs /\ SendIn(data') /\ ipc' = "done"
    BY <1>0, <1>3 DEF PollBack, Types, TypeOK
  <2> QED
    BY <2>1, SentNewest
<1>4. CASE PollSwitches
  <2>1. data' \in Inputs /\ ipc' = "loop" /\ ipc = "loop" /\ in' = in /\ exists
    BY <1>0, <1>4 DEF PollSwitches, ReadButtons, main, Types, TypeOK
  <2>2. CASE UNCHANGED <<prev, inq, dropped>>
    BY <2>1, <2>2 DEF InputInOrder
  <2>3. CASE SendChange
    <3>1. Newest(inq', in') = data'
      BY <2>1, <2>3, SentNewest DEF SendChange
    <3> QED
      BY <2>1, <2>3, <3>1 DEF SendChange
  <2> QED
    BY <1>4, <2>2, <2>3 DEF PollSwitches
<1>5. CASE MainReceive
  <2>1. Newest(inq', in') = Newest(inq, in)
    BY <1>5, TailNewest DEF MainReceive, Types, TypeOK
  <2> QED
    BY <1>5, <2>1 DEF MainReceive, input, InputInOrder
<1>6. CASE MainRemove
  BY <1>6 DEF MainRemove
<1>7. CASE Kill
  BY <1>7 DEF Kill
<1>8. ASSUME NEW p, Show(p), exists' = exists, UNCHANGED <<inq, in, input>>
      PROVE  InputInOrder'
  <2>1. ~dropped
    BY <1>8 DEF Show, SendOut
  <2> QED
    BY <1>8, <2>1 DEF input, InputInOrder
<1>9. CASE MainBoot
  BY <1>8, <1>9 DEF MainBoot, InputInOrder
<1>10. CASE MainBack
  BY <1>8, <1>10 DEF MainBack, InputInOrder
<1>11. CASE MainPass
  BY <1>1, <1>8, <1>11 DEF MainPass, input, InputInOrder
<1>12. CASE User
  BY <1>1, <1>12 DEF User, Press, Release, Switch, Touch, input, main
<1>13. CASE OutputStep
  BY <1>1, <1>13 DEF OutputStep, OutputBoot, OutputPass, input, main
<1>14. CASE UNCHANGED vars
  BY <1>1, <1>14 DEF vars, input, main
<1> QED
  BY <1>2, <1>3, <1>4, <1>5, <1>6, <1>7, <1>9, <1>10, <1>11, <1>12, <1>13, <1>14
     DEF Next, InputStep, MainStep

LEMMA StepDisplay ==
  Types /\ DisplayInOrder /\ Waiting /\ [Next]_vars => DisplayInOrder' /\ Waiting'
<1> SUFFICES ASSUME Types, DisplayInOrder, Waiting, [Next]_vars,
                    ~dropped', exists', mpc' # "boot"
             PROVE  /\ opc' # "done" => Newest(outq', shown') = out'
                    /\ opc' = "boot" => outq' # <<>>
  BY DEF DisplayInOrder, Waiting
<1>0. Types'
  BY StepTypes
<1>1. CASE mpc # "boot" /\ exists /\ ~dropped /\ UNCHANGED <<outq, out, opc, shown>>
  BY <1>1 DEF DisplayInOrder, Waiting
<1>2. ASSUME NEW p, Show(p) PROVE  outq' # <<>> /\ Newest(outq', shown') = out'
  <2>1. out' = p /\ p \in Pictures /\ SendOut(p)
    BY <1>0, <1>2 DEF Show, Types, TypeOK
  <2> QED
    BY <2>1, SentNewest
<1>3. CASE MainBoot \/ MainBack
  BY <1>2, <1>3 DEF MainBoot, MainBack
<1>4. CASE MainPass
  <2>1. mpc # "boot" /\ UNCHANGED <<exists, opc, shown>> /\ exists
    BY <1>4 DEF MainPass, output
  <2>2. CASE UNCHANGED <<out, outq, dropped>>
    BY <1>1, <2>1, <2>2
  <2>3. CASE \E v \in Vals : Show([mode_init(NewMode) EXCEPT !.val = v])
    BY <1>2, <2>3
  <2> QED
    BY <1>4, <2>2, <2>3 DEF MainPass
<1>5. CASE MainReceive
  BY <1>1, <1>5 DEF MainReceive, output
<1>6. CASE MainRemove
  BY <1>6 DEF MainRemove
<1>7. CASE OutputBoot
  <2>1. outq # <<>> /\ UNCHANGED <<outq, out>> /\ mpc # "boot" /\ exists /\ ~dropped
    BY <1>7 DEF OutputBoot, main, Waiting
  <2>2. Newest(outq, shown') = Newest(outq, shown)
    BY <2>1 DEF Newest
  <2> QED
    BY <1>7, <2>1, <2>2 DEF OutputBoot, DisplayInOrder
<1>8. CASE OutputPass
  <2>1. /\ opc = "loop" /\ opc' # "boot" /\ UNCHANGED out
        /\ mpc # "boot" /\ exists /\ ~dropped
    BY <1>8 DEF OutputPass, main
  <2>2. Newest(outq', shown') = Newest(outq, shown)
    <3>1. CASE outq = <<>>
      BY <1>8, <3>1 DEF OutputPass
    <3>2. CASE outq # <<>>
      BY <1>8, <3>2, TailNewest DEF OutputPass, Types, TypeOK
    <3> QED
      BY <3>1, <3>2
  <2> QED
    BY <2>1, <2>2 DEF DisplayInOrder
<1>9. CASE Kill
  BY <1>9 DEF Kill
<1>10. CASE InputStep
  <2>1. UNCHANGED <<main, output, outq, exists>>
    BY <1>10 DEF InputStep, InputBoot, PollBack, PollSwitches, ReadButtons
  <2>2. ~dropped
    BY <1>10 DEF InputStep, InputBoot, PollBack, PollSwitches, SendChange, SendIn
  <2> QED
    BY <1>1, <2>1, <2>2 DEF main, output
<1>11. CASE User
  BY <1>1, <1>11 DEF User, Press, Release, Switch, Touch, main, output
<1>12. CASE UNCHANGED vars
  BY <1>1, <1>12 DEF vars, main, output
<1> QED
  BY <1>3, <1>4, <1>5, <1>6, <1>7, <1>8, <1>9, <1>10, <1>11, <1>12
     DEF Next, MainStep, OutputStep

LEMMA InitOrder == Init => InputInOrder /\ DisplayInOrder /\ Waiting
BY DEF Init, InputInOrder, DisplayInOrder, Waiting

LEMMA Inductive == Spec => []IInv
<1>1. Init => IInv
  BY InitTypes, InitOrder DEF IInv
<1>2. IInv /\ [Next]_vars => IInv'
  BY StepTypes, StepInput, StepDisplay DEF IInv
<1> QED
  BY <1>1, <1>2, PTL DEF Spec

(* Whatever the sizes of the queues, the touches and the messages a kill   *)
(* leaves behind: as long as no message is dropped, what the main process  *)
(* reads last is what the input process saw last.                          *)
THEOREM InputArrives == Spec => []InputInOrder
BY Inductive, PTL DEF IInv

(* The same from the main process to the devices, also when the output     *)
(* process starts late with data that is not initialised.                  *)
THEOREM DisplayArrives == Spec => []DisplayInOrder
BY Inductive, PTL DEF IInv

-----------------------------------------------------------------------------
(* The mode follows the presses: an invariant of its own, for a tidy user. *)
Vols == {"vol+", "vol-"}

(* What the input process has seen of such a user: all, but for the one    *)
(* touch since the last poll.                                              *)
AllSeen ==
  /\ polled /\ events = <<>> /\ data = held \union swi
  /\ held = {} \/ \E k \in Vols : held = {k}

OneToSee ==
  /\ ~polled
  /\ \/ events = <<>> /\ held = {} /\ data \intersect Vols = {}
     \/ /\ data \intersect Vols = {}
        /\ \E k \in Keys : events = <<<<k, TRUE>>>> /\ held = {k}
     \/ held = {} /\ \E k \in Keys : events = <<<<k, FALSE>>>>

Seen ==
  /\ prev = data /\ data \subseteq Vols \union Switches
  /\ AllSeen \/ OneToSee

(* The mode after a message, when x is the mode before it.                 *)
Turn(m, x) ==
  CASE "vol+" \in m -> (x + 1) % MODE
    [] "vol-" \in m /\ "vol+" \notin m -> (x + MODE - 1) % MODE
    [] OTHER -> x

(* The messages of a queue lead from mode a to mode x.                     *)
Leads(q, a, x) ==
  \E f \in [0..Len(q) -> 0..(MODE - 1)] :
    /\ f[0] = a /\ f[Len(q)] = x
    /\ \A i \in 1..Len(q) : f[i] = Turn(q[i], f[i - 1])

Current == IF mpc = "busy" THEN NewMode ELSE mode

(* How far the press that was not polled turns the mode.                   *)
Coming(e) ==
  IF e = <<<<"vol+", TRUE>>>> THEN 1
  ELSE IF e = <<<<"vol-", TRUE>>>> THEN MODE - 1
  ELSE 0

Turned ==
  \E x \in 0..(MODE - 1) : Leads(inq, Current, x) /\ turns = (x + Coming(events)) % MODE

Untouched ==
  /\ held = {} /\ swi = {} /\ events = <<>> /\ polled
  /\ turns = 0 /\ mode = 0 /\ inq = <<>> /\ mpc # "busy"

Tidy == tidy /\ ~dropped /\ kills = 0

Follow ==
  Tidy => /\ mpc = "boot" => mode = 0
          /\ ipc = "boot" => Untouched
          /\ ipc = "loop" => Seen /\ (mpc \in {"boot", "wait", "busy"} => Turned)

(* A queue with one message more, or one less.                             *)
LEMMA TurnType ==
  ASSUME NEW m, NEW x \in 0..4
  PROVE  Turn(m, x) \in 0..4
BY DEF Turn, MODE

LEMMA LeadsNowhere ==
  ASSUME NEW a \in 0..4, NEW x
  PROVE  Leads(<<>>, a, x) <=> x = a
<1>1. Len(<<>>) = 0
  OBVIOUS
<1>2. ASSUME Leads(<<>>, a, x) PROVE x = a
  BY <1>1, <1>2 DEF Leads
<1>3. Leads(<<>>, a, a)
  <2> DEFINE f == [i \in 0..0 |-> a]
  <2>1. f \in [0..0 -> 0..4] /\ f[0] = a
    OBVIOUS
  <2> HIDE DEF f
  <2> QED
    BY <1>1, <2>1 DEF Leads, MODE
<1> QED
  BY <1>2, <1>3

LEMMA LeadsOn ==
  ASSUME NEW S, NEW q \in Seq(S), NEW m \in S, NEW a, NEW x, Leads(q, a, x)
  PROVE  Leads(Append(q, m), a, Turn(m, x))
<1> DEFINE n == Len(q)
           r == Append(q, m)
<1>1. /\ n \in Nat /\ Len(r) = n + 1 /\ r[n + 1] = m
      /\ \A i \in 1..n : r[i] = q[i]
  BY AppendProperties
<1>2. PICK f \in [0..n -> 0..4] :
        /\ f[0] = a /\ f[n] = x
        /\ \A i \in 1..n : f[i] = Turn(q[i], f[i - 1])
  BY DEF Leads, MODE
<1> HIDE DEF n, r
<1> DEFINE g == [i \in 0..(n + 1) |-> IF i = n + 1 THEN Turn(m, x) ELSE f[i]]
<1>3. Turn(m, x) \in 0..4
  BY <1>1, <1>2, TurnType
<1>4. g \in [0..(n + 1) -> 0..4]
  BY <1>1, <1>2, <1>3
<1>5. g[0] = a /\ g[n + 1] = Turn(m, x)
  BY <1>1, <1>2
<1>6. ASSUME NEW i \in 1..(n + 1) PROVE g[i] = Turn(r[i], g[i - 1])
  <2>1. CASE i = n + 1
    <3>1. g[i] = Turn(m, x) /\ g[i - 1] = f[n] /\ r[i] = m
      BY <1>1, <2>1
    <3> QED
      BY <1>2, <3>1
  <2>2. CASE i # n + 1
    <3>1. i \in 1..n /\ g[i] = f[i] /\ g[i - 1] = f[i - 1] /\ r[i] = q[i]
      BY <1>1, <2>2
    <3> QED
      BY <1>2, <3>1
  <2> QED
    BY <2>1, <2>2
<1> HIDE DEF g
<1>7. /\ g \in [0..Len(r) -> 0..(MODE - 1)] /\ g[0] = a /\ g[Len(r)] = Turn(m, x)
      /\ \A i \in 1..Len(r) : g[i] = Turn(r[i], g[i - 1])
  BY ONLY <1>1, <1>4, <1>5, <1>6 DEF MODE
<1> QED
  BY ONLY <1>7 DEF Leads, r

LEMMA LeadsFrom ==
  ASSUME NEW S, NEW q \in Seq(S), q # <<>>, NEW a, NEW x, Leads(q, a, x)
  PROVE  Leads(Tail(q), Turn(Head(q), a), x)
<1> DEFINE n == Len(q)
           r == Tail(q)
<1>1. /\ n \in Nat /\ n > 0 /\ Len(r) = n - 1 /\ Head(q) = q[1]
      /\ \A i \in 1..(n - 1) : r[i] = q[i + 1]
  BY HeadTailProperties, EmptySeq, LenProperties
<1>2. PICK f \in [0..n -> 0..4] :
        /\ f[0] = a /\ f[n] = x
        /\ \A i \in 1..n : f[i] = Turn(q[i], f[i - 1])
  BY DEF Leads, MODE
<1> HIDE DEF n, r
<1> DEFINE g == [i \in 0..(n - 1) |-> f[i + 1]]
<1>3. g \in [0..(n - 1) -> 0..4]
  BY <1>1, <1>2
<1>4. g[0] = Turn(q[1], a) /\ g[n - 1] = x
  BY <1>1, <1>2
<1>5. ASSUME NEW i \in 1..(n - 1) PROVE g[i] = Turn(r[i], g[i - 1])
  <2>1. i + 1 \in 1..n /\ g[i] = f[i + 1] /\ g[i - 1] = f[i] /\ r[i] = q[i + 1]
    BY <1>1
  <2>2. f[i + 1] = Turn(q[i + 1], f[(i + 1) - 1]) /\ (i + 1) - 1 = i
    BY <1>2, <2>1
  <2> QED
    BY <2>1, <2>2
<1> HIDE DEF g
<1>6. /\ g \in [0..Len(r) -> 0..(MODE - 1)] /\ g[0] = Turn(q[1], a) /\ g[Len(r)] = x
      /\ \A i \in 1..Len(r) : g[i] = Turn(r[i], g[i - 1])
  BY ONLY <1>1, <1>3, <1>4, <1>5 DEF MODE
<1>7. Leads(r, Turn(q[1], a), x)
  BY ONLY <1>6 DEF Leads
<1> QED
  BY <1>1, <1>7 DEF r
(* A message that is not dropped is in the queue.                          *)
LEMMA SentAppend ==
  ASSUME NEW m, SendIn(m), ~dropped'
  PROVE  ~dropped /\ inq' = Append(inq, m)
BY DEF SendIn, put

LEMMA VolsApart == Vols \subseteq Keys /\ Vols \intersect Switches = {}
BY SwitchAssumption DEF Vols, Keys

(* One key event, and none.                                                *)
LEMMA ComingIs ==
  /\ Coming(<<>>) = 0
  /\ \A k : /\ Coming(<<<<k, FALSE>>>>) = 0
            /\ k = "vol+" => Coming(<<<<k, TRUE>>>>) = 1
            /\ k = "vol-" => Coming(<<<<k, TRUE>>>>) = 4
            /\ k \notin Vols => Coming(<<<<k, TRUE>>>>) = 0
<1>1. \A k, d, j : <<<<k, d>>>> # <<>> /\ (<<<<k, d>>>> = <<<<j, TRUE>>>> <=> k = j /\ d = TRUE)
  OBVIOUS
<1>2. Coming(<<>>) = 0
  BY <1>1 DEF Coming
<1>3. ASSUME NEW k
      PROVE  /\ Coming(<<<<k, FALSE>>>>) = 0
             /\ k = "vol+" => Coming(<<<<k, TRUE>>>>) = 1
             /\ k = "vol-" => Coming(<<<<k, TRUE>>>>) = 4
             /\ k \notin Vols => Coming(<<<<k, TRUE>>>>) = 0
  BY <1>1 DEF Coming, MODE, Vols
<1> QED
  BY <1>2, <1>3

(* A touch comes when all before it was seen.                              *)
LEMMA FollowUser ==
  ASSUME Types, Follow, User
  PROVE  Follow'
<1> SUFFICES ASSUME Tidy'
             PROVE  /\ mpc' = "boot" => mode' = 0
                    /\ ipc' = "boot" => Untouched'
                    /\ ipc' = "loop" => Seen' /\ (mpc' \in {"boot", "wait", "busy"} => Turned')
  BY DEF Follow
<1>1. ASSUME NEW alone \in BOOLEAN, Touch(alone)
      PROVE  /\ Tidy /\ polled /\ ipc = "loop" /\ (alone => held = {}) /\ ~polled'
             /\ UNCHANGED <<ipc, data, prev, mpc, in, mode, inq>>
             /\ mpc = "boot" => mode = 0
             /\ prev = data /\ data \subseteq Vols \union Switches
             /\ AllSeen /\ events = <<>>
             /\ mpc \in {"boot", "wait", "busy"} => Turned
  BY <1>1 DEF Touch, Tidy, Follow, Seen, AllSeen, OneToSee, input, main
<1>2. turns \in 0..4 /\ swi \subseteq Switches
  BY DEF Types, TypeOK, MODE
<1>3. ASSUME NEW y \in 0..4, Turned, events = <<>>, UNCHANGED <<mpc, in, mode, inq>>,
             Coming(events') = y, turns' = (turns + y) % 5
      PROVE  Turned'
  <2>0. Coming(events) = 0
    BY <1>3, ComingIs
  <2>1. PICK x \in 0..4 : Leads(inq, Current, x) /\ turns = (x + 0) % 5
    <3>1. \E x \in 0..4 : Leads(inq, Current, x) /\ turns = (x + Coming(events)) % 5
      BY <1>3 DEF Turned, MODE
    <3> QED
      BY ONLY <2>0, <3>1
  <2>2. x = turns
    BY <2>1
  <2>3. Current' = Current
    BY <1>3 DEF Current, NewMode
  <2> QED
    BY <1>3, <2>1, <2>2, <2>3 DEF Turned, MODE
<1>4. ASSUME NEW k \in Keys, Press(k)
      PROVE  Seen' /\ (mpc \in {"boot", "wait", "busy"} => Turned')
  <2>1. /\ held = {} /\ events = <<>> /\ ipc = "loop" /\ AllSeen
        /\ UNCHANGED <<data, prev, mpc, in, mode, inq, swi>> /\ ~polled'
        /\ prev = data /\ data \subseteq Vols \union Switches
        /\ mpc \in {"boot", "wait", "busy"} => Turned
    BY <1>1, <1>4 DEF Press
  <2>2. held' = {k} /\ events' = <<<<k, TRUE>>>>
    BY <1>4, <2>1 DEF Press, Event
  <2>3. Seen'
    <3>1. data \intersect Vols = {}
      BY <1>2, <2>1, VolsApart DEF AllSeen
    <3> QED
      BY <2>1, <2>2, <3>1 DEF Seen, OneToSee
  <2>4. Coming(events') \in 0..4 /\ turns' = (turns + Coming(events')) % 5
    <3>1. CASE k = "vol+"
      <4>1. Coming(events') = 1
        BY <2>2, <3>1, ComingIs
      <4>2. turns' = (turns + 1) % 5
        BY <1>4, <3>1 DEF Press, MODE
      <4> QED
        BY <4>1, <4>2
    <3>2. CASE k = "vol-"
      <4>1. Coming(events') = 4
        BY <2>2, <3>2, ComingIs
      <4>2. turns' = (turns + 5 - 1) % 5
        BY <1>4, <3>2 DEF Press, MODE
      <4>3. turns + 5 - 1 = turns + 4
        BY <1>2
      <4> QED
        BY <4>1, <4>2, <4>3
    <3>3. CASE k \notin Vols
      <4>1. Coming(events') = 0
        BY <2>2, <3>3, ComingIs
      <4>2. turns' = turns
        BY <1>4, <3>3 DEF Press, Vols
      <4> QED
        BY <1>2, <4>1, <4>2
    <3> QED
      BY <3>1, <3>2, <3>3 DEF Vols
  <2> QED
    BY <1>3, <2>1, <2>3, <2>4
<1>5. ASSUME NEW k \in Keys, Release(k)
      PROVE  Seen' /\ (mpc \in {"boot", "wait", "busy"} => Turned')
  <2>1. /\ k \in held /\ events = <<>> /\ ipc = "loop" /\ AllSeen
        /\ UNCHANGED <<data, prev, mpc, in, mode, inq, turns>> /\ ~polled'
        /\ prev = data /\ data \subseteq Vols \union Switches
        /\ mpc \in {"boot", "wait", "busy"} => Turned
    BY <1>1, <1>5 DEF Release
  <2>2. held' = {} /\ events' = <<<<k, FALSE>>>>
    BY <1>5, <2>1 DEF Release, Event, AllSeen
  <2>3. Seen'
    BY <2>1, <2>2 DEF Seen, OneToSee
  <2>4. Coming(events') = 0
    BY <2>2, ComingIs
  <2> QED
    BY <1>2, <1>3, <2>1, <2>3, <2>4
<1>6. ASSUME NEW s \in Switches, Switch(s)
      PROVE  Seen' /\ (mpc \in {"boot", "wait", "busy"} => Turned')
  <2>1. /\ held = {} /\ events = <<>> /\ ipc = "loop" /\ AllSeen
        /\ UNCHANGED <<data, prev, mpc, in, mode, inq, turns, held, events>> /\ ~polled'
        /\ prev = data /\ data \subseteq Vols \union Switches
        /\ mpc \in {"boot", "wait", "busy"} => Turned
    BY <1>1, <1>6 DEF Switch
  <2>2. Seen'
    <3>1. data \intersect Vols = {}
      BY <1>2, <2>1, VolsApart DEF AllSeen
    <3> QED
      BY <2>1, <3>1 DEF Seen, OneToSee
  <2>3. Coming(events') = 0
    BY <2>1, ComingIs
  <2> QED
    BY <1>2, <1>3, <2>1, <2>2, <2>3
<1>7. PICK alone \in BOOLEAN : Touch(alone)
  BY DEF User, Press, Release, Switch
<1> QED
  BY <1>1, <1>4, <1>5, <1>6, <1>7 DEF User
(* A poll sends what it saw, once: the press that was coming is on its way.*)
LEMMA PollSends ==
  ASSUME Types, Seen, PollSwitches, ~dropped'
  PROVE  /\ ~dropped /\ Seen'
         /\ \/ inq' = inq /\ Coming(events) = 0
            \/ /\ inq' = Append(inq, data') /\ data' \in Inputs
               /\ \A x \in 0..4 : Turn(data', x) = (x + Coming(events)) % 5
<1>1. /\ ~dropped' /\ polled' /\ events' = <<>> /\ UNCHANGED <<held, swi>>
      /\ data' = (Buttons \ Switches) \union swi /\ data' \in Inputs
      /\ FirstEvent # <<"back", TRUE>>
      /\ swi \subseteq Switches
      /\ prev = data /\ data \subseteq Vols \union Switches /\ (AllSeen \/ OneToSee)
  <2>1. data' \in Inputs
    BY StepTypes DEF Next, InputStep, Types, TypeOK
  <2> QED
    BY <2>1 DEF PollSwitches, ReadButtons, Types, TypeOK, Seen
<1>2. \/ data' = prev /\ UNCHANGED <<prev, inq, dropped>>
      \/ data' # prev /\ prev' = data' /\ inq' = Append(inq, data') /\ ~dropped
  BY SentAppend DEF PollSwitches, SendChange
<1>3. prev' = data' /\ ~dropped
  BY <1>1, <1>2
<1>4. ASSUME events # <<>>
      PROVE  \E k \in Keys, d \in BOOLEAN :
               /\ events = <<<<k, d>>>> /\ FirstEvent = <<k, d>>
               /\ d => held = {k} /\ data \intersect Vols = {}
               /\ ~d => held = {}
  <2>1. PICK k \in Keys, d \in BOOLEAN :
               /\ events = <<<<k, d>>>>
               /\ d => held = {k} /\ data \intersect Vols = {}
               /\ ~d => held = {}
    BY <1>1, <1>4 DEF AllSeen, OneToSee
  <2>2. FirstEvent = <<k, d>>
    BY <2>1 DEF FirstEvent
  <2> QED
    BY <2>1, <2>2
<1>5. CASE events = <<>>
  <2>1. data' = (data \ Switches) \union swi /\ Coming(events) = 0
    BY <1>1, <1>5, ComingIs DEF Buttons
  <2>2. CASE AllSeen
    <3>1. data' = data /\ data' = held \union swi
      BY <1>1, <2>1, <2>2, VolsApart DEF AllSeen
    <3>2. Seen'
      BY <1>1, <1>3, <2>2, <3>1 DEF Seen, AllSeen
    <3>3. inq' = inq
      BY ONLY <1>1, <1>2, <3>1
    <3> QED
      BY <1>3, <2>1, <3>2, <3>3
  <2>3. CASE OneToSee
    <3>1. held = {} /\ data \intersect Vols = {}
      BY <1>5, <2>3 DEF OneToSee
    <3>2. data' = swi /\ data' \intersect Vols = {}
      <4>1. data \ Switches = {}
        BY <1>1, <3>1
      <4> QED
        BY <1>1, <2>1, <4>1, VolsApart
    <3>3. Seen'
      BY <1>1, <1>3, <3>1, <3>2 DEF Seen, AllSeen
    <3>4. \A x \in 0..4 : Turn(data', x) = (x + Coming(events)) % 5
      BY <2>1, <3>2 DEF Turn, Vols
    <3> QED
      BY <1>1, <1>2, <1>3, <2>1, <3>3, <3>4
  <2> QED
    BY <1>1, <2>2, <2>3
<1>6. CASE events # <<>>
  <2>1. PICK k \in Keys, d \in BOOLEAN :
               /\ events = <<<<k, d>>>> /\ FirstEvent = <<k, d>>
               /\ d => held = {k} /\ data \intersect Vols = {}
               /\ ~d => held = {}
    BY <1>4, <1>6
  <2>2. Buttons = (data \ Vols) \union {j \in Vols : j = k /\ d}
    BY <1>6, <2>1 DEF Buttons, Vols
  <2>3. CASE d
    <3>1. k \in Vols /\ k # "back"
      BY <1>1, <2>1, <2>3 DEF Keys, Vols
    <3>2. data' = held \union swi /\ held = {k} /\ k \in data' /\ data' # prev
      <4>1. held = {k} /\ data \ Switches = {} /\ data \intersect Vols = {}
        BY <1>1, <2>1, <2>3
      <4>2. Buttons \ Switches = {k}
        BY <2>2, <2>3, <3>1, <4>1, VolsApart
      <4> QED
        BY <1>1, <3>1, <4>1, <4>2
    <3>3. Seen'
      BY <1>1, <1>3, <3>1, <3>2 DEF Seen, AllSeen
    <3>4. \A x \in 0..4 : Turn(data', x) = (x + Coming(events)) % 5
      <4>1. data' \intersect Vols = {k} /\ Coming(events) = IF k = "vol+" THEN 1 ELSE 4
        BY <1>1, <2>1, <2>3, <3>1, <3>2, VolsApart, ComingIs DEF Vols
      <4>2. CASE k = "vol+"
        BY <3>2, <4>1, <4>2 DEF Turn, MODE
      <4>3. CASE k = "vol-"
        BY <3>2, <4>1, <4>3 DEF Turn, MODE, Vols
      <4> QED
        BY <3>1, <4>2, <4>3 DEF Vols
    <3> QED
      BY <1>1, <1>2, <1>3, <3>2, <3>3, <3>4
  <2>4. CASE ~d
    <3>1. data' = swi /\ data' \intersect Vols = {} /\ held = {}
      <4>1. Buttons \ Switches = {}
        BY <1>1, <2>2, <2>4
      <4> QED
        BY <1>1, <2>1, <2>4, <4>1, VolsApart
    <3>2. Seen'
      BY <1>1, <1>3, <3>1 DEF Seen, AllSeen
    <3>3. Coming(events) = 0
      BY <2>1, <2>4, ComingIs
    <3>4. \A x \in 0..4 : Turn(data', x) = (x + Coming(events)) % 5
      BY <3>1, <3>3 DEF Turn, Vols
    <3> QED
      BY <1>1, <1>2, <1>3, <3>2, <3>3, <3>4
  <2> QED
    BY <2>3, <2>4
<1> QED
  BY <1>5, <1>6

(* The message of a boot is empty, and a BACK ends the input process.      *)
LEMMA FollowInput ==
  ASSUME Types, Follow, InputStep
  PROVE  Follow'
<1> SUFFICES ASSUME Tidy'
             PROVE  /\ mpc' = "boot" => mode' = 0
                    /\ ipc' = "boot" => Untouched'
                    /\ ipc' = "loop" => Seen' /\ (mpc' \in {"boot", "wait", "busy"} => Turned')
  BY DEF Follow
<1>1. /\ UNCHANGED <<mpc, in, mode, turns, tidy, kills>> /\ ~dropped' /\ Current' = Current
  BY DEF InputStep, InputBoot, PollBack, PollSwitches, ReadButtons, user, main, Tidy,
         Current, NewMode
<1>2. inq \in Seq(Inputs) /\ mode \in 0..4 /\ turns \in 0..4 /\ {} \in Inputs
  BY DEF Types, TypeOK, MODE, Inputs
<1>3. CASE InputBoot
  <2>1. CASE ipc' = "loop"
    <3>1. SendIn({}) /\ data' = {} /\ prev' = {} /\ UNCHANGED user /\ ipc = "boot"
      BY <1>3, <2>1 DEF InputBoot
    <3>2. ~dropped /\ inq' = Append(inq, {})
      BY <1>1, <3>1, SentAppend
    <3>3. Untouched /\ (mpc = "boot" => mode = 0)
      BY <1>1, <3>1, <3>2 DEF Follow, Tidy
    <3>4. Seen'
      BY <3>1, <3>3 DEF Untouched, user, Seen, AllSeen
    <3>5. Turned'
      <4>1. Leads(<<>>, 0, 0) /\ <<>> \in Seq(Inputs)
        BY LeadsNowhere
      <4>2. Turn({}, 0) = 0
        BY DEF Turn
      <4>3. Leads(Append(<<>>, {}), 0, 0)
        BY <1>2, <4>1, <4>2, LeadsOn
      <4>4. Current' = 0 /\ inq' = Append(<<>>, {}) /\ turns' = 0
        BY <1>1, <3>2, <3>3 DEF Current, Untouched
      <4>5. Coming(events') = 0
        BY <3>1, <3>3, ComingIs DEF Untouched, user
      <4> QED
        BY <4>3, <4>4, <4>5 DEF Turned, MODE
    <3> QED
      BY <1>1, <2>1, <3>3, <3>4, <3>5
  <2>2. CASE ipc' = "done" /\ UNCHANGED dropped
    BY <1>1, <2>2 DEF Follow, Tidy
  <2> QED
    BY <1>3, <2>1, <2>2 DEF InputBoot
<1>4. CASE PollBack
  <2>1. ~dropped /\ ipc' = "done"
    BY <1>1, <1>4, SentAppend DEF PollBack
  <2> QED
    BY <1>1, <2>1 DEF Follow, Tidy
<1>5. CASE PollSwitches
  <2>0. ipc = "loop" /\ ipc' = "loop" /\ events' = <<>> /\ (UNCHANGED dropped \/ SendIn(data'))
    BY <1>5 DEF PollSwitches, ReadButtons, SendChange
  <2>1. ~dropped /\ ipc = "loop" /\ ipc' = "loop" /\ events' = <<>>
    BY <1>1, <2>0, SentAppend
  <2>2. Tidy
    BY <1>1, <2>1 DEF Tidy
  <2>3. Seen /\ (mpc = "boot" => mode = 0) /\ (mpc \in {"boot", "wait", "busy"} => Turned)
    BY <2>1, <2>2 DEF Follow
  <2>4. /\ Seen'
        /\ \/ inq' = inq /\ Coming(events) = 0
           \/ /\ inq' = Append(inq, data') /\ data' \in Inputs
              /\ \A x \in 0..4 : Turn(data', x) = (x + Coming(events)) % 5
    BY <1>1, <1>5, <2>3, PollSends
  <2>5. ASSUME mpc \in {"boot", "wait", "busy"} PROVE Turned'
    <3>1. PICK x \in 0..4 : Leads(inq, Current, x) /\ turns = (x + Coming(events)) % 5
      BY <2>3, <2>5 DEF Turned, MODE
    <3>2. Coming(events') = 0
      BY <2>1, ComingIs
    <3>3. CASE inq' = inq /\ Coming(events) = 0
      <4>1. turns' = (x + Coming(events')) % 5
        BY <1>1, <3>1, <3>2, <3>3
      <4> QED
        BY <1>1, <3>1, <3>3, <4>1 DEF Turned, MODE
    <3>4. CASE /\ inq' = Append(inq, data') /\ data' \in Inputs
               /\ \A y \in 0..4 : Turn(data', y) = (y + Coming(events)) % 5
      <4>1. Leads(inq', Current, Turn(data', x))
        BY <1>2, <3>1, <3>4, LeadsOn
      <4>2. Turn(data', x) = turns
        BY <3>1, <3>4
      <4>3. turns' = (turns + Coming(events')) % 5
        BY <1>1, <1>2, <3>2
      <4> QED
        BY <1>1, <1>2, <4>1, <4>2, <4>3 DEF Turned, MODE
    <3> QED
      BY <2>4, <3>3, <3>4
  <2> QED
    BY <1>1, <2>1, <2>3, <2>4, <2>5
<1> QED
  BY <1>3, <1>4, <1>5 DEF InputStep

(* The main process takes the first message and turns the mode by it.      *)
LEMMA NewModeIs == NewMode = Turn(in, mode)
BY DEF NewMode, Turn

LEMMA FollowMain ==
  ASSUME Types, Follow, MainStep
  PROVE  Follow'
<1> SUFFICES ASSUME Tidy'
             PROVE  /\ mpc' = "boot" => mode' = 0
                    /\ ipc' = "boot" => Untouched'
                    /\ ipc' = "loop" => Seen' /\ (mpc' \in {"boot", "wait", "busy"} => Turned')
  BY DEF Follow
<1>1. /\ UNCHANGED <<held, swi, events, polled, turns, tidy, kills, ipc, data, prev>>
      /\ Tidy /\ mpc' # "boot"
  <2>1. /\ UNCHANGED <<user, input, kills>> /\ mpc' # "boot"
        /\ \/ UNCHANGED dropped
           \/ dropped' = (dropped \/ outq' = outq)
           \/ dropped' = (dropped \/ inq # <<>> \/ outq # <<>>)
    <3>1. CASE MainBoot BY <3>1 DEF MainBoot, Show, SendOut
    <3>2. CASE MainReceive BY <3>2 DEF MainReceive
    <3>3. CASE MainBack BY <3>3 DEF MainBack, Show, SendOut
    <3>4. CASE MainPass BY <3>4 DEF MainPass, Show, SendOut
    <3>5. CASE MainRemove BY <3>5 DEF MainRemove
    <3> QED
      BY <3>1, <3>2, <3>3, <3>4, <3>5 DEF MainStep
  <2>2. ~dropped' /\ tidy' /\ kills' = 0
    BY DEF Tidy
  <2>3. ~dropped
    BY <2>1, <2>2
  <2> QED
    BY <2>1, <2>2, <2>3 DEF user, input, Tidy
<1>2. /\ mpc = "boot" => mode = 0
      /\ ipc = "boot" => Untouched
      /\ ipc = "loop" => Seen /\ (mpc \in {"boot", "wait", "busy"} => Turned)
  BY <1>1 DEF Follow
<1>3. Seen => Seen'
  BY <1>1 DEF Seen, AllSeen, OneToSee
<1>4. inq \in Seq(Inputs)
  BY DEF Types, TypeOK
<1>5. ASSUME inq' = inq, Current' = Current, Turned PROVE Turned'
  BY <1>1, <1>5 DEF Turned
<1>6. CASE MainBoot
  <2>1. mpc = "boot" /\ mpc' = "wait" /\ mode' = mode /\ inq' = inq
    BY <1>2, <1>6 DEF MainBoot
  <2>2. Current' = Current
    BY <2>1 DEF Current
  <2> QED
    BY <1>1, <1>2, <1>3, <1>5, <2>1, <2>2 DEF Untouched
<1>7. CASE MainReceive
  <2>1. /\ mpc = "wait" /\ mpc' = "busy" /\ inq # <<>> /\ mode' = mode
        /\ in' = Head(inq) /\ inq' = Tail(inq)
    BY <1>7 DEF MainReceive
  <2>2. Current = mode /\ Current' = Turn(Head(inq), mode)
    BY <2>1, NewModeIs DEF Current, NewMode, Turn
  <2>3. ASSUME Turned PROVE Turned'
    <3>1. PICK x \in 0..4 : Leads(inq, mode, x) /\ turns = (x + Coming(events)) % 5
      BY <2>2, <2>3 DEF Turned, MODE
    <3>2. Leads(inq', Current', x)
      BY <1>4, <2>1, <2>2, <3>1, LeadsFrom
    <3> QED
      BY <1>1, <3>1, <3>2 DEF Turned, MODE
  <2> QED
    BY <1>1, <1>2, <1>3, <2>1, <2>3 DEF Untouched
<1>8. CASE MainBack \/ MainRemove
  <2>1. mpc' \in {"ending", "done"} /\ (mpc = "busy" \/ inq' = <<>>)
        /\ (mpc # "busy" => mode' = mode)
    BY <1>8 DEF MainBack, MainRemove
  <2> QED
    BY <1>1, <1>2, <1>3, <2>1 DEF Untouched
<1>9. CASE MainPass
  <2>1. mpc = "busy" /\ mpc' = "wait" /\ mode' = NewMode /\ inq' = inq
    BY <1>9 DEF MainPass
  <2>2. Current' = Current
    BY <2>1 DEF Current
  <2> QED
    BY <1>1, <1>2, <1>3, <1>5, <2>1, <2>2 DEF Untouched
<1> QED
  BY <1>6, <1>7, <1>8, <1>9 DEF MainStep

LEMMA StepFollow == Types /\ Follow /\ [Next]_vars => Follow'
<1> SUFFICES ASSUME Types, Follow, [Next]_vars PROVE Follow'
  OBVIOUS
<1>1. CASE Kill
  <2>1. kills' # 0
    BY <1>1 DEF Kill
  <2> QED
    BY <2>1 DEF Follow, Tidy
<1>2. CASE OutputStep \/ UNCHANGED vars
  <2>1. /\ UNCHANGED <<held, swi, events, polled, turns, tidy, kills, dropped, inq>>
        /\ UNCHANGED <<ipc, data, prev, mpc, in, mode>>
    BY <1>2 DEF OutputStep, OutputBoot, OutputPass, vars, user, input, main
  <2>2. /\ Tidy' = Tidy /\ Untouched' = Untouched /\ Seen' = Seen /\ Turned' = Turned
    BY <2>1 DEF Tidy, Untouched, Seen, AllSeen, OneToSee, Turned, Current, NewMode
  <2> QED
    BY <2>1, <2>2 DEF Follow
<1> QED
  BY <1>1, <1>2, FollowUser, FollowInput, FollowMain DEF Next

(* Once everything is handled the mode is the number of VOL+ presses minus *)
(* the VOL- presses: no press is lost on its way through the poll, the     *)
(* comparison with the last message, the queue and the switch of modes,    *)
(* and none is counted twice, however long the queue gets.                 *)
THEOREM ModeIsPresses == Spec => []ModeFollowsPresses
<1>1. Init => Types /\ Follow
  BY InitTypes DEF Init, Follow, Untouched
<1>2. Types /\ Follow /\ [Next]_vars => (Types /\ Follow)'
  BY StepTypes, StepFollow
<1>3. Types /\ Follow => ModeFollowsPresses
  <2> SUFFICES ASSUME Types, Follow, Tidy, Handled PROVE mode = turns
    BY DEF ModeFollowsPresses, Tidy
  <2>1. Seen /\ Turned /\ inq = <<>> /\ polled /\ Current = mode
    BY DEF Follow, Handled, Current
  <2>2. Coming(events) = 0
    BY <2>1, ComingIs DEF Seen, AllSeen, OneToSee
  <2>3. mode \in 0..4
    BY DEF Types, TypeOK, MODE
  <2>4. PICK x \in 0..4 : Leads(<<>>, mode, x) /\ turns = (x + 0) % 5
    <3>1. \E x \in 0..4 : Leads(<<>>, mode, x) /\ turns = (x + Coming(events)) % 5
      BY <2>1 DEF Turned, MODE
    <3> QED
      BY ONLY <2>2, <3>1
  <2>5. x = mode
    BY <2>3, <2>4, LeadsNowhere
  <2> QED
    BY <2>4, <2>5
<1> QED
  BY <1>1, <1>2, <1>3, PTL DEF Spec
=============================================================================
