------------------------------- MODULE Board -------------------------------
(***************************************************************************)
(* The three processes of [HW1]20151588/main.c and the two System V        *)
(* message queues between them:                                            *)
(*                                                                         *)
(*   buttons, switches -> input_process -> inq -> main_process             *)
(*                                      -> outq -> output_process -> FND,  *)
(*                                         LED, dot matrix, LCD            *)
(*                                                                         *)
(* A message from the input process is the set of buttons and switches     *)
(* that are 1 in it.  What the five modes draw is abstracted to the mode   *)
(* and a value out of Vals; all that the pipeline needs of them is that    *)
(* whatever changes the picture sets outflag.                              *)
(* Every msgsnd is IPC_NOWAIT: on a full queue the message is dropped.     *)
(* The queues belong to the kernel: they survive the death of the program. *)
(***************************************************************************)
EXTENDS Integers, Sequences, SequencesExt

CONSTANTS
  Switches,    \* the push switches (nine)
  Vals,        \* what a mode can show beside its number; holds 0
  InCap,       \* messages that fit in each queue (682 and 227: 16384 bytes
  OutCap,      \*   divided by the size of a message)
  EvMax,       \* bound: key events the user makes between two polls
  Budget,      \* bound: touches of the user and a kill, in all
  Timely,      \* TRUE: the sleeps before output and before RMID are enough
  LeftEvents,  \* what ev[0] and the output process's data, which are not
  LeftData,    \*   initialised, can hold when a process starts
  DevicesOpen  \* TRUE: no open() of a device fails

ASSUME BoardAssumption ==
  /\ 0 \in Vals
  /\ InCap \in Nat \ {0} /\ OutCap \in Nat \ {0}
  /\ EvMax \in 1..64     \* one read takes BUF_SIZE events
  /\ Budget \in Nat
  /\ {Timely, DevicesOpen} \subseteq BOOLEAN

MODE == 5
Keys == {"vol+", "vol-", "back"}

(* Buttons and switches are two devices. *)
ASSUME SwitchAssumption == Switches \intersect Keys = {}

Pressed == Keys \X {TRUE}
NoEvent == <<"none", FALSE>>
Inputs == SUBSET (Keys \union Switches)
Pictures == [mode : 0..(MODE - 1), val : Vals, end : BOOLEAN]

ASSUME LeftAssumption ==
  /\ LeftEvents \subseteq {NoEvent} \union Pressed /\ LeftEvents # {}
  /\ LeftData \subseteq Pictures /\ LeftData # {}

VARIABLES
  held,     \* buttons held down by the user
  swi,      \* switches held down by the user
  events,   \* key events since the last read of the button device
  ipc,      \* input process
  ev0,      \*   ev[0]
  data,     \*   data
  prev,     \*   prev
  mpc,      \* main process
  in,       \*   in
  mode,     \*   mode
  out,      \*   out
  opc,      \* output process
  shown,    \*   data, which is also what the devices show
  inq,      \* the two queues
  outq,
  exists,   \* the queues exist
  touches, kills,  \* history, for the bound
  polled,   \* history: the input process has polled since the last touch
  tidy,     \* history: each touch was polled before the next, and nothing
            \*   else was touched while a button was held
  turns,    \* history: VOL+ minus VOL- presses, modulo MODE
  dropped   \* history: a message met a full queue, or a queue that is gone

user   == <<held, swi, events, touches, polled, tidy, turns>>
input  == <<ipc, ev0, data, prev>>
main   == <<mpc, in, mode, out>>
output == <<opc, shown>>
vars   == <<user, input, main, output, inq, outq, exists, kills, dropped>>

(* msgsnd(..., IPC_NOWAIT) to each of the queues. *)
put(queue, cap, m) ==
  IF exists /\ Len(queue) < cap THEN Append(queue, m) ELSE queue

SendIn(m)  == inq' = put(inq, InCap, m) /\ dropped' = (dropped \/ inq' = inq)
SendOut(m) == outq' = put(outq, OutCap, m) /\ dropped' = (dropped \/ outq' = outq)

(* outflag is set: out goes to the output process.  Mutant: it is not.     *)
Show_not(p) == out' = p /\ UNCHANGED <<outq, dropped>>

Show(p) == out' = p /\ SendOut(p)

mode_init(m) == [mode |-> m, val |-> 0, end |-> FALSE]

Init ==
  /\ held = {} /\ swi = {} /\ events = <<>>
  /\ ipc = "boot" /\ data = {} /\ prev = {}
  /\ ev0 \in LeftEvents
  /\ mpc = "boot" /\ in = {} /\ mode = 0 /\ out = mode_init(0)
  /\ opc = "boot" /\ shown = mode_init(0)
  /\ inq = <<>> /\ outq = <<>> /\ exists = TRUE
  /\ touches = 0 /\ kills = 0
  /\ polled = TRUE /\ tidy = TRUE /\ turns = 0 /\ dropped = FALSE

-----------------------------------------------------------------------------
(* The user.  The button device keeps events for a process that has it     *)
(* open.                                                                   *)

Event(k, down) == IF ipc = "loop" THEN Append(events, <<k, down>>) ELSE events

Touch(alone) ==
  /\ touches + kills < Budget
  /\ touches' = touches + 1
  /\ polled' = FALSE
  /\ tidy' = (tidy /\ polled /\ ipc = "loop" /\ (alone => held = {}))
  /\ UNCHANGED <<input, main, output, inq, outq, exists, kills, dropped>>

Press(k) ==
  /\ Touch(TRUE)
  /\ k \notin held /\ Len(events) < EvMax
  /\ held' = held \union {k}
  /\ events' = Event(k, TRUE)
  /\ turns' = CASE k = "vol+" -> (turns + 1) % MODE
                [] k = "vol-" -> (turns + MODE - 1) % MODE
                [] OTHER -> turns
  /\ UNCHANGED swi

Release(k) ==
  /\ Touch(FALSE)
  /\ k \in held /\ Len(events) < EvMax
  /\ held' = held \ {k}
  /\ events' = Event(k, FALSE)
  /\ UNCHANGED <<swi, turns>>

Switch(s) ==
  /\ Touch(TRUE)
  /\ swi' = IF s \in swi THEN swi \ {s} ELSE swi \union {s}
  /\ UNCHANGED <<held, events, turns>>

-----------------------------------------------------------------------------
(* input_process                                                           *)

InputBoot ==
  /\ ipc = "boot"
  /\ data' = {} /\ prev' = {}
  /\ \/ ipc' = "loop" /\ SendIn({})
     \/ ~DevicesOpen /\ ipc' = "done" /\ UNCHANGED <<inq, dropped>>
  /\ UNCHANGED <<user, ev0, main, output, outq, exists, kills>>

(* One read takes all events there are; only the first is looked at.       *)
FirstEvent == IF events = <<>> THEN ev0 ELSE Head(events)

(* Mutant of Buttons: a release does not reset the button. *)
Buttons_stick ==
  data \union {k \in {"vol+", "vol-"} : events # <<>> /\ FirstEvent = <<k, TRUE>>}

(* data.but[0] and data.but[1] as they are after the read. *)
Buttons ==
  IF events = <<>>
  THEN data
  ELSE (data \ {"vol+", "vol-"})
         \union {k \in {"vol+", "vol-"} : FirstEvent = <<k, TRUE>>}

ReadButtons ==
  /\ ipc = "loop"
  /\ ev0' = FirstEvent
  /\ events' = <<>>
  /\ polled' = TRUE
  /\ UNCHANGED <<held, swi, touches, tidy, turns, main, output, outq, exists, kills>>

PollBack ==
  /\ ReadButtons
  /\ FirstEvent = <<"back", TRUE>>
  /\ data' = Buttons \union {"back"}
  /\ SendIn(data')
  /\ ipc' = "done"
  /\ UNCHANGED prev

(* check_in_data compares with prev: only a change is sent.  Mutants: what *)
(* was sent is not remembered; the message is sent before the switches are *)
(* read.                                                                   *)
SendChange_forgets == UNCHANGED prev /\ SendIn(data')
SendChange_early   == prev' = data' /\ SendIn(Buttons)

SendChange == prev' = data' /\ SendIn(data')

PollSwitches ==
  /\ ReadButtons
  /\ FirstEvent # <<"back", TRUE>>
  /\ data' = (Buttons \ Switches) \union swi
  /\ \/ data' = prev /\ UNCHANGED <<prev, inq, dropped>>
     \/ data' # prev /\ SendChange
  /\ UNCHANGED ipc

-----------------------------------------------------------------------------
(* main_process                                                            *)

MainBoot ==
  /\ mpc = "boot"
  /\ mode' = 0
  /\ Show(mode_init(0))
  /\ mpc' = "wait"
  /\ UNCHANGED <<user, input, in, output, inq, exists, kills>>

(* msgrcv, which waits, and the sleep after it. *)
MainReceive ==
  /\ mpc = "wait"
  /\ inq # <<>>
  /\ in' = Head(inq)
  /\ inq' = Tail(inq)
  /\ mpc' = "busy"
  /\ UNCHANGED <<user, input, mode, out, output, outq, exists, kills, dropped>>

(* Mutant of NewMode: VOL- does not go round. *)
NewMode_below ==
  CASE "vol+" \in in -> (mode + 1) % MODE
    [] "vol-" \in in /\ "vol+" \notin in -> mode - 1
    [] OTHER -> mode

NewMode ==
  CASE "vol+" \in in -> (mode + 1) % MODE
    [] "vol-" \in in /\ "vol+" \notin in -> (mode + MODE - 1) % MODE
    [] OTHER -> mode

(* The end message: mode_init(&out, -1, ...). *)
MainBack ==
  /\ mpc = "busy"
  /\ "back" \in in
  /\ mode' = NewMode
  /\ Show([mode_init(0) EXCEPT !.end = TRUE])
  /\ mpc' = "ending"
  /\ UNCHANGED <<user, input, in, output, inq, exists, kills>>

(* A pass through the switch of modes: the picture stays, or outflag is    *)
(* set and the picture is sent.  A new mode always sets outflag.           *)
MainPass ==
  /\ mpc = "busy"
  /\ "back" \notin in
  /\ mode' = NewMode
  /\ \/ /\ in \intersect {"vol+", "vol-"} = {}
        /\ UNCHANGED <<out, outq, dropped>>
     \/ \E v \in Vals : Show([mode_init(NewMode) EXCEPT !.val = v])
  /\ mpc' = "wait"
  /\ UNCHANGED <<user, input, in, output, inq, exists, kills>>

(* After a sleep for the output process both queues are removed, and with  *)
(* them what is in them.                                                   *)
MainRemove ==
  /\ mpc = "ending"
  /\ Timely => outq = <<>> \/ opc = "done"
  /\ exists' = FALSE
  /\ dropped' = (dropped \/ inq # <<>> \/ outq # <<>>)
  /\ inq' = <<>> /\ outq' = <<>>
  /\ mpc' = "done"
  /\ UNCHANGED <<user, input, in, mode, out, output, kills>>

-----------------------------------------------------------------------------
(* output_process                                                          *)

OutputBoot ==
  /\ opc = "boot"
  /\ Timely => mpc # "boot"
  /\ \/ opc' = "loop" /\ shown' \in LeftData
     \/ ~DevicesOpen /\ opc' = "done" /\ UNCHANGED shown
  /\ UNCHANGED <<user, input, main, inq, outq, exists, kills, dropped>>

(* msgrcv with IPC_NOWAIT: without a message data stays what it was; the   *)
(* devices are written in any case.                                        *)
OutputPass ==
  /\ opc = "loop"
  /\ shown' = IF outq = <<>> THEN shown ELSE Head(outq)
  /\ outq' = IF outq = <<>> THEN <<>> ELSE Tail(outq)
  /\ opc' = IF shown'.end THEN "done" ELSE "loop"
  /\ UNCHANGED <<user, input, main, inq, exists, kills, dropped>>

-----------------------------------------------------------------------------
(* Killed from outside and started again: msgget finds the old queues and  *)
(* what is in them, or creates them.                                       *)
Kill ==
  /\ kills = 0 /\ touches < Budget
  /\ kills' = kills + 1
  /\ ipc' = "boot" /\ mpc' = "boot" /\ opc' = "boot"
  /\ ev0' \in LeftEvents
  /\ data' = {} /\ prev' = {} /\ in' = {}
  /\ mode' = 0 /\ out' = mode_init(0) /\ shown' = mode_init(0)
  /\ events' = <<>>
  /\ turns' = 0
  /\ exists' = TRUE
  /\ UNCHANGED <<held, swi, touches, polled, tidy, inq, outq, dropped>>

-----------------------------------------------------------------------------
User == \/ \E k \in Keys : Press(k) \/ Release(k)
        \/ \E s \in Switches : Switch(s)

InputStep == InputBoot \/ PollBack \/ PollSwitches
MainStep == MainBoot \/ MainReceive \/ MainBack \/ MainPass \/ MainRemove
OutputStep == OutputBoot \/ OutputPass

Next == User \/ InputStep \/ MainStep \/ OutputStep \/ Kill

Spec == Init /\ [][Next]_vars

(* The three processes are scheduled; the user owes nothing. *)
Fairness == WF_vars(InputStep) /\ WF_vars(MainStep) /\ WF_vars(OutputStep)

FairSpec == Spec /\ Fairness

-----------------------------------------------------------------------------
(* Neither queue holds more than fits, the mode stays one of the five      *)
(* whichever way it is turned, and no read meets more than EvMax events.   *)
TypeOK ==
  /\ held \subseteq Keys /\ swi \subseteq Switches
  /\ events \in Seq(Keys \X BOOLEAN) /\ Len(events) <= EvMax
  /\ ev0 \in {NoEvent} \union (Keys \X BOOLEAN)
  /\ ipc \in {"boot", "loop", "done"}
  /\ mpc \in {"boot", "wait", "busy", "ending", "done"}
  /\ opc \in {"boot", "loop", "done"}
  /\ {data, prev, in} \subseteq Inputs
  /\ {out, shown} \subseteq Pictures
  /\ mode \in 0..(MODE - 1) /\ turns \in 0..(MODE - 1)
  /\ inq \in Seq(Inputs) /\ Len(inq) <= InCap
  /\ outq \in Seq(Pictures) /\ Len(outq) <= OutCap
  /\ {exists, polled, tidy, dropped} \subseteq BOOLEAN
  /\ touches + kills \in 0..Budget

(* The newest message of a queue, or what its reader has read last.        *)
Newest(queue, read) == IF queue = <<>> THEN read ELSE Last(queue)

(* "If the data comes in then send it to the main process": unless a full  *)
(* queue drops a message, what the main process has still to read ends     *)
(* with what the input process saw last; also with messages of a killed    *)
(* program in the queue.                                                   *)
InputInOrder ==
  ~dropped /\ exists
     => /\ ipc = "loop" => Newest(inq, in) = prev
        /\ ipc = "done" /\ "back" \in data => Newest(inq, in) = data

(* The same on the way to the devices: after the messages on their way the *)
(* output process shows what the main process holds in out.                *)
DisplayInOrder ==
  ~dropped /\ exists /\ mpc # "boot" /\ opc # "done"
     => Newest(outq, shown) = out

(* A BACK that was read ends all three processes, unless its message is    *)
(* lost or the program is killed and started again.                        *)
AllDone == ipc = "done" /\ mpc = "done" /\ opc = "done"

EndsTogether ==
  (("back" \in data /\ ipc = "done") \/ mpc = "done")
     ~> (AllDone \/ dropped \/ ipc = "boot")

(* When the user lets go the switches the main process knows are those of  *)
(* the board, and the devices show what it has drawn, also after a kill    *)
(* that left messages behind, unless a message was dropped.                *)
CatchesUp ==
  <>[](\/ dropped \/ ipc = "done" \/ mpc = "done"
       \/ /\ in \intersect Switches = swi
          /\ shown = out \/ opc = "done")

(* "If push VOL+ button then change the mode": when everything has been    *)
(* handled the mode is the number of presses of VOL+ minus those of VOL-,  *)
(* for a user whose every touch is polled before the next.                 *)
Handled == polled /\ inq = <<>> /\ mpc = "wait" /\ ipc = "loop"

ModeFollowsPresses ==
  tidy /\ ~dropped /\ kills = 0 /\ Handled => mode = turns

(* "If push the back button then end the program".                         *)
BackEnds ==
  Contains(events, <<"back", TRUE>>) ~> (mpc = "done" \/ dropped)
=============================================================================
