# TLA+ models of CSE4116

The repository holds four programs for an ARM/Android board: `[HW1]20151588`
(three processes and two message queues), `[HW2]20151588` (a timer driver for
FND, LED, dot matrix and LCD, and the system call that packs its arguments),
`[HW3]20151588` (a stopwatch driver with interrupts and timers) and
`[HW4]20151588` (an Android sliding puzzle with a timer service). They share no
code. There is no documentation and there are no tests; what the programs are
meant to do is in the comments of their code, and a property that quotes a
comment says so.

All line numbers are those of `src/`; `PROJECT.json` maps every definition to
its lines.

## 1. Inventory

### HW3: the stopwatch (`module/module.c`, `app/main.c`)

*State*: `t` (a timer, the time in hundredths, a stop flag), the timer `end`,
`driver_usage`, the four interrupt lines, the display.
*Operations*: HOME starts, BACK pauses and resumes, VOL+ clears, VOL- held for
three seconds ends the session; the timer callback `stopwatch_blink` counts and
re-arms itself; open installs the handlers, write sleeps until woken, release
frees the handlers and deletes the timers; insmod and rmmod.
*Interaction*: interrupts, timer softirq and file operations on the same
globals, with no lock at all.
*Hard*: an interrupt in the middle of the callback; a pending timer added again
(the kernel's `BUG_ON`); a wake-up before the sleep; `del_timer` beside a running
callback; `rmmod` while the file is open (`stopwatch_fops` names no owner).
*Correct if*: a running watch has its timer and a paused one gets rid of it, no
timer is added twice, nothing survives release, the display shows the recorded
time, a press is not lost on the callback, the machine does not stop, the long
press ends the session.

### HW1: the board program (`main.c`)

Three processes: `input_process` polls buttons and switches and sends what has
changed; `main_process` runs one of five modes and sends a picture when
`outflag` is set; `output_process` polls its queue and writes to the devices.
*State*: each process's copy of what it saw last (`prev`, `in`, `out`, `data`),
the mode and its variables, the two System V queues, which outlive the program.
*Hard*: non-blocking sends that drop messages, several key events in one read,
memory that is read before it is written, a kill and a restart on old queues,
removal of the queues after a sleep, two copies of a list of resets, an index of
-1 that stands for "empty"; a cursor that blinks in the output process's own copy
of the picture, and a lamp register that is written only when a remembered value
differs and that keeps its value over a kill.
*Correct if*: the main process ends up knowing the switches as they are, the
devices show what it drew, VOL+ and VOL- change the mode, BACK ends all three
processes; and for the modes: what is shown is what the mode holds, no mode
leaves anything behind, the clock goes with the local time, the counter counts,
the text is well formed and is what was pushed; for the devices: blinking goes on and leaves no trace, the lamps are
those of the last picture.

### HW2: the FPGA timer (`module/module.c`, `app/20151588.c`, `kernel/kernel/newcall.c`)

*State*: the timer with its countdown and four packed bytes, `driver_usage`, the
mapped registers.
*Operations*: the system call packs interval, repetitions and start; open, ioctl
(which hands over a job), release; the callback draws a picture and re-arms, and
clears the board after the last one; insmod, rmmod.
*Hard*: the device is closed, hence idle, while its timer works; registers are
unmapped before the timer is deleted; four bytes of arithmetic per picture; an
array index computed from a user's number.
*Correct if*: exactly as many pictures as asked for, each the right one; a job
ends; nothing is indexed out of bounds.

### HW4: the puzzle (`MainActivity.java`, `MainActivity2.java`, `TimerService.java`)

*State*: for each activity the grid of labels, `click_flag`, the service
connection and a `java.util.Timer`; the bound service with its counter.
*Operations*: starting and leaving an activity; "make buttons" (size check,
shuffle, start of the clock), clicks, the solution (unbind and finish); the
timer thread posts a count to the UI thread every second.
*Interaction*: activities share one service as long as one of them is bound;
timer threads, the platform's callbacks and clicks meet on the UI thread.
*Hard*: one-dimensional index arithmetic for a grid; four tests in a row, each
on what the one before left; a timer that nobody cancels, on a service that the
next activity may get; a second activity started by a double tap on top of the
first; a connection that comes late or not at all; touches between `finish()` and
the end.
*Correct if*: a click is a legal slide, and so is each step of the shuffle; the clock runs
for the game on the screen and for no other; nothing is scheduled or unbound
twice.

### Left aside

The vendored kernel table `calls.S` (one added line), the font table
`fpga_dot_font.h`, build files, resources and generated code.

## 2. Modules

| module | models | role |
|---|---|---|
| `Stopwatch` | HW3 driver and application | state machine |
| `StopwatchSpec` | what the watch promises its user | abstract specification |
| `StopwatchProofs` | | invariants and refinement, proved |
| `Board` | HW1: three processes, two queues | state machine |
| `OutData` | `out_data`, the sending of it | shared by the modes |
| `Clock`, `Counter`, `TextEditor`, `DrawBoard`, `MoleGame` | HW1: the pass of each mode | components |
| `Modes` | HW1: `main_process` with all modes and the changes between them | composition |
| `TextSpec` | the line of text a user sees | abstract specification |
| `BoardProofs` | | types, order on the queues, presses and mode, proved |
| `ModesProofs` | | the properties of the modes and the refinement of `TextSpec`, proved |
| `Devices` | HW1: `output_process`, LED register and dot matrix | state machine |
| `DevicesProofs` | | its invariants, proved |
| `FpgaTimer` | HW2 driver, application, system call | state machine |
| `FpgaSpec` | the pictures of a job, given outright | abstract specification |
| `FpgaProofs` | | types, bounds of the callback's arrays and the refinement, proved |
| `Puzzle` | HW4: the board, with deal, shuffle and click | part of `Activity` |
| `Activity` | HW4: activities, their timers, the service | state machine, composition |
| `PuzzleSpec` | a sliding puzzle on a grid | abstract specification |
| `PuzzleProofs` | | the board: index arithmetic, slides, the parity of an order |
| `ActivityProofs` | | what a game leaves behind, the clock, the refinement of `PuzzleSpec`, proved |
| `Remainders` | | lemmas on quotients and remainders for a symbolic modulus |
| `MC*` | | constants for TLC |

Definitions named after a bug they contain (`del_timers_t`, `on_off`, ...) are
mutants: no specification uses them. Each stands before the definition it
varies; `PROJECT.json` says which property notices it.

### How the models correspond to the code

**Stopwatch.** One action per interrupt handler (they run with interrupts off);
`stopwatch_blink` in three (`BlinkRead`, `BlinkStore`, `BlinkShow`), cut where an
interrupt changes the outcome: `t.value++` is a load and a store, and the display
and the re-arming come after. Open is cut between the test of `driver_usage` and
the rest, release between `free_irq` and `del_timer`, because other contexts get
in between. `end`'s callback is one action: interrupt handlers and it assign the
same variables, but it neither reads one before it writes it. With `SMP` the
file operations also run while a callback is in the middle: nothing in the driver
rules out several processors. The interrupt handlers and the timers they add are
served by one and the same processor. `panic` is
`BUG_ON(timer_pending(timer))`, or code that runs after `rmmod`. Ticks of the
timer are the only time there is; three seconds for `end` are "some time".

The user is free: any button at any time, any number of applications, `rmmod` at
any time. The driver is not made for all of that, and what it is not made for is
recorded in the history variable `odd`, each thing by the step in which it
happens: two applications inside (`two`), the timer added while it or its callback
lives (`alive`), VOL- faster than its handler (`bounce`), `rmmod` under an open
file (`removed`), `del_timer` beside the running callback (`caught`), a clear
while the callback holds the time (`lost`), BACK that was to resume a started
watch and did not (`waits`). Each property names the things that excuse it;
all other misbehaviour, and every other order of events, refutes it.

*Refinement.* `StopwatchSpec` says what the comments say: BACK resumes a stopped
watch whatever its time, VOL+ leaves recording alone, the watch goes past the
hour. A tick counts, and its second is shown, from the moment the callback has
decided to record it (`recorded`, `shown`), so that a press in the middle of the
callback is a press after the tick. `Implements` holds each handler to its button.
Two presses are excused: HOME while the timer or its callback lives (`alive`), which is what `NoPanic` is about, and
BACK on a started watch that stands at 0 (`waits`), which the code does not resume
(section 6). From `two`, `lost` and `caught` on nothing is claimed.

**Board.** One action per turn of each process's loop; `main_process` has one for
`msgrcv` and one for the pass, and the sleep before the queues are removed is the
gap between `MainBack` and `MainRemove`. A message is the set of signals that are
1. What modes draw is a value out of `Vals`; that a pass which changes the
picture also sends it is `SentIsCurrent` of `Modes`. `ev0` survives a read that
finds nothing, as in the code. What uninitialised memory (`ev[0]`, the output
process's `data`) holds at a start is chosen from `LeftEvents` and `LeftData`.

**Devices.** One action per turn of the output process's loop, with a message
(`Receive`) or without (`NoMessage`); the turn is the code's sequence of counting,
blinking, lamps and writes. The 7000 turns of a second are `Second`. `led` is the
register behind `mmap`, which the process never reads; `Restart` keeps it. Where
`Board` has the order of messages and one value for what is shown, `Devices` has
all that happens to a message once it was received.

**Modes.** The five mode modules extend `OutData`, which declares the fields of
`out`, and each defines the pass of its mode on these and its own variables;
`Modes` extends all five. A message without VOL+ or VOL- is one step (`Handle`);
with one of them it is two: `Turn` (`mode_init` and the resets) and `Work` (the
pass of the new mode, which in the code follows at once and looks at the
switches of the same message). `shown` says that the last message sent carried
`out` as it is. `text` has an index -1, the byte of `curmode` before it. In the
mole game a pass can catch a chain of moles, because the mole moves inside the
loop: the model has all chains that `rand()` allows. A minute can go by at any
moment in the clock mode (`Minute`), with a message or without; `missed` counts
those the code lost, because it adds one minute for any number (main.c:318), and
those between `mode_init` and the pass that enters the mode, and `due` is the one
it will still add. `right` records the switch of the letter that was pushed right
before, which `txt_prev` is meant to be and, after digits, a change of language or
a clear, is not (`Misled`).

**FpgaTimer.** One action per step of the application and of the driver another
process, or the timer, can come between: `dev_write` sets the count, the data and
adds the timer in three. The callback is one action, split by its branches; that
it runs beside `dev_write` on another processor, a few assignments at a time, is
not modelled, only that it comes before, between and after them. A callback that
leaves an array or shifts by a negative number ends in `panic = "stray"`, for
nothing is known of what comes after. `hasty` records that somebody used the
driver while it was at work, `odd_start` that the application, which checks
nothing, was called for a start the display cannot show.

**Activity** and **Puzzle.** Everything on the UI thread is one action per
callback; `Tick` is the timer's thread, `Run` the Runnable it posts. `Puzzle` has
the board and its actions without a specification of its own; `Activity` extends
it and adds to each the rest of its callback: `MakeButtons`, the steps of the
random shuffle (any number, in between nothing else runs) and `Play`, which ends
the callback and starts the clock, are one click. A service is called by the
number of the activity it was created for. The platform is modelled by what it
does: it creates a new activity when the device is turned, brings back the one it
covered when an activity ends, and drops, some time later, a connection that was
not unbound. Nothing keeps a double tap on the button of `MainActivity` from
starting two (`Start`, `tap`, `under`): the lower one is bound, connected and
waits, with nothing entered in it.

## 3. Runs

| run | question | bounds |
|---|---|---|
| `SW_any` | types; a running watch is armed; a pause ends the ticks; a held VOL- ends a sleeping application; what release leaves; what stops the machine; the display; refinement of `StopwatchSpec`. Buttons, bounces, signals, `insmod`, `rmmod` at any moment, several processors | one application, 2 ticks a second, the hour after 4; 360 thousand states |
| `SW_home`, `SW_wake` | deviations, see section 6 | the same on one processor |
| `BD_flow` | order and completeness on both queues; presses change the mode; BACK ends all; the devices catch up. With kill and restart, failing opens, short sleeps, dirty stack | queues of 2, one switch, 3 touches or kills, 2 events per poll, three left-over events and pictures; 420 thousand states |
| `BD_back` | deviation | the same, benign environment |
| `MD_modes` | the properties of the modes, see below | text of 2, counts to 3, points to 300, 2 hours of 3 minutes, 2 x 2 matrix, 2 holes; 130 thousand states |
| `MD_cursor` | deviation | the same |
| `FT_jobs` | types; indices in bounds unless the start does not fit; the pictures are those of `FpgaSpec`; jobs end | two applications, 0, 3 or 17 pictures, and a start of 0; 2.6 million states |
| `FT_again` | deviation | one application |
| `DV_blink` | blinking leaves no trace and goes on; the lamps are those of the last picture | a second of 3 turns, 2 x 2 matrix, messages with and without cursor, set mode and end; 1.5 thousand states |
| `AC_game` | labels; clicks and shuffle are slides of `PuzzleSpec` and keep the parity; the clock on the screen is its timer's and goes on, unless an older timer counts on its service; what a solved game leaves; nothing is scheduled twice | two activities, beside or on top of each other, boards of up to 6 cells in the first, an "hour" of 2 seconds, two Runnables waiting per timer; 740 thousand states |
| `AC_twice` | deviation | two games of two tiles, an "hour" of 4 seconds |

*Why the bounds are enough.* Two ticks per second are the least with a tick that
displays and one that does not, and an hour of two seconds makes the time go
round to 0 in every run, where HOME and BACK take it for never started. Queues of
two are full after two sends, so that drops happen, and hold one old message together with a new one; three touches allow
press, release, press, which is what the events of one poll can hide; a fourth
adds states but no new kind of poll. A text of two is full, shifted, cleared and
written again; the four notations of the counter have their real digits. Hours
of three minutes have passes with a carry and without, and a day of six minutes
brings midnight about. Three turns are the least second in which messages can
come before, at and after the blink; two activities let one that was left, turned
or solved count on the service of the other. Seventeen pictures move the
position on twice and let both texts turn round. Boards with one row, one column, and both dimensions above one are all
the cases the tests for the edges distinguish.

*The VIEW of the runs of `Modes`.* `live` leaves out the clock's time while
another mode is on, and the mole's place while the mole game is off: the code
sets both again before it reads them, so states that differ in nothing else have
the same future, and no property reads them there.

*Deadlock* is checked in `DV_blink` and the runs of `Modes`, which always can go
on. Elsewhere stopping is right: a machine that met a `BUG_ON`, the board program
after BACK or after the bound on the user, a driver that panicked, a puzzle that
crashed or whose last activity is gone.

*Properties of `MD_modes`.* `SentIsCurrent`: each pass that changes the picture
sends it. `ShowsState`: digits, lamps and letters are those of the mode's
variables. `Fresh`: a mode finds its variables as at the start. `Layout`: text up
to `txt_len`, zeros behind. `AbsSpec`: the text is `TextSpec`'s window, but in the
passes that go by a switch which was not pushed right before (`Misled`), with which
`MD_cursor` gets out of the text. `BehindByMissed`: a clock that was not set is
behind by the minutes it missed and by no other. `KeepsDistance`: a pass loses the
minutes beyond the first. `Odometer`: the counter.

### Fairness

`Stopwatch`: a latched interrupt is served and an expired timer calls back (weak
fairness); `stopwatch_end` and the processes get their turn between the short
callbacks although these come again and again (strong fairness: they are
disabled while a callback runs). Buttons, signals, open and rmmod are owed by
nobody. `Board`: the three processes are scheduled (weak fairness), the user owes
nothing. `FpgaTimer`: an expired timer calls back. `Devices`: the loop goes on
(weak fairness), messages are owed by nobody. `Activity`: a scheduled timer ticks
and the UI thread gets to what was posted (weak fairness for each timer); the user
and the platform owe nothing. The runs of `Modes` check safety only.

### Named bounds and assumptions in the models

- `Stopwatch`: `insmod` waits until nothing is left of the old module; GPIO
  interrupts and the timers added in them are served by one processor.
- `Board.Budget`, `EvMax`: touches and kills in all; events per poll. One kill.
- `Modes`: while another mode is on nobody looks at the clock, and the minutes are
  counted when it is entered again (`Turn`).
- `MCFpgaTimer.AnyArgs`: what the application is called with.
- `Devices`: a cursor that was never initialised lies on the matrix or does not
  blink (elsewhere the code writes outside `data.dot`).
- `Activity.Acts`, `Backlog`: how many activities are started; Runnables of one
  timer waiting for the UI thread. Between `finish()` and the end of an activity
  no size is entered that is refused. What a timer counts on a service that was
  destroyed, which nobody can see, is not followed.
- `MCModes.SomeChords`: which switches come together.

## 4. Proofs

TLC says what holds on the small instances above, the theorems what holds for
every value of the constants. Assumptions are the modules' own (`...Assumption`,
which only type the constants) and those named in the tables.

### Stopwatch (`StopwatchProofs`)

| theorem | states |
|---|---|
| `TypeCorrect` | `[]TypeOK` |
| `Armed` | `[]RunningIsArmed` |
| `Quiet` | `[]ReleasedIsQuiet` |
| `PanicHasCause` | `[]NoPanic` |
| `ShowsTime` | `[]FndShowsTime` |
| `Refinement` | `Spec => AbsSpec` |

For any number of applications, one processor or several, any ticks per second
and any length of the hour up to 3600 seconds, and a user who may do anything at
any time.

*Argument.* `TypeCorrect` needs that `fnd_write` yields digits for every second
below an hour (`FndDigits`, `SecondBelowHour`). Everything else is one invariant,
`IInv`. `UseInv` says who is inside the driver and what lives there: handlers only
with somebody who has not freed them yet, the timer and its callback only with
somebody inside, or caught by `del_timer`; and, unless two passed the test of
`driver_usage` together, at most one. `DangerInv` has what every cause of a `BUG_ON`
comes down to: the timer and its callback live at the same time only after a
button added it too early, and `end` is pending exactly while VOL- is held, as far
as its handler could follow. `ShowInv`: the callback's register is `t.value` unless
a clear met it, and the FND shows the last full second. `StartInv`: a watch that
records was started by HOME, which is what BACK's condition on the value 0 stands
for, and is not the same. With these (`Facts`) each handler is the button of its
name (`HomeIsHome`, `BackIsBack`, `ClearIsClear`), `BlinkRead` is the tick
(`RecordIsTick`), and the rest of the callback catches up with what counts already
(`StoreIsSame`).

### Board (`BoardProofs`)

| theorem | states | assumes |
|---|---|---|
| `TypeCorrect` | `[]TypeOK` | `LeftAssumption` |
| `InputArrives` | `[]InputInOrder` | `LeftAssumption` |
| `DisplayArrives` | `[]DisplayInOrder` | `LeftAssumption` |
| `ModeIsPresses` | `[]ModeFollowsPresses` | `LeftAssumption`, `SwitchAssumption` |

For any capacity of the queues, any number of touches, kills and events in a
poll. `SwitchAssumption`: no switch has the name of a key. *Argument.* The newest
message of a queue is the one sent last (`PutNewest`) until its reader has taken it (`TailNewest`), so each property is inductive but
for one gap: the output process starts with a `data` of its own, and is then right
only because what `main_process` drew is still in the queue (`Waiting`).

`ModeIsPresses` is about all presses so far and a queue of any length, neither of
which the state counts. Its invariant `Follow` says that the messages on their
way lead from the current mode to the one the presses ask for, short of a press
that was not polled (`Turned`). The way (`Leads`) is a function that gives the
mode after each message, so that a message sent prolongs it (`LeadsOn`) and one
received shortens it (`LeadsFrom`), with no recursive sum. `Seen` is what the
input process can have seen of a user who lets go one key before the next and
is polled in between: everything, or all but one event. It is why a message with
VOL+ or VOL- in it is sent once for each press (`PollSends`): the code sends
whenever any switch changes, and a held key would count again.

### Modes (`ModesProofs`)

| theorem | states |
|---|---|
| `PictureIsSent` | `[]SentIsCurrent` |
| `DevicesShowState` | `[]ShowsState` |
| `ModesStartFresh` | `[]Fresh` |
| `TextIsLaidOut` | `[]Layout` |
| `TextRefinement` | `Spec => AbsSpec` |
| `ClockMissesOnly` | `[]BehindByMissed` |
| `DistanceKept` | `KeepsDistance` |
| `CounterIsOdometer` | `Odometer` |
| `TypeCorrect` | `[]TypeOK` |

For any size of matrix and text, any length of hour and day, any switches
together. *Argument.* The first four are one invariant (`IInv`): `Shows` is
`ShowsState` without its premise that the main process waits, `Laid` is `Layout`
with the range of `txt_len` and the characters of the text. Each pass has a lemma
of its own (`ClockInv`, ...), so that a mode concerns only its own variables. The
refinement follows from what each of the editor's operations does to the window,
and from `TextInv`: the last character is a letter of the switch pushed right
before, if there is one, and that switch is `txt_prev`.

The clock (`TimeInv`) takes arithmetic on the circle of the day: times are
numbers of minutes (`LocalTime`, `SameMinute`), `PlusMinute` is one more, or one
more less a day (`MinuteOn`), and `Ahead` the difference modulo the day
(`Distance`). `Balance` is how far the device's time, with the minutes it missed
and the one that is due, is ahead of the local time. A minute that goes by changes
either what is missed or what is due; a pass takes what is due off and puts it on
the device's time. It is 0 on a clock that was not set, and 0 or 1 after it was
entered again, where the pass compares with the `prevtime` of the last visit and
may count a minute that `mode_init` had taken already.

`TypeCorrect` needs one strengthening (`Ranges`): while the counter is on, the
FND shows the digits of its number in its notation, which bounds the number
(`NumberType`). On it rests the odometer: in the notations 10, 8, 4 and 2 a number
below the third power is made of its three digits and of no others (`DigitsOf`,
`MadeOf`), and one unit at a place, with the remainder taken by the third power,
is one step of that wheel and of those left of it that it carries (`Carries`).
The four bases are those of the code and are taken one by one where a product of
three of them would not be linear.

### Devices (`DevicesProofs`)

| theorem | states |
|---|---|
| `TypeCorrect` | `[]TypeOK` |
| `BlinkingLeavesNoTrace` | `[]OnlyCursor` |
| `LampsFollow` | `[]LedFollows` |

For every length of a second, every size of matrix, all messages and all memory
found at the start. *Argument.* The process's copy is the last message, its dot
matrix the message's or the same with the cursor's cell turned over, and turning
over twice is nothing (`PassCopy`); `led_prev` is the register from the first
write on (`PassLamps`).

### FPGA timer (`FpgaProofs`)

| theorem | states |
|---|---|
| `CallbackInside` | `[]NoStray` |
| `Refinement` | `Spec => AbsSpec` |
| `TypeCorrect` | `[]TypeOK` |

Any number of applications, any intervals, repetitions and starts. *Argument.*
`DataInv`: as long as every start was one of the numbers the board can show, what
the system call packs, what an application carries and what a pending timer holds
all point into the arrays, also where one job's `dev_write` meets the timer of
another, and `moved` keeps them there. `CalmInv`: while nobody uses the driver at
work, data and count are those of picture `job[1] - t_count` of the job
(`Pictured`); `NextPicture` takes it from one picture to the next, with the
turn-round of the texts (`TextsWalk`) and the position that moves on every eighth
time (`PositionOn`).

`TypeCorrect` holds for any arguments and takes from `FpgaAssumption` that there
are finitely many applications: bytes stay bytes (`Bytes`), a text stays on its line
(`TextsStay`). The bound below `t_count` is a count (`Countdown`): each end of a
job takes one off, and before it some application added the timer; those that
have set the count and not yet added the timer (`Writing`) still have their end
to give. Two applications that open the device together make it fall below -1.

### Puzzle (`PuzzleProofs`, `ActivityProofs`)

| theorem | states |
|---|---|
| `NoSecondTime` | `[]OnceOnly` |
| `SolvedHandsNothingOn` | `[]SolvedIsOver` |
| `ClockFollowsTimer` | `[]ClockIsTrue` |
| `ParityKept` | `[]SameParity` |
| `Refinement` | `Spec => AbsSpec` |
| `TypeCorrect` | `[]TypeOK` |

For any number of activities, any sizes entered, any length of the hour and any
backlog. *Argument.* `LifeInv`: until it finishes the activity on the screen is
bound, and its timer is not scheduled as long as a game may still be made; those it
covers are bound and have no timer. `LinkInv`: all that are bound have, or will be
given, the one service that runs. `OverInv`: an activity that was solved as the last
one bound took its service with it, so that its timer counts on a service nobody
has or will get. `ClockInv`: Runnables wait only for timers that count on the
living service (`Waiting`), a connection gives the activity that service
(`Given`), and a clock that is alone on it has the counter's value (`Shown`);
with it a tick and a Runnable leave `secs - posted` alone modulo the hour.

The board is the subject of `PuzzleProofs`. From the deal on its sides are 1 to
5, which is what `refused` leaves, and its labels are a permutation (`BoardInv`,
`DealLabels`, `SlideLabels`). An index `i` is the cell `(i \div col, i % col)` and
each of the four tests of the code finds the neighbour on its side (`CellAt`,
`Neighbours`). A random move of the shuffle is a slide into the gap
(`ShuffleSlides`). Of a click the four tests run one after the other on what the
one before left: after the first that slides, the gap is where the button was
that is tested, and the others find nothing (`IntoNothing`, `NotBesideItself`), so
a click is one slide or nothing (`ClickSlides`). Slides are the steps of
`PuzzleSpec` on the grid (`SlideImplements`), the deal its initial order
(`DealImplements`), and `BoardSteps` carries both over to the actions of
`Activity`. `SameParity` is then an invariant of single steps, whatever the
length of the shuffle: a slide exchanges two labels, which changes the parity of
the inversions, and moves the gap by one, which changes that of `away`
(`AwayTurns`). For the first the pairs of places are compared with those they
go to (`Moved`, a bijection): they are turned round for the two places themselves
and twice for each place between them, an odd number (`TurnedOdd`, `SwapFlips`).
`SameParity` is a necessary condition for a board to be solved, and on boards of
one row or column far from sufficient. That a board can be solved follows from the
refinement: it was made by slides from the order, and a slide can be undone.

### Only model-checked

All liveness (`PauseQuiesces`, `HoldEndsSleep`, `EndsTogether`, `CatchesUp`,
`JobEnds`, `LedBlinks`, `CursorBlinks`, `ClockGoes`), which the prover cannot do.
Every invariant and every action property of a passing run is a theorem, as are
all four refinements. No module uses a RECURSIVE operator. That the pictures of a
job and the moves of a shuffle are right for any number of them is not proved by
induction over that number, which is out of the prover's reach, but as
invariants of steps.

## 5. Plan

Done: the stopwatch; the board's pipeline; the five modes and their composition;
the devices of the output process; the FPGA timer; the puzzle with its
activities; for each of them the proofs of section 4.

Open:

1. `insmod` of the stopwatch in two steps, a `request_irq` that fails: actions of
   their own, with the theorems of the stopwatch extended to them.
2. The callback of the FPGA timer in several steps, beside `dev_write` on another
   processor.
3. An abstract specification of a queue that may drop its newest message, and
   both queues of `Board` shown to implement it.

## 6. Deviations met while modelling

With a run that shows them, and the comment they contradict (`PROJECT.json`,
"findings"):

- `SW_home`: HOME within the first tick, or after VOL+ on a running watch, adds a
  pending timer (module.c:75).
- `SW_wake`: the wake-up of the long press is lost on an application that does
  not sleep yet (module.c:175).
- `BD_back`: BACK as the second event of a poll is never seen (main.c:139).
- `MD_cursor`: after "clear" the switch pushed before it writes to `text[-1]`, the
  top byte of `curmode`, and a cursor blinks in the text editor (main.c:413).
- `FT_again`: a job given while another works adds a pending timer (module.c:93).
- `AC_twice`: a game left with BACK, turned round, or solved on top of another
  leaves a timer that counts on the service of the next one; "every 1 second" (MainActivity2.java:89) is
  twice a second then.

Without a run of their own:

- HW3: VOL+ between load and store of `t.value++` is lost (141; `lost`); VOL+ on a
  paused watch makes it one that BACK does not resume (88; `waits`), against "If it
  was already stopped, then resume it" (83-84) and a clear that leaves the state
  alone (104): HOME is what starts it again; two applications can open the
  device together when there are two processors or a kernel that preempts (188;
  `two`); on two processors `del_timer` leaves a running callback, which re-arms
  (228; `caught`); VOL- that bounces within the latency of its handler adds `end`
  twice (128; `bounce`); rmmod with the file open (47; `removed`).
- HW1: of a release and a press in one poll the press is lost (136); without
  messages (and the input process sends on a change only, 152) the clock loses
  minutes: one is added for any number (318), although "change the device time as
  time goes on" (317); entering the clock with an old `prevtime` adds a minute to the local time just taken, or
  misses one (318); a letter's switch after digits, or after a change of language,
  exchanges what it did not write, although the comment has "if push same switch
  right before" (410; `Misled`); one press of several switches can catch a
  mole that was never shown (499); a queue that is full loses a change for good (153); the comment of
  `settime` has its two values the wrong way round (41, 571); lamps left on by a
  killed program stay on until some are asked for (536).
- HW2: rmmod unmaps the registers before it deletes the timer (229); a start of
  0 indexes `fnd[4]` (137); a first digit of 9 shifts by a negative number.
- HW4: a size of 5 is accepted, the message says "less than 5" (72); a size of 0
  crashes (141). A game made before the service is connected has no clock (86).
  The clock shows "60:00" and starts again after 3601 seconds (TimerService.java:41). A second solution, or
  "make buttons", between `finish()` and the end of the activity throws (219, 90).

## 7. Not modelled, and why

- Results of `request_irq`, `register_chrdev`, `ioremap`, `msgget`, `fork`, which
  the code ignores or only prints.
- Bit patterns of fonts, LED and LCD text: no property tells them apart.
- Lengths of sleeps, except for the order they are meant to bring about.
- The system call table (`calls.S`, `unistd.h`, `syscalls.h`: vendored, one line
  added to each) and the font table.
- HW4: texts that are not two numbers (`NumberFormatException`), layout, colours;
  the platform ending the process.
