--------------------------- MODULE ActivityProofs ---------------------------
(***************************************************************************)
(* Proofs about Activity, for any number of activities, any sizes entered, *)
(* any length of an hour and any backlog of the UI thread.                 *)
(***************************************************************************)
EXTENDS Activity, PuzzleProofs, Remainders, TLAPS

(* The life of the activities: each is bound until it finishes or is left, *)
(* until then its timer is scheduled by one game at most, and no game      *)
(* starts in one that is covered.                                          *)
LifeInv ==
  /\ made \in 0..Acts /\ top \in 0..made /\ scheduled \subseteq 1..made
  /\ finishing \in BOOLEAN /\ click_flag \in BOOLEAN /\ tap \in BOOLEAN
  /\ phase = "shuffle" => top # 0 /\ ~click_flag
  /\ top # 0 /\ ~finishing => top \in bound
  /\ ~finishing /\ (click_flag \/ phase = "shuffle") => top \notin scheduled
  /\ \A a \in under : a \in 1..made /\ a < top /\ a \in bound /\ a \notin scheduled
  /\ tap => top # 0 /\ ~finishing /\ click_flag /\ phase = "size"
  /\ OnceOnly

(* Whoever is bound has or will be given the service that runs, and that   *)
(* is not younger than the connection.                                     *)
LinkInv ==
  /\ ts \in [Ids -> Nat] /\ service \in 0..made /\ bound \subseteq 1..made
  /\ bound = {} <=> service = 0
  /\ \A a \in bound : service <= a /\ ts[a] \in {0, service}
  /\ \A a \in Ids : ts[a] <= made /\ (a > made => ts[a] = 0)
  /\ \A a \in scheduled : ts[a] # 0

(* A game is over that was solved as the last one bound.  What is left of  *)
(* it is a timer on a service of which nobody has or will get anything.    *)
Over(b) == b \in scheduled /\ b \notin left /\ (b # top \/ finishing)

OverInv ==
  /\ finishing /\ top \notin left => bound = {}
  /\ \A b \in Ids : Over(b)
       => ts[b] # service /\ \A c \in (Ids \intersect {top}) \union under : c # b => ts[c] # ts[b]

IInv == LifeInv /\ LinkInv /\ OverInv

LEMMA ActsNat == Acts \in Nat /\ Acts > 0
BY ActivityAssumption

LEMMA InitInv == Init => IInv
<1> SUFFICES ASSUME Init PROVE IInv
  OBVIOUS
<1>1. LifeInv
  <2>1. made \in 0..Acts /\ top \in 0..made
    BY ActsNat DEF Init
  <2> QED
    BY <2>1 DEF Init, NoBoard, LifeInv, OnceOnly
<1>2. LinkInv
  BY ActsNat DEF Init, LinkInv, Ids
<1>3. OverInv
  BY DEF Init, OverInv, Over
<1> QED
  BY <1>1, <1>2, <1>3 DEF IInv

(* Who is there is one of the activities.                                  *)
LEMMA WhoIsThere ==
  ASSUME IInv
  PROVE  /\ made \in Nat /\ top \in Nat /\ top <= made
         /\ top # 0 => top \in Ids
         /\ \A a \in under \union bound \union scheduled : a \in Ids /\ a <= made
<1>1. made \in 0..Acts /\ top \in 0..made /\ 1..made \subseteq Ids
  BY ActsNat DEF IInv, LifeInv, Ids
<1>2. under \subseteq 1..made /\ bound \subseteq 1..made /\ scheduled \subseteq 1..made
  BY DEF IInv, LifeInv, LinkInv
<1> QED
  BY <1>1, <1>2, ActsNat DEF Ids

-----------------------------------------------------------------------------
(* A new activity on top of those in U.                                    *)
LEMMA CreateInv ==
  ASSUME IInv, crash = "none", Create, UNCHANGED crash, tap' \in BOOLEAN,
         under' \subseteq under \union ({top} \ {0}),
         top \in under' => top \notin scheduled /\ ~finishing,
         left \subseteq left',
         top # 0 /\ top \notin left' => ~finishing /\ top \notin scheduled
  PROVE  IInv'
<1> USE DEF IInv
<1>1. /\ made \in Nat /\ made' = made + 1 /\ made' \in 0..Acts /\ top' = made'
      /\ top' # 0 /\ scheduled' = scheduled /\ made' \notin scheduled
      /\ scheduled' \subseteq 1..made' /\ top' \in 0..made' /\ top' \in Ids
      /\ top \in 0..made
  BY ActsNat DEF Create, clock, LifeInv, Ids
<1>2. /\ finishing' = FALSE /\ click_flag' = TRUE /\ crash' = "none"
      /\ bound' = bound \union {top'} /\ ts' = ts /\ phase' = "size"
      /\ service' = IF service = 0 THEN top' ELSE service
  BY DEF Create, ClearBoard
<1>3. \A a \in under' : a \in 1..made' /\ a < top' /\ a \in bound' /\ a \notin scheduled'
  <2> SUFFICES ASSUME NEW a \in under'
               PROVE  a \in 1..made' /\ a < top' /\ a \in bound' /\ a \notin scheduled'
    OBVIOUS
  <2>1. CASE a \in under
    BY <1>1, <1>2, <2>1 DEF LifeInv
  <2>2. CASE a = top /\ top # 0
    BY <1>1, <1>2, <2>2 DEF LifeInv
  <2> QED
    BY <2>1, <2>2
<1>4. LifeInv'
  BY <1>1, <1>2, <1>3 DEF LifeInv, OnceOnly
<1>5. ts'[top'] = 0
  BY <1>1, <1>2 DEF LinkInv
<1>6. LinkInv'
  <2>1. ts' \in [Ids -> Nat] /\ service' \in 0..made' /\ bound' \subseteq 1..made'
    <3>1. service \in 0..made /\ bound \subseteq 1..made
      BY DEF LinkInv
    <3> QED
      BY <1>1, <1>2, <3>1 DEF LinkInv
  <2>2. bound' # {} /\ service' # 0
    BY <1>1, <1>2
  <2>3. ASSUME NEW a \in bound' PROVE service' <= a /\ ts'[a] \in {0, service'}
    <3>1. CASE a = top'
      BY <1>1, <1>2, <1>5, <3>1 DEF LinkInv
    <3>2. CASE a \in bound
      <4>1. service # 0
        BY <3>2 DEF LinkInv
      <4> QED
        BY <1>2, <3>2, <4>1 DEF LinkInv
    <3> QED
      BY <1>2, <2>3, <3>1, <3>2
  <2>4. \A a \in Ids : ts'[a] <= made' /\ (a > made' => ts'[a] = 0)
    BY <1>1, <1>2 DEF LinkInv, Ids
  <2>5. \A a \in scheduled' : ts'[a] # 0
    BY <1>1, <1>2 DEF LinkInv
  <2> QED
    BY <2>1, <2>2, <2>3, <2>4, <2>5 DEF LinkInv
<1>7. OverInv'
  <2>1. ~(finishing /\ top \notin left)'
    BY <1>2
  <2>2. ASSUME NEW b \in Ids, Over(b)'
        PROVE  /\ ts'[b] # service'
               /\ \A c \in (Ids \intersect {top'}) \union under' : c # b => ts'[c] # ts'[b]
    <3>1. Over(b) /\ ts[b] # 0 /\ ts[b] <= made
      BY <1>1, <2>2 DEF Over, LinkInv, LifeInv
    <3>2. ts'[b] # service'
      BY <1>1, <1>2, <3>1 DEF OverInv, LinkInv
    <3>3. ASSUME NEW c \in (Ids \intersect {top'}) \union under', c # b PROVE ts'[c] # ts'[b]
      <4>1. CASE c = top'
        BY <1>2, <1>5, <3>1, <4>1
      <4>2. CASE c \in (Ids \intersect {top}) \union under
        BY <1>2, <3>1, <3>3, <4>2 DEF OverInv
      <4> QED
        BY <3>3, <4>1, <4>2, WhoIsThere
    <3> QED
      BY <3>2, <3>3
  <2> QED
    BY <2>1, <2>2 DEF OverInv
<1> QED
  BY <1>4, <1>6, <1>7

(* The life of an activity.                                                *)
LEMMA LifeCycle ==
  ASSUME IInv, Start \/ Rotate \/ Leave
  PROVE  IInv'
<1>1. CASE Start
  <2>1. /\ Create /\ crash = "none" /\ UNCHANGED <<crash, left>> /\ tap' = TRUE
        /\ under' = under \union ({top} \ {0}) /\ (top = 0 \/ tap)
    BY <1>1 DEF Start, Callback, Create
  <2>2. top # 0 => ~finishing /\ top \notin scheduled
    BY <2>1 DEF IInv, LifeInv
  <2>3. top \in under' => top # 0
    BY <2>1 DEF IInv, LifeInv
  <2> QED
    BY <2>1, <2>2, <2>3, CreateInv
<1>2. CASE Rotate
  <2>1. /\ Create /\ crash = "none" /\ UNCHANGED <<crash, under>> /\ tap' = FALSE
        /\ left' = left \union {top}
    BY <1>2 DEF Rotate, Input, Callback, Create
  <2>2. top \notin under
    BY WhoIsThere DEF IInv, LifeInv
  <2> QED
    BY <2>1, <2>2, CreateInv
<1>3. CASE Leave
  <2>1. /\ top' \in under \union {0} /\ \A a \in under : a <= top'
        /\ under' = under \ {top'} /\ tap' = FALSE
        /\ finishing' = FALSE /\ click_flag' = TRUE /\ crash = "none" /\ top # 0
        /\ phase' = "size" /\ UNCHANGED <<made, bound, service, ts, scheduled, crash>>
        /\ left' = IF finishing THEN left ELSE left \union {top}
    BY <1>3 DEF Leave, ClearBoard, Input, Callback, links, clock
  <2>2. /\ top' \in 0..made /\ top' \notin scheduled /\ (top' # 0 => top' \in bound)
    BY <2>1, WhoIsThere DEF IInv, LifeInv
  <2>3. \A a \in under' : a \in 1..made' /\ a < top' /\ a \in bound' /\ a \notin scheduled'
    BY <2>1, <2>2, WhoIsThere DEF IInv, LifeInv
  <2>4. LifeInv'
    BY <2>1, <2>2, <2>3 DEF IInv, LifeInv, OnceOnly
  <2>5. LinkInv'
    BY <2>1 DEF IInv, LinkInv
  <2>6. OverInv'
    <3>1. ASSUME NEW b \in Ids, Over(b)' PROVE Over(b)
      BY <2>1, <3>1 DEF Over
    <3>2. (Ids \intersect {top'}) \union under' \subseteq (Ids \intersect {top}) \union under
      BY <2>1 DEF Ids
    <3> QED
      BY <2>1, <3>1, <3>2 DEF IInv, OverInv
  <2> QED
    BY <2>4, <2>5, <2>6 DEF IInv
<1> QED
  BY <1>1, <1>2, <1>3

(* A service is given.                                                     *)
LEMMA ConnectedInv ==
  ASSUME IInv, NEW a \in Ids, onServiceConnected(a)
  PROVE  IInv'
<1>1. /\ ts' = [ts EXCEPT ![a] = service] /\ a \in bound /\ a \in {top} \union under /\ ts[a] = 0
      /\ UNCHANGED <<screen, bound, service, clock, board, crash, left>>
  BY DEF onServiceConnected
<1>2. /\ UNCHANGED <<top, under, tap, made, click_flag, finishing, scheduled, phase>>
      /\ ts' \in [Ids -> Nat] /\ ts'[a] = service /\ \A c \in Ids : c # a => ts'[c] = ts[c]
      /\ service \in Nat /\ service <= made /\ service # 0 /\ a \notin scheduled
  BY <1>1, WhoIsThere DEF IInv, LinkInv, screen, stack, clock, board
<1>3. LifeInv'
  BY <1>1, <1>2 DEF IInv, LifeInv, OnceOnly
<1>4. LinkInv'
  <2>1. \A c \in bound : ts'[c] \in {0, service} /\ service <= c
    BY <1>2, WhoIsThere DEF IInv, LinkInv
  <2>2. \A c \in Ids : ts'[c] <= made /\ (c > made => ts'[c] = 0)
    BY <1>1, <1>2, WhoIsThere DEF IInv, LinkInv
  <2>3. \A c \in scheduled : ts'[c] # 0
    BY <1>2, WhoIsThere DEF IInv, LinkInv
  <2> QED
    BY <1>1, <1>2, <2>1, <2>2, <2>3 DEF IInv, LinkInv
<1>5. OverInv'
  <2>1. ASSUME NEW b \in Ids, Over(b)'
        PROVE  /\ ts'[b] # service'
               /\ \A c \in (Ids \intersect {top'}) \union under' : c # b => ts'[c] # ts'[b]
    <3>1. Over(b) /\ b # a
      BY <1>1, <1>2, <2>1 DEF Over
    <3>2. ts'[b] = ts[b] /\ ts[b] # service
      BY <1>2, <3>1 DEF IInv, OverInv
    <3>3. ASSUME NEW c \in (Ids \intersect {top}) \union under, c # b PROVE ts'[c] # ts[b]
      BY <1>2, <3>1, <3>2, <3>3, WhoIsThere DEF IInv, OverInv
    <3> QED
      BY <1>1, <1>2, <3>2, <3>3
  <2> QED
    BY <1>1, <1>2, <2>1 DEF IInv, OverInv
<1> QED
  BY <1>3, <1>4, <1>5 DEF IInv

(* A connection less, of one that is gone or finishes.                     *)
LEMMA UnbindLinks ==
  ASSUME IInv, NEW a \in Ids, Unbind(a), UNCHANGED made
  PROVE  /\ LinkInv' /\ bound' = bound \ {a} /\ UNCHANGED <<ts, scheduled>>
         /\ service' \in {0, service} /\ (bound' # {} => service' = service)
<1>1. /\ bound' = bound \ {a} /\ service' = IF bound' = {} THEN 0 ELSE service
      /\ UNCHANGED <<ts, scheduled>>
  BY DEF Unbind
<1>2. service' \in 0..made /\ (bound' = {} <=> service' = 0)
  <2>1. 0 \in 0..made
    BY DEF IInv, LifeInv
  <2> QED
    BY <1>1, <2>1 DEF IInv, LinkInv
<1>3. LinkInv'
  BY <1>1, <1>2 DEF IInv, LinkInv
<1> QED
  BY <1>1, <1>3

LEMMA CleanupInv ==
  ASSUME IInv, NEW a \in Ids, Cleanup(a)
  PROVE  IInv'
<1>1. /\ a \notin {top} \union under /\ Unbind(a)
      /\ UNCHANGED <<top, under, tap, made, click_flag, finishing, phase, crash, left>>
  BY DEF Cleanup, screen, stack, board
<1>2. /\ LinkInv' /\ bound' = bound \ {a} /\ UNCHANGED <<ts, scheduled>>
      /\ service' \in {0, service}
  BY <1>1, UnbindLinks
<1>3. LifeInv'
  BY <1>1, <1>2 DEF IInv, LifeInv, OnceOnly
<1>4. OverInv'
  <2>1. ASSUME NEW b \in Ids, Over(b)'
        PROVE  /\ ts'[b] # service'
               /\ \A c \in (Ids \intersect {top'}) \union under' : c # b => ts'[c] # ts'[b]
    <3>1. Over(b) /\ ts[b] # 0
      BY <1>1, <1>2, <2>1 DEF Over, IInv, LinkInv
    <3> QED
      BY <1>1, <1>2, <3>1 DEF IInv, OverInv
  <2> QED
    BY <1>1, <1>2, <2>1 DEF IInv, OverInv
<1> QED
  BY <1>2, <1>3, <1>4 DEF IInv

(* Where only the life of the activity on the screen goes on.              *)
LEMMA LinksRest ==
  ASSUME IInv, UNCHANGED <<stack, finishing, bound, service, ts, scheduled, left>>
  PROVE  LinkInv' /\ OverInv'
BY DEF IInv, LinkInv, OverInv, Over, stack

(* The games: dealt, shuffled, started and clicked.                        *)
LEMMA DealInv ==
  ASSUME IInv, NEW s, Refuse(s) \/ MakeButtons(s)
  PROVE  IInv'
<1>1. /\ click_flag /\ top # 0 /\ crash = "none" /\ crash' \in {"none", "size"}
      /\ \/ UNCHANGED <<click_flag, phase>>
         \/ click_flag' = FALSE /\ phase' = "shuffle"
      /\ UNCHANGED <<top, under, made, finishing, links, clock, left>> /\ tap' = FALSE
  BY DEF Refuse, MakeButtons, Deal, MayDeal, Input, Callback
<1>2. ~finishing => top \notin scheduled
  BY <1>1 DEF IInv, LifeInv
<1>3. UNCHANGED <<bound, service, ts, scheduled>>
  BY <1>1 DEF links, clock
<1>4. LifeInv'
  <2>1. CASE UNCHANGED <<click_flag, phase>>
    BY <1>1, <1>3, <2>1 DEF IInv, LifeInv, OnceOnly
  <2>2. CASE click_flag' = FALSE /\ phase' = "shuffle"
    BY <1>1, <1>2, <1>3, <2>2 DEF IInv, LifeInv, OnceOnly
  <2> QED
    BY <1>1, <2>1, <2>2
<1>5. LinkInv' /\ OverInv'
  BY <1>1, <1>3 DEF IInv, LinkInv, OverInv, Over
<1> QED
  BY <1>4, <1>5 DEF IInv

LEMMA ShuffleInv ==
  ASSUME IInv, ShuffleOn
  PROVE  IInv'
<1>1. UNCHANGED <<phase, screen, links, clock, crash, left>>
  BY DEF ShuffleOn, Shuffle
<1>2. LifeInv'
  BY <1>1 DEF IInv, LifeInv, OnceOnly, screen, stack, links, clock
<1> QED
  BY <1>1, <1>2, LinksRest DEF IInv, screen, links, clock

LEMMA PlayInv ==
  ASSUME IInv, Play
  PROVE  IInv'
<1>1. /\ crash = "none" /\ phase = "shuffle" /\ phase' = "play"
      /\ UNCHANGED <<screen, links, left>> /\ top # 0 /\ ~click_flag /\ ~tap
  BY DEF Play, IInv, LifeInv
<1>2. CASE UNCHANGED <<clock, crash>>
  <2>1. LifeInv'
    BY <1>1, <1>2 DEF IInv, LifeInv, OnceOnly, screen, stack, links, clock
  <2> QED
    BY <1>1, <1>2, <2>1, LinksRest DEF IInv, screen, links, clock
<1>3. CASE top \in scheduled /\ crash' = "schedule" /\ UNCHANGED clock
  <2>1. finishing
    BY <1>1, <1>3 DEF IInv, LifeInv
  <2>2. LifeInv'
    BY <1>1, <1>3, <2>1 DEF IInv, LifeInv, OnceOnly, screen, stack, links, clock
  <2> QED
    BY <1>1, <1>3, <2>2, LinksRest DEF IInv, screen, links, clock
<1>4. CASE scheduled' = scheduled \union {top} /\ UNCHANGED crash /\ ts[top] # 0
  <2>1. top \in 1..made /\ top \in Ids /\ top \notin under
    BY <1>1, WhoIsThere, ActsNat DEF IInv, LifeInv
  <2>2. UNCHANGED <<top, under, tap, made, click_flag, finishing, bound, service, ts>>
    BY <1>1 DEF screen, stack, links
  <2>3. LifeInv'
    BY <1>1, <1>4, <2>1, <2>2 DEF IInv, LifeInv, OnceOnly
  <2>4. LinkInv'
    BY <1>4, <2>2 DEF IInv, LinkInv
  <2>5. OverInv'
    <3>1. ASSUME NEW b \in Ids, Over(b)'
          PROVE  /\ ts[b] # service
                 /\ \A c \in (Ids \intersect {top}) \union under : c # b => ts[c] # ts[b]
      <4>1. CASE b # top
        <5>1. Over(b)
          BY <1>1, <1>4, <2>2, <3>1, <4>1 DEF Over
        <5> QED
          BY <5>1 DEF IInv, OverInv
      <4>2. CASE b = top
        <5>1. bound = {}
          BY <1>1, <2>2, <3>1, <4>2 DEF Over, IInv, OverInv
        <5>2. under = {} /\ service = 0
          BY <5>1 DEF IInv, LifeInv, LinkInv
        <5> QED
          BY <1>4, <4>2, <5>2
      <4> QED
        BY <4>1, <4>2
    <3> QED
      BY <1>1, <2>2, <3>1 DEF IInv, OverInv
  <2> QED
    BY <2>3, <2>4, <2>5 DEF IInv
<1> QED
  BY <1>2, <1>3, <1>4 DEF Play, StartClock

LEMMA ClickInv ==
  ASSUME IInv, NEW i, ClickTile(i)
  PROVE  IInv'
<1>1. /\ phase = "play" /\ phase' = "play" /\ top # 0 /\ crash = "none" /\ top \in Ids
      /\ UNCHANGED <<top, under, tap, made>>
  BY WhoIsThere DEF ClickTile, Input, Callback, Click, stack
<1>2. CASE UNCHANGED <<click_flag, finishing, links, clock, crash, left>>
  <2>1. LifeInv'
    BY <1>1, <1>2 DEF IInv, LifeInv, OnceOnly, links, clock
  <2> QED
    BY <1>1, <1>2, <2>1, LinksRest DEF IInv, stack, links, clock
<1>3. CASE /\ click_flag' = TRUE /\ top \in bound /\ Unbind(top) /\ finishing' = TRUE
           /\ left' = (IF bound' = {} THEN left ELSE left \union {top}) /\ UNCHANGED crash
  <2>1. /\ bound' = bound \ {top} /\ service' \in {0, service}
        /\ UNCHANGED <<ts, scheduled>> /\ LinkInv'
    BY <1>1, <1>3, UnbindLinks
  <2>2. \A a \in under : a # top
    BY WhoIsThere DEF IInv, LifeInv
  <2>3. tap => FALSE
    BY <1>1 DEF IInv, LifeInv
  <2>4. LifeInv'
    BY <1>1, <1>3, <2>1, <2>2, <2>3 DEF IInv, LifeInv, OnceOnly
  <2>5. OverInv'
    <3>1. ASSUME NEW b \in Ids, Over(b)'
          PROVE  /\ ts[b] # service'
                 /\ \A c \in (Ids \intersect {top}) \union under : c # b => ts[c] # ts[b]
      <4>1. ts[b] # 0
        BY <2>1, <3>1 DEF Over, IInv, LinkInv
      <4>2. CASE b # top
        <5>1. Over(b)
          BY <1>1, <1>3, <2>1, <3>1, <4>2 DEF Over
        <5> QED
          BY <2>1, <4>1, <5>1 DEF IInv, OverInv
      <4>3. CASE b = top
        <5>1. bound' = {}
          BY <1>1, <1>3, <3>1, <4>3 DEF Over
        <5>2. service' = 0 /\ under = {}
          BY <1>1, <2>4, <2>1, <5>1 DEF LinkInv, LifeInv
        <5> QED
          BY <4>1, <4>3, <5>2
      <4> QED
        BY <4>2, <4>3
    <3>2. top \notin left' => bound' = {}
      BY <1>3
    <3> QED
      BY <1>1, <2>1, <3>1, <3>2 DEF OverInv
  <2> QED
    BY <2>1, <2>4, <2>5 DEF IInv
<1>4. CASE /\ click_flag' = TRUE /\ top \notin bound /\ crash' = "unbind"
           /\ UNCHANGED <<links, clock, finishing, left>>
  <2>1. finishing
    BY <1>1, <1>4 DEF IInv, LifeInv
  <2>2. LifeInv'
    BY <1>1, <1>4, <2>1 DEF IInv, LifeInv, OnceOnly, links, clock
  <2> QED
    BY <1>1, <1>4, <2>2, LinksRest DEF IInv, stack, links, clock
<1> QED
  BY <1>2, <1>3, <1>4 DEF ClickTile, Solved

(* The timers and their Runnables leave all this alone.                    *)
LEMMA TimerInv ==
  ASSUME IInv, NEW a \in Ids, Tick(a) \/ Run(a)
  PROVE  IInv'
<1>1. UNCHANGED <<board, screen, links, scheduled, crash, left>>
  BY DEF Tick, Run
<1>2. LifeInv'
  BY <1>1 DEF IInv, LifeInv, OnceOnly, screen, stack, links, board
<1> QED
  BY <1>1, <1>2, LinksRest DEF IInv, screen, links

LEMMA StepInv == IInv /\ [Next]_vars => IInv'
<1> SUFFICES ASSUME IInv, [Next]_vars PROVE IInv'
  OBVIOUS
<1>1. CASE UNCHANGED vars
  <2>1. LifeInv'
    BY <1>1 DEF vars, board, screen, stack, links, clock, IInv, LifeInv, OnceOnly
  <2> QED
    BY <1>1, <2>1, LinksRest DEF vars, screen, links, clock, IInv
<1> QED
  BY <1>1, LifeCycle, ConnectedInv, CleanupInv, DealInv, ShuffleInv, PlayInv, ClickInv,
     TimerInv DEF Next

LEMMA Inductive == Spec => []IInv
BY InitInv, StepInv, PTL DEF Spec

(* No timerTask is scheduled twice and no service unbound twice, but by    *)
(* touches between finish() and the end of the activity.                   *)
THEOREM NoSecondTime == Spec => []OnceOnly
BY Inductive, PTL DEF IInv, LifeInv

(* The timer of a solved game, which nobody cancels, counts on no service  *)
(* of a later game, however the activities cover each other and are turned *)
(* and left; but for one that was solved while an older one was bound.     *)
THEOREM SolvedHandsNothingOn == Spec => []SolvedIsOver
<1>1. IInv => SolvedIsOver
  <2> SUFFICES ASSUME IInv, top # 0, ts[top] # 0,
                      NEW b \in scheduled \ {top}, ts[b] = ts[top], b \notin left
               PROVE  FALSE
    BY DEF SolvedIsOver
  <2>1. top \in Ids /\ b \in Ids /\ Over(b)
    BY WhoIsThere DEF Over
  <2> QED
    BY <2>1 DEF IInv, OverInv
<1> QED
  BY <1>1, Inductive, PTL

-----------------------------------------------------------------------------
(* The clock.  What waits for the UI thread is of timers that count on the *)
(* service that runs; the one on the screen shows the service's count.     *)
Waiting ==
  /\ posted \in [Ids -> Nat] /\ secs \in 0..Hour /\ counter \in 0..Hour
  /\ \A b \in Ids : posted[b] > 0 => b \in scheduled /\ ts[b] = service /\ service # 0

Given ==
  /\ top # 0 /\ tv # NoTime => ts[top] # 0 /\ top \in scheduled
  /\ top \in scheduled => tv # NoTime

Shown ==
  Timed => tv \in 0..Hour /\ tv = counter /\ ClockIsTrue

ClockInv == Waiting /\ Given /\ Shown

LEMMA HourNat == Hour \in Nat /\ Hour > 0
BY ActivityAssumption

(* A tick on one more waiting Runnable; a Runnable less.                   *)
LEMMA TickArithmetic ==
  ASSUME NEW s \in 0..Hour, NEW n \in Nat
  PROVE  (((s + 1) % (Hour + 1)) - (n + 1)) % (Hour + 1) = (s - n) % (Hour + 1)
<1>1. CASE s = Hour
  <2>1. (s + 1) % (Hour + 1) = 0
    <3>1. ((Hour + 1) * 1 + 0) % (Hour + 1) = 0
      BY HourNat, Remainder
    <3>2. (Hour + 1) * 1 + 0 = s + 1
      BY <1>1, HourNat
    <3> QED
      BY <3>1, <3>2
  <2>2. 0 - (n + 1) = (s - n) - (Hour + 1)
    BY <1>1, HourNat
  <2>3. ((s - n) - (Hour + 1)) % (Hour + 1) = (s - n) % (Hour + 1)
    BY HourNat, OnceRound
  <2> QED
    BY <2>1, <2>2, <2>3
<1>2. CASE s # Hour
  <2>1. (s + 1) % (Hour + 1) = s + 1
    <3>1. ((Hour + 1) * 0 + (s + 1)) % (Hour + 1) = s + 1
      BY <1>2, HourNat, Remainder
    <3>2. (Hour + 1) * 0 + (s + 1) = s + 1
      BY HourNat
    <3> QED
      BY <3>1, <3>2
  <2>2. (s + 1) - (n + 1) = s - n
    OBVIOUS
  <2> QED
    BY <2>1, <2>2
<1> QED
  BY <1>1, <1>2

LEMMA RunArithmetic ==
  ASSUME NEW s \in 0..Hour, NEW n \in Nat, n > 0
  PROVE  (s - (n - 1)) % (Hour + 1) = timerCount((s - n) % (Hour + 1))
<1>1. s - n \in Int /\ s - (n - 1) = (s - n) + 1 /\ Hour + 1 \in Nat /\ Hour + 1 > 0
  BY HourNat
<1>2. ((s - n) + 1) % (Hour + 1)
        = IF ((s - n) % (Hour + 1)) + 1 = Hour + 1 THEN 0 ELSE ((s - n) % (Hour + 1)) + 1
  BY <1>1, OnceRound
<1>3. (s - n) % (Hour + 1) \in 0..Hour
  BY <1>1, HourNat, Division
<1> QED
  BY <1>1, <1>2, <1>3, HourNat DEF timerCount

LEMMA InitClock == Init => ClockInv
BY HourNat DEF Init, ClockInv, Waiting, Given, Shown, Timed, Timing, Ids

(* Where nothing happens to the clock.                                     *)
LEMMA ClockRests ==
  ASSUME ClockInv, UNCHANGED <<links, clock, tv, secs, top>>, finishing' = finishing,
         crash' = "none" => crash = "none"
  PROVE  ClockInv'
<1>1. Waiting' /\ Given'
  BY DEF ClockInv, Waiting, Given, links, clock
<1>2. Timed' => Timed
  BY DEF Timed, Timing, Alone, links, clock
<1> QED
  BY <1>1, <1>2 DEF ClockInv, Shown, ClockIsTrue, OnTime, links, clock

(* Another activity has the screen, one that was not scheduled.            *)
LEMMA LifeClock ==
  ASSUME IInv, ClockInv, IInv', Start \/ Rotate \/ Leave
  PROVE  ClockInv'
<1>1. /\ top' \notin scheduled /\ tv' = NoTime /\ secs' = 0 /\ UNCHANGED <<ts, clock>>
      /\ service' = (IF service = 0 THEN top' ELSE service)
  <2>1. CASE Create
    <3>1. top' \notin scheduled
      BY <2>1, WhoIsThere DEF Create, IInv, LifeInv
    <3> QED
      BY <2>1, <3>1 DEF Create
  <2>2. CASE Leave
    <3>1. top' \in under \union {0} /\ tv' = NoTime /\ secs' = 0 /\ UNCHANGED <<links, clock>>
      BY <2>2 DEF Leave
    <3>2. top' \notin scheduled
      BY <3>1 DEF IInv, LifeInv
    <3>3. service = 0 => top' = 0
      BY <3>1 DEF IInv, LifeInv, LinkInv
    <3> QED
      BY <3>1, <3>2, <3>3 DEF links
  <2> QED
    BY <2>1, <2>2 DEF Start, Rotate
<1>2. Waiting'
  BY <1>1, HourNat DEF ClockInv, Waiting, clock
<1>3. Given' /\ Shown'
  BY <1>1 DEF Given, Shown, Timed, Timing, clock
<1> QED
  BY <1>2, <1>3 DEF ClockInv

(* The service is given to one that is not scheduled.                      *)
LEMMA ConnectedClock ==
  ASSUME IInv, ClockInv, NEW a \in Ids, onServiceConnected(a)
  PROVE  ClockInv'
<1>1. /\ ts[a] = 0 /\ ts' = [ts EXCEPT ![a] = service] /\ a \notin scheduled
      /\ UNCHANGED <<top, finishing, service, clock, tv, secs, crash>>
  BY DEF onServiceConnected, screen, stack, IInv, LinkInv
<1>2. \A c \in Ids : c # a => ts'[c] = ts[c]
  BY <1>1 DEF IInv, LinkInv
<1>3. Waiting'
  BY <1>1, <1>2 DEF ClockInv, Waiting, clock
<1>4. Given'
  <2>1. top # 0 /\ tv # NoTime => top # a /\ top \in Ids
    BY <1>1, WhoIsThere DEF ClockInv, Given
  <2> QED
    BY <1>1, <1>2, <2>1 DEF ClockInv, Given, clock
<1>5. ASSUME Timed' PROVE Timed
  <2>1. top # 0 /\ tv # NoTime /\ top # a /\ top \in Ids
    BY <1>1, <1>5, WhoIsThere DEF Timed, Timing, ClockInv, Given
  <2>2. ASSUME NEW b \in scheduled \ {top} PROVE ts[b] # ts[top]
    <3>1. b # a /\ b \in Ids
      BY <1>1, WhoIsThere
    <3>2. ts'[b] # ts'[top]
      BY <1>1, <1>5 DEF Timed, Alone, clock
    <3> QED
      BY <1>2, <2>1, <3>1, <3>2
  <2> QED
    BY <1>1, <1>5, <2>2 DEF Timed, Timing, Alone
<1> QED
  BY <1>1, <1>3, <1>4, <1>5 DEF ClockInv, Shown, ClockIsTrue, OnTime, clock

LEMMA GameClock ==
  ASSUME IInv, ClockInv, IInv', ShuffleOn \/ Play \/ \E s : Refuse(s) \/ MakeButtons(s)
  PROVE  ClockInv'
<1>1. CASE ShuffleOn
  BY <1>1, ClockRests DEF ShuffleOn, screen, stack
<1>2. ASSUME NEW s, Refuse(s) \/ MakeButtons(s) PROVE ClockInv'
  BY <1>2, ClockRests DEF Refuse, MakeButtons, MayDeal, Input, Callback, screen
<1>3. CASE Play
  <2>1. crash = "none" /\ phase = "shuffle" /\ UNCHANGED <<screen, links>>
    BY <1>3 DEF Play
  <2>2. CASE UNCHANGED <<clock, tv, secs>>
    BY <2>1, <2>2, ClockRests DEF screen, stack
  <2>3. CASE /\ ts[top] # 0 /\ top \notin scheduled /\ counter' = 0
             /\ scheduled' = scheduled \union {top} /\ tv' = 0 /\ secs' = 0
             /\ UNCHANGED <<posted, crash>>
    <3>1. top # 0 /\ top \in Ids
      BY <2>1, WhoIsThere DEF IInv, LifeInv
    <3>2. posted[top] = 0
      BY <2>3, <3>1 DEF ClockInv, Waiting
    <3>3. Waiting'
      BY <2>1, <2>3, HourNat DEF ClockInv, Waiting, links
    <3>4. Given'
      BY <2>1, <2>3 DEF ClockInv, Given, NoTime, screen, stack, links
    <3>5. (0 - 0) % (Hour + 1) = 0
      <4>1. ((Hour + 1) * 0 + 0) % (Hour + 1) = 0
        BY HourNat, Remainder
      <4>2. (Hour + 1) * 0 + 0 = 0 - 0
        BY HourNat
      <4> QED
        BY <4>1, <4>2
    <3>6. tv' = counter' /\ tv' \in 0..Hour /\ tv' = (secs' - posted'[top']) % (Hour + 1)
      BY <2>1, <2>3, <3>2, <3>5, HourNat DEF screen, stack
    <3>7. Shown'
      BY <3>6 DEF Shown, ClockIsTrue, OnTime
    <3> QED
      BY <3>3, <3>4, <3>7 DEF ClockInv
  <2> QED
    BY <1>3, <2>2, <2>3 DEF Play, StartClock
<1> QED
  BY <1>1, <1>2, <1>3

(* The clock goes with the service only when nobody is bound.              *)
LEMMA UnbindClock ==
  ASSUME IInv, ClockInv, NEW a \in Ids, Unbind(a), UNCHANGED <<top, tv, secs>>,
         top # 0 /\ ~finishing' => a # top /\ ~finishing,
         crash' = "none" => crash = "none"
  PROVE  ClockInv'
<1>1. /\ bound' = bound \ {a} /\ UNCHANGED <<ts, scheduled>>
      /\ service' = IF bound' = {} THEN 0 ELSE service
      /\ counter' = IF bound' = {} THEN 0 ELSE counter
      /\ posted' = [b \in Ids |-> IF bound' = {} THEN 0 ELSE posted[b]]
  BY DEF Unbind
<1>2. top # 0 /\ ~finishing' => bound' # {} /\ ~finishing
  BY <1>1 DEF IInv, LifeInv
<1>3. /\ posted' \in [Ids -> Nat] /\ \A b \in Ids : posted'[b] > 0 => bound' # {}
      /\ bound' # {} => \A b \in Ids : posted'[b] = posted[b]
  BY <1>1 DEF ClockInv, Waiting
<1>4. Waiting'
  <2>1. counter' \in 0..Hour
    BY <1>1, HourNat DEF ClockInv, Waiting
  <2>2. \A b \in Ids : posted'[b] > 0 => b \in scheduled' /\ ts'[b] = service' /\ service' # 0
    BY <1>1, <1>3 DEF ClockInv, Waiting
  <2> QED
    BY <1>1, <1>3, <2>1, <2>2 DEF ClockInv, Waiting
<1>5. Given'
  BY <1>1, <1>2 DEF ClockInv, Given
<1>6. ASSUME Timed' PROVE tv' \in 0..Hour /\ tv' = counter' /\ ClockIsTrue'
  <2>1. bound' # {} /\ Timed /\ top \in Ids
    BY <1>1, <1>2, <1>6, WhoIsThere DEF Timed, Timing, Alone
  <2>2. counter' = counter /\ posted'[top'] = posted[top]
    BY <1>1, <1>3, <2>1
  <2> QED
    BY <2>1, <2>2 DEF ClockInv, Shown, ClockIsTrue, OnTime
<1> QED
  BY <1>4, <1>5, <1>6 DEF ClockInv, Shown

LEMMA EndClock ==
  ASSUME IInv, ClockInv, (\E a \in Ids : Cleanup(a)) \/ (\E i : ClickTile(i))
  PROVE  ClockInv'
<1>1. ASSUME NEW a \in Ids, Cleanup(a) PROVE ClockInv'
  BY <1>1, UnbindClock DEF Cleanup, screen, stack
<1>2. ASSUME NEW i, ClickTile(i) PROVE ClockInv'
  <2>1. top \in Ids /\ crash = "none" /\ UNCHANGED <<top, tv, secs>>
    BY <1>2, WhoIsThere DEF ClickTile, Input, Callback, stack
  <2>2. CASE UNCHANGED <<finishing, links, clock>>
    BY <2>1, <2>2, ClockRests
  <2>3. CASE Unbind(top) /\ finishing' = TRUE
    BY <2>1, <2>3, UnbindClock
  <2> QED
    BY <1>2, <2>2, <2>3 DEF ClickTile, Solved
<1> QED
  BY <1>1, <1>2

(* A tick of the timer on the screen, and its Runnable.  Another timer     *)
(* that ticked would count on the same service.                            *)
LEMMA TimerClock ==
  ASSUME IInv, ClockInv, NEW a \in Ids, Tick(a) \/ Run(a)
  PROVE  ClockInv'
<1> USE DEF ClockInv
<1>1. /\ posted \in [Ids -> Nat] /\ secs \in 0..Hour /\ posted[a] \in Nat
      /\ counter \in 0..Hour /\ UNCHANGED <<screen, links, scheduled, crash>>
      /\ top # 0 => top \in Ids
  BY WhoIsThere DEF Waiting, Tick, Run
<1>2. a \in scheduled /\ ts[a] = service /\ service # 0
  BY <1>1 DEF Tick, Run, Waiting, IInv, LinkInv
<1>3. ASSUME Timed' PROVE a = top /\ Timed
  <2>1. top # 0 /\ ~finishing /\ crash = "none" /\ Alone /\ tv' # NoTime
    BY <1>1, <1>3 DEF Timed, Timing, Alone, screen, stack, links
  <2>2. tv # NoTime
    BY <1>1, <1>2, <2>1 DEF Tick, Run, Given
  <2>3. ts[top] = service
    BY <2>1, <2>2 DEF Given, IInv, LifeInv, LinkInv
  <2> QED
    BY <1>2, <2>1, <2>2, <2>3 DEF Timed, Timing, Alone
<1>4. CASE Tick(a)
  <2>1. /\ posted' = [posted EXCEPT ![a] = @ + 1]
        /\ secs' = IF a = top THEN (secs + 1) % (Hour + 1) ELSE secs
        /\ UNCHANGED <<tv, counter>>
    BY <1>4 DEF Tick
  <2>2. (secs + 1) % (Hour + 1) \in 0..Hour
    BY <1>1, HourNat, Division
  <2>3. posted' \in [Ids -> Nat] /\ posted'[a] = posted[a] + 1
        /\ \A b \in Ids \ {a} : posted'[b] = posted[b]
    BY <1>1, <2>1
  <2>4. Waiting'
    BY <1>1, <1>2, <2>1, <2>2, <2>3 DEF Waiting, links
  <2>5. Given'
    BY <1>1, <2>1 DEF Given, screen, stack, links
  <2>6. ASSUME Timed' PROVE tv' \in 0..Hour /\ tv' = counter' /\ ClockIsTrue'
    <3>1. a = top /\ tv = (secs - posted[a]) % (Hour + 1) /\ tv = counter /\ top' = top
      BY <1>1, <1>3, <2>6 DEF Shown, ClockIsTrue, OnTime, screen, stack
    <3>2. secs' = (secs + 1) % (Hour + 1) /\ posted'[top'] = posted[a] + 1
      BY <2>1, <2>3, <3>1
    <3>3. (secs' - posted'[top']) % (Hour + 1) = tv
      BY <1>1, <3>1, <3>2, TickArithmetic
    <3> QED
      BY <1>1, <2>1, <3>1, <3>3 DEF ClockIsTrue, OnTime
  <2> QED
    BY <2>4, <2>5, <2>6 DEF Shown
<1>5. CASE Run(a)
  <2>1. /\ posted[a] > 0 /\ posted' = [posted EXCEPT ![a] = @ - 1]
        /\ counter' = timerCount(counter) /\ tv' = IF a = top THEN counter' ELSE tv
        /\ secs' = secs
    BY <1>5 DEF Run
  <2>2. counter' \in 0..Hour
    BY <1>1, <2>1, HourNat DEF timerCount
  <2>3. posted' \in [Ids -> Nat] /\ posted'[a] = posted[a] - 1
        /\ \A b \in Ids \ {a} : posted'[b] = posted[b]
    BY <1>1, <2>1
  <2>4. Waiting'
    BY <1>1, <1>2, <2>1, <2>2, <2>3 DEF Waiting, links
  <2>5. Given'
    BY <1>1, <1>2, <2>1, <2>2 DEF Given, Waiting, NoTime, screen, stack, links
  <2>6. ASSUME Timed' PROVE tv' \in 0..Hour /\ tv' = counter' /\ ClockIsTrue'
    <3>1. a = top /\ counter = (secs - posted[a]) % (Hour + 1) /\ top' = top
      BY <1>1, <1>3, <2>6 DEF Shown, ClockIsTrue, OnTime, screen, stack
    <3>2. tv' = counter' /\ posted'[top'] = posted[a] - 1
      BY <2>1, <2>3, <3>1
    <3>3. (secs' - posted'[top']) % (Hour + 1) = counter'
      BY <1>1, <2>1, <3>1, <3>2, RunArithmetic
    <3> QED
      BY <2>2, <3>2, <3>3 DEF ClockIsTrue, OnTime
  <2> QED
    BY <2>4, <2>5, <2>6 DEF Shown
<1> QED
  BY <1>4, <1>5

LEMMA StepClock == IInv /\ ClockInv /\ [Next]_vars => ClockInv'
<1> SUFFICES ASSUME IInv, ClockInv, [Next]_vars PROVE ClockInv'
  OBVIOUS
<1>1. IInv'
  BY StepInv
<1>2. CASE UNCHANGED vars
  BY <1>2, ClockRests DEF vars, screen, stack
<1> QED
  BY <1>1, <1>2, LifeClock, ConnectedClock, GameClock, EndClock, TimerClock DEF Next

(* The clock of a game is behind its timer by what waits for the UI        *)
(* thread, for an hour of any length, whatever becomes of the other        *)
(* activities and their connections, as long as no other timer counts on   *)
(* the service of the game.                                                *)
THEOREM ClockFollowsTimer == Spec => []ClockIsTrue
<1>1. Spec => []ClockInv
  BY InitClock, StepClock, Inductive, PTL DEF Spec
<1>2. ClockInv => ClockIsTrue
  BY DEF ClockInv, Shown, ClockIsTrue
<1> QED
  BY <1>1, <1>2, PTL

-----------------------------------------------------------------------------
(* The board.  What a step does to it.                                     *)
LEMMA BoardSteps ==
  ASSUME BoardInv, [Next]_vars
  PROVE  \/ /\ UNCHANGED <<row, col, num>>
            /\ phase' = phase \/ (phase = "shuffle" /\ phase' = "play")
         \/ ClearBoard
         \/ phase = "size" /\ phase' = "size" /\ row' \in Nat /\ col' \in Nat
         \/ \E s \in Nat \X Nat : Deal(s)
         \/ \E g, b : SlideOf(g, b)
<1>1. CASE UNCHANGED vars
  BY <1>1 DEF vars, board
<1>2. CASE Start \/ Rotate \/ Leave
  BY <1>2 DEF Start, Rotate, Leave, Create
<1>4. ASSUME NEW a \in Ids, Cleanup(a) \/ onServiceConnected(a) \/ Tick(a) \/ Run(a)
      PROVE  UNCHANGED board
  BY <1>4 DEF Cleanup, onServiceConnected, Tick, Run
<1>5. ASSUME NEW a \in Ids, NEW s \in Inputs[a], Refuse(s)
      PROVE  phase = "size" /\ phase' = "size" /\ row' \in Nat /\ col' \in Nat
  <2>1. s \in Nat \X Nat
    BY ActivityAssumption DEF Ids
  <2> QED
    BY <1>5, <2>1 DEF Refuse
<1>6. ASSUME NEW a \in Ids, NEW s \in Inputs[a], MakeButtons(s)
      PROVE  s \in Nat \X Nat /\ Deal(s)
  BY <1>6, ActivityAssumption DEF MakeButtons, Ids
<1>7. CASE ShuffleOn
  BY <1>7, ShuffleSlides DEF ShuffleOn
<1>8. CASE Play
  BY <1>8 DEF Play
<1>9. ASSUME NEW i \in Cells, ClickTile(i)
      PROVE  UNCHANGED board \/ SlideOf(gap, i)
  BY <1>9, ClickSlides DEF ClickTile, board
<1> QED
  BY <1>1, <1>2, <1>4, <1>5, <1>6, <1>7, <1>8, <1>9 DEF Next, board

(* The labels stay those of the board and the parity stays.                *)
LEMMA BoardStep ==
  ASSUME BoardInv, SameParity, [Next]_vars
  PROVE  BoardInv' /\ SameParity'
<1>1. CASE /\ UNCHANGED <<row, col, num>>
           /\ phase' = phase \/ (phase = "shuffle" /\ phase' = "play")
  <2>1. BoardInv'
    BY <1>1 DEF BoardInv, Sides, Labels, Cells
  <2>2. inversions' = inversions /\ away' = away
    BY <1>1 DEF inversions, rank, away, gap, Cells
  <2> QED
    BY <1>1, <2>1, <2>2 DEF SameParity
<1>2. CASE phase' = "size" /\ row' \in Nat /\ col' \in Nat
  BY <1>2 DEF BoardInv, SameParity
<1>3. CASE ClearBoard
  BY <1>2, <1>3 DEF ClearBoard
<1>4. ASSUME NEW s \in Nat \X Nat, Deal(s) PROVE BoardInv' /\ SameParity'
  <2>1. Sides' /\ Labels' /\ phase' = "shuffle"
    BY <1>4, DealLabels DEF Deal
  <2> QED
    BY <1>4, <2>1, DealParity DEF BoardInv, Sides
<1>5. ASSUME NEW g, NEW b, SlideOf(g, b) PROVE BoardInv' /\ SameParity'
  <2>1. Sides' /\ Labels' /\ phase' = phase
    BY <1>5, SlideLabels DEF SlideOf, BoardInv
  <2> QED
    BY <1>5, <2>1, SlideParity DEF BoardInv, Sides
<1> QED
  BY <1>1, <1>2, <1>3, <1>4, <1>5, BoardSteps

LEMMA BoardInductive == Spec => [](BoardInv /\ SameParity)
<1>1. Init => BoardInv /\ SameParity
  BY DEF Init, NoBoard, BoardInv, SameParity
<1> QED
  BY <1>1, BoardStep, PTL DEF Spec

(* The parity of the deal stays, whatever the size, however long shuffle() *)
(* goes on and wherever the user clicks.                                   *)
THEOREM ParityKept == Spec => []SameParity
BY BoardInductive, PTL

(* The moves of shuffle() and the clicks are slides of one tile on a grid, *)
(* and nothing else moves a tile.                                          *)
THEOREM Refinement == Spec => AbsSpec
<1>1. Init => Abs!Init
  BY DEF Init, NoBoard, Abs!Init
<1>2. BoardInv /\ [Next]_vars
        => Abs!Deal \/ Abs!Slide \/ Abs!Gone \/ UNCHANGED Grid
  <2> SUFFICES ASSUME BoardInv, [Next]_vars
               PROVE  Abs!Deal \/ Abs!Slide \/ Abs!Gone \/ UNCHANGED Grid
    OBVIOUS
  <2>1. CASE /\ UNCHANGED <<row, col, num>>
             /\ phase' = phase \/ (phase = "shuffle" /\ phase' = "play")
    BY <2>1 DEF Grid
  <2>2. CASE ClearBoard
    BY <2>2 DEF ClearBoard, Abs!Gone
  <2>3. CASE phase = "size" /\ phase' = "size"
    BY <2>3 DEF Grid
  <2>4. ASSUME NEW s \in Nat \X Nat, Deal(s) PROVE Abs!Deal
    BY <2>4, DealImplements
  <2>5. ASSUME NEW g, NEW b, SlideOf(g, b) PROVE Abs!Slide
    BY <2>5, SlideImplements
  <2> QED
    BY <2>1, <2>2, <2>3, <2>4, <2>5, BoardSteps
<1>3. Spec => []BoardInv
  BY BoardInductive, PTL
<1> QED
  BY <1>1, <1>2, <1>3, PTL DEF Spec, AbsSpec, Abs!Spec, Grid

-----------------------------------------------------------------------------
(* Types.  A service is given to an activity that was bound to it, so it   *)
(* was created for that activity or for one before it.                     *)
Numbers ==
  /\ left \subseteq 1..made
  /\ \A a \in Ids : ts[a] <= a /\ posted[a] \in 0..Backlog
  /\ tv \in {NoTime} \union 0..Hour
  /\ crash \in {"none", "size", "schedule", "unbind"}

LEMMA NumbersLife ==
  ASSUME IInv, Numbers, (Start \/ Rotate \/ Leave) \/ \E a \in Ids : onServiceConnected(a)
  PROVE  Numbers'
<1>1. CASE Start \/ Rotate \/ Leave
  <2>1. /\ left' \subseteq left \union ({top} \ {0}) /\ made' \in {made, made + 1} /\ tv' = NoTime
        /\ UNCHANGED <<ts, posted, crash>>
    BY <1>1 DEF Start, Rotate, Leave, Create, Input, links, clock
  <2>2. left' \subseteq 1..made'
    <3>1. made \in Nat /\ top \in 0..made
      BY WhoIsThere DEF IInv, LifeInv
    <3> QED
      BY <2>1, <3>1 DEF Numbers
  <2> QED
    BY <2>1, <2>2 DEF Numbers
<1>2. ASSUME NEW a \in Ids, onServiceConnected(a) PROVE Numbers'
  <2>1. /\ ts' = [ts EXCEPT ![a] = service] /\ service <= a
        /\ UNCHANGED <<made, posted, tv, crash, left>>
    BY <1>2 DEF onServiceConnected, screen, stack, clock, IInv, LinkInv
  <2>2. \A b \in Ids : ts'[b] <= b
    BY <2>1 DEF Numbers, IInv, LinkInv
  <2> QED
    BY <2>1, <2>2 DEF Numbers
<1> QED
  BY <1>1, <1>2

LEMMA NumbersGame ==
  ASSUME IInv, Numbers,
         \/ ShuffleOn \/ Play
         \/ \E s : Refuse(s) \/ MakeButtons(s)
         \/ \E i : ClickTile(i)
         \/ \E a \in Ids : Cleanup(a)
  PROVE  Numbers'
<1>1. 0 \in 0..Hour /\ 0 \in 0..Backlog
  BY ActivityAssumption
<1>2. CASE ShuffleOn \/ (\E s : Refuse(s) \/ MakeButtons(s))
  <2>1. /\ UNCHANGED <<made, links, clock, tv, left>>
        /\ crash' \in {crash, "size"}
    BY <1>2 DEF ShuffleOn, Refuse, MakeButtons, screen, stack
  <2> QED
    BY <2>1 DEF Numbers, links, clock
<1>3. CASE Play
  <2>1. /\ UNCHANGED <<made, links, left, posted>>
        /\ crash' \in {crash, "schedule"} /\ tv' \in {tv, 0}
    BY <1>3 DEF Play, StartClock, screen, stack, clock
  <2> QED
    BY <1>1, <2>1 DEF Numbers, links
<1>4. ASSUME NEW a, Unbind(a), left' \subseteq 1..made, UNCHANGED <<made, tv, crash>>
      PROVE  Numbers'
  <2>1. ts' = ts /\ \A b \in Ids : posted'[b] \in {0, posted[b]}
    BY <1>4 DEF Unbind
  <2> QED
    BY <1>1, <1>4, <2>1 DEF Numbers
<1>5. ASSUME NEW a \in Ids, Cleanup(a) PROVE Numbers'
  BY <1>4, <1>5 DEF Cleanup, screen, stack, Numbers
<1>6. ASSUME NEW i, ClickTile(i) PROVE Numbers'
  <2>1. UNCHANGED <<top, made, tv>> /\ top \in 1..made
    BY <1>6 DEF ClickTile, stack, Input, IInv, LifeInv
  <2>2. CASE UNCHANGED <<links, clock, left>> /\ crash' \in {crash, "unbind"}
    BY <2>1, <2>2 DEF Numbers, links, clock
  <2>3. CASE Unbind(top) /\ left' \subseteq left \union {top} /\ UNCHANGED crash
    <3>1. left' \subseteq 1..made
      BY <2>1, <2>3 DEF Numbers
    <3> QED
      BY <1>4, <2>1, <2>3, <3>1
  <2> QED
    BY <1>6, <2>2, <2>3 DEF ClickTile, Solved
<1> QED
  BY <1>2, <1>3, <1>5, <1>6

LEMMA NumbersTimer ==
  ASSUME IInv, ClockInv, ClockInv', Numbers, NEW a \in Ids, Tick(a) \/ Run(a)
  PROVE  Numbers'
<1>1. /\ UNCHANGED <<made, links, crash, left>>
      /\ posted \in [Ids -> Nat] /\ counter' \in 0..Hour
  BY DEF Tick, Run, screen, stack, ClockInv, Waiting
<1>2. CASE Tick(a)
  <2>1. posted' = [posted EXCEPT ![a] = @ + 1] /\ posted[a] < Backlog /\ tv' = tv
    BY <1>2 DEF Tick
  <2>2. \A b \in Ids : posted'[b] \in 0..Backlog
    BY <1>1, <2>1, ActivityAssumption DEF Numbers
  <2> QED
    BY <1>1, <2>1, <2>2 DEF Numbers, links
<1>3. CASE Run(a)
  <2>1. posted' = [posted EXCEPT ![a] = @ - 1] /\ posted[a] > 0 /\ tv' \in {tv, counter'}
    BY <1>3 DEF Run
  <2>2. \A b \in Ids : posted'[b] \in 0..Backlog
    BY <1>1, <2>1, ActivityAssumption DEF Numbers
  <2> QED
    BY <1>1, <2>1, <2>2 DEF Numbers, links
<1> QED
  BY <1>2, <1>3

(* The labels are those of the board, and an activity holds a service that *)
(* was created for it or for one before it.                                *)
THEOREM TypeCorrect == Spec => []TypeOK
<1>1. Init => Numbers
  BY ActsNat, ActivityAssumption DEF Init, Numbers, Ids
<1>2. IInv /\ ClockInv /\ ClockInv' /\ Numbers /\ [Next]_vars => Numbers'
  <2> SUFFICES ASSUME IInv, ClockInv, ClockInv', Numbers, [Next]_vars PROVE Numbers'
    OBVIOUS
  <2>1. CASE UNCHANGED vars
    BY <2>1 DEF vars, screen, stack, links, clock, Numbers
  <2> QED
    BY <2>1, NumbersLife, NumbersGame, NumbersTimer DEF Next
<1>3. IInv /\ ClockInv /\ BoardInv /\ Numbers => TypeOK
  <2> SUFFICES ASSUME IInv, ClockInv, BoardInv, Numbers PROVE TypeOK
    OBVIOUS
  <2>1. BoardTypeOK
    <3>1. phase # "size" => DOMAIN num = Cells /\ {num[i] : i \in Cells} = Cells
      BY DEF BoardInv, Labels
    <3> QED
      BY <3>1 DEF BoardTypeOK, BoardInv
  <2>2. under \union bound \union scheduled \union left \subseteq 1..made
    BY DEF Numbers, IInv, LifeInv, LinkInv
  <2>3. \A a \in Ids : ts[a] \in 0..a
    BY DEF Numbers, IInv, LinkInv, Ids
  <2> QED
    BY <2>1, <2>2, <2>3 DEF TypeOK, Numbers, IInv, LifeInv, LinkInv, ClockInv, Waiting
<1>4. Spec => []ClockInv
  BY InitClock, StepClock, Inductive, PTL DEF Spec
<1> QED
  BY <1>1, <1>2, <1>3, <1>4, Inductive, BoardInductive, PTL DEF Spec
=============================================================================
