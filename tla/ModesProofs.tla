---------------------------- MODULE ModesProofs ----------------------------
(***************************************************************************)
(* Proofs about Modes, for every length of the text, size of the matrix,   *)
(* number of holes, length of the day and every set of chords.             *)
(***************************************************************************)
EXTENDS Modes, Remainders, SequenceTheorems, FiniteSetTheorems, TLAPS

(* The text t up to character n: what is written lies there, zeros behind. *)
Laid(t, n) ==
  /\ t \in [-1..(Cap - 1) -> Chars \union {NUL}]
  /\ n \in -1..(Cap - 1)
  /\ \A k \in 0..(Cap - 1) : t[k] = NUL <=> k > n

Window(t, n) == [k \in 1..(n + 1) |-> t[k - 1]]

TextInv ==
  /\ Laid(text, txt_len)
  /\ txt_cnt \in 0..(CntWrap - 1) /\ txt_mode \in 0..1
  /\ txt_prev \in -1..8 /\ right \in {-1, txt_prev}
  /\ right # -1 /\ txt_len # -1 => \E j \in 0..2 : text[txt_len] = Letter(right, j)

(* A step of TextSpec, or one by a switch that was not pushed right before.*)
TextStepAllowed ==
  Abs!Next \/ \E c \in Chords[2] : Misled(c) /\ (Work(c) \/ Handle(c))

-----------------------------------------------------------------------------
LEMMA CapNat == Cap \in Nat /\ Cap > 0 /\ CntWrap \in Nat /\ CntWrap > 0
BY OutAssumption

LEMMA CharFacts ==
  /\ NUL \notin Chars /\ Space \in Chars
  /\ \A i \in 0..8 : Digit(i) \in Chars
  /\ \A i \in 0..8, j \in 0..2 : Letter(i, j) \in Letters
  /\ Letters \subseteq Chars
<1>1. NUL \notin Chars
  BY DEF NUL, Chars, Space, Letters, Letter, Digit
<1>2. \A i \in 0..8 : Digit(i) \in Chars
  BY DEF Chars
<1>3. \A i \in 0..8, j \in 0..2 : Letter(i, j) \in Letters
  BY DEF Letters
<1> QED
  BY <1>1, <1>2, <1>3 DEF Chars

(* A chord that is not empty has a switch with the lowest number.          *)
LEMMA Lowest ==
  ASSUME NEW n \in 0..8, NEW c \in SUBSET (0..n), c # {}
  PROVE  Min(c) \in c /\ Min(c) \in 0..n /\ \A s \in c : Min(c) <= s
<1>1. \E m \in c : \A s \in c : m <= s
  <2> SUFFICES ASSUME \A m \in c : \E s \in c : ~(m <= s) PROVE FALSE
    OBVIOUS
  <2>0. 0 \notin c OBVIOUS
  <2>1. 1 \notin c BY <2>0
  <2>2. 2 \notin c BY <2>0, <2>1
  <2>3. 3 \notin c BY <2>0, <2>1, <2>2
  <2>4. 4 \notin c BY <2>0, <2>1, <2>2, <2>3
  <2>5. 5 \notin c BY <2>0, <2>1, <2>2, <2>3, <2>4
  <2>6. 6 \notin c BY <2>0, <2>1, <2>2, <2>3, <2>4, <2>5
  <2>7. 7 \notin c BY <2>0, <2>1, <2>2, <2>3, <2>4, <2>5, <2>6
  <2>8. 8 \notin c BY <2>0, <2>1, <2>2, <2>3, <2>4, <2>5, <2>6, <2>7
  <2>9. PICK x \in 0..n : x \in c
    OBVIOUS
  <2>10. x = 0 \/ x = 1 \/ x = 2 \/ x = 3 \/ x = 4 \/ x = 5 \/ x = 6 \/ x = 7 \/ x = 8
    BY <2>9
  <2> QED
    BY <2>0, <2>1, <2>2, <2>3, <2>4, <2>5, <2>6, <2>7, <2>8, <2>9, <2>10
<1> QED
  BY <1>1 DEF Min

(* The letter a switch cycles to is one of its own, and the one after the  *)
(* letter that stands there if that is one too.                            *)
LEMMA NextLetterType ==
  ASSUME NEW i \in 0..8, NEW ch
  PROVE  /\ \E k \in 0..2 : NextLetter(i, ch) = Letter(i, k)
         /\ \A k \in 0..2 : ch = Letter(i, k) => NextLetter(i, ch) = Letter(i, (k + 1) % 3)
<1> DEFINE found == {j \in 0..2 : ch = Letter(i, j)}
           j == IF found = {} THEN 3 ELSE Min(found)
<1>0. found # {} => Min(found) \in found /\ Min(found) \in 0..2
  <2>1. found \in SUBSET (0..2)
    OBVIOUS
  <2> HIDE DEF found
  <2> QED
    BY <2>1, Lowest
<1>1. j \in 0..3
  <2> HIDE DEF found
  <2> QED
    BY <1>0
<1>2. NextLetter(i, ch) = Letter(i, (j + 1) % 3)
  BY DEF NextLetter
<1>3. ASSUME NEW k \in 0..2, ch = Letter(i, k) PROVE j = k
  <2>1. k \in found
    BY <1>3
  <2>2. \A l \in found : Letter(i, l) = Letter(i, k)
    BY <1>3
  <2>3. \A l \in found : l = k
    BY <2>2 DEF Letter
  <2> HIDE DEF found
  <2> QED
    BY <1>0, <2>1, <2>3
<1> HIDE DEF j
<1>4. (j + 1) % 3 \in 0..2
  BY <1>1
<1> QED
  BY <1>2, <1>3, <1>4

(* What was written is a sequence of characters.                           *)
LEMMA WindowType ==
  ASSUME NEW t, NEW n, Laid(t, n)
  PROVE  /\ Window(t, n) \in Seq(Chars) /\ Len(Window(t, n)) = n + 1
         /\ \A k \in 1..(n + 1) : Window(t, n)[k] = t[k - 1]
<1>1. n + 1 \in Nat /\ n + 1 <= Cap
  BY CapNat DEF Laid
<1>2. ASSUME NEW k \in 1..(n + 1) PROVE t[k - 1] \in Chars
  <2>1. k - 1 \in 0..(Cap - 1) /\ ~(k - 1 > n) /\ k - 1 \in -1..(Cap - 1)
    BY <1>1, <1>2, CapNat DEF Laid
  <2>2. t[k - 1] # NUL
    BY <2>1 DEF Laid
  <2> QED
    BY <2>1, <2>2 DEF Laid
<1>3. Window(t, n) \in [1..(n + 1) -> Chars]
  BY <1>2 DEF Window
<1> QED
  BY <1>1, <1>3 DEF Window

(* A character is put behind the others.                                   *)
LEMMA PutLaid ==
  ASSUME Laid(text, txt_len), NEW ch \in Chars, Put(ch)
  PROVE  /\ Laid(text', txt_len')
         /\ Window(text', txt_len')
              = Append(IF Len(written) = Cap THEN Tail(written) ELSE written, ch)
<1> DEFINE w == written
           v == IF Len(w) = Cap THEN Tail(w) ELSE w
           n == txt_len
<1>0. ch # NUL /\ ch \in Chars
  BY CharFacts
<1>1. /\ w \in Seq(Chars) /\ Len(w) = n + 1 /\ \A k \in 1..(n + 1) : w[k] = text[k - 1]
      /\ Cap \in Nat /\ Cap > 0 /\ n \in -1..(Cap - 1)
  BY WindowType, CapNat DEF written, Window, Laid
<1>2. CASE n = Cap - 1
  <2>1. /\ txt_len' = n
        /\ \A k \in -1..(Cap - 1) : text'[k] =
             IF k = n THEN ch ELSE IF k \in 0..(Cap - 2) THEN text[k + 1] ELSE text[k]
        /\ DOMAIN text' = -1..(Cap - 1)
    BY <1>1, <1>2 DEF Put, Shifted, Laid
  <2>2. \A k \in 0..(Cap - 1) : text[k] \in Chars /\ text[k] # NUL
    BY <1>1, <1>2 DEF Laid
  <2>3. \A k \in -1..(Cap - 1) : text'[k] \in Chars \union {NUL}
    BY <1>0, <1>1, <2>1 DEF Laid
  <2>4. \A k \in 0..(Cap - 1) : text'[k] # NUL /\ ~(k > n)
    BY <1>0, <1>1, <1>2, <2>1, <2>2
  <2>5. text' \in [-1..(Cap - 1) -> Chars \union {NUL}]
    BY <1>1, <1>2, <2>3 DEF Put, Shifted, Laid
  <2>6. Laid(text', txt_len')
    BY <1>1, <2>1, <2>4, <2>5 DEF Laid
  <2>7. v = Tail(w) /\ w # <<>>
    BY <1>1, <1>2
  <2>8. /\ v \in Seq(Chars) /\ Len(v) = n /\ n \in Nat
        /\ \A k \in 1..n : v[k] = w[k + 1]
    BY <1>1, <1>2, <2>7, HeadTailProperties
  <2>9. /\ Append(v, ch) \in Seq(Chars) /\ Len(Append(v, ch)) = n + 1
        /\ \A k \in 1..n : Append(v, ch)[k] = text[k] /\ Append(v, ch)[n + 1] = ch
    <3>1. \A k \in 1..n : v[k] = text[k]
      BY <1>1, <2>8
    <3> HIDE DEF v, w
    <3>2. /\ Append(v, ch) \in Seq(Chars) /\ Len(Append(v, ch)) = n + 1
          /\ \A k \in 1..n : Append(v, ch)[k] = v[k]
          /\ Append(v, ch)[n + 1] = ch
      BY <1>0, <2>8, AppendProperties
    <3> QED
      BY <3>1, <3>2
  <2>10. /\ Window(text', n) \in Seq(Chars) /\ Len(Window(text', n)) = n + 1
         /\ \A k \in 1..(n + 1) : Window(text', n)[k] = text'[k - 1]
    BY <2>1, <2>6, WindowType
  <2>11. \A k \in 1..(n + 1) : text'[k - 1] = IF k = n + 1 THEN ch ELSE text[k]
    BY <1>1, <1>2, <2>1
  <2>12. \A k \in 1..(n + 1) : Window(text', n)[k] = Append(v, ch)[k]
    BY <1>1, <2>8, <2>9, <2>10, <2>11
  <2>13. Window(text', n) = Append(v, ch)
    BY <2>9, <2>10, <2>12, SeqEqual
  <2> QED
    BY <2>1, <2>6, <2>13
<1>3. CASE n # Cap - 1
  <2>1. txt_len' = n + 1 /\ n + 1 \in 0..(Cap - 1) /\ text' = [text EXCEPT ![n + 1] = ch]
    BY <1>1, <1>3 DEF Put, Shifted
  <2>2. /\ text' \in [-1..(Cap - 1) -> Chars \union {NUL}]
        /\ \A k \in -1..(Cap - 1) : text'[k] = IF k = n + 1 THEN ch ELSE text[k]
    BY <1>0, <1>1, <2>1 DEF Laid
  <2>3. Laid(text', txt_len')
    BY <1>0, <1>1, <2>1, <2>2 DEF Laid
  <2>4. v = w /\ n + 1 \in Nat
    BY <1>1, <1>3
  <2>5. /\ Append(v, ch) \in Seq(Chars) /\ Len(Append(v, ch)) = n + 2
        /\ \A k \in 1..(n + 1) : Append(v, ch)[k] = text[k - 1]
        /\ Append(v, ch)[n + 2] = ch
    <3>1. \A k \in 1..(n + 1) : v[k] = text[k - 1]
      BY <1>1, <2>4
    <3>2. v \in Seq(Chars) /\ Len(v) = n + 1 /\ (n + 1) + 1 = n + 2
      BY <1>1, <2>4
    <3> HIDE DEF v, w
    <3>3. /\ Append(v, ch) \in Seq(Chars) /\ Len(Append(v, ch)) = n + 2
          /\ \A k \in 1..(n + 1) : Append(v, ch)[k] = v[k]
          /\ Append(v, ch)[n + 2] = ch
      BY <1>0, <3>2, AppendProperties
    <3> QED
      BY <3>1, <3>3
  <2>6. /\ Window(text', n + 1) \in Seq(Chars) /\ Len(Window(text', n + 1)) = n + 2
        /\ \A k \in 1..(n + 2) : Window(text', n + 1)[k] = text'[k - 1]
    <3>1. (n + 1) + 1 = n + 2
      BY <1>1
    <3> QED
      BY <2>1, <2>3, <3>1, WindowType
  <2>7. \A k \in 1..(n + 2) : text'[k - 1] = IF k = n + 2 THEN ch ELSE text[k - 1]
    BY <1>1, <2>1, <2>2
  <2>8. \A k \in 1..(n + 2) : Window(text', n + 1)[k] = Append(v, ch)[k]
    BY <1>1, <2>5, <2>6, <2>7
  <2>9. Window(text', n + 1) = Append(v, ch)
    BY <2>5, <2>6, <2>8, SeqEqual
  <2> QED
    BY <2>1, <2>3, <2>9
<1> QED
  BY <1>2, <1>3

(* A switch pressed again exchanges the last character, if there is one.   *)
LEMMA ExchangeLaid ==
  ASSUME Laid(text, txt_len), NEW ch \in Letters,
         text' = [text EXCEPT ![txt_len] = ch], txt_len' = txt_len
  PROVE  /\ Laid(text', txt_len')
         /\ \/ txt_len = -1 /\ Window(text', txt_len') = written
            \/ written # <<>> /\ Window(text', txt_len') = [written EXCEPT ![Len(written)] = ch]
<1> DEFINE w == written
           n == txt_len
<1>0. ch # NUL /\ ch \in Chars
  BY CharFacts
<1>1. /\ w \in Seq(Chars) /\ Len(w) = n + 1 /\ \A k \in 1..(n + 1) : w[k] = text[k - 1]
      /\ Cap \in Nat /\ Cap > 0 /\ n \in -1..(Cap - 1)
  BY WindowType, CapNat DEF written, Window, Laid
<1>2. /\ text' \in [-1..(Cap - 1) -> Chars \union {NUL}]
      /\ \A k \in -1..(Cap - 1) : text'[k] = IF k = n THEN ch ELSE text[k]
  BY <1>0, <1>1 DEF Laid
<1>3. Laid(text', txt_len')
  BY <1>0, <1>1, <1>2 DEF Laid
<1>4. /\ Window(text', n) \in Seq(Chars) /\ Len(Window(text', n)) = n + 1
      /\ \A k \in 1..(n + 1) : Window(text', n)[k] = text'[k - 1]
  BY <1>3, WindowType
<1>5. CASE n = -1
  <2>1. Window(text', n) = <<>> /\ w = <<>>
    BY <1>1, <1>4, <1>5, EmptySeq
  <2> QED
    BY <1>3, <1>5, <2>1
<1>6. CASE n # -1
  <2>1. n + 1 \in 1..Len(w) /\ w # <<>>
    BY <1>1, <1>6
  <2> DEFINE u == [w EXCEPT ![Len(w)] = ch]
  <2>2. u \in Seq(Chars) /\ Len(u) = n + 1
        /\ \A k \in 1..(n + 1) : u[k] = IF k = n + 1 THEN ch ELSE w[k]
    <3> HIDE DEF w
    <3> QED
      BY <1>0, <1>1, <2>1, ExceptSeq
  <2> HIDE DEF u, w
  <2>3. \A k \in 1..(n + 1) : Window(text', n)[k] = u[k]
    <3>1. \A k \in 1..(n + 1) : text'[k - 1] = IF k = n + 1 THEN ch ELSE text[k - 1]
      BY <1>1, <1>2
    <3> QED
      BY <1>1, <1>4, <2>2, <3>1
  <2>4. Window(text', n) = u
    BY <1>4, <2>2, <2>3, SeqEqual
  <2> QED
    BY <1>3, <2>1, <2>4 DEF u, w
<1> QED
  BY <1>5, <1>6

(* An empty text.                                                          *)
LEMMA EmptyLaid ==
  ASSUME NEW t \in [-1..(Cap - 1) -> Chars \union {NUL}], \A k \in 0..(Cap - 1) : t[k] = NUL
  PROVE  Laid(t, -1) /\ Window(t, -1) = <<>>
<1>1. Laid(t, -1)
  BY CapNat DEF Laid
<1> QED
  BY <1>1, WindowType, EmptySeq

(* A pass of the text editor: the text stays laid out, and TextSpec makes  *)
(* a step of its own or none, but where the editor is misled.              *)
LEMMA TextPassLaid ==
  ASSUME TextInv, NEW c \in SUBSET (0..8), NEW flag, TextPass(c, flag)
  PROVE  TextInv' /\ (Misled(c) \/ Abs!Next \/ UNCHANGED <<written, editor>>)
<1> USE DEF TextInv
<1>w. /\ Laid(text, txt_len) /\ written = Window(text, txt_len)
      /\ written' = Window(text', txt_len')
  BY DEF written, Window
<1>n. ASSUME NEW n \in Nat, Finish(n)
      PROVE  txt_cnt' \in 0..(CntWrap - 1) /\ Abs!Pushed(n)
  BY <1>n, CapNat DEF Finish, Abs!Pushed
<1>p. ASSUME NEW ch \in Chars, Put(ch)
      PROVE  Laid(text', txt_len') /\ Abs!Write(ch) /\ text'[txt_len'] = ch
  <2>1. Laid(text', txt_len') /\ Abs!Write(ch)
    BY <1>p, <1>w, PutLaid DEF Abs!Write
  <2>2. txt_len' \in DOMAIN Shifted
    BY CapNat, <1>p DEF Put, Shifted, Laid
  <2> QED
    BY <1>p, <2>1, <2>2 DEF Put
<1>1. CASE Clear(c)
  <2>1. /\ text' \in [-1..(Cap - 1) -> Chars \union {NUL}]
        /\ \A k \in 0..(Cap - 1) : text'[k] = NUL
        /\ txt_len' = -1
    BY <1>1, CapNat DEF Clear, emptied, Laid
  <2>2. Laid(text', txt_len') /\ written' = <<>>
    BY <1>w, <2>1, EmptyLaid
  <2>3. txt_cnt' \in 0..(CntWrap - 1) /\ Abs!Pushed(2)
    BY <1>1, <1>n DEF Clear
  <2>4. Abs!Clear
    BY <1>1, <2>2, <2>3 DEF Clear, Abs!Clear
  <2> QED
    BY <1>1, <2>1, <2>2, <2>3, <2>4 DEF Clear, Abs!Next
<1>2. CASE Change(c)
  <2>1. txt_cnt' \in 0..(CntWrap - 1) /\ Abs!Pushed(2)
    BY <1>2, <1>n DEF Change
  <2>2. written' = written
    BY <1>2, <1>w DEF Change
  <2>3. Abs!Change
    BY <1>2, <2>1, <2>2 DEF Change, Abs!Change
  <2> QED
    BY <1>2, <2>1, <2>3 DEF Change, Abs!Next
<1>3. CASE PutSpace(c)
  <2>1. txt_cnt' \in 0..(CntWrap - 1) /\ Abs!Pushed(2) /\ UNCHANGED txt_mode /\ right' = -1
    BY <1>3, <1>n DEF PutSpace
  <2>2. CASE txt_prev = -1 /\ Put(Space) /\ UNCHANGED txt_prev
    <3>1. Laid(text', txt_len') /\ Abs!Write(Space)
      BY <1>p, <2>2, CharFacts
    <3>2. Abs!Spaces
      BY <2>1, <2>2, <3>1 DEF Abs!Spaces
    <3> QED
      BY <2>1, <2>2, <3>1, <3>2 DEF Abs!Next
  <2>3. CASE txt_prev # -1 /\ txt_prev' = -1 /\ UNCHANGED <<text, txt_len>>
    <3>1. Laid(text', txt_len') /\ written' = written
      BY <1>w, <2>3
    <3>2. CASE right = -1
      BY <1>3, <2>1, <2>3, <3>1, <3>2 DEF PutSpace, Misled
    <3>3. CASE right # -1
      <4>1. Abs!Spaces
        BY <2>1, <3>1, <3>3 DEF Abs!Spaces
      <4> QED
        BY <2>1, <2>3, <3>1, <4>1 DEF Abs!Next
    <3> QED
      BY <3>2, <3>3
  <2> QED
    BY <1>3, <2>2, <2>3 DEF PutSpace
<1>4. CASE WriteDigit(c)
  <2>1. Min(c) \in 0..8 /\ txt_mode = 1
    BY <1>4, Lowest DEF WriteDigit, writes
  <2>2. txt_cnt' \in 0..(CntWrap - 1) /\ Abs!Pushed(1)
    BY <1>4, <1>n DEF WriteDigit
  <2>3. Laid(text', txt_len') /\ Abs!Write(Digit(Min(c)))
    BY <1>4, <1>p, <2>1, CharFacts DEF WriteDigit
  <2>4. Abs!Digits(Min(c))
    BY <1>4, <2>1, <2>2, <2>3 DEF WriteDigit, Abs!Digits
  <2>5. Abs!Next
    BY <2>1, <2>4 DEF Abs!Next, Abs!Switches
  <2> QED
    BY <1>4, <2>2, <2>3, <2>5 DEF WriteDigit
<1>5. CASE WriteLetter(c)
  <2> DEFINE i == Min(c)
  <2>1. i \in 0..8 /\ txt_mode = 0 /\ writes(c) /\ right' = i /\ UNCHANGED txt_mode
    BY <1>5, Lowest DEF WriteLetter, writes
  <2>2. txt_cnt' \in 0..(CntWrap - 1) /\ Abs!Pushed(1)
    BY <1>5, <1>n DEF WriteLetter
  <2>3. \/ /\ txt_prev = i
           /\ text' = [text EXCEPT ![txt_len] = NextLetter(i, text[txt_len])]
           /\ UNCHANGED <<txt_len, txt_prev>>
        \/ txt_prev # i /\ Put(Letter(i, 0)) /\ txt_prev' = i
    BY <1>5 DEF WriteLetter
  <2>m. writes(c) /\ txt_mode = 0 /\ Min(c) = txt_prev /\ (txt_prev # right \/ txt_len = -1)
          => Misled(c)
    BY DEF Misled
  <2>s. Abs!Letters(i) => Abs!Next
    BY <2>1 DEF Abs!Next, Abs!Switches
  <2>t. (Abs!First(i) \/ Abs!Cycle(i)) => Abs!Letters(i)
    BY <2>1, <2>2 DEF Abs!Letters
  <2>4. CASE txt_prev # i /\ Put(Letter(i, 0)) /\ txt_prev' = i
    <3>1. /\ Laid(text', txt_len') /\ Abs!Write(Letter(i, 0)) /\ text'[txt_len'] = Letter(i, 0)
      BY <1>p, <2>1, <2>4, CharFacts
    <3>2. right # i
      BY <2>1, <2>4
    <3>3. Abs!First(i)
      BY <3>1, <3>2 DEF Abs!First
    <3> HIDE DEF i
    <3> QED
      BY <2>1, <2>2, <2>s, <2>t, <2>4, <3>1, <3>3
  <2>5. CASE /\ txt_prev = i
             /\ text' = [text EXCEPT ![txt_len] = NextLetter(i, text[txt_len])]
             /\ UNCHANGED <<txt_len, txt_prev>>
    <3> DEFINE ch == NextLetter(i, text[txt_len])
    <3>1. /\ \E k \in 0..2 : ch = Letter(i, k)
          /\ \A k \in 0..2 : text[txt_len] = Letter(i, k) => ch = Letter(i, (k + 1) % 3)
      BY <2>1, NextLetterType
    <3>2. ch \in Letters
      <4> HIDE DEF ch, i
      <4> QED
        BY <2>1, <3>1, CharFacts
    <3>3. /\ Laid(text', txt_len')
          /\ \/ txt_len = -1
             \/ written # <<>> /\ written' = [written EXCEPT ![Len(written)] = ch]
      BY <1>w, <2>5, <3>2, ExchangeLaid
    <3>4. txt_len \in DOMAIN text /\ text'[txt_len'] = ch
      BY <1>w, <2>5, CapNat DEF Laid
    <3>5. right = i /\ txt_len # -1 => Abs!Cycle(i)
      <4> SUFFICES ASSUME right = i, txt_len # -1 PROVE Abs!Cycle(i)
        OBVIOUS
      <4> HIDE DEF ch, i
      <4>1. PICK k \in 0..2 : text[txt_len] = Letter(i, k)
        BY <2>1
      <4>2. ch = Letter(i, (k + 1) % 3) /\ written # <<>>
            /\ written' = [written EXCEPT ![Len(written)] = ch]
        BY <3>1, <3>3, <4>1
      <4>3. written[Len(written)] = text[txt_len]
        <5>1. Len(written) = txt_len + 1 /\ txt_len + 1 \in 1..(txt_len + 1)
              /\ \A l \in 1..(txt_len + 1) : written[l] = text[l - 1]
          BY <1>w, WindowType, CapNat DEF Laid
        <5>2. written[txt_len + 1] = text[(txt_len + 1) - 1] /\ (txt_len + 1) - 1 = txt_len
          BY <1>w, <5>1 DEF Laid
        <5> QED
          BY <5>1, <5>2
      <4> QED
        BY <4>1, <4>2, <4>3 DEF Abs!Cycle
    <3> HIDE DEF ch
    <3> QED
      BY <2>1, <2>2, <2>m, <2>s, <2>t, <2>5, <3>1, <3>3, <3>4, <3>5
  <2> QED
    BY <2>3, <2>4, <2>5
<1>6. CASE TextIdle(c)
  <2>1. txt_cnt' = txt_cnt /\ UNCHANGED <<text, txt_mode, txt_prev, txt_len, right>>
    BY <1>6, CapNat DEF TextIdle, Finish
  <2>2. TextInv'
    BY <2>1 DEF Laid
  <2>3. UNCHANGED written
    BY <1>w, <2>1
  <2> QED
    BY <2>1, <2>2, <2>3 DEF editor
<1> QED
  BY <1>1, <1>2, <1>3, <1>4, <1>5, <1>6 DEF TextPass

-----------------------------------------------------------------------------
(* What the devices show belongs to the mode, with the ranges that needs.  *)
ClockShows ==
  mode = 0 => /\ settime \in 0..1 /\ led = lamp(settime)
              /\ fnd = timedigits(devtime)

CounterShows ==
  mode = 1 => /\ cnt_mode \in {10, 8, 4, 2} /\ cnt_n \in Nat
              /\ fnd[2] * (cnt_mode * cnt_mode) + fnd[3] * cnt_mode + fnd[4] = cnt_n
              /\ led = notationled(cnt_mode)

TextShows == mode = 2 => fnd = digits(txt_cnt) /\ dot = dot_mode(txt_mode)

DrawShows == mode = 3 => fnd = digits(brd_cnt) /\ brd_cnt \in 0..(CntWrap - 1)

MoleShows ==
  mode = 4 => /\ fnd = digits(mol_pnt) /\ mol_pnt \in 0..(PntWrap - 1)
              /\ led = mol_lis(mol_n)

Shows == ClockShows /\ CounterShows /\ TextShows /\ DrawShows /\ MoleShows

Place == mode \in 0..4 /\ (in = {} \/ \E c \in Chords[mode] : in = {c})

IInv == Place /\ TextInv /\ Fresh /\ Shows /\ SentIsCurrent

LEMMA InitInv == Init => IInv /\ Abs!Init
<1> SUFFICES ASSUME Init PROVE IInv /\ Abs!Init
  OBVIOUS
<1>1. Laid(text, txt_len) /\ written = <<>>
  <2>1. Blank \in [-1..(Cap - 1) -> Chars \union {NUL}] /\ \A k \in 0..(Cap - 1) : Blank[k] = NUL
    BY CapNat DEF Blank
  <2> QED
    BY <2>1, EmptyLaid DEF Init, written, Window
<1>2. TextInv
  BY <1>1, CapNat DEF Init, TextInv
<1>a. Abs!Init
  BY <1>1 DEF Init, Abs!Init
<1>3. Fresh /\ Place /\ SentIsCurrent
  BY DEF Init, Fresh, editor, Place, SentIsCurrent
<1>4. Shows
  BY DEF Init, Shows, ClockShows, CounterShows, TextShows, DrawShows, MoleShows, lamp
<1> QED
  BY <1>2, <1>3, <1>4, <1>a DEF IInv

(* A change of mode leaves nothing behind.                                 *)
LEMMA TurnInv ==
  ASSUME IInv, NEW m \in 0..4, NEW c \in Chords[m], Turn(m, c)
  PROVE  IInv' /\ Abs!Enter
<1>0. resets_up \/ resets_down
  BY DEF Turn
<1>1. Laid(text', txt_len') /\ written' = <<>>
  <2>1. Blank \in [-1..(Cap - 1) -> Chars \union {NUL}] /\ \A k \in 0..(Cap - 1) : Blank[k] = NUL
    BY CapNat DEF Blank
  <2>2. text' = Blank /\ txt_len' = -1
    BY DEF Turn, mode_init, resets_up, resets_down
  <2> QED
    BY <2>1, <2>2, EmptyLaid DEF written, Window
<1>2. TextInv'
  BY <1>1, CapNat DEF Turn, mode_init, resets_up, resets_down, TextInv
<1>e. Abs!Enter
  BY <1>0, <1>1 DEF Turn, resets_up, resets_down, Abs!Enter
<1>3. Fresh'
  BY DEF Turn, mode_init, resets_up, resets_down, Fresh, editor
<1>4. Place' /\ SentIsCurrent'
  BY DEF Turn, Place, SentIsCurrent
<1>5. mode' = m /\ settime' = 0 /\ 0 \in 0..1
  BY DEF Turn, mode_init
<1>6. ClockShows'
  BY <1>5 DEF Turn, mode_init, ClockShows, lamp
<1>7. CounterShows'
  <2> SUFFICES ASSUME m = 1 PROVE CounterShows'
    BY <1>5 DEF CounterShows
  <2>1. cnt_mode' = 10 /\ cnt_n' = 0 /\ fnd' = digits(0) /\ led' = 64
    BY DEF Turn, mode_init, resets_up, resets_down
  <2>2. digits(0) = <<0, 0, 0, 0>>
    BY DEF digits
  <2> QED
    BY <2>1, <2>2 DEF CounterShows, notationled
<1>8. TextShows'
  BY <1>5 DEF Turn, mode_init, resets_up, resets_down, TextShows
<1>9. DrawShows'
  BY <1>5, CapNat DEF Turn, mode_init, resets_up, resets_down, DrawShows
<1>10. MoleShows'
  <2> SUFFICES ASSUME m = 4 PROVE MoleShows'
    BY <1>5 DEF MoleShows
  <2>1. mol_pnt' = 0 /\ fnd' = digits(0) /\ led' = mol_lis(mol_n')
    BY DEF Turn, mode_init, resets_up, resets_down
  <2>2. 0 \in 0..(PntWrap - 1)
    BY MoleAssumption
  <2> QED
    BY <2>1, <2>2 DEF MoleShows
<1> QED
  BY <1>2, <1>e, <1>3, <1>4, <1>6, <1>7, <1>8, <1>9, <1>10 DEF IInv, Shows

-----------------------------------------------------------------------------
(* The passes: each keeps what its mode shows, and without outflag leaves  *)
(* the picture as it was.                                                  *)
LEMMA SendsChanges ==
  ASSUME NEW flag \in BOOLEAN, Send(flag), ~flag => UNCHANGED out
  PROVE  shown => shown'
BY DEF Send

LEMMA ClockInv ==
  ASSUME ClockShows, mode = 0, mode' = 0, NEW c, NEW flag \in BOOLEAN, ClockPass(c, flag)
  PROVE  ClockShows' /\ (flag \/ shown => shown')
<1> DEFINE outflag == flag \/ 0 \in c \/ sets(c, settime') \/ goes
<1>1. Send(outflag) /\ fnd' = IF outflag THEN timedigits(devtime') ELSE fnd
  BY DEF ClockPass
<1>2. settime' \in 0..1 /\ led' = lamp(settime')
  BY DEF ClockPass, ClockShows
<1>3. ~outflag => devtime' = devtime
  <2> SUFFICES ASSUME ~outflag PROVE devtime' = devtime
    OBVIOUS
  <2>1. devtime' = adjusted(c, settime', devtime) /\ ~sets(c, settime')
    BY DEF ClockPass
  <2> QED
    BY <2>1 DEF adjusted, sets
<1>4. ~outflag => UNCHANGED out
  BY <1>1 DEF ClockPass, out
<1>5. fnd' = timedigits(devtime')
  BY <1>1, <1>3 DEF ClockShows
<1>6. outflag \/ shown => shown'
  BY <1>1, <1>4 DEF Send
<1> QED
  BY <1>2, <1>5, <1>6 DEF ClockShows

(* Any number is made of its three digits and what is above them.          *)
LEMMA ThreeDigits ==
  ASSUME NEW b \in {10, 8, 4, 2}, NEW n \in Nat
  PROVE  (n \div (b * b)) * (b * b) + ((n % (b * b)) \div b) * b + (n % b) = n
<1>1. CASE b = 10
  <2>1. (n \div 100) * 100 + ((n % 100) \div 10) * 10 + (n % 10) = n
    OBVIOUS
  <2> QED
    BY <1>1, <2>1
<1>2. CASE b = 8
  <2>1. (n \div 64) * 64 + ((n % 64) \div 8) * 8 + (n % 8) = n
    OBVIOUS
  <2> QED
    BY <1>2, <2>1
<1>3. CASE b = 4
  <2>1. (n \div 16) * 16 + ((n % 16) \div 4) * 4 + (n % 4) = n
    OBVIOUS
  <2> QED
    BY <1>3, <2>1
<1>4. CASE b = 2
  <2>1. (n \div 4) * 4 + ((n % 4) \div 2) * 2 + (n % 2) = n
    OBVIOUS
  <2> QED
    BY <1>4, <2>1
<1> QED
  BY <1>1, <1>2, <1>3, <1>4

LEMMA ChangeNumber ==
  ASSUME NEW b \in {10, 8, 4, 2}, NEW n \in Nat, change_n(n, b)
  PROVE  cnt_n' \in Nat /\ fnd'[2] * (b * b) + fnd'[3] * b + fnd'[4] = cnt_n'
<1>1. b * b * b \in Nat /\ b * b * b > 0
  OBVIOUS
<1>2. cnt_n' = n % (b * b * b) /\ cnt_n' \in Nat
  BY <1>1 DEF change_n
<1>3. /\ fnd'[2] = cnt_n' \div (b * b) /\ fnd'[3] = (cnt_n' % (b * b)) \div b
      /\ fnd'[4] = cnt_n' % b
  BY DEF change_n
<1>4. (cnt_n' \div (b * b)) * (b * b) + ((cnt_n' % (b * b)) \div b) * b + (cnt_n' % b) = cnt_n'
  BY <1>2, ThreeDigits
<1> QED
  BY <1>2, <1>3, <1>4, Zenon

LEMMA CounterInv ==
  ASSUME CounterShows, mode = 1, mode' = 1, NEW c, NEW flag \in BOOLEAN, CounterPass(c, flag)
  PROVE  CounterShows' /\ (flag \/ shown => shown')
<1>1. cnt_mode \in {10, 8, 4, 2} /\ cnt_n \in Nat
  BY DEF CounterShows
<1>2. CASE Notation(c)
  <2>1. cnt_mode' \in {10, 8, 4, 2} /\ led' = notationled(cnt_mode') /\ change_n(cnt_n, cnt_mode')
    BY <1>1, <1>2 DEF Notation, notation
  <2>2. cnt_n' \in Nat
        /\ fnd'[2] * (cnt_mode' * cnt_mode') + fnd'[3] * cnt_mode' + fnd'[4] = cnt_n'
    BY <1>1, <2>1, ChangeNumber
  <2>3. shown'
    <3>1. c \intersect (0..3) # {}
      BY <1>2 DEF Notation
    <3> QED
      BY <3>1 DEF CounterPass, Send
  <2> QED
    BY <2>1, <2>2, <2>3 DEF CounterShows
<1>3. CASE Increase(c)
  <2>1. worth(c, cnt_mode) \in Nat
    BY <1>1 DEF worth
  <2>2. cnt_n + worth(c, cnt_mode) \in Nat /\ change_n(cnt_n + worth(c, cnt_mode), cnt_mode)
    BY <1>1, <1>3, <2>1 DEF Increase
  <2>3. cnt_n' \in Nat
        /\ fnd'[2] * (cnt_mode * cnt_mode) + fnd'[3] * cnt_mode + fnd'[4] = cnt_n'
    BY <1>1, <2>2, ChangeNumber
  <2>4. c \intersect (0..3) # {}
    BY <1>3 DEF Increase
  <2>5. shown' /\ UNCHANGED <<cnt_mode, led>>
    BY <1>3, <2>4 DEF CounterPass, Increase, Send
  <2> QED
    BY <2>3, <2>5 DEF CounterShows
<1>4. CASE CounterIdle(c)
  BY <1>4 DEF CounterIdle, CounterPass, CounterShows, Send, counter, out
<1> QED
  BY <1>2, <1>3, <1>4 DEF CounterPass

LEMMA TextShowsInv ==
  ASSUME TextInv, TextShows, mode = 2, mode' = 2, NEW c, NEW flag \in BOOLEAN,
         TextPass(c, flag)
  PROVE  TextShows' /\ (flag \/ shown => shown')
<1>1. /\ fnd' = digits(txt_cnt')
      /\ \/ dot' = dot_mode(txt_mode')
         \/ UNCHANGED <<dot, txt_mode>>
  BY DEF TextPass, Clear, Change, PutSpace, WriteDigit, WriteLetter, TextIdle, Finish
<1>2. c = {} => UNCHANGED out
  <2> SUFFICES ASSUME c = {} PROVE UNCHANGED out
    OBVIOUS
  <2>1. TextIdle(c)
    BY DEF TextPass, Clear, Change, PutSpace, WriteDigit, WriteLetter,
           clears, changes, spaces, writes
  <2>2. txt_cnt' = txt_cnt
    BY <2>1, CapNat DEF TextIdle, Finish, TextInv
  <2> QED
    BY <1>1, <2>1, <2>2 DEF TextPass, TextIdle, TextShows, out
<1> QED
  BY <1>1, <1>2 DEF TextShows, TextPass, Send, edits

LEMMA DrawInv ==
  ASSUME DrawShows, mode = 3, mode' = 3, NEW c, NEW flag \in BOOLEAN, DrawPass(c, flag)
  PROVE  DrawShows' /\ (flag \/ shown => shown')
<1>1. brd_cnt' \in 0..(CntWrap - 1)
  <2>1. brd_cnt' \in {0, brd_cnt, (brd_cnt + 1) % CntWrap}
    BY DEF DrawPass, Reset, DrawIdle
  <2>2. /\ 0 \in 0..(CntWrap - 1) /\ brd_cnt \in 0..(CntWrap - 1)
        /\ (brd_cnt + 1) % CntWrap \in 0..(CntWrap - 1)
    BY CapNat DEF DrawShows
  <2> QED
    BY <2>1, <2>2
<1>2. c = {} => UNCHANGED out
  <2> SUFFICES ASSUME c = {} PROVE UNCHANGED out
    OBVIOUS
  <2>1. DrawIdle(c)
    BY DEF DrawPass, Reset, Move, Cursor, Paint, sees
  <2> QED
    BY <2>1 DEF DrawPass, DrawIdle, DrawShows, out
<1>3. fnd' = digits(brd_cnt') /\ Send(flag \/ c # {})
  BY DEF DrawPass
<1> QED
  BY <1>1, <1>2, <1>3 DEF DrawShows, Send

LEMMA MoleInv ==
  ASSUME MoleShows, mode = 4, mode' = 4, NEW c, NEW flag \in BOOLEAN, MolePass(c, flag),
         c \in SUBSET (0..8)
  PROVE  MoleShows' /\ (flag \/ shown => shown')
<1>1. PICK K \in catches(c, mol_n) :
        /\ \/ K = {} /\ UNCHANGED <<mol_n, led>>
           \/ K # {} /\ led' = mol_lis(mol_n')
        /\ mol_pnt' = ((IF 8 \in c THEN 0 ELSE mol_pnt) + 100 * Cardinality(K)) % PntWrap
        /\ fnd' = digits(mol_pnt')
        /\ UNCHANGED <<settime, dot, cur, curmode, text>>
        /\ Send(flag \/ 8 \in c \/ K # {})
  BY DEF MolePass
<1>2. Cardinality(K) \in Nat /\ (K = {} => Cardinality(K) = 0)
  <2>1. IsFiniteSet(0..8)
    <3>1. 0 \in Int /\ 8 \in Int
      OBVIOUS
    <3> QED
      BY <3>1, FS_Interval
  <2>2. IsFiniteSet(K)
    <3>1. K \in SUBSET (0..8)
      BY <1>1 DEF catches
    <3> QED
      BY <2>1, <3>1, FS_Subset
  <2> QED
    BY <2>2, FS_CardinalityType, FS_EmptySet
<1>3. /\ PntWrap \in Nat /\ PntWrap > 0 /\ mol_pnt \in 0..(PntWrap - 1) /\ mol_pnt \in Nat
  BY MoleAssumption DEF MoleShows
<1>4. mol_pnt' \in 0..(PntWrap - 1)
  <2> DEFINE n == (IF 8 \in c THEN 0 ELSE mol_pnt) + 100 * Cardinality(K)
  <2>1. n \in Nat /\ mol_pnt' = n % PntWrap
    BY <1>1, <1>2, <1>3
  <2> HIDE DEF n
  <2> QED
    BY <1>3, <2>1
<1>5. 8 \notin c /\ K = {} => UNCHANGED out
  <2> SUFFICES ASSUME 8 \notin c, K = {} PROVE UNCHANGED out
    OBVIOUS
  <2>1. mol_pnt' = mol_pnt % PntWrap
    BY <1>1, <1>2, <1>3
  <2>2. mol_pnt' = mol_pnt
    BY <1>3, <2>1
  <2> QED
    BY <1>1, <2>2 DEF MoleShows, out
<1>6. led' = mol_lis(mol_n')
  BY <1>1 DEF MoleShows
<1> QED
  BY <1>1, <1>4, <1>5, <1>6 DEF MoleShows, Send

-----------------------------------------------------------------------------
LEMMA PassInv ==
  ASSUME IInv, NEW c \in Chords[mode], NEW flag \in BOOLEAN, Pass(c, flag),
         flag \/ in = {}
  PROVE  /\ IInv'
         /\ Abs!Next \/ (mode = 2 /\ Misled(c)) \/ UNCHANGED <<written, editor>>
<1> USE DEF IInv
<1>0. /\ c \in SUBSET (0..8) /\ mode' = mode /\ Place'
  BY ModesAssumption DEF Pass, Place
<1>s. flag \/ shown
  BY DEF SentIsCurrent
<1>t. ASSUME UNCHANGED <<text, editor>> PROVE TextInv' /\ UNCHANGED <<written, editor>>
  BY <1>t DEF TextInv, Laid, editor, written
<1>1. CASE ClockStep(c, flag)
  <2>1. ClockShows' /\ shown' /\ UNCHANGED <<text, editor>> /\ mode = 0
    BY <1>0, <1>1, <1>s, ClockInv DEF ClockStep, ClockPass, Shows
  <2>2. Fresh'
    BY <1>0, <1>1 DEF ClockStep, ClockPass, Fresh, counter, editor, mole
  <2>3. Shows'
    BY <1>0, <2>1 DEF Shows, CounterShows, TextShows, DrawShows, MoleShows
  <2> QED
    BY <1>0, <1>t, <2>1, <2>2, <2>3 DEF SentIsCurrent
<1>2. CASE CounterStep(c, flag)
  <2>1. CounterShows' /\ shown' /\ UNCHANGED <<text, editor>> /\ mode = 1
    BY <1>0, <1>2, <1>s, CounterInv DEF CounterStep, CounterPass, Shows
  <2>2. Fresh'
    BY <1>0, <1>2 DEF CounterStep, CounterPass, Fresh, editor, mole
  <2>3. Shows'
    BY <1>0, <2>1 DEF Shows, ClockShows, TextShows, DrawShows, MoleShows
  <2> QED
    BY <1>0, <1>t, <2>1, <2>2, <2>3 DEF SentIsCurrent
<1>3. CASE TextStep(c, flag)
  <2>1. TextShows' /\ shown' /\ mode = 2 /\ TextInv'
        /\ (Misled(c) \/ Abs!Next \/ UNCHANGED <<written, editor>>)
    BY <1>0, <1>3, <1>s, TextShowsInv, TextPassLaid DEF TextStep, Shows
  <2>2. Fresh'
    BY <1>0, <1>3 DEF TextStep, TextPass, Fresh, counter, mole
  <2>3. Shows'
    BY <1>0, <2>1 DEF Shows, ClockShows, CounterShows, DrawShows, MoleShows
  <2> QED
    BY <1>0, <2>1, <2>2, <2>3 DEF SentIsCurrent
<1>4. CASE DrawStep(c, flag)
  <2>1. DrawShows' /\ shown' /\ UNCHANGED <<text, editor>> /\ mode = 3
    BY <1>0, <1>4, <1>s, DrawInv DEF DrawStep, DrawPass, Shows
  <2>2. Fresh'
    BY <1>0, <1>4 DEF DrawStep, DrawPass, Fresh, counter, editor, mole
  <2>3. Shows'
    BY <1>0, <2>1 DEF Shows, ClockShows, CounterShows, TextShows, MoleShows
  <2> QED
    BY <1>0, <1>t, <2>1, <2>2, <2>3 DEF SentIsCurrent
<1>5. CASE MoleStep(c, flag)
  <2>1. MoleShows' /\ shown' /\ UNCHANGED <<text, editor>> /\ mode = 4
    BY <1>0, <1>5, <1>s, MoleInv DEF MoleStep, MolePass, Shows
  <2>2. Fresh'
    BY <1>0, <1>5 DEF MoleStep, MolePass, Fresh, counter, editor
  <2>3. Shows'
    BY <1>0, <2>1 DEF Shows, ClockShows, CounterShows, TextShows, DrawShows
  <2> QED
    BY <1>0, <1>t, <2>1, <2>2, <2>3 DEF SentIsCurrent
<1> QED
  BY <1>1, <1>2, <1>3, <1>4, <1>5 DEF Pass

LEMMA StepInv == IInv /\ [Next]_vars => IInv' /\ [TextStepAllowed]_<<written, editor>>
<1> SUFFICES ASSUME IInv, [Next]_vars PROVE IInv' /\ [TextStepAllowed]_<<written, editor>>
  OBVIOUS
<1>1. ASSUME NEW m \in 0..4, NEW c \in Chords[m], Turn(m, c)
      PROVE  IInv' /\ [TextStepAllowed]_<<written, editor>>
  BY <1>1, TurnInv DEF Abs!Next, TextStepAllowed
<1>2. ASSUME NEW c \in Chords[mode], Work(c) \/ Handle(c)
      PROVE  IInv' /\ [TextStepAllowed]_<<written, editor>>
  <2>1. /\ IInv'
        /\ Abs!Next \/ (mode = 2 /\ Misled(c)) \/ UNCHANGED <<written, editor>>
    BY <1>2, PassInv DEF Work, Handle
  <2>2. mode = 2 /\ Misled(c) => TextStepAllowed
    BY <1>2 DEF TextStepAllowed
  <2> QED
    BY <2>1, <2>2 DEF TextStepAllowed
<1>3. ASSUME UNCHANGED <<mode, in, clock, counter, editor, brd_cnt, mole, out, shown>>
      PROVE  IInv' /\ UNCHANGED <<written, editor>>
  <2>1. Place' /\ TextInv' /\ SentIsCurrent' /\ UNCHANGED <<written, editor>>
    BY <1>3 DEF IInv, Place, TextInv, Laid, SentIsCurrent, editor, out, written
  <2>2. Fresh'
    BY <1>3 DEF IInv, Fresh, counter, editor, mole, out
  <2>3. Shows'
    BY <1>3 DEF IInv, Shows, ClockShows, CounterShows, TextShows, DrawShows, MoleShows,
                clock, counter, editor, mole, out
  <2> QED
    BY <2>1, <2>2, <2>3 DEF IInv
<1>4. CASE Minute
  BY <1>3, <1>4 DEF Minute
<1>5. CASE UNCHANGED vars
  BY <1>3, <1>5 DEF vars
<1> QED
  BY <1>1, <1>2, <1>4, <1>5 DEF Next

LEMMA Inductive == Spec => []IInv
BY InitInv, StepInv, PTL DEF Spec

(* Whatever changes the picture sets outflag: between two messages the     *)
(* last picture sent is the picture, in every mode.                        *)
THEOREM PictureIsSent == Spec => []SentIsCurrent
BY Inductive, PTL DEF IInv

(* Lamps, digits and letter are those of the mode's own variables.         *)
THEOREM DevicesShowState == Spec => []ShowsState
<1>1. IInv => ShowsState
  <2> SUFFICES ASSUME IInv PROVE ShowsState
    OBVIOUS
  <2>1. mode \in {0, 1, 2, 3, 4}
    BY DEF IInv, Place
  <2>2. CASE mode = 0
    BY <2>2 DEF IInv, Shows, ClockShows, ShowsState, lamp
  <2>3. CASE mode = 1
    BY <2>3 DEF IInv, Shows, CounterShows, ShowsState
  <2>4. CASE mode = 2
    BY <2>4 DEF IInv, Shows, TextShows, ShowsState
  <2>5. CASE mode = 3
    BY <2>5 DEF IInv, Shows, DrawShows, ShowsState
  <2>6. CASE mode = 4
    BY <2>6 DEF IInv, Shows, MoleShows, ShowsState
  <2> QED
    BY <2>1, <2>2, <2>3, <2>4, <2>5, <2>6
<1> QED
  BY <1>1, Inductive, PTL

(* No mode leaves anything behind for the next one.                        *)
THEOREM ModesStartFresh == Spec => []Fresh
BY Inductive, PTL DEF IInv

(* txt_len is the index of the last character, however text is cleared,    *)
(* shifted and cycled.                                                     *)
THEOREM TextIsLaidOut == Spec => []Layout
<1>1. IInv => Layout
  BY DEF IInv, TextInv, Laid, Layout
<1> QED
  BY <1>1, Inductive, PTL

(* The text editor implements TextSpec, the window on what was written and *)
(* the count of the switches, in every step but those where it goes by a   *)
(* switch that was not pushed right before (main.c says "if push same      *)
(* switch right before").                                                  *)
THEOREM TextRefinement == Spec => AbsSpec
<1>1. Init => Abs!Init
  BY InitInv
<1>2. IInv /\ [Next]_vars
        => [Abs!Next \/ \E c \in Chords[2] : Misled(c) /\ (Work(c) \/ Handle(c))]_<<written, editor>>
  BY StepInv DEF TextStepAllowed
<1> QED
  BY <1>1, <1>2, Inductive, PTL DEF Spec, AbsSpec

-----------------------------------------------------------------------------
(* The clock: times of the day as minutes.                                 *)
DayLength == Hours * Minutes

minutes(t) == t[1] * Minutes + t[2]

LEMMA DayFacts ==
  /\ Hours \in Nat /\ Hours > 0 /\ Minutes \in Nat /\ Minutes > 0
  /\ DayLength \in Nat /\ DayLength > 0
<1>1. Hours \in Nat /\ Hours > 0 /\ Minutes \in Nat /\ Minutes > 0
  BY ClockAssumption
<1>2. Hours * Minutes \in Nat /\ Hours * Minutes >= Hours
  BY <1>1, Multiple
<1> QED
  BY <1>1, <1>2 DEF DayLength

LEMMA TimeType ==
  ASSUME NEW t \in Times
  PROVE  /\ t = <<t[1], t[2]>> /\ t[1] \in 0..(Hours - 1) /\ t[2] \in 0..(Minutes - 1)
         /\ minutes(t) \in Int
BY DayFacts DEF Times, minutes

(* The local time is a time of the day and stands for its minute.          *)
LEMMA LocalTime ==
  ASSUME NEW n \in Day
  PROVE  localtime(n) \in Times /\ minutes(localtime(n)) = n
<1> DEFINE q == n \div Minutes
           r == n % Minutes
<1>1. /\ n \in Nat /\ n < Hours * Minutes /\ Hours * Minutes \in Nat
      /\ q \in Int /\ r \in 0..(Minutes - 1) /\ n = Minutes * q + r
  BY DayFacts, Division DEF Day, DayLength
<1> HIDE DEF q, r
<1>2. q >= 0
  <2> SUFFICES ASSUME ~(q >= 0) PROVE FALSE
    OBVIOUS
  <2>1. -q \in Int /\ -q >= 1
    BY <1>1
  <2>2. Minutes * (-q) >= Minutes
    BY <2>1, DayFacts, Multiple
  <2>3. Minutes * (-q) = -(Minutes * q)
    BY <1>1, DayFacts
  <2> QED
    BY <1>1, <2>2, <2>3, DayFacts
<1>3. q <= Hours - 1
  <2> SUFFICES ASSUME ~(q <= Hours - 1) PROVE FALSE
    OBVIOUS
  <2>1. q - Hours + 1 \in Int /\ q - Hours + 1 >= 1
    BY <1>1, DayFacts
  <2>2. Minutes * (q - Hours + 1) >= Minutes
    BY <2>1, DayFacts, Multiple
  <2>3. Minutes * (q - Hours + 1) = Minutes * q - Hours * Minutes + Minutes
    BY <1>1, DayFacts
  <2>4. Minutes * q \in Int
    BY <1>1, DayFacts
  <2> QED
    BY <1>1, <2>2, <2>3, <2>4, DayFacts
<1>4. localtime(n) = <<q, r>> /\ q * Minutes = Minutes * q
  BY <1>1, DayFacts DEF localtime, q, r
<1> QED
  BY <1>1, <1>2, <1>3, <1>4, DayFacts DEF Times, minutes

LEMMA MinutesInDay ==
  ASSUME NEW t \in Times
  PROVE  minutes(t) \in 0..(DayLength - 1)
<1>1. t[1] \in 0..(Hours - 1) /\ t[2] \in 0..(Minutes - 1)
  BY TimeType
<1>2. t[1] * Minutes >= 0 /\ t[1] * Minutes \in Int
  BY <1>1, DayFacts
<1>3. (Hours - t[1]) * Minutes >= Minutes
  <2>1. Hours - t[1] \in Int /\ Hours - t[1] >= 1
    BY <1>1, DayFacts
  <2>2. Minutes * (Hours - t[1]) >= Minutes
    BY <2>1, DayFacts, Multiple
  <2> QED
    BY <2>1, <2>2, DayFacts
<1>4. (Hours - t[1]) * Minutes = DayLength - t[1] * Minutes
  BY <1>1, DayFacts DEF DayLength
<1> QED
  BY <1>1, <1>2, <1>3, <1>4, DayFacts DEF minutes

(* A time of the day is known by its minute.                               *)
LEMMA SameMinute ==
  ASSUME NEW t \in Times, NEW u \in Times, minutes(t) = minutes(u)
  PROVE  t = u
<1>1. /\ t = <<t[1], t[2]>> /\ t[1] \in Int /\ t[2] \in 0..(Minutes - 1)
      /\ u = <<u[1], u[2]>> /\ u[1] \in Int /\ u[2] \in 0..(Minutes - 1)
  BY TimeType
<1>2. Minutes * t[1] + t[2] = Minutes * u[1] + u[2]
  BY <1>1, DayFacts DEF minutes
<1>3. /\ (Minutes * t[1] + t[2]) % Minutes = t[2]
      /\ (Minutes * t[1] + t[2]) \div Minutes = t[1]
      /\ (Minutes * u[1] + u[2]) % Minutes = u[2]
      /\ (Minutes * u[1] + u[2]) \div Minutes = u[1]
  BY <1>1, DayFacts, Remainder
<1>4. t[1] = u[1] /\ t[2] = u[2]
  BY <1>2, <1>3
<1> QED
  BY <1>1, <1>4

(* One minute more, at the end of the day the first one.                   *)
LEMMA MinuteOn ==
  ASSUME NEW t \in Times
  PROVE  /\ PlusMinute(t) \in Times
         /\ \/ minutes(PlusMinute(t)) = minutes(t) + 1
            \/ minutes(PlusMinute(t)) = minutes(t) + 1 - DayLength
<1>1. /\ t[1] \in 0..(Hours - 1) /\ t[2] \in 0..(Minutes - 1)
  BY TimeType
<1>2. CASE t[2] + 1 >= Minutes
  <2>1. t[2] + 1 = Minutes /\ PlusMinute(t) = <<(t[1] + 1) % Hours, 0>>
    BY <1>1, <1>2, DayFacts DEF PlusMinute
  <2>2. CASE t[1] + 1 = Hours
    <3>1. (t[1] + 1) % Hours = 0
      <4>1. (Hours * 1 + 0) % Hours = 0
        BY DayFacts, Remainder
      <4>2. Hours * 1 + 0 = t[1] + 1
        BY <2>2, DayFacts
      <4> QED
        BY <4>1, <4>2
    <3>2. PlusMinute(t) = <<0, 0>>
      BY <2>1, <3>1
    <3>3. t[1] * Minutes + Minutes = Hours * Minutes
      <4>1. (t[1] + 1) * Minutes = t[1] * Minutes + Minutes
        BY <1>1, DayFacts
      <4> QED
        BY <2>2, <4>1
    <3>4. t[1] * Minutes \in Int /\ 0 * Minutes = 0
      BY <1>1, DayFacts
    <3>5. 0 \in 0..(Hours - 1) /\ 0 \in 0..(Minutes - 1)
      BY DayFacts
    <3>6. PlusMinute(t) \in Times
      BY <3>2, <3>5 DEF Times
    <3>7. minutes(PlusMinute(t)) = 0
      BY <3>2, <3>4 DEF minutes
    <3>8. minutes(t) + 1 - DayLength = 0
      BY <1>1, <2>1, <3>3, <3>4, DayFacts DEF minutes, DayLength
    <3> QED
      BY <3>6, <3>7, <3>8
  <2>3. CASE t[1] + 1 # Hours
    <3>1. (t[1] + 1) % Hours = t[1] + 1
      <4>1. (Hours * 0 + (t[1] + 1)) % Hours = t[1] + 1
        BY <1>1, <2>3, DayFacts, Remainder
      <4>2. Hours * 0 + (t[1] + 1) = t[1] + 1
        BY <1>1, DayFacts
      <4> QED
        BY <4>1, <4>2
    <3>2. PlusMinute(t) = <<t[1] + 1, 0>>
      BY <2>1, <3>1
    <3>3. (t[1] + 1) * Minutes = t[1] * Minutes + Minutes /\ t[1] * Minutes \in Int
      BY <1>1, DayFacts
    <3> QED
      BY <1>1, <2>1, <2>3, <3>2, <3>3, DayFacts DEF Times, minutes
  <2> QED
    BY <2>2, <2>3
<1>3. CASE ~(t[2] + 1 >= Minutes)
  <2>1. PlusMinute(t) = <<t[1], t[2] + 1>> /\ t[1] * Minutes \in Int
    BY <1>1, <1>3, DayFacts DEF PlusMinute
  <2> QED
    BY <1>1, <1>3, <2>1, DayFacts DEF Times, minutes
<1> QED
  BY <1>2, <1>3

(* Distances on the circle of the day.                                     *)
LEMMA Distance ==
  ASSUME NEW t \in Times, NEW u \in Times
  PROVE  Ahead(t, u) = (minutes(t) - minutes(u)) % DayLength
<1>1. t[1] \in Int /\ t[2] \in Int /\ u[1] \in Int /\ u[2] \in Int
  BY TimeType
<1>2. (t[1] - u[1]) * Minutes + t[2] - u[2] = minutes(t) - minutes(u)
  BY <1>1, DayFacts DEF minutes
<1> QED
  BY <1>2 DEF Ahead, DayLength

(* A pass that counts a minute moves a distance on by one.                 *)
LEMMA OneMore ==
  ASSUME NEW t \in Times, NEW x \in Int
  PROVE  (minutes(PlusMinute(t)) + x) % DayLength = (minutes(t) + x + 1) % DayLength
<1> DEFINE a == minutes(t)
           b == minutes(PlusMinute(t))
           d == DayLength
<1>1. a \in Int /\ d \in Nat /\ d > 0 /\ (b = a + 1 \/ b = a + 1 - d)
  BY TimeType, DayFacts, MinuteOn
<1> HIDE DEF a, b, d
<1>2. ((a + x + 1) - d) % d = (a + x + 1) % d
  BY <1>1, OnceRound
<1>3. b + x = a + x + 1 \/ b + x = (a + x + 1) - d
  BY <1>1
<1>4. (b + x) % d = (a + x + 1) % d
  BY <1>2, <1>3
<1> QED
  BY <1>4 DEF a, b, d

LEMMA HourOn ==
  ASSUME NEW t \in Times
  PROVE  PlusHour(t) \in Times
<1>1. t[1] \in 0..(Hours - 1) /\ t[2] \in 0..(Minutes - 1)
  BY TimeType
<1>2. t[1] + 1 \in Int
  BY <1>1
<1>3. (t[1] + 1) % Hours \in 0..(Hours - 1)
  BY <1>2, DayFacts, Division
<1> QED
  BY <1>1, <1>3 DEF PlusHour, Times

LEMMA NextMinute ==
  ASSUME NEW n \in Day
  PROVE  /\ (n + 1) % (Hours * Minutes) \in Day
         /\ localtime((n + 1) % (Hours * Minutes)) = PlusMinute(localtime(n))
<1> DEFINE d == Hours * Minutes
           m == (n + 1) % d
           s == PlusMinute(localtime(n))
<1>1. /\ n \in 0..(d - 1) /\ d \in Nat /\ d > 0
      /\ n % d = n
  <2>1. n \in 0..(d - 1) /\ d \in Nat /\ d > 0
    BY DayFacts DEF Day, DayLength
  <2>2. (d * 0 + n) % d = n
    BY <2>1, Remainder
  <2> HIDE DEF d
  <2>3. d * 0 + n = n
    BY <2>1
  <2> QED
    BY <2>1, <2>2, <2>3
<1>2. m \in Day /\ (m = n + 1 \/ m = n + 1 - d)
  <2>1. m = IF (n % d) + 1 = d THEN 0 ELSE (n % d) + 1
    <3> HIDE DEF d
    <3> QED
      BY <1>1, OnceRound
  <2> QED
    BY <1>1, <2>1, SMTT(30) DEF Day
<1>3. localtime(n) \in Times /\ minutes(localtime(n)) = n
  BY LocalTime
<1>4. s \in Times /\ (minutes(s) = n + 1 \/ minutes(s) = n + 1 - d)
  BY <1>3, MinuteOn DEF DayLength
<1>5. localtime(m) \in Times /\ minutes(localtime(m)) = m
  BY <1>2, LocalTime
<1>6. minutes(s) = m
  <2>1. minutes(s) \in 0..(d - 1)
    BY <1>4, MinutesInDay DEF DayLength
  <2>2. m \in 0..(d - 1)
    BY <1>2 DEF Day
  <2> HIDE DEF d, m, s
  <2> QED
    BY <1>1, <1>2, <1>4, <2>1, <2>2
<1>7. localtime(m) = s
  BY <1>4, <1>5, <1>6, SameMinute
<1> QED
  BY <1>2, <1>7

-----------------------------------------------------------------------------
(* How far the device's time and the minutes it has not counted are ahead  *)
(* of the local time.                                                      *)
Balance == (minutes(devtime) - now + missed + due) % DayLength

Balanced ==
  mode = 0 /\ ~touched => Balance \in IF flown /\ in = {} THEN {0, 1} ELSE {0}

Entered == mode = 0 /\ in # {} => flown

TimeInv ==
  /\ now \in Day /\ devtime \in Times /\ prevtime \in Times /\ missed \in Day
  /\ Entered /\ Balanced

LEMMA DueType == due \in {0, 1} /\ due' \in {0, 1}
BY DEF due

LEMMA NoDistance == 0 % DayLength = 0 /\ 0 \in Day
<1>1. (DayLength * 0 + 0) % DayLength = 0
  BY DayFacts, Remainder
<1>2. DayLength * 0 + 0 = 0 /\ 0 \in Day
  BY DayFacts DEF Day, DayLength
<1> QED
  BY <1>1, <1>2

LEMMA BalanceIs ==
  ASSUME TimeInv
  PROVE  (Ahead(devtime, localtime(now)) + missed + due) % (Hours * Minutes) = Balance
<1> DEFINE d == DayLength
           x == minutes(devtime) - now
           z == missed + due
<1>1. d \in Nat /\ d > 0 /\ x \in Int /\ z \in Int
  BY DayFacts, TimeType, DueType DEF TimeInv, Day
<1>2. Ahead(devtime, localtime(now)) = x % d
  BY LocalTime, Distance DEF TimeInv
<1>3. /\ Ahead(devtime, localtime(now)) \in Int /\ missed \in Int /\ due \in Int
      /\ minutes(devtime) \in Int /\ now \in Int
  BY <1>1, <1>2, Division, TimeType, DueType DEF TimeInv, Day
<1>4. /\ Ahead(devtime, localtime(now)) + missed + due = (x % d) + z
      /\ minutes(devtime) - now + missed + due = x + z
  BY <1>2, <1>3
<1>5. ((x % d) + z) % d = (x + z) % d
  <2> HIDE DEF d, x, z
  <2> QED
    BY <1>1, Reduced
<1> QED
  BY <1>4, <1>5 DEF Balance, DayLength

LEMMA TimeInit == Init => TimeInv
<1> SUFFICES ASSUME Init PROVE TimeInv
  OBVIOUS
<1>1. /\ now \in Day /\ devtime \in Times /\ prevtime \in Times /\ minutes(devtime) = now
      /\ missed = 0 /\ missed \in Day
  BY LocalTime, NoDistance DEF Init
<1>2. due = 0
  BY DEF Init, due, goes
<1>3. minutes(devtime) - now + missed + due = 0
  BY <1>1, <1>2 DEF Day
<1>4. Balance = 0
  BY <1>3, NoDistance DEF Balance
<1> QED
  BY <1>1, <1>4 DEF Init, TimeInv, Entered, Balanced

LEMMA TimeTurn ==
  ASSUME TimeInv, NEW m \in 0..4, NEW c \in Chords[m], Turn(m, c)
  PROVE  TimeInv'
<1>1. /\ now' \in Day /\ devtime' \in Times /\ prevtime' \in Times /\ missed' \in Day
      /\ mode' = 0 => minutes(devtime') = now' /\ missed' = 0 /\ flown'
  BY LocalTime, NoDistance DEF TimeInv, Turn, mode_init
<1>2. in' = {c} /\ in' # {} /\ due' = 0
  BY DEF Turn, due
<1>3. mode' = 0 => minutes(devtime') - now' + missed' + due' = 0
  <2>1. now' \in Int
    BY <1>1 DEF Day
  <2> SUFFICES ASSUME mode' = 0 PROVE minutes(devtime') - now' + missed' + due' = 0
    OBVIOUS
  <2>2. minutes(devtime') = now' /\ missed' = 0 /\ due' = 0
    BY <1>1, <1>2
  <2>3. \A i \in Int : i - i + 0 + 0 = 0
    OBVIOUS
  <2> QED
    BY <2>1, <2>2, <2>3
<1>4. mode' = 0 => Balance' = 0
  BY <1>3, NoDistance DEF Balance
<1> QED
  BY <1>1, <1>2, <1>4 DEF TimeInv, Entered, Balanced

(* What a minute takes from the distance is counted as missed or as due.   *)
LEMMA TimeMinute == ASSUME TimeInv, Minute PROVE TimeInv'
<1> DEFINE d == DayLength
           a == minutes(devtime) - now'
           y == missed + 1 - (due' - due)
<1>1. /\ now' = (now + 1) % d /\ missed' = y % d
      /\ UNCHANGED <<mode, in, flown, devtime, prevtime, touched>>
  BY DEF Minute, clock, DayLength
<1>2. /\ d \in Nat /\ d > 0 /\ minutes(devtime) \in Int
      /\ missed \in Int /\ now \in Int /\ due \in Int /\ due' \in Int /\ y \in Int
  BY DayFacts, TimeType, DueType DEF TimeInv, Day
<1>3. (now + 1) % d \in Day /\ y % d \in Day
  <2>1. now + 1 \in Int
    BY <1>2
  <2> HIDE DEF y
  <2>2. (now + 1) % d \in 0..(d - 1) /\ y % d \in 0..(d - 1)
    BY <1>2, <2>1, Division
  <2> QED
    BY <2>2 DEF Day, DayLength
<1>4. Balance' = Balance
  <2> DEFINE e == minutes(devtime) + due'
             f == y % d
             g == (now + 1) % d
  <2>0. f \in Int /\ g \in Int /\ e \in Int /\ now + 1 \in Int
    BY <1>2, <1>3 DEF Day
  <2>1. ((e + f) - g) % d = ((e + f) - (now + 1)) % d
    <3>1. e + f \in Int
      BY <2>0
    <3> DEFINE h == e + f
               k == now + 1
    <3>2. h \in Int /\ k \in Int /\ g = k % d
      BY <2>0, <3>1
    <3> HIDE DEF h, k, g, e, f, d
    <3>3. (h - (k % d)) % d = (h - k) % d
      BY <1>2, <3>2, Reduced
    <3>4. g = k % d
      BY <3>2
    <3>5. (h - g) % d = (h - k) % d
      BY <3>3, <3>4
    <3> QED
      BY <3>5 DEF h, k
  <2>2. (f + (e - (now + 1))) % d = (y + (e - (now + 1))) % d
    <3>1. e - (now + 1) \in Int
      BY <2>0
    <3> HIDE DEF e, y
    <3> QED
      BY <1>2, <3>1, Reduced
  <2>3. y + (e - (now + 1)) = minutes(devtime) - now + missed + due
    BY <1>2
  <2>4. (e + f) - (now + 1) = f + (e - (now + 1))
    <3> HIDE DEF e, f
    <3> QED
      BY <1>2, <2>0
  <2>5. minutes(devtime') - now' + missed' + due' = (e + f) - g
    <3>1. minutes(devtime') = minutes(devtime) /\ now' = g /\ missed' = f
      BY <1>1
    <3> HIDE DEF f, g
    <3> QED
      BY <1>2, <2>0, <3>1
  <2>6. Balance' = ((e + f) - g) % d
    BY <2>5 DEF Balance
  <2>7. Balance = (minutes(devtime) - now + missed + due) % d
    BY DEF Balance
  <2> HIDE DEF e, f, g, y, d
  <2> QED
    BY <2>1, <2>2, <2>3, <2>4, <2>6, <2>7
<1> QED
  BY <1>1, <1>3, <1>4 DEF TimeInv, Entered, Balanced

(* A pass moves the device's time on when the local time has moved on.     *)
LEMMA PassTime ==
  ASSUME TimeInv, NEW c, NEW flag, ClockPass(c, flag)
  PROVE  /\ devtime' \in Times
         /\ prevtime' = localtime(now) /\ now' = now
         /\ ~sets(c, settime') =>
              devtime' = IF goes THEN PlusMinute(devtime) ELSE devtime
         /\ ~touched' => ~sets(c, settime') /\ ~touched
<1> DEFINE dev == adjusted(c, settime', devtime)
<1>1. dev \in Times
  <2>1. dev \in {localtime(now), PlusHour(devtime), PlusMinute(devtime), devtime}
    BY DEF adjusted
  <2> QED
    BY <2>1, LocalTime, HourOn, MinuteOn DEF TimeInv
<1>2. ~sets(c, settime') => dev = devtime
  BY DEF sets, adjusted
<1>3. /\ devtime' = IF goes THEN PlusMinute(dev) ELSE dev
      /\ prevtime' = localtime(now) /\ now' = now
      /\ touched' = (touched \/ sets(c, settime'))
  BY DEF ClockPass
<1> HIDE DEF dev
<1> QED
  BY <1>1, <1>2, <1>3, MinuteOn

LEMMA TimePass ==
  ASSUME TimeInv, NEW c, NEW flag, ClockStep(c, flag), in' = {},
         UNCHANGED <<mode, flown, missed>>
  PROVE  TimeInv'
<1> DEFINE x == missed - now
           d == DayLength
           a == minutes(devtime)
<1>1. /\ devtime' \in Times /\ prevtime' = localtime(now) /\ now' = now
      /\ ~sets(c, settime') => devtime' = IF goes THEN PlusMinute(devtime) ELSE devtime
      /\ ~touched' => ~sets(c, settime') /\ ~touched
  BY PassTime DEF ClockStep
<1>2. /\ now \in Day /\ localtime(now) \in Times /\ devtime \in Times /\ missed \in Day
      /\ a \in Int /\ x \in Int /\ d \in Nat /\ d > 0 /\ mode = 0
  BY LocalTime, TimeType, DayFacts DEF TimeInv, ClockStep, Day
<1>3. due' = 0
  BY <1>1 DEF due, goes
<1>4. Balance = (a + x + due) % d
  <2>1. a - now + missed + due = a + x + due
    BY <1>2, DueType DEF Day
  <2> QED
    BY <2>1 DEF Balance
<1>5. Balance' = (minutes(devtime') + x) % d
  <2>1. minutes(devtime') - now' + missed' + due' = minutes(devtime') + x
    BY <1>1, <1>2, <1>3, TimeType DEF Day
  <2> QED
    BY <2>1 DEF Balance
<1>6. /\ goes => (minutes(PlusMinute(devtime)) + x) % d = (a + x + 1) % d
      /\ a + x + 0 = a + x
  <2> HIDE DEF x
  <2> QED
    BY <1>2, OneMore
<1> HIDE DEF a, x, d
<1>7. Balanced'
  <2> SUFFICES ASSUME ~touched' PROVE Balance' \in IF flown THEN {0, 1} ELSE {0}
    BY DEF Balanced
  <2>1. devtime' = IF goes THEN PlusMinute(devtime) ELSE devtime
    BY <1>1
  <2>2. Balance' = IF goes THEN (a + x + 1) % d ELSE (a + x) % d
    BY <1>5, <1>6, <2>1 DEF a
  <2>3. Balance \in IF flown /\ in = {} THEN {0, 1} ELSE {0}
    BY <1>1, <1>2 DEF TimeInv, Balanced
  <2>4. CASE in = {}
    <3>1. Balance' = Balance
      BY <1>4, <1>6, <2>2, <2>4 DEF due
    <3> QED
      BY <2>3, <2>4, <3>1
  <2>5. CASE in # {}
    <3>1. flown
      BY <1>2, <2>5 DEF TimeInv, Entered
    <3>2. Balance = (a + x) % d /\ Balance = 0
      BY <1>4, <1>6, <2>3, <2>5 DEF due
    <3>3. (a + x + 1) % d \in {0, 1}
      <4>1. a + x \in Int
        BY <1>2
      <4>2. ((a + x) + 1) % d = IF ((a + x) % d) + 1 = d THEN 0 ELSE ((a + x) % d) + 1
        BY <1>2, <4>1, OnceRound
      <4> QED
        BY <3>2, <4>2
    <3> QED
      BY <2>2, <3>1, <3>2, <3>3
  <2> QED
    BY <2>4, <2>5
<1> QED
  BY <1>1, <1>2, <1>7 DEF TimeInv, Entered

LEMMA ClockPasses ==
  ASSUME NEW c, NEW flag, mode = 0, Pass(c, flag)
  PROVE  /\ ClockStep(c, flag)
         /\ in' = {} /\ UNCHANGED <<mode, flown, missed>>
BY DEF Pass, CounterStep, TextStep, DrawStep, MoleStep

LEMMA TimeStep == TimeInv /\ [Next]_vars => TimeInv'
<1> SUFFICES ASSUME TimeInv, [Next]_vars PROVE TimeInv'
  OBVIOUS
<1>1. ASSUME NEW c, NEW flag, Pass(c, flag) PROVE TimeInv'
  <2>1. CASE mode = 0
    BY <1>1, <2>1, ClockPasses, TimePass
  <2>2. CASE mode # 0
    <3>1. UNCHANGED <<now, devtime, prevtime, mode, missed>>
      BY <1>1, <2>2 DEF Pass, ClockStep, CounterStep, TextStep, DrawStep, MoleStep, clock
    <3> QED
      BY <2>2, <3>1 DEF TimeInv, Entered, Balanced
  <2> QED
    BY <2>1, <2>2
<1>2. CASE Minute
  BY <1>2, TimeMinute
<1>3. CASE UNCHANGED vars
  BY <1>3 DEF vars, clock, TimeInv, Entered, Balanced, Balance, due, goes
<1> QED
  BY <1>1, <1>2, <1>3, TimeTurn DEF Next, Work, Handle

LEMMA TimeInductive == Spec => []TimeInv
BY TimeInit, TimeStep, PTL DEF Spec

(* An untouched clock is behind the local time by the minutes it missed    *)
(* and by no other, or ahead of that by at most one once it was entered    *)
(* again, however many minutes go by without a message.                    *)
THEOREM ClockMissesOnly == Spec => []BehindByMissed
<1>1. TimeInv => BehindByMissed
  BY BalanceIs DEF TimeInv, Balanced, BehindByMissed
<1> QED
  BY <1>1, TimeInductive, PTL

(* A pass that sets nothing keeps the device's distance to the local time, *)
(* but for the minutes beyond the first that have gone by.                 *)
LEMMA KeptDistance ==
  ASSUME TimeInv, NEW c, NEW flag, ClockStep(c, flag), ~sets(c, settime')
  PROVE  LET gone == Ahead(localtime(now), prevtime)
             lost == IF gone = 0 THEN 0 ELSE gone - 1
         IN  Ahead(devtime', prevtime')
               = (Ahead(devtime, prevtime) - lost) % (Hours * Minutes)
<1> DEFINE a == minutes(devtime)
           b == minutes(prevtime)
           d == DayLength
           gone == Ahead(localtime(now), prevtime)
           lost == IF gone = 0 THEN 0 ELSE gone - 1
<1>1. /\ devtime' = IF goes THEN PlusMinute(devtime) ELSE devtime
      /\ devtime' \in Times /\ prevtime' = localtime(now)
  BY PassTime DEF ClockStep
<1>2. /\ localtime(now) \in Times /\ minutes(localtime(now)) = now
      /\ devtime \in Times /\ prevtime \in Times /\ now \in 0..(d - 1)
      /\ a \in Int /\ b \in 0..(d - 1) /\ d \in Nat /\ d > 0
  BY LocalTime, TimeType, DayFacts, MinutesInDay DEF TimeInv, Day, DayLength
<1>3. /\ gone = (now - b) % d /\ Ahead(devtime, prevtime) = (a - b) % d
      /\ Ahead(devtime', prevtime') = (minutes(devtime') - now) % d
  BY <1>1, <1>2, Distance
<1>4. gone \in 0..(d - 1)
  <2>1. now - b \in Int
    BY <1>2
  <2> HIDE DEF gone, d, b
  <2> QED
    BY <1>2, <1>3, <2>1, Division
<1>5. goes <=> gone # 0
  <2>1. ASSUME ~goes PROVE gone = 0
    <3>1. now - b = 0
      BY <1>2, <2>1 DEF goes
    <3> QED
      BY <1>3, <3>1, NoDistance
  <2>2. ASSUME goes, gone = 0 PROVE FALSE
    <3>1. now # b
      BY <1>2, <2>2, SameMinute DEF goes
    <3>2. CASE now > b
      <4> HIDE DEF d, b, gone
      <4>1. now - b \in 0..(d - 1) /\ d * 0 + (now - b) = now - b
        BY <1>2, <3>2
      <4>2. (d * 0 + (now - b)) % d = now - b
        BY <1>2, <4>1, Remainder
      <4> QED
        BY <1>2, <1>3, <2>2, <3>1, <4>1, <4>2
    <3>3. CASE now < b
      <4> HIDE DEF d, b, gone
      <4>1. (now - b) + d \in 0..(d - 1) /\ d * (-1) + ((now - b) + d) = now - b
        BY <1>2, <3>3
      <4>2. (d * (-1) + ((now - b) + d)) % d = (now - b) + d
        BY <1>2, <4>1, Remainder
      <4> QED
        BY <1>2, <1>3, <2>2, <3>3, <4>1, <4>2
    <3> HIDE DEF d, b
    <3> QED
      BY <1>2, <3>1, <3>2, <3>3
  <2> QED
    BY <2>1, <2>2
<1>6. (Ahead(devtime, prevtime) - lost) % d = ((a - b) - lost) % d
  <2>1. a - b \in Int /\ -lost \in Int
    <3> HIDE DEF gone
    <3> QED
      BY <1>2, <1>4
  <2> DEFINE e == a - b
             l == -lost
  <2> HIDE DEF e, l
  <2>2. ((e % d) + l) % d = (e + l) % d
    BY <1>2, <2>1, Reduced DEF e, l
  <2>3. Ahead(devtime, prevtime) = e % d /\ e \in Int /\ e % d \in Int /\ lost \in Int
        /\ l = -lost
    <3>1. Ahead(devtime, prevtime) = e % d /\ e \in Int /\ l = -lost
      BY <1>3, <2>1 DEF e, l
    <3>2. e % d \in Int
      BY <1>2, <3>1, Division
    <3>3. lost \in Int
      <4> HIDE DEF gone
      <4> QED
        BY <1>4
    <3> QED
      BY <3>1, <3>2, <3>3
  <2> HIDE DEF lost
  <2>4. Ahead(devtime, prevtime) - lost = (e % d) + l /\ e - lost = e + l
    BY <2>3
  <2> QED
    BY <2>2, <2>4 DEF e
<1>7. CASE ~goes
  <2>1. lost = 0 /\ devtime' = devtime /\ now = b
    BY <1>1, <1>2, <1>5, <1>7 DEF goes
  <2>2. (a - b) - lost = minutes(devtime') - now
    BY <1>2, <2>1
  <2> QED
    BY <1>3, <1>6, <2>2 DEF DayLength
<1>8. CASE goes
  <2>1. lost = gone - 1 /\ devtime' = PlusMinute(devtime)
    BY <1>1, <1>5, <1>8
  <2>2. (minutes(devtime') + (-now)) % d = (a + (-now) + 1) % d
    <3>1. -now \in Int
      BY <1>2
    <3> QED
      BY <1>2, <2>1, <3>1, OneMore
  <2>3. ((a - b + 1) - ((now - b) % d)) % d = ((a - b + 1) - (now - b)) % d
    <3>1. a - b + 1 \in Int /\ now - b \in Int
      BY <1>2
    <3> HIDE DEF a, b, d
    <3> QED
      BY <1>2, <3>1, Reduced
  <2>4. minutes(devtime') \in Int
    BY <1>1, TimeType
  <2> HIDE DEF a, b, d, gone, lost
  <2>5. /\ minutes(devtime') - now = minutes(devtime') + (-now)
        /\ (a - b) - lost = (a - b + 1) - gone
        /\ (a - b + 1) - (now - b) = a + (-now) + 1
    BY <1>2, <1>4, <2>1, <2>4
  <2> QED
    BY <1>3, <1>6, <2>2, <2>3, <2>5 DEF d, DayLength, lost, gone
<1> QED
  BY <1>7, <1>8

THEOREM DistanceKept == Spec => KeepsDistance
<1>1. TimeInv /\ [Next]_vars =>
        [\A c \in Chords[0] :
           mode = 0 /\ Handle(c) /\ ~sets(c, settime')
             => LET gone == Ahead(localtime(now), prevtime)
                    lost == IF gone = 0 THEN 0 ELSE gone - 1
                IN  Ahead(devtime', prevtime')
                      = (Ahead(devtime, prevtime) - lost) % (Hours * Minutes)]_vars
  BY ClockPasses, KeptDistance DEF Handle
<1> QED
  BY <1>1, TimeInductive, PTL DEF Spec, KeepsDistance
-----------------------------------------------------------------------------
(* The types: what the digits, lamps and dots of each mode can be.         *)
Four == (0..9) \X (0..9) \X (0..9) \X (0..9)

Counted(b, n, d) == d = <<d[1], n \div (b * b), (n % (b * b)) \div b, n % b>>

Picture ==
  /\ fnd \in Four /\ led \in 0..255 /\ settime \in 0..1 /\ curmode \in 0..1
  /\ dot \in (SUBSET Cells) \union {dot_mode(0), dot_mode(1)}
  /\ cur \in Cells
  /\ mode # 2 => dot \in SUBSET Cells

Numbers ==
  /\ flown \in BOOLEAN /\ shown \in BOOLEAN /\ touched \in BOOLEAN
  /\ CounterTypeOK /\ (mode = 1 => Counted(cnt_mode, cnt_n, fnd))
  /\ txt_prev \in -1..8
  /\ DrawTypeOK /\ MoleTypeOK

Ranges == Picture /\ Numbers

LEMMA DigitsType ==
  ASSUME NEW n \in Nat, n < 10000
  PROVE  digits(n) \in Four
<1>1. n \div 1000 \in 0..9
  OBVIOUS
<1>2. (n % 1000) \div 100 \in 0..9
  OBVIOUS
<1>3. (n % 100) \div 10 \in 0..9
  OBVIOUS
<1>4. n % 10 \in 0..9
  OBVIOUS
<1> QED
  BY <1>1, <1>2, <1>3, <1>4 DEF digits, Four

LEMMA TimeDigits ==
  ASSUME NEW t \in Times
  PROVE  timedigits(t) \in Four
<1>1. t[1] \in 0..99 /\ t[2] \in 0..99
  BY TimeType, ClockAssumption
<1> QED
  BY <1>1 DEF timedigits, Four

LEMMA LampType ==
  /\ \A n \in 0..(Holes - 1) : mol_lis(n) \in 0..255
  /\ \A b \in {10, 8, 4, 2} : notationled(b) \in 0..255
  /\ \A s : lamp(s) \in 0..255
<1>1. ASSUME NEW n \in 0..7 PROVE mol_lis(n) \in 0..255
  <2>1. /\ 2^0 = 1 /\ 2^1 = 2 /\ 2^2 = 4 /\ 2^3 = 8
        /\ 2^4 = 16 /\ 2^5 = 32 /\ 2^6 = 64 /\ 2^7 = 128
    OBVIOUS
  <2>2. 7 - n \in {0, 1, 2, 3, 4, 5, 6, 7}
    OBVIOUS
  <2> DEFINE k == 7 - n
  <2>3. k = 0 \/ k = 1 \/ k = 2 \/ k = 3 \/ k = 4 \/ k = 5 \/ k = 6 \/ k = 7
    BY <2>2
  <2> HIDE DEF k
  <2>4. /\ k = 0 => 2^k = 1
        /\ k = 1 => 2^k = 2
        /\ k = 2 => 2^k = 4
        /\ k = 3 => 2^k = 8
        /\ k = 4 => 2^k = 16
        /\ k = 5 => 2^k = 32
        /\ k = 6 => 2^k = 64
        /\ k = 7 => 2^k = 128
    BY ONLY <2>1, Zenon
  <2>5. 2^k \in 0..255
    BY <2>3, <2>4
  <2> QED
    BY <2>5 DEF mol_lis, k
<1>2. \A b \in {10, 8, 4, 2} : notationled(b) \in 0..255
  BY DEF notationled
<1>3. \A s : lamp(s) \in 0..255
  BY DEF lamp
<1> QED
  BY <1>1, <1>2, <1>3, MoleAssumption

(* The counts fit into four digits.                                        *)
LEMMA CountDigits ==
  /\ \A n \in 0..(CntWrap - 1) : digits(n) \in Four
  /\ \A n \in 0..(PntWrap - 1) : digits(n) \in Four
<1>1. CntWrap \in Nat /\ CntWrap <= 10000
  BY OutAssumption
<1>2. PntWrap \in Nat /\ PntWrap <= 10000
  BY MoleAssumption
<1>3. \A n \in 0..(CntWrap - 1) : n \in Nat /\ n < 10000
  BY ONLY <1>1
<1>4. \A n \in 0..(PntWrap - 1) : n \in Nat /\ n < 10000
  BY ONLY <1>2
<1> QED
  BY <1>3, <1>4, DigitsType

LEMMA CellFacts ==
  /\ <<0, 0>> \in Cells /\ {} \in SUBSET Cells
  /\ Width \in Nat /\ Width > 0 /\ Height \in Nat /\ Height > 0
BY DrawAssumption DEF Cells

LEMMA RangesInit == Init => Ranges
<1> SUFFICES ASSUME Init PROVE Ranges
  OBVIOUS
<1>1. timedigits(devtime) \in Four
  BY LocalTime, TimeDigits DEF Init
<1>2. Picture
  BY <1>1, CellFacts DEF Init, Picture
<1>3. CounterTypeOK
  BY DEF Init, CounterTypeOK
<1>4. DrawTypeOK /\ MoleTypeOK
  <2>1. 0 \in 0..(CntWrap - 1) /\ 0 \in 0..(PntWrap - 1) /\ 0 \in 0..(Holes - 1)
    BY OutAssumption, MoleAssumption
  <2> QED
    BY <2>1 DEF Init, DrawTypeOK, MoleTypeOK
<1>5. flown \in BOOLEAN /\ shown \in BOOLEAN /\ touched \in BOOLEAN
  BY DEF Init
<1>6. mode # 1 /\ txt_prev \in -1..8
  BY DEF Init
<1> QED
  BY <1>2, <1>3, <1>4, <1>5, <1>6 DEF Ranges, Numbers

LEMMA RangesTurn ==
  ASSUME Ranges, TimeInv, NEW m \in 0..4, NEW c, Turn(m, c)
  PROVE  Ranges'
<1>1. /\ mode' = m /\ settime' = 0 /\ cur' = <<0, 0>>
      /\ curmode' = IF m = 3 THEN 1 ELSE 0
      /\ fnd' = IF m = 0 THEN timedigits(localtime(now')) ELSE digits(0)
      /\ dot' = IF m = 2 THEN dot_mode(0) ELSE {}
      /\ cnt_mode' = 10 /\ cnt_n' = 0 /\ brd_cnt' = 0 /\ txt_prev' = -1 /\ mol_pnt' = 0
      /\ flown' = (flown \/ m = 0) /\ touched' = FALSE /\ shown' = FALSE
  BY DEF Turn, mode_init, resets_up, resets_down
<1>2. fnd' \in Four
  <2>1. m = 0 => now' \in Day
    BY DEF Turn
  <2> QED
    BY <1>1, <2>1, LocalTime, TimeDigits, DigitsType
<1>3. mol_n' \in 0..(Holes - 1)
  BY DEF Turn, mode_init, Ranges, Numbers, MoleTypeOK
<1>4. led' \in 0..255
  <2>1. CASE m = 4
    BY <1>3, <2>1, LampType DEF Turn, mode_init
  <2>2. CASE m # 4
    BY <2>2 DEF Turn, mode_init
  <2> QED
    BY <2>1, <2>2
<1>5. Picture'
  BY <1>1, <1>2, <1>4, CellFacts DEF Picture
<1>6. CounterTypeOK' /\ DrawTypeOK' /\ MoleTypeOK'
  BY <1>1, <1>3, OutAssumption, MoleAssumption DEF CounterTypeOK, DrawTypeOK, MoleTypeOK
<1>7. mode' = 1 => Counted(cnt_mode, cnt_n, fnd)'
  <2> SUFFICES ASSUME m = 1 PROVE Counted(10, 0, digits(0))
    BY <1>1 DEF Counted
  <2>1. digits(0) = <<0, 0, 0, 0>>
    BY DEF digits
  <2> QED
    BY <2>1 DEF Counted
<1>8. /\ flown' \in BOOLEAN /\ shown' \in BOOLEAN /\ touched' \in BOOLEAN
      /\ txt_prev' \in -1..8
  <2>1. flown' \in BOOLEAN
    BY <1>1
  <2>2. shown' \in BOOLEAN /\ touched' \in BOOLEAN
    BY <1>1
  <2>3. txt_prev' \in -1..8
    BY <1>1
  <2> QED
    BY <2>1, <2>2, <2>3
<1> QED
  BY <1>5, <1>6, <1>7, <1>8 DEF Ranges, Numbers

-----------------------------------------------------------------------------
LEMMA RangesClock ==
  ASSUME Ranges, TimeInv, NEW c, NEW flag \in BOOLEAN, ClockStep(c, flag),
         UNCHANGED <<mode, flown>>
  PROVE  Ranges'
<1>1. /\ mode = 0 /\ ClockPass(c, flag)
      /\ UNCHANGED <<mode, flown, counter, editor, brd_cnt, mole, dot, cur, curmode>>
  BY DEF ClockStep, ClockPass
<1>2. devtime' \in Times
  BY <1>1, PassTime
<1>3. fnd' \in Four
  BY <1>1, <1>2, TimeDigits DEF ClockPass, Ranges, Picture
<1>4. settime' \in 0..1 /\ led' \in 0..255
  BY <1>1, LampType DEF ClockPass, Ranges, Picture
<1>5. touched' \in BOOLEAN /\ shown' \in BOOLEAN
  BY <1>1 DEF ClockPass, Send, Ranges, Numbers
<1>6. Picture'
  BY <1>1, <1>3, <1>4 DEF Ranges, Picture
<1> QED
  BY <1>1, <1>5, <1>6 DEF Ranges, Numbers, counter, editor, mole, CounterTypeOK, DrawTypeOK,
                          MoleTypeOK

(* Every number of the counter has three digits of its notation.           *)
LEMMA NumberType ==
  ASSUME NEW b \in {10, 8, 4, 2}, NEW n \in Nat, change_n(n, b), fnd[1] \in 0..9
  PROVE  /\ cnt_n' \in 0..(b * b * b - 1) /\ fnd' \in Four /\ fnd'[1] = fnd[1]
         /\ Counted(b, cnt_n', fnd')
<1>1. ASSUME NEW k \in 0..999, b = 10
      PROVE  k \div (b * b) \in 0..9 /\ (k % (b * b)) \div b \in 0..9 /\ k % b \in 0..9
  <2>1. k \div 100 \in 0..9 /\ (k % 100) \div 10 \in 0..9 /\ k % 10 \in 0..9
    OBVIOUS
  <2> QED
    BY <1>1, <2>1
<1>2. ASSUME NEW k \in 0..511, b = 8
      PROVE  k \div (b * b) \in 0..9 /\ (k % (b * b)) \div b \in 0..9 /\ k % b \in 0..9
  <2>1. k \div 64 \in 0..9 /\ (k % 64) \div 8 \in 0..9 /\ k % 8 \in 0..9
    OBVIOUS
  <2> QED
    BY <1>2, <2>1
<1>3. ASSUME NEW k \in 0..63, b = 4
      PROVE  k \div (b * b) \in 0..9 /\ (k % (b * b)) \div b \in 0..9 /\ k % b \in 0..9
  <2>1. k \div 16 \in 0..9 /\ (k % 16) \div 4 \in 0..9 /\ k % 4 \in 0..9
    OBVIOUS
  <2> QED
    BY <1>3, <2>1
<1>4. ASSUME NEW k \in 0..7, b = 2
      PROVE  k \div (b * b) \in 0..9 /\ (k % (b * b)) \div b \in 0..9 /\ k % b \in 0..9
  <2>1. k \div 4 \in 0..9 /\ (k % 4) \div 2 \in 0..9 /\ k % 2 \in 0..9
    OBVIOUS
  <2> QED
    BY <1>4, <2>1
<1>5. cnt_n' \in 0..(b * b * b - 1)
  <2>1. b * b * b \in Nat /\ b * b * b > 0
    OBVIOUS
  <2>2. cnt_n' = n % (b * b * b)
    BY DEF change_n
  <2> DEFINE d == b * b * b
  <2> HIDE DEF d
  <2>3. n % d \in 0..(d - 1)
    BY <2>1, Division DEF d
  <2> QED
    BY <2>2, <2>3 DEF d
<1>6. /\ cnt_n' \div (b * b) \in 0..9 /\ (cnt_n' % (b * b)) \div b \in 0..9
      /\ cnt_n' % b \in 0..9
  <2>1. CASE b = 10
    <3>1. cnt_n' \in 0..999
      <4>1. b * b * b - 1 = 999
        BY ONLY <2>1
      <4>2. 0..(b * b * b - 1) = 0..999
        BY ONLY <4>1, Zenon
      <4> QED
        BY ONLY <1>5, <4>2, Zenon
    <3> QED
      BY ONLY <1>1, <2>1, <3>1, Zenon
  <2>2. CASE b = 8
    <3>1. cnt_n' \in 0..511
      BY <1>5, <2>2
    <3> QED
      BY <1>2, <2>2, <3>1
  <2>3. CASE b = 4
    <3>1. cnt_n' \in 0..63
      BY <1>5, <2>3
    <3> QED
      BY <1>3, <2>3, <3>1
  <2>4. CASE b = 2
    <3>1. cnt_n' \in 0..7
      BY <1>5, <2>4
    <3> QED
      BY <1>4, <2>4, <3>1
  <2> QED
    BY <2>1, <2>2, <2>3, <2>4
<1>7. fnd' = <<fnd[1], cnt_n' \div (b * b), (cnt_n' % (b * b)) \div b, cnt_n' % b>>
  BY DEF change_n
<1> DEFINE x == cnt_n' \div (b * b)
           y == (cnt_n' % (b * b)) \div b
           z == cnt_n' % b
<1> HIDE DEF x, y, z
<1>8. fnd' = <<fnd[1], x, y, z>> /\ x \in 0..9 /\ y \in 0..9 /\ z \in 0..9
  BY <1>6, <1>7 DEF x, y, z
<1>9. fnd' \in Four /\ fnd'[1] = fnd[1] /\ fnd' = <<fnd'[1], x, y, z>>
  BY <1>8 DEF Four
<1> QED
  BY <1>5, <1>9 DEF Counted, x, y, z

LEMMA RangesCounter ==
  ASSUME Ranges, NEW c, NEW flag \in BOOLEAN, CounterStep(c, flag), UNCHANGED <<mode, flown>>
  PROVE  Ranges'
<1>1. /\ mode = 1 /\ CounterPass(c, flag)
      /\ UNCHANGED <<mode, flown, clock, editor, brd_cnt, mole, settime, dot, cur, curmode>>
  BY DEF CounterStep, CounterPass
<1>2. /\ cnt_mode \in {10, 8, 4, 2} /\ cnt_n \in 0..(cnt_mode * cnt_mode * cnt_mode - 1)
      /\ cnt_n \in Nat /\ fnd[1] \in 0..9 /\ led \in 0..255 /\ fnd \in Four
      /\ Counted(cnt_mode, cnt_n, fnd)
  BY <1>1 DEF Ranges, Picture, Numbers, CounterTypeOK, Four
<1>3. /\ cnt_mode' \in {10, 8, 4, 2} /\ cnt_n' \in 0..(cnt_mode' * cnt_mode' * cnt_mode' - 1)
      /\ fnd' \in Four /\ led' \in 0..255 /\ Counted(cnt_mode', cnt_n', fnd')
  <2>1. CASE Notation(c)
    <3>0. cnt_mode' = notation(cnt_mode)
      BY <2>1 DEF Notation
    <3>1. cnt_mode' \in {10, 8, 4, 2} /\ led' = notationled(cnt_mode') /\ change_n(cnt_n, cnt_mode')
      <4>1. led' = notationled(cnt_mode') /\ change_n(cnt_n, cnt_mode')
        BY <2>1 DEF Notation
      <4>2. \A n \in {10, 8, 4, 2} : notation(n) \in {10, 8, 4, 2}
        BY DEF notation
      <4> QED
        BY <1>2, <3>0, <4>1, <4>2
    <3>2. led' \in 0..255
      BY <3>1, LampType
    <3>3. /\ cnt_n' \in 0..(cnt_mode' * cnt_mode' * cnt_mode' - 1)
          /\ fnd' \in Four /\ Counted(cnt_mode', cnt_n', fnd')
      BY <1>2, <3>1, NumberType, Zenon
    <3> QED
      BY ONLY <3>1, <3>2, <3>3
  <2>2. CASE Increase(c)
    <3>1. worth(c, cnt_mode) \in Nat
      BY <1>2 DEF worth
    <3>2. /\ cnt_n + worth(c, cnt_mode) \in Nat
          /\ change_n(cnt_n + worth(c, cnt_mode), cnt_mode)
          /\ UNCHANGED <<cnt_mode, led>>
      BY <1>2, <2>2, <3>1 DEF Increase
    <3>3. cnt_n' \in 0..(cnt_mode * cnt_mode * cnt_mode - 1)
          /\ fnd' \in Four /\ Counted(cnt_mode, cnt_n', fnd')
      BY <1>2, <3>2, NumberType
    <3> QED
      BY <1>2, <3>2, <3>3
  <2>3. CASE CounterIdle(c)
    BY <1>2, <2>3 DEF CounterIdle, counter
  <2> QED
    BY <1>1, <2>1, <2>2, <2>3 DEF CounterPass
<1>4. Picture'
  BY <1>1, <1>3 DEF Ranges, Picture
<1>5. shown' \in BOOLEAN
  BY <1>1 DEF CounterPass, Send, Ranges, Numbers
<1> QED
  BY <1>1, <1>3, <1>4, <1>5 DEF Ranges, Numbers, clock, editor, mole, CounterTypeOK,
                                DrawTypeOK, MoleTypeOK

LEMMA RangesText ==
  ASSUME Ranges, TextInv, NEW c \in SUBSET (0..8), NEW flag \in BOOLEAN, TextStep(c, flag),
         UNCHANGED <<mode, flown>>
  PROVE  Ranges'
<1>1. /\ mode = 2 /\ TextPass(c, flag)
      /\ UNCHANGED <<mode, flown, clock, counter, brd_cnt, mole, led, settime, cur, curmode>>
  BY DEF TextStep, TextPass
<1>2. /\ fnd' = digits(txt_cnt') /\ txt_cnt' \in 0..(CntWrap - 1)
      /\ txt_prev' \in {txt_prev, -1, Min(c)} /\ (c = {} => txt_prev' = txt_prev)
      /\ \/ txt_mode' = 1 - txt_mode /\ dot' = dot_mode(txt_mode')
         \/ UNCHANGED dot
  <2>1. TextInv'
    BY <1>1, TextPassLaid
  <2>2. /\ fnd' = digits(txt_cnt')
        /\ \/ txt_mode' = 1 - txt_mode /\ dot' = dot_mode(txt_mode')
           \/ UNCHANGED dot
    BY <1>1 DEF TextPass, Clear, Change, PutSpace, WriteDigit, WriteLetter, TextIdle, Finish
  <2>3. txt_prev' \in {txt_prev, -1, Min(c)}
    BY <1>1 DEF TextPass, Clear, Change, PutSpace, WriteDigit, WriteLetter, TextIdle
  <2>4. c = {} => txt_prev' = txt_prev
    BY <1>1 DEF TextPass, Clear, Change, PutSpace, WriteDigit, WriteLetter, TextIdle,
                clears, changes, spaces, writes
  <2> QED
    BY <2>1, <2>2, <2>3, <2>4 DEF TextInv
<1>3. txt_prev' \in -1..8
  <2>1. c # {} => Min(c) \in 0..8
    BY Lowest
  <2> QED
    BY <1>2, <2>1 DEF Ranges, Numbers
<1>4. dot' \in (SUBSET Cells) \union {dot_mode(0), dot_mode(1)}
  <2>1. 1 - txt_mode \in {0, 1}
    BY DEF TextInv
  <2> QED
    BY <1>2, <2>1 DEF Ranges, Picture
<1>5. Picture'
  BY <1>1, <1>2, <1>4, CountDigits DEF Ranges, Picture
<1>6. shown' \in BOOLEAN
  BY <1>1 DEF TextPass, Send, edits
<1> QED
  BY <1>1, <1>3, <1>5, <1>6 DEF Ranges, Numbers, clock, counter, mole, CounterTypeOK,
                                DrawTypeOK, MoleTypeOK

(* The cursor stays on the matrix, and what is painted lies on it.         *)
LEMMA RangesDraw ==
  ASSUME Ranges, NEW c, NEW flag \in BOOLEAN, DrawStep(c, flag), UNCHANGED <<mode, flown>>
  PROVE  Ranges'
<1>1. /\ mode = 3 /\ DrawPass(c, flag)
      /\ UNCHANGED <<mode, flown, clock, counter, editor, mole, led, settime>>
  BY DEF DrawStep, DrawPass
<1>2. brd_cnt' \in 0..(CntWrap - 1)
  <2>1. brd_cnt' \in {0, brd_cnt, (brd_cnt + 1) % CntWrap}
    BY <1>1 DEF DrawPass, Reset, DrawIdle
  <2>2. brd_cnt \in 0..(CntWrap - 1)
    BY DEF Ranges, Numbers, DrawTypeOK
  <2> QED
    BY <2>1, <2>2, CapNat
<1>3. cur \in Cells /\ dot \in SUBSET Cells /\ curmode \in 0..1
  BY <1>1 DEF Ranges, Picture
<1>4. \A n \in Nat : \A x \in 0..(n - 1) : back(x) \in 0..(n - 1) /\ on(x, n) \in 0..(n - 1)
  BY DEF back, on
<1>5. cur' \in Cells /\ dot' \in SUBSET Cells /\ curmode' \in 0..1
  <2>1. CASE Reset(c)
    BY <2>1, CellFacts DEF Reset
  <2>2. CASE Move(c)
    <3>1. cur[1] \in 0..(Width - 1) /\ cur[2] \in 0..(Height - 1)
      BY <1>3 DEF Cells
    <3>2. /\ back(cur[1]) \in 0..(Width - 1) /\ on(cur[1], Width) \in 0..(Width - 1)
          /\ back(cur[2]) \in 0..(Height - 1) /\ on(cur[2], Height) \in 0..(Height - 1)
      BY <1>4, <3>1, CellFacts
    <3>3. cur' \in Cells
      BY <2>2, <3>1, <3>2 DEF Move, Cells
    <3> QED
      BY <1>3, <2>2, <3>3 DEF Move
  <2>3. CASE Cursor(c)
    BY <1>3, <2>3 DEF Cursor
  <2>4. CASE Paint(c)
    BY <1>3, <2>4 DEF Paint, Flip
  <2>5. CASE DrawIdle(c)
    BY <1>3, <2>5 DEF DrawIdle
  <2> QED
    BY <1>1, <2>1, <2>2, <2>3, <2>4, <2>5 DEF DrawPass
<1>6. fnd' \in Four
  BY <1>1, <1>2, CountDigits DEF DrawPass
<1>7. Picture'
  BY <1>1, <1>5, <1>6 DEF Ranges, Picture
<1>8. shown' \in BOOLEAN
  BY <1>1 DEF DrawPass, Send
<1> QED
  BY <1>1, <1>2, <1>7, <1>8 DEF Ranges, Numbers, clock, counter, editor, mole, CounterTypeOK,
                                DrawTypeOK, MoleTypeOK

LEMMA RangesMole ==
  ASSUME Ranges, MoleShows, NEW c \in SUBSET (0..8), NEW flag \in BOOLEAN,
         MoleStep(c, flag), UNCHANGED <<mode, flown>>
  PROVE  Ranges'
<1>1. /\ mode = 4 /\ MolePass(c, flag)
      /\ UNCHANGED <<mode, flown, clock, counter, editor, brd_cnt>>
      /\ UNCHANGED <<settime, dot, cur, curmode>>
  BY DEF MoleStep, MolePass
<1>2. mol_pnt' \in 0..(PntWrap - 1) /\ fnd' = digits(mol_pnt')
  BY <1>1, MoleInv DEF MoleShows
<1>3. mol_n' \in 0..(Holes - 1) /\ led' \in 0..255
  <2>1. \/ UNCHANGED <<mol_n, led>>
        \/ mol_n' \in 0..(Holes - 1) /\ led' = mol_lis(mol_n')
    BY <1>1 DEF MolePass
  <2> QED
    BY <2>1, LampType DEF Ranges, Picture, Numbers, MoleTypeOK
<1>4. Picture'
  BY <1>1, <1>2, <1>3, CountDigits DEF Ranges, Picture
<1>5. shown' \in BOOLEAN
  <2>1. \E o \in BOOLEAN : Send(o)
    <3>1. PICK K \in catches(c, mol_n) : Send(flag \/ 8 \in c \/ K # {})
      BY <1>1 DEF MolePass
    <3> QED
      BY <3>1
  <2> QED
    BY <2>1 DEF Send
<1> QED
  BY <1>1, <1>2, <1>3, <1>4, <1>5 DEF Ranges, Numbers, clock, counter, editor, CounterTypeOK,
                                      DrawTypeOK, MoleTypeOK

LEMMA RangesStep == IInv /\ TimeInv /\ Ranges /\ [Next]_vars => Ranges'
<1> SUFFICES ASSUME IInv, TimeInv, Ranges, [Next]_vars PROVE Ranges'
  OBVIOUS
<1>1. ASSUME NEW c \in Chords[mode], NEW flag \in BOOLEAN, Pass(c, flag) PROVE Ranges'
  <2>1. c \in SUBSET (0..8) /\ TextInv /\ MoleShows /\ UNCHANGED <<mode, flown>>
    BY <1>1, ModesAssumption DEF IInv, Place, Shows, Pass
  <2> QED
    BY <1>1, <2>1, RangesClock, RangesCounter, RangesText, RangesDraw, RangesMole DEF Pass
<1>2. ASSUME UNCHANGED <<mode, flown, clock, counter, editor, brd_cnt, mole, out, shown>>
      PROVE  Ranges'
  BY <1>2 DEF Ranges, Picture, Numbers, clock, counter, editor, mole, out, CounterTypeOK,
              DrawTypeOK, MoleTypeOK, Counted
<1>3. CASE Minute
  BY <1>2, <1>3 DEF Minute
<1>4. CASE UNCHANGED vars
  BY <1>2, <1>4 DEF vars
<1>5. TRUE \in BOOLEAN /\ FALSE \in BOOLEAN
  OBVIOUS
<1> QED
  BY <1>1, <1>3, <1>4, <1>5, RangesTurn DEF Next, Work, Handle

LEMMA RangesInductive == Spec => []Ranges
BY Inductive, TimeInductive, RangesInit, RangesStep, PTL DEF Spec

(* The cursor stays on the matrix, digits are digits, lamps are lamps, and *)
(* the place of the last character and the number of the counter stay in   *)
(* range, in every mode and after every change of mode or notation.        *)
THEOREM TypeCorrect == Spec => []TypeOK
<1>1. IInv /\ TimeInv /\ Ranges => TypeOK
  <2> SUFFICES ASSUME IInv, TimeInv, Ranges PROVE TypeOK
    OBVIOUS
  <2>1. ClockTypeOK /\ TextTypeOK
    BY DEF IInv, TimeInv, TextInv, Laid, Ranges, Numbers, ClockTypeOK, TextTypeOK
  <2>2. text \in [-1..(Cap - 1) -> Chars \union {NUL}]
    BY DEF IInv, TextInv, Laid
  <2>3. mode \in 0..4 /\ (in = {} \/ \E c \in Chords[mode] : in = {c})
    BY DEF IInv, Place
  <2>4. missed \in Day
    BY DEF TimeInv
  <2> QED
    BY <2>1, <2>2, <2>3, <2>4 DEF Ranges, Picture, Numbers, TypeOK, Four
<1> QED
  BY <1>1, Inductive, TimeInductive, RangesInductive, PTL
-----------------------------------------------------------------------------
(* The counter as an odometer: a number of three digits.                   *)
Number(b, x, y, z) == x * (b * b) + y * b + z

(* The digit after d, and after the last one 0.                            *)
Up(b, d) == IF d = b - 1 THEN 0 ELSE d + 1

(* The digits after the switch of digit k was pressed.                     *)
Hundreds(k, b, x, y, z) ==
  IF k = 2 \/ (k = 3 /\ y = b - 1) \/ (k = 4 /\ z = b - 1 /\ y = b - 1)
  THEN Up(b, x) ELSE x

Tens(k, b, y, z) == IF k = 3 \/ (k = 4 /\ z = b - 1) THEN Up(b, y) ELSE y

Units(k, b, z) == IF k = 4 THEN Up(b, z) ELSE z

Worth(k, b) == IF k = 2 THEN b * b ELSE IF k = 3 THEN b ELSE 1

HasDigits(b, n, x, y, z) ==
  n \div (b * b) = x /\ (n % (b * b)) \div b = y /\ n % b = z

(* The digits of a number are the ones it is made of ...                   *)
LEMMA DigitsOf ==
  ASSUME NEW b \in {10, 8, 4, 2},
         NEW x \in 0..(b - 1), NEW y \in 0..(b - 1), NEW z \in 0..(b - 1)
  PROVE  /\ Number(b, x, y, z) \in 0..(b * b * b - 1)
         /\ HasDigits(b, Number(b, x, y, z), x, y, z)
<1>1. CASE b = 10
  <2>1. \A u, v, w \in 0..9 :
          /\ u * 100 + v * 10 + w \in 0..999
          /\ (u * 100 + v * 10 + w) \div 100 = u
          /\ ((u * 100 + v * 10 + w) % 100) \div 10 = v
          /\ (u * 100 + v * 10 + w) % 10 = w
    OBVIOUS
  <2>2. x \in 0..9 /\ y \in 0..9 /\ z \in 0..9
    BY <1>1
  <2>3. b * b = 100 /\ b * b * b - 1 = 999
    BY <1>1
  <2> QED
    BY <1>1, <2>1, <2>2, <2>3 DEF Number, HasDigits
<1>2. CASE b = 8
  <2>1. \A u, v, w \in 0..7 :
          /\ u * 64 + v * 8 + w \in 0..511
          /\ (u * 64 + v * 8 + w) \div 64 = u
          /\ ((u * 64 + v * 8 + w) % 64) \div 8 = v
          /\ (u * 64 + v * 8 + w) % 8 = w
    OBVIOUS
  <2>2. x \in 0..7 /\ y \in 0..7 /\ z \in 0..7
    BY <1>2
  <2>3. b * b = 64 /\ b * b * b - 1 = 511
    BY <1>2
  <2> QED
    BY <1>2, <2>1, <2>2, <2>3 DEF Number, HasDigits
<1>3. CASE b = 4
  <2>1. \A u, v, w \in 0..3 :
          /\ u * 16 + v * 4 + w \in 0..63
          /\ (u * 16 + v * 4 + w) \div 16 = u
          /\ ((u * 16 + v * 4 + w) % 16) \div 4 = v
          /\ (u * 16 + v * 4 + w) % 4 = w
    OBVIOUS
  <2>2. x \in 0..3 /\ y \in 0..3 /\ z \in 0..3
    BY <1>3
  <2>3. b * b = 16 /\ b * b * b - 1 = 63
    BY <1>3
  <2> QED
    BY <1>3, <2>1, <2>2, <2>3 DEF Number, HasDigits
<1>4. CASE b = 2
  <2>1. \A u, v, w \in 0..1 :
          /\ u * 4 + v * 2 + w \in 0..7
          /\ (u * 4 + v * 2 + w) \div 4 = u
          /\ ((u * 4 + v * 2 + w) % 4) \div 2 = v
          /\ (u * 4 + v * 2 + w) % 2 = w
    OBVIOUS
  <2>2. x \in 0..1 /\ y \in 0..1 /\ z \in 0..1
    BY <1>4
  <2>3. b * b = 4 /\ b * b * b - 1 = 7
    BY <1>4
  <2> QED
    BY <1>4, <2>1, <2>2, <2>3 DEF Number, HasDigits
<1> QED
  BY <1>1, <1>2, <1>3, <1>4

(* ... and a number below the fourth digit is made of its digits.          *)
LEMMA MadeOf ==
  ASSUME NEW b \in {10, 8, 4, 2}, NEW n \in 0..(b * b * b - 1)
  PROVE  /\ n \div (b * b) \in 0..(b - 1) /\ (n % (b * b)) \div b \in 0..(b - 1)
         /\ n % b \in 0..(b - 1)
         /\ n = Number(b, n \div (b * b), (n % (b * b)) \div b, n % b)
<1>1. CASE b = 10
  <2>1. \A k \in 0..999 :
          /\ k \div 100 \in 0..9 /\ (k % 100) \div 10 \in 0..9 /\ k % 10 \in 0..9
          /\ k = (k \div 100) * 100 + ((k % 100) \div 10) * 10 + (k % 10)
    OBVIOUS
  <2>2. b * b = 100 /\ b * b * b - 1 = 999 /\ b - 1 = 9
    BY <1>1
  <2> QED
    BY <1>1, <2>1, <2>2 DEF Number
<1>2. CASE b = 8
  <2>1. \A k \in 0..511 :
          /\ k \div 64 \in 0..7 /\ (k % 64) \div 8 \in 0..7 /\ k % 8 \in 0..7
          /\ k = (k \div 64) * 64 + ((k % 64) \div 8) * 8 + (k % 8)
    OBVIOUS
  <2>2. b * b = 64 /\ b * b * b - 1 = 511 /\ b - 1 = 7
    BY <1>2
  <2> QED
    BY <1>2, <2>1, <2>2 DEF Number
<1>3. CASE b = 4
  <2>1. \A k \in 0..63 :
          /\ k \div 16 \in 0..3 /\ (k % 16) \div 4 \in 0..3 /\ k % 4 \in 0..3
          /\ k = (k \div 16) * 16 + ((k % 16) \div 4) * 4 + (k % 4)
    OBVIOUS
  <2>2. b * b = 16 /\ b * b * b - 1 = 63 /\ b - 1 = 3
    BY <1>3
  <2> QED
    BY <1>3, <2>1, <2>2 DEF Number
<1>4. CASE b = 2
  <2>1. \A k \in 0..7 :
          /\ k \div 4 \in 0..1 /\ (k % 4) \div 2 \in 0..1 /\ k % 2 \in 0..1
          /\ k = (k \div 4) * 4 + ((k % 4) \div 2) * 2 + (k % 2)
    OBVIOUS
  <2>2. b * b = 4 /\ b * b * b - 1 = 7 /\ b - 1 = 1
    BY <1>4
  <2> QED
    BY <1>4, <2>1, <2>2 DEF Number
<1> QED
  BY <1>1, <1>2, <1>3, <1>4

(* What is added to a digit goes on to its left, and off the hundreds.     *)
LEMMA Carries ==
  ASSUME NEW b \in {10, 8, 4, 2},
         NEW x \in 0..(b - 1), NEW y \in 0..(b - 1), NEW z \in 0..(b - 1)
  PROVE  \A k \in {2, 3, 4} :
           (Number(b, x, y, z) + Worth(k, b)) % (b * b * b)
             = Number(b, Hundreds(k, b, x, y, z), Tens(k, b, y, z), Units(k, b, z))
<1> DEFINE M == b * b * b
           n == Number(b, x, y, z)
<1>1. M \in Nat /\ M > 0 /\ b \in Nat /\ b >= 2
  OBVIOUS
<1>2. \A u \in 0..(b - 1) : Up(b, u) \in 0..(b - 1)
  BY <1>1 DEF Up
<1>3. ASSUME NEW u \in 0..(b - 1), NEW v \in 0..(b - 1), NEW w \in 0..(b - 1), NEW k \in Int,
             k = Number(b, u, v, w) \/ k = Number(b, u, v, w) + M
      PROVE  k % M = Number(b, u, v, w)
  <2> DEFINE r == Number(b, u, v, w)
  <2>1. r \in 0..(M - 1)
    BY DigitsOf
  <2> HIDE DEF M, r
  <2>2. (M * 0 + r) % M = r /\ (M * 1 + r) % M = r
    BY <1>1, <2>1, Remainder
  <2>3. M * 0 + r = r /\ M * 1 + r = r + M
    BY <1>1, <2>1
  <2> QED
    BY <1>3, <2>2, <2>3 DEF r
<1>4. ASSUME NEW u \in 0..(b - 1), NEW v \in 0..(b - 1), NEW w \in 0..(b - 1)
      PROVE  /\ Number(b, u, v, w) \in Int
             /\ Number(b, u, v, w) + b * b
                  = IF u = b - 1 THEN Number(b, 0, v, w) + M ELSE Number(b, u + 1, v, w)
  BY <1>1 DEF Number
<1>5. ASSUME NEW u \in 0..(b - 1), NEW v \in 0..(b - 1), NEW w \in 0..(b - 1)
      PROVE  Number(b, u, v, w) + b
               = IF v = b - 1 THEN Number(b, u, 0, w) + b * b ELSE Number(b, u, v + 1, w)
  BY <1>1 DEF Number
<1>6. ASSUME NEW u \in 0..(b - 1), NEW v \in 0..(b - 1), NEW w \in 0..(b - 1)
      PROVE  Number(b, u, v, w) + 1
               = IF w = b - 1 THEN Number(b, u, v, 0) + b ELSE Number(b, u, v, w + 1)
  BY <1>1 DEF Number
<1>7. 0 \in 0..(b - 1) /\ n \in Int /\ b * b \in Int
  BY <1>1, <1>4
<1>8. ASSUME NEW v \in 0..(b - 1), NEW w \in 0..(b - 1), NEW k \in Int,
             k = Number(b, x, v, w) + b * b
      PROVE  k % M = Number(b, Up(b, x), v, w)
  BY <1>2, <1>3, <1>4, <1>8 DEF Up
<1>9. ASSUME NEW w \in 0..(b - 1), NEW k \in Int, k = Number(b, x, y, w) + b
      PROVE  k % M = Number(b, IF y = b - 1 THEN Up(b, x) ELSE x, Up(b, y), w)
  <2>1. CASE y = b - 1
    <3>1. k = Number(b, x, 0, w) + b * b
      BY <1>5, <1>9, <2>1
    <3> QED
      BY <1>7, <1>8, <2>1, <3>1 DEF Up
  <2>2. CASE y # b - 1
    <3>1. k = Number(b, x, y + 1, w) /\ y + 1 \in 0..(b - 1)
      BY <1>1, <1>5, <1>9, <2>2
    <3> QED
      BY <1>3, <2>2, <3>1 DEF Up
  <2> QED
    BY <2>1, <2>2
<1>10. (n + 1) % M =
         Number(b, IF z = b - 1 /\ y = b - 1 THEN Up(b, x) ELSE x,
                   IF z = b - 1 THEN Up(b, y) ELSE y, Up(b, z))
  <2>1. CASE z = b - 1
    <3>1. n + 1 = Number(b, x, y, 0) + b /\ n + 1 \in Int
      BY <1>6, <1>7, <2>1
    <3> QED
      BY <1>7, <1>9, <2>1, <3>1 DEF Up
  <2>2. CASE z # b - 1
    <3>1. n + 1 = Number(b, x, y, z + 1) /\ z + 1 \in 0..(b - 1) /\ n + 1 \in Int
      BY <1>1, <1>6, <1>7, <2>2
    <3> QED
      BY <1>3, <2>2, <3>1 DEF Up
  <2> QED
    BY <2>1, <2>2
<1>11. n + b * b \in Int /\ n + b \in Int
  BY <1>1, <1>7
<1>12. (n + b * b) % M = Number(b, Up(b, x), y, z)
  BY <1>8, <1>11
<1>13. (n + b) % M = Number(b, IF y = b - 1 THEN Up(b, x) ELSE x, Up(b, y), z)
  BY <1>9, <1>11
<1> HIDE DEF n, M
<1> SUFFICES ASSUME NEW k \in {2, 3, 4}
             PROVE  (n + Worth(k, b)) % M
                      = Number(b, Hundreds(k, b, x, y, z), Tens(k, b, y, z), Units(k, b, z))
  BY DEF n, M
<1>14. CASE k = 2
  BY <1>12, <1>14 DEF Worth, Hundreds, Tens, Units
<1>15. CASE k = 3
  BY <1>13, <1>15 DEF Worth, Hundreds, Tens, Units
<1>16. CASE k = 4
  BY <1>10, <1>16 DEF Worth, Hundreds, Tens, Units
<1> QED
  BY <1>14, <1>15, <1>16

(* odometer, digit by digit.                                               *)
LEMMA OdometerIs ==
  ASSUME NEW b \in {10, 8, 4, 2},
         NEW x \in 0..(b - 1), NEW y \in 0..(b - 1), NEW z \in 0..(b - 1)
  PROVE  \A k \in {2, 3, 4} : \A f :
           odometer(k, b, <<f, x, y, z>>)
             = <<f, Hundreds(k, b, x, y, z), Tens(k, b, y, z), Units(k, b, z)>>
<1> SUFFICES ASSUME NEW f
             PROVE  \A k \in {2, 3, 4} :
                      odometer(k, b, <<f, x, y, z>>)
                        = <<f, Hundreds(k, b, x, y, z), Tens(k, b, y, z), Units(k, b, z)>>
  OBVIOUS
<1> DEFINE d == <<f, x, y, z>>
           moves(k, j) == j \in 2..k /\ \A i \in (j + 1)..k : d[i] = b - 1
<1>1. d[1] = f /\ d[2] = x /\ d[3] = y /\ d[4] = z
  OBVIOUS
<1>2. \A u \in 0..(b - 1) : (u + 1) % b = Up(b, u)
  <2> SUFFICES ASSUME NEW u \in 0..(b - 1) PROVE (u + 1) % b = Up(b, u)
    OBVIOUS
  <2>1. b = 10 \/ b = 8 \/ b = 4 \/ b = 2
    OBVIOUS
  <2> QED
    BY <2>1 DEF Up
<1> HIDE DEF d
<1>3. /\ ~moves(2, 1) /\ moves(2, 2) /\ ~moves(2, 3) /\ ~moves(2, 4)
      /\ ~moves(3, 1) /\ (moves(3, 2) <=> y = b - 1) /\ moves(3, 3) /\ ~moves(3, 4)
      /\ ~moves(4, 1) /\ (moves(4, 2) <=> z = b - 1 /\ y = b - 1)
      /\ (moves(4, 3) <=> z = b - 1) /\ moves(4, 4)
  <2>1. \A i : (i \in 3..2 <=> FALSE) /\ (i \in 4..3 <=> FALSE) /\ (i \in 5..4 <=> FALSE)
               /\ (i \in 3..3 <=> i = 3) /\ (i \in 4..4 <=> i = 4)
               /\ (i \in 3..4 <=> i = 3 \/ i = 4)
    OBVIOUS
  <2>2. ~(1 \in 2..2) /\ 2 \in 2..2 /\ ~(3 \in 2..2) /\ ~(4 \in 2..2)
        /\ ~(1 \in 2..3) /\ 2 \in 2..3 /\ 3 \in 2..3 /\ ~(4 \in 2..3)
        /\ ~(1 \in 2..4) /\ 2 \in 2..4 /\ 3 \in 2..4 /\ 4 \in 2..4
        /\ 2 + 1 = 3 /\ 3 + 1 = 4 /\ 4 + 1 = 5
    OBVIOUS
  <2> QED
    BY <1>1, <2>1, <2>2
<1>4. \A k : odometer(k, b, d) = [j \in 1..4 |-> IF moves(k, j) THEN (d[j] + 1) % b ELSE d[j]]
  BY DEF odometer
<1> HIDE DEF moves
<1>5. ASSUME NEW k
      PROVE  odometer(k, b, d) =
               <<IF moves(k, 1) THEN (d[1] + 1) % b ELSE d[1],
                 IF moves(k, 2) THEN (d[2] + 1) % b ELSE d[2],
                 IF moves(k, 3) THEN (d[3] + 1) % b ELSE d[3],
                 IF moves(k, 4) THEN (d[4] + 1) % b ELSE d[4]>>
  BY <1>4
<1>6. odometer(2, b, d) = <<f, Up(b, x), y, z>>
  BY ONLY <1>1, <1>2, <1>3, <1>5, x \in 0..(b - 1)
<1>7. odometer(3, b, d) = <<f, IF y = b - 1 THEN Up(b, x) ELSE x, Up(b, y), z>>
  BY ONLY <1>1, <1>2, <1>3, <1>5, x \in 0..(b - 1), y \in 0..(b - 1)
<1>8. odometer(4, b, d)
        = <<f, IF z = b - 1 /\ y = b - 1 THEN Up(b, x) ELSE x,
               IF z = b - 1 THEN Up(b, y) ELSE y, Up(b, z)>>
  BY ONLY <1>1, <1>2, <1>3, <1>5, x \in 0..(b - 1), y \in 0..(b - 1), z \in 0..(b - 1)
<1> SUFFICES ASSUME NEW k \in {2, 3, 4}
             PROVE  odometer(k, b, d)
                      = <<f, Hundreds(k, b, x, y, z), Tens(k, b, y, z), Units(k, b, z)>>
  BY DEF d
<1>9. CASE k = 2
  BY <1>6, <1>9 DEF Hundreds, Tens, Units
<1>10. CASE k = 3
  BY <1>7, <1>10 DEF Hundreds, Tens, Units
<1>11. CASE k = 4
  BY <1>8, <1>11 DEF Hundreds, Tens, Units
<1> QED
  BY <1>9, <1>10, <1>11

LEMMA CounterPasses ==
  ASSUME NEW c, NEW flag, mode = 1, Pass(c, flag)
  PROVE  CounterStep(c, flag)
BY DEF Pass, ClockStep, TextStep, DrawStep, MoleStep

(* The digits change_n shows are those of the number it leaves.            *)
LEMMA OdometerMoves ==
  ASSUME NEW b \in {10, 8, 4, 2}, NEW n \in 0..(b * b * b - 1), Counted(b, n, fnd),
         NEW k \in {2, 3, 4}, change_n(n + Worth(k, b), b)
  PROVE  fnd' = odometer(k, b, fnd)
<1> DEFINE x == n \div (b * b)
           y == (n % (b * b)) \div b
           z == n % b
           f == fnd[1]
<1>1. /\ x \in 0..(b - 1) /\ y \in 0..(b - 1) /\ z \in 0..(b - 1)
      /\ n = Number(b, x, y, z) /\ fnd = <<f, x, y, z>>
  BY MadeOf DEF Counted
<1>2. \A u, v, w : HasDigits(b, cnt_n', u, v, w) => fnd' = <<f, u, v, w>>
  BY DEF change_n, HasDigits
<1>3. cnt_n' = (n + Worth(k, b)) % (b * b * b)
  BY DEF change_n
<1> HIDE DEF x, y, z, f
<1> DEFINE X == Hundreds(k, b, x, y, z)
           Y == Tens(k, b, y, z)
           Z == Units(k, b, z)
<1>4. X \in 0..(b - 1) /\ Y \in 0..(b - 1) /\ Z \in 0..(b - 1)
  <2>1. \A u \in 0..(b - 1) : Up(b, u) \in 0..(b - 1)
    BY DEF Up
  <2> QED
    BY <1>1, <2>1 DEF Hundreds, Tens, Units
<1>5. cnt_n' = Number(b, X, Y, Z)
  <2>1. (Number(b, x, y, z) + Worth(k, b)) % (b * b * b) = Number(b, X, Y, Z)
    BY <1>1, Carries, Zenon
  <2> QED
    BY <1>1, <1>3, <2>1, Zenon
<1>6. odometer(k, b, <<f, x, y, z>>) = <<f, X, Y, Z>>
  <2>1. \A j \in {2, 3, 4} : \A g :
          odometer(j, b, <<g, x, y, z>>)
            = <<g, Hundreds(j, b, x, y, z), Tens(j, b, y, z), Units(j, b, z)>>
    BY <1>1, OdometerIs, Zenon
  <2> QED
    BY <2>1
<1> HIDE DEF X, Y, Z
<1>7. HasDigits(b, cnt_n', X, Y, Z)
  BY <1>4, <1>5, DigitsOf
<1> QED
  BY <1>1, <1>2, <1>6, <1>7

(* Each switch of the counter moves its digit on by one, with the carries  *)
(* of an odometer in the notation that is on, and no further than the      *)
(* hundreds: the number, its remainder and the three divisions agree.      *)
THEOREM CounterIsOdometer == Spec => Odometer
<1>1. Ranges /\ [Next]_vars =>
        [\A c \in Chords[1] :
           mode = 1 /\ Handle(c) /\ 0 \notin c /\ c \intersect {1, 2, 3} # {}
             => fnd' = odometer(Min(c \intersect {1, 2, 3}) + 1, cnt_mode, fnd)]_vars
  <2> SUFFICES ASSUME Ranges, NEW c \in Chords[1], mode = 1, Handle(c), 0 \notin c,
                      c \intersect {1, 2, 3} # {}
               PROVE  fnd' = odometer(Min(c \intersect {1, 2, 3}) + 1, cnt_mode, fnd)
    OBVIOUS
  <2> DEFINE s == Min(c \intersect {1, 2, 3})
  <2>1. /\ cnt_mode \in {10, 8, 4, 2} /\ cnt_n \in 0..(cnt_mode * cnt_mode * cnt_mode - 1)
        /\ Counted(cnt_mode, cnt_n, fnd)
    BY DEF Ranges, Numbers, CounterTypeOK
  <2>2. CounterPass(c, FALSE)
    <3>1. Pass(c, FALSE)
      BY DEF Handle
    <3>2. CounterStep(c, FALSE)
      BY <3>1, CounterPasses
    <3> QED
      BY <3>2 DEF CounterStep
  <2>3. change_n(cnt_n + worth(c, cnt_mode), cnt_mode)
    <3>1. ~Notation(c) /\ ~CounterIdle(c)
      BY DEF Notation, CounterIdle
    <3> QED
      BY <2>2, <3>1 DEF CounterPass, Increase
  <2>4. s \in c \intersect {1, 2, 3} /\ \A i \in c \intersect {1, 2, 3} : s <= i
    <3>1. c \intersect {1, 2, 3} \in SUBSET (0..3) /\ 3 \in 0..8
      OBVIOUS
    <3> QED
      BY <3>1, Lowest
  <2> HIDE DEF s
  <2>5. /\ s + 1 \in {2, 3, 4}
        /\ worth(c, cnt_mode) = Worth(s + 1, cnt_mode)
    <3>1. s = 1 \/ s = 2 \/ s = 3
      BY <2>4
    <3>2. CASE s = 1
      BY <2>4, <3>2 DEF worth, Worth
    <3>3. CASE s = 2
      <4>1. 2 \in c /\ 1 \notin c
        BY <2>4, <3>3
      <4> QED
        BY <4>1, <3>3 DEF worth, Worth
    <3>4. CASE s = 3
      <4>1. 2 \notin c /\ 1 \notin c
        BY <2>4, <3>4
      <4> QED
        BY <4>1, <3>4 DEF worth, Worth
    <3> QED
      BY <3>1, <3>2, <3>3, <3>4
  <2>6. fnd' = odometer(s + 1, cnt_mode, fnd)
    BY <2>1, <2>3, <2>5, OdometerMoves
  <2> QED
    BY <2>6 DEF s
<1> QED
  BY <1>1, RangesInductive, PTL DEF Spec, Odometer
=============================================================================
