---------------------------- MODULE PuzzleProofs ----------------------------
(***************************************************************************)
(* Proofs about the board of Puzzle, for every size that is dealt: the     *)
(* moves of shuffle() and the clicks slide one tile into the gap, and what *)
(* that does to the order of the tiles.                                    *)
(***************************************************************************)
EXTENDS Puzzle, Remainders, FunctionTheorems, FiniteSetTheorems, TLAPS

(* The board from the deal on: each label on one button.                   *)
Sides == row \in 1..5 /\ col \in 1..5

Labels ==
  /\ num \in [Cells -> Cells]
  /\ \A k \in Cells : \E i \in Cells : num[i] = k
  /\ \A i, j \in Cells : num[i] = num[j] => i = j

BoardInv ==
  /\ phase \in {"size", "shuffle", "play"}
  /\ row \in Nat /\ col \in Nat
  /\ phase # "size" => Sides /\ Labels

(* Two cells next to each other, by line and place.                        *)
Beside(a, b) ==
  \/ /\ a \div col = b \div col
     /\ (a % col) + 1 = b % col \/ (b % col) + 1 = a % col
  \/ /\ a % col = b % col
     /\ (a \div col) + 1 = b \div col \/ (b \div col) + 1 = a \div col

(* The tile b slides into the gap g.                                       *)
SlideOf(g, b) ==
  /\ phase # "size" /\ g \in Cells /\ b \in Cells
  /\ num[g] = 0 /\ Beside(g, b)
  /\ num' = swap(num, g, b)
  /\ UNCHANGED <<phase, row, col>>

-----------------------------------------------------------------------------
(* Lines and places.                                                       *)
LEMMA SizeOf ==
  ASSUME NEW r \in 1..5, NEW c \in 1..5
  PROVE  r * c \in 1..25
BY SMT

LEMMA CellsOf ==
  ASSUME Sides
  PROVE  /\ row * col \in 1..25 /\ 0 \in Cells
         /\ \A i : i \in Cells <=> i \in Int /\ 0 <= i /\ i < row * col
<1>1. row * col \in 1..25
  BY DEF Sides
<1> QED
  BY <1>1 DEF Cells

LEMMA Place ==
  ASSUME Sides, NEW i \in Cells
  PROVE  /\ i \div col \in 0..(row - 1) /\ i % col \in 0..(col - 1)
         /\ i = (i \div col) * col + (i % col)
<1>1. i \in Int /\ 0 <= i /\ i < row * col /\ row \in 1..5 /\ col \in 1..5
  BY CellsOf DEF Sides
<1>2. /\ i \div col \in Int /\ i % col \in 0..(col - 1)
      /\ i = col * (i \div col) + (i % col)
  BY <1>1, Division
<1> DEFINE q == i \div col
           r == i % col
<1>3. q \in Int /\ r \in Int /\ 0 <= r /\ r < col /\ i = col * q + r
  BY <1>1, <1>2
<1> HIDE DEF q, r
<1>4. CASE col = 1
  BY <1>1, <1>3, <1>4 DEF q, r
<1>5. CASE col = 2
  BY <1>1, <1>3, <1>5 DEF q, r
<1>6. CASE col = 3
  BY <1>1, <1>3, <1>6 DEF q, r
<1>7. CASE col = 4
  BY <1>1, <1>3, <1>7 DEF q, r
<1>8. CASE col = 5
  BY <1>1, <1>3, <1>8 DEF q, r
<1> QED
  BY <1>1, <1>4, <1>5, <1>6, <1>7, <1>8

LEMMA CellAt ==
  ASSUME Sides, NEW q \in 0..(row - 1), NEW r \in 0..(col - 1)
  PROVE  /\ q * col + r \in Cells
         /\ (q * col + r) \div col = q /\ (q * col + r) % col = r
<1>1. row \in 1..5 /\ col \in 1..5 /\ q \in Int /\ r \in Int
  BY DEF Sides
<1>2. (col * q + r) % col = r /\ (col * q + r) \div col = q
  BY <1>1, Remainder
<1>3. q * col + r >= 0 /\ q * col + r < row * col /\ q * col = col * q
  BY <1>1
<1> QED
  BY <1>1, <1>2, <1>3, CellsOf

(* The cells that the four tests and the four additions of the code find.  *)
LEMMA Neighbours ==
  ASSUME Sides, NEW i \in Cells
  PROVE  /\ has_left(i)  => i - 1 \in Cells /\ Beside(i, i - 1)
         /\ has_right(i) => i + 1 \in Cells /\ Beside(i, i + 1)
         /\ has_up(i)    => i - col \in Cells /\ Beside(i, i - col)
         /\ has_down(i)  => i + col \in Cells /\ Beside(i, i + col)
<1> DEFINE q == i \div col
           r == i % col
<1>1. /\ q \in 0..(row - 1) /\ r \in 0..(col - 1) /\ i = q * col + r
      /\ row \in 1..5 /\ col \in 1..5
  BY Place DEF Sides
<1> HIDE DEF q, r
<1>2. has_left(i) => i - 1 \in Cells /\ Beside(i, i - 1)
  <2> SUFFICES ASSUME r # 0 PROVE i - 1 \in Cells /\ Beside(i, i - 1)
    BY DEF has_left, q, r
  <2>1. r - 1 \in 0..(col - 1)
    BY <1>1
  <2>2. q * col + (r - 1) = i - 1
    BY <1>1
  <2>3. i - 1 \in Cells /\ (i - 1) \div col = q /\ (i - 1) % col = r - 1
    BY ONLY Sides, <1>1, <2>1, <2>2, CellAt
  <2> QED
    BY <1>1, <2>3 DEF Beside, q, r
<1>3. has_right(i) => i + 1 \in Cells /\ Beside(i, i + 1)
  <2> SUFFICES ASSUME r # col - 1 PROVE i + 1 \in Cells /\ Beside(i, i + 1)
    BY DEF has_right, q, r
  <2>1. r + 1 \in 0..(col - 1)
    BY <1>1
  <2>2. q * col + (r + 1) = i + 1
    BY <1>1
  <2>3. i + 1 \in Cells /\ (i + 1) \div col = q /\ (i + 1) % col = r + 1
    BY ONLY Sides, <1>1, <2>1, <2>2, CellAt
  <2> QED
    BY <1>1, <2>3 DEF Beside, q, r
<1>4. has_up(i) => i - col \in Cells /\ Beside(i, i - col)
  <2> SUFFICES ASSUME q # 0 PROVE i - col \in Cells /\ Beside(i, i - col)
    BY DEF has_up, q, r
  <2>1. q - 1 \in 0..(row - 1)
    BY <1>1
  <2>2. (q - 1) * col + r = i - col
    BY <1>1
  <2>3. i - col \in Cells /\ (i - col) \div col = q - 1 /\ (i - col) % col = r
    BY ONLY Sides, <1>1, <2>1, <2>2, CellAt
  <2> QED
    BY <1>1, <2>3 DEF Beside, q, r
<1>5. has_down(i) => i + col \in Cells /\ Beside(i, i + col)
  <2> SUFFICES ASSUME q # row - 1 PROVE i + col \in Cells /\ Beside(i, i + col)
    BY DEF has_down, q, r
  <2>1. q + 1 \in 0..(row - 1)
    BY <1>1
  <2>2. (q + 1) * col + r = i + col
    BY <1>1
  <2>3. i + col \in Cells /\ (i + col) \div col = q + 1 /\ (i + col) % col = r
    BY ONLY Sides, <1>1, <2>1, <2>2, CellAt
  <2> QED
    BY <1>1, <2>3 DEF Beside, q, r
<1> QED
  BY <1>2, <1>3, <1>4, <1>5

-----------------------------------------------------------------------------
(* There is one gap.                                                       *)
LEMMA GapIs ==
  ASSUME Sides, Labels
  PROVE  /\ gap \in Cells /\ num[gap] = 0
         /\ \A g \in Cells : num[g] = 0 => g = gap
<1>1. \E g \in Cells : num[g] = 0
  BY CellsOf DEF Labels
<1>2. gap \in Cells /\ num[gap] = 0
  BY <1>1 DEF gap
<1> QED
  BY <1>2 DEF Labels

(* shuffle() moves the gap, one step and never round an edge.              *)
LEMMA ShuffleSlides ==
  ASSUME BoardInv, Shuffle
  PROVE  \E b : SlideOf(gap, b)
<1>1. /\ phase # "size" /\ Sides /\ Labels /\ gap \in Cells /\ num[gap] = 0
      /\ UNCHANGED <<phase, row, col>>
  BY GapIs DEF BoardInv, Shuffle
<1>2. \E b \in Cells : Beside(gap, b) /\ num' = swap(num, gap, b)
  BY <1>1, Neighbours DEF Shuffle
<1> QED
  BY <1>1, <1>2 DEF SlideOf

(* Of the four tests of a click one finds the gap or none does: where it   *)
(* was found the tile is the gap afterwards, which is no neighbour of its  *)
(* own place.                                                              *)
LEMMA IntoGap ==
  ASSUME Sides, Labels, NEW i \in Cells, NEW b, NEW there \in BOOLEAN,
         there => b \in Cells /\ Beside(i, b)
  PROVE  \/ into(num, i, there, b) = num /\ ~(there /\ num[b] = 0)
         \/ into(num, i, there, b) = swap(num, i, b) /\ there /\ num[b] = 0
BY DEF into

LEMMA IntoNothing ==
  ASSUME Sides, Labels, NEW i \in Cells, NEW g \in Cells, num[g] = 0, i # g,
         NEW b, NEW there \in BOOLEAN, there => b \in Cells /\ b # i
  PROVE  into(swap(num, i, g), i, there, b) = swap(num, i, g)
<1> SUFFICES ASSUME there PROVE swap(num, i, g)[b] # 0
  BY DEF into
<1>1. num \in [Cells -> Cells] /\ b \in Cells /\ b # i
  BY DEF Labels
<1>2. CASE b = g
  <2>1. swap(num, i, g)[b] = num[i]
    BY <1>1, <1>2 DEF swap
  <2> QED
    BY <2>1 DEF Labels
<1>3. CASE b # g
  <2>1. swap(num, i, g)[b] = num[b]
    BY <1>1, <1>3 DEF swap
  <2> QED
    BY <1>1, <1>3, <2>1 DEF Labels
<1> QED
  BY <1>2, <1>3

LEMMA NotBesideItself ==
  ASSUME Sides, NEW i \in Cells
  PROVE  ~Beside(i, i)
<1>1. i \div col \in Int /\ i % col \in Int
  BY Place
<1> QED
  BY <1>1 DEF Beside

LEMMA ClickSlides ==
  ASSUME BoardInv, NEW i \in Cells, Click(i)
  PROVE  /\ UNCHANGED <<phase, row, col>> /\ phase # "size"
         /\ num' = num \/ SlideOf(gap, i)
<1>1. phase = "play" /\ Sides /\ Labels /\ UNCHANGED <<phase, row, col>> /\ num' = clicked(i)
  BY DEF Click, BoardInv
<1> DEFINE N(there, b) == there => b \in Cells /\ Beside(i, b) /\ b # i
           left  == into(num, i, has_left(i), i - 1)
           right == into(left, i, has_right(i), i + 1)
           up    == into(right, i, has_up(i), i - col)
           last  == into(up, i, has_down(i), i + col)
           Slid(b) == b \in Cells /\ num[b] = 0 /\ Beside(i, b)
<1>2. /\ N(has_left(i), i - 1) /\ N(has_right(i), i + 1)
      /\ N(has_up(i), i - col) /\ N(has_down(i), i + col)
  BY <1>1, Neighbours, NotBesideItself
<1>3. /\ has_left(i) \in BOOLEAN /\ has_right(i) \in BOOLEAN
      /\ has_up(i) \in BOOLEAN /\ has_down(i) \in BOOLEAN
  BY DEF has_left, has_right, has_up, has_down
<1>4. ASSUME NEW n, NEW there \in BOOLEAN, NEW b, N(there, b),
             n = num \/ \E g : Slid(g) /\ n = swap(num, i, g)
      PROVE  \/ into(n, i, there, b) = num
             \/ \E g : Slid(g) /\ into(n, i, there, b) = swap(num, i, g)
  <2>1. CASE n = num
    BY <1>1, <1>4, <2>1, IntoGap
  <2>2. ASSUME NEW g, Slid(g), n = swap(num, i, g)
        PROVE  into(n, i, there, b) = swap(num, i, g)
    <3>1. g # i
      BY <1>1, <2>2, NotBesideItself
    <3> QED
      BY <1>1, <1>4, <2>2, <3>1, IntoNothing
  <2> QED
    BY <1>4, <2>1, <2>2
<1> HIDE DEF N, Slid
<1>5. left = num \/ \E g : Slid(g) /\ left = swap(num, i, g)
  BY <1>2, <1>3, <1>4
<1>6. right = num \/ \E g : Slid(g) /\ right = swap(num, i, g)
  BY <1>2, <1>3, <1>4, <1>5
<1>7. up = num \/ \E g : Slid(g) /\ up = swap(num, i, g)
  BY <1>2, <1>3, <1>4, <1>6
<1>8. last = num \/ \E g : Slid(g) /\ last = swap(num, i, g)
  BY <1>2, <1>3, <1>4, <1>7
<1>9. num' = last
  BY <1>1 DEF clicked
<1>10. ASSUME NEW g, Slid(g), num' = swap(num, i, g) PROVE SlideOf(gap, i)
  <2>1. g = gap /\ g \in Cells /\ num[g] = 0 /\ Beside(i, g)
    BY <1>1, <1>10, GapIs DEF Slid
  <2>2. Beside(g, i)
    BY <2>1 DEF Beside
  <2>3. swap(num, i, g) = swap(num, g, i)
    BY <1>1, <2>1 DEF swap, Labels
  <2> QED
    BY <1>1, <1>10, <2>1, <2>2, <2>3 DEF SlideOf
<1> QED
  BY <1>1, <1>8, <1>9, <1>10

-----------------------------------------------------------------------------
(* What a slide does to the labels: two of them change places.             *)
LEMMA SlideLabels ==
  ASSUME Sides, Labels, NEW g, NEW b, SlideOf(g, b)
  PROVE  /\ g = gap /\ g # b /\ Sides' /\ Cells' = Cells /\ Labels'
         /\ num' \in [Cells -> Cells] /\ num'[g] = num[b] /\ num'[b] = num[g]
         /\ \A i \in Cells : i # g /\ i # b => num'[i] = num[i]
         /\ gap' = b
<1>1. /\ g \in Cells /\ b \in Cells /\ num[g] = 0 /\ Beside(g, b)
      /\ num' = swap(num, g, b) /\ UNCHANGED <<row, col>>
  BY DEF SlideOf
<1>2. g = gap /\ g # b
  BY <1>1, GapIs, NotBesideItself
<1>3. Sides' /\ Cells' = Cells
  BY <1>1 DEF Sides, Cells
<1>4. /\ num' \in [Cells -> Cells] /\ num'[g] = num[b] /\ num'[b] = num[g]
      /\ \A i \in Cells : i # g /\ i # b => num'[i] = num[i]
  BY <1>1 DEF swap, Labels
<1>5. Labels'
  <2>1. ASSUME NEW k \in Cells PROVE \E i \in Cells : num'[i] = k
    <3>1. PICK j \in Cells : num[j] = k
      BY DEF Labels
    <3>2. num'[j] = k \/ j = g \/ j = b
      BY <1>4, <3>1
    <3> QED
      BY <1>1, <1>4, <3>1, <3>2
  <2>2. \A i, j \in Cells : num'[i] = num'[j] => i = j
    BY <1>1, <1>4 DEF Labels
  <2> QED
    BY <1>3, <1>4, <2>1, <2>2 DEF Labels
<1>6. gap' = b
  <2>1. num'[b] = 0
    BY <1>1, <1>4
  <2>2. \A j \in Cells : num'[j] = 0 => j = b
    BY <1>1, <1>3, <1>5, <2>1 DEF Labels
  <2>3. gap' = CHOOSE j \in Cells : num'[j] = 0
    BY <1>3 DEF gap
  <2> QED
    BY <1>1, <2>1, <2>2, <2>3
<1> QED
  BY <1>2, <1>3, <1>4, <1>5, <1>6

(* The deal.                                                               *)
LEMMA DealLabels ==
  ASSUME NEW s \in Nat \X Nat, Deal(s)
  PROVE  /\ Sides' /\ Labels' /\ row' * col' \in 1..25 /\ Cells' = 0..(row' * col' - 1)
         /\ \A i \in Cells' : num'[i] = IF i + 1 = row' * col' THEN 0 ELSE i + 1
         /\ gap' = row' * col' - 1
<1>1. /\ row' = s[1] /\ col' = s[2] /\ s[1] \in Nat /\ s[2] \in Nat
      /\ ~(s[1] > 5) /\ ~(s[2] > 5) /\ s[1] * s[2] # 0
      /\ num' = [i \in 0..(row' * col' - 1) |-> (i + 1) % (row' * col')]
  BY DEF Deal, refused, void
<1>2. row' \in 1..5 /\ col' \in 1..5
  <2>1. s[1] # 0 /\ s[2] # 0
    <3>1. \A m \in Nat : 0 * m = 0 /\ m * 0 = 0
      OBVIOUS
    <3>2. s[1] \in Nat /\ s[2] \in Nat /\ s[1] * s[2] # 0
      BY <1>1
    <3> QED
      BY ONLY <3>1, <3>2
  <2> QED
    BY <1>1, <2>1
<1> DEFINE N == row' * col'
<1>3. N \in 1..25 /\ Cells' = 0..(N - 1)
  <2>1. row' * col' \in 1..25
    BY <1>2, SizeOf
  <2> QED
    BY <2>1 DEF Cells
<1>4. num' = [i \in 0..(N - 1) |-> (i + 1) % N]
  BY <1>1
<1> HIDE DEF N
<1>5. ASSUME NEW i \in 0..(N - 1) PROVE (i + 1) % N = IF i + 1 = N THEN 0 ELSE i + 1
  <2>1. (i + 1) % N = IF (i % N) + 1 = N THEN 0 ELSE (i % N) + 1
    BY <1>3, OnceRound
  <2>2. i % N = i
    <3>1. (N * 0 + i) % N = i
      BY <1>3, Remainder
    <3> QED
      BY <1>3, <3>1
  <2> QED
    BY <2>1, <2>2
<1>6. \A i \in 0..(N - 1) : num'[i] = IF i + 1 = N THEN 0 ELSE i + 1
  BY <1>4, <1>5
<1>7. Labels'
  <2>1. num' \in [0..(N - 1) -> 0..(N - 1)]
    BY <1>3, <1>4, <1>5
  <2>2. ASSUME NEW k \in 0..(N - 1) PROVE \E i \in 0..(N - 1) : num'[i] = k
    <3>1. CASE k = 0
      BY <1>3, <1>6, <3>1
    <3>2. CASE k # 0
      <4>1. k - 1 \in 0..(N - 1) /\ num'[k - 1] = k
        BY <1>3, <1>6, <3>2
      <4> QED
        BY <4>1
    <3> QED
      BY <3>1, <3>2
  <2>3. \A i, j \in 0..(N - 1) : num'[i] = num'[j] => i = j
    BY <1>3, <1>6
  <2> QED
    BY <1>3, <2>1, <2>2, <2>3 DEF Labels
<1>8. gap' = N - 1
  <2>1. N - 1 \in 0..(N - 1) /\ num'[N - 1] = 0
    BY <1>3, <1>6
  <2>2. \A j \in 0..(N - 1) : num'[j] = 0 => j = N - 1
    BY <1>3, <1>6
  <2>3. gap' = CHOOSE j \in 0..(N - 1) : num'[j] = 0
    BY <1>3 DEF gap
  <2> QED
    BY <2>1, <2>2, <2>3
<1> QED
  BY <1>2, <1>3, <1>6, <1>7, <1>8 DEF N, Sides

-----------------------------------------------------------------------------
(* The board as a grid.                                                    *)
GridOf(r, c, n) == [x \in (0..(r - 1)) \X (0..(c - 1)) |-> n[x[1] * c + x[2]]]

Grid == IF phase = "size" THEN <<>>
        ELSE [x \in (0..(row - 1)) \X (0..(col - 1)) |-> num[x[1] * col + x[2]]]

LEMMA SlideImplements ==
  ASSUME BoardInv, NEW g, NEW b, SlideOf(g, b)
  PROVE  Abs!Slide
<1>1. /\ phase # "size" /\ phase' # "size" /\ Sides /\ Labels /\ UNCHANGED <<row, col>>
      /\ g \in Cells /\ b \in Cells /\ num[g] = 0 /\ Beside(g, b) /\ g # b
      /\ num' \in [Cells -> Cells] /\ num'[g] = num[b] /\ num'[b] = num[g]
      /\ \A i \in Cells : i # g /\ i # b => num'[i] = num[i]
  BY SlideLabels DEF BoardInv, SlideOf
<1> DEFINE D == (0..(row - 1)) \X (0..(col - 1))
           G == GridOf(row, col, num)
           x == <<g \div col, g % col>>
           y == <<b \div col, b % col>>
<1>2. x \in D /\ y \in D
  BY <1>1, Place
<1>3. G[x] = num[g] /\ G[y] = num[b]
  BY <1>1, <1>2, Place DEF GridOf
<1>4. ASSUME NEW z \in D
      PROVE  /\ z[1] * col + z[2] \in Cells
             /\ z # x => z[1] * col + z[2] # g
             /\ z # y => z[1] * col + z[2] # b
  <2>1. z = <<z[1], z[2]>> /\ z[1] \in 0..(row - 1) /\ z[2] \in 0..(col - 1)
    OBVIOUS
  <2>2. /\ z[1] * col + z[2] \in Cells
        /\ (z[1] * col + z[2]) \div col = z[1] /\ (z[1] * col + z[2]) % col = z[2]
    BY <1>1, <2>1, CellAt
  <2> QED
    BY <2>1, <2>2
<1>5. GridOf(row', col', num') = [G EXCEPT ![x] = G[y], ![y] = G[x]]
  <2>1. x # y
    BY <1>1, <1>2, Place
  <2>2. ASSUME NEW z \in D
        PROVE  num'[z[1] * col + z[2]] = [G EXCEPT ![x] = G[y], ![y] = G[x]][z]
    <3>1. CASE z = x
      BY <1>1, <1>2, <1>3, <2>1, <3>1, Place DEF GridOf
    <3>2. CASE z = y
      BY <1>1, <1>2, <1>3, <2>1, <3>2, Place DEF GridOf
    <3>3. CASE z # x /\ z # y
      <4>1. num'[z[1] * col + z[2]] = num[z[1] * col + z[2]]
        BY <1>1, <1>4, <3>3
      <4>2. G[z] = num[z[1] * col + z[2]]
        BY DEF GridOf
      <4> QED
        BY <3>3, <4>1, <4>2 DEF GridOf
    <3> QED
      BY <3>1, <3>2, <3>3
  <2> QED
    BY <1>1, <2>2 DEF GridOf
<1>6. Abs!Distance(x, y) = 1
  <2>1. /\ g \div col \in Int /\ g % col \in Int /\ b \div col \in Int /\ b % col \in Int
    BY <1>1, Place
  <2> QED
    BY <1>1, <2>1 DEF Abs!Distance, Beside
<1>7. DOMAIN G = D
  BY DEF GridOf
<1> DEFINE T == GridOf(row', col', num')
<1>8. /\ x \in DOMAIN G /\ y \in DOMAIN G /\ G[x] = 0 /\ Abs!Distance(x, y) = 1
      /\ T = [G EXCEPT ![x] = G[y], ![y] = G[x]]
  BY <1>1, <1>2, <1>3, <1>5, <1>6, <1>7
<1>9. Grid = G /\ Grid' = T
  BY <1>1 DEF Grid, GridOf
<1> HIDE DEF x, y, G, T
<1>10. Grid' = Abs!Exchanged(x, y)
  <2>1. Abs!Exchanged(x, y) = [Grid EXCEPT ![x] = Grid[y], ![y] = Grid[x]]
    BY ONLY Zenon DEF Abs!Exchanged, Grid
  <2> QED
    BY ONLY <1>8, <1>9, <2>1
<1>11. x \in DOMAIN Grid /\ y \in DOMAIN Grid /\ Grid[x] = 0
  BY ONLY <1>8, <1>9
<1>12. \E a, c \in DOMAIN Grid :
         /\ Grid[a] = 0 /\ Abs!Distance(a, c) = 1 /\ Grid' = Abs!Exchanged(a, c)
  BY ONLY <1>8, <1>10, <1>11
<1>13. Abs!Slide <=> \E a, c \in DOMAIN Grid :
         /\ Grid[a] = 0 /\ Abs!Distance(a, c) = 1 /\ Grid' = Abs!Exchanged(a, c)
  BY ONLY Zenon DEF Abs!Slide, Grid
<1> QED
  BY ONLY <1>12, <1>13

LEMMA DealImplements ==
  ASSUME NEW s \in Nat \X Nat, Deal(s)
  PROVE  Abs!Deal
<1>1. /\ Sides' /\ Cells' = 0..(row' * col' - 1) /\ phase' = "shuffle"
      /\ num' = [i \in 0..(row' * col' - 1) |-> (i + 1) % (row' * col')]
  BY DealLabels DEF Deal
<1> DEFINE r == row'
           c == col'
<1>2. r \in 1..5 /\ c \in 1..5
  BY <1>1 DEF Sides
<1> HIDE DEF r, c
<1>3. ASSUME NEW x \in (0..(r - 1)) \X (0..(c - 1))
      PROVE  x[1] * c + x[2] \in 0..(r * c - 1)
  <2>1. x[1] \in 0..(r - 1) /\ x[2] \in 0..(c - 1)
    OBVIOUS
  <2>2. x[1] * c \in Int /\ r * c \in Int /\ x[1] * c >= 0 /\ x[1] * c <= r * c - c
    BY <1>2, <2>1
  <2> QED
    BY <1>2, <2>1, <2>2
<1>4. Grid' = [x \in (0..(r - 1)) \X (0..(c - 1)) |-> num'[x[1] * c + x[2]]]
  BY <1>1 DEF Grid, r, c
<1>5. num' = [i \in 0..(r * c - 1) |-> (i + 1) % (r * c)]
  BY <1>1 DEF r, c
<1>6. Grid' = [x \in (0..(r - 1)) \X (0..(c - 1)) |-> (x[1] * c + x[2] + 1) % (r * c)]
  BY <1>3, <1>4, <1>5
<1>7. /\ DOMAIN Grid' = (0..(r - 1)) \X (0..(c - 1))
      /\ \A x \in DOMAIN Grid' : Grid'[x] = (x[1] * c + x[2] + 1) % (r * c)
  BY ONLY <1>6
<1>8. \E a, b \in 1..5 :
        /\ DOMAIN Grid' = (0..(a - 1)) \X (0..(b - 1))
        /\ \A x \in DOMAIN Grid' : Grid'[x] = (x[1] * b + x[2] + 1) % (a * b)
  BY <1>2, <1>7
<1> QED
  BY <1>8 DEF Abs!Deal, Abs!InOrder, Grid

-----------------------------------------------------------------------------
(* The parity of an order.  Wrong(n, f) are the pairs that the labels f of *)
(* the places below n have in the wrong order.                             *)
Pairs(n) == {p \in (0..(n - 1)) \X (0..(n - 1)) : p[1] < p[2]}
Wrong(n, f) == {p \in Pairs(n) : f[p[1]] > f[p[2]]}

(* The places a and b change; a pair goes where its places go.             *)
Other(a, b, i) == IF i = a THEN b ELSE IF i = b THEN a ELSE i
Moved(a, b, p) ==
  LET x == Other(a, b, p[1])
      y == Other(a, b, p[2])
  IN  IF x < y THEN <<x, y>> ELSE <<y, x>>

(* The pairs that are turned round by that.                                *)
Turned(n, a, b) == {p \in Pairs(n) : Other(a, b, p[1]) > Other(a, b, p[2])}

LEMMA DisjointUnion ==
  ASSUME NEW S, NEW T, IsFiniteSet(S), IsFiniteSet(T), S \cap T = {}
  PROVE  /\ IsFiniteSet(S \cup T)
         /\ Cardinality(S \cup T) = Cardinality(S) + Cardinality(T)
<1>1. Cardinality(S \cap T) = 0 /\ Cardinality(S) \in Nat /\ Cardinality(T) \in Nat
  BY FS_EmptySet, FS_CardinalityType
<1>2. /\ IsFiniteSet(S \cup T)
      /\ Cardinality(S \cup T) = Cardinality(S) + Cardinality(T) - Cardinality(S \cap T)
  BY FS_Union
<1> QED
  BY <1>1, <1>2

LEMMA PairsFinite ==
  ASSUME NEW n \in Nat
  PROVE  IsFiniteSet(Pairs(n))
<1>1. IsFiniteSet(0..(n - 1))
  BY FS_Interval
<1>2. IsFiniteSet((0..(n - 1)) \X (0..(n - 1)))
  BY <1>1, FS_Product
<1> QED
  BY <1>2, FS_Subset DEF Pairs

(* Moving is a bijection of the pairs, and its own inverse.                *)
LEMMA MovedPairs ==
  ASSUME NEW n \in Nat, NEW a \in 0..(n - 1), NEW b \in 0..(n - 1), a # b,
         NEW p \in Pairs(n)
  PROVE  /\ Moved(a, b, p) \in Pairs(n) /\ Moved(a, b, Moved(a, b, p)) = p
         /\ Moved(a, b, p) \in Turned(n, a, b) <=> p \in Turned(n, a, b)
<1>1. p = <<p[1], p[2]>> /\ p[1] \in 0..(n - 1) /\ p[2] \in 0..(n - 1) /\ p[1] < p[2]
  BY DEF Pairs
<1> DEFINE x == Other(a, b, p[1])
           y == Other(a, b, p[2])
<1>2. /\ x \in 0..(n - 1) /\ y \in 0..(n - 1) /\ x # y
      /\ Other(a, b, x) = p[1] /\ Other(a, b, y) = p[2]
  BY <1>1 DEF Other
<1> HIDE DEF x, y
<1>3. Moved(a, b, p) = IF x < y THEN <<x, y>> ELSE <<y, x>>
  BY DEF Moved, x, y
<1>4. CASE x < y
  BY <1>1, <1>2, <1>3, <1>4 DEF Pairs, Turned, Moved, x, y
<1>5. CASE y < x
  BY <1>1, <1>2, <1>3, <1>5 DEF Pairs, Turned, Moved, x, y
<1> QED
  BY <1>2, <1>4, <1>5

(* Turned round are <<a, b>> and, for each place in between, one pair with *)
(* a and one with b: an odd number.                                        *)
LEMMA TurnedOdd ==
  ASSUME NEW n \in Nat, NEW a \in 0..(n - 1), NEW b \in 0..(n - 1), a < b
  PROVE  /\ IsFiniteSet(Turned(n, a, b))
         /\ \E k \in Nat : Cardinality(Turned(n, a, b)) = 2 * k + 1
<1> DEFINE A == {p \in Pairs(n) : p[1] = a /\ p[2] < b}
           B == {p \in Pairs(n) : p[2] = b /\ p[1] > a}
<1>1. IsFiniteSet(A) /\ IsFiniteSet(B)
  BY PairsFinite, FS_Subset
<1>2. Cardinality(A) = Cardinality(B)
  <2> DEFINE F == [p \in A |-> <<p[2], b>>]
  <2>1. F \in [A -> B]
    <3> SUFFICES ASSUME NEW p \in A PROVE <<p[2], b>> \in B
      OBVIOUS
    <3>1. p[1] \in 0..(n - 1) /\ p[2] \in 0..(n - 1) /\ p[1] < p[2] /\ p[1] = a /\ p[2] < b
      BY DEF Pairs
    <3> QED
      BY <3>1 DEF Pairs
  <2>2. \A p, q \in A : F[p] = F[q] => p = q
    <3> SUFFICES ASSUME NEW p \in A, NEW q \in A, F[p] = F[q] PROVE p = q
      OBVIOUS
    <3>1. p = <<p[1], p[2]>> /\ q = <<q[1], q[2]>> /\ p[1] = a /\ q[1] = a
      BY DEF Pairs
    <3>2. p[2] = q[2]
      OBVIOUS
    <3> QED
      BY <3>1, <3>2
  <2>3. \A q \in B : \E p \in A : F[p] = q
    <3> SUFFICES ASSUME NEW q \in B PROVE \E p \in A : F[p] = q
      OBVIOUS
    <3>1. /\ q = <<q[1], q[2]>> /\ q[1] \in 0..(n - 1) /\ q[2] = b /\ q[1] > a /\ q[1] < b
      BY DEF Pairs
    <3>2. <<a, q[1]>> \in A
      BY <3>1 DEF Pairs
    <3>3. F[<<a, q[1]>>] = q
      BY <3>1, <3>2
    <3> QED
      BY <3>2, <3>3
  <2> HIDE DEF A, B, F
  <2>4. F \in Bijection(A, B)
    BY <2>1, <2>2, <2>3, Fun_IsBij
  <2> QED
    BY <1>1, <2>4, FS_Bijection, Fun_ExistsBij
<1>3. Turned(n, a, b) = (A \cup B) \cup {<<a, b>>}
  <2>1. ASSUME NEW p \in Pairs(n)
        PROVE  p \in Turned(n, a, b) <=> p \in A \/ p \in B \/ p = <<a, b>>
    <3>1. p = <<p[1], p[2]>> /\ p[1] \in 0..(n - 1) /\ p[2] \in 0..(n - 1) /\ p[1] < p[2]
      BY DEF Pairs
    <3>2. Other(a, b, p[1]) > Other(a, b, p[2])
            <=> (p[1] = a /\ p[2] < b) \/ (p[2] = b /\ p[1] > a) \/ (p[1] = a /\ p[2] = b)
      BY <3>1 DEF Other
    <3> QED
      BY <3>1, <3>2 DEF Turned
  <2>2. <<a, b>> \in Pairs(n)
    BY DEF Pairs
  <2>3. Turned(n, a, b) \subseteq Pairs(n) /\ A \subseteq Pairs(n) /\ B \subseteq Pairs(n)
    BY DEF Turned
  <2> HIDE DEF A, B
  <2> QED
    BY <2>1, <2>2, <2>3
<1>4. A \cap B = {} /\ <<a, b>> \notin A \cup B
  OBVIOUS
<1> HIDE DEF A, B
<1>5. Cardinality(A) \in Nat
  BY <1>1, FS_CardinalityType
<1>6. /\ IsFiniteSet(A \cup B) /\ Cardinality(A \cup B) = 2 * Cardinality(A)
  <2>1. A \cap B = {}
    BY <1>4
  <2>2. IsFiniteSet(A \cup B) /\ Cardinality(A \cup B) = Cardinality(A) + Cardinality(B)
    BY ONLY <1>1, <2>1, DisjointUnion
  <2> QED
    BY ONLY <1>2, <1>5, <2>2
<1>7. /\ IsFiniteSet(Turned(n, a, b)) /\ Cardinality(Turned(n, a, b)) = 2 * Cardinality(A) + 1
  BY <1>3, <1>4, <1>6, FS_AddElement
<1> QED
  BY <1>5, <1>7

(* Labels that differ; the same labels with two of them exchanged.         *)
Distinct(n, f) == f \in [0..(n - 1) -> Int] /\ \A i, j \in 0..(n - 1) : f[i] = f[j] => i = j
Exchange(n, a, b, f, h) == \A i \in 0..(n - 1) : h[i] = f[Other(a, b, i)]

(* When two labels change places the number of wrong pairs turns from even *)
(* to odd or from odd to even.                                             *)
LEMMA SwapFlips ==
  ASSUME NEW n \in Nat, NEW a \in 0..(n - 1), NEW b \in 0..(n - 1), a < b,
         NEW f, Distinct(n, f), NEW h, Exchange(n, a, b, f, h)
  PROVE  /\ Cardinality(Wrong(n, f)) \in Nat /\ Cardinality(Wrong(n, h)) \in Nat
         /\ \E k \in Int : Cardinality(Wrong(n, h)) = Cardinality(Wrong(n, f)) + (2 * k + 1)
<1> DEFINE P == Pairs(n)
           I == Wrong(n, f)
           H == Wrong(n, h)
           R == Turned(n, a, b)
           D == (I \ R) \cup (R \ I)
           F == [p \in H |-> Moved(a, b, p)]
<1>1. /\ I \subseteq P /\ H \subseteq P /\ R \subseteq P
      /\ IsFiniteSet(I) /\ IsFiniteSet(H) /\ IsFiniteSet(R)
  <2>1. I \subseteq P /\ H \subseteq P /\ R \subseteq P
    BY DEF Wrong, Turned
  <2> QED
    BY <2>1, PairsFinite, FS_Subset
<1>2. ASSUME NEW p \in P PROVE p \in H <=> Moved(a, b, p) \in D
  <2>1. p[1] \in 0..(n - 1) /\ p[2] \in 0..(n - 1) /\ p[1] < p[2]
    BY DEF Pairs
  <2> DEFINE x == Other(a, b, p[1])
             y == Other(a, b, p[2])
  <2>2. x \in 0..(n - 1) /\ y \in 0..(n - 1) /\ x # y /\ f[x] # f[y]
    <3>1. x \in 0..(n - 1) /\ y \in 0..(n - 1) /\ x # y
      BY <2>1 DEF Other
    <3> HIDE DEF x, y
    <3> QED
      BY <3>1 DEF Distinct
  <2>3. p \in H <=> f[x] > f[y]
    BY <2>1 DEF Wrong, Exchange
  <2>4. /\ Moved(a, b, p) \in P
        /\ Moved(a, b, p) \in R <=> x > y
        /\ Moved(a, b, p) = IF x < y THEN <<x, y>> ELSE <<y, x>>
    BY <1>1, MovedPairs DEF Moved, Turned
  <2> HIDE DEF x, y, R, P
  <2>5. f[x] \in Int /\ f[y] \in Int
    BY <2>2 DEF Distinct
  <2>6. CASE x < y
    BY <2>2, <2>3, <2>4, <2>5, <2>6 DEF Wrong, P
  <2>7. CASE y < x
    <3>1. Moved(a, b, p) = <<y, x>> /\ Moved(a, b, p) \in R
      BY <2>2, <2>4, <2>7
    <3>2. Moved(a, b, p) \in I <=> f[y] > f[x]
      BY <2>4, <3>1 DEF Wrong, P
    <3> QED
      BY <2>2, <2>3, <2>5, <3>1, <3>2
  <2> QED
    BY <2>2, <2>6, <2>7
<1>3. Cardinality(H) = Cardinality(D)
  <2>1. ASSUME NEW p \in P PROVE Moved(a, b, p) \in P /\ Moved(a, b, Moved(a, b, p)) = p
    <3>1. a # b
      OBVIOUS
    <3> HIDE DEF I, H, R, D, F
    <3> QED
      BY <3>1, MovedPairs
  <2>2. D \subseteq P
    BY <1>1
  <2> HIDE DEF P, H, D
  <2>3. F \in [H -> D]
    BY <1>1, <1>2 DEF H
  <2>4. \A p, q \in H : F[p] = F[q] => p = q
    BY <1>1, <2>1
  <2>5. \A q \in D : \E p \in H : F[p] = q
    <3> SUFFICES ASSUME NEW q \in D PROVE \E p \in H : F[p] = q
      OBVIOUS
    <3>1. Moved(a, b, q) \in H
      BY <1>2, <2>1, <2>2
    <3>2. F[Moved(a, b, q)] = q
      BY <2>1, <2>2, <3>1
    <3> QED
      BY <3>1, <3>2
  <2> HIDE DEF F
  <2>6. F \in Bijection(H, D)
    BY <2>3, <2>4, <2>5, Fun_IsBij
  <2> QED
    BY <1>1, <2>6, FS_Bijection, Fun_ExistsBij
<1>4. PICK k \in Nat : Cardinality(R) = 2 * k + 1
  BY TurnedOdd
<1> HIDE DEF I, H, R, D
<1>5. Cardinality(D) = Cardinality(I) + Cardinality(R) - 2 * Cardinality(I \cap R)
  <2>1. /\ IsFiniteSet(I \ R) /\ Cardinality(I \ R) = Cardinality(I) - Cardinality(I \cap R)
    BY <1>1, FS_Difference
  <2>2. /\ IsFiniteSet(R \ I) /\ Cardinality(R \ I) = Cardinality(R) - Cardinality(R \cap I)
    BY <1>1, FS_Difference
  <2>3. (I \ R) \cap (R \ I) = {} /\ R \cap I = I \cap R
    OBVIOUS
  <2>4. Cardinality((I \ R) \cup (R \ I)) = Cardinality(I \ R) + Cardinality(R \ I)
    BY ONLY <2>1, <2>2, <2>3, DisjointUnion
  <2>5. /\ Cardinality(I) \in Nat /\ Cardinality(R) \in Nat /\ IsFiniteSet(I \cap R)
        /\ Cardinality(I \cap R) \in Nat
    BY <1>1, FS_CardinalityType, FS_Intersection
  <2>6. Cardinality(R \cap I) = Cardinality(I \cap R)
    BY <2>3
  <2> QED
    BY <2>1, <2>2, <2>4, <2>5, <2>6 DEF D
<1>6. /\ Cardinality(I) \in Nat /\ Cardinality(H) \in Nat /\ Cardinality(I \cap R) \in Nat
  BY <1>1, FS_CardinalityType, FS_Intersection
<1>7. /\ k - Cardinality(I \cap R) \in Int
      /\ Cardinality(H) = Cardinality(I) + (2 * (k - Cardinality(I \cap R)) + 1)
  BY <1>3, <1>4, <1>5, <1>6
<1> QED
  BY <1>6, <1>7 DEF I, H

-----------------------------------------------------------------------------
(* A slide turns the parity of the order and that of the gap's way home.   *)
LEMMA AwayTurns ==
  ASSUME Sides, NEW g \in Cells, NEW b \in Cells, Beside(g, b)
  PROVE  LET Way(i) == (row - 1 - (i \div col)) + (col - 1 - (i % col))
         IN  Way(g) \in Int /\ (Way(b) = Way(g) + 1 \/ Way(b) = Way(g) - 1)
<1>1. /\ row \in Int /\ col \in Int /\ g \div col \in Int /\ g % col \in Int
      /\ b \div col \in Int /\ b % col \in Int
  BY Place DEF Sides
<1> QED
  BY <1>1 DEF Beside

Ranks(n) == [i \in Cells |-> IF n[i] = 0 THEN row * col ELSE n[i]]

LEMMA RanksOf ==
  ASSUME Sides, Labels
  PROVE  /\ Ranks(num) \in [Cells -> Int]
         /\ \A i, j \in Cells : Ranks(num)[i] = Ranks(num)[j] => i = j
         /\ inversions = Wrong(row * col, Ranks(num))
<1> DEFINE n == row * col
<1>1. n \in 1..25 /\ Cells = 0..(n - 1)
  BY CellsOf DEF Cells
<1> HIDE DEF n
<1>2. \A i \in Cells : Ranks(num)[i] = IF num[i] = 0 THEN n ELSE num[i]
  BY DEF Ranks, n
<1>3. \A i \in Cells : num[i] \in 0..(n - 1)
  BY <1>1 DEF Labels
<1>4. Ranks(num) \in [Cells -> Int]
  <2>1. \A i \in Cells : (IF num[i] = 0 THEN n ELSE num[i]) \in Int
    BY <1>1, <1>3
  <2> QED
    BY <2>1 DEF Ranks, n
<1>5. ASSUME NEW i \in Cells, NEW j \in Cells, Ranks(num)[i] = Ranks(num)[j]
      PROVE  i = j
  <2>1. num[i] \in 0..(n - 1) /\ num[j] \in 0..(n - 1)
    BY <1>3
  <2>2. (IF num[i] = 0 THEN n ELSE num[i]) = (IF num[j] = 0 THEN n ELSE num[j])
    BY <1>2, <1>5
  <2>3. num[i] = num[j]
    BY <1>1, <2>1, <2>2
  <2> QED
    BY <2>3 DEF Labels
<1>6. inversions = Wrong(n, Ranks(num))
  BY <1>1, <1>2 DEF inversions, rank, Wrong, Pairs, n
<1> QED
  BY <1>4, <1>5, <1>6 DEF n

LEMMA SlideParity ==
  ASSUME BoardInv, SameParity, NEW g, NEW b, SlideOf(g, b)
  PROVE  SameParity'
<1>1. /\ Sides /\ Labels /\ phase # "size" /\ UNCHANGED <<row, col>>
      /\ g \in Cells /\ b \in Cells /\ Beside(g, b)
  BY DEF BoardInv, SlideOf
<1>2. /\ g = gap /\ g # b /\ Sides' /\ Cells' = Cells /\ Labels'
      /\ num' \in [Cells -> Cells] /\ num'[g] = num[b] /\ num'[b] = num[g]
      /\ \A i \in Cells : i # g /\ i # b => num'[i] = num[i]
      /\ gap' = b
  BY <1>1, SlideLabels
<1> DEFINE n == row * col
           f == Ranks(num)
           h == Ranks(num')
<1>3. n \in Nat /\ Cells = 0..(n - 1)
  BY <1>1, CellsOf DEF Cells
<1>4. /\ f \in [Cells -> Int] /\ \A i, j \in Cells : f[i] = f[j] => i = j
      /\ inversions = Wrong(n, f)
  BY <1>1, RanksOf
<1>5. inversions' = Wrong(n, h)
  <2>1. n \in Int /\ \A i \in Cells : h[i] = IF num'[i] = 0 THEN n ELSE num'[i]
    BY <1>3 DEF Ranks
  <2>2. row' * col' = n
    BY <1>1
  <2>3. inversions' = {p \in Cells \X Cells : p[1] < p[2] /\ h[p[1]] > h[p[2]]}
    BY <1>2, <2>1, <2>2 DEF inversions, rank
  <2> QED
    BY <1>3, <2>3 DEF Wrong, Pairs
<1>6. \A i \in Cells : h[i] = f[Other(g, b, i)] /\ h[i] = f[Other(b, g, i)]
  BY <1>1, <1>2 DEF Ranks, Other
<1> HIDE DEF n, f, h
<1>7. /\ Cardinality(inversions) \in Nat /\ Cardinality(inversions') \in Nat
      /\ \E k \in Int : Cardinality(inversions') = Cardinality(inversions) + (2 * k + 1)
  <2>1. n \in Nat /\ g \in 0..(n - 1) /\ b \in 0..(n - 1)
    BY <1>1, <1>3
  <2>2. Distinct(n, f) /\ Exchange(n, g, b, f, h) /\ Exchange(n, b, g, f, h)
    BY <1>3, <1>4, <1>6 DEF Distinct, Exchange
  <2>3. CASE g < b
    BY <1>4, <1>5, <2>1, <2>2, <2>3, SwapFlips
  <2>4. CASE b < g
    BY <1>4, <1>5, <2>1, <2>2, <2>4, SwapFlips
  <2> QED
    BY <1>2, <2>1, <2>3, <2>4
<1>8. away \in Int /\ (away' = away + 1 \/ away' = away - 1)
  <2>1. away' = (row - 1 - (b \div col)) + (col - 1 - (b % col))
    BY <1>1, <1>2 DEF away
  <2>2. away = (row - 1 - (g \div col)) + (col - 1 - (g % col))
    BY <1>2 DEF away
  <2> QED
    BY <1>1, <2>1, <2>2, AwayTurns
<1>9. Cardinality(inversions) % 2 = away % 2
  BY <1>1 DEF SameParity
<1> DEFINE I == Cardinality(inversions)
           J == Cardinality(inversions')
<1>10. PICK k \in Int : J = I + (2 * k + 1)
  BY <1>7
<1>11. I \in Int /\ J \in Int /\ I % 2 = away % 2
  BY <1>7, <1>9
<1> HIDE DEF I, J
<1>12. J % 2 = away' % 2
  BY <1>8, <1>10, <1>11
<1> QED
  BY <1>12 DEF SameParity, J

LEMMA DealParity ==
  ASSUME NEW s \in Nat \X Nat, Deal(s)
  PROVE  SameParity'
<1>1. /\ Sides' /\ Labels' /\ row' * col' \in 1..25 /\ Cells' = 0..(row' * col' - 1)
      /\ \A i \in Cells' : num'[i] = IF i + 1 = row' * col' THEN 0 ELSE i + 1
      /\ gap' = row' * col' - 1
  BY DealLabels
<1>2. row' \in 1..5 /\ col' \in 1..5
  BY <1>1 DEF Sides
<1>3. inversions' = {}
  <2> DEFINE n == row' * col'
  <2>1. ASSUME NEW i \in Cells' PROVE (IF num'[i] = 0 THEN n ELSE num'[i]) = i + 1
    BY <1>1
  <2>2. inversions' = {p \in Cells' \X Cells' : p[1] < p[2] /\ p[1] + 1 > p[2] + 1}
    BY <2>1 DEF inversions, rank
  <2>3. ASSUME NEW p \in Cells' \X Cells' PROVE ~(p[1] < p[2] /\ p[1] + 1 > p[2] + 1)
    <3>1. p[1] \in Int /\ p[2] \in Int
      BY <1>1
    <3> QED
      BY <3>1
  <2> QED
    BY <2>2, <2>3
<1>4. away' = 0
  <2> DEFINE r == row'
             c == col'
  <2>1. r \in 1..5 /\ c \in 1..5
    BY <1>2
  <2> HIDE DEF r, c
  <2>2. (c * (r - 1) + (c - 1)) % c = c - 1 /\ (c * (r - 1) + (c - 1)) \div c = r - 1
    BY <2>1, Remainder
  <2>3. c * (r - 1) + (c - 1) = r * c - 1
    BY <2>1
  <2>4. away' = (r - 1 - (gap' \div c)) + (c - 1 - (gap' % c)) /\ gap' = r * c - 1
    BY <1>1 DEF away, r, c
  <2> QED
    BY <2>1, <2>2, <2>3, <2>4
<1>5. Cardinality(inversions') = 0
  BY <1>3, FS_EmptySet
<1> QED
  BY <1>4, <1>5 DEF SameParity
=============================================================================
