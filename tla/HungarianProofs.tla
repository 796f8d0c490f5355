-------------------------- MODULE HungarianProofs --------------------------
(***************************************************************************)
(* Proofs about the assignment algorithm, for every cost matrix of         *)
(* integers.                                                               *)
(*                                                                         *)
(* The invariant says what a half-grown tree is: every column on it is     *)
(* reached over pairs that cost exactly their potentials, minv is the      *)
(* distance of the columns outside, and following way leads back to the    *)
(* dummy column (each column has a rank, and way leads to lower ranks).    *)
(* Walking back along the path, one column is left out of the matching.    *)
(*                                                                         *)
(* At the end the potentials bound the cost of every assignment from       *)
(* below: adding them up (the sums of Lemmas) shows that the one found is  *)
(* cheapest.                                                               *)
(***************************************************************************)
EXTENDS Hungarian, Lemmas, SequenceTheorems

-----------------------------------------------------------------------------
(* The matrix.                                                             *)

\* A matrix that may be transposed has at least as many columns as rows.
LEMMA MatrixType ==
  ASSUME cost \in Costs
  PROVE  /\ NumRows \in Nat \ {0} /\ NumCols \in Nat \ {0} /\ NumRows <= NumCols
         /\ \A i \in 1 .. NumRows, j \in 1 .. NumCols : matrix[i][j] \in Int
<1>1. /\ cost \in Seq(Seq(Int)) /\ Len(cost) \in Nat \ {0} /\ Len(cost[1]) \in Nat \ {0}
      /\ \A i \in 1 .. Len(cost) : cost[i] \in Seq(Int) /\ Len(cost[i]) = Len(cost[1])
  <2>1. cost \in Seq(Seq(Int)) /\ Len(cost) > 0 /\ Len(cost[1]) > 0
          /\ \A i \in 1 .. Len(cost) : Len(cost[i]) = Len(cost[1])
    BY CostsAssumption
  <2>2. \A i \in 1 .. Len(cost) : cost[i] \in Seq(Int)
    BY <2>1
  <2> QED
    BY <2>1, <2>2
<1>2. \A i \in 1 .. Len(cost), j \in 1 .. Len(cost[1]) : cost[i][j] \in Int
  BY <1>1
<1>3. CASE Transposed(cost)
  <2>1. matrix = [j \in 1 .. Len(cost[1]) |-> [i \in 1 .. Len(cost) |-> cost[i][j]]]
    BY <1>1, <1>3 DEF matrix, Oriented, Rows, Columns
  <2>2. matrix \in Seq([1 .. Len(cost) -> Int]) /\ Len(matrix) = Len(cost[1])
    BY <1>1, <1>2, <2>1
  <2>3. matrix[1] \in Seq(Int) /\ Len(matrix[1]) = Len(cost)
    <3>1. matrix[1] = [i \in 1 .. Len(cost) |-> cost[i][1]]
      BY <1>1, <2>1
    <3> QED
      BY <1>1, <1>2, <3>1
  <2> QED
    BY <1>1, <1>2, <1>3, <2>1, <2>2, <2>3 DEF NumRows, NumCols, Transposed
<1>4. CASE ~ Transposed(cost)
  BY <1>1, <1>2, <1>4 DEF matrix, Oriented, NumRows, NumCols, Transposed
<1> QED
  BY <1>3, <1>4

\* The sides of the matrix are those of the costs, one way or the other.
LEMMA Orientation ==
  ASSUME cost \in Costs
  PROVE  IF Transposed(cost) THEN Rows(cost) = 1 .. NumCols /\ Columns(cost) = 1 .. NumRows
                             ELSE Rows(cost) = 1 .. NumRows /\ Columns(cost) = 1 .. NumCols
<1>1. /\ cost \in Seq(Seq(Int)) /\ Len(cost) \in Nat \ {0} /\ Len(cost[1]) \in Nat \ {0}
  <2>1. cost \in Seq(Seq(Int)) /\ Len(cost) > 0 /\ Len(cost[1]) > 0
    BY CostsAssumption
  <2>2. cost[1] \in Seq(Int)
    BY <2>1
  <2> QED
    BY <2>1, <2>2
<1>2. Rows(cost) = 1 .. Len(cost) /\ Columns(cost) = 1 .. Len(cost[1])
  BY <1>1 DEF Rows, Columns
<1>3. CASE Transposed(cost)
  <2>1. matrix = [j \in 1 .. Len(cost[1]) |-> [i \in 1 .. Len(cost) |-> cost[i][j]]]
    BY <1>2, <1>3 DEF matrix, Oriented
  <2>2. Len(matrix) = Len(cost[1])
    BY <1>1, <2>1
  <2>3. Len(matrix[1]) = Len(cost)
    <3>1. matrix[1] = [i \in 1 .. Len(cost) |-> cost[i][1]]
      BY <1>1, <2>1
    <3> QED
      BY <1>1, <3>1
  <2> QED
    BY <1>2, <1>3, <2>2, <2>3 DEF NumRows, NumCols
<1>4. CASE ~ Transposed(cost)
  BY <1>2, <1>4 DEF matrix, Oriented, NumRows, NumCols
<1> QED
  BY <1>3, <1>4

\* The matrix does not change.
LEMMA MatrixKept ==
  ASSUME cost' = cost
  PROVE  matrix' = matrix /\ NumRows' = NumRows /\ NumCols' = NumCols
  BY DEF matrix, NumRows, NumCols

-----------------------------------------------------------------------------
(* The invariant.                                                          *)

Typed ==
  /\ cost \in Costs
  /\ u \in [0 .. NumRows -> Int] /\ v \in [0 .. NumCols -> Int]
  /\ p \in [0 .. NumCols -> 0 .. NumRows] /\ way \in [0 .. NumCols -> 0 .. NumCols]
  /\ used \in SUBSET (0 .. NumCols) /\ row \in 0 .. NumRows /\ j0 \in 0 .. NumCols
  /\ pc \in {"row", "scan", "augment", "done"}

\* The columns of the matching: all but the dummy and, on the way back, the column whose row
\* its successor has taken over.
Matching ==
  CASE pc = "scan"    -> 0 .. NumCols
    [] pc = "augment" -> (0 .. NumCols) \ {j0}
    [] OTHER          -> 1 .. NumCols

\* Each row so far has one column, and a pair of the matching costs just its potentials.
Matched1to1 ==
  /\ \A j \in 0 .. NumCols : p[j] <= row
  /\ \A j, k \in Matching : p[j] = p[k] /\ p[j] # 0 => j = k
  /\ \A i \in 1 .. row : \E j \in Matching : p[j] = i
  /\ \A j \in Matching \ {0} : p[j] # 0 => Reduced(p[j], j) = 0

\* No pair costs less than its potentials, once the new row has reached a column.
Feasible ==
  \A i \in 1 .. row, j \in 1 .. NumCols :
    ~ (pc = "scan" /\ used = {} /\ i = row) => Reduced(i, j) >= 0

\* A free column has potential 0.
FreeColumns == \A j \in 1 .. NumCols : v[j] <= 0 /\ (p[j] = 0 => v[j] = 0)

\* way leads back to lower ranks over pairs that cost just their potentials.
Led(rank, k) ==
  /\ way[k] \in used
  /\ rank[way[k]] < rank[k]
  /\ Reduced(p[way[k]], k) = 0

Ranks == [0 .. NumCols -> Nat]

Tree ==
  /\ \E rank \in Ranks :
       \A k \in (used \cup {j0}) \ {0} : pc = "scan" \/ rank[k] <= rank[j0] => Led(rank, k)
  /\ \A k \in used : p[k] # 0

\* minv is the distance of the columns outside, at least 0 once there are potentials.
Distances ==
  /\ p[0] = row /\ p[j0] # 0 /\ j0 \notin used
  /\ IF used = {} THEN j0 = 0 /\ DOMAIN minv = {}
     ELSE 0 \in used /\ DOMAIN minv = (1 .. NumCols) \ used /\ minv[j0] = 0
  /\ \A j \in DOMAIN minv :
       /\ minv[j] \in Nat /\ way[j] \in used
       /\ Reduced(p[way[j]], j) = minv[j]
       /\ \A k \in used : Reduced(p[k], j) >= minv[j]

IInv ==
  /\ Typed /\ Matched1to1 /\ Feasible /\ FreeColumns
  /\ pc \in {"scan", "augment"} => Tree
  /\ pc = "scan" => Distances
  /\ pc = "augment" => j0 # 0

\* The reduced costs are integers.
LEMMA ReducedType ==
  ASSUME Typed, NEW i \in 1 .. NumRows, NEW j \in 1 .. NumCols
  PROVE  /\ matrix[i][j] \in Int /\ u[i] \in Int /\ v[j] \in Int
         /\ Reduced(i, j) \in Int /\ Reduced(i, j) = matrix[i][j] - u[i] - v[j]
<1>1. NumRows \in Nat \ {0} /\ NumCols \in Nat \ {0} /\ matrix[i][j] \in Int
  BY MatrixType DEF Typed
<1>2. i \in 0 .. NumRows /\ j \in 0 .. NumCols
  BY <1>1
<1>3. u \in [0 .. NumRows -> Int] /\ v \in [0 .. NumCols -> Int]
  BY DEF Typed
<1>4. u[i] \in Int /\ v[j] \in Int
  BY <1>2, <1>3
<1> QED
  BY <1>1, <1>4 DEF Reduced

LEMMA InitIInv == Init => IInv
<1> SUFFICES ASSUME Init PROVE IInv
  OBVIOUS
<1>1. NumRows \in Nat \ {0} /\ NumCols \in Nat \ {0}
  BY MatrixType DEF Init
<1>2. Typed
  BY <1>1 DEF Init, Typed
<1>3. Matched1to1
  BY <1>1 DEF Init, Matched1to1, Matching
<1>4. Feasible /\ FreeColumns
  BY <1>1 DEF Init, Feasible, FreeColumns
<1> QED
  BY <1>2, <1>3, <1>4 DEF IInv, Init

LEMMA NextRowIInv ==
  ASSUME IInv, NextRow
  PROVE  IInv'
<1>1. /\ NumRows \in Nat \ {0} /\ NumCols \in Nat \ {0}
      /\ matrix' = matrix /\ NumRows' = NumRows /\ NumCols' = NumCols
  BY MatrixType, MatrixKept DEF IInv, Typed, NextRow
<1>2. /\ pc = "row" /\ pc' = "scan" /\ row < NumRows /\ row' = row + 1 /\ row \in Nat
      /\ p' = [p EXCEPT ![0] = row + 1] /\ j0' = 0 /\ minv' = << >> /\ used' = {}
      /\ UNCHANGED << cost, u, v, way >>
  BY <1>1 DEF NextRow, IInv, Typed
<1>3. /\ p \in [0 .. NumCols -> 0 .. NumRows] /\ p'[0] = row + 1
      /\ \A j \in 1 .. NumCols : p'[j] = p[j]
  <2>1. p \in [0 .. NumCols -> 0 .. NumRows]
    BY DEF IInv, Typed
  <2>2. 0 \in 0 .. NumCols /\ \A j \in 1 .. NumCols : j \in 0 .. NumCols /\ j # 0
    BY <1>1
  <2> QED
    BY <1>2, <2>1, <2>2
<1>4. Typed'
  <2>1. row + 1 \in 0 .. NumRows /\ 0 \in 0 .. NumCols
    BY <1>1, <1>2
  <2>2. p' \in [0 .. NumCols -> 0 .. NumRows]
    BY <1>2, <1>3, <2>1
  <2> QED
    BY <1>1, <1>2, <2>1, <2>2 DEF IInv, Typed
<1>5. Matched1to1'
  <2>1. Matching = 1 .. NumCols /\ Matching' = 0 .. NumCols
    BY <1>1, <1>2 DEF Matching
  <2>2. \A j \in 0 .. NumCols : p[j] <= row /\ p[j] \in Nat
    BY <1>1, <1>2, <1>3 DEF IInv, Matched1to1
  <2>3. \A j \in 0 .. NumCols : j = 0 \/ j \in 1 .. NumCols
    BY <1>1
  <2>4. \A j \in 0 .. NumCols : p'[j] <= row'
    BY <1>2, <1>3, <2>2, <2>3
  <2>5. \A j, k \in 0 .. NumCols : p'[j] = p'[k] /\ p'[j] # 0 => j = k
    BY <1>2, <1>3, <2>1, <2>2, <2>3 DEF IInv, Matched1to1
  <2>6. \A i \in 1 .. row' : \E j \in 0 .. NumCols : p'[j] = i
    <3> SUFFICES ASSUME NEW i \in 1 .. row + 1
                 PROVE  \E j \in 0 .. NumCols : p'[j] = i
      BY <1>2
    <3>1. CASE i = row + 1
      BY <1>1, <1>3, <3>1
    <3>2. CASE i \in 1 .. row
      BY <1>1, <1>3, <2>1, <3>2 DEF IInv, Matched1to1
    <3> QED
      BY <1>2, <3>1, <3>2
  <2>7. \A j \in 1 .. NumCols : p'[j] # 0 => (Reduced(p[j], j))' = 0
    BY <1>1, <1>2, <1>3, <2>1 DEF IInv, Matched1to1, Reduced
  <2> QED
    BY <1>1, <2>1, <2>4, <2>5, <2>6, <2>7 DEF Matched1to1
<1>6. Feasible'
  <2> SUFFICES ASSUME NEW i \in 1 .. row + 1, NEW j \in 1 .. NumCols, i # row + 1
               PROVE  (Reduced(i, j))' >= 0
    BY <1>1, <1>2 DEF Feasible
  <2>1. i \in 1 .. row
    BY <1>2
  <2> QED
    BY <1>1, <1>2, <2>1 DEF IInv, Feasible, Reduced
<1>7. FreeColumns'
  BY <1>1, <1>2, <1>3 DEF IInv, FreeColumns
<1>8. Tree'
  <2>1. [k \in 0 .. NumCols |-> 0] \in Ranks'
    BY <1>1 DEF Ranks
  <2>2. used' = {} /\ (used' \cup {j0'}) \ {0} = {}
    BY <1>2
  <2> QED
    BY <2>1, <2>2 DEF Tree
<1>9. Distances'
  BY <1>2, <1>3 DEF Distances
<1> QED
  BY <1>2, <1>4, <1>5, <1>6, <1>7, <1>8, <1>9 DEF IInv

LEMMA AugmentIInv ==
  ASSUME IInv, Augment
  PROVE  IInv'
<1> DEFINE h == j0
           g == way[j0]
<1>1. /\ NumRows \in Nat \ {0} /\ NumCols \in Nat \ {0}
      /\ matrix' = matrix /\ NumRows' = NumRows /\ NumCols' = NumCols
  BY MatrixType, MatrixKept DEF IInv, Typed, Augment
<1>2. /\ pc = "augment" /\ p' = [p EXCEPT ![h] = p[g]] /\ j0' = g
      /\ pc' = IF g = 0 THEN "row" ELSE "augment"
      /\ UNCHANGED << cost, u, v, way, used, row >>
      /\ h # 0
  BY DEF Augment, IInv
<1>3. /\ p \in [0 .. NumCols -> 0 .. NumRows] /\ h \in 1 .. NumCols
      /\ way \in [0 .. NumCols -> 0 .. NumCols] /\ g \in 0 .. NumCols
      /\ used \in SUBSET (0 .. NumCols) /\ row \in Nat
  <2>1. /\ p \in [0 .. NumCols -> 0 .. NumRows] /\ h \in 0 .. NumCols
        /\ way \in [0 .. NumCols -> 0 .. NumCols]
        /\ used \in SUBSET (0 .. NumCols) /\ row \in 0 .. NumRows
    BY DEF IInv, Typed
  <2>2. g \in 0 .. NumCols
    BY <2>1
  <2> HIDE DEF h, g
  <2>3. h \in 1 .. NumCols /\ row \in Nat
    BY <1>1, <1>2, <2>1
  <2> QED
    BY <2>1, <2>2, <2>3
<1>4. PICK rank \in Ranks :
        \A k \in (used \cup {h}) \ {0} : rank[k] <= rank[h] => Led(rank, k)
  BY <1>2 DEF IInv, Tree
<1>5. rank \in [0 .. NumCols -> Nat] /\ rank[h] \in Nat /\ rank[g] \in Nat
  <2>1. rank \in [0 .. NumCols -> Nat]
    BY <1>4 DEF Ranks
  <2>2. h \in 0 .. NumCols /\ g \in 0 .. NumCols
    BY <1>1, <1>3
  <2> HIDE DEF h, g
  <2> QED
    BY <2>1, <2>2
<1>6. g \in used /\ rank[g] < rank[h] /\ Reduced(p[g], h) = 0 /\ g # h /\ p[g] # 0
  <2>1. Led(rank, h)
    BY <1>2, <1>3, <1>4, <1>5
  <2>2. \A k \in used : p[k] # 0
    BY <1>2 DEF IInv, Tree
  <2> HIDE DEF h, g
  <2>3. g \in used /\ rank[g] < rank[h] /\ Reduced(p[g], h) = 0
    BY <2>1 DEF Led, h, g
  <2> QED
    BY <1>5, <2>2, <2>3
<1> HIDE DEF h, g
<1>7. p'[h] = p[g] /\ \A j \in 0 .. NumCols : j # h => p'[j] = p[j]
  BY <1>2, <1>3
<1>8. Typed'
  BY <1>1, <1>2, <1>3 DEF IInv, Typed
<1>9. Matching = (0 .. NumCols) \ {h} /\ Matching' = (0 .. NumCols) \ {g}
  <2>1. Matching = (0 .. NumCols) \ {h}
    BY <1>2 DEF Matching, h
  <2>2. CASE g = 0
    <3>1. Matching' = 1 .. NumCols
      BY <1>1, <1>2, <2>2 DEF Matching
    <3>2. 1 .. NumCols = (0 .. NumCols) \ {0}
      BY <1>1
    <3> QED
      BY <2>1, <2>2, <3>1, <3>2
  <2>3. CASE g # 0
    <3>1. pc' = "augment"
      BY <1>2, <2>3
    <3> QED
      BY <1>1, <1>2, <2>1, <3>1 DEF Matching
  <2> QED
    BY <2>1, <2>2, <2>3
<1>10. Matched1to1'
  <2>1. \A j \in 0 .. NumCols : p'[j] <= row'
    BY <1>2, <1>3, <1>7 DEF IInv, Matched1to1
  <2>2. \A j, k \in Matching' : p'[j] = p'[k] /\ p'[j] # 0 => j = k
    BY <1>3, <1>6, <1>7, <1>9 DEF IInv, Matched1to1
  <2>3. \A i \in 1 .. row : \E j \in Matching' : p'[j] = i
    <3> SUFFICES ASSUME NEW i \in 1 .. row
                 PROVE  \E j \in Matching' : p'[j] = i
      OBVIOUS
    <3>1. PICK j \in Matching : p[j] = i
      BY DEF IInv, Matched1to1
    <3>2. CASE j = g
      BY <1>3, <1>6, <1>7, <1>9, <3>1, <3>2
    <3>3. CASE j # g
      BY <1>3, <1>6, <1>7, <1>9, <3>1, <3>3
    <3> QED
      BY <3>2, <3>3
  <2>4. \A j \in Matching' \ {0} : p'[j] # 0 => (Reduced(p[j], j))' = 0
    <3> SUFFICES ASSUME NEW j \in Matching' \ {0}, p'[j] # 0
                 PROVE  matrix[p'[j]][j] - u[p'[j]] - v[j] = 0
      BY <1>1, <1>2 DEF Reduced
    <3>1. CASE j = h
      BY <1>6, <1>7, <3>1 DEF Reduced
    <3>2. CASE j # h
      BY <1>7, <1>9, <3>2 DEF IInv, Matched1to1, Reduced
    <3> QED
      BY <3>1, <3>2
  <2> QED
    BY <1>1, <1>2, <2>1, <2>2, <2>3, <2>4 DEF Matched1to1
<1>11. Feasible'
  <2>1. \A i \in 1 .. row, j \in 1 .. NumCols : Reduced(i, j) >= 0
    BY <1>2 DEF IInv, Feasible
  <2> QED
    BY <1>1, <1>2, <2>1 DEF Feasible, Reduced
<1>12. FreeColumns'
  <2>1. \A j \in 1 .. NumCols : j \in 0 .. NumCols /\ v[j] <= 0 /\ (p[j] = 0 => v[j] = 0)
    BY <1>1 DEF IInv, FreeColumns
  <2>2. \A j \in 1 .. NumCols : p'[j] = 0 => v[j] = 0
    BY <1>6, <1>7, <2>1
  <2> QED
    BY <1>1, <1>2, <2>1, <2>2 DEF FreeColumns
<1>13. Tree'
  <2>1. \A k \in used' : p'[k] # 0
    BY <1>2, <1>3, <1>6, <1>7 DEF IInv, Tree
  <2>2. ASSUME NEW k \in (used \cup {g}) \ {0}, rank[k] <= rank[g]
        PROVE  Led(rank, k)'
    <3>1. k \in (used \cup {h}) \ {0} /\ k \in 0 .. NumCols /\ rank[k] \in Nat
      BY <1>3, <1>5, <1>6
    <3>2. Led(rank, k)
      BY <1>4, <1>5, <1>6, <2>2, <3>1
    <3>3. way[k] \in 0 .. NumCols /\ way[k] # h
      BY <1>3, <1>5, <1>6, <2>2, <3>1, <3>2 DEF Led
    <3> QED
      BY <1>1, <1>2, <1>7, <3>2, <3>3 DEF Led, Reduced
  <2>3. rank \in Ranks'
    BY <1>1, <1>4 DEF Ranks
  <2>4. pc' # "scan"
    BY <1>2
  <2> QED
    BY <1>2, <2>1, <2>2, <2>3, <2>4 DEF Tree
<1> QED
  BY <1>2, <1>8, <1>10, <1>11, <1>12, <1>13 DEF IInv

-----------------------------------------------------------------------------
(* A column joins the tree.                                                *)

\* What the tree and its surroundings look like before: T is the tree with j0.
Surroundings(T, O) ==
  /\ T = used \cup {j0} /\ O = Outside
  /\ T \in SUBSET (0 .. NumCols) /\ 0 \in T
  /\ used = {} => T = {0}
  /\ \A k \in T : p[k] \in 1 .. row /\ p[k] \in 1 .. NumRows
  /\ p[0] = row /\ row \in Nat
  /\ \A j \in 1 .. NumCols : j \in T \/ j \in O
  /\ O \in SUBSET (1 .. NumCols) /\ O \cap T = {}

LEMMA SurroundingsHold ==
  ASSUME IInv, pc = "scan"
  PROVE  Surroundings(used \cup {j0}, Outside)
<1> DEFINE T == used \cup {j0}
<1>1. NumRows \in Nat \ {0} /\ NumCols \in Nat \ {0}
  BY MatrixType DEF IInv, Typed
<1>2. used \in SUBSET (0 .. NumCols) /\ j0 \in 0 .. NumCols /\ row \in 0 .. NumRows
        /\ p \in [0 .. NumCols -> 0 .. NumRows]
  BY DEF IInv, Typed
<1>3. T \in SUBSET (0 .. NumCols)
  BY <1>2
<1>4. 0 \in T /\ (used = {} => T = {0}) /\ p[0] = row
  BY DEF IInv, Distances
<1>5. \A k \in T : p[k] # 0
  BY DEF IInv, Distances, Tree
<1>6. \A k \in 0 .. NumCols : p[k] <= row
  BY DEF IInv, Matched1to1
<1>7. row \in Nat
  BY <1>1, <1>2
<1> HIDE DEF T
<1>8. ASSUME NEW k \in T
      PROVE  p[k] \in 1 .. row /\ p[k] \in 1 .. NumRows
  <2>1. k \in 0 .. NumCols /\ p[k] \in 0 .. NumRows /\ p[k] # 0 /\ p[k] <= row
    BY <1>2, <1>3, <1>5, <1>6
  <2> QED
    BY <1>1, <1>7, <2>1
<1>9. Outside = (1 .. NumCols) \ T
  BY DEF Outside, T
<1> QED
  BY <1>3, <1>4, <1>7, <1>8, <1>9 DEF Surroundings, T

\* There is a column outside: the tree's columns have different rows, all but one of those
\* before the new one, and there are at least as many columns as rows.
LEMMA ColumnOutside ==
  ASSUME IInv, pc = "scan"
  PROVE  Outside # {}
<1> SUFFICES ASSUME Outside = {} PROVE FALSE
  OBVIOUS
<1>1. NumRows \in Nat \ {0} /\ NumCols \in Nat \ {0} /\ NumRows <= NumCols
  BY MatrixType DEF IInv, Typed
<1>2. PICK T : Surroundings(T, Outside)
  BY SurroundingsHold
<1>3. row \in 1 .. NumRows /\ p[0] = row
  BY <1>2 DEF Surroundings
<1>4. \A j \in 1 .. NumCols : j \in T /\ j \in 0 .. NumCols /\ j # 0 /\ 0 \in 0 .. NumCols
  BY <1>1, <1>2 DEF Surroundings
<1>5. \A j, k \in 0 .. NumCols : p[j] = p[k] /\ p[j] # 0 => j = k
  BY DEF IInv, Matched1to1, Matching
<1>6. ASSUME NEW j \in 1 .. NumCols
      PROVE  p[j] \in 1 .. row - 1
  <2>1. p[j] \in 1 .. row
    BY <1>2, <1>4 DEF Surroundings
  <2>2. p[j] # row
    BY <1>3, <1>4, <1>5
  <2> QED
    BY <1>1, <1>3, <2>1, <2>2
<1> DEFINE f == [j \in 1 .. NumCols |-> p[j]]
<1>7. f \in [1 .. NumCols -> 1 .. row - 1]
  BY <1>6
<1>8. /\ IsFiniteSet(1 .. NumCols) /\ IsFiniteSet(1 .. row - 1)
      /\ Cardinality(1 .. NumCols) = NumCols
      /\ Cardinality(1 .. row - 1) = IF 1 > row - 1 THEN 0 ELSE row - 1
  <2>1. 1 \in Int /\ NumCols \in Int /\ row - 1 \in Int /\ row - 1 - 1 + 1 = row - 1
    BY <1>1, <1>3
  <2>2. NumCols - 1 + 1 = NumCols /\ ~ (1 > NumCols)
    BY <1>1
  <2> QED
    BY <2>1, <2>2, FS_Interval
<1>9. Cardinality(1 .. row - 1) < Cardinality(1 .. NumCols)
  BY <1>1, <1>3, <1>8
<1>10. \E j, k \in 1 .. NumCols : j # k /\ f[j] = f[k]
  <2> HIDE DEF f
  <2> QED
    BY <1>7, <1>8, <1>9, FS_PigeonHole
<1>11. PICK j \in 1 .. NumCols, k \in 1 .. NumCols : j # k /\ p[j] = p[k]
  BY <1>10
<1>12. p[j] # 0
  BY <1>1, <1>3, <1>6
<1> QED
  BY <1>4, <1>5, <1>11, <1>12

\* The distance of a column outside is the least reduced cost from a row on the tree, and way
\* will name the column of such a row.
LEMMA DistanceIsLeast ==
  ASSUME IInv, pc = "scan", NEW j \in Outside
  PROVE  /\ Distance(j) \in Int
         /\ used # {} => Distance(j) >= 0
         /\ \A k \in used \cup {j0} : Distance(j) <= Reduced(p[k], j)
         /\ LET w == IF Shorter(j) THEN j0 ELSE way[j]
            IN  w \in used \cup {j0} /\ Reduced(p[w], j) = Distance(j)
<1>1. PICK T : Surroundings(T, Outside)
  BY SurroundingsHold
<1>2. j \in 1 .. NumCols /\ T = used \cup {j0} /\ Typed
  BY <1>1 DEF Surroundings, IInv
<1>3. \A k \in used \cup {j0} : p[k] \in 1 .. row /\ Reduced(p[k], j) \in Int
  BY <1>1, <1>2, ReducedType DEF Surroundings
<1>4. used # {} => Reduced(p[j0], j) >= 0
  BY <1>2, <1>3 DEF IInv, Feasible
<1>5. j \in DOMAIN minv => /\ minv[j] \in Nat /\ way[j] \in used
                           /\ Reduced(p[way[j]], j) = minv[j]
                           /\ \A k \in used : Reduced(p[k], j) >= minv[j]
  BY DEF IInv, Distances
<1>6. j \notin DOMAIN minv => used = {}
  BY <1>2 DEF IInv, Distances, Outside
<1>7. CASE Shorter(j)
  <2>1. Distance(j) = Reduced(p[j0], j)
    BY <1>7 DEF Distance
  <2>2. j \notin DOMAIN minv \/ Reduced(p[j0], j) < minv[j]
    BY <1>7 DEF Shorter
  <2>3. \A k \in used : Reduced(p[j0], j) <= Reduced(p[k], j)
    <3> SUFFICES ASSUME NEW k \in used
                 PROVE  Reduced(p[j0], j) <= Reduced(p[k], j)
      OBVIOUS
    <3>1. /\ minv[j] \in Int /\ Reduced(p[j0], j) < minv[j] /\ minv[j] <= Reduced(p[k], j)
          /\ Reduced(p[j0], j) \in Int /\ Reduced(p[k], j) \in Int
      BY <1>3, <1>5, <1>6, <2>2
    <3> QED
      BY <3>1
  <2> QED
    BY <1>3, <1>4, <1>7, <2>1, <2>3
<1>8. CASE ~ Shorter(j)
  <2>1. Distance(j) = minv[j]
    BY <1>8 DEF Distance
  <2>2. j \in DOMAIN minv /\ ~ (Reduced(p[j0], j) < minv[j])
    BY <1>8 DEF Shorter
  <2>3. minv[j] <= Reduced(p[j0], j)
    BY <1>3, <1>5, <2>2
  <2> QED
    BY <1>5, <1>8, <2>1, <2>2, <2>3
<1> QED
  BY <1>7, <1>8

\* delta is the least of the distances, and Nearest has it.
LEMMA NearestIsLeast ==
  ASSUME IInv, pc = "scan"
  PROVE  /\ Nearest \in Outside /\ Distance(Nearest) = delta /\ delta \in Int
         /\ \A j \in Outside : delta <= Distance(j)
<1>1. NumCols \in Nat
  BY MatrixType DEF IInv, Typed
<1>2. Outside \in SUBSET (1 .. NumCols) /\ Outside # {}
  BY ColumnOutside DEF Outside
<1> DEFINE D == [j \in Outside |-> Distance(j)]
           S == {Distance(j) : j \in Outside}
<1>3. \A j \in Outside : D[j] = Distance(j) /\ Distance(j) \in Int
  BY DistanceIsLeast
<1>4. PICK n \in Outside : \A j \in Outside : D[n] <= D[j]
  <2>1. \A j \in Outside : D[j] \in Int
    BY <1>3
  <2> HIDE DEF D
  <2> QED
    BY <1>1, <1>2, <2>1, LeastColumn
<1>5. \E x \in S : \A y \in S : x <= y
  BY <1>3, <1>4
<1>6. delta \in S /\ \A y \in S : delta <= y
  <2> HIDE DEF S
  <2>1. Min(S) \in S /\ \A y \in S : Min(S) <= y
    BY <1>5 DEF Min
  <2> QED
    BY <2>1 DEF delta, S
<1>7. delta \in Int /\ \A j \in Outside : delta <= Distance(j)
  BY <1>3, <1>6
<1> DEFINE N == {j \in Outside : Distance(j) = delta}
<1>8. N \in SUBSET Nat /\ N # {}
  BY <1>1, <1>2, <1>6
<1>9. Nearest \in N
  <2> HIDE DEF N
  <2>1. Min(N) \in N
    BY <1>8, LeastNat DEF Min
  <2> QED
    BY <2>1 DEF Nearest, N
<1> QED
  BY <1>7, <1>9

\* What a step does to the reduced costs: those between the tree and the columns outside fall
\* by delta, those of other rows to columns on the tree rise by it.
LEMMA ReducedStep ==
  ASSUME IInv, Scan, NEW i \in 1 .. NumRows, NEW j \in 1 .. NumCols
  PROVE  (Reduced(i, j))' =
           Reduced(i, j) - (IF i \in UsedRows THEN delta ELSE 0)
                         + (IF j \in used \cup {j0} THEN delta ELSE 0)
<1>1. pc = "scan" /\ cost' = cost
  BY DEF Scan
<1>2. matrix' = matrix /\ NumRows \in Nat \ {0} /\ NumCols \in Nat \ {0}
  BY <1>1, MatrixKept, MatrixType DEF IInv, Typed
<1>3. delta \in Int
  BY <1>1, NearestIsLeast
<1>4. i \in 0 .. NumRows /\ j \in 0 .. NumCols
  BY <1>2
<1>5. /\ u'[i] = IF i \in UsedRows THEN u[i] + delta ELSE u[i]
      /\ v'[j] = IF j \in used \cup {j0} THEN v[j] - delta ELSE v[j]
  BY <1>4 DEF Scan
<1>6. (Reduced(i, j))' = matrix[i][j] - u'[i] - v'[j]
  BY <1>2 DEF Reduced
<1>7. /\ matrix[i][j] \in Int /\ u[i] \in Int /\ v[j] \in Int
      /\ Reduced(i, j) = matrix[i][j] - u[i] - v[j]
  BY ReducedType DEF IInv
<1> HIDE DEF delta, UsedRows
<1> QED
  BY <1>3, <1>5, <1>6, <1>7

\* Within a run of Scan: T is the tree with j0, O what is outside of it and N the column
\* that the tree reaches next.
ScanFacts(T, O, N) ==
  /\ Surroundings(T, O)
  /\ N \in O /\ delta \in Int /\ Distance(N) = delta
  /\ used # {} => delta >= 0
  /\ UsedRows = {p[k] : k \in T}
  /\ \A k \in T, j \in O : Reduced(p[k], j) \in Int /\ Distance(j) <= Reduced(p[k], j)
  /\ \A j \in O : /\ Distance(j) \in Int /\ delta <= Distance(j)
                  /\ way'[j] \in T /\ Reduced(p[way'[j]], j) = Distance(j)
  /\ \A j \in 0 .. NumCols : j \notin O => way'[j] = way[j]
  /\ way' \in [0 .. NumCols -> 0 .. NumCols]
  /\ pc = "scan" /\ used' = T /\ j0' = N /\ minv' = [j \in O |-> Distance(j) - delta]
  /\ pc' = IF p[N] = 0 THEN "augment" ELSE "scan"
  /\ UNCHANGED << cost, p, row >>
  /\ matrix' = matrix /\ NumRows' = NumRows /\ NumCols' = NumCols
  /\ NumRows \in Nat \ {0} /\ NumCols \in Nat \ {0}
  /\ p \in [0 .. NumCols -> 0 .. NumRows] /\ way \in [0 .. NumCols -> 0 .. NumCols]

LEMMA ScanFactsHold ==
  ASSUME IInv, Scan
  PROVE  ScanFacts(used \cup {j0}, Outside, Nearest)
<1> DEFINE T == used \cup {j0}
<1>1. /\ pc = "scan" /\ used' = T /\ j0' = Nearest
      /\ minv' = [j \in Outside |-> Distance(j) - delta]
      /\ pc' = IF p[Nearest] = 0 THEN "augment" ELSE "scan"
      /\ UNCHANGED << cost, p, row >>
      /\ way' = [j \in 0 .. NumCols |-> IF j \in Outside /\ Shorter(j) THEN j0 ELSE way[j]]
  BY DEF Scan
<1>2. /\ NumRows \in Nat \ {0} /\ NumCols \in Nat \ {0}
      /\ matrix' = matrix /\ NumRows' = NumRows /\ NumCols' = NumCols
  BY <1>1, MatrixType, MatrixKept DEF IInv, Typed
<1>3. /\ p \in [0 .. NumCols -> 0 .. NumRows] /\ way \in [0 .. NumCols -> 0 .. NumCols]
      /\ j0 \in 0 .. NumCols
  BY DEF IInv, Typed
<1>4. Surroundings(T, Outside)
  BY <1>1, SurroundingsHold
<1>5. /\ Nearest \in Outside /\ Distance(Nearest) = delta /\ delta \in Int
      /\ \A j \in Outside : delta <= Distance(j)
  BY <1>1, NearestIsLeast
<1>6. used # {} => delta >= 0
  BY <1>1, <1>5, DistanceIsLeast
<1>7. UsedRows = {p[k] : k \in T}
  BY DEF UsedRows
<1>8. Outside \in SUBSET (1 .. NumCols) /\ \A j \in 1 .. NumCols : j \in 0 .. NumCols
  BY <1>2, <1>4 DEF Surroundings
<1>9. \A k \in T, j \in Outside : Reduced(p[k], j) \in Int /\ Distance(j) <= Reduced(p[k], j)
  <2> SUFFICES ASSUME NEW k \in T, NEW j \in Outside
               PROVE  Reduced(p[k], j) \in Int /\ Distance(j) <= Reduced(p[k], j)
    OBVIOUS
  <2>1. p[k] \in 1 .. NumRows /\ j \in 1 .. NumCols
    BY <1>4 DEF Surroundings
  <2> QED
    BY <1>1, <2>1, DistanceIsLeast, ReducedType DEF IInv
<1>10. \A j \in Outside : /\ Distance(j) \in Int
                          /\ way'[j] \in T /\ Reduced(p[way'[j]], j) = Distance(j)
  <2> SUFFICES ASSUME NEW j \in Outside
               PROVE  /\ Distance(j) \in Int
                      /\ way'[j] \in T /\ Reduced(p[way'[j]], j) = Distance(j)
    OBVIOUS
  <2>1. way'[j] = IF Shorter(j) THEN j0 ELSE way[j]
    BY <1>1, <1>8
  <2> QED
    BY <1>1, <2>1, DistanceIsLeast
<1>11. \A j \in 0 .. NumCols : j \notin Outside => way'[j] = way[j]
  BY <1>1
<1>12. way' \in [0 .. NumCols -> 0 .. NumCols]
  BY <1>1, <1>3
<1> QED
  BY <1>1, <1>2, <1>3, <1>4, <1>5, <1>6, <1>7, <1>9, <1>10, <1>11, <1>12 DEF ScanFacts

\* The reduced costs after a step.
After(i, j) == matrix[i][j] - u'[i] - v'[j]

LEMMA ScanIInv ==
  ASSUME IInv, Scan
  PROVE  IInv'
<1>1. PICK T, O, N : ScanFacts(T, O, N)
  BY ScanFactsHold
<1>2. /\ T = used \cup {j0} /\ T \in SUBSET (0 .. NumCols) /\ 0 \in T
      /\ used = {} => T = {0}
      /\ \A k \in T : p[k] \in 1 .. row /\ p[k] \in 1 .. NumRows
      /\ p[0] = row /\ row \in Nat
      /\ \A j \in 1 .. NumCols : j \in T \/ j \in O
      /\ O \in SUBSET (1 .. NumCols) /\ O \cap T = {}
  BY <1>1 DEF ScanFacts, Surroundings
<1>3. /\ N \in O /\ delta \in Int /\ Distance(N) = delta
      /\ used # {} => delta >= 0
      /\ UsedRows = {p[k] : k \in T}
  BY <1>1 DEF ScanFacts
<1>4. /\ \A k \in T, j \in O : Reduced(p[k], j) \in Int /\ Distance(j) <= Reduced(p[k], j)
      /\ \A j \in O : /\ Distance(j) \in Int /\ delta <= Distance(j)
                      /\ way'[j] \in T /\ Reduced(p[way'[j]], j) = Distance(j)
      /\ \A j \in 0 .. NumCols : j \notin O => way'[j] = way[j]
  BY <1>1 DEF ScanFacts
<1>5. /\ pc = "scan" /\ used' = T /\ j0' = N /\ minv' = [j \in O |-> Distance(j) - delta]
      /\ pc' = IF p[N] = 0 THEN "augment" ELSE "scan"
      /\ UNCHANGED << cost, p, row >> /\ matrix' = matrix
  BY <1>1 DEF ScanFacts
<1>6. /\ NumRows' = NumRows /\ NumCols' = NumCols
      /\ NumRows \in Nat \ {0} /\ NumCols \in Nat \ {0}
      /\ p \in [0 .. NumCols -> 0 .. NumRows] /\ way' \in [0 .. NumCols -> 0 .. NumCols]
  BY <1>1 DEF ScanFacts
<1>7. ASSUME NEW i \in 1 .. NumRows, NEW j \in 1 .. NumCols
      PROVE  /\ Reduced(i, j) \in Int /\ After(i, j) \in Int
             /\ i \in UsedRows /\ j \in T => After(i, j) = Reduced(i, j)
             /\ i \in UsedRows /\ j \notin T => After(i, j) = Reduced(i, j) - delta
             /\ i \notin UsedRows /\ j \in T => After(i, j) = Reduced(i, j) + delta
             /\ i \notin UsedRows /\ j \notin T => After(i, j) = Reduced(i, j)
  <2>1. Reduced(i, j) \in Int
    BY ReducedType DEF IInv
  <2>2. (Reduced(i, j))' = Reduced(i, j) - (IF i \in UsedRows THEN delta ELSE 0)
                                         + (IF j \in T THEN delta ELSE 0)
    BY <1>2, ReducedStep
  <2>3. (Reduced(i, j))' = After(i, j)
    BY <1>5 DEF Reduced, After
  <2> QED
    BY <1>3, <2>1, <2>2, <2>3
<1>8. \A k \in T : p[k] \in UsedRows
  BY <1>3
<1>9. \A j \in 0 .. NumCols : p[j] \in Nat /\ p[j] <= row
  BY <1>6 DEF IInv, Matched1to1
<1>10. \A j, k \in 0 .. NumCols : p[j] = p[k] /\ p[j] # 0 => j = k
  BY <1>5 DEF IInv, Matched1to1, Matching
<1>11. \A k \in T, j \in O : After(p[k], j) = Reduced(p[k], j) - delta
  BY <1>2, <1>7, <1>8
<1>12. \A k \in T, j \in T \ {0} : After(p[k], j) = Reduced(p[k], j)
  <2> SUFFICES ASSUME NEW k \in T, NEW j \in T \ {0}
               PROVE  After(p[k], j) = Reduced(p[k], j)
    OBVIOUS
  <2>1. j \in 0 .. NumCols /\ p[k] \in 1 .. NumRows /\ p[k] \in UsedRows
    BY <1>2, <1>8
  <2>2. j \in 1 .. NumCols
    BY <1>6, <2>1
  <2> QED
    BY <1>7, <2>1, <2>2
<1>13. Typed'
  <2>1. u' \in [0 .. NumRows -> Int]
    <3>1. u' = [i \in 0 .. NumRows |-> IF i \in UsedRows THEN u[i] + delta ELSE u[i]]
            /\ u \in [0 .. NumRows -> Int]
      BY DEF Scan, IInv, Typed
    <3> HIDE DEF delta, UsedRows
    <3> QED
      BY <1>3, <3>1
  <2>2. v' \in [0 .. NumCols -> Int]
    <3>1. v' = [j \in 0 .. NumCols |-> IF j \in used \cup {j0} THEN v[j] - delta ELSE v[j]]
            /\ v \in [0 .. NumCols -> Int]
      BY DEF Scan, IInv, Typed
    <3> QED
      BY <1>3, <3>1
  <2>3. N \in 0 .. NumCols
    BY <1>2, <1>3, <1>6
  <2>4. cost \in Costs /\ row \in 0 .. NumRows
    BY DEF IInv, Typed
  <2>5. pc' \in {"row", "scan", "augment", "done"}
    BY <1>5
  <2> QED
    BY <1>2, <1>5, <1>6, <2>1, <2>2, <2>3, <2>4, <2>5 DEF Typed
<1>14. Matched1to1'
  <2>1. Matching' = IF p[N] = 0 THEN (0 .. NumCols) \ {N} ELSE 0 .. NumCols
    BY <1>5, <1>6 DEF Matching
  <2>2. Matching = 0 .. NumCols /\ Matching' \subseteq 0 .. NumCols
    BY <1>5, <2>1 DEF Matching
  <2>3. \A i \in 1 .. row : \E j \in Matching' : p[j] = i
    <3> SUFFICES ASSUME NEW i \in 1 .. row
                 PROVE  \E j \in Matching' : p[j] = i
      OBVIOUS
    <3>1. PICK j \in 0 .. NumCols : p[j] = i
      BY <2>2 DEF IInv, Matched1to1
    <3>2. i # 0
      BY <1>2
    <3> QED
      BY <2>1, <3>1, <3>2
  <2>4. ASSUME NEW j \in Matching' \ {0}, p[j] # 0
        PROVE  After(p[j], j) = 0
    <3>1. j \in 1 .. NumCols /\ j \in 0 .. NumCols /\ p[j] \in 1 .. NumRows
      BY <1>6, <2>2, <2>4
    <3>2. Reduced(p[j], j) = 0
      BY <2>2, <2>4, <3>1 DEF IInv, Matched1to1
    <3>3. CASE j \in T
      BY <1>12, <3>2, <3>3
    <3>4. CASE j \notin T
      <4>1. p[j] \notin UsedRows
        BY <1>2, <1>3, <1>10, <2>4, <3>1, <3>4
      <4> QED
        BY <1>7, <3>1, <3>2, <3>4, <4>1
    <3> QED
      BY <3>3, <3>4
  <2>5. \A j, k \in Matching' : p[j] = p[k] /\ p[j] # 0 => j = k
    BY <1>10, <2>2
  <2>6. \A j \in Matching' \ {0} : p'[j] # 0 => (Reduced(p[j], j))' = 0
    BY <1>5, <2>4 DEF Reduced, After
  <2> QED
    BY <1>5, <1>6, <1>9, <2>3, <2>5, <2>6 DEF Matched1to1
<1>15. Feasible'
  <2> SUFFICES ASSUME NEW i \in 1 .. row, NEW j \in 1 .. NumCols
               PROVE  After(i, j) >= 0
    BY <1>5, <1>6 DEF Feasible, Reduced, After
  <2>1. i \in 1 .. NumRows /\ row \in 1 .. NumRows
    <3>1. row \in 0 .. NumRows
      BY DEF IInv, Typed
    <3> QED
      BY <1>6, <3>1
  <2>2. j \in T => used # {}
    BY <1>2
  <2>3. used # {} \/ i # row => Reduced(i, j) >= 0
    BY DEF IInv, Feasible
  <2>4. CASE i \in UsedRows
    <3>1. CASE j \in T
      BY <1>7, <2>1, <2>2, <2>3, <2>4, <3>1
    <3>2. CASE j \notin T
      <4>1. PICK k \in T : i = p[k]
        BY <1>3, <2>4
      <4>2. j \in O
        BY <1>2, <3>2
      <4>3. /\ delta <= Distance(j) /\ Distance(j) <= Reduced(i, j)
            /\ Distance(j) \in Int /\ Reduced(i, j) \in Int
        BY <1>4, <4>1, <4>2
      <4>4. After(i, j) = Reduced(i, j) - delta
        BY <1>7, <2>1, <2>4, <3>2
      <4> QED
        BY <1>3, <4>3, <4>4
    <3> QED
      BY <3>1, <3>2
  <2>5. CASE i \notin UsedRows
    <3>1. i # row
      BY <1>2, <1>8, <2>5
    <3>2. Reduced(i, j) >= 0 /\ Reduced(i, j) \in Int
      BY <1>7, <2>1, <2>3, <3>1
    <3>3. CASE j \in T
      <4>1. After(i, j) = Reduced(i, j) + delta /\ delta >= 0
        BY <1>3, <1>7, <2>1, <2>2, <2>5, <3>3
      <4> QED
        BY <1>3, <3>2, <4>1
    <3>4. CASE j \notin T
      BY <1>7, <2>1, <2>5, <3>2, <3>4
    <3> QED
      BY <3>3, <3>4
  <2> QED
    BY <2>4, <2>5
<1>16. FreeColumns'
  <2> SUFFICES ASSUME NEW j \in 1 .. NumCols
               PROVE  v'[j] <= 0 /\ (p[j] = 0 => v'[j] = 0)
    BY <1>5, <1>6 DEF FreeColumns
  <2>1. j \in 0 .. NumCols /\ v[j] \in Int /\ v[j] <= 0 /\ (p[j] = 0 => v[j] = 0)
    <3>1. j \in 0 .. NumCols /\ v \in [0 .. NumCols -> Int]
      BY <1>6 DEF IInv, Typed
    <3> QED
      BY <3>1 DEF IInv, FreeColumns
  <2>2. v'[j] = IF j \in T THEN v[j] - delta ELSE v[j]
    BY <1>2, <2>1 DEF Scan
  <2>3. j \in T => p[j] # 0 /\ delta >= 0
    BY <1>2, <1>3
  <2> QED
    BY <1>3, <2>1, <2>2, <2>3
<1>17. Tree'
  <2>1. PICK rank \in Ranks : \A k \in T \ {0} : Led(rank, k)
    BY <1>2, <1>5 DEF IInv, Tree
  <2>2. rank \in [0 .. NumCols -> Nat] /\ N \in 0 .. NumCols /\ way'[N] \in 0 .. NumCols
          /\ way'[N] # N /\ N \notin T
    <3>1. rank \in [0 .. NumCols -> Nat]
      BY <2>1 DEF Ranks
    <3>2. N \notin T /\ way'[N] \in T /\ N \in 1 .. NumCols
      BY <1>2, <1>3, <1>4
    <3>3. N \in 0 .. NumCols
      BY <1>6, <3>2
    <3> QED
      BY <1>2, <3>1, <3>2, <3>3
  <2>3. PICK rank2 \in [0 .. NumCols -> Nat] :
          /\ rank2[N] = rank[way'[N]] + 1 /\ rank[way'[N]] \in Nat
          /\ \A k \in 0 .. NumCols : k # N => rank2[k] = rank[k]
    <3>1. rank[way'[N]] \in Nat
      BY <2>2
    <3>2. [rank EXCEPT ![N] = rank[way'[N]] + 1] \in [0 .. NumCols -> Nat]
      BY <2>2, <3>1
    <3> QED
      BY <2>2, <3>1, <3>2
  <2>4. ASSUME NEW k \in T \ {0}
        PROVE  /\ way'[k] \in T /\ rank2[way'[k]] < rank2[k]
               /\ After(p[way'[k]], k) = 0
    <3>1. /\ way[k] \in used /\ rank[way[k]] < rank[k]
          /\ Reduced(p[way[k]], k) = 0
      BY <2>1 DEF Led
    <3>2. k \in 0 .. NumCols /\ k \notin O /\ way[k] \in T /\ way[k] \in 0 .. NumCols
            /\ k # N /\ way[k] # N
      BY <1>2, <2>2, <3>1
    <3>3. way'[k] = way[k]
      BY <1>4, <3>2
    <3>4. rank2[way[k]] < rank2[k]
      BY <2>3, <3>1, <3>2
    <3>5. After(p[way[k]], k) = 0
      BY <1>12, <3>1, <3>2
    <3> QED
      BY <3>2, <3>3, <3>4, <3>5
  <2>5. way'[N] \in T /\ rank2[way'[N]] < rank2[N] /\ After(p[way'[N]], N) = 0
    <3>1. way'[N] \in T /\ Reduced(p[way'[N]], N) = delta
      BY <1>3, <1>4
    <3>2. rank2[way'[N]] < rank2[N]
      BY <2>2, <2>3
    <3>3. Reduced(p[way'[N]], N) - delta = 0
      BY <1>3, <3>1
    <3>4. After(p[way'[N]], N) = 0
      BY <1>3, <1>11, <3>1, <3>3
    <3> QED
      BY <3>1, <3>2, <3>4
  <2>6. (used' \cup {j0'}) \ {0} = (T \ {0}) \cup {N}
    BY <1>2, <1>3, <1>5
  <2>7. \A k \in (used' \cup {j0'}) \ {0} :
          /\ way'[k] \in used' /\ rank2[way'[k]] < rank2[k]
          /\ (Reduced(p[way[k]], k))' = 0
    BY <1>5, <2>4, <2>5, <2>6 DEF Reduced, After
  <2>8. \A k \in used' : p'[k] # 0
    BY <1>2, <1>5
  <2>9. (\E r \in Ranks : \A k \in (used \cup {j0}) \ {0} : Led(r, k))'
    BY <1>6, <2>3, <2>7 DEF Led, Ranks
  <2> QED
    BY <2>8, <2>9 DEF Tree
<1>18. ASSUME pc' = "scan" PROVE Distances'
  <2>1. p'[0] = row' /\ p'[j0'] # 0 /\ j0' \notin used'
    BY <1>2, <1>3, <1>5, <1>18
  <2>2. used' # {} /\ 0 \in used'
    BY <1>2, <1>5
  <2>3. DOMAIN minv' = (1 .. NumCols) \ used'
    BY <1>2, <1>5
  <2>4. minv'[j0'] = 0
    BY <1>3, <1>5
  <2>5. ASSUME NEW j \in O
        PROVE  /\ minv'[j] \in Nat /\ way'[j] \in used'
               /\ After(p[way'[j]], j) = minv'[j]
               /\ \A k \in used' : After(p[k], j) >= minv'[j]
    <3>1. minv'[j] = Distance(j) - delta /\ Distance(j) \in Int /\ delta <= Distance(j)
      BY <1>4, <1>5
    <3>2. \A w \in T : After(p[w], j) = Reduced(p[w], j) - delta
      BY <1>11
    <3>3. After(p[way'[j]], j) = Distance(j) - delta
      BY <1>4, <3>2
    <3>4. ASSUME NEW k \in T
          PROVE  After(p[k], j) >= minv'[j]
      BY <1>3, <1>4, <3>1, <3>2
    <3> QED
      BY <1>3, <1>4, <1>5, <3>1, <3>3, <3>4
  <2> QED
    <3>1. DOMAIN minv' = O
      BY <1>5
    <3>2. (\A j \in DOMAIN minv :
             /\ minv[j] \in Nat /\ way[j] \in used
             /\ Reduced(p[way[j]], j) = minv[j]
             /\ \A k \in used : Reduced(p[k], j) >= minv[j])'
      BY <1>5, <2>5, <3>1 DEF Reduced, After
    <3> QED
      BY <1>6, <2>1, <2>2, <2>3, <2>4, <3>2 DEF Distances
<1>19. pc' = "augment" => j0' # 0
  BY <1>2, <1>3, <1>5
<1> QED
  BY <1>13, <1>14, <1>15, <1>16, <1>17, <1>18, <1>19 DEF IInv

LEMMA FinishIInv ==
  ASSUME IInv, Finish
  PROVE  IInv'
<1>1. matrix' = matrix /\ NumRows' = NumRows /\ NumCols' = NumCols
  BY MatrixKept DEF Finish
<1>2. pc = "row" /\ pc' = "done" /\ UNCHANGED << cost, u, v, p, way, used, row, j0 >>
  BY DEF Finish
<1>3. Typed'
  BY <1>1, <1>2 DEF IInv, Typed
<1>4. Matched1to1'
  BY <1>1, <1>2 DEF IInv, Matched1to1, Matching, Reduced
<1>5. Feasible' /\ FreeColumns'
  BY <1>1, <1>2 DEF IInv, Feasible, FreeColumns, Reduced
<1> QED
  BY <1>2, <1>3, <1>4, <1>5 DEF IInv

\* Every step keeps the invariant.
THEOREM Invariance == Spec => []IInv
<1>1. IInv /\ [Next]_vars => IInv'
  <2> SUFFICES ASSUME IInv, [Next]_vars
               PROVE  IInv'
    OBVIOUS
  <2>1. CASE NextRow
    BY <2>1, NextRowIInv
  <2>2. CASE Scan
    BY <2>2, ScanIInv
  <2>3. CASE Augment
    BY <2>3, AugmentIInv
  <2>4. CASE Finish
    BY <2>4, FinishIInv
  <2>5. CASE UNCHANGED vars
    <3>1. matrix' = matrix /\ NumRows' = NumRows /\ NumCols' = NumCols
      BY <2>5, MatrixKept DEF vars
    <3>2. UNCHANGED << cost, u, v, p, way, minv, used, row, j0, pc >>
      BY <2>5 DEF vars
    <3>3. Typed'
      BY <3>1, <3>2 DEF IInv, Typed
    <3>4. Matched1to1'
      BY <3>1, <3>2 DEF IInv, Matched1to1, Matching, Reduced
    <3>5. Feasible' /\ FreeColumns'
      BY <3>1, <3>2 DEF IInv, Feasible, FreeColumns, Reduced
    <3>6. pc' \in {"scan", "augment"} => Tree'
      BY <3>1, <3>2 DEF IInv, Tree, Led, Ranks, Reduced
    <3>7. pc' = "scan" => Distances'
      BY <3>1, <3>2 DEF IInv, Distances, Reduced
    <3> QED
      BY <3>2, <3>3, <3>4, <3>5, <3>6, <3>7 DEF IInv
  <2> QED
    BY <2>1, <2>2, <2>3, <2>4, <2>5 DEF Next
<1> QED
  BY InitIInv, <1>1, PTL DEF Spec

-----------------------------------------------------------------------------
(* What the algorithm promises.                                            *)

\* In the loop over the rows, hungarian leaves potentials behind that no pair undercuts, that
\* matched pairs meet, that are 0 at free columns, and every row so far has a column: the
\* certificate of a cheapest assignment of those rows.
THEOREM PotentialsCorrect == Spec => []PotentialsCertify
<1>1. IInv => PotentialsCertify
  <2> SUFFICES ASSUME IInv, pc \in {"row", "done"}
               PROVE  /\ \A i \in 1 .. row, j \in 1 .. NumCols : u[i] + v[j] <= matrix[i][j]
                      /\ \A j \in 1 .. NumCols :
                           IF p[j] = 0 THEN v[j] = 0
                           ELSE v[j] <= 0 /\ u[p[j]] + v[j] = matrix[p[j]][j]
                      /\ \A i \in 1 .. row : \E j \in 1 .. NumCols : p[j] = i
    BY DEF PotentialsCertify
  <2>1. /\ NumRows \in Nat \ {0} /\ NumCols \in Nat \ {0} /\ row \in 0 .. NumRows
        /\ p \in [0 .. NumCols -> 0 .. NumRows]
    BY MatrixType DEF IInv, Typed
  <2>2. Typed /\ Matching = 1 .. NumCols /\ pc # "scan"
    BY DEF IInv, Matching
  <2>3. ASSUME NEW i \in 1 .. row, NEW j \in 1 .. NumCols
        PROVE  u[i] + v[j] <= matrix[i][j]
    <3>1. i \in 1 .. NumRows
      BY <2>1
    <3>2. Reduced(i, j) >= 0
      BY <2>2 DEF IInv, Feasible
    <3>3. /\ matrix[i][j] \in Int /\ u[i] \in Int /\ v[j] \in Int
          /\ Reduced(i, j) = matrix[i][j] - u[i] - v[j]
      BY <2>2, <3>1, ReducedType
    <3> QED
      BY <3>2, <3>3
  <2>4. ASSUME NEW j \in 1 .. NumCols
        PROVE  IF p[j] = 0 THEN v[j] = 0
               ELSE v[j] <= 0 /\ u[p[j]] + v[j] = matrix[p[j]][j]
    <3>1. v[j] <= 0 /\ (p[j] = 0 => v[j] = 0)
      BY DEF IInv, FreeColumns
    <3>2. CASE p[j] # 0
      <4>1. p[j] \in 1 .. NumRows
        BY <2>1, <3>2
      <4>2. Reduced(p[j], j) = 0
        BY <2>1, <2>2, <3>2 DEF IInv, Matched1to1
      <4>3. /\ matrix[p[j]][j] \in Int /\ u[p[j]] \in Int /\ v[j] \in Int
            /\ Reduced(p[j], j) = matrix[p[j]][j] - u[p[j]] - v[j]
        BY <2>2, <4>1, ReducedType
      <4> QED
        BY <3>1, <3>2, <4>2, <4>3
    <3> QED
      BY <3>1, <3>2
  <2>5. \A i \in 1 .. row : \E j \in 1 .. NumCols : p[j] = i
    BY <2>2 DEF IInv, Matched1to1
  <2> QED
    BY <2>3, <2>4, <2>5
<1> QED
  BY Invariance, <1>1, PTL

\* The result read off the matching.
Result == pc = "done" => row = NumRows /\ assignment = [i \in Rows(cost) |-> Matched(i)]

LEMMA ResultRead == Spec => []Result
<1>1. Init => Result
  BY DEF Init, Result
<1>2. Result /\ [Next]_vars => Result'
  <2> SUFFICES ASSUME Result, [Next]_vars, pc' = "done"
               PROVE  row' = NumRows' /\ assignment' = [i \in Rows(cost') |-> Matched(i)']
    BY DEF Result
  <2>1. CASE Finish
    BY <2>1, MatrixKept DEF Finish, Matched
  <2>2. CASE UNCHANGED vars
    BY <2>2, MatrixKept DEF vars, Result, Matched
  <2> QED
    BY <2>1, <2>2 DEF Next, NextRow, Scan, Augment
<1> QED
  BY <1>1, <1>2, PTL DEF Spec

\* However the matrix is oriented, hungarian gives no column twice, and leaves no row without
\* a column unless every column is given (what AssignmentOptimal says besides the total cost).
THEOREM ResultExclusive == Spec => [](pc = "done" => assignment \in Assignments(cost))
<1>1. IInv /\ Result => (pc = "done" => assignment \in Assignments(cost))
  <2> SUFFICES ASSUME IInv, Result, pc = "done"
               PROVE  assignment \in Assignments(cost)
    OBVIOUS
  <2>1. /\ NumRows \in Nat \ {0} /\ NumCols \in Nat \ {0} /\ row = NumRows
        /\ p \in [0 .. NumCols -> 0 .. NumRows] /\ Matching = 1 .. NumCols
    BY MatrixType DEF IInv, Typed, Result, Matching
  <2>2. /\ \A j, k \in 1 .. NumCols : p[j] = p[k] /\ p[j] # 0 => j = k
        /\ \A i \in 1 .. NumRows : \E j \in 1 .. NumCols : p[j] = i
    BY <2>1 DEF IInv, Matched1to1
  <2>3. assignment = [i \in Rows(cost) |-> Matched(i)]
    BY DEF Result
  <2>4. CASE Transposed(cost)
    <3>1. Rows(cost) = 1 .. NumCols /\ Columns(cost) = 1 .. NumRows
      BY <2>4, Orientation DEF IInv, Typed
    <3>2. assignment = [i \in 1 .. NumCols |-> p[i]]
      BY <2>3, <2>4, <3>1 DEF Matched
    <3>3. assignment \in [Rows(cost) -> Columns(cost) \cup {Unassigned}]
      BY <2>1, <3>1, <3>2 DEF Unassigned
    <3>4. Exclusive(assignment)
      BY <2>2, <3>2 DEF Exclusive, Unassigned
    <3>5. Saturating(cost, assignment)
      BY <2>2, <3>1, <3>2 DEF Saturating
    <3> QED
      BY <3>3, <3>4, <3>5 DEF Assignments
  <2>5. CASE ~ Transposed(cost)
    <3>1. Rows(cost) = 1 .. NumRows /\ Columns(cost) = 1 .. NumCols
      BY <2>5, Orientation DEF IInv, Typed
    <3>2. \A i \in 1 .. NumRows : assignment[i] \in 1 .. NumCols /\ p[assignment[i]] = i
      <4> SUFFICES ASSUME NEW i \in 1 .. NumRows
                   PROVE  assignment[i] \in 1 .. NumCols /\ p[assignment[i]] = i
        OBVIOUS
      <4>1. \E j \in 1 .. NumCols : p[j] = i
        BY <2>2
      <4>2. assignment[i] = CHOOSE j \in 1 .. NumCols : p[j] = i
        BY <2>3, <2>5, <3>1, <4>1 DEF Matched
      <4> QED
        BY <4>1, <4>2
    <3>3. assignment \in [Rows(cost) -> Columns(cost) \cup {Unassigned}]
      BY <2>3, <3>1, <3>2
    <3>4. DOMAIN assignment = 1 .. NumRows
      BY <2>3, <3>1
    <3>5. Exclusive(assignment)
      BY <3>2, <3>4 DEF Exclusive
    <3>6. Saturating(cost, assignment)
      BY <2>1, <3>1, <3>2 DEF Saturating, Unassigned
    <3> QED
      BY <3>3, <3>5, <3>6 DEF Assignments
  <2> QED
    BY <2>4, <2>5
<1> QED
  BY Invariance, ResultRead, <1>1, PTL

-----------------------------------------------------------------------------
(* The result is a cheapest assignment.                                    *)

\* The total cost of an assignment is a sum over the rows that have a column.
LEMMA TotalIsSum ==
  ASSUME NEW c, NEW a, NEW S, IsFiniteSet(S), S = {i \in Rows(c) : a[i] # Unassigned},
         NEW h, \A i \in S : h[i] = c[i][a[i]]
  PROVE  Total(c, a) = SumOn(h, S)
<1> DEFINE price == [i \in S |-> c[i][a[i]]]
<1>1. Total(c, a) = SumOn(price, S)
  BY DEF Total, SumOn
<1>2. \A i \in S : price[i] = h[i]
  OBVIOUS
<1> HIDE DEF price
<1> QED
  BY <1>1, <1>2, SumCongruent

\* Costs M of pairs of I and J, potentials U and V that no pair undercuts and that the pairs of
\* q meet, with V 0 where q leaves an element of J free; and the costs of the pairs of q and r.
Certified(I, J, M, U, V, q, r, MQ, MR) ==
  /\ \A i \in I, j \in J : M[i][j] \in Int /\ U[i] + V[j] <= M[i][j]
  /\ \A i \in I : U[i] \in Int
  /\ \A j \in J : V[j] \in Int /\ V[j] <= 0
  /\ q \in [I -> J] /\ \A i, k \in I : q[i] = q[k] => i = k
  /\ r \in [I -> J] /\ \A i, k \in I : r[i] = r[k] => i = k
  /\ \A i \in I : U[i] + V[q[i]] = M[i][q[i]]
  /\ \A j \in J \ {q[i] : i \in I} : V[j] = 0
  /\ \A i \in I : MQ[i] = M[i][q[i]] /\ MR[i] = M[i][r[i]]

\* Then no other way to give the elements of I elements of J of their own costs less.
LEMMA Duality ==
  ASSUME NEW I, IsFiniteSet(I), NEW J, IsFiniteSet(J), NEW M, NEW U, NEW V, NEW q, NEW r,
         NEW MQ, NEW MR, Certified(I, J, M, U, V, q, r, MQ, MR)
  PROVE  SumOn(MQ, I) <= SumOn(MR, I)
<1> USE DEF Certified
<1> DEFINE VQ == [i \in I |-> V[q[i]]]
           VR == [i \in I |-> V[r[i]]]
           UR == [i \in I |-> U[i] + V[r[i]]]
           Q == {q[i] : i \in I}
           R == {r[i] : i \in I}
<1>1. IsFiniteSet(I) /\ IsFiniteSet(J)
  BY FS_Interval
<1>2. SumOn(MQ, I) = SumOn(U, I) + SumOn(VQ, I)
  <2>1. \A i \in I : U[i] \in Int /\ VQ[i] \in Int /\ MQ[i] = U[i] + VQ[i]
    OBVIOUS
  <2> HIDE DEF VQ
  <2> QED
    BY <2>1, SumPlus
<1>3. SumOn(VQ, I) = SumOn(V, Q)
  <2>1. \A i \in I : VQ[i] = V[q[i]] /\ V[q[i]] \in Int
    OBVIOUS
  <2> HIDE DEF VQ
  <2> QED
    BY <2>1, SumReindexed
<1>4. SumOn(V, J) = SumOn(V, Q)
  <2>1. Q \in SUBSET J /\ \A j \in J \ Q : V[j] = 0 /\ V[j] <= 0
    OBVIOUS
  <2> HIDE DEF Q
  <2> QED
    BY <2>1, SumSubset
<1>5. SumOn(V, J) <= SumOn(V, R)
  <2>1. R \in SUBSET J
    OBVIOUS
  <2> HIDE DEF R
  <2> QED
    BY <2>1, SumSubset
<1>6. SumOn(VR, I) = SumOn(V, R)
  <2>1. \A i \in I : VR[i] = V[r[i]] /\ V[r[i]] \in Int
    OBVIOUS
  <2> HIDE DEF VR
  <2> QED
    BY <2>1, SumReindexed
<1>7. SumOn(UR, I) = SumOn(U, I) + SumOn(VR, I)
  <2>1. \A i \in I : U[i] \in Int /\ VR[i] \in Int /\ UR[i] = U[i] + VR[i]
    OBVIOUS
  <2> HIDE DEF UR, VR
  <2> QED
    BY <2>1, SumPlus
<1>8. SumOn(UR, I) <= SumOn(MR, I)
  <2>1. \A i \in I : UR[i] \in Int /\ MR[i] \in Int /\ UR[i] <= MR[i]
    OBVIOUS
  <2> HIDE DEF UR
  <2> QED
    BY <2>1, SumLeq
<1>9. /\ SumOn(U, I) \in Int /\ SumOn(V, Q) \in Int /\ SumOn(V, R) \in Int
      /\ SumOn(MR, I) \in Int
  <2>1. IsFiniteSet(Q) /\ IsFiniteSet(R)
    <3>1. Q \subseteq J /\ R \subseteq J
      OBVIOUS
    <3> QED
      BY <3>1, FS_Subset
  <2>2. (\A j \in Q : V[j] \in Int) /\ (\A j \in R : V[j] \in Int)
    OBVIOUS
  <2>3. \A i \in I : MR[i] \in Int
    OBVIOUS
  <2> HIDE DEF Q, R
  <2> QED
    BY <2>1, <2>2, <2>3, SumType
<1> HIDE DEF VQ, VR, UR, Q, R
<1>10. SumOn(MQ, I) = SumOn(U, I) + SumOn(V, Q) /\ SumOn(V, Q) <= SumOn(V, R)
  BY <1>2, <1>3, <1>4, <1>5
<1>11. SumOn(U, I) + SumOn(V, R) <= SumOn(MR, I)
  BY <1>6, <1>7, <1>8
<1> QED
  BY <1>9, <1>10, <1>11

\* The entries of the matrix are the costs, one way or the other.
LEMMA MatrixEntries ==
  ASSUME cost \in Costs, NEW i \in 1 .. NumRows, NEW j \in 1 .. NumCols
  PROVE  matrix[i][j] = IF Transposed(cost) THEN cost[j][i] ELSE cost[i][j]
<1>1. CASE Transposed(cost)
  <2>1. Rows(cost) = 1 .. NumCols /\ Columns(cost) = 1 .. NumRows
    BY <1>1, Orientation
  <2>2. matrix = [k \in 1 .. NumRows |-> [l \in 1 .. NumCols |-> cost[l][k]]]
    BY <1>1, <2>1 DEF matrix, Oriented
  <2> HIDE DEF matrix
  <2> QED
    BY <1>1, <2>2
<1>2. CASE ~ Transposed(cost)
  BY <1>2 DEF matrix, Oriented
<1> QED
  BY <1>1, <1>2

\* Every assignment gives each row of the matrix a column of its own, and costs what these
\* pairs cost.
LEMMA RowsView ==
  ASSUME cost \in Costs, NEW a \in Assignments(cost)
  PROVE  \E q \in [1 .. NumRows -> 1 .. NumCols] :
           /\ \A i, k \in 1 .. NumRows : q[i] = q[k] => i = k
           /\ Total(cost, a) = SumOn([i \in 1 .. NumRows |-> matrix[i][q[i]]], 1 .. NumRows)
           /\ \A i \in 1 .. NumRows : IF Transposed(cost) THEN a[q[i]] = i ELSE a[i] = q[i]
<1>1. /\ NumRows \in Nat \ {0} /\ NumCols \in Nat \ {0} /\ NumRows <= NumCols
      /\ \A i \in 1 .. NumRows, j \in 1 .. NumCols : matrix[i][j] \in Int
  BY MatrixType
<1>2. /\ a \in [Rows(cost) -> Columns(cost) \cup {0}]
      /\ \A i, k \in Rows(cost) : a[i] = a[k] /\ i # k => a[i] = 0
      /\ Saturating(cost, a)
  BY DEF Assignments, Exclusive, Unassigned
<1>3. IsFiniteSet(1 .. NumRows) /\ IsFiniteSet(1 .. NumCols)
  BY <1>1, FS_Interval
<1>4. Cardinality(1 .. NumRows) = NumRows /\ Cardinality(1 .. NumCols) = NumCols
  BY <1>1, FS_Interval
<1>5. CASE ~ Transposed(cost)
  <2>1. Rows(cost) = 1 .. NumRows /\ Columns(cost) = 1 .. NumCols
    BY <1>5, Orientation
  <2>2. \A i \in 1 .. NumRows : a[i] # 0
    <3> SUFFICES ASSUME NEW i \in 1 .. NumRows, a[i] = 0
                 PROVE  FALSE
      OBVIOUS
    <3>1. \A j \in 1 .. NumCols : \E k \in 1 .. NumRows : a[k] = j
      BY <1>2, <2>1 DEF Saturating, Unassigned
    <3> DEFINE f == [j \in 1 .. NumCols |-> CHOOSE k \in 1 .. NumRows : a[k] = j]
    <3>2. \A j \in 1 .. NumCols : f[j] \in (1 .. NumRows) \ {i} /\ a[f[j]] = j
      <4> SUFFICES ASSUME NEW j \in 1 .. NumCols
                   PROVE  f[j] \in (1 .. NumRows) \ {i} /\ a[f[j]] = j
        OBVIOUS
      <4>1. f[j] \in 1 .. NumRows /\ a[f[j]] = j
        BY <3>1
      <4> HIDE DEF f
      <4> QED
        BY <4>1
    <3>3. f \in [1 .. NumCols -> (1 .. NumRows) \ {i}]
      BY <3>2
    <3>4. IsFiniteSet((1 .. NumRows) \ {i}) /\ Cardinality((1 .. NumRows) \ {i}) = NumRows - 1
      BY <1>3, <1>4, FS_RemoveElement
    <3> HIDE DEF f
    <3>5. \E j, k \in 1 .. NumCols : j # k /\ f[j] = f[k]
      <4> DEFINE I == (1 .. NumRows) \ {i}
                 J == 1 .. NumCols
      <4>1. IsFiniteSet(I) /\ IsFiniteSet(J) /\ Cardinality(I) < Cardinality(J) /\ f \in [J -> I]
        BY <1>1, <1>3, <1>4, <3>3, <3>4
      <4> HIDE DEF I, J
      <4>2. \E j, k \in J : j # k /\ f[j] = f[k]
        BY <4>1, FS_PigeonHole
      <4> QED
        BY <4>2 DEF J
    <3> QED
      BY <3>2, <3>5
  <2>3. a \in [1 .. NumRows -> 1 .. NumCols] /\ \A i, k \in 1 .. NumRows : a[i] = a[k] => i = k
    BY <1>2, <2>1, <2>2
  <2> DEFINE h == [i \in 1 .. NumRows |-> matrix[i][a[i]]]
  <2>4. 1 .. NumRows = {i \in Rows(cost) : a[i] # Unassigned}
    BY <2>1, <2>2 DEF Unassigned
  <2>5. \A i \in 1 .. NumRows : h[i] = cost[i][a[i]]
    BY <1>5, <2>3, MatrixEntries
  <2>6. Total(cost, a) = SumOn(h, 1 .. NumRows)
    <3> DEFINE I == 1 .. NumRows
    <3>1. IsFiniteSet(I) /\ I = {i \in Rows(cost) : a[i] # Unassigned} /\ \A i \in I : h[i] = cost[i][a[i]]
      BY <1>3, <2>4, <2>5
    <3> HIDE DEF h, I
    <3>2. Total(cost, a) = SumOn(h, I)
      BY <3>1, TotalIsSum
    <3> QED
      BY <3>2 DEF I
  <2> QED
    BY <1>5, <2>3, <2>6
<1>6. CASE Transposed(cost)
  <2>1. Rows(cost) = 1 .. NumCols /\ Columns(cost) = 1 .. NumRows
    BY <1>6, Orientation
  <2>2. NumRows < NumCols
    <3>1. Rows(cost) = 1 .. Len(cost)
      BY DEF Rows
    <3>2. Columns(cost) = 1 .. Len(cost[1])
      <4>1. Len(cost) > 0
        BY CostsAssumption
      <4> QED
        BY <4>1 DEF Columns
    <3>3. Len(cost) \in Nat /\ Len(cost[1]) \in Nat
      <4>1. cost \in Seq(Seq(Int)) /\ Len(cost) > 0
        BY CostsAssumption
      <4>2. cost[1] \in Seq(Int)
        BY <4>1
      <4> QED
        BY <4>1, <4>2
    <3>4. Len(cost) = NumCols /\ Len(cost[1]) = NumRows
      BY <1>1, <2>1, <3>1, <3>2, <3>3
    <3> QED
      BY <1>6, <3>4 DEF Transposed
  <2>3. \A i \in 1 .. NumRows : \E j \in 1 .. NumCols : a[j] = i
    <3>1. ASSUME \A j \in 1 .. NumCols : a[j] # 0
          PROVE  FALSE
      <4>1. a \in [1 .. NumCols -> 1 .. NumRows]
        BY <1>2, <2>1, <3>1
      <4>2. \E j, k \in 1 .. NumCols : j # k /\ a[j] = a[k]
        BY <1>3, <1>4, <2>2, <4>1, FS_PigeonHole
      <4> QED
        BY <1>2, <2>1, <3>1, <4>2
    <3> QED
      BY <1>2, <2>1, <3>1 DEF Saturating, Unassigned
  <2> DEFINE q == [i \in 1 .. NumRows |-> CHOOSE j \in 1 .. NumCols : a[j] = i]
  <2>4. \A i \in 1 .. NumRows : q[i] \in 1 .. NumCols /\ a[q[i]] = i
    BY <2>3
  <2>5. q \in [1 .. NumRows -> 1 .. NumCols]
    BY <2>4
  <2> HIDE DEF q
  <2> DEFINE h == [i \in 1 .. NumRows |-> matrix[i][q[i]]]
             k == [j \in 1 .. NumCols |-> cost[j][a[j]]]
             S == {q[i] : i \in 1 .. NumRows}
  <2>6. S = {j \in Rows(cost) : a[j] # Unassigned}
    <3>1. \A j \in 1 .. NumCols : a[j] # 0 => a[j] \in 1 .. NumRows /\ q[a[j]] = j
      BY <1>2, <2>1, <2>4
    <3> QED
      BY <2>1, <2>4, <3>1 DEF Unassigned
  <2>7. IsFiniteSet(S)
    <3>1. S \subseteq 1 .. NumCols
      BY <2>4
    <3> QED
      BY <1>3, <3>1, FS_Subset
  <2>8. Total(cost, a) = SumOn(k, S)
    <3>1. \A j \in S : k[j] = cost[j][a[j]]
      BY <2>4
    <3> HIDE DEF k, S
    <3> QED
      BY <2>6, <2>7, <3>1, TotalIsSum
  <2>9. \A i \in 1 .. NumRows : h[i] = k[q[i]] /\ k[q[i]] \in Int
    <3> SUFFICES ASSUME NEW i \in 1 .. NumRows
                 PROVE  h[i] = k[q[i]] /\ k[q[i]] \in Int
      OBVIOUS
    <3>1. q[i] \in 1 .. NumCols /\ a[q[i]] = i
      BY <2>4
    <3>2. matrix[i][q[i]] = cost[q[i]][i] /\ matrix[i][q[i]] \in Int
      BY <1>1, <1>6, <3>1, MatrixEntries
    <3> QED
      BY <3>1, <3>2
  <2>10. \A i, l \in 1 .. NumRows : q[i] = q[l] => i = l
    BY <2>4
  <2>11. SumOn(h, 1 .. NumRows) = SumOn(k, S)
    <3> DEFINE I == 1 .. NumRows
    <3>1. /\ IsFiniteSet(I) /\ \A i, l \in I : q[i] = q[l] => i = l
          /\ \A i \in I : h[i] = k[q[i]] /\ k[q[i]] \in Int
          /\ S = {q[i] : i \in I}
      BY <1>3, <2>9, <2>10
    <3> HIDE DEF h, k, I, S
    <3>2. SumOn(h, I) = SumOn(k, {q[i] : i \in I})
      BY <3>1, SumReindexed
    <3> QED
      BY <3>1, <3>2 DEF I
  <2> HIDE DEF k, S
  <2>12. \A i \in 1 .. NumRows : IF Transposed(cost) THEN a[q[i]] = i ELSE a[i] = q[i]
    BY <1>6, <2>4
  <2> QED
    BY <2>5, <2>8, <2>10, <2>11, <2>12
<1> QED
  BY <1>5, <1>6

\* Whatever the costs and whichever side of the matrix is longer, what hungarian returns is an
\* assignment of least total cost: its pairs meet the potentials, which bound every other
\* assignment from below.
THEOREM ResultOptimal == Spec => []AssignmentOptimal
<1>1. ASSUME IInv, PotentialsCertify, Result, pc = "done", assignment \in Assignments(cost),
             NEW other \in Assignments(cost)
      PROVE  Total(cost, assignment) <= Total(cost, other)
  <2>1. /\ cost \in Costs /\ NumRows \in Nat \ {0} /\ NumCols \in Nat \ {0} /\ row = NumRows
        /\ p \in [0 .. NumCols -> 0 .. NumRows] /\ Matching = 1 .. NumCols
    BY <1>1, MatrixType DEF IInv, Typed, Result, Matching
  <2>2. \A j, k \in 1 .. NumCols : p[j] = p[k] /\ p[j] # 0 => j = k
    BY <1>1, <2>1 DEF IInv, Matched1to1
  <2>3. /\ \A i \in 1 .. NumRows, j \in 1 .. NumCols : u[i] + v[j] <= matrix[i][j]
        /\ \A j \in 1 .. NumCols : IF p[j] = 0 THEN v[j] = 0
                                   ELSE v[j] <= 0 /\ u[p[j]] + v[j] = matrix[p[j]][j]
        /\ \A i \in 1 .. NumRows : \E j \in 1 .. NumCols : p[j] = i
    BY <1>1, <2>1 DEF PotentialsCertify
  <2>4. PICK q \in [1 .. NumRows -> 1 .. NumCols] :
          /\ \A i, k \in 1 .. NumRows : q[i] = q[k] => i = k
          /\ Total(cost, assignment) = SumOn([i \in 1 .. NumRows |-> matrix[i][q[i]]], 1 .. NumRows)
          /\ \A i \in 1 .. NumRows : IF Transposed(cost) THEN assignment[q[i]] = i
                                                         ELSE assignment[i] = q[i]
    BY <1>1, <2>1, RowsView
  <2>5. PICK r \in [1 .. NumRows -> 1 .. NumCols] :
          /\ \A i, k \in 1 .. NumRows : r[i] = r[k] => i = k
          /\ Total(cost, other) = SumOn([i \in 1 .. NumRows |-> matrix[i][r[i]]], 1 .. NumRows)
    BY <2>1, RowsView
  <2>6. \A i \in 1 .. NumRows : p[q[i]] = i
    <3> SUFFICES ASSUME NEW i \in 1 .. NumRows
                 PROVE  p[q[i]] = i
      OBVIOUS
    <3>1. CASE Transposed(cost)
      <4>1. Rows(cost) = 1 .. NumCols
        BY <2>1, <3>1, Orientation
      <4>2. assignment[q[i]] = p[q[i]]
        BY <1>1, <3>1, <4>1 DEF Result, Matched
      <4> QED
        BY <2>4, <3>1, <4>2
    <3>2. CASE ~ Transposed(cost)
      <4>1. Rows(cost) = 1 .. NumRows
        BY <2>1, <3>2, Orientation
      <4>2. \E j \in 1 .. NumCols : p[j] = i
        BY <2>3
      <4>3. assignment[i] = CHOOSE j \in 1 .. NumCols : p[j] = i
        BY <1>1, <3>2, <4>1, <4>2 DEF Result, Matched
      <4> QED
        BY <2>4, <3>2, <4>2, <4>3
    <3> QED
      BY <3>1, <3>2
  <2>7. \A i \in 1 .. NumRows : u[i] + v[q[i]] = matrix[i][q[i]]
    BY <2>3, <2>6
  <2>8. \A j \in (1 .. NumCols) \ {q[i] : i \in 1 .. NumRows} : v[j] = 0
    <3> SUFFICES ASSUME NEW j \in 1 .. NumCols, p[j] # 0
                 PROVE  \E i \in 1 .. NumRows : q[i] = j
      BY <2>3
    <3>1. p[j] \in 1 .. NumRows
      BY <2>1
    <3>2. p[q[p[j]]] = p[j] /\ q[p[j]] \in 1 .. NumCols
      BY <2>6, <3>1
    <3> QED
      BY <2>2, <3>1, <3>2
  <2>9. /\ \A i \in 1 .. NumRows : u[i] \in Int
        /\ \A j \in 1 .. NumCols : v[j] \in Int /\ v[j] <= 0
        /\ \A i \in 1 .. NumRows, j \in 1 .. NumCols : matrix[i][j] \in Int
    <3>1. Typed
      BY <1>1 DEF IInv
    <3>2. \A j \in 1 .. NumCols : v[j] <= 0
      BY <1>1 DEF IInv, FreeColumns
    <3> QED
      BY <2>1, <3>1, <3>2, ReducedType
  <2> DEFINE I == 1 .. NumRows
             J == 1 .. NumCols
  <2>10. IsFiniteSet(I) /\ IsFiniteSet(J)
    BY <2>1, FS_Interval
  <2>11. SumOn([i \in I |-> matrix[i][q[i]]], I) <= SumOn([i \in I |-> matrix[i][r[i]]], I)
    <3>1. /\ \A i \in I, j \in J : matrix[i][j] \in Int /\ u[i] + v[j] <= matrix[i][j]
          /\ \A i \in I : u[i] \in Int
          /\ \A j \in J : v[j] \in Int /\ v[j] <= 0
      BY <2>3, <2>9
    <3>2. q \in [I -> J] /\ \A i, k \in I : q[i] = q[k] => i = k
      BY <2>4
    <3>3. r \in [I -> J] /\ \A i, k \in I : r[i] = r[k] => i = k
      BY <2>5
    <3>4. /\ \A i \in I : u[i] + v[q[i]] = matrix[i][q[i]]
          /\ \A j \in J \ {q[i] : i \in I} : v[j] = 0
      BY <2>7, <2>8
    <3> DEFINE MQ == [i \in I |-> matrix[i][q[i]]]
               MR == [i \in I |-> matrix[i][r[i]]]
    <3>5. (\A i \in I : MQ[i] = matrix[i][q[i]]) /\ (\A i \in I : MR[i] = matrix[i][r[i]])
      OBVIOUS
    <3> HIDE DEF I, J, MQ, MR
    <3>6. Certified(I, J, matrix, u, v, q, r, MQ, MR)
      BY <3>1, <3>2, <3>3, <3>4, <3>5 DEF Certified
    <3>7. SumOn(MQ, I) <= SumOn(MR, I)
      BY <2>10, <3>6, Duality
    <3> QED
      BY <3>7 DEF MQ, MR
  <2> QED
    BY <2>4, <2>5, <2>11
<1>2. /\ IInv /\ PotentialsCertify /\ Result
      /\ (pc = "done" => assignment \in Assignments(cost))
      => AssignmentOptimal
  BY <1>1 DEF AssignmentOptimal, Optimal
<1> QED
  BY Invariance, PotentialsCorrect, ResultRead, ResultExclusive, <1>2, PTL

=============================================================================
